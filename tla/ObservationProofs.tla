------------------------- MODULE ObservationProofs -------------------------
(***************************************************************************)
(* Proofs about the observation manager, for any number of Channels,       *)
(* observers, waiters and limits, and any lease, gap and history length.   *)
(*                                                                         *)
(* First type correctness, the exact count of waiters and the contiguity   *)
(* of the history.  None of the three is inductive alone: the count needs  *)
(* the phases of the calls, the history needs that no sample lies in the   *)
(* future, and the waiters of an observer can be compared from one state   *)
(* to the next only if a call that is not idle holds a cursor.             *)
(*                                                                         *)
(* Then what the tables have to do with each other: the jobs of the gate   *)
(* with the operations in flight (JobsMatch), the timers with the          *)
(* observers in use (TimerIffHealthy), the observers with their limit      *)
(* (ObserverBound), and the cursors with the leases they were given for    *)
(* (LeaseHonoured).  They hang together.  A sample belongs to an observer  *)
(* that exists only because its job is in the gate exactly while it is in  *)
(* flight; a timer belongs to an observer in use only because a new        *)
(* observer takes the place of one that is out of use; and a cursor lasts  *)
(* as long as its observer because a valid observer never leaves its       *)
(* Channel.                                                                *)
(*                                                                         *)
(* Then what a call is told: that output is idle (OutputIdleSound), a      *)
(* cursor to go on with (CursorCarriesOn), that the pane is gone           *)
(* (NoFalseClosed); and that it is told (NoLostWakeup).  The observers     *)
(* change only when no call is on its way out, and what changes in one     *)
(* wakes its waiters.                                                      *)
(*                                                                         *)
(* Last that the manager implements CursorContract: every step is a step   *)
(* of the contract or cannot be seen by clients (StepRefines).  Beyond     *)
(* what the earlier parts give this takes that the table of cursors holds  *)
(* none that was not given out, so that a full table is a reason the       *)
(* contract knows of, and that a pane that is gone is not sampled again,   *)
(* so that what is gone does not come back (ClientInv).                    *)
(***************************************************************************)
EXTENDS Observation, QueueLemmas, FiniteSetTheorems, TLAPS

Gates == [running : SUBSET Jobs, queue : Seq(Jobs), detached : Nat]

\* The part of HistoryContiguous that is about one observer, and what it needs:
\* the last sample is not in the future.
HistoryOK(r) ==
  /\ Len(r.events) <= MaxHistory
  /\ r.seq = r.evicted + Len(r.events)
  /\ \A i \in DOMAIN r.events :
       /\ r.events[i].seq = r.evicted + i
       /\ r.events[i].at <= r.lastSampleAt /\ r.events[i].sample <= r.sampleCount
Sane(r, t) == r \in Observer /\ HistoryOK(r) /\ r.lastSampleAt <= t

\* Every call that is not idle holds a cursor.
CursorHeld == \A w \in Waiters : wait[w].phase # "idle" => wait[w].token \in Token

\* The invariant, by the variables its parts are about.
TableOK ==
  /\ observers \in [Channels -> Observers \cup {None}]
  /\ born \subseteq Observers /\ creating \subseteq Channels
CursorsOK == disposals \in Nat /\ tokens \subseteq Token /\ issued \subseteq Token /\ retired \subseteq Retired
RecordsOK ==
  /\ now \in Nat
  /\ obs \in [Observers -> Observer]
  /\ \A o \in Observers : Sane(obs[o], now)
WaitOK ==
  /\ waiterCount \in Nat
  /\ wait \in [Waiters -> WaitCall]
  /\ CursorHeld /\ WaiterAccounting
ObsInv == TableOK /\ CursorsOK /\ RecordsOK /\ WaitOK /\ gate \in Gates

-----------------------------------------------------------------------------
(* Observer records.                                                       *)

\* The assumptions about the constants, as the provers can use them.
LEMMA Constants ==
  /\ Slots \in Nat \ {0} /\ MaxHistory \in Nat /\ MaxHistory >= 1 /\ Interval \in Nat
  /\ MaxWaitersPerChannel \in Nat /\ MaxWaitersGlobal \in Nat /\ MaxTime \in Nat
  /\ Lease \in Nat /\ Lifetime \in Nat /\ Gap \in Nat /\ Idles \subseteq Nat /\ Timeouts \subseteq Nat
BY LimitsAssumption, InputsAssumption

\* The types of the fields of a record.
LEMMA Fields ==
  ASSUME NEW r \in Observer
  PROVE  /\ r.channel \in Channels \cup {None} /\ r.created \in Nat /\ r.validUntil \in Nat
         /\ r.seq \in Nat /\ r.evicted \in Nat /\ r.events \in Seq(Event)
         /\ r.failure \in FailureCodes \cup {None} /\ r.due \in Nat
         /\ r.lastSampleAt \in Nat /\ r.sampleCount \in Nat
BY DEF Observer

\* A record that differs only in what Sane does not read.
LEMMA SameHistorySane ==
  ASSUME NEW r \in Observer, NEW s,  Sane(s, now),
         r.events = s.events, r.seq = s.seq, r.evicted = s.evicted,
         r.lastSampleAt = s.lastSampleAt, r.sampleCount = s.sampleCount
  PROVE  Sane(r, now)
BY DEF Sane, HistoryOK

\* A failure, a flag, a lease or a due time leaves a sane record.
LEMMA SaneFailed ==
  ASSUME NEW r, Sane(r, now), NEW code \in FailureCodes
  PROVE  Sane(Failed(r, code), now)
<1>1. Failed(r, code) \in Observer
  BY DEF Failed, Observer, Sane
<1>2. /\ Failed(r, code).events = r.events /\ Failed(r, code).seq = r.seq
      /\ Failed(r, code).evicted = r.evicted
      /\ Failed(r, code).lastSampleAt = r.lastSampleAt
      /\ Failed(r, code).sampleCount = r.sampleCount
  BY DEF Failed, Observer, Sane
<1> QED BY <1>1, <1>2, SameHistorySane

\* Flags do not touch the history (timer, sampling, lossSeen).
LEMMA SaneFlags ==
  ASSUME NEW r, Sane(r, now), NEW b \in BOOLEAN
  PROVE  /\ Sane([r EXCEPT !.timer = b], now) /\ Sane([r EXCEPT !.sampling = b], now)
         /\ Sane([r EXCEPT !.lossSeen = b], now)
<1>1. Sane([r EXCEPT !.timer = b], now)
  BY SameHistorySane DEF Observer, Sane
<1>2. Sane([r EXCEPT !.sampling = b], now)
  BY SameHistorySane DEF Observer, Sane
<1>3. Sane([r EXCEPT !.lossSeen = b], now)
  BY SameHistorySane DEF Observer, Sane
<1> QED BY <1>1, <1>2, <1>3

\* Nor does closing an observer.
LEMMA SaneClosed ==
  ASSUME NEW r, Sane(r, now)
  PROVE  Sane([r EXCEPT !.closed = TRUE], now)
BY SameHistorySane DEF Observer, Sane

\* Nor do the timer's due time and the lease of a record.
LEMMA SaneTimes ==
  ASSUME NEW r, Sane(r, now), NEW n \in Nat
  PROVE  Sane([r EXCEPT !.due = n], now) /\ Sane([r EXCEPT !.validUntil = n], now)
<1>1. Sane([r EXCEPT !.due = n], now)
  BY SameHistorySane DEF Observer, Sane
<1>2. Sane([r EXCEPT !.validUntil = n], now)
  BY SameHistorySane DEF Observer, Sane
<1> QED BY <1>1, <1>2

\* A sample advances the clock of the record to now and keeps its history.
LEMMA SaneSampled ==
  ASSUME now \in Nat, NEW r, Sane(r, now)
  PROVE  /\ Sane(Sampled(r), now)
         /\ Sampled(r).events = r.events /\ Sampled(r).seq = r.seq /\ Sampled(r).evicted = r.evicted
         /\ Sampled(r).lastSampleAt = now /\ Sampled(r).sampleCount = r.sampleCount + 1
<1>0. r \in Observer /\ r.events \in Seq(Event) /\ r.lastSampleAt \in Nat /\ r.sampleCount \in Nat
      /\ r.lastSampleAt <= now
  BY Fields DEF Sane
<1>1. r.sampleCount + 1 \in Nat
  BY <1>0
<1>2. /\ Sampled(r).events = r.events /\ Sampled(r).seq = r.seq /\ Sampled(r).evicted = r.evicted
      /\ Sampled(r).lastSampleAt = now /\ Sampled(r).sampleCount = r.sampleCount + 1
  BY <1>0 DEF Sampled, Observer
<1>3. Sampled(r) \in Observer
  <2> DEFINE n == r.sampleCount + 1
  <2>1. Sampled(r) = [r EXCEPT !.lastSampleAt = now, !.sampleCount = n] /\ n \in Nat
    BY <1>0, <1>1 DEF Sampled, Observer
  <2> HIDE DEF n
  <2> QED BY <1>0, <2>1 DEF Observer
<1>4. ASSUME NEW i \in DOMAIN r.events
      PROVE  r.events[i].at \in Nat /\ r.events[i].sample \in Nat
  <2>1. r.events[i] \in Event
    BY <1>0, ElementOfSeq
  <2> QED BY <2>1 DEF Event
<1>5. HistoryOK(Sampled(r))
  <2>1. ASSUME NEW i \in DOMAIN r.events
        PROVE  /\ r.events[i].seq = r.evicted + i
               /\ r.events[i].at <= now /\ r.events[i].sample <= r.sampleCount + 1
    <3>1. r.events[i].seq = r.evicted + i /\ r.events[i].at <= r.lastSampleAt
          /\ r.events[i].sample <= r.sampleCount
      BY DEF Sane, HistoryOK
    <3> QED BY <3>1, <1>0, <1>4
  <2> QED BY <2>1, <1>2 DEF Sane, HistoryOK
<1> QED BY <1>0, <1>2, <1>3, <1>5 DEF Sane

\* A change: one event more, and one less at the front if the history is full.
LEMMA SaneRecorded ==
  ASSUME now \in Nat, NEW r, Sane(r, now), r.lastSampleAt = now
  PROVE  Sane(Recorded(r), now)
<1> DEFINE e == [seq |-> r.seq + 1, at |-> now, sample |-> r.sampleCount]
           n == r.seq + 1
           s == Append(r.events, e)
           q == [r EXCEPT !.seq = n, !.events = s]
<1>0. r \in Observer /\ r.events \in Seq(Event) /\ r.sampleCount \in Nat /\ r.evicted \in Nat
      /\ r.seq \in Nat /\ MaxHistory \in Nat /\ MaxHistory >= 1
  BY Fields, Constants DEF Sane
<1>1. Recorded(r) = Trimmed(q)
  BY <1>0 DEF Recorded, Observer
<1>2. e \in Event /\ n \in Nat
  BY <1>0 DEF Event
<1>3. /\ s \in Seq(Event) /\ Len(s) = Len(r.events) + 1 /\ Len(s) \in Nat
      /\ \A i \in 1..Len(r.events) : s[i] = r.events[i]
      /\ s[Len(s)] = e /\ DOMAIN s = 1..Len(s) /\ DOMAIN r.events = 1..Len(r.events)
      /\ Len(r.events) \in Nat
  BY <1>0, <1>2, AppendProperties
<1>4. e.seq = n /\ e.at = now /\ e.sample = r.sampleCount
  OBVIOUS
<1>5. Len(r.events) <= MaxHistory /\ r.seq = r.evicted + Len(r.events)
  BY DEF Sane, HistoryOK
<1>6. ASSUME NEW i \in 1..Len(s)
      PROVE  s[i].seq = r.evicted + i /\ s[i].at <= now /\ s[i].sample <= r.sampleCount
  <2>1. CASE i \in 1..Len(r.events)
    BY <2>1, <1>3 DEF Sane, HistoryOK
  <2>2. CASE i = Len(s)
    <3>1. s[i] = e /\ i = Len(r.events) + 1
      BY <2>2, <1>3
    <3>2. n = r.evicted + i
      <4>1. r.evicted \in Nat /\ Len(r.events) \in Nat /\ r.seq = r.evicted + Len(r.events)
        BY <1>0, <1>3, <1>5
      <4> QED BY <3>1, <4>1
    <3>3. now <= now /\ r.sampleCount <= r.sampleCount
      BY <1>0
    <3> QED BY <3>1, <3>2, <3>3, <1>4
  <2>3. i \in 1..Len(r.events) \/ i = Len(s)
    BY <1>3
  <2> QED BY <2>1, <2>2, <2>3
<1> HIDE DEF e, n, s
<1>7. /\ q \in Observer /\ q.seq = n /\ q.events = s /\ q.evicted = r.evicted
      /\ q.lastSampleAt = now /\ q.sampleCount = r.sampleCount
  BY <1>0, <1>2, <1>3 DEF Observer
<1> HIDE DEF q
<1>8. n = r.evicted + Len(s)
  BY <1>0, <1>3, <1>5 DEF n
<1>9. CASE Len(s) <= MaxHistory
  <2>1. Trimmed(q) = q
    BY <1>7, <1>9 DEF Trimmed
  <2>2. HistoryOK(q)
    BY <1>3, <1>6, <1>7, <1>8, <1>9 DEF HistoryOK
  <2> QED BY <1>0, <1>1, <1>7, <2>1, <2>2 DEF Sane
<1>10. CASE ~(Len(s) <= MaxHistory)
  <2> DEFINE t == Tail(s)
             x == Head(s).seq
             p == [q EXCEPT !.events = t, !.evicted = x]
  <2>1. /\ t \in Seq(Event) /\ Len(t) = Len(s) - 1 /\ s # <<>>
        /\ \A i \in 1..(Len(s) - 1) : t[i] = s[i + 1]
    <3>1. s # <<>>
      BY <1>0, <1>3, <1>10, EmptySeq
    <3> QED BY <3>1, <1>3, HeadTailProperties
  <2>2. x = r.evicted + 1 /\ x \in Nat
    <3>1. Head(s) = s[1] /\ 1 \in 1..Len(s)
      BY <1>3, <2>1
    <3> QED BY <3>1, <1>6, <1>0
  <2>3. Trimmed(q) = p
    BY <1>7, <1>10 DEF Trimmed
  <2>4. DOMAIN t = 1..(Len(s) - 1)
    BY <2>1
  <2> HIDE DEF t, x
  <2>5. /\ p \in Observer /\ p.seq = n /\ p.events = t /\ p.evicted = x
        /\ p.lastSampleAt = now /\ p.sampleCount = r.sampleCount
    BY <1>7, <2>1, <2>2 DEF Observer
  <2> HIDE DEF p
  <2>6. ASSUME NEW i \in 1..(Len(s) - 1)
        PROVE  t[i].seq = x + i /\ t[i].at <= now /\ t[i].sample <= r.sampleCount
    <3>1. i + 1 \in 1..Len(s)
      BY <1>3
    <3>2. s[i + 1].seq = r.evicted + (i + 1) /\ s[i + 1].at <= now
          /\ s[i + 1].sample <= r.sampleCount
      BY <3>1, <1>6
    <3>3. t[i] = s[i + 1]
      BY <2>1
    <3>4. r.evicted + (i + 1) = x + i
      <4>1. r.evicted \in Nat /\ i \in Nat /\ x = r.evicted + 1
        BY <2>2, <1>0
      <4> QED BY <4>1
    <3> QED BY <3>2, <3>3, <3>4
  <2>7. Len(t) <= MaxHistory /\ n = x + Len(t)
    <3>1. /\ Len(r.events) \in Nat /\ r.evicted \in Nat /\ Len(s) = Len(r.events) + 1
          /\ Len(r.events) <= MaxHistory /\ n = r.evicted + Len(s)
      BY <1>0, <1>3, <1>5, <1>8
    <3>2. Len(t) = Len(s) - 1 /\ x = r.evicted + 1
      BY <2>1, <2>2
    <3> QED BY <3>1, <3>2, Constants
  <2>8. HistoryOK(p)
    BY <2>4, <2>5, <2>6, <2>7 DEF HistoryOK
  <2> QED BY <1>0, <1>1, <2>3, <2>5, <2>8 DEF Sane
<1> QED BY <1>9, <1>10

\* Whatever the outcome of a sample, the record stays sane.
LEMMA SaneAfterSample ==
  ASSUME now \in Nat, NEW r, Sane(r, now), NEW outcome \in Outcomes
  PROVE  Sane(AfterSample(r, outcome), now)
<1> DEFINE s == Sampled(r)
<1>1. Sane(s, now) /\ s.lastSampleAt = now
  BY SaneSampled
<1>2. s \in Observer
  BY <1>1 DEF Sane
<1> HIDE DEF s
<1>3. CASE outcome \in BackendCodes
  BY <1>3, SaneFailed DEF AfterSample, FailureCodes
<1>4. CASE outcome \notin BackendCodes /\ Stale(r)
  BY <1>4, SaneFailed DEF AfterSample, FailureCodes
<1>5. CASE outcome \notin BackendCodes /\ ~Stale(r)
  <2>1. CASE outcome = "closed"
    <3> DEFINE a == [s EXCEPT !.closed = TRUE]
               b == [a EXCEPT !.timer = FALSE]
    <3>1. Sane(a, now)
      BY <1>1, SaneClosed
    <3>2. Sane(b, now)
      <4> HIDE DEF a
      <4> QED BY <3>1, SaneFlags
    <3>3. Sane([b EXCEPT !.lossSeen = TRUE], now)
      <4> HIDE DEF b
      <4> QED BY <3>2, SaneFlags
    <3>4. AfterSample(r, outcome) = [b EXCEPT !.lossSeen = TRUE]
      BY <1>2, <1>5, <2>1 DEF AfterSample, Observer, s
    <3> QED BY <3>3, <3>4
  <2>2. CASE outcome = "replaced"
    <3>1. Sane(Failed(s, "CHANNEL_INSTANCE_CHANGED"), now)
      BY <1>1, SaneFailed DEF FailureCodes, BackendCodes
    <3>2. AfterSample(r, outcome) = [Failed(s, "CHANNEL_INSTANCE_CHANGED") EXCEPT !.lossSeen = TRUE]
      BY <1>5, <2>2 DEF AfterSample, s
    <3> QED BY <3>1, <3>2, SaneFlags
  <2>3. CASE outcome = "changed"
    <3>1. AfterSample(r, outcome) = Recorded(s)
      BY <1>5, <2>3 DEF AfterSample, s
    <3> QED BY <1>1, <3>1, SaneRecorded
  <2>4. CASE outcome = "unchanged"
    <3>1. AfterSample(r, outcome) = s
      BY <1>5, <2>4 DEF AfterSample, s
    <3> QED BY <1>1, <3>1
  <2> QED BY <1>5, <2>1, <2>2, <2>3, <2>4 DEF Outcomes
<1> QED BY <1>3, <1>4, <1>5

-----------------------------------------------------------------------------
(* The gate.                                                               *)

\* runSample takes a slot or a place in the queue: the gate keeps its type.
LEMMA SubmitType ==
  ASSUME NEW g \in Gates, NEW j \in Jobs
  PROVE  Submit(g, j) \in Gates
BY DEF Submit, Gates

\* The head of the queue takes the slot.
LEMMA HandOverType ==
  ASSUME NEW g \in Gates
  PROVE  HandOver(g) \in Gates
<1>1. CASE g.queue = <<>>
  BY <1>1 DEF HandOver
<1>2. CASE g.queue # <<>>
  <2>1. Head(g.queue) \in Jobs /\ Tail(g.queue) \in Seq(Jobs)
    BY <1>2, HeadTailProperties DEF Gates
  <2> QED BY <1>2, <2>1 DEF HandOver, Gates
<1> QED BY <1>1, <1>2

\* A job that ends hands its slot over.
LEMMA ReleaseType ==
  ASSUME NEW g \in Gates, NEW j
  PROVE  Release(g, j) \in Gates
<1>1. [g EXCEPT !.running = @ \ {j}] \in Gates
  BY DEF Gates
<1> QED BY <1>1, HandOverType DEF Release

\* A job that is abandoned leaves the queue, or its batch runs on detached.
LEMMA WithdrawType ==
  ASSUME NEW g \in Gates, NEW j
  PROVE  Withdraw(g, j) \in Gates
<1>0. g.queue \in Seq(Jobs) /\ g.detached \in Nat
  BY DEF Gates
<1>1. CASE j \in g.running
  <2>1. g.detached + 1 \in Nat
    BY <1>0
  <2> QED BY <1>1, <2>1 DEF Withdraw, Gates
<1>2. CASE j \notin g.running /\ \E i \in DOMAIN g.queue : g.queue[i] = j
  <2> DEFINE k == CHOOSE i \in DOMAIN g.queue : g.queue[i] = j
  <2>1. k \in 1..Len(g.queue)
    BY <1>0, <1>2
  <2>2. RemoveAt(g.queue, k) \in Seq(Jobs)
    <3> HIDE DEF k
    <3> QED BY <1>0, <2>1, RemoveAtIsSeq
  <2>3. Withdraw(g, j) = [g EXCEPT !.queue = RemoveAt(g.queue, k)]
    BY <1>2 DEF Withdraw, Gates
  <2> HIDE DEF k
  <2> QED BY <2>2, <2>3 DEF Gates
<1>3. CASE j \notin g.running /\ ~(\E i \in DOMAIN g.queue : g.queue[i] = j)
  BY <1>3 DEF Withdraw
<1> QED BY <1>1, <1>2, <1>3

\* The three kinds of jobs.
LEMMA JobTypes ==
  /\ \A c \in Channels : Creation(c) \in Jobs
  /\ \A o \in Observers : Sampling(o) \in Jobs
  /\ \A w \in Waiters : Validation(w) \in Jobs
BY DEF Jobs

-----------------------------------------------------------------------------
(* Cursors and disposals.                                                  *)

\* The end of a lease that is renewed now.
LEMMA LeaseEndType ==
  ASSUME now \in Nat, NEW n \in Nat
  PROVE  LeaseEnd(n) \in Nat
BY Constants DEF LeaseEnd

\* A cursor can be issued for any observer and any position in its history.
LEMMA IssueTypes ==
  ASSUME now \in Nat, tokens \subseteq Token, issued \subseteq Token,
         NEW o \in Observers, NEW r \in Observer, NEW n \in Nat, Issue(o, r, n)
  PROVE  Cursor(o, r, n) \in Token /\ tokens' \subseteq Token /\ issued' \subseteq Token
<1>1. r.created \in Nat
  BY Fields
<1>2. Cursor(o, r, n) \in Token
  BY <1>1, LeaseEndType DEF Cursor, Token
<1> QED BY <1>2 DEF Issue, Unexpired

\* maybeDispose leaves the records sane and the tables well-formed.
LEMMA MaybeDisposeKeeps ==
  ASSUME TableOK, CursorsOK, RecordsOK, UNCHANGED <<now, issued>>,
         NEW o \in Observers, NEW r, Sane(r, now), NEW left, MaybeDispose(o, r, left)
  PROVE  observers' \in [Channels -> Observers \cup {None}] /\ CursorsOK' /\ RecordsOK'
<1>0. r \in Observer /\ r.failure \in FailureCodes \cup {None}
  BY Fields DEF Sane
<1>1. CASE left # {} \/ Valid(r)
  <2>1. obs' = [obs EXCEPT ![o] = r] /\ UNCHANGED <<observers, tokens, retired, disposals>>
    BY <1>1 DEF MaybeDispose
  <2> QED BY <1>0, <2>1 DEF TableOK, CursorsOK, RecordsOK
<1>2. CASE ~(left # {} \/ Valid(r))
  <2> DEFINE s == [r EXCEPT !.timer = FALSE]
  <2>1. obs' = [obs EXCEPT ![o] = s]
    BY <1>2 DEF MaybeDispose
  <2>2. s \in Observer /\ Sane(s, now)
    BY SaneFlags DEF Sane
  <2> HIDE DEF s
  <2>3. RecordsOK'
    BY <2>1, <2>2 DEF RecordsOK
  <2>4. CASE observers[r.channel] # o
    <3>1. UNCHANGED <<observers, tokens, retired, disposals>>
      BY <1>2, <2>4 DEF MaybeDispose
    <3> QED BY <2>3, <3>1 DEF TableOK, CursorsOK
  <2>5. CASE observers[r.channel] = o
    <3>1. Dispose(o, r)
      BY <1>2, <2>5 DEF MaybeDispose
    <3>2. observers' \in [Channels -> Observers \cup {None}]
      BY <3>1 DEF Dispose, TableOK
    <3>3. RetirementCode(r) \in FailureCodes \cup {"CURSOR_INVALID"}
      BY <1>0 DEF RetirementCode, FailureCodes, BackendCodes
    <3>4. ASSUME NEW t \in tokens
          PROVE  [token |-> t, code |-> RetirementCode(r), turn |-> disposals] \in Retired
      BY <3>3 DEF CursorsOK, Retired
    <3>5. retired' \subseteq Retired
      BY <3>1, <3>4 DEF Dispose, Latest, CursorsOK
    <3>6. CursorsOK'
      BY <3>1, <3>5 DEF Dispose, CursorsOK
    <3> QED BY <2>3, <3>2, <3>6
  <2> QED BY <2>4, <2>5
<1> QED BY <1>1, <1>2

-----------------------------------------------------------------------------
(* Wait calls.                                                             *)

CountedCalls == {w \in Waiters : wait[w].phase \in Counted}

\* The sets that are counted are finite.
LEMMA WaiterSetsFinite ==
  /\ IsFiniteSet(CountedCalls) /\ Cardinality(CountedCalls) \in Nat
  /\ \A o \in Observers : IsFiniteSet(WaitersOf(o)) /\ Cardinality(WaitersOf(o)) \in Nat
<1>1. IsFiniteSet(CountedCalls)
  <2>1. CountedCalls \subseteq Waiters
    BY DEF CountedCalls
  <2> QED BY <2>1, SetsAssumption, FS_Subset
<1>2. ASSUME NEW o \in Observers
      PROVE  IsFiniteSet(WaitersOf(o))
  <2>1. WaitersOf(o) \subseteq Waiters
    BY DEF WaitersOf
  <2> QED BY <2>1, SetsAssumption, FS_Subset
<1> QED BY <1>1, <1>2, FS_CardinalityType

\* A step in which no call registers, starts or stops to count.
LEMMA CallsKept ==
  ASSUME WaitOK, wait' \in [Waiters -> WaitCall], CursorHeld', UNCHANGED waiterCount,
         \A v \in Waiters : wait'[v].phase \in Registered =>
           wait[v].phase \in Registered /\ wait'[v].token = wait[v].token,
         \A v \in Waiters : wait'[v].phase \in Counted <=> wait[v].phase \in Counted
  PROVE  WaitOK'
<1>1. CountedCalls' = CountedCalls
  BY DEF CountedCalls
<1>2. ASSUME NEW o \in Observers
      PROVE  Cardinality(WaitersOf(o))' <= MaxWaitersPerChannel
  <2>1. WaitersOf(o)' \subseteq WaitersOf(o)
    BY DEF WaitersOf
  <2>2. Cardinality(WaitersOf(o)') <= Cardinality(WaitersOf(o)) /\ Cardinality(WaitersOf(o)') \in Nat
    BY <2>1, WaiterSetsFinite, FS_Subset, FS_CardinalityType
  <2>3. Cardinality(WaitersOf(o)) <= MaxWaitersPerChannel /\ Cardinality(WaitersOf(o)) \in Nat
    BY WaiterSetsFinite DEF WaitOK, WaiterAccounting
  <2> QED BY <2>2, <2>3, Constants
<1>3. WaiterAccounting'
  BY <1>1, <1>2 DEF WaitOK, WaiterAccounting, CountedCalls
<1> QED BY <1>3 DEF WaitOK

\* The same when a single call changes its state.
LEMMA CallMoves ==
  ASSUME WaitOK, NEW w \in Waiters, NEW x \in WaitCall, wait' = [wait EXCEPT ![w] = x],
         x.token = wait[w].token, x.phase \in Counted, wait[w].phase \in Registered,
         UNCHANGED waiterCount
  PROVE  WaitOK'
<1>1. wait' \in [Waiters -> WaitCall]
  BY DEF WaitOK
<1>2. wait'[w] = x /\ \A v \in Waiters : v # w => wait'[v] = wait[v]
  BY DEF WaitOK
<1>3. CursorHeld'
  BY <1>2 DEF WaitOK, CursorHeld, Registered
<1>4. \A v \in Waiters : wait'[v].phase \in Registered =>
           wait[v].phase \in Registered /\ wait'[v].token = wait[v].token
  BY <1>2
<1>5. \A v \in Waiters : wait'[v].phase \in Counted <=> wait[v].phase \in Counted
  BY <1>2 DEF Counted
<1> QED BY <1>1, <1>3, <1>4, <1>5, CallsKept

\* Ways in which a call can end.
LEMMA EndedType ==
  ASSUME WaitOK, NEW w \in Waiters, NEW result \in Reasons \cup ErrorCodes,
         NEW next \in Token \cup {NoToken}, NEW activity \in BOOLEAN
  PROVE  /\ Ended(w, result, next, activity) \in WaitCall
         /\ Ended(w, result, next, activity).token = wait[w].token
         /\ Ended(w, result, next, activity).phase = "settling"
<1>1. wait[w] \in WaitCall BY DEF WaitOK
<1>2. "settling" \in Phases BY DEF Phases
<1> QED BY <1>1, <1>2 DEF Ended, WaitCall

\* ensureActive ends with an error, with closed or with active.
LEMMA VerdictType ==
  ASSUME NEW r \in Observer, NEW t
  PROVE  Verdict(r, t) \in FailureCodes \cup {"closed", "active"}
<1>1. r.failure \in FailureCodes \cup {None}
  BY Fields
<1> QED BY <1>1 DEF Verdict, FailureCodes

\* The observer of a call that has a cursor.
LEMMA ObserverOfCall ==
  ASSUME WaitOK, RecordsOK, NEW w \in Waiters, wait[w].phase # "idle"
  PROVE  wait[w].token \in Token /\ wait[w].token.obs \in Observers /\ Of(w) \in Observer
BY DEF WaitOK, CursorHeld, RecordsOK, Token, Of

\* A call that finds its observer gone is left to settle.
LEMMA StoppedType ==
  ASSUME WaitOK, RecordsOK, NEW w \in Waiters, wait[w].phase # "idle", Found(w) # "active",
         NEW activity \in BOOLEAN
  PROVE  /\ Stopped(w, activity) \in WaitCall
         /\ Stopped(w, activity).token = wait[w].token
         /\ Stopped(w, activity).phase = "settling"
<1>1. wait[w].token \in Token
  BY ObserverOfCall
<1>2. Found(w) \in FailureCodes \cup {"closed"}
  BY ObserverOfCall, VerdictType DEF Found
<1>3. CASE Found(w) = "closed"
  BY <1>1, <1>3, EndedType DEF Stopped, Closed, Reasons
<1>4. CASE Found(w) # "closed"
  <2>1. Found(w) \in ErrorCodes
    BY <1>2, <1>4 DEF ErrorCodes, RefusalCodes
  <2> QED BY <1>4, <2>1, EndedType DEF Stopped, Rejected
<1> QED BY <1>3, <1>4

\* A call that times out is left to settle.
LEMMA TimedOutType ==
  ASSUME WaitOK, RecordsOK, NEW w \in Waiters, wait[w].phase # "idle"
  PROVE  /\ TimedOut(w) \in WaitCall
         /\ TimedOut(w).token = wait[w].token
         /\ TimedOut(w).phase = "settling"
<1>1. CASE Found(w) = "active"
  <2>1. wait[w].token \in Token /\ Fresh(Of(w), wait[w].token) \in BOOLEAN
    BY ObserverOfCall DEF Fresh
  <2> QED BY <1>1, <2>1, EndedType DEF TimedOut, Reasons
<1>2. CASE Found(w) # "active"
  BY <1>2, StoppedType DEF TimedOut
<1> QED BY <1>1, <1>2

\* A call that is rejected is left to settle.
LEMMA RejectedType ==
  ASSUME WaitOK, NEW w \in Waiters, NEW code \in ErrorCodes
  PROVE  /\ Rejected(w, code) \in WaitCall
         /\ Rejected(w, code).token = wait[w].token
         /\ Rejected(w, code).phase = "settling"
BY EndedType DEF Rejected

\* What covers a cursor is an event that the observer holds.
LEMMA CoveringEvent ==
  ASSUME NEW r \in Observer, NEW t, NEW idle, Covered(r, t, idle)
  PROVE  Last(r.events).seq \in Nat
<1>1. r.events \in Seq(Event) /\ r.events # <<>>
  BY Fields DEF Covered, Fresh
<1>2. Len(r.events) \in 1..Len(r.events)
  BY <1>1, EmptySeq
<1>3. Last(r.events) \in Event
  BY <1>1, <1>2, ElementOfSeq DEF Last
<1> QED BY <1>3 DEF Event

\* The second half of an evaluation.
LEMMA JudgeKeeps ==
  ASSUME WaitOK, RecordsOK, NEW w \in Waiters, wait[w].phase \in {"ready", "admitting"},
         NEW g \in Gates, NEW d \in BOOLEAN, Judge(w, g, d), UNCHANGED waiterCount
  PROVE  WaitOK' /\ gate' \in Gates
<1>0. /\ wait[w].phase # "idle" /\ wait[w].phase \in Registered /\ wait[w] \in WaitCall
      /\ "settling" \in Counted
  BY DEF Registered, Counted, WaitOK
<1>1. CASE now >= wait[w].deadline
  <2>1. wait' = [wait EXCEPT ![w] = TimedOut(w)] /\ gate' = g
    BY <1>1 DEF Judge
  <2> QED BY <1>0, <2>1, TimedOutType, CallMoves
<1>2. CASE ~(now >= wait[w].deadline) /\ ~Covered(Of(w), wait[w].token, wait[w].idle)
  <2> DEFINE x == [wait[w] EXCEPT !.phase = IF d THEN "ready" ELSE "parked", !.dirty = FALSE]
  <2>1. wait' = [wait EXCEPT ![w] = x] /\ gate' = g
    BY <1>0, <1>2 DEF Judge, WaitOK
  <2>2. x \in WaitCall /\ x.token = wait[w].token /\ x.phase \in Counted
    BY <1>0 DEF WaitCall, Phases, Counted, Registered
  <2> QED BY <1>0, <2>1, <2>2, CallMoves
<1>3. CASE ~(now >= wait[w].deadline) /\ Covered(Of(w), wait[w].token, wait[w].idle) /\ Full(g)
  <2>1. wait' = [wait EXCEPT ![w] = Rejected(w, "RESOURCE_EXHAUSTED")] /\ gate' = g
    BY <1>3 DEF Judge
  <2>2. "RESOURCE_EXHAUSTED" \in ErrorCodes
    BY DEF ErrorCodes
  <2> QED BY <1>0, <2>1, <2>2, RejectedType, CallMoves
<1>4. CASE ~(now >= wait[w].deadline) /\ Covered(Of(w), wait[w].token, wait[w].idle) /\ ~Full(g)
  <2> DEFINE n == Last(Of(w).events).seq
             x == [wait[w] EXCEPT !.phase = "confirming", !.dirty = d, !.candidate = n]
  <2>1. wait' = [wait EXCEPT ![w] = x] /\ gate' = Submit(g, Validation(w))
    BY <1>0, <1>4 DEF Judge, WaitOK
  <2>2. n \in Nat
    BY <1>0, <1>4, ObserverOfCall, CoveringEvent
  <2> HIDE DEF n
  <2>3. x \in WaitCall /\ x.token = wait[w].token /\ x.phase \in Counted
    BY <1>0, <2>2 DEF WaitCall, Phases, Counted, Registered
  <2> HIDE DEF x
  <2> QED BY <1>0, <2>1, <2>3, CallMoves, SubmitType, JobTypes
<1> QED BY <1>1, <1>2, <1>3, <1>4

-----------------------------------------------------------------------------
(* The initial states, and the steps: the clock and observe().             *)

\* A step that leaves the observers alone keeps their part of the invariant.
LEMMA SameRecords ==
  ASSUME RecordsOK, UNCHANGED <<now, obs>>
  PROVE  RecordsOK'
BY DEF RecordsOK

\* Likewise for the cursors.
LEMMA SameCursors ==
  ASSUME CursorsOK, UNCHANGED cursorVars
  PROVE  CursorsOK'
BY DEF CursorsOK, cursorVars

\* Likewise for the table of observers.
LEMMA SameTable ==
  ASSUME TableOK, UNCHANGED <<observers, born, creating>>
  PROVE  TableOK'
BY DEF TableOK

\* Likewise for the calls.
LEMMA SameCalls ==
  ASSUME WaitOK, UNCHANGED <<waiterCount, wait>>
  PROVE  WaitOK'
BY DEF WaitOK, CursorHeld, WaiterAccounting, WaitersOf

\* An observer without events is sane.
LEMMA Fresh0 ==
  ASSUME now \in Nat, NEW r \in Observer, r.events = <<>>, r.seq = 0, r.evicted = 0,
         r.lastSampleAt <= now
  PROVE  Sane(r, now)
<1>1. Len(r.events) = 0 /\ DOMAIN r.events = {}
  OBVIOUS
<1> QED BY <1>1, Constants DEF Sane, HistoryOK

\* The manager starts within the invariant.
THEOREM ObservationInitial == Init => ObsInv
<1> SUFFICES ASSUME Init PROVE ObsInv
  OBVIOUS
<1>1. TableOK /\ CursorsOK /\ gate \in Gates
  BY DEF Init, TableOK, CursorsOK, Gates
<1>2. Unborn \in Observer
  BY DEF Unborn, Observer
<1>3. RecordsOK
  <2>1. Sane(Unborn, now)
    BY <1>2, Fresh0 DEF Init, Unborn
  <2> QED BY <1>2, <2>1 DEF Init, RecordsOK
<1>4. NoWait \in WaitCall
  BY DEF NoWait, WaitCall, Phases
<1>5. WaitOK
  <2>1. \A w \in Waiters : wait[w] = NoWait /\ wait[w].phase = "idle"
    BY DEF Init, NoWait
  <2>2. CountedCalls = {} /\ \A o \in Observers : WaitersOf(o) = {}
    BY <2>1 DEF CountedCalls, WaitersOf, Counted, Registered
  <2>3. waiterCount = Cardinality(CountedCalls)
    BY <2>2, FS_EmptySet DEF Init
  <2>4. waiterCount <= MaxWaitersGlobal
    BY Constants DEF Init
  <2>5. \A o \in Observers : Cardinality(WaitersOf(o)) <= MaxWaitersPerChannel
    BY <2>2, FS_EmptySet, Constants
  <2>6. WaiterAccounting
    BY <2>3, <2>4, <2>5 DEF WaiterAccounting, CountedCalls
  <2> QED BY <1>4, <2>1, <2>6 DEF Init, WaitOK, CursorHeld
<1> QED BY <1>1, <1>3, <1>5 DEF ObsInv

\* The clock advances: what was not in the future still is not.
LEMMA TickKeeps == ASSUME ObsInv, Tick PROVE ObsInv'
<1> USE DEF ObsInv
<1>1. ASSUME NEW o \in Observers
      PROVE  Sane(obs[o], now')
  <2>1. obs[o].lastSampleAt \in Nat /\ Sane(obs[o], now)
    BY Fields DEF RecordsOK
  <2> QED BY <2>1 DEF Sane, RecordsOK, Tick
<1>2. RecordsOK'
  BY <1>1 DEF Tick, RecordsOK
<1> QED BY <1>2, SameTable, SameCursors, SameCalls DEF Tick

\* observe renews the lease of the observer in use.
LEMMA ObserveRenewKeeps ==
  ASSUME ObsInv, NEW c \in Channels, ObserveRenew(c)
  PROVE  ObsInv'
<1> USE DEF ObsInv
<1> DEFINE o == observers[c]
           n == LeaseEnd(obs[o].created)
           r == [obs[o] EXCEPT !.validUntil = n]
<1>1. o \in Observers
  BY DEF ObserveRenew, Mapped, TableOK
<1>2. now \in Nat /\ obs[o] \in Observer /\ Sane(obs[o], now)
  BY <1>1 DEF RecordsOK
<1>3. n \in Nat
  BY <1>2, Fields, LeaseEndType
<1>4. obs' = [obs EXCEPT ![o] = r] /\ Issue(o, r, r.seq)
  BY DEF ObserveRenew
<1>5. Sane(r, now)
  <2> HIDE DEF n
  <2> QED BY <1>2, <1>3, SaneTimes
<1>6. r \in Observer /\ r.seq \in Nat
  <2> HIDE DEF r
  <2> QED BY <1>5, Fields DEF Sane
<1> HIDE DEF r, o
<1>7. CursorsOK'
  BY <1>1, <1>2, <1>4, <1>6, IssueTypes DEF CursorsOK, ObserveRenew
<1>8. RecordsOK'
  BY <1>4, <1>5, <1>6 DEF RecordsOK, ObserveRenew
<1> QED BY <1>7, <1>8, SameTable, SameCalls DEF ObserveRenew

\* observe retires what is stale and starts a creation.
LEMMA ObserveCreateKeeps ==
  ASSUME ObsInv, NEW c \in Channels, ObserveCreate(c)
  PROVE  ObsInv'
<1> USE DEF ObsInv
<1>1. observers' \in [Channels -> Observers \cup {None}] /\ CursorsOK' /\ RecordsOK'
  <2>1. CASE observers[c] = None
    <3>1. UNCHANGED <<observers, obs, tokens, retired, disposals, now, issued>>
      BY <2>1 DEF ObserveCreate, Supplant
    <3> QED BY <3>1, SameRecords, SameCursors DEF TableOK, cursorVars
  <2>2. CASE observers[c] # None
    <3> DEFINE o == observers[c]
               f == Failed(obs[o], "CURSOR_EXPIRED")
               r == [f EXCEPT !.closed = TRUE]
    <3>1. o \in Observers
      BY <2>2 DEF TableOK
    <3>2. MaybeDispose(o, r, WaitersOf(o)) /\ UNCHANGED <<now, issued>>
      BY <2>2 DEF ObserveCreate, Supplant
    <3>3. Sane(f, now)
      BY <3>1, SaneFailed DEF RecordsOK, FailureCodes
    <3> HIDE DEF f, o
    <3>4. Sane(r, now)
      BY <3>3, SaneClosed
    <3> HIDE DEF r
    <3> QED BY <3>1, <3>2, <3>4, MaybeDisposeKeeps
  <2> QED BY <2>1, <2>2
<1>2. creating' \subseteq Channels /\ gate' \in Gates
  <2>1. CASE WithinLimit /\ ~Full(gate)
    BY <2>1, SubmitType, JobTypes DEF ObserveCreate, TableOK
  <2>2. CASE ~(WithinLimit /\ ~Full(gate))
    BY <2>2 DEF ObserveCreate, TableOK
  <2> QED BY <2>1, <2>2
<1>3. TableOK'
  BY <1>1, <1>2 DEF TableOK, ObserveCreate
<1> QED BY <1>1, <1>2, <1>3, SameCalls DEF ObserveCreate

\* A creation ends with an observer that has no history yet.
LEMMA CreatedKeeps ==
  ASSUME ObsInv, NEW c \in Channels, Created(c)
  PROVE  ObsInv'
<1> USE DEF ObsInv
<1> DEFINE lease == now + Lease
           due == now + Interval
           r == [Unborn EXCEPT !.channel = c, !.created = now, !.validUntil = lease,
                               !.timer = TRUE, !.due = due,
                               !.lastSampleAt = now, !.sampleCount = 1]
<1>1. PICK o \in Observers \ born :
        /\ born' = born \cup {o}
        /\ obs' = [obs EXCEPT ![o] = r]
        /\ observers' = [observers EXCEPT ![c] = o]
        /\ Issue(o, r, 0)
  BY DEF Created
<1>2. now \in Nat /\ lease \in Nat /\ due \in Nat
  BY Constants DEF RecordsOK
<1> HIDE DEF lease, due
<1>3. /\ r \in Observer /\ r.events = <<>> /\ r.seq = 0 /\ r.evicted = 0
      /\ r.lastSampleAt = now
  <2>1. Unborn \in Observer /\ Unborn.events = <<>> /\ Unborn.seq = 0 /\ Unborn.evicted = 0
    BY DEF Unborn, Observer
  <2>2. 1 \in Nat /\ TRUE \in BOOLEAN
    OBVIOUS
  <2> QED BY <1>2, <2>1, <2>2 DEF Observer
<1> HIDE DEF r
<1>4. Sane(r, now)
  <2>1. now <= now
    BY <1>2
  <2> QED BY <1>2, <1>3, <2>1, Fresh0
<1>5. RecordsOK'
  BY <1>1, <1>3, <1>4 DEF RecordsOK, Created
<1>6. CursorsOK'
  BY <1>1, <1>2, <1>3, IssueTypes DEF CursorsOK, Created
<1>7. TableOK'
  BY <1>1 DEF TableOK, Created
<1>8. gate' \in Gates
  BY ReleaseType DEF Created
<1> QED BY <1>5, <1>6, <1>7, <1>8, SameCalls DEF Created

\* A creation fails and leaves the pending ones.
LEMMA CreateFailedKeeps ==
  ASSUME ObsInv, NEW c \in Channels, CreateFailed(c)
  PROVE  ObsInv'
<1> USE DEF ObsInv
<1>1. gate' \in Gates
  BY ReleaseType DEF CreateFailed
<1>2. TableOK'
  BY DEF TableOK, CreateFailed
<1> QED BY <1>1, <1>2, SameRecords, SameCursors, SameCalls DEF CreateFailed

-----------------------------------------------------------------------------
(* The steps of wait().                                                    *)

\* Refusals are error codes, and none is None.
LEMMA RefusalType ==
  ASSUME CursorsOK, RecordsOK, NEW c, NEW t \in Token
  PROVE  /\ Refusal(c, t) \in ErrorCodes \cup {None}
         /\ Refusal(c, t) = None => ~AtLimit(t.obs)
<1>0. None \notin FailureCodes \cup {"CURSOR_INVALID", "WAITER_LIMIT"}
  BY NoneAssumption DEF ErrorCodes, RefusalCodes
<1>1. RetiredCode(t) \in FailureCodes \cup {"CURSOR_INVALID"}
  <2>1. CASE \E e \in retired : e.token = t
    <3> DEFINE x == CHOOSE e \in retired : e.token = t
    <3>1. x \in retired
      BY <2>1
    <3>2. x.code \in FailureCodes \cup {"CURSOR_INVALID"}
      <4> HIDE DEF x
      <4> QED BY <3>1 DEF CursorsOK, Retired
    <3> QED BY <2>1, <3>2 DEF RetiredCode
  <2>2. CASE ~(\E e \in retired : e.token = t)
    BY <2>2 DEF RetiredCode
  <2> QED BY <2>1, <2>2
<1>2. TokenError(obs[t.obs], t) \in FailureCodes \cup {None}
  BY DEF TokenError, FailureCodes
<1>3. Refusal(c, t) \in FailureCodes \cup {"CURSOR_INVALID", "WAITER_LIMIT", None}
  BY <1>1, <1>2 DEF Refusal
<1>4. Refusal(c, t) \in ErrorCodes \cup {None}
  BY <1>3 DEF ErrorCodes, RefusalCodes
<1>5. ASSUME Refusal(c, t) = None
      PROVE  ~AtLimit(t.obs)
  <2>1. RetiredCode(t) # None
    BY <1>0, <1>1
  <2> QED BY <1>0, <1>5, <2>1 DEF Refusal
<1> QED BY <1>4, <1>5

\* wait admits a call below the limits: it is counted and holds its cursor.
LEMMA AdmitKeeps ==
  ASSUME ObsInv, NEW w \in Waiters, NEW c \in Channels, NEW t \in issued,
         NEW idle \in Idles, NEW timeout \in Timeouts, Admit(w, c, t, idle, timeout)
  PROVE  ObsInv'
<1> USE DEF ObsInv
<1> DEFINE end == now + timeout
           x == [NoWait EXCEPT !.phase = "arriving", !.token = t, !.idle = idle, !.deadline = end]
<1>1. t \in Token /\ idle \in Nat /\ end \in Nat
  BY Constants DEF CursorsOK, RecordsOK
<1>2. wait' = [wait EXCEPT ![w] = x] /\ waiterCount' = waiterCount + 1 /\ wait[w].phase = "idle"
  BY DEF Admit
<1>3. ~AtLimit(t.obs) /\ t.obs \in Observers
  BY <1>1, RefusalType DEF Admit, Token
<1> HIDE DEF end
<1>4. x \in WaitCall /\ x.phase = "arriving" /\ x.token = t
  BY <1>1 DEF NoWait, WaitCall, Phases
<1> HIDE DEF x
<1>5. /\ wait' \in [Waiters -> WaitCall] /\ wait'[w] = x
      /\ \A v \in Waiters : v # w => wait'[v] = wait[v]
  BY <1>2, <1>4 DEF WaitOK
<1>6. CursorHeld'
  BY <1>1, <1>4, <1>5 DEF WaitOK, CursorHeld
<1>7. waiterCount' = Cardinality(CountedCalls') /\ waiterCount' <= MaxWaitersGlobal
  <2>1. CountedCalls' = CountedCalls \cup {w} /\ w \notin CountedCalls
    BY <1>2, <1>4, <1>5 DEF CountedCalls, Counted, Registered
  <2>2. Cardinality(CountedCalls') = Cardinality(CountedCalls) + 1
    BY <2>1, WaiterSetsFinite, FS_AddElement
  <2>3. waiterCount = Cardinality(CountedCalls) /\ waiterCount \in Nat
    BY DEF WaitOK, WaiterAccounting, CountedCalls
  <2>4. waiterCount < MaxWaitersGlobal
    BY <1>3, <2>3, Constants DEF AtLimit
  <2> QED BY <1>2, <2>2, <2>3, <2>4, Constants
<1>8. ASSUME NEW o \in Observers
      PROVE  Cardinality(WaitersOf(o)') <= MaxWaitersPerChannel
  <2>1. CASE o = t.obs
    <3>1. WaitersOf(o)' = WaitersOf(o) \cup {w} /\ w \notin WaitersOf(o)
      BY <1>2, <1>4, <1>5, <2>1 DEF WaitersOf, Registered
    <3>2. Cardinality(WaitersOf(o)') = Cardinality(WaitersOf(o)) + 1
      BY <3>1, WaiterSetsFinite, FS_AddElement
    <3>3. Cardinality(WaitersOf(o)) < MaxWaitersPerChannel
      BY <1>3, <2>1, WaiterSetsFinite, Constants DEF AtLimit
    <3>4. Cardinality(WaitersOf(o)) \in Nat
      BY WaiterSetsFinite
    <3> QED BY <3>2, <3>3, <3>4, Constants
  <2>2. CASE o # t.obs
    <3>1. WaitersOf(o)' = WaitersOf(o)
      BY <1>2, <1>4, <1>5, <2>2 DEF WaitersOf, Registered
    <3> QED BY <3>1 DEF WaitOK, WaiterAccounting
  <2> QED BY <2>1, <2>2
<1>9. WaitOK'
  <2>1. waiterCount' \in Nat
    BY <1>2 DEF WaitOK
  <2> QED BY <1>5, <1>6, <1>7, <1>8, <2>1 DEF WaitOK, WaiterAccounting, CountedCalls
<1> QED BY <1>9, SameRecords, SameTable, SameCursors DEF Admit

\* A call that is turned away is never counted.
LEMMA RefuseKeeps ==
  ASSUME ObsInv, NEW w \in Waiters, NEW c \in Channels, NEW t \in issued, Refuse(w, c, t)
  PROVE  ObsInv'
<1> USE DEF ObsInv
<1> DEFINE code == Refusal(c, t)
           x == [NoWait EXCEPT !.phase = "refused", !.token = t, !.result = code]
<1>1. t \in Token /\ code \in ErrorCodes \cup {None}
  BY RefusalType DEF CursorsOK
<1>2. wait' = [wait EXCEPT ![w] = x] /\ wait[w].phase = "idle" /\ UNCHANGED waiterCount
  BY DEF Refuse
<1> HIDE DEF code
<1>3. x \in WaitCall /\ x.phase = "refused" /\ x.token = t
  BY <1>1 DEF NoWait, WaitCall, Phases
<1> HIDE DEF x
<1>4. /\ wait' \in [Waiters -> WaitCall] /\ wait'[w] = x
      /\ \A v \in Waiters : v # w => wait'[v] = wait[v]
  BY <1>2, <1>3 DEF WaitOK
<1>5. CursorHeld'
  BY <1>1, <1>3, <1>4 DEF WaitOK, CursorHeld
<1>6. WaitOK'
  BY <1>2, <1>3, <1>4, <1>5, CallsKept DEF Counted, Registered
<1> QED BY <1>6, SameRecords, SameTable, SameCursors DEF Refuse

\* A call evaluates up to its validation.
LEMMA EvaluateKeeps ==
  ASSUME ObsInv, NEW w \in Waiters, Evaluate(w)
  PROVE  ObsInv'
<1> USE DEF ObsInv
<1>0. /\ wait[w].phase # "idle" /\ wait[w].phase \in Registered /\ wait[w] \in WaitCall
      /\ UNCHANGED waiterCount /\ "settling" \in Counted
  BY DEF Evaluate, Registered, Counted, WaitOK
<1>1. WaitOK' /\ gate' \in Gates
  <2>1. CASE Found(w) # "active"
    <3>1. wait' = [wait EXCEPT ![w] = Stopped(w, FALSE)] /\ UNCHANGED gate
      BY <2>1 DEF Evaluate
    <3> QED BY <1>0, <2>1, <3>1, StoppedType, CallMoves
  <2>2. CASE Found(w) = "active" /\ wait[w].phase = "ready"
    <3>1. Judge(w, gate, FALSE)
      BY <2>2 DEF Evaluate
    <3> QED BY <1>0, <2>2, <3>1, JudgeKeeps
  <2>3. CASE Found(w) = "active" /\ wait[w].phase = "arriving" /\ Full(gate)
    <3>1. wait' = [wait EXCEPT ![w] = Rejected(w, "RESOURCE_EXHAUSTED")] /\ UNCHANGED gate
      BY <2>3 DEF Evaluate
    <3>2. "RESOURCE_EXHAUSTED" \in ErrorCodes
      BY DEF ErrorCodes
    <3> QED BY <1>0, <3>1, <3>2, RejectedType, CallMoves
  <2>4. CASE Found(w) = "active" /\ wait[w].phase = "arriving" /\ ~Full(gate)
    <3> DEFINE x == [wait[w] EXCEPT !.phase = "admitting"]
    <3>1. wait' = [wait EXCEPT ![w] = x] /\ gate' = Submit(gate, Validation(w))
      BY <1>0, <2>4 DEF Evaluate, WaitOK
    <3>2. x \in WaitCall /\ x.token = wait[w].token /\ x.phase \in Counted
      BY <1>0 DEF WaitCall, Phases, Counted, Registered
    <3> HIDE DEF x
    <3> QED BY <1>0, <3>1, <3>2, CallMoves, SubmitType, JobTypes
  <2> QED BY <2>1, <2>2, <2>3, <2>4 DEF Evaluate
<1> QED BY <1>1, SameRecords, SameTable, SameCursors DEF Evaluate

\* The first validation of a call is answered.
LEMMA AdmittedKeeps ==
  ASSUME ObsInv, NEW w \in Waiters, Admitted(w)
  PROVE  ObsInv'
<1> USE DEF ObsInv
<1> DEFINE g == Release(gate, Validation(w))
<1>0. /\ wait[w].phase # "idle" /\ wait[w].phase \in Registered /\ wait[w] \in WaitCall
      /\ UNCHANGED waiterCount /\ "settling" \in Counted
      /\ wait[w].dirty \in BOOLEAN /\ wait[w].phase \in {"ready", "admitting"}
  BY DEF Admitted, Registered, Counted, WaitOK, WaitCall
<1>1. g \in Gates
  BY ReleaseType
<1>2. WaitOK' /\ gate' \in Gates
  <2>1. CASE Found(w) # "active"
    <3>1. wait' = [wait EXCEPT ![w] = Stopped(w, FALSE)] /\ gate' = g
      BY <2>1 DEF Admitted
    <3> HIDE DEF g
    <3> QED BY <1>0, <1>1, <2>1, <3>1, StoppedType, CallMoves
  <2>2. CASE Found(w) = "active"
    <3>1. Judge(w, g, wait[w].dirty)
      BY <2>2 DEF Admitted
    <3> HIDE DEF g
    <3> QED BY <1>0, <1>1, <3>1, JudgeKeeps
  <2> QED BY <2>1, <2>2
<1> QED BY <1>2, SameRecords, SameTable, SameCursors DEF Admitted

\* The confirming validation of a call is answered.
LEMMA ConfirmedKeeps ==
  ASSUME ObsInv, NEW w \in Waiters, Confirmed(w)
  PROVE  ObsInv'
<1> USE DEF ObsInv
<1> DEFINE o == wait[w].token.obs
           n == Last(obs[o].events).seq
<1>0. /\ wait[w].phase # "idle" /\ wait[w].phase \in Registered /\ wait[w] \in WaitCall
      /\ UNCHANGED <<waiterCount, disposals, retired>> /\ "settling" \in Counted
  BY DEF Confirmed, Registered, Counted, WaitOK
<1>1. gate' \in Gates
  BY ReleaseType DEF Confirmed
<1>2. o \in Observers /\ obs[o] \in Observer /\ Of(w) = obs[o] /\ wait[w].token \in Token
  BY <1>0, ObserverOfCall DEF Of
<1>3. WaitOK' /\ tokens' \subseteq Token /\ issued' \subseteq Token
  <2>1. CASE Found(w) # "active"
    <3>1. wait' = [wait EXCEPT ![w] = Stopped(w, TRUE)] /\ UNCHANGED <<tokens, issued>>
      BY <2>1 DEF Confirmed
    <3>2. WaitOK'
      BY <1>0, <2>1, <3>1, StoppedType, CallMoves
    <3> QED BY <3>1, <3>2 DEF CursorsOK
  <2>2. CASE Found(w) = "active" /\ now >= wait[w].deadline
    <3>1. wait' = [wait EXCEPT ![w] = TimedOut(w)] /\ UNCHANGED <<tokens, issued>>
      BY <2>2 DEF Confirmed
    <3>2. WaitOK'
      BY <1>0, <3>1, TimedOutType, CallMoves
    <3> QED BY <3>1, <3>2 DEF CursorsOK
  <2>3. CASE Found(w) = "active" /\ ~(now >= wait[w].deadline) /\ ~StillCandidate(w)
    <3> DEFINE x == [wait[w] EXCEPT !.phase = "ready", !.dirty = FALSE, !.candidate = 0]
    <3>1. wait' = [wait EXCEPT ![w] = x] /\ UNCHANGED <<tokens, issued>>
      BY <1>0, <2>3 DEF Confirmed, WaitOK
    <3>2. x \in WaitCall /\ x.token = wait[w].token /\ x.phase \in Counted
      BY <1>0 DEF WaitCall, Phases, Counted, Registered
    <3> HIDE DEF x
    <3>3. WaitOK'
      BY <1>0, <3>1, <3>2, CallMoves
    <3> QED BY <3>1, <3>3 DEF CursorsOK
  <2>4. CASE Found(w) = "active" /\ ~(now >= wait[w].deadline) /\ StillCandidate(w)
    <3> DEFINE stuck == [NoWait EXCEPT !.phase = "stuck", !.token = wait[w].token]
               ended == Ended(w, "output_idle", Cursor(o, obs[o], n), TRUE)
    <3>1. Issue(o, obs[o], n) /\ wait' = [wait EXCEPT ![w] = IF TableFull THEN stuck ELSE ended]
      BY <2>4 DEF Confirmed
    <3>2. n \in Nat
      BY <1>2, <2>4, CoveringEvent DEF StillCandidate
    <3> HIDE DEF n
    <3>3. Cursor(o, obs[o], n) \in Token /\ tokens' \subseteq Token /\ issued' \subseteq Token
      <4> HIDE DEF o
      <4> QED BY <1>2, <3>1, <3>2, IssueTypes DEF CursorsOK, RecordsOK
    <3>4. ended \in WaitCall /\ ended.token = wait[w].token /\ ended.phase \in Counted
      BY <1>0, <3>3, EndedType DEF Reasons
    <3>5. stuck \in WaitCall /\ stuck.token = wait[w].token /\ stuck.phase \in Counted
      BY <1>2 DEF NoWait, WaitCall, Phases, Counted, Registered
    <3> HIDE DEF stuck, ended
    <3>6. WaitOK'
      BY <1>0, <3>1, <3>4, <3>5, CallMoves
    <3> QED BY <3>3, <3>6
  <2> QED BY <2>1, <2>2, <2>3, <2>4
<1>4. CursorsOK'
  BY <1>0, <1>3 DEF CursorsOK
<1> QED BY <1>1, <1>3, <1>4, SameRecords, SameTable DEF Confirmed

\* A validation fails.
LEMMA ValidationFailsKeeps ==
  ASSUME ObsInv, NEW w \in Waiters, NEW code \in BackendCodes, ValidationFails(w, code)
  PROVE  ObsInv'
<1> USE DEF ObsInv
<1>1. wait[w].phase \in Registered /\ "settling" \in Counted /\ code \in ErrorCodes
  BY DEF ValidationFails, Registered, Counted, ErrorCodes, RefusalCodes, FailureCodes
<1>2. wait' = [wait EXCEPT ![w] = Rejected(w, code)] /\ UNCHANGED waiterCount
  BY DEF ValidationFails
<1>3. WaitOK'
  BY <1>1, <1>2, RejectedType, CallMoves
<1>4. gate' \in Gates
  BY ReleaseType DEF ValidationFails
<1> QED BY <1>3, <1>4, SameRecords, SameTable, SameCursors DEF ValidationFails

\* A batch whose caller has gone ends.
LEMMA DetachedEndsKeeps == ASSUME ObsInv, DetachedEnds PROVE ObsInv'
<1> USE DEF ObsInv
<1> DEFINE n == gate.detached - 1
           g == [gate EXCEPT !.detached = n]
<1>1. n \in Nat
  BY DEF DetachedEnds, Gates
<1>2. gate' = HandOver(g)
  BY DEF DetachedEnds, Gates
<1> HIDE DEF n
<1>3. g \in Gates
  BY <1>1 DEF Gates
<1> HIDE DEF g
<1>4. gate' \in Gates
  BY <1>2, <1>3, HandOverType
<1> QED BY <1>4, SameRecords, SameTable, SameCursors, SameCalls DEF DetachedEnds

\* The deadline of a call comes.
LEMMA DeadlineKeeps ==
  ASSUME ObsInv, NEW w \in Waiters, Deadline(w)
  PROVE  ObsInv'
<1> USE DEF ObsInv
<1>1. wait[w].phase \in Registered /\ wait[w].phase # "idle" /\ "settling" \in Counted
  BY DEF Deadline, Pending, Registered, Counted
<1>2. wait' = [wait EXCEPT ![w] = TimedOut(w)] /\ UNCHANGED waiterCount
  BY DEF Deadline
<1>3. WaitOK'
  BY <1>1, <1>2, TimedOutType, CallMoves
<1>4. gate' \in Gates
  BY WithdrawType DEF Deadline
<1> QED BY <1>3, <1>4, SameRecords, SameTable, SameCursors DEF Deadline

\* A call is cancelled.
LEMMA CancelKeeps ==
  ASSUME ObsInv, NEW w \in Waiters, Cancel(w)
  PROVE  ObsInv'
<1> USE DEF ObsInv
<1>1. /\ wait[w].phase \in Registered /\ "settling" \in Counted
      /\ "BACKEND_OPERATION_FAILED" \in ErrorCodes
  BY DEF Cancel, Pending, Registered, Counted, ErrorCodes
<1>2. wait' = [wait EXCEPT ![w] = Rejected(w, "BACKEND_OPERATION_FAILED")] /\ UNCHANGED waiterCount
  BY DEF Cancel
<1>3. WaitOK'
  BY <1>1, <1>2, RejectedType, CallMoves
<1>4. gate' \in Gates
  BY WithdrawType DEF Cancel
<1> QED BY <1>3, <1>4, SameRecords, SameTable, SameCursors DEF Cancel

\* The poll timer of a call fires.
LEMMA PollKeeps ==
  ASSUME ObsInv, NEW w \in Waiters, Poll(w)
  PROVE  ObsInv'
<1> USE DEF ObsInv
<1> DEFINE x == [wait[w] EXCEPT !.phase = "ready"]
<1>1. wait' = [wait EXCEPT ![w] = x] /\ UNCHANGED waiterCount
  BY DEF Poll, WaitOK
<1>2. /\ x \in WaitCall /\ x.token = wait[w].token /\ x.phase \in Counted
      /\ wait[w].phase \in Registered
  BY DEF Poll, WaitOK, WaitCall, Phases, Counted, Registered
<1> HIDE DEF x
<1>3. WaitOK'
  BY <1>1, <1>2, CallMoves
<1> QED BY <1>3, SameRecords, SameTable, SameCursors DEF Poll

\* The finally block: the call stops to count, whatever becomes of its observer.
LEMMA SettleKeeps ==
  ASSUME ObsInv, NEW w \in Waiters, Settle(w)
  PROVE  ObsInv'
<1> USE DEF ObsInv
<1>1. wait' = [wait EXCEPT ![w] = NoWait] /\ waiterCount' = waiterCount - 1
      /\ wait[w].phase = "settling"
  BY DEF Settle
<1>2. NoWait \in WaitCall /\ NoWait.phase = "idle"
  BY DEF NoWait, WaitCall, Phases
<1>3. /\ wait' \in [Waiters -> WaitCall] /\ wait'[w] = NoWait
      /\ \A v \in Waiters : v # w => wait'[v] = wait[v]
  BY <1>1, <1>2 DEF WaitOK
<1>4. CursorHeld'
  BY <1>2, <1>3 DEF WaitOK, CursorHeld
<1>5. /\ waiterCount' = Cardinality(CountedCalls') /\ waiterCount' \in Nat
      /\ waiterCount' <= MaxWaitersGlobal
  <2>1. CountedCalls' = CountedCalls \ {w} /\ w \in CountedCalls
    BY <1>1, <1>2, <1>3 DEF CountedCalls, Counted, Registered
  <2>2. Cardinality(CountedCalls') = Cardinality(CountedCalls) - 1
        /\ Cardinality(CountedCalls') \in Nat
    <3>1. IsFiniteSet(CountedCalls')
      BY <2>1, WaiterSetsFinite, FS_RemoveElement
    <3> QED BY <2>1, <3>1, WaiterSetsFinite, FS_RemoveElement, FS_CardinalityType
  <2>3. /\ waiterCount = Cardinality(CountedCalls) /\ waiterCount \in Nat
        /\ waiterCount <= MaxWaitersGlobal
    BY DEF WaitOK, WaiterAccounting, CountedCalls
  <2> QED BY <1>1, <2>2, <2>3, Constants
<1>6. \A o \in Observers : WaitersOf(o)' = WaitersOf(o)
  BY <1>1, <1>2, <1>3 DEF WaitersOf, Registered
<1>7. WaitOK'
  BY <1>3, <1>4, <1>5, <1>6 DEF WaitOK, WaiterAccounting, CountedCalls
<1>8. wait[w].token.obs \in Observers /\ Sane(Of(w), now)
  BY <1>1, ObserverOfCall DEF RecordsOK, Of
<1>9. observers' \in [Channels -> Observers \cup {None}] /\ CursorsOK' /\ RecordsOK'
  BY <1>8, MaybeDisposeKeeps DEF Settle
<1>10. TableOK' /\ gate' \in Gates
  BY <1>9 DEF TableOK, Settle
<1> QED BY <1>7, <1>9, <1>10

\* A call that was never admitted throws: it was never counted.
LEMMA ThrownKeeps ==
  ASSUME ObsInv, NEW w \in Waiters, Thrown(w)
  PROVE  ObsInv'
<1> USE DEF ObsInv
<1>1. /\ wait' = [wait EXCEPT ![w] = NoWait] /\ wait[w].phase = "refused"
      /\ UNCHANGED waiterCount
  BY DEF Thrown
<1>2. NoWait \in WaitCall /\ NoWait.phase = "idle"
  BY DEF NoWait, WaitCall, Phases
<1>3. /\ wait' \in [Waiters -> WaitCall] /\ wait'[w] = NoWait
      /\ \A v \in Waiters : v # w => wait'[v] = wait[v]
  BY <1>1, <1>2 DEF WaitOK
<1>4. CursorHeld'
  BY <1>2, <1>3 DEF WaitOK, CursorHeld
<1>5. WaitOK'
  BY <1>1, <1>2, <1>3, <1>4, CallsKept DEF Counted, Registered
<1> QED BY <1>5, SameRecords, SameTable, SameCursors DEF Thrown

-----------------------------------------------------------------------------
(* The steps of the sampler.                                               *)

\* Waking the waiters of an observer changes no count.
LEMMA WokenKeeps ==
  ASSUME WaitOK, NEW o \in Observers, wait' = Woken(o), UNCHANGED waiterCount
  PROVE  WaitOK'
<1>1. ASSUME NEW v \in Waiters
      PROVE  /\ wait'[v] \in WaitCall /\ wait'[v].token = wait[v].token
             /\ wait'[v].phase \in Registered <=> wait[v].phase \in Registered
             /\ wait'[v].phase \in Counted <=> wait[v].phase \in Counted
             /\ wait'[v].phase = "idle" <=> wait[v].phase = "idle"
  <2>0. wait[v] \in WaitCall
    BY DEF WaitOK
  <2>1. CASE v \notin WaitersOf(o)
    <3>1. wait'[v] = wait[v]
      BY <2>1 DEF Woken
    <3> QED BY <2>0, <3>1
  <2>2. CASE v \in WaitersOf(o) /\ wait[v].phase = "parked"
    <3>1. wait'[v] = [wait[v] EXCEPT !.phase = "ready"]
      BY <2>2 DEF Woken
    <3> QED BY <2>0, <2>2, <3>1 DEF WaitCall, Phases, Counted, Registered
  <2>3. CASE v \in WaitersOf(o) /\ wait[v].phase # "parked"
    <3> DEFINE d == wait[v].phase \in {"admitting", "confirming"}
    <3>1. wait'[v] = [wait[v] EXCEPT !.dirty = d] /\ d \in BOOLEAN
      BY <2>3 DEF Woken
    <3> HIDE DEF d
    <3> QED BY <2>0, <3>1 DEF WaitCall
  <2> QED BY <2>1, <2>2, <2>3
<1>2. wait' \in [Waiters -> WaitCall]
  BY <1>1 DEF Woken
<1>3. CursorHeld'
  BY <1>1 DEF WaitOK, CursorHeld
<1> QED BY <1>1, <1>2, <1>3, CallsKept

\* The interval of an observer starts a sample, or finds its lease over.
LEMMA IntervalFiresKeeps ==
  ASSUME ObsInv, NEW o \in Observers, IntervalFires(o)
  PROVE  ObsInv'
<1> USE DEF ObsInv
<1> DEFINE n == IF now = MaxTime THEN now ELSE now + Interval
           r == [obs[o] EXCEPT !.due = n]
<1>1. n \in Nat
  BY Constants DEF RecordsOK
<1>2. Sane(r, now) /\ r \in Observer
  <2> HIDE DEF n
  <2>1. Sane(r, now)
    BY <1>1, SaneTimes DEF RecordsOK
  <2> QED BY <2>1 DEF Sane
<1>3. UNCHANGED <<now, born, creating, issued, waiterCount>>
  BY DEF IntervalFires
<1>4. CASE r.sampling \/ (~Stale(r) /\ Busy(gate) >= Slots)
  <2>1. obs' = [obs EXCEPT ![o] = r] /\ UNCHANGED <<observers, tokens, retired, disposals, gate, wait>>
    BY <1>4 DEF IntervalFires
  <2> HIDE DEF r
  <2>2. RecordsOK'
    BY <1>2, <1>3, <2>1 DEF RecordsOK
  <2> QED BY <1>3, <2>1, <2>2, SameTable, SameCursors, SameCalls DEF cursorVars
<1>5. CASE ~(r.sampling \/ (~Stale(r) /\ Busy(gate) >= Slots)) /\ (Stale(r) \/ r.validUntil <= now)
  <2> DEFINE code == IF Stale(r) THEN "OBSERVATION_GAP" ELSE "CURSOR_EXPIRED"
  <2>1. wait' = Woken(o) /\ MaybeDispose(o, Failed(r, code), WaitersOf(o)) /\ UNCHANGED gate
    BY <1>5 DEF IntervalFires
  <2>2. code \in FailureCodes
    BY DEF FailureCodes
  <2> HIDE DEF r, code
  <2>3. Sane(Failed(r, code), now)
    BY <1>2, <2>2, SaneFailed
  <2>4. observers' \in [Channels -> Observers \cup {None}] /\ CursorsOK' /\ RecordsOK'
    BY <1>3, <2>1, <2>3, MaybeDisposeKeeps
  <2>5. TableOK' /\ gate' \in Gates
    BY <1>3, <2>1, <2>4 DEF TableOK
  <2> QED BY <1>3, <2>1, <2>4, <2>5, WokenKeeps
<1>6. CASE ~(r.sampling \/ (~Stale(r) /\ Busy(gate) >= Slots)) /\ ~(Stale(r) \/ r.validUntil <= now)
  <2> DEFINE s == [r EXCEPT !.sampling = TRUE]
  <2>1. /\ obs' = [obs EXCEPT ![o] = s] /\ gate' = Submit(gate, Sampling(o))
        /\ UNCHANGED <<observers, tokens, retired, disposals, wait>>
    BY <1>6 DEF IntervalFires
  <2> HIDE DEF r
  <2>2. Sane(s, now) /\ s \in Observer
    BY <1>2, SaneFlags DEF Sane
  <2> HIDE DEF s
  <2>3. RecordsOK'
    BY <1>3, <2>1, <2>2 DEF RecordsOK
  <2>4. gate' \in Gates
    BY <2>1, SubmitType, JobTypes
  <2> QED BY <1>3, <2>1, <2>3, <2>4, SameTable, SameCursors, SameCalls DEF cursorVars
<1> QED BY <1>4, <1>5, <1>6

\* A sample ends: an event is recorded behind the last one and the oldest goes.
LEMMA SampleEndsKeeps ==
  ASSUME ObsInv, NEW o \in Observers, NEW outcome \in Outcomes, SampleEnds(o, outcome)
  PROVE  ObsInv'
<1> USE DEF ObsInv
<1> DEFINE a == AfterSample(obs[o], outcome)
           r == [a EXCEPT !.sampling = FALSE]
<1>1. Sane(a, now)
  BY SaneAfterSample DEF RecordsOK
<1>2. /\ MaybeDispose(o, r, WaitersOf(o)) /\ wait' = Woken(o)
      /\ UNCHANGED <<now, born, creating, issued, waiterCount>>
  BY DEF SampleEnds
<1> HIDE DEF a
<1>3. Sane(r, now)
  BY <1>1, SaneFlags
<1> HIDE DEF r
<1>4. observers' \in [Channels -> Observers \cup {None}] /\ CursorsOK' /\ RecordsOK'
  BY <1>2, <1>3, MaybeDisposeKeeps
<1>5. TableOK'
  BY <1>2, <1>4 DEF TableOK
<1>6. gate' \in Gates
  BY ReleaseType DEF SampleEnds
<1> QED BY <1>2, <1>4, <1>5, <1>6, WokenKeeps

-----------------------------------------------------------------------------
\* The invariant is inductive.
THEOREM ObservationInductive == ObsInv /\ [Next]_vars => ObsInv'
<1> SUFFICES ASSUME ObsInv, [Next]_vars PROVE ObsInv'
  OBVIOUS
<1>1. CASE Tick
  BY <1>1, TickKeeps
<1>2. CASE DetachedEnds
  BY <1>2, DetachedEndsKeeps
<1>3. ASSUME NEW c \in Channels, ChannelStep(c) PROVE ObsInv'
  BY <1>3, ObserveRenewKeeps, ObserveCreateKeeps, CreatedKeeps, CreateFailedKeeps DEF ChannelStep
<1>4. ASSUME NEW o \in Observers, ObserverStep(o) PROVE ObsInv'
  BY <1>4, IntervalFiresKeeps, SampleEndsKeeps DEF ObserverStep
<1>5. ASSUME NEW w \in Waiters, WaiterStep(w) PROVE ObsInv'
  <2>1. CASE \E c \in Channels, t \in issued : Refuse(w, c, t)
    BY <2>1, RefuseKeeps
  <2>2. CASE \E c \in Channels, t \in issued, idle \in Idles, timeout \in Timeouts :
               Admit(w, c, t, idle, timeout)
    BY <2>2, AdmitKeeps
  <2>3. CASE Evaluate(w) \/ Admitted(w) \/ Confirmed(w)
    BY <2>3, EvaluateKeeps, AdmittedKeeps, ConfirmedKeeps
  <2>4. CASE \E code \in BackendCodes : ValidationFails(w, code)
    BY <2>4, ValidationFailsKeeps
  <2>5. CASE Deadline(w) \/ Cancel(w) \/ Poll(w) \/ Settle(w) \/ Thrown(w)
    BY <2>5, DeadlineKeeps, CancelKeeps, PollKeeps, SettleKeeps, ThrownKeeps
  <2> QED BY <1>5, <2>1, <2>2, <2>3, <2>4, <2>5 DEF WaiterStep
<1>6. CASE UNCHANGED vars
  BY <1>6, SameRecords, SameTable, SameCursors, SameCalls DEF vars, ObsInv
<1> QED BY <1>1, <1>2, <1>3, <1>4, <1>5, <1>6 DEF Next

\* The invariant implies the checked properties.
LEMMA ObsInvImplies == ObsInv => TypeOK /\ WaiterAccounting /\ HistoryContiguous
BY DEF ObsInv, TableOK, CursorsOK, RecordsOK, WaitOK, Gates, Sane, HistoryOK,
       TypeOK, HistoryContiguous

\* Every reachable state is well-typed; waiterCount counts the calls that have
\* not returned, and the global limit and the limit of each observer hold,
\* however calls end: wait and its finally block.
THEOREM WaitersCounted == Spec => [](TypeOK /\ WaiterAccounting)
BY ObsInvImplies, ObservationInitial, ObservationInductive, PTL DEF Spec

\* The history of every observer is without a hole between what has been
\* evicted and its sequence number, and within its bound: trimHistory.
THEOREM HistoryWithoutHole == Spec => []HistoryContiguous
BY ObsInvImplies, ObservationInitial, ObservationInductive, PTL DEF Spec

\* The state of the manager is well-formed, for any constants.
THEOREM ObservationTypes == Spec => []TypeOK
BY WaitersCounted, PTL

-----------------------------------------------------------------------------
(* The gate and the jobs it stands for.                                    *)

\* The jobs of the gate are those of J, each once, and no slot is idle while one
\* of them waits.
Matches(g, J) ==
  /\ g \in Gates /\ IsFiniteSet(g.running)
  /\ g.running \cup Range(g.queue) = J /\ g.running \cap Range(g.queue) = {}
  /\ IsInjective(g.queue)
  /\ Busy(g) <= Slots
  /\ g.queue # <<>> => Busy(g) = Slots

\* The types of the fields of a gate.
LEMMA GateFields ==
  ASSUME NEW g \in Gates, IsFiniteSet(g.running)
  PROVE  /\ g.running \subseteq Jobs /\ g.queue \in Seq(Jobs) /\ g.detached \in Nat
         /\ Cardinality(g.running) \in Nat /\ Busy(g) \in Nat
BY FS_CardinalityType DEF Gates, Busy

\* A job is submitted.
LEMMA SubmitMatches ==
  ASSUME NEW g, NEW J, Matches(g, J), NEW j \in Jobs, j \notin J
  PROVE  Matches(Submit(g, j), J \cup {j})
<1>0. /\ g \in Gates /\ IsFiniteSet(g.running) /\ g.queue \in Seq(Jobs)
      /\ Cardinality(g.running) \in Nat /\ g.detached \in Nat /\ Busy(g) \in Nat
  BY GateFields DEF Matches
<1>1. Submit(g, j) \in Gates BY <1>0, SubmitType
<1>2. CASE Busy(g) >= Slots
  <2> DEFINE h == Submit(g, j)
  <2>1. h = [g EXCEPT !.queue = Append(g.queue, j)] BY <1>2 DEF Submit
  <2>2. h.running = g.running /\ h.queue = Append(g.queue, j) /\ h.detached = g.detached
    BY <1>0, <2>1 DEF Gates
  <2> HIDE DEF h
  <2>3. j \notin Range(g.queue) BY DEF Matches
  <2>4. Range(h.queue) = Range(g.queue) \cup {j} /\ IsInjective(h.queue)
    BY <1>0, <2>2, <2>3, AppendRange DEF Matches
  <2>5. Busy(h) = Slots BY <1>0, <1>2, <2>2, Constants DEF Busy, Matches
  <2>6. Busy(h) <= Slots BY <2>5, Constants
  <2> QED BY <1>0, <1>1, <2>2, <2>4, <2>5, <2>6 DEF Matches, h
<1>3. CASE ~(Busy(g) >= Slots)
  <2> DEFINE h == Submit(g, j)
  <2>1. h = [g EXCEPT !.running = g.running \cup {j}] BY <1>3 DEF Submit
  <2>2. h.running = g.running \cup {j} /\ h.queue = g.queue /\ h.detached = g.detached
    BY <1>0, <2>1 DEF Gates
  <2> HIDE DEF h
  <2>3. g.queue = <<>> BY <1>0, <1>3, Constants DEF Matches
  <2>4. Range(g.queue) = {} BY <2>3 DEF Range
  <2>5. IsFiniteSet(h.running) /\ Cardinality(h.running) = Cardinality(g.running) + 1
    BY <1>0, <2>2, FS_AddElement DEF Matches
  <2>6. Busy(h) <= Slots BY <1>0, <1>3, <2>2, <2>5, Constants DEF Busy
  <2> QED BY <1>1, <2>2, <2>3, <2>4, <2>5, <2>6 DEF Matches, h
<1> QED BY <1>2, <1>3

\* A slot has been given back: the head of the queue takes it.
LEMMA HandOverMatches ==
  ASSUME NEW g \in Gates, NEW J, IsFiniteSet(g.running),
         g.running \cup Range(g.queue) = J, g.running \cap Range(g.queue) = {},
         IsInjective(g.queue), Busy(g) <= Slots,
         g.queue # <<>> => Busy(g) = Slots - 1
  PROVE  Matches(HandOver(g), J)
<1>1. CASE g.queue = <<>> BY <1>1 DEF HandOver, Matches
<1>2. CASE g.queue # <<>>
  <2> DEFINE h == HandOver(g)
             j == Head(g.queue)
  <2>0. /\ g.queue \in Seq(Jobs) /\ g.detached \in Nat /\ Cardinality(g.running) \in Nat
    BY GateFields
  <2>1. h = [g EXCEPT !.running = g.running \cup {j}, !.queue = Tail(g.queue)]
    BY <1>2 DEF HandOver
  <2>2. h.running = g.running \cup {j} /\ h.queue = Tail(g.queue) /\ h.detached = g.detached
    BY <2>1 DEF Gates
  <2>3. h \in Gates BY HandOverType
  <2> HIDE DEF h, j
  <2>4. j \in Range(g.queue) /\ Range(h.queue) = Range(g.queue) \ {j} /\ IsInjective(h.queue)
    BY <1>2, <2>0, <2>2, TailRange DEF j
  <2>5. IsFiniteSet(h.running) /\ Cardinality(h.running) = Cardinality(g.running) + 1
    BY <2>2, <2>4, FS_AddElement
  <2>6. Busy(h) = Slots BY <1>2, <2>0, <2>2, <2>5, Constants DEF Busy
  <2>7. Busy(h) <= Slots BY <2>6, Constants
  <2>8. h.running \cup Range(h.queue) = J /\ h.running \cap Range(h.queue) = {}
    BY <2>2, <2>4
  <2> QED BY <2>3, <2>4, <2>5, <2>6, <2>7, <2>8 DEF Matches, h
<1> QED BY <1>1, <1>2

\* A job that runs ends.
LEMMA ReleaseMatches ==
  ASSUME NEW g, NEW J, Matches(g, J), NEW j \in g.running
  PROVE  Matches(Release(g, j), J \ {j})
<1> DEFINE h == [g EXCEPT !.running = g.running \ {j}]
<1>0. /\ g \in Gates /\ IsFiniteSet(g.running) /\ g.queue \in Seq(Jobs)
      /\ Cardinality(g.running) \in Nat /\ g.detached \in Nat /\ Busy(g) \in Nat
  BY GateFields DEF Matches
<1>1. h \in Gates /\ h.running = g.running \ {j} /\ h.queue = g.queue /\ h.detached = g.detached
  BY <1>0 DEF Gates
<1>2. Release(g, j) = HandOver(h) BY DEF Release
<1> HIDE DEF h
<1>3. IsFiniteSet(h.running) /\ Cardinality(h.running) = Cardinality(g.running) - 1
  BY <1>0, <1>1, FS_RemoveElement
<1>4. Busy(h) = Busy(g) - 1 BY <1>0, <1>1, <1>3 DEF Busy
<1>5. Busy(h) <= Slots /\ (h.queue # <<>> => Busy(h) = Slots - 1)
  BY <1>0, <1>1, <1>4, Constants DEF Matches
<1>6. h.running \cup Range(h.queue) = J \ {j} /\ h.running \cap Range(h.queue) = {}
  BY <1>1 DEF Matches
<1>7. IsInjective(h.queue) BY <1>1 DEF Matches
<1> QED BY <1>1, <1>2, <1>3, <1>5, <1>6, <1>7, HandOverMatches

\* A batch that nobody awaits ends.
LEMMA DetachedMatches ==
  ASSUME NEW g, NEW J, Matches(g, J), g.detached > 0
  PROVE  Matches(HandOver([g EXCEPT !.detached = @ - 1]), J)
<1> DEFINE n == g.detached - 1
           h == [g EXCEPT !.detached = n]
<1>0. /\ g \in Gates /\ IsFiniteSet(g.running) /\ Cardinality(g.running) \in Nat
      /\ g.detached \in Nat /\ Busy(g) \in Nat
  BY GateFields DEF Matches
<1>1. n \in Nat BY <1>0
<1>2. h \in Gates /\ h.running = g.running /\ h.queue = g.queue /\ h.detached = n
  <2> HIDE DEF n
  <2> QED BY <1>0, <1>1 DEF Gates
<1>3. [g EXCEPT !.detached = @ - 1] = h BY <1>0
<1> HIDE DEF h
<1>4. Busy(h) = Busy(g) - 1 BY <1>0, <1>2 DEF Busy
<1>5. Busy(h) <= Slots /\ (h.queue # <<>> => Busy(h) = Slots - 1)
  BY <1>0, <1>2, <1>4, Constants DEF Matches
<1>6. /\ h.running \cup Range(h.queue) = J /\ h.running \cap Range(h.queue) = {}
      /\ IsInjective(h.queue) /\ IsFiniteSet(h.running)
  BY <1>2 DEF Matches
<1>7. Matches(HandOver(h), J) BY <1>2, <1>5, <1>6, HandOverMatches
<1> QED BY <1>3, <1>7

\* A job is withdrawn, in whatever state it is, or there is none.
LEMMA WithdrawMatches ==
  ASSUME NEW g, NEW J, Matches(g, J), NEW j
  PROVE  Matches(Withdraw(g, j), J \ {j})
<1> DEFINE h == Withdraw(g, j)
<1>0. /\ g \in Gates /\ IsFiniteSet(g.running) /\ g.queue \in Seq(Jobs)
      /\ Cardinality(g.running) \in Nat /\ g.detached \in Nat /\ Busy(g) \in Nat
  BY GateFields DEF Matches
<1>1. h \in Gates BY <1>0, WithdrawType
<1>2. CASE j \in g.running
  <2>1. h = [g EXCEPT !.running = g.running \ {j}, !.detached = g.detached + 1]
    BY <1>2 DEF Withdraw
  <2>2. h.running = g.running \ {j} /\ h.queue = g.queue /\ h.detached = g.detached + 1
    BY <1>0, <2>1 DEF Gates
  <2> HIDE DEF h
  <2>3. IsFiniteSet(h.running) /\ Cardinality(h.running) = Cardinality(g.running) - 1
    BY <1>0, <1>2, <2>2, FS_RemoveElement
  <2>4. Busy(h) = Busy(g) BY <1>0, <2>2, <2>3 DEF Busy
  <2>5. h.running \cup Range(h.queue) = J \ {j} /\ h.running \cap Range(h.queue) = {}
    BY <1>2, <2>2 DEF Matches
  <2> QED BY <1>1, <2>2, <2>3, <2>4, <2>5 DEF Matches, h
<1>3. CASE j \notin g.running /\ \E i \in DOMAIN g.queue : g.queue[i] = j
  <2> DEFINE k == CHOOSE i \in DOMAIN g.queue : g.queue[i] = j
  <2>1. k \in 1..Len(g.queue) /\ g.queue[k] = j BY <1>0, <1>3
  <2>2. h = [g EXCEPT !.queue = RemoveAt(g.queue, k)] BY <1>3 DEF Withdraw
  <2> HIDE DEF k
  <2>3. h.running = g.running /\ h.queue = RemoveAt(g.queue, k) /\ h.detached = g.detached
    BY <1>0, <2>2 DEF Gates
  <2> HIDE DEF h
  <2>4. Range(h.queue) = Range(g.queue) \ {j} /\ IsInjective(h.queue)
    BY <1>0, <2>1, <2>3, RemoveAtRange DEF Matches
  <2>5. g.queue # <<>> BY <1>3
  <2>6. Busy(h) = Busy(g) BY <2>3 DEF Busy
  <2>7. h.running \cup Range(h.queue) = J \ {j} /\ h.running \cap Range(h.queue) = {}
    BY <1>3, <2>3, <2>4 DEF Matches
  <2> QED BY <1>0, <1>1, <2>3, <2>4, <2>5, <2>6, <2>7 DEF Matches, h
<1>4. CASE j \notin g.running /\ ~(\E i \in DOMAIN g.queue : g.queue[i] = j)
  <2>1. h = g BY <1>4 DEF Withdraw
  <2>2. j \notin Range(g.queue) BY <1>4 DEF Range
  <2>3. J \ {j} = J BY <1>4, <2>2 DEF Matches
  <2> QED BY <2>1, <2>3
<1> QED BY <1>2, <1>3, <1>4

-----------------------------------------------------------------------------
\* The operations in flight: creations, samples, validations.
InFlight(cr, sa, va) ==
  {j \in Jobs : \/ j.kind = "create" /\ j.of \in cr
                \/ j.kind = "sample" /\ j.of \in sa
                \/ j.kind = "validate" /\ j.of \in va}

\* A job tells its kind and what it is of.
LEMMA JobKinds ==
  /\ \A c : Creation(c).kind = "create" /\ Creation(c).of = c
  /\ \A o : Sampling(o).kind = "sample" /\ Sampling(o).of = o
  /\ \A w : Validation(w).kind = "validate" /\ Validation(w).of = w
  /\ \A j \in Jobs : \/ j.of \in Channels /\ j = Creation(j.of)
                     \/ j.of \in Observers /\ j = Sampling(j.of)
                     \/ j.of \in Waiters /\ j = Validation(j.of)
BY DEF Creation, Sampling, Validation, Jobs

\* What is in flight when one creation more, or one less, is.
LEMMA CreationFlight ==
  ASSUME NEW cr, NEW sa, NEW va, NEW c \in Channels
  PROVE  /\ Creation(c) \in InFlight(cr, sa, va) <=> c \in cr
         /\ InFlight(cr \cup {c}, sa, va) = InFlight(cr, sa, va) \cup {Creation(c)}
         /\ InFlight(cr \ {c}, sa, va) = InFlight(cr, sa, va) \ {Creation(c)}
<1>1. Creation(c) \in InFlight(cr, sa, va) <=> c \in cr
  BY JobKinds, JobTypes DEF InFlight
<1>2. InFlight(cr \cup {c}, sa, va) = InFlight(cr, sa, va) \cup {Creation(c)}
  BY JobKinds, JobTypes DEF InFlight
<1>3. InFlight(cr \ {c}, sa, va) = InFlight(cr, sa, va) \ {Creation(c)}
  BY JobKinds, JobTypes DEF InFlight
<1> QED BY <1>1, <1>2, <1>3

\* What is in flight when one sample more, or one less, is.
LEMMA SamplingFlight ==
  ASSUME NEW cr, NEW sa, NEW va, NEW o \in Observers
  PROVE  /\ Sampling(o) \in InFlight(cr, sa, va) <=> o \in sa
         /\ InFlight(cr, sa \cup {o}, va) = InFlight(cr, sa, va) \cup {Sampling(o)}
         /\ InFlight(cr, sa \ {o}, va) = InFlight(cr, sa, va) \ {Sampling(o)}
<1>1. Sampling(o) \in InFlight(cr, sa, va) <=> o \in sa
  BY JobKinds, JobTypes DEF InFlight
<1>2. InFlight(cr, sa \cup {o}, va) = InFlight(cr, sa, va) \cup {Sampling(o)}
  BY JobKinds, JobTypes DEF InFlight
<1>3. InFlight(cr, sa \ {o}, va) = InFlight(cr, sa, va) \ {Sampling(o)}
  BY JobKinds, JobTypes DEF InFlight
<1> QED BY <1>1, <1>2, <1>3

\* What is in flight when one validation more, or one less, is.
LEMMA ValidationFlight ==
  ASSUME NEW cr, NEW sa, NEW va, NEW w \in Waiters
  PROVE  /\ Validation(w) \in InFlight(cr, sa, va) <=> w \in va
         /\ InFlight(cr, sa, va \cup {w}) = InFlight(cr, sa, va) \cup {Validation(w)}
         /\ InFlight(cr, sa, va \ {w}) = InFlight(cr, sa, va) \ {Validation(w)}
<1>1. Validation(w) \in InFlight(cr, sa, va) <=> w \in va
  BY JobKinds, JobTypes DEF InFlight
<1>2. InFlight(cr, sa, va \cup {w}) = InFlight(cr, sa, va) \cup {Validation(w)}
  BY JobKinds, JobTypes DEF InFlight
<1>3. InFlight(cr, sa, va \ {w}) = InFlight(cr, sa, va) \ {Validation(w)}
  BY JobKinds, JobTypes DEF InFlight
<1> QED BY <1>1, <1>2, <1>3

-----------------------------------------------------------------------------
(* The tables.                                                             *)

SamplingNow == {o \in Observers : obs[o].sampling}
Validating == {w \in Waiters : wait[w].phase \in {"admitting", "confirming"}}
GateOK == Matches(gate, InFlight(creating, SamplingNow, Validating))

\* Who is mapped exists and belongs to the Channel; who does not exist has done
\* nothing.
Owned ==
  /\ \A c \in Channels : observers[c] # None => observers[c] \in born /\ obs[observers[c]].channel = c
  /\ \A o \in born : obs[o].channel \in Channels
  /\ \A o \in Observers \ born : obs[o] = Unborn

\* No valid observer is out of use.
ValidInUse == \A o \in born : Valid(obs[o]) => InUse(o)

\* The place of c may be taken by another observer.
Vacant(c) == observers[c] = None \/ ~Healthy(obs[observers[c]])

\* Every cursor is of an observer that exists; a good one is in the table.
CursorsGood ==
  \A t \in issued : t.obs \in born /\ (t.exp >= now /\ Valid(obs[t.obs]) => t \in tokens)

CallsOwned == \A w \in Waiters : wait[w].phase # "idle" => wait[w].token.obs \in born

RecordsKept == Owned /\ TimerIffHealthy /\ ValidInUse /\ CursorsGood

TableInv ==
  /\ ObsInv /\ GateOK /\ RecordsKept /\ CallsOwned
  /\ \A c \in creating : Vacant(c)
  /\ ObserverBound

\* What the properties ask for.
LEMMA TableInvImplies == TableInv => JobsMatch /\ TimerIffHealthy /\ ObserverBound /\ LeaseHonoured
<1> SUFFICES ASSUME TableInv PROVE JobsMatch /\ LeaseHonoured BY DEF TableInv, RecordsKept
<1>1. JobsMatch
  <2> DEFINE J == InFlight(creating, SamplingNow, Validating)
  <2>1. Matches(gate, J) BY DEF TableInv, GateOK
  <2>2. ASSUME NEW j \in Jobs PROVE JobOf(j) <=> j \in J
    <3>1. CASE j.of \in Channels /\ j = Creation(j.of)
      BY <3>1, JobKinds DEF JobOf, InFlight
    <3>2. CASE j.of \in Observers /\ j = Sampling(j.of)
      BY <3>2, JobKinds DEF JobOf, InFlight, SamplingNow
    <3>3. CASE j.of \in Waiters /\ j = Validation(j.of)
      BY <3>3, JobKinds DEF JobOf, InFlight, Validating
    <3> QED BY <3>1, <3>2, <3>3, JobKinds
  <2> HIDE DEF J
  <2>3. \A j : InQueue(j) <=> j \in Range(gate.queue) BY DEF InQueue, Range
  <2>4. \A j \in Jobs : JobOf(j) <=> (j \in gate.running \/ InQueue(j))
    BY <2>1, <2>2, <2>3 DEF Matches
  <2>5. \A j \in gate.running : ~InQueue(j) BY <2>1, <2>3 DEF Matches
  <2> QED BY <2>1, <2>4, <2>5 DEF Matches, JobsMatch
<1>2. LeaseHonoured BY DEF TableInv, RecordsKept, CursorsGood, ValidInUse, LeaseHonoured
<1> QED BY <1>1, <1>2

\* The manager starts with empty tables.
LEMMA TableInitial == Init => TableInv
<1> SUFFICES ASSUME Init PROVE TableInv OBVIOUS
<1>1. ObsInv BY ObservationInitial
<1>2. Unborn.timer = FALSE /\ Unborn.sampling = FALSE BY DEF Unborn
<1>3. SamplingNow = {} BY <1>2 DEF Init, SamplingNow
<1>4. Validating = {} BY DEF Init, Validating, NoWait
<1>5. GateOK
  <2> DEFINE g == [running |-> {}, queue |-> <<>>, detached |-> 0]
  <2>1. gate = g /\ g.running = {} /\ g.queue = <<>> /\ g.detached = 0 BY DEF Init
  <2>2. InFlight(creating, SamplingNow, Validating) = {} BY <1>3, <1>4 DEF Init, InFlight
  <2> HIDE DEF g
  <2>3. IsFiniteSet(g.running) /\ Cardinality(g.running) = 0 BY <2>1, FS_EmptySet
  <2>4. Range(g.queue) = {} /\ IsInjective(g.queue) BY <2>1 DEF Range, IsInjective
  <2>5. Busy(g) <= Slots BY <2>1, <2>3, Constants DEF Busy
  <2> QED BY <1>1, <2>1, <2>2, <2>3, <2>4, <2>5 DEF Matches, GateOK, ObsInv
<1>6. Mapped = {} /\ creating = {} BY DEF Init, Mapped
<1>7. ObserverBound
  <2>1. MaxObservers \in Nat BY LimitsAssumption
  <2> QED BY <1>6, <2>1, FS_EmptySet DEF ObserverBound
<1>8. \A o \in Observers : ~InUse(o) BY SetsAssumption DEF Init, InUse
<1>9. RecordsKept
  BY <1>2, <1>8 DEF Init, RecordsKept, Owned, TimerIffHealthy, ValidInUse, CursorsGood
<1>10. CallsOwned BY DEF Init, CallsOwned, NoWait
<1> QED BY <1>1, <1>5, <1>6, <1>7, <1>9, <1>10 DEF TableInv

-----------------------------------------------------------------------------
(* maybeDispose.                                                           *)

\* A step replaces the record of o by r and ends with maybeDispose: r is no more
\* valid than before, and its timer runs if and only if it should.
LEMMA MaybeDisposeRecords ==
  ASSUME ObsInv, RecordsKept, UNCHANGED <<now, issued, born>>,
         NEW o \in born, NEW r \in Observer, r.channel = obs[o].channel,
         r.timer <=> (Healthy(r) /\ InUse(o)),
         Healthy(r) => Healthy(obs[o]), Valid(r) => Valid(obs[o]),
         NEW left, MaybeDispose(o, r, left)
  PROVE  /\ RecordsKept'
         /\ \A c \in Channels : Vacant(c) => Vacant(c)'
         /\ Mapped' \subseteq Mapped
         /\ \A p \in Observers : obs'[p].sampling = IF p = o THEN r.sampling ELSE obs[p].sampling
<1> USE DEF RecordsKept
<1>0. /\ o \in Observers /\ obs \in [Observers -> Observer] /\ born \subseteq Observers
      /\ observers \in [Channels -> Observers \cup {None}] /\ r.channel \in Channels
  BY DEF ObsInv, TableOK, RecordsOK, Owned
<1>1. CASE left # {} \/ Valid(r)
  <2>1. obs' = [obs EXCEPT ![o] = r] /\ UNCHANGED <<observers, tokens, retired, disposals>>
    BY <1>1 DEF MaybeDispose
  <2>2. obs'[o] = r /\ \A p \in Observers : p # o => obs'[p] = obs[p] BY <1>0, <2>1
  <2>3. \A p : InUse(p)' <=> InUse(p) BY <2>1 DEF InUse
  <2>4. Owned' BY <1>0, <2>1, <2>2 DEF Owned
  <2>5. TimerIffHealthy' BY <1>0, <2>2, <2>3 DEF TimerIffHealthy, Healthy
  <2>6. ValidInUse' BY <1>0, <2>2, <2>3 DEF ValidInUse, Valid, Healthy
  <2>7. CursorsGood' BY <1>0, <2>1, <2>2 DEF CursorsGood, Valid, Healthy
  <2>8. \A c \in Channels : Vacant(c) => Vacant(c)' BY <1>0, <2>1, <2>2 DEF Vacant, Healthy
  <2>9. Mapped' = Mapped BY <2>1 DEF Mapped
  <2> QED BY <2>2, <2>4, <2>5, <2>6, <2>7, <2>8, <2>9
<1>2. CASE ~(left # {} \/ Valid(r))
  <2> DEFINE s == [r EXCEPT !.timer = FALSE]
  <2>1. obs' = [obs EXCEPT ![o] = s] BY <1>2 DEF MaybeDispose
  <2>2. /\ s.timer = FALSE /\ s.channel = r.channel /\ s.sampling = r.sampling
        /\ s.closed = r.closed /\ s.failure = r.failure /\ s.validUntil = r.validUntil
    BY DEF Observer
  <2> HIDE DEF s
  <2>3. obs'[o] = s /\ \A p \in Observers : p # o => obs'[p] = obs[p] BY <1>0, <2>1
  <2>4. ~Valid(s) /\ (Healthy(s) <=> Healthy(r)) BY <1>2, <2>2 DEF Valid, Healthy
  <2>5. /\ \A c \in Channels : observers'[c] = IF observers[c] = o THEN None ELSE observers[c]
        /\ \A t \in tokens : t.obs # o => t \in tokens'
    <3>1. \A c \in Channels : observers[c] = o => c = r.channel
      BY <1>0, SetsAssumption DEF Owned
    <3>2. CASE observers[r.channel] = o
      <4>1. observers' = [observers EXCEPT ![r.channel] = None]
            /\ tokens' = tokens \ {t \in tokens : t.obs = o}
        BY <1>2, <3>2 DEF MaybeDispose, Dispose
      <4> QED BY <1>0, <3>1, <3>2, <4>1
    <3>3. CASE observers[r.channel] # o
      <4>1. UNCHANGED <<observers, tokens>> BY <1>2, <3>3 DEF MaybeDispose
      <4> QED BY <1>0, <3>1, <3>3, <4>1
    <3> QED BY <3>2, <3>3
  <2>6. \A p \in Observers : InUse(p)' <=> (InUse(p) /\ p # o)
    BY <1>0, <2>5, SetsAssumption DEF InUse
  <2>7. Owned' BY <1>0, <2>2, <2>3, <2>5 DEF Owned
  <2>8. TimerIffHealthy' BY <1>0, <2>2, <2>3, <2>6 DEF TimerIffHealthy, Healthy
  <2>9. ValidInUse'
    <3> SUFFICES ASSUME NEW p \in born, Valid(obs[p])' PROVE InUse(p)' BY DEF ValidInUse
    <3>1. p # o BY <2>3, <2>4 DEF Valid, Healthy
    <3>2. p \in Observers /\ obs'[p] = obs[p] BY <1>0, <2>3, <3>1
    <3>3. Valid(obs[p]) BY <3>2 DEF Valid, Healthy
    <3> QED BY <2>6, <3>1, <3>2, <3>3 DEF ValidInUse
  <2>10. CursorsGood'
    <3> SUFFICES ASSUME NEW t \in issued PROVE t.obs \in born /\ (t.exp >= now /\ Valid(obs[t.obs])' => t \in tokens')
      BY DEF CursorsGood
    <3>1. t.obs \in born /\ (t.exp >= now /\ Valid(obs[t.obs]) => t \in tokens) BY DEF CursorsGood
    <3>2. CASE t.obs = o BY <2>3, <2>4, <3>1, <3>2 DEF Valid, Healthy
    <3>3. CASE t.obs # o
      <4>1. obs'[t.obs] = obs[t.obs] BY <1>0, <2>3, <3>1, <3>3
      <4> QED BY <2>5, <3>1, <3>3, <4>1 DEF Valid, Healthy
    <3> QED BY <3>2, <3>3
  <2>11. \A c \in Channels : Vacant(c) => Vacant(c)' BY <1>0, <2>3, <2>5 DEF Vacant
  <2>12. Mapped' \subseteq Mapped BY <2>5 DEF Mapped
  <2> QED BY <2>2, <2>3, <2>7, <2>8, <2>9, <2>10, <2>11, <2>12
<1> QED BY <1>1, <1>2

\* The observer that observe() takes out of use leaves its place vacant.
LEMMA MaybeDisposeVacates ==
  ASSUME ObsInv, RecordsKept, NEW c \in Channels, observers[c] # None, NEW r \in Observer,
         r.channel = c, ~Healthy(r), NEW left, MaybeDispose(observers[c], r, left)
  PROVE  Vacant(c)'
<1> DEFINE o == observers[c]
<1>0. o \in Observers /\ obs \in [Observers -> Observer] /\ observers \in [Channels -> Observers \cup {None}]
  BY DEF ObsInv, TableOK, RecordsOK
<1>1. CASE left # {} \/ Valid(r)
  <2>1. obs' = [obs EXCEPT ![o] = r] /\ observers' = observers BY <1>1 DEF MaybeDispose
  <2> QED BY <1>0, <2>1 DEF Vacant, Healthy
<1>2. CASE ~(left # {} \/ Valid(r))
  <2>1. observers' = [observers EXCEPT ![c] = None] BY <1>2 DEF MaybeDispose, Dispose
  <2> QED BY <1>0, <2>1 DEF Vacant
<1> QED BY <1>1, <1>2

\* Fewer mapped observers keep the bound.
LEMMA BoundShrinks ==
  ASSUME ObserverBound, Mapped' \subseteq Mapped, creating' = creating, creating \subseteq Channels
  PROVE  ObserverBound'
<1>1. IsFiniteSet(Mapped) BY SetsAssumption, FS_Subset DEF Mapped
<1>2. IsFiniteSet(creating) BY SetsAssumption, FS_Subset
<1>3. Cardinality(Mapped') <= Cardinality(Mapped) /\ IsFiniteSet(Mapped') BY <1>1, FS_Subset
<1>4. /\ Cardinality(Mapped') \in Nat /\ Cardinality(Mapped) \in Nat /\ Cardinality(creating) \in Nat
  BY <1>1, <1>2, <1>3, FS_CardinalityType
<1> QED BY <1>3, <1>4, LimitsAssumption DEF ObserverBound

-----------------------------------------------------------------------------
(* Steps of the gate and of the calls.                                     *)

\* What the gate stands for if w does not validate.
FlightWithout(w) == InFlight(creating, SamplingNow, Validating \ {w})

\* A step that leaves the observers and the cursors alone.
LEMMA StillTable ==
  ASSUME TableInv, ObsInv', UNCHANGED <<now, observers, obs, born, creating, tokens, issued>>,
         GateOK', CallsOwned'
  PROVE  TableInv'
<1>1. RecordsKept'
  <2>1. Owned' BY DEF TableInv, RecordsKept, Owned
  <2>2. TimerIffHealthy' BY DEF TableInv, RecordsKept, TimerIffHealthy, Healthy, InUse
  <2>3. ValidInUse' BY DEF TableInv, RecordsKept, ValidInUse, Valid, Healthy, InUse
  <2>4. CursorsGood' BY DEF TableInv, RecordsKept, CursorsGood, Valid, Healthy
  <2> QED BY <2>1, <2>2, <2>3, <2>4 DEF RecordsKept
<1>2. \A c \in creating' : Vacant(c)' BY DEF TableInv, Vacant, Healthy
<1>3. ObserverBound' BY DEF TableInv, ObserverBound, Mapped
<1> QED BY <1>1, <1>2, <1>3 DEF TableInv

\* One call moves to x; the gate holds its validation if x awaits one.
LEMMA CallMatches ==
  ASSUME TableInv, UNCHANGED <<obs, creating, born>>,
         NEW w \in Waiters, NEW x, wait' = [wait EXCEPT ![w] = x],
         x.phase # "idle" => x.token.obs \in born,
         \/ /\ x.phase \in {"admitting", "confirming"}
            /\ Matches(gate', FlightWithout(w) \cup {Validation(w)})
         \/ /\ x.phase \notin {"admitting", "confirming"}
            /\ Matches(gate', FlightWithout(w))
  PROVE  GateOK' /\ CallsOwned'
<1>1. wait'[w] = x /\ \A v \in Waiters : v # w => wait'[v] = wait[v]
  BY DEF TableInv, ObsInv, WaitOK
<1>2. CallsOwned' BY <1>1 DEF TableInv, CallsOwned
<1>3. SamplingNow' = SamplingNow BY DEF SamplingNow
<1>4. CASE x.phase \in {"admitting", "confirming"}
  <2>1. Validating' = (Validating \ {w}) \cup {w} BY <1>1, <1>4 DEF Validating
  <2>2. InFlight(creating, SamplingNow, (Validating \ {w}) \cup {w})
          = InFlight(creating, SamplingNow, Validating \ {w}) \cup {Validation(w)}
    BY ValidationFlight
  <2>3. InFlight(creating, SamplingNow, Validating)' = FlightWithout(w) \cup {Validation(w)}
    BY <1>3, <2>1, <2>2 DEF FlightWithout
  <2> QED BY <1>2, <1>4, <2>3 DEF GateOK
<1>5. CASE x.phase \notin {"admitting", "confirming"}
  <2>1. Validating' = Validating \ {w} BY <1>1, <1>5 DEF Validating
  <2>2. InFlight(creating, SamplingNow, Validating)' = FlightWithout(w)
    BY <1>3, <2>1 DEF FlightWithout, InFlight
  <2> QED BY <1>2, <1>5, <2>2 DEF GateOK
<1> QED BY <1>4, <1>5

\* The gate before a call takes or gives back its validation.
LEMMA GateOfCall ==
  ASSUME TableInv, NEW w \in Waiters
  PROVE  /\ Validation(w) \notin FlightWithout(w) /\ Validation(w) \in Jobs
         /\ w \notin Validating => Matches(gate, FlightWithout(w))
         /\ Validation(w) \in gate.running => Matches(Release(gate, Validation(w)), FlightWithout(w))
         /\ Matches(Withdraw(gate, Validation(w)), FlightWithout(w))
<1> DEFINE J == InFlight(creating, SamplingNow, Validating)
<1>1. Matches(gate, J) BY DEF TableInv, GateOK
<1>2. FlightWithout(w) = J \ {Validation(w)}
  BY JobKinds, JobTypes DEF FlightWithout, InFlight
<1>3. Validation(w) \notin FlightWithout(w) BY <1>2
<1>4. w \notin Validating => Matches(gate, FlightWithout(w))
  <2>1. w \notin Validating => Validating \ {w} = Validating OBVIOUS
  <2> QED BY <1>1, <2>1 DEF FlightWithout
<1> HIDE DEF J
<1>5. Validation(w) \in gate.running => Matches(Release(gate, Validation(w)), FlightWithout(w))
  BY <1>1, <1>2, ReleaseMatches
<1>6. Matches(Withdraw(gate, Validation(w)), FlightWithout(w))
  BY <1>1, <1>2, WithdrawMatches
<1> QED BY <1>3, <1>4, <1>5, <1>6, JobTypes

\* How a call that has been evaluated goes on, g being the gate without it.
Moves(w, g) ==
  \E x : /\ wait' = [wait EXCEPT ![w] = x]
         /\ x.phase # "idle" => x.token.obs \in born
         /\ \/ x.phase \in {"admitting", "confirming"} /\ gate' = Submit(g, Validation(w))
            \/ x.phase \notin {"admitting", "confirming"} /\ gate' = g

\* A call that moves keeps the invariant.
LEMMA MovesKeeps ==
  ASSUME TableInv, ObsInv', NEW w \in Waiters, NEW g, Matches(g, FlightWithout(w)), Moves(w, g),
         UNCHANGED <<obs, creating, born>>
  PROVE  GateOK' /\ CallsOwned'
<1>1. PICK x : /\ wait' = [wait EXCEPT ![w] = x]
               /\ x.phase # "idle" => x.token.obs \in born
               /\ \/ x.phase \in {"admitting", "confirming"} /\ gate' = Submit(g, Validation(w))
                  \/ x.phase \notin {"admitting", "confirming"} /\ gate' = g
  BY DEF Moves
<1>2. Matches(Submit(g, Validation(w)), FlightWithout(w) \cup {Validation(w)})
  BY GateOfCall, SubmitMatches
<1> QED BY <1>1, <1>2, CallMatches

\* The second half of an evaluation is such a move.
LEMMA JudgeMoves ==
  ASSUME TableInv, NEW w \in Waiters, wait[w].phase \in {"ready", "admitting"},
         NEW g, NEW d \in BOOLEAN, Judge(w, g, d)
  PROVE  Moves(w, g)
<1> USE DEF TableInv, ObsInv
<1>0. wait[w].phase # "idle" /\ wait[w] \in WaitCall /\ wait[w].token.obs \in born
  BY DEF WaitOK, CallsOwned
<1>1. CASE now >= wait[w].deadline
  <2>1. wait' = [wait EXCEPT ![w] = TimedOut(w)] /\ gate' = g BY <1>1 DEF Judge
  <2> QED BY <1>0, <2>1, TimedOutType DEF Moves
<1>2. CASE ~(now >= wait[w].deadline) /\ ~Covered(Of(w), wait[w].token, wait[w].idle)
  <2> DEFINE p == IF d THEN "ready" ELSE "parked"
             x == [wait[w] EXCEPT !.phase = p, !.dirty = FALSE]
  <2>1. wait' = [wait EXCEPT ![w] = x] /\ gate' = g BY <1>0, <1>2 DEF Judge, WaitOK
  <2>2. x.phase = p /\ x.token = wait[w].token /\ p \notin {"admitting", "confirming"}
    BY <1>0 DEF WaitCall
  <2> HIDE DEF x, p
  <2> QED BY <1>0, <2>1, <2>2 DEF Moves
<1>3. CASE ~(now >= wait[w].deadline) /\ Covered(Of(w), wait[w].token, wait[w].idle) /\ Full(g)
  <2>1. wait' = [wait EXCEPT ![w] = Rejected(w, "RESOURCE_EXHAUSTED")] /\ gate' = g
    BY <1>3 DEF Judge
  <2>2. "RESOURCE_EXHAUSTED" \in ErrorCodes BY DEF ErrorCodes
  <2> QED BY <1>0, <2>1, <2>2, RejectedType DEF Moves
<1>4. CASE ~(now >= wait[w].deadline) /\ Covered(Of(w), wait[w].token, wait[w].idle) /\ ~Full(g)
  <2> DEFINE n == Last(Of(w).events).seq
             x == [wait[w] EXCEPT !.phase = "confirming", !.dirty = d, !.candidate = n]
  <2>1. wait' = [wait EXCEPT ![w] = x] /\ gate' = Submit(g, Validation(w))
    BY <1>0, <1>4 DEF Judge, WaitOK
  <2> HIDE DEF n
  <2>2. x.phase = "confirming" /\ x.token = wait[w].token BY <1>0 DEF WaitCall
  <2> HIDE DEF x
  <2> QED BY <1>0, <2>1, <2>2 DEF Moves
<1> QED BY <1>1, <1>2, <1>3, <1>4

\* An evaluation asks for a validation or leaves the gate alone.
LEMMA EvaluateTable ==
  ASSUME TableInv, ObsInv', NEW w \in Waiters, Evaluate(w)
  PROVE  TableInv'
<1>0. /\ wait[w].phase # "idle" /\ wait[w] \in WaitCall /\ wait[w].token.obs \in born
      /\ w \notin Validating /\ WaitOK /\ RecordsOK
      /\ UNCHANGED <<now, observers, obs, born, creating, tokens, issued>>
  BY DEF Evaluate, TableInv, ObsInv, WaitOK, CallsOwned, Validating, cursorVars
<1>1. Moves(w, gate)
  <2>1. CASE Found(w) # "active"
    <3>1. wait' = [wait EXCEPT ![w] = Stopped(w, FALSE)] /\ gate' = gate BY <2>1 DEF Evaluate
    <3> QED BY <1>0, <2>1, <3>1, StoppedType DEF Moves
  <2>2. CASE Found(w) = "active" /\ wait[w].phase = "ready"
    <3>1. Judge(w, gate, FALSE) BY <2>2 DEF Evaluate
    <3> QED BY <2>2, <3>1, JudgeMoves
  <2>3. CASE Found(w) = "active" /\ wait[w].phase = "arriving" /\ Full(gate)
    <3>1. wait' = [wait EXCEPT ![w] = Rejected(w, "RESOURCE_EXHAUSTED")] /\ gate' = gate
      BY <2>3 DEF Evaluate
    <3>2. "RESOURCE_EXHAUSTED" \in ErrorCodes BY DEF ErrorCodes
    <3> QED BY <1>0, <3>1, <3>2, RejectedType DEF Moves
  <2>4. CASE Found(w) = "active" /\ wait[w].phase = "arriving" /\ ~Full(gate)
    <3> DEFINE x == [wait[w] EXCEPT !.phase = "admitting"]
    <3>1. wait' = [wait EXCEPT ![w] = x] /\ gate' = Submit(gate, Validation(w))
      BY <1>0, <2>4 DEF Evaluate, WaitOK
    <3>2. x.phase = "admitting" /\ x.token = wait[w].token BY <1>0 DEF WaitCall
    <3> HIDE DEF x
    <3> QED BY <1>0, <3>1, <3>2 DEF Moves
  <2> QED BY <2>1, <2>2, <2>3, <2>4 DEF Evaluate
<1>2. GateOK' /\ CallsOwned' BY <1>0, <1>1, GateOfCall, MovesKeeps
<1> QED BY <1>0, <1>2, StillTable

\* The first validation gives its slot back before the call goes on.
LEMMA AdmittedTable ==
  ASSUME TableInv, ObsInv', NEW w \in Waiters, Admitted(w)
  PROVE  TableInv'
<1> DEFINE g == Release(gate, Validation(w))
<1>0. /\ wait[w].phase \in {"ready", "admitting"} /\ wait[w].phase # "idle"
      /\ wait[w] \in WaitCall /\ wait[w].token.obs \in born /\ wait[w].dirty \in BOOLEAN
      /\ WaitOK /\ RecordsOK /\ Validation(w) \in gate.running
      /\ UNCHANGED <<now, observers, obs, born, creating, tokens, issued>>
  BY DEF Admitted, TableInv, ObsInv, WaitOK, CallsOwned, WaitCall, cursorVars
<1>1. Moves(w, g)
  <2>1. CASE Found(w) # "active"
    <3>1. wait' = [wait EXCEPT ![w] = Stopped(w, FALSE)] /\ gate' = g BY <2>1 DEF Admitted
    <3> HIDE DEF g
    <3> QED BY <1>0, <2>1, <3>1, StoppedType DEF Moves
  <2>2. CASE Found(w) = "active"
    <3>1. Judge(w, g, wait[w].dirty) BY <2>2 DEF Admitted
    <3> HIDE DEF g
    <3> QED BY <1>0, <3>1, JudgeMoves
  <2> QED BY <2>1, <2>2
<1>2. Matches(g, FlightWithout(w)) BY <1>0, GateOfCall
<1> HIDE DEF g
<1>3. GateOK' /\ CallsOwned' BY <1>0, <1>1, <1>2, MovesKeeps
<1> QED BY <1>0, <1>3, StillTable

\* So does one that the backend rejects.
LEMMA ValidationFailsTable ==
  ASSUME TableInv, ObsInv', NEW w \in Waiters, NEW code \in BackendCodes, ValidationFails(w, code)
  PROVE  TableInv'
<1> DEFINE g == Release(gate, Validation(w))
<1>0. /\ wait[w].phase # "idle" /\ wait[w].token.obs \in born /\ code \in ErrorCodes
      /\ WaitOK /\ Validation(w) \in gate.running
      /\ wait' = [wait EXCEPT ![w] = Rejected(w, code)] /\ gate' = g
      /\ UNCHANGED <<now, observers, obs, born, creating, tokens, issued>>
  BY DEF ValidationFails, TableInv, ObsInv, CallsOwned, ErrorCodes, RefusalCodes, FailureCodes,
         cursorVars
<1>1. Matches(g, FlightWithout(w)) BY <1>0, GateOfCall
<1> HIDE DEF g
<1>2. Moves(w, g) BY <1>0, RejectedType DEF Moves
<1>3. GateOK' /\ CallsOwned' BY <1>0, <1>1, <1>2, MovesKeeps
<1> QED BY <1>0, <1>3, StillTable

\* A call that ends early withdraws its validation.
LEMMA WithdrawnTable ==
  ASSUME TableInv, ObsInv', NEW w \in Waiters, Deadline(w) \/ Cancel(w)
  PROVE  TableInv'
<1> DEFINE g == Withdraw(gate, Validation(w))
<1>0. /\ wait[w].phase # "idle" /\ wait[w].token.obs \in born /\ WaitOK /\ RecordsOK
      /\ gate' = g /\ UNCHANGED <<now, observers, obs, born, creating, tokens, issued>>
  BY DEF Deadline, Cancel, Pending, TableInv, ObsInv, CallsOwned, cursorVars
<1>1. Matches(g, FlightWithout(w)) BY GateOfCall
<1> HIDE DEF g
<1>2. Moves(w, g)
  <2>1. CASE Deadline(w)
    <3>1. wait' = [wait EXCEPT ![w] = TimedOut(w)] BY <2>1 DEF Deadline
    <3> QED BY <1>0, <3>1, TimedOutType DEF Moves
  <2>2. CASE Cancel(w)
    <3>1. /\ wait' = [wait EXCEPT ![w] = Rejected(w, "BACKEND_OPERATION_FAILED")]
          /\ "BACKEND_OPERATION_FAILED" \in ErrorCodes
      BY <2>2 DEF Cancel, ErrorCodes
    <3> QED BY <1>0, <3>1, RejectedType DEF Moves
  <2> QED BY <2>1, <2>2
<1>3. GateOK' /\ CallsOwned' BY <1>0, <1>1, <1>2, MovesKeeps
<1> QED BY <1>0, <1>3, StillTable

\* The poll timer of a parked call: no validation is in flight for it.
LEMMA PollTable ==
  ASSUME TableInv, ObsInv', NEW w \in Waiters, Poll(w)
  PROVE  TableInv'
<1> DEFINE x == [wait[w] EXCEPT !.phase = "ready"]
<1>0. /\ wait[w].token.obs \in born /\ wait[w] \in WaitCall /\ w \notin Validating
      /\ gate' = gate /\ UNCHANGED <<now, observers, obs, born, creating, tokens, issued>>
  BY DEF Poll, TableInv, ObsInv, WaitOK, CallsOwned, Validating, cursorVars
<1>1. wait' = [wait EXCEPT ![w] = x] BY <1>0 DEF Poll, TableInv, ObsInv, WaitOK
<1>2. x.phase = "ready" /\ x.token = wait[w].token BY <1>0 DEF WaitCall
<1> HIDE DEF x
<1>3. Moves(w, gate) BY <1>0, <1>1, <1>2 DEF Moves
<1>4. GateOK' /\ CallsOwned' BY <1>0, <1>3, GateOfCall, MovesKeeps
<1> QED BY <1>0, <1>4, StillTable

\* A call comes in with a cursor that was issued, so for an observer that exists,
\* or goes: it has no validation in flight.
LEMMA CallerTable ==
  ASSUME TableInv, ObsInv', NEW w \in Waiters,
         \/ \E c \in Channels, t \in issued, idle \in Idles, timeout \in Timeouts :
              Admit(w, c, t, idle, timeout)
         \/ \E c \in Channels, t \in issued : Refuse(w, c, t)
         \/ Thrown(w)
  PROVE  TableInv'
<1>0. /\ w \notin Validating /\ gate' = gate
      /\ UNCHANGED <<now, observers, obs, born, creating, tokens, issued>>
  BY DEF Admit, Refuse, Thrown, Validating, cursorVars
<1>1. Moves(w, gate)
  <2>1. ASSUME NEW c \in Channels, NEW t \in issued, NEW idle \in Idles, NEW timeout \in Timeouts,
               Admit(w, c, t, idle, timeout)
        PROVE  Moves(w, gate)
    <3> DEFINE end == now + timeout
               x == [NoWait EXCEPT !.phase = "arriving", !.token = t, !.idle = idle, !.deadline = end]
    <3>1. wait' = [wait EXCEPT ![w] = x] BY <2>1 DEF Admit
    <3> HIDE DEF end
    <3>2. x.phase = "arriving" /\ x.token = t BY DEF NoWait
    <3> HIDE DEF x
    <3> QED BY <1>0, <3>1, <3>2 DEF Moves, TableInv, RecordsKept, CursorsGood
  <2>2. ASSUME NEW c \in Channels, NEW t \in issued, Refuse(w, c, t) PROVE Moves(w, gate)
    <3> DEFINE code == Refusal(c, t)
               x == [NoWait EXCEPT !.phase = "refused", !.token = t, !.result = code]
    <3>1. wait' = [wait EXCEPT ![w] = x] BY <2>2 DEF Refuse
    <3> HIDE DEF code
    <3>2. x.phase = "refused" /\ x.token = t BY DEF NoWait
    <3> HIDE DEF x
    <3> QED BY <1>0, <3>1, <3>2 DEF Moves, TableInv, RecordsKept, CursorsGood
  <2>3. CASE Thrown(w)
    <3>1. wait' = [wait EXCEPT ![w] = NoWait] /\ NoWait.phase = "idle" BY <2>3 DEF Thrown, NoWait
    <3> QED BY <1>0, <3>1 DEF Moves
  <2> QED BY <2>1, <2>2, <2>3
<1>2. GateOK' /\ CallsOwned' BY <1>0, <1>1, GateOfCall, MovesKeeps
<1> QED BY <1>0, <1>2, StillTable

\* A batch that nobody awaits gives its slot back.
LEMMA DetachedTable ==
  ASSUME TableInv, ObsInv', DetachedEnds
  PROVE  TableInv'
<1>0. UNCHANGED <<now, observers, obs, born, creating, tokens, issued, wait>>
  BY DEF DetachedEnds, cursorVars
<1>1. InFlight(creating, SamplingNow, Validating)' = InFlight(creating, SamplingNow, Validating)
  BY <1>0 DEF InFlight, SamplingNow, Validating
<1>2. GateOK' BY <1>1, DetachedMatches DEF DetachedEnds, TableInv, GateOK
<1>3. CallsOwned' BY <1>0 DEF TableInv, CallsOwned
<1> QED BY <1>0, <1>2, <1>3, StillTable

\* Time makes observers invalid and cursors expire; it makes nothing valid.
LEMMA TickTable ==
  ASSUME TableInv, ObsInv', Tick
  PROVE  TableInv'
<1>0. /\ UNCHANGED <<observers, obs, born, creating, tokens, issued, wait, gate>>
      /\ now' = now + 1 /\ now \in Nat /\ issued \subseteq Token /\ born \subseteq Observers
      /\ obs \in [Observers -> Observer]
  BY DEF Tick, cursorVars, TableInv, ObsInv, RecordsOK, CursorsOK, TableOK
<1>1. InFlight(creating, SamplingNow, Validating)' = InFlight(creating, SamplingNow, Validating)
  BY <1>0 DEF InFlight, SamplingNow, Validating
<1>2. GateOK' /\ CallsOwned' BY <1>0, <1>1 DEF TableInv, GateOK, CallsOwned
<1>3. Owned' /\ TimerIffHealthy'
  BY <1>0 DEF TableInv, RecordsKept, Owned, TimerIffHealthy, Healthy, InUse
<1>4. ASSUME NEW o \in born, Valid(obs[o])' PROVE Valid(obs[o])
  <2>1. obs[o].validUntil \in Nat BY <1>0, Fields
  <2> QED BY <1>0, <1>4, <2>1 DEF Valid, Healthy
<1>5. ValidInUse' BY <1>0, <1>4 DEF TableInv, RecordsKept, ValidInUse, InUse
<1>6. CursorsGood'
  <2> SUFFICES ASSUME NEW t \in issued
               PROVE  t.obs \in born /\ (t.exp >= now' /\ Valid(obs[t.obs])' => t \in tokens)
    BY <1>0 DEF CursorsGood
  <2>1. t.exp \in Nat BY <1>0 DEF Token
  <2>2. t.obs \in born /\ (t.exp >= now /\ Valid(obs[t.obs]) => t \in tokens)
    BY DEF TableInv, RecordsKept, CursorsGood
  <2> QED BY <1>0, <1>4, <2>1, <2>2
<1>7. \A c \in creating' : Vacant(c)' BY <1>0 DEF TableInv, Vacant, Healthy
<1>8. ObserverBound' BY <1>0 DEF TableInv, ObserverBound, Mapped
<1> QED BY <1>2, <1>3, <1>5, <1>6, <1>7, <1>8 DEF TableInv, RecordsKept

\* A cursor is issued: the good ones stay in the table.
LEMMA IssueKeepsGood ==
  ASSUME CursorsGood, UNCHANGED now, born \subseteq born',
         \A p \in born : Valid(obs[p])' => Valid(obs[p]),
         NEW o, o \in born', NEW r, NEW n, Issue(o, r, n)
  PROVE  CursorsGood'
<1> SUFFICES ASSUME NEW t \in issued'
             PROVE  t.obs \in born' /\ (t.exp >= now /\ Valid(obs[t.obs])' => t \in tokens')
  BY DEF CursorsGood
<1>1. CASE t \in issued
  <2>1. t.obs \in born /\ (t.exp >= now /\ Valid(obs[t.obs]) => t \in tokens)
    BY <1>1 DEF CursorsGood
  <2>2. t \in Unexpired => t \in tokens' BY DEF Issue
  <2> QED BY <2>1, <2>2 DEF Unexpired
<1>2. CASE t \notin issued
  <2>1. t = Cursor(o, r, n) /\ t \in tokens' BY <1>2 DEF Issue
  <2>2. t.obs = o BY <2>1 DEF Cursor
  <2> QED BY <2>1, <2>2
<1> QED BY <1>1, <1>2

\* The validation that confirms a candidate: the call ends, waits on, or is given
\* a cursor.
LEMMA ConfirmedTable ==
  ASSUME TableInv, ObsInv', NEW w \in Waiters, Confirmed(w)
  PROVE  TableInv'
<1> DEFINE g == Release(gate, Validation(w))
           o == wait[w].token.obs
           n == Last(obs[o].events).seq
<1>0. /\ wait[w].phase # "idle" /\ wait[w] \in WaitCall /\ wait[w].token.obs \in born
      /\ WaitOK /\ RecordsOK /\ Validation(w) \in gate.running /\ gate' = g
      /\ UNCHANGED <<now, observers, obs, born, creating>>
  BY DEF Confirmed, TableInv, ObsInv, WaitOK, CallsOwned
<1>1. Matches(g, FlightWithout(w)) BY <1>0, GateOfCall
<1> HIDE DEF g
<1>2. Moves(w, g) /\ (UNCHANGED <<tokens, issued>> \/ Issue(o, obs[o], n))
  <2>1. CASE Found(w) # "active"
    <3>1. wait' = [wait EXCEPT ![w] = Stopped(w, TRUE)] /\ UNCHANGED <<tokens, issued>>
      BY <2>1 DEF Confirmed
    <3> QED BY <1>0, <2>1, <3>1, StoppedType DEF Moves
  <2>2. CASE Found(w) = "active" /\ now >= wait[w].deadline
    <3>1. wait' = [wait EXCEPT ![w] = TimedOut(w)] /\ UNCHANGED <<tokens, issued>>
      BY <2>2 DEF Confirmed
    <3> QED BY <1>0, <3>1, TimedOutType DEF Moves
  <2>3. CASE Found(w) = "active" /\ ~(now >= wait[w].deadline) /\ ~StillCandidate(w)
    <3> DEFINE x == [wait[w] EXCEPT !.phase = "ready", !.dirty = FALSE, !.candidate = 0]
    <3>1. wait' = [wait EXCEPT ![w] = x] /\ UNCHANGED <<tokens, issued>>
      BY <1>0, <2>3 DEF Confirmed, WaitOK
    <3>2. x.phase = "ready" /\ x.token = wait[w].token BY <1>0 DEF WaitCall
    <3> HIDE DEF x
    <3> QED BY <1>0, <3>1, <3>2 DEF Moves
  <2>4. CASE Found(w) = "active" /\ ~(now >= wait[w].deadline) /\ StillCandidate(w)
    <3> DEFINE stuck == [NoWait EXCEPT !.phase = "stuck", !.token = wait[w].token]
               ended == Ended(w, "output_idle", Cursor(o, obs[o], n), TRUE)
               x == IF TableFull THEN stuck ELSE ended
    <3>1. Issue(o, obs[o], n) /\ wait' = [wait EXCEPT ![w] = x] BY <2>4 DEF Confirmed
    <3> HIDE DEF n
    <3>2. ended.token = wait[w].token /\ ended.phase = "settling"
      BY <1>0 DEF Ended, WaitCall
    <3>3. stuck.token = wait[w].token /\ stuck.phase = "stuck" BY DEF NoWait
    <3> HIDE DEF stuck, ended
    <3>4. x.token = wait[w].token /\ x.phase \in {"stuck", "settling"} BY <3>2, <3>3
    <3> HIDE DEF x
    <3> QED BY <1>0, <3>1, <3>4 DEF Moves
  <2> QED BY <2>1, <2>2, <2>3, <2>4
<1>3. GateOK' /\ CallsOwned' BY <1>0, <1>1, <1>2, MovesKeeps
<1> HIDE DEF n, o
<1>4. CursorsGood'
  <2>1. CASE UNCHANGED <<tokens, issued>>
    BY <1>0, <2>1 DEF TableInv, RecordsKept, CursorsGood, Valid, Healthy
  <2>2. CASE Issue(o, obs[o], n)
    <3>1. \A p \in born : Valid(obs[p])' => Valid(obs[p]) BY <1>0 DEF Valid, Healthy
    <3>2. CursorsGood /\ o \in born' /\ born \subseteq born' /\ UNCHANGED now
      BY <1>0 DEF TableInv, RecordsKept, o
    <3> QED BY <2>2, <3>1, <3>2, IssueKeepsGood
  <2> QED BY <1>2, <2>1, <2>2
<1>5. Owned' /\ TimerIffHealthy' /\ ValidInUse'
  BY <1>0 DEF TableInv, RecordsKept, Owned, TimerIffHealthy, ValidInUse, Valid, Healthy, InUse
<1>6. \A c \in creating' : Vacant(c)' BY <1>0 DEF TableInv, Vacant, Healthy
<1>7. ObserverBound' BY <1>0 DEF TableInv, ObserverBound, Mapped
<1> QED BY <1>3, <1>4, <1>5, <1>6, <1>7 DEF TableInv, RecordsKept

-----------------------------------------------------------------------------
(* The steps of the observers.                                             *)

\* Waking changes neither which calls validate nor whose they are.
LEMMA WokenTable ==
  ASSUME TableInv, NEW o \in Observers, wait' = Woken(o), UNCHANGED born
  PROVE  Validating' = Validating /\ CallsOwned'
<1>1. ASSUME NEW v \in Waiters
      PROVE  /\ wait'[v].token = wait[v].token
             /\ wait'[v].phase \in {"admitting", "confirming"} <=> wait[v].phase \in {"admitting", "confirming"}
             /\ wait'[v].phase = "idle" <=> wait[v].phase = "idle"
  <2>0. wait[v] \in WaitCall BY DEF TableInv, ObsInv, WaitOK
  <2>1. CASE v \notin WaitersOf(o)
    <3>1. wait'[v] = wait[v] BY <2>1 DEF Woken
    <3> QED BY <3>1
  <2>2. CASE v \in WaitersOf(o) /\ wait[v].phase = "parked"
    <3>1. wait'[v] = [wait[v] EXCEPT !.phase = "ready"] BY <2>2 DEF Woken
    <3> QED BY <2>0, <2>2, <3>1 DEF WaitCall
  <2>3. CASE v \in WaitersOf(o) /\ wait[v].phase # "parked"
    <3> DEFINE d == wait[v].phase \in {"admitting", "confirming"}
    <3>1. wait'[v] = [wait[v] EXCEPT !.dirty = d] BY <2>3 DEF Woken
    <3> HIDE DEF d
    <3> QED BY <2>0, <3>1 DEF WaitCall
  <2> QED BY <2>1, <2>2, <2>3
<1>2. Validating' = Validating BY <1>1 DEF Validating
<1>3. CallsOwned' BY <1>1 DEF TableInv, CallsOwned
<1> QED BY <1>2, <1>3

\* A step ends with maybeDispose of o, whose record has become r.
LEMMA DisposingTable ==
  ASSUME TableInv, ObsInv', UNCHANGED <<now, issued, born, creating>>,
         NEW o \in born, NEW r \in Observer, r.channel = obs[o].channel,
         r.timer <=> (Healthy(r) /\ InUse(o)),
         Healthy(r) => Healthy(obs[o]), Valid(r) => Valid(obs[o]),
         NEW left, MaybeDispose(o, r, left),
         Validating' = Validating, CallsOwned',
         Matches(gate', InFlight(creating, IF r.sampling THEN SamplingNow \cup {o}
                                           ELSE SamplingNow \ {o}, Validating))
  PROVE  TableInv'
<1>1. /\ RecordsKept'
      /\ \A c \in Channels : Vacant(c) => Vacant(c)'
      /\ Mapped' \subseteq Mapped
      /\ \A p \in Observers : obs'[p].sampling = IF p = o THEN r.sampling ELSE obs[p].sampling
  BY MaybeDisposeRecords DEF TableInv
<1>2. SamplingNow' = IF r.sampling THEN SamplingNow \cup {o} ELSE SamplingNow \ {o}
  <2>1. o \in Observers BY DEF TableInv, ObsInv, TableOK
  <2>2. CASE r.sampling BY <1>1, <2>1, <2>2 DEF SamplingNow
  <2>3. CASE ~r.sampling BY <1>1, <2>1, <2>3 DEF SamplingNow
  <2> QED BY <2>2, <2>3
<1>3. GateOK' BY <1>2 DEF GateOK
<1>4. \A c \in creating' : Vacant(c)' BY <1>1 DEF TableInv, ObsInv, TableOK
<1>5. ObserverBound' BY <1>1, BoundShrinks DEF TableInv, ObsInv, TableOK
<1> QED BY <1>1, <1>3, <1>4, <1>5 DEF TableInv

\* The samples in flight, if o is one of them or not as r says.
LEMMA SameSampling ==
  ASSUME TableInv, NEW o \in Observers, NEW b, b = obs[o].sampling
  PROVE  (IF b THEN SamplingNow \cup {o} ELSE SamplingNow \ {o}) = SamplingNow
BY DEF SamplingNow

\* The finally block of wait: the observer may go, now that nobody waits on it.
LEMMA SettleTable ==
  ASSUME TableInv, ObsInv', NEW w \in Waiters, Settle(w)
  PROVE  TableInv'
<1> DEFINE o == wait[w].token.obs
           r == obs[o]
<1>1. /\ o \in born /\ o \in Observers /\ r \in Observer
      /\ UNCHANGED <<now, issued, born, creating, gate>>
      /\ wait' = [wait EXCEPT ![w] = NoWait] /\ MaybeDispose(o, r, WaitersOf(o))
      /\ wait[w].phase = "settling"
  BY DEF Settle, Of, TableInv, ObsInv, TableOK, RecordsOK, CallsOwned
<1>2. r.timer <=> (Healthy(r) /\ InUse(o)) BY <1>1 DEF TableInv, RecordsKept, TimerIffHealthy
<1>3. /\ NoWait.phase = "idle" /\ wait'[w] = NoWait
      /\ \A v \in Waiters : v # w => wait'[v] = wait[v]
  BY <1>1 DEF NoWait, TableInv, ObsInv, WaitOK
<1>4. Validating' = Validating BY <1>1, <1>3 DEF Validating
<1>5. CallsOwned' BY <1>1, <1>3 DEF TableInv, CallsOwned
<1>6. (IF r.sampling THEN SamplingNow \cup {o} ELSE SamplingNow \ {o}) = SamplingNow
  BY <1>1, SameSampling
<1>7. Matches(gate', InFlight(creating, IF r.sampling THEN SamplingNow \cup {o}
                                        ELSE SamplingNow \ {o}, Validating))
  BY <1>1, <1>6 DEF TableInv, GateOK
<1> HIDE DEF r, o
<1>8. r.channel = obs[o].channel /\ (Healthy(r) => Healthy(obs[o])) /\ (Valid(r) => Valid(obs[o]))
  BY DEF r
<1> QED BY <1>1, <1>2, <1>4, <1>5, <1>7, <1>8, DisposingTable

\* The interval fires for an observer in use: it samples, waits for its turn, or
\* ends the observer.
LEMMA IntervalFiresTable ==
  ASSUME TableInv, ObsInv', NEW o \in Observers, IntervalFires(o)
  PROVE  TableInv'
<1> DEFINE n == IF now = MaxTime THEN now ELSE now + Interval
           r == [obs[o] EXCEPT !.due = n]
<1>1. /\ obs[o].timer /\ obs[o] \in Observer /\ UNCHANGED <<now, born, creating, issued>>
      /\ now \in Nat
  BY DEF IntervalFires, TableInv, ObsInv, RecordsOK
<1>2. o \in born /\ Healthy(obs[o]) /\ InUse(o)
  <2>1. Healthy(obs[o]) /\ InUse(o) BY <1>1 DEF TableInv, RecordsKept, TimerIffHealthy
  <2>2. o \in born BY <2>1, SetsAssumption DEF InUse, TableInv, RecordsKept, Owned
  <2> QED BY <2>1, <2>2
<1>3. n \in Nat BY <1>1, Constants
<1>4. /\ r \in Observer /\ r.channel = obs[o].channel /\ r.closed = obs[o].closed
      /\ r.failure = obs[o].failure /\ r.validUntil = obs[o].validUntil
      /\ r.timer = obs[o].timer /\ r.sampling = obs[o].sampling
  <2> HIDE DEF n
  <2> QED BY <1>1, <1>3 DEF Observer
<1>5. (Healthy(r) <=> Healthy(obs[o])) /\ (Valid(r) <=> Valid(obs[o])) BY <1>4 DEF Valid, Healthy
<1>6. GateOK /\ CallsOwned BY DEF TableInv
<1>7. CASE r.sampling \/ (~Stale(r) /\ Busy(gate) >= Slots)
  <2>1. obs' = [obs EXCEPT ![o] = r] /\ UNCHANGED <<observers, tokens, retired, disposals, gate, wait>>
    BY <1>7 DEF IntervalFires
  <2> HIDE DEF r
  <2>2. MaybeDispose(o, r, {o}) BY <2>1 DEF MaybeDispose
  <2>3. (IF r.sampling THEN SamplingNow \cup {o} ELSE SamplingNow \ {o}) = SamplingNow
    BY <1>4, SameSampling
  <2>4. Validating' = Validating /\ CallsOwned' BY <1>1, <1>6, <2>1 DEF Validating, CallsOwned
  <2>5. Matches(gate', InFlight(creating, IF r.sampling THEN SamplingNow \cup {o}
                                          ELSE SamplingNow \ {o}, Validating))
    BY <1>6, <2>1, <2>3 DEF GateOK
  <2>6. r.timer <=> (Healthy(r) /\ InUse(o)) BY <1>1, <1>2, <1>4, <1>5
  <2> QED BY <1>1, <1>2, <1>4, <1>5, <2>2, <2>4, <2>5, <2>6, DisposingTable
<1>8. CASE ~(r.sampling \/ (~Stale(r) /\ Busy(gate) >= Slots)) /\ (Stale(r) \/ r.validUntil <= now)
  <2> DEFINE code == IF Stale(r) THEN "OBSERVATION_GAP" ELSE "CURSOR_EXPIRED"
             f == Failed(r, code)
  <2>1. wait' = Woken(o) /\ MaybeDispose(o, f, WaitersOf(o)) /\ UNCHANGED gate
    BY <1>8 DEF IntervalFires
  <2>2. code \in FailureCodes /\ code # None
    BY NoneAssumption DEF FailureCodes, ErrorCodes, RefusalCodes
  <2> HIDE DEF r, code
  <2>3. /\ f \in Observer /\ f.channel = obs[o].channel /\ f.timer = FALSE /\ ~Healthy(f)
        /\ f.sampling = obs[o].sampling
    BY <1>4, <2>2 DEF Failed, Observer, Healthy
  <2> HIDE DEF f
  <2>4. ~Valid(f) BY <2>3 DEF Valid
  <2>5. (IF f.sampling THEN SamplingNow \cup {o} ELSE SamplingNow \ {o}) = SamplingNow
    BY <2>3, SameSampling
  <2>6. Matches(gate', InFlight(creating, IF f.sampling THEN SamplingNow \cup {o}
                                          ELSE SamplingNow \ {o}, Validating))
    BY <1>6, <2>1, <2>5 DEF GateOK
  <2>7. Validating' = Validating /\ CallsOwned' BY <1>1, <2>1, WokenTable
  <2> QED BY <1>1, <1>2, <2>1, <2>3, <2>4, <2>6, <2>7, DisposingTable
<1>9. CASE ~(r.sampling \/ (~Stale(r) /\ Busy(gate) >= Slots)) /\ ~(Stale(r) \/ r.validUntil <= now)
  <2> DEFINE s == [r EXCEPT !.sampling = TRUE]
  <2>1. /\ obs' = [obs EXCEPT ![o] = s] /\ gate' = Submit(gate, Sampling(o))
        /\ UNCHANGED <<observers, tokens, retired, disposals, wait>>
    BY <1>9 DEF IntervalFires
  <2>0. ~r.sampling BY <1>9
  <2> HIDE DEF r
  <2>2. /\ s \in Observer /\ s.channel = r.channel /\ s.closed = r.closed /\ s.failure = r.failure
        /\ s.validUntil = r.validUntil /\ s.timer = r.timer /\ s.sampling
    BY <1>4 DEF Observer
  <2> HIDE DEF s
  <2>3. MaybeDispose(o, s, {o}) BY <2>1 DEF MaybeDispose
  <2>4. (Healthy(s) <=> Healthy(obs[o])) /\ (Valid(s) <=> Valid(obs[o]))
    BY <1>5, <2>2 DEF Valid, Healthy
  <2>5. s.timer <=> (Healthy(s) /\ InUse(o)) BY <1>1, <1>2, <1>4, <2>2, <2>4
  <2>6. Validating' = Validating /\ CallsOwned' BY <1>1, <1>6, <2>1 DEF Validating, CallsOwned
  <2>7. o \notin SamplingNow BY <1>4, <2>0 DEF SamplingNow
  <2>8. /\ Sampling(o) \notin InFlight(creating, SamplingNow, Validating)
        /\ InFlight(creating, SamplingNow \cup {o}, Validating)
             = InFlight(creating, SamplingNow, Validating) \cup {Sampling(o)}
    BY <2>7, SamplingFlight
  <2>9. Matches(gate', InFlight(creating, SamplingNow \cup {o}, Validating))
    BY <1>6, <2>1, <2>8, SubmitMatches, JobTypes DEF GateOK
  <2>10. s.channel = obs[o].channel BY <1>4, <2>2
  <2> QED BY <1>1, <1>2, <2>2, <2>3, <2>4, <2>5, <2>6, <2>9, <2>10, DisposingTable
<1> QED BY <1>7, <1>8, <1>9

\* What a sample makes of the status of its observer s0: nothing, or it fails or
\* closes it and stops its interval.
Status(s, s0) ==
  /\ s.channel = s0.channel /\ s.validUntil = s0.validUntil
  /\ \/ s.closed = s0.closed /\ s.failure = s0.failure /\ s.timer = s0.timer
     \/ ~Healthy(s) /\ s.timer = FALSE

\* An observer that fails is not healthy, and its interval stops.
LEMMA FailedStatus ==
  ASSUME NEW r \in Observer, NEW s0, Status(r, s0), NEW code \in FailureCodes
  PROVE  Status(Failed(r, code), s0)
<1>1. code # None BY NoneAssumption DEF ErrorCodes, RefusalCodes
<1>2. /\ Failed(r, code).channel = r.channel /\ Failed(r, code).validUntil = r.validUntil
      /\ Failed(r, code).failure = code /\ Failed(r, code).timer = FALSE
  BY DEF Failed, Observer
<1> QED BY <1>1, <1>2 DEF Status, Healthy

\* Whatever a sample finds, it makes no observer healthy again.
LEMMA AfterSampleStatus ==
  ASSUME now \in Nat, NEW r, Sane(r, now), NEW outcome \in Outcomes
  PROVE  Status(AfterSample(r, outcome), r)
<1> DEFINE s == Sampled(r)
<1>0. r \in Observer BY DEF Sane
<1>1. Status(r, r) BY DEF Status
<1>2. s \in Observer BY SaneSampled DEF Sane
<1>3. /\ s.channel = r.channel /\ s.validUntil = r.validUntil /\ s.closed = r.closed
      /\ s.failure = r.failure /\ s.timer = r.timer
  BY <1>0 DEF Sampled, Observer
<1>4. Status(s, r) BY <1>3 DEF Status
<1> HIDE DEF s
<1>5. CASE outcome \in BackendCodes
  BY <1>0, <1>1, <1>5, FailedStatus DEF AfterSample, FailureCodes
<1>6. CASE outcome \notin BackendCodes /\ Stale(r)
  BY <1>0, <1>1, <1>6, FailedStatus DEF AfterSample, FailureCodes
<1>7. CASE outcome \notin BackendCodes /\ ~Stale(r)
  <2>1. CASE outcome = "closed"
    <3> DEFINE a == [s EXCEPT !.closed = TRUE, !.timer = FALSE, !.lossSeen = TRUE]
    <3>1. AfterSample(r, outcome) = a BY <1>7, <2>1 DEF AfterSample, s
    <3>2. a.channel = s.channel /\ a.validUntil = s.validUntil /\ a.closed = TRUE /\ a.timer = FALSE
      BY <1>2 DEF Observer
    <3> HIDE DEF a
    <3> QED BY <1>3, <3>1, <3>2 DEF Status, Healthy
  <2>2. CASE outcome = "replaced"
    <3> DEFINE f == Failed(s, "CHANNEL_INSTANCE_CHANGED")
               a == [f EXCEPT !.lossSeen = TRUE]
    <3>1. AfterSample(r, outcome) = a BY <1>7, <2>2 DEF AfterSample, s
    <3>2. Status(f, r) /\ f \in Observer
      <4>1. "CHANNEL_INSTANCE_CHANGED" \in FailureCodes BY DEF FailureCodes, BackendCodes
      <4> QED BY <1>2, <1>4, <4>1, FailedStatus DEF Failed, Observer
    <3> HIDE DEF f
    <3>3. /\ a.channel = f.channel /\ a.validUntil = f.validUntil /\ a.closed = f.closed
          /\ a.failure = f.failure /\ a.timer = f.timer
      BY <3>2 DEF Observer
    <3> HIDE DEF a
    <3> QED BY <3>1, <3>2, <3>3 DEF Status, Healthy
  <2>3. CASE outcome = "changed"
    <3> DEFINE n == s.seq + 1
               e == Append(s.events, [seq |-> s.seq + 1, at |-> now, sample |-> s.sampleCount])
               q == [s EXCEPT !.seq = n, !.events = e]
    <3>1. AfterSample(r, outcome) = Trimmed(q)
      BY <1>2, <1>7, <2>3 DEF AfterSample, Recorded, Observer, s
    <3> HIDE DEF n, e
    <3>2. /\ Trimmed(q).channel = s.channel /\ Trimmed(q).validUntil = s.validUntil
          /\ Trimmed(q).closed = s.closed /\ Trimmed(q).failure = s.failure
          /\ Trimmed(q).timer = s.timer
      BY <1>2 DEF Trimmed, Observer
    <3> HIDE DEF q
    <3> QED BY <1>3, <3>1, <3>2 DEF Status
  <2>4. CASE outcome = "unchanged"
    <3>1. AfterSample(r, outcome) = s BY <1>7, <2>4 DEF AfterSample, s
    <3> QED BY <1>4, <3>1
  <2> QED BY <1>7, <2>1, <2>2, <2>3, <2>4 DEF Outcomes
<1> QED BY <1>5, <1>6, <1>7

\* A sample ends: its slot is given back, and its observer goes on or is done.
LEMMA SampleEndsTable ==
  ASSUME TableInv, ObsInv', NEW o \in Observers, NEW outcome \in Outcomes, SampleEnds(o, outcome)
  PROVE  TableInv'
<1> DEFINE J == InFlight(creating, SamplingNow, Validating)
           a == AfterSample(obs[o], outcome)
           r == [a EXCEPT !.sampling = FALSE]
<1>1. /\ Sampling(o) \in gate.running /\ gate' = Release(gate, Sampling(o)) /\ wait' = Woken(o)
      /\ MaybeDispose(o, r, WaitersOf(o)) /\ UNCHANGED <<now, born, creating, issued>>
      /\ now \in Nat /\ Sane(obs[o], now)
  BY DEF SampleEnds, TableInv, ObsInv, RecordsOK
<1>2. Sane(a, now) /\ a \in Observer /\ Status(a, obs[o])
  BY <1>1, SaneAfterSample, AfterSampleStatus DEF Sane
<1> HIDE DEF a
<1>3. /\ r \in Observer /\ r.sampling = FALSE /\ r.channel = a.channel /\ r.closed = a.closed
      /\ r.failure = a.failure /\ r.validUntil = a.validUntil /\ r.timer = a.timer
  BY <1>2 DEF Observer
<1> HIDE DEF r
<1>4. Matches(gate, J) BY DEF TableInv, GateOK
<1>5. Sampling(o) \in J BY <1>1, <1>4 DEF Matches
<1>6. o \in SamplingNow
  <2>1. Sampling(o) \in J <=> o \in SamplingNow BY SamplingFlight
  <2> QED BY <1>5, <2>1
<1>7. o \in born
  <2>1. Unborn.sampling = FALSE BY DEF Unborn
  <2> QED BY <1>6, <2>1 DEF SamplingNow, TableInv, RecordsKept, Owned
<1>8. InFlight(creating, SamplingNow \ {o}, Validating) = J \ {Sampling(o)}
  BY JobKinds, JobTypes DEF InFlight
<1> HIDE DEF J
<1>9. Matches(gate', InFlight(creating, SamplingNow \ {o}, Validating))
  BY <1>1, <1>4, <1>8, ReleaseMatches
<1>10. Validating' = Validating /\ CallsOwned' BY <1>1, WokenTable
<1>11. /\ r.channel = obs[o].channel /\ (Healthy(r) => Healthy(obs[o]))
       /\ (Valid(r) => Valid(obs[o]))
  BY <1>2, <1>3 DEF Status, Healthy, Valid
<1>12. r.timer <=> (Healthy(r) /\ InUse(o))
  <2>1. obs[o].timer <=> (Healthy(obs[o]) /\ InUse(o)) BY DEF TableInv, RecordsKept, TimerIffHealthy
  <2> QED BY <1>2, <1>3, <2>1 DEF Status, Healthy
<1> QED BY <1>1, <1>3, <1>7, <1>9, <1>10, <1>11, <1>12, DisposingTable

-----------------------------------------------------------------------------
(* The steps of observe().                                                 *)

\* The lease of an observer in use is renewed, and a cursor is issued.
LEMMA ObserveRenewTable ==
  ASSUME TableInv, ObsInv', NEW c \in Channels, ObserveRenew(c)
  PROVE  TableInv'
<1> DEFINE o == observers[c]
           n == LeaseEnd(obs[o].created)
           r == [obs[o] EXCEPT !.validUntil = n]
<1>1. /\ Valid(obs[o]) /\ obs' = [obs EXCEPT ![o] = r] /\ Issue(o, r, r.seq)
      /\ UNCHANGED <<now, observers, born, creating, gate, wait>> /\ observers[c] # None
  BY DEF ObserveRenew, Mapped
<1>2. o \in born /\ o \in Observers /\ obs[o] \in Observer /\ obs \in [Observers -> Observer]
      /\ born \subseteq Observers
  BY <1>1 DEF TableInv, RecordsKept, Owned, ObsInv, TableOK, RecordsOK
<1> HIDE DEF n
<1>3. /\ r.channel = obs[o].channel /\ r.closed = obs[o].closed /\ r.failure = obs[o].failure
      /\ r.timer = obs[o].timer /\ r.sampling = obs[o].sampling
  BY <1>2 DEF Observer
<1> HIDE DEF r, o
<1>4. obs'[o] = r /\ \A p \in Observers : p # o => obs'[p] = obs[p] BY <1>1, <1>2
<1>5. \A p \in Observers :
        /\ obs'[p].channel = obs[p].channel /\ obs'[p].timer = obs[p].timer
        /\ obs'[p].sampling = obs[p].sampling
        /\ Healthy(obs[p])' <=> Healthy(obs[p])
        /\ Valid(obs[p])' => Valid(obs[p])
  BY <1>1, <1>3, <1>4 DEF Healthy, Valid
<1>6. Owned'
  <2>1. \A p \in Observers \ born : obs'[p] = obs[p] BY <1>2, <1>4
  <2> QED BY <1>1, <1>2, <1>5, <2>1 DEF TableInv, RecordsKept, Owned
<1>7. TimerIffHealthy' BY <1>1, <1>5 DEF TableInv, RecordsKept, TimerIffHealthy, InUse
<1>8. ValidInUse' BY <1>1, <1>2, <1>5 DEF TableInv, RecordsKept, ValidInUse, InUse
<1>9. CursorsGood'
  <2>1. CursorsGood /\ o \in born' /\ born \subseteq born' /\ UNCHANGED now
        /\ \A p \in born : Valid(obs[p])' => Valid(obs[p])
    BY <1>1, <1>2, <1>5 DEF TableInv, RecordsKept
  <2> QED BY <1>1, <2>1, IssueKeepsGood
<1>10. GateOK' /\ CallsOwned'
  <2>1. InFlight(creating, SamplingNow, Validating)' = InFlight(creating, SamplingNow, Validating)
    BY <1>1, <1>5 DEF InFlight, SamplingNow, Validating
  <2> QED BY <1>1, <2>1 DEF TableInv, GateOK, CallsOwned
<1>11. \A k \in creating' : Vacant(k)'
  <2>1. \A k \in Channels : observers[k] # None => observers[k] \in Observers
    BY DEF TableInv, ObsInv, TableOK
  <2> QED BY <1>1, <1>5, <2>1 DEF TableInv, ObsInv, TableOK, Vacant
<1>12. ObserverBound' BY <1>1 DEF TableInv, ObserverBound, Mapped
<1> QED BY <1>6, <1>7, <1>8, <1>9, <1>10, <1>11, <1>12 DEF TableInv, RecordsKept

\* A creation that ends was in flight.
LEMMA CreationInFlight ==
  ASSUME TableInv, NEW c \in Channels, Creation(c) \in gate.running
  PROVE  /\ c \in creating
         /\ Matches(Release(gate, Creation(c)), InFlight(creating \ {c}, SamplingNow, Validating))
<1> DEFINE J == InFlight(creating, SamplingNow, Validating)
<1>1. Matches(gate, J) BY DEF TableInv, GateOK
<1>2. Creation(c) \in J BY <1>1 DEF Matches
<1>3. c \in creating
  <2>1. Creation(c) \in J <=> c \in creating BY CreationFlight
  <2> QED BY <1>2, <2>1
<1>4. InFlight(creating \ {c}, SamplingNow, Validating) = J \ {Creation(c)}
  BY JobKinds, JobTypes DEF InFlight
<1> HIDE DEF J
<1> QED BY <1>1, <1>3, <1>4, ReleaseMatches

\* The sets the bound is about are finite.
LEMMA TablesFinite ==
  ASSUME TableInv
  PROVE  /\ IsFiniteSet(Mapped) /\ Cardinality(Mapped) \in Nat
         /\ IsFiniteSet(creating) /\ Cardinality(creating) \in Nat
<1>1. IsFiniteSet(Mapped) BY SetsAssumption, FS_Subset DEF Mapped
<1>2. IsFiniteSet(creating) BY SetsAssumption, FS_Subset DEF TableInv, ObsInv, TableOK
<1> QED BY <1>1, <1>2, FS_CardinalityType

\* A creation that fails leaves the pending ones.
LEMMA CreateFailedTable ==
  ASSUME TableInv, ObsInv', NEW c \in Channels, CreateFailed(c)
  PROVE  TableInv'
<1>1. /\ Creation(c) \in gate.running /\ gate' = Release(gate, Creation(c))
      /\ creating' = creating \ {c} /\ UNCHANGED <<now, observers, obs, born, tokens, issued, wait>>
  BY DEF CreateFailed, cursorVars
<1>2. /\ c \in creating
      /\ Matches(Release(gate, Creation(c)), InFlight(creating \ {c}, SamplingNow, Validating))
  BY <1>1, CreationInFlight
<1>3. SamplingNow' = SamplingNow /\ Validating' = Validating BY <1>1 DEF SamplingNow, Validating
<1>4. GateOK' BY <1>1, <1>2, <1>3 DEF GateOK
<1>5. RecordsKept' /\ CallsOwned'
  BY <1>1 DEF TableInv, RecordsKept, Owned, TimerIffHealthy, ValidInUse, CursorsGood, CallsOwned,
              Valid, Healthy, InUse
<1>6. \A k \in creating' : Vacant(k)' BY <1>1 DEF TableInv, Vacant, Healthy
<1>7. ObserverBound'
  <2> DEFINE m == Cardinality(Mapped)
             n == Cardinality(creating)
  <2>1. Cardinality(creating') = n - 1 BY <1>1, <1>2, TablesFinite, FS_RemoveElement
  <2>2. Mapped' = Mapped BY <1>1 DEF Mapped
  <2>3. m \in Nat /\ n \in Nat /\ MaxObservers \in Nat BY TablesFinite, LimitsAssumption
  <2>4. m + n <= MaxObservers BY DEF TableInv, ObserverBound
  <2> HIDE DEF m, n
  <2>5. m + (n - 1) <= MaxObservers BY <2>3, <2>4
  <2> QED BY <2>1, <2>2, <2>5 DEF ObserverBound, m
<1> QED BY <1>4, <1>5, <1>6, <1>7 DEF TableInv

\* The old observer, if any, is taken out of use: its place is vacant.
LEMMA SupplantVacates ==
  ASSUME TableInv, NEW c \in Channels, Supplant(c), UNCHANGED <<now, issued, born>>
  PROVE  /\ RecordsKept' /\ Vacant(c)'
         /\ \A k \in Channels : Vacant(k) => Vacant(k)'
         /\ Mapped' \subseteq Mapped /\ SamplingNow' = SamplingNow
<1>1. CASE observers[c] = None
  <2>1. UNCHANGED <<observers, obs, tokens, now, issued, born>> BY <1>1 DEF Supplant
  <2>2. RecordsKept'
    BY <2>1 DEF TableInv, RecordsKept, Owned, TimerIffHealthy, ValidInUse, CursorsGood,
                Valid, Healthy, InUse
  <2> QED BY <1>1, <2>1, <2>2 DEF Vacant, Healthy, Mapped, SamplingNow
<1>2. CASE observers[c] # None
  <2> DEFINE o == observers[c]
             f == Failed(obs[o], "CURSOR_EXPIRED")
             r == [f EXCEPT !.closed = TRUE]
  <2>1. o \in born /\ o \in Observers /\ obs[o] \in Observer /\ obs[o].channel = c
    BY <1>2 DEF TableInv, RecordsKept, Owned, ObsInv, TableOK, RecordsOK
  <2>2. MaybeDispose(o, r, WaitersOf(o)) BY <1>2 DEF Supplant
  <2>3. /\ f \in Observer /\ f.timer = FALSE /\ f.channel = c /\ f.sampling = obs[o].sampling
    BY <2>1 DEF Failed, Observer, FailureCodes
  <2> HIDE DEF f
  <2>4. /\ r \in Observer /\ r.timer = FALSE /\ r.channel = c /\ r.sampling = obs[o].sampling
        /\ r.closed = TRUE
    BY <2>3 DEF Observer
  <2> HIDE DEF r
  <2>5. ~Healthy(r) /\ ~Valid(r) BY <2>4 DEF Healthy, Valid
  <2>6. Vacant(c)' BY <1>2, <2>2, <2>4, <2>5, MaybeDisposeVacates DEF TableInv
  <2> HIDE DEF o
  <2>7. /\ RecordsKept'
        /\ \A k \in Channels : Vacant(k) => Vacant(k)'
        /\ Mapped' \subseteq Mapped
        /\ \A p \in Observers : obs'[p].sampling = IF p = o THEN r.sampling ELSE obs[p].sampling
    BY <2>1, <2>2, <2>4, <2>5, MaybeDisposeRecords DEF TableInv
  <2>8. SamplingNow' = SamplingNow BY <2>4, <2>7 DEF SamplingNow
  <2> QED BY <2>6, <2>7, <2>8
<1> QED BY <1>1, <1>2

\* observe() starts a creation within the limit, in a place that is vacant.
LEMMA ObserveCreateTable ==
  ASSUME TableInv, ObsInv', NEW c \in Channels, ObserveCreate(c)
  PROVE  TableInv'
<1> DEFINE J == InFlight(creating, SamplingNow, Validating)
<1>1. /\ c \notin creating /\ Supplant(c) /\ UNCHANGED <<now, born, issued, wait>>
  BY DEF ObserveCreate
<1>2. /\ RecordsKept' /\ Vacant(c)'
      /\ \A k \in Channels : Vacant(k) => Vacant(k)'
      /\ Mapped' \subseteq Mapped /\ SamplingNow' = SamplingNow
  BY <1>1, SupplantVacates
<1>3. Validating' = Validating BY <1>1 DEF Validating
<1>4. CallsOwned' BY <1>1 DEF TableInv, CallsOwned
<1>5. Matches(gate, J) /\ creating \subseteq Channels /\ \A k \in creating : Vacant(k)
  BY DEF TableInv, GateOK, ObsInv, TableOK
<1>6. CASE WithinLimit /\ ~Full(gate)
  <2>1. creating' = creating \cup {c} /\ gate' = Submit(gate, Creation(c))
    BY <1>6 DEF ObserveCreate
  <2>2. /\ Creation(c) \notin J
        /\ InFlight(creating \cup {c}, SamplingNow, Validating) = J \cup {Creation(c)}
    BY <1>1, JobKinds, JobTypes DEF InFlight
  <2> HIDE DEF J
  <2>3. Matches(Submit(gate, Creation(c)), J \cup {Creation(c)})
    BY <1>5, <2>2, SubmitMatches, JobTypes
  <2>4. GateOK' BY <1>2, <1>3, <2>1, <2>2, <2>3 DEF GateOK
  <2>5. \A k \in creating' : Vacant(k)' BY <1>2, <1>5, <2>1
  <2>6. ObserverBound'
    <3> DEFINE m == Cardinality(Mapped')
               n == Cardinality(creating)
    <3>1. Cardinality(creating') = n + 1 BY <1>1, <2>1, TablesFinite, FS_AddElement
    <3>2. m + n < MaxObservers BY <1>6 DEF WithinLimit, Mapped
    <3>3. m \in Nat /\ n \in Nat /\ MaxObservers \in Nat
      BY <1>2, TablesFinite, FS_Subset, FS_CardinalityType, LimitsAssumption
    <3> HIDE DEF m, n
    <3>4. m + (n + 1) <= MaxObservers BY <3>2, <3>3
    <3> QED BY <3>1, <3>4 DEF ObserverBound, m
  <2> QED BY <1>2, <1>4, <2>4, <2>5, <2>6 DEF TableInv
<1>7. CASE ~(WithinLimit /\ ~Full(gate))
  <2>1. UNCHANGED <<creating, gate>> BY <1>7 DEF ObserveCreate
  <2>2. GateOK' BY <1>2, <1>3, <1>5, <2>1 DEF GateOK
  <2>3. \A k \in creating' : Vacant(k)' BY <1>2, <1>5, <2>1
  <2>4. ObserverBound' BY <1>2, <1>5, <2>1, BoundShrinks DEF TableInv
  <2> QED BY <1>2, <1>4, <2>2, <2>3, <2>4 DEF TableInv
<1> QED BY <1>6, <1>7

\* An observer is installed where none is in use any more, and a creation ends.
LEMMA CreatedTable ==
  ASSUME TableInv, ObsInv', NEW c \in Channels, Created(c)
  PROVE  TableInv'
<1> DEFINE lease == now + Lease
           due == now + Interval
           r == [Unborn EXCEPT !.channel = c, !.created = now, !.validUntil = lease,
                               !.timer = TRUE, !.due = due,
                               !.lastSampleAt = now, !.sampleCount = 1]
<1>1. PICK o \in Observers \ born :
        /\ born' = born \cup {o}
        /\ obs' = [obs EXCEPT ![o] = r]
        /\ observers' = [observers EXCEPT ![c] = o]
        /\ Issue(o, r, 0)
  BY DEF Created
<1>2. /\ Creation(c) \in gate.running /\ gate' = Release(gate, Creation(c))
      /\ creating' = creating \ {c} /\ UNCHANGED <<now, wait>>
  BY DEF Created
<1>3. /\ c \in creating
      /\ Matches(Release(gate, Creation(c)), InFlight(creating \ {c}, SamplingNow, Validating))
  BY <1>2, CreationInFlight
<1> HIDE DEF lease, due
<1>4. /\ r.channel = c /\ r.timer = TRUE /\ r.sampling = FALSE /\ r.closed = FALSE
      /\ r.failure = None
  BY DEF Unborn
<1> HIDE DEF r
<1>5. Healthy(r) BY <1>4 DEF Healthy
<1>6. /\ observers \in [Channels -> Observers \cup {None}] /\ obs \in [Observers -> Observer]
      /\ born \subseteq Observers /\ creating \subseteq Channels /\ o \in Observers /\ o # None
      /\ RecordsKept
  BY SetsAssumption DEF TableInv, ObsInv, TableOK, RecordsOK
<1>7. /\ obs'[o] = r /\ \A p \in Observers : p # o => obs'[p] = obs[p]
      /\ observers'[c] = o /\ \A k \in Channels : k # c => observers'[k] = observers[k]
  BY <1>1, <1>6
<1>8. obs[o] = Unborn /\ \A k \in Channels : observers[k] # o
  BY <1>1, <1>6 DEF RecordsKept, Owned
<1>9. observers[c] = None \/ ~Healthy(obs[observers[c]])
  BY <1>3 DEF TableInv, Vacant
<1>10. /\ InUse(o)'
       /\ \A p \in Observers : p # o => (InUse(p)' <=> (InUse(p) /\ p # observers[c]))
  <2>1. InUse(o)' BY <1>7 DEF InUse
  <2>2. ASSUME NEW p \in Observers, p # o
        PROVE  InUse(p)' <=> (InUse(p) /\ p # observers[c])
    <3>1. InUse(p)' => (InUse(p) /\ p # observers[c])
      <4> SUFFICES ASSUME NEW k \in Channels, observers'[k] = p PROVE InUse(p) /\ p # observers[c]
        BY DEF InUse
      <4>1. k # c /\ observers[k] = p BY <1>7, <2>2
      <4>2. obs[p].channel = k BY <1>6, <4>1, SetsAssumption DEF RecordsKept, Owned
      <4>3. observers[c] = p => obs[p].channel = c
        BY <1>6, SetsAssumption DEF RecordsKept, Owned
      <4> QED BY <4>1, <4>2, <4>3 DEF InUse
    <3>2. InUse(p) /\ p # observers[c] => InUse(p)' BY <1>7 DEF InUse
    <3> QED BY <3>1, <3>2
  <2> QED BY <2>1, <2>2
<1>11. Owned'
  BY <1>1, <1>4, <1>6, <1>7, <1>8 DEF RecordsKept, Owned
<1>12. TimerIffHealthy'
  <2> SUFFICES ASSUME NEW p \in Observers
               PROVE  obs'[p].timer <=> (Healthy(obs[p])' /\ InUse(p)')
    BY DEF TimerIffHealthy
  <2>1. CASE p = o BY <1>4, <1>7, <1>10, <2>1 DEF Healthy
  <2>2. CASE p # o
    <3>1. obs'[p] = obs[p] /\ (obs[p].timer <=> (Healthy(obs[p]) /\ InUse(p)))
      BY <1>6, <1>7, <2>2 DEF RecordsKept, TimerIffHealthy
    <3>2. Healthy(obs[p])' <=> Healthy(obs[p]) BY <3>1 DEF Healthy
    <3>3. p = observers[c] => ~Healthy(obs[p]) BY <1>6, <1>9, SetsAssumption
    <3> QED BY <1>10, <2>2, <3>1, <3>2, <3>3
  <2> QED BY <2>1, <2>2
<1>13. \A p \in born : p # o /\ p \in Observers /\ (Valid(obs[p])' <=> Valid(obs[p]))
  BY <1>1, <1>2, <1>6, <1>7 DEF Valid, Healthy
<1>14. ValidInUse'
  <2> SUFFICES ASSUME NEW p \in born', Valid(obs[p])' PROVE InUse(p)' BY DEF ValidInUse
  <2>1. CASE p = o BY <1>10, <2>1
  <2>2. CASE p # o
    <3>1. p \in born /\ Valid(obs[p]) BY <1>1, <1>13, <2>2
    <3>2. p # observers[c] BY <1>6, <1>9, <3>1, SetsAssumption DEF Valid
    <3> QED BY <1>6, <1>10, <1>13, <3>1, <3>2 DEF RecordsKept, ValidInUse
  <2> QED BY <2>1, <2>2
<1>15. CursorsGood'
  <2>1. CursorsGood /\ born \subseteq born' /\ o \in born' /\ UNCHANGED now
    BY <1>1, <1>2, <1>6 DEF RecordsKept
  <2> QED BY <1>1, <1>13, <2>1, IssueKeepsGood
<1>16. GateOK' /\ CallsOwned'
  <2>1. SamplingNow' = SamplingNow
    <3>1. Unborn.sampling = FALSE BY DEF Unborn
    <3> QED BY <1>4, <1>6, <1>7, <1>8, <3>1 DEF SamplingNow
  <2>2. Validating' = Validating BY <1>2 DEF Validating
  <2>3. GateOK' BY <1>2, <1>3, <2>1, <2>2 DEF GateOK
  <2> QED BY <1>1, <1>2, <2>3 DEF TableInv, CallsOwned
<1>17. \A k \in creating' : Vacant(k)'
  <2> SUFFICES ASSUME NEW k \in creating' PROVE Vacant(k)' OBVIOUS
  <2>1. k \in Channels /\ k # c /\ Vacant(k) BY <1>2, <1>6 DEF TableInv
  <2>2. observers'[k] = observers[k] /\ observers[k] # o /\ observers[k] \in Observers \cup {None}
    BY <1>6, <1>7, <1>8, <2>1
  <2>3. observers[k] # None => obs'[observers[k]] = obs[observers[k]] BY <1>7, <2>2
  <2> QED BY <2>1, <2>2, <2>3 DEF Vacant, Healthy
<1>18. ObserverBound'
  <2> DEFINE m == Cardinality(Mapped)
             n == Cardinality(creating)
             k == Cardinality(Mapped')
  <2>1. Cardinality(creating') = n - 1 BY <1>2, <1>3, TablesFinite, FS_RemoveElement
  <2>2. Mapped' = Mapped \cup {c} BY <1>6, <1>7 DEF Mapped
  <2>3. Cardinality(Mapped \cup {c}) = m \/ Cardinality(Mapped \cup {c}) = m + 1
    BY TablesFinite, FS_AddElement
  <2>4. m \in Nat /\ n \in Nat /\ MaxObservers \in Nat /\ m + n <= MaxObservers
    BY TablesFinite, LimitsAssumption DEF TableInv, ObserverBound
  <2>5. k = m \/ k = m + 1 BY <2>2, <2>3
  <2> HIDE DEF m, n, k
  <2>6. k + (n - 1) <= MaxObservers BY <2>4, <2>5
  <2> QED BY <2>1, <2>6 DEF ObserverBound, k
<1> QED BY <1>11, <1>12, <1>14, <1>15, <1>16, <1>17, <1>18 DEF TableInv, RecordsKept

-----------------------------------------------------------------------------
\* Every step of the manager keeps the tables in agreement.
THEOREM TableInductive == TableInv /\ [Next]_vars => TableInv'
<1> SUFFICES ASSUME TableInv, [Next]_vars PROVE TableInv'
  OBVIOUS
<1>0. ObsInv' BY ObservationInductive DEF TableInv
<1>1. CASE Tick BY <1>0, <1>1, TickTable
<1>2. CASE DetachedEnds BY <1>0, <1>2, DetachedTable
<1>3. ASSUME NEW c \in Channels, ChannelStep(c) PROVE TableInv'
  BY <1>0, <1>3, ObserveRenewTable, ObserveCreateTable, CreatedTable, CreateFailedTable
     DEF ChannelStep
<1>4. ASSUME NEW o \in Observers, ObserverStep(o) PROVE TableInv'
  BY <1>0, <1>4, IntervalFiresTable, SampleEndsTable DEF ObserverStep
<1>5. ASSUME NEW w \in Waiters, WaiterStep(w) PROVE TableInv'
  <2>1. CASE \/ \E c \in Channels, t \in issued : Refuse(w, c, t)
             \/ \E c \in Channels, t \in issued, idle \in Idles, timeout \in Timeouts :
                  Admit(w, c, t, idle, timeout)
             \/ Thrown(w)
    BY <1>0, <2>1, CallerTable
  <2>2. CASE Evaluate(w) \/ Admitted(w) \/ Confirmed(w)
    BY <1>0, <2>2, EvaluateTable, AdmittedTable, ConfirmedTable
  <2>3. CASE \E code \in BackendCodes : ValidationFails(w, code)
    BY <1>0, <2>3, ValidationFailsTable
  <2>4. CASE Deadline(w) \/ Cancel(w) \/ Poll(w) \/ Settle(w)
    BY <1>0, <2>4, WithdrawnTable, PollTable, SettleTable
  <2> QED BY <1>5, <2>1, <2>2, <2>3, <2>4 DEF WaiterStep
<1>6. CASE UNCHANGED vars
  <2>1. InFlight(creating, SamplingNow, Validating)' = InFlight(creating, SamplingNow, Validating)
    BY <1>6 DEF vars, InFlight, SamplingNow, Validating
  <2>2. GateOK' /\ CallsOwned' BY <1>6, <2>1 DEF vars, TableInv, GateOK, CallsOwned
  <2> QED BY <1>0, <1>6, <2>2, StillTable DEF vars, cursorVars
<1> QED BY <1>1, <1>2, <1>3, <1>4, <1>5, <1>6 DEF Next

\* No operation waits for a batch that nobody runs, and no batch runs for an
\* operation that is over: runSample as creations, samples and validations use it.
THEOREM JobsAreMatched == Spec => []JobsMatch
BY TableInvImplies, TableInitial, TableInductive, PTL DEF Spec

\* The interval runs for the observers in use and for no other: create,
\* maybeDispose and every place that clears the interval.
THEOREM TimersFollowUse == Spec => []TimerIffHealthy
BY TableInvImplies, TableInitial, TableInductive, PTL DEF Spec

\* Observers in use and observers being created stay within MAX_OBSERVERS,
\* however creations overlap with the ends of the old observers: observe.
THEOREM ObserversBounded == Spec => []ObserverBound
BY TableInvImplies, TableInitial, TableInductive, PTL DEF Spec

\* No cursor is lost before its lease ends while its observer is healthy and
\* leased: issue, the purge of the expired cursors and maybeDispose.
THEOREM LeasesAreHonoured == Spec => []LeaseHonoured
BY TableInvImplies, TableInitial, TableInductive, PTL DEF Spec

-----------------------------------------------------------------------------
(* What a call is told.                                                    *)

\* Every call holds a cursor that was issued.
CallsIssued == \A w \in Waiters : wait[w].phase # "idle" => wait[w].token \in issued

\* A lease ends within the life time; only a sample closes without a failure.
Honest(r) ==
  /\ r.validUntil <= r.created + Lifetime
  /\ r.closed /\ r.failure = None => r.lossSeen
AllHonest == \A o \in Observers : Honest(obs[o])

\* What the properties say of a call x, with next as a cursor that was issued.
Told(x) ==
  LET r == obs[x.token.obs] IN
  /\ x.phase = "settling" /\ x.result = "output_idle" =>
       Covered(r, x.token, x.idle) /\ x.next.seq = r.seq /\ now < x.deadline
  /\ x.phase = "settling" /\ x.result \in {"output_idle", "timeout"} =>
       /\ x.token.exp >= now /\ r.validUntil >= now /\ now - r.lastSampleAt <= Gap /\ Healthy(r)
       /\ x.next \in issued /\ x.next.obs = x.token.obs /\ x.next.exp >= now
       /\ x.next.seq >= r.evicted
  /\ x.phase = "settling" /\ x.result = "timeout" =>
       x.next = x.token /\ (x.activity <=> r.seq > x.token.seq)
  /\ x.phase = "settling" /\ x.result = "channel_closed" => r.lossSeen
  /\ x.phase = "refused" => x.result # "channel_closed"
  /\ x.phase = "parked" =>
       ~Covered(r, x.token, x.idle) /\ ~(r.closed /\ r.failure = None)

ToldInv == TableInv /\ CallsIssued /\ AllHonest /\ \A w \in Waiters : Told(wait[w])

\* Told looks at an observer through these fields.
SameView(s, r) ==
  /\ s.events = r.events /\ s.seq = r.seq /\ s.evicted = r.evicted
  /\ s.sampleCount = r.sampleCount /\ s.lastSampleAt = r.lastSampleAt
  /\ s.closed = r.closed /\ s.failure = r.failure /\ s.validUntil = r.validUntil
  /\ s.lossSeen = r.lossSeen

\* What the properties ask for.
LEMMA ToldInvImplies ==
  ToldInv => OutputIdleSound /\ CursorCarriesOn /\ NoLostWakeup /\ NoFalseClosed
<1> SUFFICES ASSUME ToldInv
             PROVE  OutputIdleSound /\ CursorCarriesOn /\ NoLostWakeup /\ NoFalseClosed
  OBVIOUS
<1>1. OutputIdleSound BY DEF ToldInv, Told, OutputIdleSound, Of
<1>2. NoLostWakeup BY DEF ToldInv, Told, NoLostWakeup, Of
<1>3. NoFalseClosed BY DEF ToldInv, Told, NoFalseClosed, Of
<1>4. CursorCarriesOn
  <2> SUFFICES ASSUME NEW w \in Waiters, wait[w].phase = "settling",
                      wait[w].result \in {"output_idle", "timeout"}
               PROVE  /\ wait[w].token.exp >= now /\ Of(w).validUntil >= now
                      /\ now - Of(w).lastSampleAt <= Gap /\ Healthy(Of(w))
                      /\ wait[w].result = "timeout" =>
                           /\ wait[w].next = wait[w].token
                           /\ wait[w].activity <=> Of(w).seq > wait[w].token.seq
                      /\ Of(w).validUntil > now =>
                           /\ wait[w].next \in tokens /\ InUse(wait[w].token.obs)
                           /\ wait[w].next.seq >= Of(w).evicted
    BY DEF CursorCarriesOn
  <2>1. Told(wait[w]) /\ LeaseHonoured BY TableInvImplies DEF ToldInv
  <2>2. /\ wait[w].token.exp >= now /\ Of(w).validUntil >= now
        /\ now - Of(w).lastSampleAt <= Gap /\ Healthy(Of(w))
        /\ wait[w].next \in issued /\ wait[w].next.obs = wait[w].token.obs
        /\ wait[w].next.exp >= now /\ wait[w].next.seq >= Of(w).evicted
    BY <2>1 DEF Told, Of
  <2>3. wait[w].result = "timeout" =>
          wait[w].next = wait[w].token /\ (wait[w].activity <=> Of(w).seq > wait[w].token.seq)
    BY <2>1 DEF Told, Of
  <2>4. Of(w).validUntil > now => wait[w].next \in tokens /\ InUse(wait[w].token.obs)
    BY <2>1, <2>2 DEF LeaseHonoured, Valid, Of
  <2> QED BY <2>2, <2>3, <2>4
<1> QED BY <1>1, <1>2, <1>3, <1>4

\* The manager starts with nothing to tell.
LEMMA ToldInitial == Init => ToldInv
<1> SUFFICES ASSUME Init PROVE ToldInv OBVIOUS
<1>1. TableInv BY TableInitial
<1>2. \A w \in Waiters : wait[w].phase = "idle" BY DEF Init, NoWait
<1>3. Honest(Unborn)
  <2>1. Unborn.validUntil = 0 /\ Unborn.created = 0 /\ Unborn.closed = FALSE BY DEF Unborn
  <2> QED BY <2>1, Constants DEF Honest
<1>4. AllHonest BY <1>3 DEF Init, AllHonest
<1>5. CallsIssued /\ \A w \in Waiters : Told(wait[w]) BY <1>2 DEF CallsIssued, Told
<1> QED BY <1>1, <1>4, <1>5 DEF ToldInv

-----------------------------------------------------------------------------
(* How calls end.                                                          *)

\* What ensureActive has made sure of.
LEMMA VerdictSays ==
  ASSUME now \in Nat, NEW r \in Observer, NEW t \in Token
  PROVE  /\ Verdict(r, t) = "active" =>
              /\ t.exp >= now /\ r.validUntil >= now /\ now - r.lastSampleAt <= Gap
              /\ Healthy(r) /\ t.seq >= r.evicted
         /\ Verdict(r, t) = "closed" => r.closed /\ r.failure = None
<1>0. /\ r.validUntil \in Nat /\ r.lastSampleAt \in Nat /\ r.evicted \in Nat
      /\ r.failure \in FailureCodes \cup {None} /\ t.exp \in Nat /\ t.seq \in Nat /\ Gap \in Nat
  BY Fields, Constants DEF Token
<1>1. {"active", "closed"} \cap FailureCodes = {} BY DEF FailureCodes, BackendCodes
<1>2. ASSUME Verdict(r, t) = "active" \/ Verdict(r, t) = "closed"
      PROVE  ~Lapsed(r, t) /\ ~(t.seq < r.evicted) /\ r.failure = None
  <2>1. ~Lapsed(r, t) BY <1>2 DEF Verdict
  <2>2. ~(t.seq < r.evicted) BY <1>2, <2>1 DEF Verdict
  <2>3. r.failure = None BY <1>0, <1>1, <1>2, <2>1, <2>2 DEF Verdict
  <2> QED BY <2>1, <2>2, <2>3
<1>3. ASSUME Verdict(r, t) = "active"
      PROVE  /\ t.exp >= now /\ r.validUntil >= now /\ now - r.lastSampleAt <= Gap
             /\ Healthy(r) /\ t.seq >= r.evicted
  <2>1. ~(t.exp < now) /\ ~(r.validUntil < now) BY <1>2, <1>3 DEF Lapsed
  <2>2. ~r.closed BY <1>2, <1>3 DEF Verdict
  <2>3. ~Stale(r) BY <1>2, <1>3, <2>2 DEF Verdict
  <2>4. now - r.lastSampleAt <= Gap BY <1>0, <2>3 DEF Stale
  <2> QED BY <1>0, <1>2, <1>3, <2>1, <2>2, <2>4 DEF Healthy
<1>4. ASSUME Verdict(r, t) = "closed" PROVE r.closed /\ r.failure = None
  <2>1. r.failure = None BY <1>2, <1>4
  <2> QED BY <1>2, <1>4, <2>1 DEF Verdict
<1> QED BY <1>3, <1>4

\* The last event carries the number that the observer has counted to.
LEMMA LastIsNewest ==
  ASSUME NEW r, Sane(r, now), r.events # <<>>
  PROVE  Last(r.events).seq = r.seq
<1>0. r.events \in Seq(Event) BY Fields DEF Sane
<1>1. Len(r.events) \in DOMAIN r.events BY <1>0, EmptySeq
<1>2. r.events[Len(r.events)].seq = r.evicted + Len(r.events) BY <1>1 DEF Sane, HistoryOK
<1> QED BY <1>2 DEF Last, Sane, HistoryOK

\* There is an event after a cursor that has lost nothing if and only if the
\* observer has counted one.
LEMMA FreshIffNewer ==
  ASSUME now \in Nat, NEW r, Sane(r, now), NEW t \in Token, t.seq >= r.evicted
  PROVE  Fresh(r, t) <=> r.seq > t.seq
<1>0. /\ r \in Observer /\ r.events \in Seq(Event) /\ r.seq \in Nat /\ r.evicted \in Nat
      /\ t.seq \in Nat /\ r.seq = r.evicted + Len(r.events) /\ Len(r.events) \in Nat
  BY Fields DEF Sane, HistoryOK, Token
<1>1. CASE r.events = <<>>
  <2>1. Len(r.events) = 0 BY <1>1
  <2>2. ~(r.seq > t.seq) BY <1>0, <2>1
  <2> QED BY <1>1, <2>2 DEF Fresh
<1>2. CASE r.events # <<>>
  <2>1. Last(r.events).seq = r.seq BY <1>2, LastIsNewest
  <2> QED BY <1>2, <2>1 DEF Fresh
<1> QED BY <1>1, <1>2

\* The fields of a call that ends.
LEMMA EndedFields ==
  ASSUME WaitOK, NEW w \in Waiters, NEW result, NEW next, NEW activity
  PROVE  LET x == Ended(w, result, next, activity) IN
         /\ x.phase = "settling" /\ x.token = wait[w].token /\ x.idle = wait[w].idle
         /\ x.deadline = wait[w].deadline /\ x.result = result /\ x.next = next
         /\ x.activity = activity
BY DEF Ended, WaitOK, WaitCall

\* A call that is rejected is told nothing else.
LEMMA RejectedTold ==
  ASSUME WaitOK, NEW w \in Waiters, NEW code \in ErrorCodes
  PROVE  Told(Rejected(w, code))
<1> DEFINE x == Rejected(w, code)
<1>1. x.phase = "settling" /\ x.result = code BY DEF Rejected, Ended, WaitOK, WaitCall
<1> HIDE DEF x
<1>2. code \notin {"output_idle", "timeout", "channel_closed"}
  BY DEF ErrorCodes, RefusalCodes, FailureCodes, BackendCodes
<1>3. Told(x) BY <1>1, <1>2 DEF Told
<1> QED BY <1>3 DEF x

\* A call that stops hears that the Channel is closed only if it is.
LEMMA StoppedTold ==
  ASSUME WaitOK, RecordsOK, AllHonest, NEW w \in Waiters, wait[w].phase # "idle",
         Found(w) # "active", NEW activity
  PROVE  Told(Stopped(w, activity))
<1>1. wait[w].token \in Token /\ wait[w].token.obs \in Observers /\ Of(w) \in Observer /\ now \in Nat
  BY ObserverOfCall DEF RecordsOK
<1>2. CASE Found(w) = "closed"
  <2> DEFINE x == Closed(w, activity)
  <2>1. x.phase = "settling" /\ x.result = "channel_closed" /\ x.token = wait[w].token
    BY EndedFields DEF Closed
  <2> HIDE DEF x
  <2>2. Of(w).closed /\ Of(w).failure = None BY <1>1, <1>2, VerdictSays DEF Found
  <2>3. Of(w).lossSeen BY <1>1, <2>2 DEF AllHonest, Honest, Of
  <2>4. Told(x) BY <2>1, <2>3 DEF Told, Of
  <2> QED BY <1>2, <2>4 DEF Stopped, x
<1>3. CASE Found(w) # "closed"
  <2>1. Found(w) \in ErrorCodes
    BY <1>1, <1>3, VerdictType DEF Found, ErrorCodes, RefusalCodes
  <2> QED BY <1>3, <2>1, RejectedTold DEF Stopped
<1> QED BY <1>2, <1>3

\* timeoutResult gives back the cursor of the call, which is still good.
LEMMA TimedOutTold ==
  ASSUME WaitOK, RecordsOK, AllHonest, NEW w \in Waiters, wait[w].phase # "idle",
         wait[w].token \in issued
  PROVE  Told(TimedOut(w))
<1>1. wait[w].token \in Token /\ wait[w].token.obs \in Observers /\ Of(w) \in Observer /\ now \in Nat
  BY ObserverOfCall DEF RecordsOK
<1>2. CASE Found(w) = "active"
  <2> DEFINE b == Fresh(Of(w), wait[w].token)
             x == Ended(w, "timeout", wait[w].token, b)
  <2>1. /\ wait[w].token.exp >= now /\ Of(w).validUntil >= now /\ now - Of(w).lastSampleAt <= Gap
        /\ Healthy(Of(w)) /\ wait[w].token.seq >= Of(w).evicted
    BY <1>1, <1>2, VerdictSays DEF Found
  <2>2. b <=> Of(w).seq > wait[w].token.seq
    BY <1>1, <2>1, FreshIffNewer DEF RecordsOK, Of
  <2>3. b \in BOOLEAN BY DEF Fresh
  <2> HIDE DEF b
  <2>4. /\ x.phase = "settling" /\ x.token = wait[w].token /\ x.result = "timeout"
        /\ x.next = wait[w].token /\ x.activity = b
    BY EndedFields
  <2> HIDE DEF x
  <2>5. x.activity <=> Of(w).seq > wait[w].token.seq BY <2>2, <2>4
  <2>6. Told(x) BY <2>1, <2>4, <2>5 DEF Told, Of
  <2> QED BY <1>2, <2>6 DEF TimedOut, x, b
<1>3. CASE Found(w) # "active"
  <2>1. Told(Stopped(w, FALSE)) BY <1>3, StoppedTold
  <2> QED BY <1>3, <2>1 DEF TimedOut
<1> QED BY <1>2, <1>3

-----------------------------------------------------------------------------
(* Steps of the calls: the observers stay as they are.                     *)

\* A call that does not move, and whose observer looks the same.
LEMMA ToldStays ==
  ASSUME NEW v \in Waiters, Told(wait[v]), wait'[v] = wait[v], UNCHANGED now, issued \subseteq issued',
         SameView(obs'[wait[v].token.obs], obs[wait[v].token.obs])
  PROVE  Told(wait[v])'
BY DEF Told, SameView, Covered, Fresh, Healthy

\* A single call moves to x.
LEMMA CallTold ==
  ASSUME ToldInv, NEW w \in Waiters, NEW x, wait' = [wait EXCEPT ![w] = x],
         x.phase # "idle" => x.token \in issued', Told(x) \/ Told(x)',
         UNCHANGED <<now, obs>>, issued \subseteq issued'
  PROVE  CallsIssued' /\ AllHonest' /\ \A v \in Waiters : Told(wait[v])'
<1>1. wait'[w] = x /\ \A v \in Waiters : v # w => wait'[v] = wait[v]
  BY DEF ToldInv, TableInv, ObsInv, WaitOK
<1>2. CallsIssued' BY <1>1 DEF ToldInv, CallsIssued
<1>3. AllHonest' BY DEF ToldInv, AllHonest, Honest
<1>4. Told(wait[w])' BY <1>1 DEF Told, Covered, Fresh, Healthy
<1>5. ASSUME NEW v \in Waiters, v # w PROVE Told(wait[v])'
  BY <1>1, <1>5, ToldStays DEF ToldInv, SameView
<1> QED BY <1>2, <1>3, <1>4, <1>5

\* Most phases say nothing.
LEMMA SilentTold ==
  ASSUME NEW x, x.phase \notin {"settling", "refused", "parked"}
  PROVE  Told(x)
BY DEF Told

\* What an evaluation makes of a call.
Outcome(w, x) ==
  /\ wait' = [wait EXCEPT ![w] = x]
  /\ x.token = wait[w].token
  /\ Told(x)

\* The second half of an evaluation parks a call only if nothing covers it.
LEMMA JudgeTold ==
  ASSUME ToldInv, NEW w \in Waiters, wait[w].phase \in {"ready", "admitting"}, Found(w) = "active",
         NEW g, NEW d \in BOOLEAN, Judge(w, g, d)
  PROVE  \E x : Outcome(w, x)
<1> USE DEF ToldInv, TableInv, ObsInv
<1>0. wait[w].phase # "idle" /\ wait[w] \in WaitCall /\ wait[w].token \in issued
  BY DEF WaitOK, CallsIssued
<1>1. CASE now >= wait[w].deadline
  <2>1. wait' = [wait EXCEPT ![w] = TimedOut(w)] BY <1>1 DEF Judge
  <2> QED BY <1>0, <2>1, TimedOutType, TimedOutTold DEF Outcome
<1>2. CASE ~(now >= wait[w].deadline) /\ ~Covered(Of(w), wait[w].token, wait[w].idle)
  <2> DEFINE p == IF d THEN "ready" ELSE "parked"
             x == [wait[w] EXCEPT !.phase = p, !.dirty = FALSE]
  <2>1. wait' = [wait EXCEPT ![w] = x] BY <1>0, <1>2 DEF Judge, WaitOK
  <2>2. x.phase = p /\ x.token = wait[w].token /\ x.idle = wait[w].idle /\ p \in {"ready", "parked"}
    BY <1>0 DEF WaitCall
  <2>3. Healthy(Of(w))
    <3>1. wait[w].token \in Token /\ Of(w) \in Observer /\ now \in Nat
      BY <1>0, ObserverOfCall DEF RecordsOK
    <3> QED BY <3>1, VerdictSays DEF Found
  <2> HIDE DEF x, p
  <2>4. Told(x) BY <1>2, <2>2, <2>3 DEF Told, Of, Healthy
  <2> QED BY <2>1, <2>2, <2>4 DEF Outcome
<1>3. CASE ~(now >= wait[w].deadline) /\ Covered(Of(w), wait[w].token, wait[w].idle) /\ Full(g)
  <2>1. wait' = [wait EXCEPT ![w] = Rejected(w, "RESOURCE_EXHAUSTED")] BY <1>3 DEF Judge
  <2>2. "RESOURCE_EXHAUSTED" \in ErrorCodes BY DEF ErrorCodes
  <2> QED BY <1>0, <2>1, <2>2, RejectedType, RejectedTold DEF Outcome
<1>4. CASE ~(now >= wait[w].deadline) /\ Covered(Of(w), wait[w].token, wait[w].idle) /\ ~Full(g)
  <2> DEFINE n == Last(Of(w).events).seq
             x == [wait[w] EXCEPT !.phase = "confirming", !.dirty = d, !.candidate = n]
  <2>1. wait' = [wait EXCEPT ![w] = x] BY <1>0, <1>4 DEF Judge, WaitOK
  <2> HIDE DEF n
  <2>2. x.phase = "confirming" /\ x.token = wait[w].token BY <1>0 DEF WaitCall
  <2> HIDE DEF x
  <2> QED BY <2>1, <2>2, SilentTold DEF Outcome
<1> QED BY <1>1, <1>2, <1>3, <1>4

\* The steps that end, park or wake one call.
LEMMA EvaluationTold ==
  ASSUME ToldInv, NEW w \in Waiters,
         \/ Evaluate(w) \/ Admitted(w) \/ Deadline(w) \/ Cancel(w) \/ Poll(w)
         \/ \E code \in BackendCodes : ValidationFails(w, code)
  PROVE  CallsIssued' /\ AllHonest' /\ \A v \in Waiters : Told(wait[v])'
<1>0. /\ UNCHANGED <<now, obs, issued>> /\ wait[w].phase # "idle" /\ wait[w] \in WaitCall
      /\ wait[w].token \in issued /\ WaitOK /\ RecordsOK /\ AllHonest /\ wait[w].dirty \in BOOLEAN
      /\ wait \in [Waiters -> WaitCall]
  BY DEF ToldInv, TableInv, ObsInv, WaitOK, CallsIssued, WaitCall, Evaluate, Admitted, Deadline, Cancel,
         Poll, ValidationFails, Pending, cursorVars
<1>1. \E x : Outcome(w, x)
  <2>1. CASE Evaluate(w) \/ Admitted(w)
    <3>1. CASE Found(w) # "active"
      <4>1. wait' = [wait EXCEPT ![w] = Stopped(w, FALSE)] BY <2>1, <3>1 DEF Evaluate, Admitted
      <4> QED BY <1>0, <3>1, <4>1, StoppedType, StoppedTold DEF Outcome
    <3>2. CASE Found(w) = "active" /\ Evaluate(w) /\ wait[w].phase = "ready"
      <4>1. Judge(w, gate, FALSE) BY <3>2 DEF Evaluate
      <4> QED BY <3>2, <4>1, JudgeTold
    <3>3. CASE Found(w) = "active" /\ Evaluate(w) /\ wait[w].phase = "arriving" /\ Full(gate)
      <4>1. wait' = [wait EXCEPT ![w] = Rejected(w, "RESOURCE_EXHAUSTED")] BY <3>3 DEF Evaluate
      <4>2. "RESOURCE_EXHAUSTED" \in ErrorCodes BY DEF ErrorCodes
      <4> QED BY <1>0, <4>1, <4>2, RejectedType, RejectedTold DEF Outcome
    <3>4. CASE Found(w) = "active" /\ Evaluate(w) /\ wait[w].phase = "arriving" /\ ~Full(gate)
      <4> DEFINE x == [wait[w] EXCEPT !.phase = "admitting"]
      <4>1. wait' = [wait EXCEPT ![w] = x] BY <1>0, <3>4 DEF Evaluate
      <4>2. x.phase = "admitting" /\ x.token = wait[w].token BY <1>0 DEF WaitCall
      <4> HIDE DEF x
      <4> QED BY <4>1, <4>2, SilentTold DEF Outcome
    <3>5. CASE Found(w) = "active" /\ Admitted(w)
      <4> DEFINE g == Release(gate, Validation(w))
      <4>1. Judge(w, g, wait[w].dirty) /\ wait[w].phase = "admitting" BY <3>5 DEF Admitted
      <4> HIDE DEF g
      <4> QED BY <1>0, <3>5, <4>1, JudgeTold
    <3> QED BY <2>1, <3>1, <3>2, <3>3, <3>4, <3>5 DEF Evaluate
  <2>2. CASE Deadline(w)
    <3>1. wait' = [wait EXCEPT ![w] = TimedOut(w)] BY <2>2 DEF Deadline
    <3> QED BY <1>0, <3>1, TimedOutType, TimedOutTold DEF Outcome
  <2>3. CASE Cancel(w)
    <3>1. /\ wait' = [wait EXCEPT ![w] = Rejected(w, "BACKEND_OPERATION_FAILED")]
          /\ "BACKEND_OPERATION_FAILED" \in ErrorCodes
      BY <2>3 DEF Cancel, ErrorCodes
    <3> QED BY <1>0, <3>1, RejectedType, RejectedTold DEF Outcome
  <2>4. CASE Poll(w)
    <3> DEFINE x == [wait[w] EXCEPT !.phase = "ready"]
    <3>1. wait' = [wait EXCEPT ![w] = x] BY <1>0, <2>4 DEF Poll
    <3>2. x.phase = "ready" /\ x.token = wait[w].token BY <1>0 DEF WaitCall
    <3> HIDE DEF x
    <3> QED BY <3>1, <3>2, SilentTold DEF Outcome
  <2>5. ASSUME NEW code \in BackendCodes, ValidationFails(w, code) PROVE \E x : Outcome(w, x)
    <3>1. wait' = [wait EXCEPT ![w] = Rejected(w, code)] /\ code \in ErrorCodes
      BY <2>5 DEF ValidationFails, ErrorCodes, RefusalCodes, FailureCodes
    <3> QED BY <1>0, <3>1, RejectedType, RejectedTold DEF Outcome
  <2> QED BY <2>1, <2>2, <2>3, <2>4, <2>5
<1>2. PICK x : Outcome(w, x) BY <1>1
<1> QED BY <1>0, <1>2, CallTold DEF Outcome

\* A call that its last validation confirms is told of the newest event, with a
\* cursor that has just been issued.
LEMMA ConfirmedTold ==
  ASSUME ToldInv, NEW w \in Waiters, Confirmed(w)
  PROVE  CallsIssued' /\ AllHonest' /\ \A v \in Waiters : Told(wait[v])'
<1> DEFINE o == wait[w].token.obs
           n == Last(obs[o].events).seq
<1>0. /\ UNCHANGED <<now, obs>> /\ wait[w].phase # "idle" /\ wait[w] \in WaitCall
      /\ wait[w].token \in issued /\ WaitOK /\ RecordsOK /\ AllHonest /\ now \in Nat
      /\ wait \in [Waiters -> WaitCall] /\ wait[w].deadline \in Nat
  BY DEF ToldInv, TableInv, ObsInv, WaitOK, RecordsOK, CallsIssued, WaitCall, Confirmed
<1>1. /\ o \in Observers /\ obs[o] \in Observer /\ Of(w) = obs[o] /\ wait[w].token \in Token
      /\ Sane(obs[o], now)
  BY <1>0, ObserverOfCall DEF Of, RecordsOK
<1>2. issued \subseteq issued' BY DEF Confirmed, Issue
<1>3. \E x : /\ wait' = [wait EXCEPT ![w] = x]
             /\ x.token = wait[w].token
             /\ (Told(x) \/ Told(x)')
  <2>1. CASE Found(w) # "active"
    <3>1. wait' = [wait EXCEPT ![w] = Stopped(w, TRUE)] BY <2>1 DEF Confirmed
    <3> QED BY <1>0, <2>1, <3>1, StoppedType, StoppedTold
  <2>2. CASE Found(w) = "active" /\ now >= wait[w].deadline
    <3>1. wait' = [wait EXCEPT ![w] = TimedOut(w)] BY <2>2 DEF Confirmed
    <3> QED BY <1>0, <3>1, TimedOutType, TimedOutTold
  <2>3. CASE Found(w) = "active" /\ ~(now >= wait[w].deadline) /\ ~StillCandidate(w)
    <3> DEFINE x == [wait[w] EXCEPT !.phase = "ready", !.dirty = FALSE, !.candidate = 0]
    <3>1. wait' = [wait EXCEPT ![w] = x] BY <1>0, <2>3 DEF Confirmed
    <3>2. x.phase = "ready" /\ x.token = wait[w].token BY <1>0 DEF WaitCall
    <3> HIDE DEF x
    <3> QED BY <3>1, <3>2, SilentTold
  <2>4. CASE Found(w) = "active" /\ ~(now >= wait[w].deadline) /\ StillCandidate(w)
    <3> DEFINE stuck == [NoWait EXCEPT !.phase = "stuck", !.token = wait[w].token]
               next == Cursor(o, obs[o], n)
               ended == Ended(w, "output_idle", next, TRUE)
    <3>1. Issue(o, obs[o], n) /\ wait' = [wait EXCEPT ![w] = IF TableFull THEN stuck ELSE ended]
      BY <2>4 DEF Confirmed
    <3>2. stuck.phase = "stuck" /\ stuck.token = wait[w].token BY DEF NoWait
    <3>3. CASE TableFull
      <4> HIDE DEF stuck
      <4> QED BY <3>1, <3>2, <3>3, SilentTold
    <3>4. CASE ~TableFull
      <4>1. next \in issued' /\ next.obs = o /\ next.seq = n /\ next.exp = LeaseEnd(obs[o].created)
        BY <3>1, <3>4 DEF Issue, Cursor
      <4>2. /\ wait[w].token.exp >= now /\ obs[o].validUntil >= now
            /\ now - obs[o].lastSampleAt <= Gap /\ Healthy(obs[o])
        BY <1>0, <1>1, <2>4, VerdictSays DEF Found
      <4>3. next.exp >= now
        <5>1. obs[o].validUntil <= obs[o].created + Lifetime BY <1>0, <1>1 DEF AllHonest, Honest
        <5>2. obs[o].validUntil \in Nat /\ obs[o].created \in Nat BY <1>1, Fields
        <5>3. LeaseEnd(obs[o].created) >= now
          BY <1>0, <4>2, <5>1, <5>2, Constants DEF LeaseEnd
        <5> QED BY <4>1, <5>3
      <4>4. Covered(obs[o], wait[w].token, wait[w].idle) BY <1>1, <2>4 DEF StillCandidate
      <4>5. n = obs[o].seq BY <1>1, <4>4, LastIsNewest DEF Covered, Fresh
      <4>6. n >= obs[o].evicted
        <5>1. /\ obs[o].seq = obs[o].evicted + Len(obs[o].events) /\ obs[o].evicted \in Nat
              /\ Len(obs[o].events) \in Nat
          <6>1. obs[o].events \in Seq(Event) /\ obs[o].evicted \in Nat BY <1>1, Fields
          <6>2. obs[o].seq = obs[o].evicted + Len(obs[o].events) BY <1>1 DEF Sane, HistoryOK
          <6> QED BY <6>1, <6>2
        <5> QED BY <4>5, <5>1
      <4> HIDE DEF next, n
      <4>7. PICK x : x = ended OBVIOUS
      <4>8. /\ x.phase = "settling" /\ x.token = wait[w].token /\ x.idle = wait[w].idle
            /\ x.deadline = wait[w].deadline /\ x.result = "output_idle" /\ x.next = next
        BY <1>0, <4>7 DEF Ended, WaitCall
      <4> HIDE DEF ended
      <4>9. now < wait[w].deadline BY <1>0, <2>4
      <4>10. PICK t : t = wait[w].token OBVIOUS
      <4>11. PICK r : r = obs[o] OBVIOUS
      <4>12. x.token = t /\ t.obs = o /\ obs'[x.token.obs] = r BY <1>0, <4>8, <4>10, <4>11
      <4>13. Covered(r, t, x.idle) /\ x.next.seq = r.seq /\ now < x.deadline
        BY <4>1, <4>4, <4>5, <4>8, <4>9, <4>10, <4>11
      <4>14. /\ t.exp >= now /\ r.validUntil >= now /\ now - r.lastSampleAt <= Gap /\ Healthy(r)
             /\ x.next \in issued' /\ x.next.obs = t.obs /\ x.next.exp >= now
             /\ x.next.seq >= r.evicted
        BY <4>1, <4>2, <4>3, <4>6, <4>8, <4>10, <4>11
      <4>15. Told(x)'
        BY <1>0, <4>8, <4>12, <4>13, <4>14 DEF Told, Covered, Fresh, Healthy
      <4> QED BY <3>1, <3>4, <4>7, <4>8, <4>15
    <3> QED BY <3>3, <3>4
  <2> QED BY <2>1, <2>2, <2>3, <2>4
<1>4. wait[w].token \in issued' BY <1>0, <1>2
<1> HIDE DEF o, n
<1>5. PICK x : /\ wait' = [wait EXCEPT ![w] = x]
               /\ x.token = wait[w].token
               /\ (Told(x) \/ Told(x)')
  BY <1>3
<1>6. x.token \in issued' BY <1>4, <1>5
<1> QED BY <1>0, <1>2, <1>5, <1>6, CallTold

-----------------------------------------------------------------------------
(* Steps that call wait() or leave it.                                     *)

\* A call arrives, is turned away, or has thrown.
LEMMA CallerTold ==
  ASSUME ToldInv, NEW w \in Waiters,
         \/ \E c \in Channels, t \in issued : Refuse(w, c, t)
         \/ \E c \in Channels, t \in issued, idle \in Idles, timeout \in Timeouts :
              Admit(w, c, t, idle, timeout)
         \/ Thrown(w)
  PROVE  CallsIssued' /\ AllHonest' /\ \A v \in Waiters : Told(wait[v])'
<1>0. UNCHANGED <<now, obs, issued>> BY DEF Refuse, Admit, Thrown, cursorVars
<1>1. \E x : /\ wait' = [wait EXCEPT ![w] = x]
             /\ x.phase # "idle" => x.token \in issued
             /\ Told(x)
  <2>1. ASSUME NEW c \in Channels, NEW t \in issued, Refuse(w, c, t)
        PROVE  \E x : /\ wait' = [wait EXCEPT ![w] = x]
                      /\ x.phase # "idle" => x.token \in issued
                      /\ Told(x)
    <3> DEFINE x == [NoWait EXCEPT !.phase = "refused", !.token = t, !.result = Refusal(c, t)]
    <3>1. wait' = [wait EXCEPT ![w] = x] /\ Refusal(c, t) # None BY <2>1 DEF Refuse
    <3>2. Refusal(c, t) \in ErrorCodes \cup {None}
      <4>1. CursorsOK /\ RecordsOK /\ t \in Token BY DEF ToldInv, TableInv, ObsInv, CursorsOK
      <4> QED BY <4>1, RefusalType
    <3>3. Refusal(c, t) # "channel_closed"
      BY <3>1, <3>2 DEF ErrorCodes, RefusalCodes, FailureCodes, BackendCodes
    <3>4. x.phase = "refused" /\ x.token = t /\ x.result = Refusal(c, t) BY DEF NoWait
    <3> HIDE DEF x
    <3>5. Told(x) BY <3>3, <3>4 DEF Told
    <3> QED BY <3>1, <3>4, <3>5
  <2>2. ASSUME NEW c \in Channels, NEW t \in issued, NEW idle \in Idles, NEW timeout \in Timeouts,
               Admit(w, c, t, idle, timeout)
        PROVE  \E x : /\ wait' = [wait EXCEPT ![w] = x]
                      /\ x.phase # "idle" => x.token \in issued
                      /\ Told(x)
    <3> DEFINE e == now + timeout
               x == [NoWait EXCEPT !.phase = "arriving", !.token = t, !.idle = idle, !.deadline = e]
    <3>1. wait' = [wait EXCEPT ![w] = x] BY <2>2 DEF Admit
    <3> HIDE DEF e
    <3>2. x.phase = "arriving" /\ x.token = t BY DEF NoWait
    <3> HIDE DEF x
    <3> QED BY <3>1, <3>2, SilentTold
  <2>3. CASE Thrown(w)
    <3>1. wait' = [wait EXCEPT ![w] = NoWait] BY <2>3 DEF Thrown
    <3>2. NoWait.phase = "idle" BY DEF NoWait
    <3>3. Told(NoWait) BY <3>2, SilentTold
    <3> QED BY <3>1, <3>2, <3>3
  <2> QED BY <2>1, <2>2, <2>3
<1>2. PICK x : /\ wait' = [wait EXCEPT ![w] = x]
               /\ x.phase # "idle" => x.token \in issued
               /\ Told(x)
  BY <1>1
<1> QED BY <1>0, <1>2, CallTold

\* maybeDispose leaves what Told looks at as r has it.
LEMMA DisposeView ==
  ASSUME RecordsOK, NEW o \in Observers, NEW r \in Observer, NEW left, MaybeDispose(o, r, left)
  PROVE  /\ \A p \in Observers : p # o => obs'[p] = obs[p]
         /\ SameView(obs'[o], r) /\ obs'[o].created = r.created
<1>0. obs \in [Observers -> Observer] BY DEF RecordsOK
<1>1. CASE left # {} \/ Valid(r)
  <2>1. obs' = [obs EXCEPT ![o] = r] BY <1>1 DEF MaybeDispose
  <2> QED BY <1>0, <2>1 DEF SameView
<1>2. CASE ~(left # {} \/ Valid(r))
  <2> DEFINE s == [r EXCEPT !.timer = FALSE]
  <2>1. obs' = [obs EXCEPT ![o] = s] BY <1>2 DEF MaybeDispose
  <2>2. SameView(s, r) /\ s.created = r.created BY DEF SameView, Observer
  <2> HIDE DEF s
  <2> QED BY <1>0, <2>1, <2>2
<1> QED BY <1>1, <1>2

\* The finally block of wait.
LEMMA SettleTold ==
  ASSUME ToldInv, NEW w \in Waiters, Settle(w)
  PROVE  CallsIssued' /\ AllHonest' /\ \A v \in Waiters : Told(wait[v])'
<1> DEFINE o == wait[w].token.obs
<1>0. /\ RecordsOK /\ o \in Observers /\ obs[o] \in Observer /\ UNCHANGED <<now, issued>>
      /\ wait' = [wait EXCEPT ![w] = NoWait] /\ MaybeDispose(o, obs[o], WaitersOf(o))
      /\ wait \in [Waiters -> WaitCall] /\ NoWait.phase = "idle"
  BY DEF Settle, Of, ToldInv, TableInv, ObsInv, TableOK, RecordsOK, CallsOwned, WaitOK, NoWait
<1>1. /\ \A p \in Observers : p # o => obs'[p] = obs[p]
      /\ SameView(obs'[o], obs[o]) /\ obs'[o].created = obs[o].created
  BY <1>0, DisposeView
<1> HIDE DEF o
<1>2. \A p \in Observers : SameView(obs'[p], obs[p]) /\ obs'[p].created = obs[p].created
  BY <1>1 DEF SameView
<1>3. AllHonest' BY <1>2 DEF ToldInv, AllHonest, Honest, SameView
<1>4. wait'[w] = NoWait /\ \A v \in Waiters : v # w => wait'[v] = wait[v] BY <1>0
<1>5. CallsIssued' BY <1>0, <1>4 DEF ToldInv, CallsIssued
<1>6. ASSUME NEW v \in Waiters PROVE Told(wait[v])'
  <2>1. CASE v = w
    <3>1. wait'[v].phase = "idle" BY <1>0, <1>4, <2>1
    <3> QED BY <3>1 DEF Told
  <2>2. CASE v # w /\ wait[v].phase = "idle"
    <3>1. wait'[v].phase = "idle" BY <1>4, <2>2
    <3> QED BY <3>1 DEF Told
  <2>3. CASE v # w /\ wait[v].phase # "idle"
    <3>1. wait[v].token.obs \in Observers BY <2>3 DEF ToldInv, TableInv, ObsInv, TableOK, CallsOwned
    <3>2. Told(wait[v]) /\ wait'[v] = wait[v] BY <1>4, <2>3 DEF ToldInv
    <3> QED BY <1>0, <1>2, <3>1, <3>2, ToldStays
  <2> QED BY <2>1, <2>2, <2>3
<1> QED BY <1>3, <1>5, <1>6

-----------------------------------------------------------------------------
(* Steps of the clock, of observe() and of the samples: no call is on its  *)
(* way out, and only the parked ones have something to fear.               *)

\* The record of an observer goes from r to s without an event, a sample or a
\* closure that a parked call would have to be woken for.
NothingNew(s, r) ==
  /\ s.events = r.events /\ s.sampleCount = r.sampleCount /\ s.lastSampleAt = r.lastSampleAt
  /\ s.closed /\ s.failure = None => r.closed /\ r.failure = None

\* Nobody is woken, and there is nothing new to wake for.
LEMMA StillTold ==
  ASSUME ToldInv, Quiet, UNCHANGED wait, issued \subseteq issued',
         \A p \in Observers : Honest(obs'[p]),
         \A p \in born : NothingNew(obs'[p], obs[p])
  PROVE  CallsIssued' /\ AllHonest' /\ \A v \in Waiters : Told(wait[v])'
<1>1. CallsIssued' BY DEF ToldInv, CallsIssued
<1>2. AllHonest' BY DEF AllHonest, Honest
<1>3. ASSUME NEW v \in Waiters PROVE Told(wait[v])'
  <2>0. wait'[v] = wait[v] /\ wait[v].phase \notin {"settling", "refused"} BY DEF Quiet
  <2>1. CASE wait[v].phase # "parked" BY <2>0, <2>1 DEF Told
  <2>2. CASE wait[v].phase = "parked"
    <3>1. wait[v].token.obs \in born BY <2>2 DEF ToldInv, TableInv, CallsOwned
    <3>2. NothingNew(obs'[wait[v].token.obs], obs[wait[v].token.obs]) BY <3>1
    <3>3. Told(wait[v]) BY DEF ToldInv
    <3> QED BY <2>0, <2>2, <3>2, <3>3 DEF Told, NothingNew, Covered, Fresh
  <2> QED BY <2>1, <2>2
<1> QED BY <1>1, <1>2, <1>3

\* The waiters of o are woken, so that whatever is new in o is looked at.
LEMMA WokenTold ==
  ASSUME ToldInv, Quiet, NEW o \in Observers, wait' = Woken(o), UNCHANGED issued,
         Honest(obs'[o]), \A p \in Observers : p # o => obs'[p] = obs[p]
  PROVE  CallsIssued' /\ AllHonest' /\ \A v \in Waiters : Told(wait[v])'
<1>1. AllHonest' BY DEF ToldInv, AllHonest, Honest
<1>2. ASSUME NEW v \in Waiters
      PROVE  (wait'[v].phase # "idle" => wait'[v].token \in issued) /\ Told(wait[v])'
  <2>0. /\ wait[v] \in WaitCall /\ Told(wait[v]) /\ (wait[v].phase # "idle" => wait[v].token \in issued)
        /\ wait[v].phase \notin {"arriving", "ready", "settling", "refused"}
    BY DEF ToldInv, TableInv, ObsInv, WaitOK, CallsIssued, Quiet
  <2>1. CASE v \notin WaitersOf(o)
    <3>1. wait'[v] = wait[v] BY <2>1 DEF Woken
    <3>2. CASE wait[v].phase # "parked" BY <2>0, <3>1, <3>2 DEF Told
    <3>3. CASE wait[v].phase = "parked"
      <4>1. wait[v].token.obs # o BY <2>1, <3>3 DEF WaitersOf, Registered
      <4>2. wait[v].token.obs \in Observers
        BY <3>3 DEF ToldInv, TableInv, ObsInv, TableOK, CallsOwned
      <4>3. obs'[wait[v].token.obs] = obs[wait[v].token.obs] BY <4>1, <4>2
      <4> QED BY <2>0, <3>1, <3>3, <4>3 DEF Told, Covered, Fresh
    <3> QED BY <3>2, <3>3
  <2>2. CASE v \in WaitersOf(o) /\ wait[v].phase = "parked"
    <3>1. wait'[v] = [wait[v] EXCEPT !.phase = "ready"] BY <2>2 DEF Woken
    <3>2. wait'[v].phase = "ready" /\ wait'[v].token = wait[v].token BY <2>0, <3>1 DEF WaitCall
    <3> QED BY <2>0, <2>2, <3>2 DEF Told
  <2>3. CASE v \in WaitersOf(o) /\ wait[v].phase # "parked"
    <3> DEFINE d == wait[v].phase \in {"admitting", "confirming"}
    <3>1. wait'[v] = [wait[v] EXCEPT !.dirty = d] BY <2>3 DEF Woken
    <3> HIDE DEF d
    <3>2. wait'[v].phase = wait[v].phase /\ wait'[v].token = wait[v].token
      BY <2>0, <3>1 DEF WaitCall
    <3> QED BY <2>0, <2>3, <3>2 DEF Told
  <2> QED BY <2>1, <2>2, <2>3
<1>3. CallsIssued' BY <1>2 DEF CallsIssued
<1> QED BY <1>1, <1>2, <1>3

\* The clock ticks, an abandoned batch ends, a creation fails.
LEMMA BystandersTold ==
  ASSUME ToldInv, Tick \/ DetachedEnds \/ \E c \in Channels : CreateFailed(c)
  PROVE  CallsIssued' /\ AllHonest' /\ \A v \in Waiters : Told(wait[v])'
<1>1. Quiet /\ UNCHANGED <<wait, obs, issued>> BY DEF Tick, DetachedEnds, CreateFailed, cursorVars
<1>2. \A p \in Observers : Honest(obs'[p]) BY <1>1 DEF ToldInv, AllHonest
<1>3. \A p \in born : NothingNew(obs'[p], obs[p]) BY <1>1 DEF NothingNew
<1> QED BY <1>1, <1>2, <1>3, StillTold

\* A lease that is renewed ends within the life time of the observer.
LEMMA ObserveRenewTold ==
  ASSUME ToldInv, NEW c \in Channels, ObserveRenew(c)
  PROVE  CallsIssued' /\ AllHonest' /\ \A v \in Waiters : Told(wait[v])'
<1> DEFINE o == observers[c]
           n == LeaseEnd(obs[o].created)
           r == [obs[o] EXCEPT !.validUntil = n]
<1>1. /\ Quiet /\ UNCHANGED wait /\ obs' = [obs EXCEPT ![o] = r] /\ Issue(o, r, r.seq)
      /\ observers[c] # None
  BY DEF ObserveRenew, Mapped
<1>2. issued \subseteq issued' BY <1>1 DEF Issue
<1>3. /\ o \in Observers /\ obs \in [Observers -> Observer] /\ now \in Nat
      /\ obs[o].created \in Nat
  BY <1>1, Fields DEF ToldInv, TableInv, ObsInv, TableOK, RecordsOK
<1>4. n <= obs[o].created + Lifetime BY <1>3, Constants DEF LeaseEnd
<1> HIDE DEF o, n
<1>5. Honest(obs[o]) BY <1>3 DEF ToldInv, AllHonest
<1>6. /\ r.validUntil = n /\ r.created = obs[o].created /\ r.closed = obs[o].closed
      /\ r.failure = obs[o].failure /\ r.lossSeen = obs[o].lossSeen
      /\ r.events = obs[o].events /\ r.sampleCount = obs[o].sampleCount
      /\ r.lastSampleAt = obs[o].lastSampleAt
  BY <1>3 DEF Observer
<1> HIDE DEF r
<1>7. Honest(r) /\ NothingNew(r, obs[o]) BY <1>4, <1>5, <1>6 DEF Honest, NothingNew
<1>8. \A p \in Observers : IF p = o THEN obs'[p] = r ELSE obs'[p] = obs[p] BY <1>1, <1>3
<1>9. \A p \in Observers : Honest(obs'[p]) BY <1>7, <1>8 DEF ToldInv, AllHonest
<1>10. \A p \in born : NothingNew(obs'[p], obs[p])
  BY <1>7, <1>8 DEF NothingNew, ToldInv, TableInv, ObsInv, TableOK
<1> QED BY <1>1, <1>2, <1>9, <1>10, StillTold

\* An observer that observe() takes out of use is closed, but with a failure:
\* its waiters hear of it at their next poll, and never that the pane is gone.
LEMMA ObserveCreateTold ==
  ASSUME ToldInv, NEW c \in Channels, ObserveCreate(c)
  PROVE  CallsIssued' /\ AllHonest' /\ \A v \in Waiters : Told(wait[v])'
<1>1. Quiet /\ UNCHANGED <<wait, issued>> /\ Supplant(c) BY DEF ObserveCreate
<1>2. \A p \in Observers : Honest(obs'[p]) /\ NothingNew(obs'[p], obs[p])
  <2>1. CASE observers[c] = None
    BY <1>1, <2>1 DEF Supplant, ToldInv, AllHonest, NothingNew
  <2>2. CASE observers[c] # None
    <3> DEFINE o == observers[c]
               f == Failed(obs[o], "CURSOR_EXPIRED")
               r == [f EXCEPT !.closed = TRUE]
    <3>1. MaybeDispose(o, r, WaitersOf(o)) BY <1>1, <2>2 DEF Supplant
    <3>2. /\ o \in Observers /\ RecordsOK /\ obs[o] \in Observer /\ Honest(obs[o])
          /\ "CURSOR_EXPIRED" \in FailureCodes /\ "CURSOR_EXPIRED" # None
      BY <2>2, NoneAssumption DEF ToldInv, TableInv, ObsInv, TableOK, RecordsOK, AllHonest,
         FailureCodes, ErrorCodes, RefusalCodes
    <3>3. /\ r \in Observer /\ r.failure = "CURSOR_EXPIRED" /\ r.created = obs[o].created
          /\ r.validUntil = obs[o].validUntil /\ r.events = obs[o].events
          /\ r.sampleCount = obs[o].sampleCount /\ r.lastSampleAt = obs[o].lastSampleAt
      BY <3>2 DEF Failed, Observer
    <3> HIDE DEF r, o
    <3>4. /\ \A p \in Observers : p # o => obs'[p] = obs[p]
          /\ SameView(obs'[o], r) /\ obs'[o].created = r.created
      BY <3>1, <3>2, <3>3, DisposeView
    <3>5. Honest(obs'[o]) /\ NothingNew(obs'[o], obs[o])
      BY <3>2, <3>3, <3>4 DEF Honest, NothingNew, SameView
    <3> QED BY <3>4, <3>5 DEF NothingNew, ToldInv, AllHonest
  <2> QED BY <2>1, <2>2
<1>3. \A p \in born : NothingNew(obs'[p], obs[p])
  BY <1>2 DEF ToldInv, TableInv, ObsInv, TableOK
<1> QED BY <1>1, <1>2, <1>3, StillTold

\* A new observer has no waiters.
LEMMA CreatedTold ==
  ASSUME ToldInv, NEW c \in Channels, Created(c)
  PROVE  CallsIssued' /\ AllHonest' /\ \A v \in Waiters : Told(wait[v])'
<1> DEFINE e == now + Lease
           d == now + Interval
           r == [Unborn EXCEPT !.channel = c, !.created = now, !.validUntil = e,
                               !.timer = TRUE, !.due = d,
                               !.lastSampleAt = now, !.sampleCount = 1]
<1>1. PICK o \in Observers \ born :
        Quiet /\ UNCHANGED wait /\ obs' = [obs EXCEPT ![o] = r] /\ Issue(o, r, 0)
  BY DEF Created
<1>2. issued \subseteq issued' BY <1>1 DEF Issue
<1>3. obs \in [Observers -> Observer] /\ now \in Nat /\ born \subseteq Observers
  BY DEF ToldInv, TableInv, ObsInv, TableOK, RecordsOK
<1>4. e <= now + Lifetime BY <1>3, Constants, LimitsAssumption
<1> HIDE DEF e, d
<1>5. r.validUntil = e /\ r.created = now /\ r.closed = FALSE BY DEF Unborn
<1> HIDE DEF r
<1>6. Honest(r) BY <1>4, <1>5 DEF Honest
<1>7. \A p \in Observers : IF p = o THEN obs'[p] = r ELSE obs'[p] = obs[p] BY <1>1, <1>3
<1>8. \A p \in Observers : Honest(obs'[p]) BY <1>6, <1>7 DEF ToldInv, AllHonest
<1>9. \A p \in born : NothingNew(obs'[p], obs[p]) BY <1>1, <1>3, <1>7 DEF NothingNew
<1> QED BY <1>1, <1>2, <1>8, <1>9, StillTold

\* An observer that fails stays honest.
LEMMA FailedHonest ==
  ASSUME NEW r \in Observer, Honest(r), NEW code \in FailureCodes
  PROVE  Honest(Failed(r, code))
<1>1. code # None BY NoneAssumption DEF ErrorCodes, RefusalCodes
<1>2. /\ Failed(r, code).created = r.created /\ Failed(r, code).validUntil = r.validUntil
      /\ Failed(r, code).failure = code
  BY DEF Failed, Observer
<1> QED BY <1>1, <1>2 DEF Honest

\* The interval fires: it notes the next time, starts a sample, or wakes the
\* waiters of an observer that fails.
LEMMA IntervalFiresTold ==
  ASSUME ToldInv, NEW o \in Observers, IntervalFires(o)
  PROVE  CallsIssued' /\ AllHonest' /\ \A v \in Waiters : Told(wait[v])'
<1> DEFINE n == IF now = MaxTime THEN now ELSE now + Interval
           r == [obs[o] EXCEPT !.due = n]
           s == [r EXCEPT !.sampling = TRUE]
           code == IF Stale(r) THEN "OBSERVATION_GAP" ELSE "CURSOR_EXPIRED"
           f == Failed(r, code)
<1>1. /\ Quiet /\ UNCHANGED issued
      /\ \/ UNCHANGED wait /\ obs' = [obs EXCEPT ![o] = r]
         \/ UNCHANGED wait /\ obs' = [obs EXCEPT ![o] = s]
         \/ wait' = Woken(o) /\ MaybeDispose(o, f, WaitersOf(o))
  BY DEF IntervalFires
<1>2. /\ now \in Nat /\ obs \in [Observers -> Observer] /\ born \subseteq Observers /\ RecordsOK
      /\ Honest(obs[o]) /\ \A p \in Observers : Honest(obs[p])
  BY DEF ToldInv, TableInv, ObsInv, TableOK, RecordsOK, AllHonest
<1>3. n \in Nat BY <1>2, Constants
<1>4. code \in FailureCodes BY DEF FailureCodes
<1> HIDE DEF n, code
<1>5. r \in Observer /\ Honest(r) /\ NothingNew(r, obs[o])
  BY <1>2, <1>3 DEF Observer, Honest, NothingNew
<1>6. Honest(s) /\ NothingNew(s, obs[o]) BY <1>2, <1>3 DEF Observer, Honest, NothingNew
<1> HIDE DEF r, s
<1>7. f \in Observer /\ Honest(f)
  <2>1. Honest(f) BY <1>4, <1>5, FailedHonest
  <2> QED BY <1>4, <1>5, <2>1 DEF Failed, Observer
<1> HIDE DEF f
<1>8. ASSUME NEW q, UNCHANGED wait, obs' = [obs EXCEPT ![o] = q], Honest(q), NothingNew(q, obs[o])
      PROVE  CallsIssued' /\ AllHonest' /\ \A v \in Waiters : Told(wait[v])'
  <2>1. \A p \in Observers : IF p = o THEN obs'[p] = q ELSE obs'[p] = obs[p] BY <1>2, <1>8
  <2>2. \A p \in Observers : Honest(obs'[p]) BY <1>2, <1>8, <2>1
  <2>3. \A p \in born : NothingNew(obs'[p], obs[p]) BY <1>2, <1>8, <2>1 DEF NothingNew
  <2> QED BY <1>1, <1>8, <2>2, <2>3, StillTold
<1>9. CASE wait' = Woken(o) /\ MaybeDispose(o, f, WaitersOf(o))
  <2>1. /\ \A p \in Observers : p # o => obs'[p] = obs[p]
        /\ SameView(obs'[o], f) /\ obs'[o].created = f.created
    BY <1>2, <1>7, <1>9, DisposeView
  <2>2. Honest(obs'[o]) BY <1>7, <2>1 DEF Honest, SameView
  <2> QED BY <1>1, <1>9, <2>1, <2>2, WokenTold
<1> QED BY <1>1, <1>5, <1>6, <1>8, <1>9

\* A sample that closes its observer has seen the pane gone.
LEMMA AfterSampleHonest ==
  ASSUME now \in Nat, NEW r, Sane(r, now), Honest(r), NEW outcome \in Outcomes
  PROVE  Honest(AfterSample(r, outcome))
<1> DEFINE s == Sampled(r)
<1>0. r \in Observer BY DEF Sane
<1>1. s \in Observer BY SaneSampled DEF Sane
<1>2. /\ s.created = r.created /\ s.validUntil = r.validUntil /\ s.closed = r.closed
      /\ s.failure = r.failure /\ s.lossSeen = r.lossSeen
  BY <1>0 DEF Sampled, Observer
<1>3. Honest(s) BY <1>2 DEF Honest
<1> HIDE DEF s
<1>4. CASE outcome \in BackendCodes
  BY <1>0, <1>4, FailedHonest DEF AfterSample, FailureCodes
<1>5. CASE outcome \notin BackendCodes /\ Stale(r)
  BY <1>0, <1>5, FailedHonest DEF AfterSample, FailureCodes
<1>6. CASE outcome \notin BackendCodes /\ ~Stale(r)
  <2>1. CASE outcome = "closed"
    <3> DEFINE a == [s EXCEPT !.closed = TRUE, !.timer = FALSE, !.lossSeen = TRUE]
    <3>1. AfterSample(r, outcome) = a BY <1>6, <2>1 DEF AfterSample, s
    <3>2. a.created = s.created /\ a.validUntil = s.validUntil /\ a.lossSeen = TRUE
      BY <1>1 DEF Observer
    <3> HIDE DEF a
    <3> QED BY <1>3, <3>1, <3>2 DEF Honest
  <2>2. CASE outcome = "replaced"
    <3> DEFINE f == Failed(s, "CHANNEL_INSTANCE_CHANGED")
               a == [f EXCEPT !.lossSeen = TRUE]
    <3>1. AfterSample(r, outcome) = a BY <1>6, <2>2 DEF AfterSample, s
    <3>2. Honest(f) /\ f \in Observer
      <4>1. "CHANNEL_INSTANCE_CHANGED" \in FailureCodes BY DEF FailureCodes, BackendCodes
      <4> QED BY <1>1, <1>3, <4>1, FailedHonest DEF Failed, Observer
    <3> HIDE DEF f
    <3>3. a.created = f.created /\ a.validUntil = f.validUntil /\ a.lossSeen = TRUE
      BY <3>2 DEF Observer
    <3> HIDE DEF a
    <3> QED BY <3>1, <3>2, <3>3 DEF Honest
  <2>3. CASE outcome = "changed"
    <3> DEFINE n == s.seq + 1
               e == Append(s.events, [seq |-> s.seq + 1, at |-> now, sample |-> s.sampleCount])
               q == [s EXCEPT !.seq = n, !.events = e]
    <3>1. AfterSample(r, outcome) = Trimmed(q)
      BY <1>1, <1>6, <2>3 DEF AfterSample, Recorded, Observer, s
    <3> HIDE DEF n, e
    <3>2. /\ Trimmed(q).created = s.created /\ Trimmed(q).validUntil = s.validUntil
          /\ Trimmed(q).closed = s.closed /\ Trimmed(q).failure = s.failure
          /\ Trimmed(q).lossSeen = s.lossSeen
      BY <1>1 DEF Trimmed, Observer
    <3> HIDE DEF q
    <3> QED BY <1>3, <3>1, <3>2 DEF Honest
  <2>4. CASE outcome = "unchanged"
    <3>1. AfterSample(r, outcome) = s BY <1>6, <2>4 DEF AfterSample, s
    <3> QED BY <1>3, <3>1
  <2> QED BY <1>6, <2>1, <2>2, <2>3, <2>4 DEF Outcomes
<1> QED BY <1>4, <1>5, <1>6

\* A sample ends, and whoever waits on its observer is woken.
LEMMA SampleEndsTold ==
  ASSUME ToldInv, NEW o \in Observers, NEW outcome \in Outcomes, SampleEnds(o, outcome)
  PROVE  CallsIssued' /\ AllHonest' /\ \A v \in Waiters : Told(wait[v])'
<1> DEFINE a == AfterSample(obs[o], outcome)
           r == [a EXCEPT !.sampling = FALSE]
<1>1. /\ Quiet /\ wait' = Woken(o) /\ UNCHANGED issued /\ MaybeDispose(o, r, WaitersOf(o))
      /\ now \in Nat /\ Sane(obs[o], now) /\ Honest(obs[o]) /\ RecordsOK
  BY DEF SampleEnds, ToldInv, TableInv, ObsInv, RecordsOK, AllHonest
<1>2. a \in Observer /\ Honest(a) BY <1>1, SaneAfterSample, AfterSampleHonest DEF Sane
<1> HIDE DEF a
<1>3. r \in Observer /\ Honest(r) BY <1>2 DEF Observer, Honest
<1> HIDE DEF r
<1>4. /\ \A p \in Observers : p # o => obs'[p] = obs[p]
      /\ SameView(obs'[o], r) /\ obs'[o].created = r.created
  BY <1>1, <1>3, DisposeView
<1>5. Honest(obs'[o]) BY <1>3, <1>4 DEF Honest, SameView
<1> QED BY <1>1, <1>4, <1>5, WokenTold

-----------------------------------------------------------------------------
\* Every step of the manager tells every call the truth.
THEOREM ToldInductive == ToldInv /\ [Next]_vars => ToldInv'
<1> SUFFICES ASSUME ToldInv, [Next]_vars
             PROVE  CallsIssued' /\ AllHonest' /\ \A v \in Waiters : Told(wait[v])'
  BY TableInductive DEF ToldInv
<1>1. CASE Tick \/ DetachedEnds BY <1>1, BystandersTold
<1>2. ASSUME NEW c \in Channels, ChannelStep(c)
      PROVE  CallsIssued' /\ AllHonest' /\ \A v \in Waiters : Told(wait[v])'
  BY <1>2, ObserveRenewTold, ObserveCreateTold, CreatedTold, BystandersTold DEF ChannelStep
<1>3. ASSUME NEW o \in Observers, ObserverStep(o)
      PROVE  CallsIssued' /\ AllHonest' /\ \A v \in Waiters : Told(wait[v])'
  BY <1>3, IntervalFiresTold, SampleEndsTold DEF ObserverStep
<1>4. ASSUME NEW w \in Waiters, WaiterStep(w)
      PROVE  CallsIssued' /\ AllHonest' /\ \A v \in Waiters : Told(wait[v])'
  <2>1. CASE \/ \E c \in Channels, t \in issued : Refuse(w, c, t)
             \/ \E c \in Channels, t \in issued, idle \in Idles, timeout \in Timeouts :
                  Admit(w, c, t, idle, timeout)
             \/ Thrown(w)
    BY <2>1, CallerTold
  <2>2. CASE \/ Evaluate(w) \/ Admitted(w) \/ Deadline(w) \/ Cancel(w) \/ Poll(w)
             \/ \E code \in BackendCodes : ValidationFails(w, code)
    BY <2>2, EvaluationTold
  <2>3. CASE Confirmed(w) BY <2>3, ConfirmedTold
  <2>4. CASE Settle(w) BY <2>4, SettleTold
  <2> QED BY <1>4, <2>1, <2>2, <2>3, <2>4 DEF WaiterStep
<1>5. CASE UNCHANGED vars
  <2>1. UNCHANGED <<now, obs, issued, wait>> BY <1>5 DEF vars, cursorVars
  <2>2. CallsIssued' /\ AllHonest' BY <2>1 DEF ToldInv, CallsIssued, AllHonest, Honest
  <2>3. ASSUME NEW v \in Waiters PROVE Told(wait[v])'
    <3>1. Told(wait[v]) /\ wait'[v] = wait[v] BY <2>1 DEF ToldInv
    <3>2. SameView(obs'[wait[v].token.obs], obs[wait[v].token.obs]) BY <2>1 DEF SameView
    <3> QED BY <2>1, <3>1, <3>2, ToldStays
  <2> QED BY <2>2, <2>3
<1> QED BY <1>1, <1>2, <1>3, <1>4, <1>5 DEF Next

\* output_idle is true when it is said: an event after the cursor, a later quiet
\* sample, the idle time, and nothing since (evaluate and finish).
THEOREM OutputIdleIsSound == Spec => []OutputIdleSound
BY ToldInvImplies, ToldInitial, ToldInductive, PTL DEF Spec

\* A wait that ends well leaves the client a cursor from which nothing is lost
\* (ensureActive, timeoutResult, issue, maybeDispose).
THEOREM CursorsCarryOn == Spec => []CursorCarriesOn
BY ToldInvImplies, ToldInitial, ToldInductive, PTL DEF Spec

\* No call stays parked on what it waits for, however samples, validations and
\* polls interleave (wake and evaluate).
THEOREM NoWakeupIsLost == Spec => []NoLostWakeup
BY ToldInvImplies, ToldInitial, ToldInductive, PTL DEF Spec

\* channel_closed is said only of a pane that a sample has found gone: observe
\* closes a superseded observer with a failure, which ensureActive reports first.
THEOREM ClosedIsTrue == Spec => []NoFalseClosed
BY ToldInvImplies, ToldInitial, ToldInductive, PTL DEF Spec

-----------------------------------------------------------------------------
(* What clients see: the refinement of CursorContract.                     *)

\* No sample is under way for an observer whose pane is gone.
Still(r) == r.closed /\ r.failure = None => ~r.sampling

ClientInv ==
  /\ ToldInv
  /\ IsFiniteSet(issued) /\ tokens \subseteq issued
  /\ \A o \in Observers : Still(obs[o])

\* What a client or Still can see of a record: all but its timer and its due time.
SameFace(s, r) ==
  /\ s.channel = r.channel /\ s.created = r.created /\ s.validUntil = r.validUntil
  /\ s.seq = r.seq /\ s.evicted = r.evicted /\ s.events = r.events
  /\ s.closed = r.closed /\ s.failure = r.failure /\ s.lossSeen = r.lossSeen
  /\ s.lastSampleAt = r.lastSampleAt /\ s.sampling = r.sampling

\* maybeDispose leaves record r, but for its timer.
LEMMA DisposeFace ==
  ASSUME RecordsOK, NEW o \in Observers, NEW r \in Observer, NEW left, MaybeDispose(o, r, left)
  PROVE  /\ \A p \in Observers : p # o => obs'[p] = obs[p]
         /\ SameFace(obs'[o], r)
         /\ tokens' \subseteq tokens
<1>0. obs \in [Observers -> Observer] BY DEF RecordsOK
<1>1. CASE left # {} \/ Valid(r)
  <2>1. obs' = [obs EXCEPT ![o] = r] /\ tokens' = tokens BY <1>1 DEF MaybeDispose
  <2> QED BY <1>0, <2>1 DEF SameFace
<1>2. CASE ~(left # {} \/ Valid(r))
  <2> DEFINE s == [r EXCEPT !.timer = FALSE]
  <2>1. obs' = [obs EXCEPT ![o] = s] /\ tokens' \subseteq tokens BY <1>2 DEF MaybeDispose, Dispose
  <2>2. SameFace(s, r) BY DEF SameFace, Observer
  <2> HIDE DEF s
  <2> QED BY <1>0, <2>1, <2>2
<1> QED BY <1>1, <1>2

\* issue() gives at most one cursor more, and holds none that was not given.
LEMMA IssueGives ==
  ASSUME tokens \subseteq issued, IsFiniteSet(issued), NEW o, NEW r, NEW n, Issue(o, r, n)
  PROVE  tokens' \subseteq issued' /\ IsFiniteSet(issued')
<1>1. CASE TableFull BY <1>1 DEF Issue, Unexpired
<1>2. CASE ~TableFull
  <2>1. /\ issued' = issued \cup {Cursor(o, r, n)}
        /\ tokens' = Unexpired \cup {Cursor(o, r, n)}
    BY <1>2 DEF Issue
  <2>2. IsFiniteSet(issued') BY <2>1, FS_AddElement
  <2> QED BY <2>1, <2>2 DEF Unexpired
<1> QED BY <1>1, <1>2

\* The records stay still as far as they look the same.
LEMMA FaceStill ==
  ASSUME NEW s, NEW r, SameFace(s, r), Still(r)
  PROVE  Still(s)
BY DEF SameFace, Still

\* A supplanted observer has failed.
LEMMA SupplantFace ==
  ASSUME ToldInv, NEW c \in Channels, Supplant(c)
  PROVE  \/ observers[c] = None /\ UNCHANGED <<obs, tokens>>
         \/ /\ observers[c] \in born
            /\ \A p \in Observers : p # observers[c] => obs'[p] = obs[p]
            /\ obs'[observers[c]].failure = "CURSOR_EXPIRED"
            /\ obs'[observers[c]].closed = TRUE
            /\ obs'[observers[c]].channel = obs[observers[c]].channel
            /\ tokens' \subseteq tokens
<1>1. CASE observers[c] = None BY <1>1 DEF Supplant
<1>2. CASE observers[c] # None
  <2> DEFINE o == observers[c]
             f == Failed(obs[o], "CURSOR_EXPIRED")
             r == [f EXCEPT !.closed = TRUE]
  <2>1. MaybeDispose(o, r, WaitersOf(o)) BY <1>2 DEF Supplant
  <2>2. o \in born /\ o \in Observers /\ obs[o] \in Observer /\ RecordsOK
    BY <1>2 DEF ToldInv, TableInv, RecordsKept, Owned, ObsInv, TableOK, RecordsOK
  <2>3. "CURSOR_EXPIRED" \in FailureCodes BY DEF FailureCodes
  <2>4. /\ r \in Observer /\ r.failure = "CURSOR_EXPIRED" /\ r.closed = TRUE
        /\ r.channel = obs[o].channel
    BY <2>2, <2>3 DEF Failed, Observer
  <2> HIDE DEF o, r
  <2>5. /\ \A p \in Observers : p # o => obs'[p] = obs[p]
        /\ SameFace(obs'[o], r) /\ tokens' \subseteq tokens
    BY <2>1, <2>2, <2>4, DisposeFace
  <2> QED BY <2>2, <2>4, <2>5 DEF SameFace, o
<1> QED BY <1>1, <1>2

\* The interval fires: a note of the time, a sample begins, or a failure.
LEMMA IntervalFace ==
  ASSUME ToldInv, NEW o \in Observers, IntervalFires(o)
  PROVE  /\ o \in born /\ Healthy(obs[o]) /\ tokens' \subseteq tokens
         /\ \A p \in Observers : p # o => obs'[p] = obs[p]
         /\ obs'[o].channel = obs[o].channel
         /\ \/ /\ obs'[o].closed = obs[o].closed /\ obs'[o].failure = obs[o].failure
               /\ \A state : Shown(state, obs'[o]) = Shown(state, obs[o])
            \/ obs'[o].failure \in {"OBSERVATION_GAP", "CURSOR_EXPIRED"}
<1> DEFINE n == IF now = MaxTime THEN now ELSE now + Interval
           r == [obs[o] EXCEPT !.due = n]
           s == [r EXCEPT !.sampling = TRUE]
           code == IF Stale(r) THEN "OBSERVATION_GAP" ELSE "CURSOR_EXPIRED"
           f == Failed(r, code)
<1>1. /\ obs[o].timer
      /\ \/ obs' = [obs EXCEPT ![o] = r] /\ tokens' = tokens
         \/ obs' = [obs EXCEPT ![o] = s] /\ tokens' = tokens
         \/ MaybeDispose(o, f, WaitersOf(o))
  BY DEF IntervalFires
<1>2. /\ now \in Nat /\ obs \in [Observers -> Observer] /\ RecordsOK
      /\ obs[o] \in Observer
  BY DEF ToldInv, TableInv, ObsInv, TableOK, RecordsOK
<1>3. Healthy(obs[o]) /\ o \in born
  BY <1>1, <1>2 DEF ToldInv, TableInv, RecordsKept, TimerIffHealthy, Owned, Unborn
<1>4. n \in Nat BY <1>2, Constants
<1>5. code \in {"OBSERVATION_GAP", "CURSOR_EXPIRED"} /\ code \in FailureCodes BY DEF FailureCodes
<1> HIDE DEF n, code
<1>6. /\ r \in Observer /\ r.channel = obs[o].channel
      /\ r.closed = obs[o].closed /\ r.failure = obs[o].failure
      /\ \A state : Shown(state, r) = Shown(state, obs[o])
  BY <1>2, <1>4 DEF Observer, Shown, LastChange
<1>7. /\ s.channel = obs[o].channel /\ s.closed = obs[o].closed /\ s.failure = obs[o].failure
      /\ \A state : Shown(state, s) = Shown(state, obs[o])
  BY <1>2, <1>4 DEF Observer, Shown, LastChange
<1> HIDE DEF s
<1>8. CASE obs' = [obs EXCEPT ![o] = r] /\ tokens' = tokens
  <2> HIDE DEF r
  <2> QED BY <1>2, <1>3, <1>6, <1>8
<1>9. CASE obs' = [obs EXCEPT ![o] = s] /\ tokens' = tokens
  BY <1>2, <1>3, <1>7, <1>9
<1>10. CASE MaybeDispose(o, f, WaitersOf(o))
  <2> HIDE DEF r
  <2>1. f \in Observer /\ f.failure = code /\ f.channel = obs[o].channel
    BY <1>5, <1>6 DEF Failed, Observer
  <2> HIDE DEF f
  <2>2. /\ \A p \in Observers : p # o => obs'[p] = obs[p]
        /\ SameFace(obs'[o], f) /\ tokens' \subseteq tokens
    BY <1>2, <1>10, <2>1, DisposeFace
  <2> QED BY <1>3, <1>5, <2>1, <2>2 DEF SameFace
<1> QED BY <1>1, <1>8, <1>9, <1>10

\* Records that look the same are shown the same.
LEMMA FaceShown ==
  ASSUME NEW s, NEW r, SameFace(s, r)
  PROVE  StateOf(s) = StateOf(r) /\ \A state : Shown(state, s) = Shown(state, r)
<1>1. StateOf(s) = StateOf(r) BY DEF SameFace, StateOf, Healthy
<1>2. LastChange(s) = LastChange(r) BY DEF SameFace, LastChange
<1>3. ASSUME NEW state PROVE Shown(state, s) = Shown(state, r)
  BY <1>2 DEF SameFace, Shown
<1> QED BY <1>1, <1>3

\* The fields of what is shown: of a live observer,
LEMMA LiveShown ==
  ASSUME NEW r
  PROVE  Shown("live", r) =
           [state |-> "live", channel |-> r.channel, opened |-> r.created,
            until |-> r.validUntil, seq |-> r.seq, lost |-> r.evicted,
            sampled |-> r.lastSampleAt, changed |-> LastChange(r)]
<1>1. "live" \in {"live"} /\ "live" \in {"live", "gone"} OBVIOUS
<1> QED BY <1>1, Zenon DEF Shown

\* of a gone one,
LEMMA GoneShown ==
  ASSUME NEW r
  PROVE  Shown("gone", r) =
           [state |-> "gone", channel |-> r.channel, opened |-> 0, until |-> r.validUntil,
            seq |-> 0, lost |-> r.evicted, sampled |-> 0, changed |-> 0]
<1>1. "gone" \notin {"live"} /\ "gone" \in {"live", "gone"} OBVIOUS
<1> QED BY <1>1, Zenon DEF Shown

\* of a dead one.
LEMMA DeadShown ==
  ASSUME NEW r
  PROVE  Shown("dead", r) =
           [state |-> "dead", channel |-> r.channel, opened |-> 0, until |-> 0,
            seq |-> 0, lost |-> 0, sampled |-> 0, changed |-> 0]
<1>1. "dead" \notin {"live"} /\ "dead" \notin {"live", "gone"} OBVIOUS
<1> QED BY <1>1, Zenon DEF Shown

\* An observer that does not exist shows no stream.
LEMMA UnbornShown == Shown("none", Unborn) = Contract!NoStream
<1>1. "none" \notin {"live"} /\ "none" \notin {"live", "gone"} OBVIOUS
<1>2. Shown("none", Unborn) =
        [state |-> "none", channel |-> Unborn.channel, opened |-> 0, until |-> 0,
         seq |-> 0, lost |-> 0, sampled |-> 0, changed |-> 0]
  BY <1>1, Zenon DEF Shown
<1>3. Unborn.channel = None BY DEF Unborn
<1> QED BY <1>2, <1>3 DEF Contract!NoStream

\* Of a stream that has failed there is left its Channel.
LEMMA DeadLeft ==
  ASSUME NEW a, NEW r, a.channel = r.channel
  PROVE  /\ Shown("dead", a) = Contract!Dead(Shown("live", r))
         /\ Shown("dead", a) = Contract!Dead(Shown("gone", r))
<1>1. Shown("live", r).channel = r.channel BY LiveShown
<1>2. Shown("gone", r).channel = r.channel BY GoneShown
<1> QED BY <1>1, <1>2, DeadShown DEF Contract!Dead

\* Of a stream whose pane is gone there is left how far a cursor holds.
LEMMA GoneLeft ==
  ASSUME NEW a, NEW r, a.channel = r.channel, a.validUntil = r.validUntil, a.evicted = r.evicted
  PROVE  Shown("gone", a) = Contract!Gone(Shown("live", r))
<1> DEFINE x == Shown("live", r)
<1>1. x.channel = r.channel /\ x.until = r.validUntil /\ x.lost = r.evicted BY LiveShown
<1> HIDE DEF x
<1>2. Shown("gone", a) = Contract!Gone(x) BY <1>1, GoneShown DEF Contract!Gone
<1> QED BY <1>2 DEF x

\* A change, as clients see it.
LEMMA ChangeShown ==
  ASSUME NEW p, NEW r, r.seq \in Nat, r.evicted \in Nat, MaxHistory \in Nat,
         p.channel = r.channel, p.created = r.created, p.validUntil = r.validUntil,
         p.seq = r.seq + 1, p.lastSampleAt = now, LastChange(p) = now,
         p.evicted = IF r.seq + 1 - r.evicted > MaxHistory THEN r.evicted + 1 ELSE r.evicted
  PROVE  Shown("live", p) = Contract!SeesChange(Shown("live", r))
<1> DEFINE x == Shown("live", r)
           n == r.seq + 1
           l == IF n - r.evicted > MaxHistory THEN r.evicted + 1 ELSE r.evicted
<1>1. /\ x.channel = r.channel /\ x.opened = r.created /\ x.until = r.validUntil
      /\ x.seq = r.seq /\ x.lost = r.evicted
  BY LiveShown
<1>2. p.seq = n /\ p.evicted = l OBVIOUS
<1> HIDE DEF n, l
<1>3. Shown("live", p) = [state |-> "live", channel |-> r.channel, opened |-> r.created,
           until |-> r.validUntil, seq |-> n, lost |-> l, sampled |-> now, changed |-> now]
  BY <1>2, LiveShown
<1> HIDE DEF x
<1>4. Contract!SeesChange(x) =
        [state |-> "live", channel |-> r.channel, opened |-> r.created,
         until |-> r.validUntil, seq |-> n, lost |-> l, sampled |-> now, changed |-> now]
  BY <1>1 DEF Contract!SeesChange, n, l
<1> QED BY <1>3, <1>4 DEF x

\* A sample that finds nothing new.
LEMMA SampledShown ==
  ASSUME NEW r \in Observer
  PROVE  /\ Sampled(r).closed = r.closed /\ Sampled(r).failure = r.failure
         /\ Sampled(r).lossSeen = r.lossSeen /\ Sampled(r).channel = r.channel
         /\ Sampled(r).created = r.created /\ Sampled(r).validUntil = r.validUntil
         /\ Shown("live", Sampled(r)) = Contract!SeesNothing(Shown("live", r))
<1> DEFINE s == Sampled(r)
<1>1. /\ s.closed = r.closed /\ s.failure = r.failure /\ s.lossSeen = r.lossSeen
      /\ s.channel = r.channel /\ s.created = r.created /\ s.validUntil = r.validUntil
      /\ s.seq = r.seq /\ s.evicted = r.evicted /\ s.lastSampleAt = now /\ s.events = r.events
  BY DEF Sampled, Observer
<1> HIDE DEF s
<1>2. LastChange(s) = LastChange(r) BY <1>1 DEF LastChange
<1>3. Shown("live", s) = Contract!SeesNothing(Shown("live", r))
  BY <1>1, <1>2, LiveShown DEF Contract!SeesNothing
<1> QED BY <1>1, <1>3 DEF s

\* A sample that finds a change: one event more, of now, and the oldest one is
\* forgotten if there are too many.
LEMMA RecordedShown ==
  ASSUME now \in Nat, NEW r, Sane(r, now), r.lastSampleAt = now
  PROVE  /\ Recorded(r).closed = r.closed /\ Recorded(r).failure = r.failure
         /\ Recorded(r).lossSeen = r.lossSeen /\ Recorded(r).channel = r.channel
         /\ Shown("live", Recorded(r)) = Contract!SeesChange(Shown("live", r))
<1> DEFINE e == [seq |-> r.seq + 1, at |-> now, sample |-> r.sampleCount]
           n == r.seq + 1
           s == Append(r.events, e)
           q == [r EXCEPT !.seq = n, !.events = s]
           x == Recorded(r)
<1>0. /\ r \in Observer /\ r.events \in Seq(Event) /\ r.sampleCount \in Nat /\ r.evicted \in Nat
      /\ r.seq \in Nat /\ MaxHistory \in Nat /\ MaxHistory >= 1
      /\ Len(r.events) <= MaxHistory /\ r.seq = r.evicted + Len(r.events)
  BY Fields, Constants DEF Sane, HistoryOK
<1>1. x = Trimmed(q) BY <1>0 DEF Recorded, Observer
<1>2. e \in Event /\ n \in Nat /\ e.at = now BY <1>0 DEF Event
<1>3. /\ s \in Seq(Event) /\ Len(s) = Len(r.events) + 1 /\ Len(s) \in Nat /\ Len(r.events) \in Nat
      /\ \A i \in 1..Len(r.events) : s[i] = r.events[i]
      /\ s[Len(s)] = e
  BY <1>0, <1>2, AppendProperties
<1>4. Head(s).seq = r.evicted + 1 \/ Len(r.events) = 0
  <2>1. CASE Len(r.events) # 0
    <3>1. 1 \in 1..Len(r.events) /\ 1 \in DOMAIN r.events BY <1>0, <1>3, <2>1
    <3>2. Head(s) = r.events[1] BY <1>3, <3>1
    <3>3. r.events[1].seq = r.evicted + 1 BY <3>1 DEF Sane, HistoryOK
    <3> QED BY <3>2, <3>3
  <2> QED BY <2>1
<1>5. Len(s) > MaxHistory <=> r.seq + 1 - r.evicted > MaxHistory
  <2>1. r.seq + 1 - r.evicted = Len(s) BY <1>0, <1>3
  <2> QED BY <2>1
<1> HIDE DEF e, n, s
<1>6. /\ q.closed = r.closed /\ q.failure = r.failure /\ q.lossSeen = r.lossSeen
      /\ q.channel = r.channel /\ q.created = r.created /\ q.validUntil = r.validUntil
      /\ q.lastSampleAt = now /\ q.seq = n /\ q.events = s /\ q.evicted = r.evicted
      /\ q \in Observer
  BY <1>0, <1>2, <1>3 DEF Observer
<1> HIDE DEF q
<1>7. CASE Len(s) <= MaxHistory
  <2>1. x = q BY <1>1, <1>6, <1>7 DEF Trimmed
  <2>2. LastChange(q) = now
    <3>1. s # <<>> BY <1>0, <1>3, EmptySeq
    <3> QED BY <1>2, <1>3, <1>6, <3>1 DEF LastChange, Last
  <2>3. ~(r.seq + 1 - r.evicted > MaxHistory) BY <1>0, <1>3, <1>5, <1>7
  <2>4. Shown("live", q) = Contract!SeesChange(Shown("live", r))
    BY <1>0, <1>6, <2>2, <2>3, ChangeShown DEF n
  <2> QED BY <1>6, <2>1, <2>4
<1>8. CASE ~(Len(s) <= MaxHistory)
  <2> DEFINE t == Tail(s)
             h == Head(s).seq
             p == [q EXCEPT !.events = t, !.evicted = h]
  <2>1. x = p BY <1>1, <1>6, <1>8 DEF Trimmed
  <2>2. r.seq + 1 - r.evicted > MaxHistory /\ Len(r.events) # 0 BY <1>0, <1>3, <1>5, <1>8
  <2>3. h = r.evicted + 1 BY <1>4, <2>2
  <2>4. s # <<>> /\ t \in Seq(Event) /\ Len(t) = Len(s) - 1 /\ t # <<>> /\ t[Len(t)] = e
    <3>1. s # <<>> /\ Len(s) - 1 >= 1 /\ Len(s) \in Nat BY <1>0, <1>3, <2>2, EmptySeq
    <3>2. /\ t \in Seq(Event) /\ Len(t) = Len(s) - 1
          /\ \A i \in 1..Len(t) : t[i] = s[i + 1]
      BY <1>3, <3>1, HeadTailProperties
    <3>3. Len(t) \in 1..Len(t) /\ Len(t) + 1 = Len(s) BY <3>1, <3>2
    <3>4. t[Len(t)] = s[Len(s)] BY <3>2, <3>3
    <3>5. t # <<>>
      <4>1. Len(t) # 0 BY <3>1, <3>2
      <4> HIDE DEF t
      <4> QED BY <4>1, EmptySeq
    <3> QED BY <1>3, <3>1, <3>2, <3>4, <3>5
  <2> HIDE DEF t, h
  <2>5. /\ p.closed = r.closed /\ p.failure = r.failure /\ p.lossSeen = r.lossSeen
        /\ p.channel = r.channel /\ p.created = r.created /\ p.validUntil = r.validUntil
        /\ p.lastSampleAt = now /\ p.seq = n /\ p.events = t /\ p.evicted = h
    BY <1>6 DEF Observer
  <2> HIDE DEF p
  <2>6. LastChange(p) = now BY <1>2, <2>4, <2>5 DEF LastChange, Last
  <2>7. Shown("live", p) = Contract!SeesChange(Shown("live", r))
    BY <1>0, <2>2, <2>3, <2>5, <2>6, ChangeShown DEF n
  <2> QED BY <2>1, <2>5, <2>7
<1> QED BY <1>7, <1>8

\* What a sample makes of an observer, as clients see it.
LEMMA AfterSampleShown ==
  ASSUME now \in Nat, NEW r, Sane(r, now), NEW outcome \in Outcomes
  PROVE  LET a == AfterSample(r, outcome) IN
         /\ a.channel = r.channel
         /\ r.failure # None => a.failure # None
         /\ Healthy(r) =>
              \/ a.failure # None
              \/ ~Stale(r) /\ Healthy(a) /\ Shown("live", a) = Contract!SeesNothing(Shown("live", r))
              \/ ~Stale(r) /\ Healthy(a) /\ Shown("live", a) = Contract!SeesChange(Shown("live", r))
              \/ ~Stale(r) /\ StateOf(a) = "gone"
                   /\ a.validUntil = r.validUntil /\ a.evicted = r.evicted
<1> DEFINE s == Sampled(r)
<1>0. r \in Observer BY DEF Sane
<1>1. /\ s.closed = r.closed /\ s.failure = r.failure /\ s.lossSeen = r.lossSeen
      /\ s.channel = r.channel /\ s.validUntil = r.validUntil
      /\ Shown("live", s) = Contract!SeesNothing(Shown("live", r))
  BY <1>0, SampledShown
<1>2. Sane(s, now) /\ s \in Observer /\ s.lastSampleAt = now /\ s.evicted = r.evicted
      /\ s.seq = r.seq
  BY SaneSampled DEF Sane
<1> HIDE DEF s
<1>3. ASSUME NEW y \in Observer, NEW code \in FailureCodes
      PROVE  Failed(y, code).channel = y.channel /\ Failed(y, code).failure # None
  <2>1. code # None BY NoneAssumption DEF ErrorCodes, RefusalCodes
  <2> QED BY <1>3, <2>1 DEF Failed, Observer
<1>4. CASE outcome \in BackendCodes \/ Stale(r)
  <2>1. PICK code \in FailureCodes : AfterSample(r, outcome) = Failed(r, code)
    BY <1>4 DEF AfterSample, FailureCodes
  <2> QED BY <1>0, <1>3, <2>1
<1>5. CASE ~(outcome \in BackendCodes \/ Stale(r))
  <2>1. CASE outcome = "closed"
    <3> DEFINE a == [s EXCEPT !.closed = TRUE, !.timer = FALSE, !.lossSeen = TRUE]
    <3>1. AfterSample(r, outcome) = a BY <1>5, <2>1 DEF AfterSample, s
    <3>2. /\ a.channel = s.channel /\ a.validUntil = s.validUntil /\ a.lossSeen = TRUE
          /\ a.failure = s.failure /\ a.closed = TRUE /\ a.evicted = s.evicted
      BY <1>2 DEF Observer
    <3> HIDE DEF a
    <3>3. Healthy(r) => StateOf(a) = "gone" BY <1>1, <3>2 DEF Healthy, StateOf
    <3> QED BY <1>1, <1>2, <1>5, <3>1, <3>2, <3>3
  <2>2. CASE outcome = "replaced"
    <3> DEFINE f == Failed(s, "CHANNEL_INSTANCE_CHANGED")
               a == [f EXCEPT !.lossSeen = TRUE]
    <3>1. AfterSample(r, outcome) = a BY <1>5, <2>2 DEF AfterSample, s
    <3>2. "CHANNEL_INSTANCE_CHANGED" \in FailureCodes BY DEF FailureCodes, BackendCodes
    <3>3. f \in Observer /\ f.channel = r.channel /\ f.failure # None
      BY <1>1, <1>2, <1>3, <3>2 DEF Failed, Observer
    <3> HIDE DEF f
    <3>4. a.channel = f.channel /\ a.failure = f.failure BY <3>3 DEF Observer
    <3> QED BY <3>1, <3>3, <3>4
  <2>3. CASE outcome = "changed"
    <3>1. AfterSample(r, outcome) = Recorded(s) BY <1>5, <2>3 DEF AfterSample, s
    <3>2. /\ Recorded(s).closed = s.closed /\ Recorded(s).failure = s.failure
          /\ Recorded(s).channel = s.channel
          /\ Shown("live", Recorded(s)) = Contract!SeesChange(Shown("live", s))
      BY <1>2, RecordedShown
    <3>3. Contract!SeesChange(Shown("live", s)) = Contract!SeesChange(Shown("live", r))
      BY <1>1, LiveShown DEF Contract!SeesChange, Contract!SeesNothing
    <3>4. Healthy(r) => Healthy(Recorded(s)) BY <1>1, <3>2 DEF Healthy
    <3> QED BY <1>1, <1>5, <3>1, <3>2, <3>3, <3>4
  <2>4. CASE outcome = "unchanged"
    <3>1. AfterSample(r, outcome) = s BY <1>5, <2>4 DEF AfterSample, s
    <3>2. Healthy(r) => Healthy(s) BY <1>1 DEF Healthy
    <3> QED BY <1>1, <1>5, <3>1, <3>2
  <2> QED BY <1>5, <2>1, <2>2, <2>3, <2>4 DEF Outcomes
<1> QED BY <1>4, <1>5

\* The manager starts with no cursor and no sample.
LEMMA ClientInitial == Init => ClientInv
<1> SUFFICES ASSUME Init PROVE ClientInv OBVIOUS
<1>1. ToldInv BY ToldInitial
<1>2. IsFiniteSet(issued) /\ tokens \subseteq issued BY FS_EmptySet DEF Init
<1>3. \A o \in Observers : Still(obs[o]) BY DEF Init, Still, Unborn
<1> QED BY <1>1, <1>2, <1>3 DEF ClientInv

\* What a step does to the cursors.
LEMMA CursorsMove ==
  ASSUME ClientInv, Next
  PROVE  IsFiniteSet(issued') /\ tokens' \subseteq issued'
<1> USE DEF ClientInv
<1>1. CASE UNCHANGED issued /\ tokens' \subseteq tokens BY <1>1
<1>2. CASE Tick \/ DetachedEnds
  <2>1. UNCHANGED <<issued, tokens>> BY <1>2 DEF Tick, DetachedEnds, cursorVars
  <2> QED BY <1>1, <2>1
<1>3. ASSUME NEW c \in Channels, ChannelStep(c)
      PROVE  IsFiniteSet(issued') /\ tokens' \subseteq issued'
  <2>1. CASE ObserveRenew(c)
    <3>1. \E o, r, n : Issue(o, r, n) BY <2>1 DEF ObserveRenew
    <3> QED BY <3>1, IssueGives
  <2>2. CASE ObserveCreate(c)
    <3>1. Supplant(c) /\ UNCHANGED issued BY <2>2 DEF ObserveCreate
    <3>2. tokens' \subseteq tokens BY <3>1, SupplantFace
    <3> QED BY <1>1, <3>1, <3>2
  <2>3. CASE Created(c)
    <3>1. \E o, r, n : Issue(o, r, n) BY <2>3 DEF Created
    <3> QED BY <3>1, IssueGives
  <2>4. CASE CreateFailed(c)
    <3>1. UNCHANGED <<issued, tokens>> BY <2>4 DEF CreateFailed, cursorVars
    <3> QED BY <1>1, <3>1
  <2> QED BY <1>3, <2>1, <2>2, <2>3, <2>4 DEF ChannelStep
<1>4. ASSUME NEW o \in Observers, ObserverStep(o)
      PROVE  IsFiniteSet(issued') /\ tokens' \subseteq issued'
  <2>1. CASE IntervalFires(o)
    <3>1. UNCHANGED issued BY <2>1 DEF IntervalFires
    <3>2. tokens' \subseteq tokens BY <2>1, IntervalFace
    <3> QED BY <1>1, <3>1, <3>2
  <2>2. ASSUME NEW outcome \in Outcomes, SampleEnds(o, outcome)
        PROVE  IsFiniteSet(issued') /\ tokens' \subseteq issued'
    <3>1. UNCHANGED issued BY <2>2 DEF SampleEnds
    <3>2. \E r, left : MaybeDispose(o, r, left) BY <2>2 DEF SampleEnds
    <3>3. tokens' \subseteq tokens BY <3>2 DEF MaybeDispose, Dispose
    <3> QED BY <1>1, <3>1, <3>3
  <2> QED BY <1>4, <2>1, <2>2 DEF ObserverStep
<1>5. ASSUME NEW w \in Waiters, WaiterStep(w)
      PROVE  IsFiniteSet(issued') /\ tokens' \subseteq issued'
  <2>1. CASE Confirmed(w)
    <3>1. UNCHANGED <<issued, tokens>> \/ \E o, r, n : Issue(o, r, n) BY <2>1 DEF Confirmed
    <3> QED BY <1>1, <3>1, IssueGives
  <2>2. CASE Settle(w)
    <3>1. UNCHANGED issued BY <2>2 DEF Settle
    <3>2. \E o, r, left : MaybeDispose(o, r, left) BY <2>2 DEF Settle
    <3>3. tokens' \subseteq tokens BY <3>2 DEF MaybeDispose, Dispose
    <3> QED BY <1>1, <3>1, <3>3
  <2>3. CASE ~Confirmed(w) /\ ~Settle(w)
    <3>1. UNCHANGED <<issued, tokens>>
      BY <1>5, <2>3 DEF WaiterStep, Refuse, Admit, Evaluate, Admitted, ValidationFails, Deadline, Cancel,
         Poll, Thrown, cursorVars
    <3> QED BY <1>1, <3>1
  <2> QED BY <2>1, <2>2, <2>3
<1> QED BY <1>2, <1>3, <1>4, <1>5 DEF Next

\* A pane that is gone is not sampled any more.
LEMMA StaysStill ==
  ASSUME ClientInv, Next
  PROVE  \A o \in Observers : Still(obs'[o])
<1> USE DEF ClientInv
<1>0. /\ obs \in [Observers -> Observer] /\ RecordsOK /\ observers \in [Channels -> Observers \cup {None}]
      /\ born \subseteq Observers
  BY DEF ToldInv, TableInv, ObsInv, TableOK, RecordsOK
<1>1. CASE UNCHANGED obs BY <1>1
<1>2. ASSUME NEW c \in Channels, ChannelStep(c)
      PROVE  \A o \in Observers : Still(obs'[o])
  <2>1. CASE ObserveRenew(c)
    <3> DEFINE o == observers[c]
               n == LeaseEnd(obs[o].created)
               r == [obs[o] EXCEPT !.validUntil = n]
    <3>1. obs' = [obs EXCEPT ![o] = r] /\ o \in Observers
      BY <1>0, <2>1 DEF ObserveRenew, Mapped
    <3> HIDE DEF o, n
    <3>2. Still(r) BY <1>0, <3>1 DEF Still, Observer
    <3> HIDE DEF r
    <3> QED BY <1>0, <3>1, <3>2
  <2>2. CASE ObserveCreate(c)
    <3>1. Supplant(c) BY <2>2 DEF ObserveCreate
    <3>2. "CURSOR_EXPIRED" # None BY NoneAssumption DEF ErrorCodes, RefusalCodes, FailureCodes
    <3> QED BY <3>1, <3>2, SupplantFace DEF Still
  <2>3. CASE Created(c)
    <3> DEFINE e == now + Lease
               d == now + Interval
               r == [Unborn EXCEPT !.channel = c, !.created = now, !.validUntil = e,
                                   !.timer = TRUE, !.due = d,
                                   !.lastSampleAt = now, !.sampleCount = 1]
    <3>1. PICK o \in Observers \ born : obs' = [obs EXCEPT ![o] = r] BY <2>3 DEF Created
    <3> HIDE DEF e, d
    <3>2. Still(r) BY DEF Still, Unborn
    <3> HIDE DEF r
    <3> QED BY <1>0, <3>1, <3>2
  <2>4. CASE CreateFailed(c) BY <1>1, <2>4 DEF CreateFailed
  <2> QED BY <1>2, <2>1, <2>2, <2>3, <2>4 DEF ChannelStep
<1>3. ASSUME NEW o \in Observers, ObserverStep(o)
      PROVE  \A p \in Observers : Still(obs'[p])
  <2>1. CASE IntervalFires(o)
    <3>1. /\ Healthy(obs[o]) /\ \A p \in Observers : p # o => obs'[p] = obs[p]
          /\ \/ obs'[o].closed = obs[o].closed
             \/ obs'[o].failure \in {"OBSERVATION_GAP", "CURSOR_EXPIRED"}
      BY <2>1, IntervalFace
    <3>2. None \notin {"OBSERVATION_GAP", "CURSOR_EXPIRED"}
      BY NoneAssumption DEF ErrorCodes, RefusalCodes, FailureCodes
    <3>3. Still(obs'[o]) BY <3>1, <3>2 DEF Still, Healthy
    <3> QED BY <3>1, <3>3
  <2>2. ASSUME NEW outcome \in Outcomes, SampleEnds(o, outcome)
        PROVE  \A p \in Observers : Still(obs'[p])
    <3> DEFINE a == AfterSample(obs[o], outcome)
               r == [a EXCEPT !.sampling = FALSE]
    <3>1. MaybeDispose(o, r, WaitersOf(o)) BY <2>2 DEF SampleEnds
    <3>2. a \in Observer
      <4>1. now \in Nat /\ Sane(obs[o], now) BY <1>0 DEF RecordsOK
      <4> QED BY <4>1, SaneAfterSample DEF Sane
    <3> HIDE DEF a
    <3>3. r \in Observer /\ r.sampling = FALSE BY <3>2 DEF Observer
    <3> HIDE DEF r
    <3>4. /\ \A p \in Observers : p # o => obs'[p] = obs[p]
          /\ SameFace(obs'[o], r)
      BY <1>0, <3>1, <3>3, DisposeFace
    <3>5. Still(obs'[o]) BY <3>3, <3>4 DEF Still, SameFace
    <3> QED BY <3>4, <3>5
  <2> QED BY <1>3, <2>1, <2>2 DEF ObserverStep
<1>4. ASSUME NEW w \in Waiters, WaiterStep(w)
      PROVE  \A o \in Observers : Still(obs'[o])
  <2>1. CASE Settle(w)
    <3> DEFINE o == wait[w].token.obs
    <3>1. MaybeDispose(o, obs[o], WaitersOf(o)) BY <2>1 DEF Settle, Of
    <3>2. o \in Observers BY <1>0, <2>1 DEF Settle, ToldInv, TableInv, CallsOwned
    <3> HIDE DEF o
    <3>3. /\ \A p \in Observers : p # o => obs'[p] = obs[p]
          /\ SameFace(obs'[o], obs[o])
      BY <1>0, <3>1, <3>2, DisposeFace
    <3>4. Still(obs'[o]) BY <3>2, <3>3, FaceStill
    <3> QED BY <3>3, <3>4
  <2>2. CASE ~Settle(w)
    <3>1. UNCHANGED obs
      BY <1>4, <2>2 DEF WaiterStep, Refuse, Admit, Evaluate, Admitted, Confirmed, ValidationFails,
         Deadline, Cancel, Poll, Thrown
    <3> QED BY <1>1, <3>1
  <2> QED BY <2>1, <2>2
<1>5. CASE Tick \/ DetachedEnds BY <1>1, <1>5 DEF Tick, DetachedEnds
<1> QED BY <1>2, <1>3, <1>4, <1>5 DEF Next

\* What the refinement relies on is preserved by every step.
THEOREM ClientInductive == ClientInv /\ [Next]_vars => ClientInv'
<1> SUFFICES ASSUME ClientInv, [Next]_vars PROVE ClientInv' OBVIOUS
<1>1. ToldInv' BY ToldInductive DEF ClientInv
<1>2. CASE Next BY <1>1, <1>2, CursorsMove, StaysStill DEF ClientInv
<1>3. CASE UNCHANGED vars
  <2>1. UNCHANGED <<issued, tokens, obs>> BY <1>3 DEF vars, cursorVars
  <2> QED BY <1>1, <2>1 DEF ClientInv
<1> QED BY <1>2, <1>3

-----------------------------------------------------------------------------
(* The state of the contract.                                              *)

Streams == [o \in Observers |-> Stream(o)]
Calls == [w \in Waiters |-> Call(wait[w])]

\* What clients see of a step: a step of the contract, or nothing.
ContractStep == [Contract!Next]_(Contract!contractVars)

\* Both count alike.
LEMMA SameCardinality == \A S : Contract!Cardinality(S) = Cardinality(S)
BY DEF Contract!Cardinality, Cardinality

\* Nothing that a client could see.
LEMMA Unseen ==
  ASSUME UNCHANGED <<now, issued, Streams, Calls>>
  PROVE  UNCHANGED Contract!contractVars
BY DEF Contract!contractVars, Streams, Calls

\* A step of one stream.
LEMMA StreamSeen ==
  ASSUME NEW o \in Observers, NEW c \in Channels,
         \/ Contract!Open(o, c) \/ Contract!Renew(o) \/ Contract!Sample(o)
         \/ Contract!Vanish(o) \/ Contract!Fail(o)
  PROVE  Contract!Next
BY DEF Contract!Next, Contract!StreamStep

\* What a stream shows while nothing happens to its observer.
LEMMA StreamKept ==
  ASSUME NEW p \in Observers, p \in born' <=> p \in born, obs'[p] = obs[p]
  PROVE  Stream(p)' = Stream(p)
BY DEF Stream

\* Nothing happens to the streams.
LEMMA StreamsKept ==
  ASSUME \A p \in Observers : Stream(p)' = Stream(p)
  PROVE  Streams' = Streams
BY DEF Streams

\* Something happens to one of them.
LEMMA OneStream ==
  ASSUME NEW o \in Observers, \A p \in Observers : p # o => Stream(p)' = Stream(p)
  PROVE  Streams' = [Streams EXCEPT ![o] = Stream(o)']
BY DEF Streams

\* A healthy observer is live, a failed one is dead.
LEMMA States ==
  ASSUME NEW r
  PROVE  /\ Healthy(r) => StateOf(r) = "live"
         /\ ~Healthy(r) /\ r.failure # None => StateOf(r) = "dead"
         /\ Honest(r) /\ r.closed /\ r.failure = None => StateOf(r) = "gone"
         /\ StateOf(r) \in {"live", "gone", "dead"}
         /\ StateOf(r) = "live" => Healthy(r)
BY DEF StateOf, Healthy, Honest

\* A call that a sample or an interval wakes looks the same to its client.
LEMMA WokenCalls ==
  ASSUME WaitOK, NEW o, wait' = Woken(o) \/ wait' = wait
  PROVE  Calls' = Calls
<1> SUFFICES ASSUME NEW w \in Waiters PROVE Call(wait'[w]) = Call(wait[w]) BY DEF Calls
<1>0. wait[w] \in WaitCall BY DEF WaitOK
<1>1. CASE wait'[w] = wait[w] BY <1>1
<1>2. CASE wait'[w] # wait[w] /\ wait[w].phase = "parked"
  <2>1. wait'[w] = [wait[w] EXCEPT !.phase = "ready"] BY <1>2 DEF Woken
  <2>2. /\ wait'[w].phase = "ready" /\ wait'[w].token = wait[w].token /\ wait'[w].idle = wait[w].idle
        /\ wait'[w].deadline = wait[w].deadline /\ wait'[w].result = wait[w].result
        /\ wait'[w].next = wait[w].next /\ wait'[w].activity = wait[w].activity
    BY <1>0, <2>1 DEF WaitCall
  <2>3. StageOf("ready") = StageOf("parked") BY DEF StageOf, Registered
  <2> QED BY <1>2, <2>2, <2>3 DEF Call
<1>3. CASE wait'[w] # wait[w] /\ wait[w].phase # "parked"
  <2> DEFINE d == wait[w].phase \in {"admitting", "confirming"}
  <2>1. wait'[w] = [wait[w] EXCEPT !.dirty = d] BY <1>3 DEF Woken
  <2> HIDE DEF d
  <2>2. /\ wait'[w].phase = wait[w].phase /\ wait'[w].token = wait[w].token
        /\ wait'[w].idle = wait[w].idle
        /\ wait'[w].deadline = wait[w].deadline /\ wait'[w].result = wait[w].result
        /\ wait'[w].next = wait[w].next /\ wait'[w].activity = wait[w].activity
    BY <1>0, <2>1 DEF WaitCall
  <2> QED BY <2>2 DEF Call
<1> QED BY <1>1, <1>2, <1>3

\* An observer that has a failure after the step fails in it or has failed before.
LEMMA FailsOrStays ==
  ASSUME NEW o \in born, born \subseteq Observers, born' = born,
         \A p \in Observers : p # o => obs'[p] = obs[p],
         obs'[o].failure # None, obs'[o].channel = obs[o].channel,
         Calls' = Calls, UNCHANGED <<now, issued>>
  PROVE  Contract!Fail(o) \/ UNCHANGED Contract!contractVars
<1> DEFINE d == Shown("dead", obs'[o])
<1>1. StateOf(obs'[o]) = "dead" BY DEF StateOf, Healthy
<1>2. Stream(o)' = d BY <1>1 DEF Stream
<1>3. \A p \in Observers : p # o => Stream(p)' = Stream(p) BY StreamKept
<1>4. Streams' = [Streams EXCEPT ![o] = d] BY <1>2, <1>3, OneStream
<1>5. Streams[o] = Shown(StateOf(obs[o]), obs[o]) BY DEF Streams, Stream
<1> HIDE DEF d
<1>6. CASE StateOf(obs[o]) \in {"live", "gone"}
  <2>0. Shown("live", obs[o]).state = "live" /\ Shown("gone", obs[o]).state = "gone"
    BY DEF Shown
  <2>1. Streams[o].state \in {"live", "gone"} BY <1>5, <1>6, <2>0
  <2>2. d = Contract!Dead(Streams[o]) BY <1>5, <1>6, DeadLeft DEF d
  <2>3. Contract!Fail(o) BY <1>4, <2>1, <2>2 DEF Contract!Fail, Streams, Calls
  <2> QED BY <2>3
<1>7. CASE StateOf(obs[o]) = "dead"
  <2>1. d = Streams[o] BY <1>5, <1>7, DeadShown DEF d
  <2>2. Streams' = Streams BY <1>4, <2>1 DEF Streams
  <2> QED BY <2>2, Unseen
<1> QED BY <1>6, <1>7, States

-----------------------------------------------------------------------------
(* Steps of the observers.                                                 *)

\* The clock ticks for both.
LEMMA TickRefines == ASSUME Tick PROVE ContractStep
<1>1. now' = now + 1 /\ UNCHANGED <<obs, born, issued, wait>> BY DEF Tick, cursorVars
<1>2. Streams' = Streams /\ Calls' = Calls BY <1>1, StreamKept, StreamsKept DEF Calls
<1>3. Contract!Tick BY <1>1, <1>2 DEF Contract!Tick, Streams, Calls
<1> QED BY <1>3 DEF ContractStep, Contract!Next

\* An abandoned batch ends, a creation fails: clients see nothing of it.
LEMMA UnseenSteps ==
  ASSUME DetachedEnds \/ (\E c \in Channels : CreateFailed(c)) \/ UNCHANGED vars
  PROVE  ContractStep
<1>1. UNCHANGED <<now, obs, born, issued, wait>> BY DEF DetachedEnds, CreateFailed, cursorVars, vars
<1>2. Streams' = Streams /\ Calls' = Calls BY <1>1, StreamKept, StreamsKept DEF Calls
<1> QED BY <1>1, <1>2, Unseen DEF ContractStep

\* A valid observer is a usable stream.
LEMMA LiveStream ==
  ASSUME NEW o \in Observers, o \in born, Healthy(obs[o])
  PROVE  /\ Stream(o) = Shown("live", obs[o])
         /\ Streams[o] = Stream(o)
         /\ Stream(o).state = "live" /\ Stream(o).channel = obs[o].channel
         /\ Stream(o).opened = obs[o].created /\ Stream(o).until = obs[o].validUntil
         /\ Stream(o).seq = obs[o].seq /\ Stream(o).lost = obs[o].evicted
         /\ Stream(o).sampled = obs[o].lastSampleAt /\ Stream(o).changed = LastChange(obs[o])
<1>1. Stream(o) = Shown("live", obs[o]) BY DEF Stream, StateOf
<1>2. Streams[o] = Stream(o) BY DEF Streams
<1> QED BY <1>1, <1>2, LiveShown

\* Only a healthy observer shows a live stream.
LEMMA UsableStream ==
  ASSUME NEW o \in Observers, Contract!Usable(o)
  PROVE  o \in born /\ Valid(obs[o])
<1>1. Streams[o] = Shown(IF o \in born THEN StateOf(obs[o]) ELSE "none", obs[o])
  BY DEF Streams, Stream
<1>2. Streams[o].state = "live" /\ Streams[o].until > now BY DEF Contract!Usable, Streams
<1>3. \A state : Shown(state, obs[o]).state = state BY DEF Shown
<1>4. o \in born /\ StateOf(obs[o]) = "live" BY <1>1, <1>2, <1>3
<1>5. Healthy(obs[o]) BY <1>4 DEF StateOf
<1>6. Streams[o].until = obs[o].validUntil BY <1>1, <1>4, LiveShown
<1> QED BY <1>2, <1>4, <1>5, <1>6 DEF Valid

\* When the table is full, so many unexpired cursors have been given.
LEMMA FullIsExhausted == ASSUME ClientInv, TableFull PROVE Contract!Exhausted
<1> DEFINE S == {t \in issued : t.exp >= now}
<1>1. Unexpired \subseteq S BY DEF Unexpired, ClientInv
<1>2. IsFiniteSet(S) BY FS_Subset DEF ClientInv
<1>3. /\ Cardinality(Unexpired) <= Cardinality(S)
      /\ Cardinality(Unexpired) \in Nat /\ Cardinality(S) \in Nat
  BY <1>1, <1>2, FS_Subset, FS_CardinalityType
<1>4. Cardinality(S) >= MaxTokens BY <1>3, LimitsAssumption DEF TableFull
<1> QED BY <1>4, SameCardinality DEF Contract!Exhausted

\* The cursor that issue() is asked for is given, or the table is full.
LEMMA IssueIsGive ==
  ASSUME ClientInv, NEW o, NEW r, NEW n, Issue(o, r, n)
  PROVE  Contract!Give([obs |-> o, seq |-> n, exp |-> LeaseEnd(r.created)])
<1>1. CASE TableFull
  <2>1. issued' = issued BY <1>1 DEF Issue
  <2> QED BY <1>1, <2>1, FullIsExhausted DEF Contract!Give
<1>2. CASE ~TableFull
  BY <1>2 DEF Issue, Cursor, Contract!Give
<1> QED BY <1>1, <1>2

\* Both compute the end of a lease alike.
LEMMA SameLeaseEnd == \A created : Contract!LeaseEnd(created) = LeaseEnd(created)
BY DEF Contract!LeaseEnd, LeaseEnd

\* A lease is renewed.
LEMMA RenewRefines ==
  ASSUME ClientInv, NEW c \in Channels, ObserveRenew(c)
  PROVE  ContractStep
<1>0. PICK o : o = observers[c] OBVIOUS
<1> DEFINE n == LeaseEnd(obs[o].created)
           r == [obs[o] EXCEPT !.validUntil = n]
<1>1. /\ c \in Mapped /\ Valid(obs[o]) /\ obs' = [obs EXCEPT ![o] = r]
      /\ Issue(o, r, r.seq) /\ UNCHANGED <<now, born, wait>>
  BY <1>0 DEF ObserveRenew
<1>2. /\ o \in born /\ o \in Observers /\ obs[o] \in Observer /\ obs \in [Observers -> Observer]
  BY <1>0, <1>1 DEF Mapped, ClientInv, ToldInv, TableInv, RecordsKept, Owned, ObsInv, TableOK,
     RecordsOK
<1> HIDE DEF n
<1>3. /\ r.channel = obs[o].channel /\ r.created = obs[o].created /\ r.validUntil = n
      /\ r.seq = obs[o].seq /\ r.evicted = obs[o].evicted /\ r.events = obs[o].events
      /\ r.closed = obs[o].closed /\ r.failure = obs[o].failure
      /\ r.lastSampleAt = obs[o].lastSampleAt
  BY <1>2 DEF Observer
<1> HIDE DEF r
<1>4. obs'[o] = r /\ \A p \in Observers : p # o => obs'[p] = obs[p] BY <1>1, <1>2
<1>5. Healthy(obs[o]) /\ Healthy(r) /\ obs[o].validUntil > now
  BY <1>1, <1>3 DEF Valid, Healthy
<1>6. Streams' = [Streams EXCEPT ![o] = Shown("live", r)]
  <2>1. \A p \in Observers : p # o => Stream(p)' = Stream(p) BY <1>1, <1>4, StreamKept
  <2>2. Stream(o)' = Shown("live", r) BY <1>1, <1>2, <1>4, <1>5 DEF Stream, StateOf
  <2> QED BY <1>2, <2>1, <2>2, OneStream
<1>7. Streams[o] = Shown("live", obs[o]) /\ Streams[o].opened = obs[o].created
      /\ Streams[o].seq = obs[o].seq /\ Streams[o].state = "live"
      /\ Streams[o].until = obs[o].validUntil
  BY <1>2, <1>5, LiveStream
<1>8. Shown("live", r) = [Shown("live", obs[o]) EXCEPT !.until = n]
  <2>1. LastChange(r) = LastChange(obs[o]) BY <1>3 DEF LastChange
  <2> QED BY <1>3, <2>1, LiveShown
<1>9. n = Contract!LeaseEnd(Streams[o].opened) BY <1>7, SameLeaseEnd DEF n
<1>10. Contract!Usable(o) BY <1>5, <1>7 DEF Contract!Usable, Streams
<1>11. Contract!Give(Contract!Newest(o, Streams[o].opened, Streams[o].seq))
  <2>1. Contract!Give([obs |-> o, seq |-> r.seq, exp |-> LeaseEnd(r.created)])
    BY <1>1, IssueIsGive
  <2>2. LeaseEnd(r.created) = n BY <1>3 DEF n
  <2> QED BY <1>3, <1>7, <1>9, <2>1, <2>2 DEF Contract!Newest
<1>12. Streams' = [Streams EXCEPT ![o].until = Contract!LeaseEnd(Streams[o].opened)]
  <2>1. Streams' = [Streams EXCEPT ![o] = [Streams[o] EXCEPT !.until = n]]
    BY <1>6, <1>7, <1>8
  <2> QED BY <1>9, <2>1
<1>13. Contract!Renew(o)
  BY <1>1, <1>10, <1>11, <1>12 DEF Contract!Renew, Streams, Calls
<1> QED BY <1>2, <1>13 DEF ContractStep, Contract!Next, Contract!StreamStep

\* An observer that is not valid is taken out of use: its stream fails, if it
\* has not failed before.
LEMMA CreateRefines ==
  ASSUME ClientInv, NEW c \in Channels, ObserveCreate(c)
  PROVE  ContractStep
<1>1. Supplant(c) /\ UNCHANGED <<now, born, issued, wait>> BY DEF ObserveCreate
<1>2. born \subseteq Observers /\ ToldInv /\ Calls' = Calls
  BY <1>1 DEF ClientInv, ToldInv, TableInv, ObsInv, TableOK, Calls
<1>3. CASE UNCHANGED obs
  <2>1. Streams' = Streams BY <1>1, <1>3, StreamKept, StreamsKept
  <2> QED BY <1>1, <1>2, <2>1, Unseen DEF ContractStep
<1>4. CASE ~UNCHANGED obs
  <2>0. PICK o : o = observers[c] OBVIOUS
  <2>1. /\ o \in born /\ \A p \in Observers : p # o => obs'[p] = obs[p]
        /\ obs'[o].failure = "CURSOR_EXPIRED" /\ obs'[o].channel = obs[o].channel
    BY <1>1, <1>2, <1>4, <2>0, SupplantFace
  <2>2. "CURSOR_EXPIRED" # None BY NoneAssumption DEF ErrorCodes, RefusalCodes, FailureCodes
  <2>3. Contract!Fail(o) \/ UNCHANGED Contract!contractVars
    BY <1>1, <1>2, <2>1, <2>2, FailsOrStays
  <2> QED BY <1>2, <2>1, <2>3 DEF ContractStep, Contract!Next, Contract!StreamStep
<1> QED BY <1>3, <1>4

\* The interval fires: clients see nothing of it, or the stream fails.
LEMMA IntervalRefines ==
  ASSUME ClientInv, NEW o \in Observers, IntervalFires(o)
  PROVE  ContractStep
<1>1. UNCHANGED <<now, born, issued>> /\ (wait' = Woken(o) \/ wait' = wait) BY DEF IntervalFires
<1>2. born \subseteq Observers /\ ToldInv /\ WaitOK
  BY DEF ClientInv, ToldInv, TableInv, ObsInv, TableOK
<1>3. Calls' = Calls BY <1>1, <1>2, WokenCalls
<1>4. /\ o \in born /\ Healthy(obs[o])
      /\ \A p \in Observers : p # o => obs'[p] = obs[p]
      /\ obs'[o].channel = obs[o].channel
      /\ \/ /\ obs'[o].closed = obs[o].closed /\ obs'[o].failure = obs[o].failure
            /\ \A state : Shown(state, obs'[o]) = Shown(state, obs[o])
         \/ obs'[o].failure \in {"OBSERVATION_GAP", "CURSOR_EXPIRED"}
  BY <1>2, IntervalFace
<1>5. CASE /\ obs'[o].closed = obs[o].closed /\ obs'[o].failure = obs[o].failure
           /\ \A state : Shown(state, obs'[o]) = Shown(state, obs[o])
  <2>1. StateOf(obs'[o]) = StateOf(obs[o]) BY <1>4, <1>5 DEF StateOf, Healthy
  <2>2. Stream(o)' = Stream(o) BY <1>1, <1>5, <2>1 DEF Stream
  <2>3. Streams' = Streams BY <1>1, <1>4, <2>2, StreamKept, StreamsKept
  <2> QED BY <1>1, <1>3, <2>3, Unseen DEF ContractStep
<1>6. CASE obs'[o].failure \in {"OBSERVATION_GAP", "CURSOR_EXPIRED"}
  <2>1. obs'[o].failure # None
    BY <1>6, NoneAssumption DEF ErrorCodes, RefusalCodes, FailureCodes
  <2>2. Contract!Fail(o) \/ UNCHANGED Contract!contractVars
    BY <1>1, <1>2, <1>3, <1>4, <2>1, FailsOrStays
  <2> QED BY <2>2 DEF ContractStep, Contract!Next, Contract!StreamStep
<1> QED BY <1>4, <1>5, <1>6

\* While c is being created, no stream of c is usable.
LEMMA NoneUsable ==
  ASSUME ToldInv, NEW c \in creating, NEW p \in Observers
  PROVE  ~(Contract!Usable(p) /\ Streams[p].channel = c)
<1> SUFFICES ASSUME Contract!Usable(p), Streams[p].channel = c PROVE FALSE OBVIOUS
<1>1. p \in born /\ Valid(obs[p]) BY UsableStream
<1>2. Healthy(obs[p]) BY <1>1 DEF Valid
<1>3. obs[p].channel = c BY <1>1, <1>2, LiveStream
<1>4. PICK k \in Channels : observers[k] = p
  BY <1>1 DEF ToldInv, TableInv, RecordsKept, ValidInUse, InUse
<1>5. p # None BY SetsAssumption
<1>6. k = c BY <1>3, <1>4, <1>5 DEF ToldInv, TableInv, RecordsKept, Owned
<1>7. Vacant(c) BY DEF ToldInv, TableInv
<1> QED BY <1>2, <1>4, <1>5, <1>6, <1>7 DEF Vacant

\* A new observer is a new stream.
LEMMA CreatedRefines ==
  ASSUME ClientInv, NEW c \in Channels, Created(c)
  PROVE  ContractStep
<1> DEFINE e == now + Lease
           d == now + Interval
           r == [Unborn EXCEPT !.channel = c, !.created = now, !.validUntil = e,
                               !.timer = TRUE, !.due = d,
                               !.lastSampleAt = now, !.sampleCount = 1]
<1>1. PICK o \in Observers \ born :
        /\ born' = born \cup {o} /\ obs' = [obs EXCEPT ![o] = r] /\ Issue(o, r, 0)
        /\ Creation(c) \in gate.running /\ UNCHANGED <<now, wait>>
  BY DEF Created
<1>2. /\ ToldInv /\ TableInv /\ c \in creating /\ obs \in [Observers -> Observer]
      /\ obs[o] = Unborn
  BY <1>1, CreationInFlight
     DEF ClientInv, ToldInv, TableInv, RecordsKept, Owned, ObsInv, RecordsOK
<1> HIDE DEF d
<1>3. /\ r.channel = c /\ r.created = now /\ r.validUntil = e /\ r.seq = 0 /\ r.evicted = 0
      /\ r.events = <<>> /\ r.closed = FALSE /\ r.failure = None /\ r.lastSampleAt = now
  BY DEF Unborn
<1> HIDE DEF r, e
<1>4. obs'[o] = r /\ \A p \in Observers : p # o => obs'[p] = obs[p] BY <1>1, <1>2
<1>5. Shown("live", r) = Contract!Opened(c)
  <2>1. LastChange(r) = 0 BY <1>3 DEF LastChange
  <2> QED BY <1>3, <2>1, LiveShown DEF Contract!Opened, e
<1>6. Streams' = [Streams EXCEPT ![o] = Contract!Opened(c)]
  <2>1. \A p \in Observers : p # o => Stream(p)' = Stream(p) BY <1>1, <1>4, StreamKept
  <2>2. StateOf(r) = "live" BY <1>3 DEF StateOf, Healthy
  <2>3. Stream(o)' = Shown("live", r) BY <1>1, <1>4, <2>2 DEF Stream
  <2> QED BY <1>5, <2>1, <2>3, OneStream
<1>7. Streams[o].state = "none"
  <2>1. Shown("none", obs[o]).state = "none" BY DEF Shown
  <2> QED BY <1>1, <2>1 DEF Streams, Stream
<1>8. Contract!Give([obs |-> o, seq |-> 0, exp |-> Contract!LeaseEnd(now)])
  <2>1. Contract!Give([obs |-> o, seq |-> 0, exp |-> LeaseEnd(r.created)]) BY <1>1, IssueIsGive
  <2> QED BY <1>3, <2>1, SameLeaseEnd
<1>9. \A p \in Observers : ~(Contract!Usable(p) /\ Streams[p].channel = c) BY <1>2, NoneUsable
<1>10. Calls' = Calls BY <1>1 DEF Calls
<1>11. Contract!Open(o, c)
  BY <1>1, <1>6, <1>7, <1>8, <1>9, <1>10 DEF Contract!Open, Streams, Calls
<1> QED BY <1>11, StreamSeen DEF ContractStep

\* A sample that is under way is of an observer that is healthy or has failed.
LEMMA SampleUnderWay ==
  ASSUME ClientInv, NEW o \in Observers, Sampling(o) \in gate.running
  PROVE  o \in born /\ (Healthy(obs[o]) \/ obs[o].failure # None)
<1>1. obs[o].sampling
  <2>1. JobsMatch /\ Sampling(o) \in Jobs
    BY TableInvImplies DEF ClientInv, ToldInv, Jobs
  <2>2. JobOf(Sampling(o)) BY <2>1 DEF JobsMatch
  <2> QED BY <2>2, JobKinds DEF JobOf
<1>2. o \in born
  BY <1>1 DEF ClientInv, ToldInv, TableInv, RecordsKept, Owned, Unborn
<1>3. Still(obs[o]) BY DEF ClientInv
<1> QED BY <1>1, <1>2, <1>3 DEF Still, Healthy

\* A sample ends: nothing new, a change, no pane, or a failure.
LEMMA SampleRefines ==
  ASSUME ClientInv, NEW o \in Observers, NEW outcome \in Outcomes, SampleEnds(o, outcome)
  PROVE  ContractStep
<1> DEFINE a == AfterSample(obs[o], outcome)
           r == [a EXCEPT !.sampling = FALSE]
<1>1. /\ UNCHANGED <<now, born, issued>> /\ wait' = Woken(o) /\ Sampling(o) \in gate.running
      /\ MaybeDispose(o, r, WaitersOf(o))
  BY DEF SampleEnds
<1>2. /\ now \in Nat /\ obs \in [Observers -> Observer] /\ born \subseteq Observers
      /\ Sane(obs[o], now) /\ WaitOK /\ RecordsOK
  BY DEF ClientInv, ToldInv, TableInv, ObsInv, TableOK, RecordsOK
<1>3. Calls' = Calls BY <1>1, <1>2, WokenCalls
<1>4. o \in born /\ (Healthy(obs[o]) \/ obs[o].failure # None) BY <1>1, SampleUnderWay
<1>5. /\ a.channel = obs[o].channel
      /\ obs[o].failure # None => a.failure # None
      /\ Healthy(obs[o]) =>
           \/ a.failure # None
           \/ /\ ~Stale(obs[o]) /\ Healthy(a)
              /\ Shown("live", a) = Contract!SeesNothing(Shown("live", obs[o]))
           \/ /\ ~Stale(obs[o]) /\ Healthy(a)
              /\ Shown("live", a) = Contract!SeesChange(Shown("live", obs[o]))
           \/ /\ ~Stale(obs[o]) /\ StateOf(a) = "gone"
              /\ a.validUntil = obs[o].validUntil /\ a.evicted = obs[o].evicted
  BY <1>2, AfterSampleShown
<1>6. a \in Observer BY <1>2, SaneAfterSample DEF Sane
<1> HIDE DEF a
<1>7. /\ r \in Observer /\ r.channel = a.channel /\ r.failure = a.failure
      /\ StateOf(r) = StateOf(a) /\ \A state : Shown(state, r) = Shown(state, a)
  BY <1>6 DEF Observer, StateOf, Healthy, Shown, LastChange
<1> HIDE DEF r
<1>8. /\ \A p \in Observers : p # o => obs'[p] = obs[p]
      /\ SameFace(obs'[o], r)
  BY <1>1, <1>2, <1>7, DisposeFace
<1>9. /\ obs'[o].channel = obs[o].channel /\ obs'[o].failure = a.failure
      /\ StateOf(obs'[o]) = StateOf(a) /\ \A state : Shown(state, obs'[o]) = Shown(state, a)
  BY <1>5, <1>7, <1>8, FaceShown DEF SameFace
<1>10. CASE a.failure # None
  <2>1. Contract!Fail(o) \/ UNCHANGED Contract!contractVars
    BY <1>1, <1>2, <1>3, <1>4, <1>8, <1>9, <1>10, FailsOrStays
  <2> QED BY <2>1 DEF ContractStep, Contract!Next, Contract!StreamStep
<1>11. CASE a.failure = None
  <2>1. Healthy(obs[o]) /\ ~Stale(obs[o]) BY <1>4, <1>5, <1>11
  <2>2. /\ Streams[o] = Shown("live", obs[o]) /\ Streams[o].state = "live"
        /\ Contract!InGap(o)
    <3>1. /\ Streams[o] = Shown("live", obs[o]) /\ Streams[o].state = "live"
          /\ Streams[o].sampled = obs[o].lastSampleAt
      BY <1>4, <2>1, LiveStream
    <3>2. now - obs[o].lastSampleAt <= Gap
      <4>1. obs[o].lastSampleAt \in Nat BY <1>2, Fields
      <4> QED BY <1>2, <2>1, <4>1, Constants DEF Stale
    <3>3. Contract!InGap(o) BY <3>1, <3>2 DEF Contract!InGap, Streams
    <3> QED BY <3>1, <3>3
  <2>3. Streams' = [Streams EXCEPT ![o] = Shown(StateOf(a), a)]
    <3>1. \A p \in Observers : p # o => Stream(p)' = Stream(p) BY <1>1, <1>8, StreamKept
    <3>2. Stream(o)' = Shown(StateOf(a), a) BY <1>1, <1>4, <1>9 DEF Stream
    <3> QED BY <3>1, <3>2, OneStream
  <2>4. CASE StateOf(a) = "gone" /\ a.validUntil = obs[o].validUntil /\ a.evicted = obs[o].evicted
    <3>1. Shown("gone", a) = Contract!Gone(Streams[o]) BY <1>5, <2>2, <2>4, GoneLeft
    <3>2. Streams' = [Streams EXCEPT ![o] = Contract!Gone(Streams[o])] BY <2>3, <2>4, <3>1
    <3>3. Contract!Vanish(o)
      BY <1>1, <1>3, <2>2, <3>2 DEF Contract!Vanish, Streams, Calls
    <3> QED BY <3>3, StreamSeen DEF ContractStep, Contract!Next, Contract!StreamStep
  <2>5. CASE /\ Healthy(a)
             /\ \/ Shown("live", a) = Contract!SeesNothing(Shown("live", obs[o]))
                \/ Shown("live", a) = Contract!SeesChange(Shown("live", obs[o]))
    <3>1. StateOf(a) = "live" BY <2>5 DEF StateOf
    <3>2. \/ Streams' = [Streams EXCEPT ![o] = Contract!SeesNothing(Streams[o])]
          \/ Streams' = [Streams EXCEPT ![o] = Contract!SeesChange(Streams[o])]
      BY <2>2, <2>3, <2>5, <3>1
    <3>3. Contract!Sample(o)
      BY <1>1, <1>3, <2>2, <3>2 DEF Contract!Sample, Streams, Calls
    <3> QED BY <3>3 DEF ContractStep, Contract!Next, Contract!StreamStep
  <2> QED BY <1>5, <1>11, <2>1, <2>4, <2>5
<1> QED BY <1>10, <1>11

-----------------------------------------------------------------------------
(* Steps of the calls.                                                     *)

\* What a client sees of the phases.
LEMMA Stages ==
  /\ StageOf("idle") = "idle" /\ StageOf("settling") = "told" /\ StageOf("refused") = "told"
  /\ StageOf("stuck") = "forgotten" /\ \A p \in Registered : StageOf(p) = "open"
<1>1. "idle" \notin Registered /\ "settling" \notin Registered /\ "refused" \notin Registered
      /\ "stuck" \notin Registered
  BY DEF Registered
<1>2. \A p \in Registered : p # "idle" BY DEF Registered
<1> QED BY <1>1, <1>2 DEF StageOf

\* A call that has not begun, or has returned.
LEMMA IdleCall == Call(NoWait) = Contract!Idle
<1>1. /\ NoWait.phase = "idle" /\ NoWait.token = NoToken /\ NoWait.idle = 0 /\ NoWait.deadline = 0
      /\ NoWait.result = None /\ NoWait.next = NoToken /\ NoWait.activity = FALSE
  BY DEF NoWait
<1> QED BY <1>1, Stages DEF Call, Contract!Idle, Contract!NoCursor, NoToken

\* One call moves, and the observers do not.
LEMMA OneCall ==
  ASSUME WaitOK, NEW w \in Waiters, NEW x, wait' = [wait EXCEPT ![w] = x],
         UNCHANGED <<obs, born>>
  PROVE  /\ Calls' = [Calls EXCEPT ![w] = Call(x)]
         /\ Streams' = Streams
         /\ Calls[w] = Call(wait[w])
<1>1. wait'[w] = x /\ \A v \in Waiters : v # w => wait'[v] = wait[v] BY DEF WaitOK
<1>2. Calls' = [Calls EXCEPT ![w] = Call(x)]
  <2>1. \A v \in Waiters : Call(wait'[v]) = IF v = w THEN Call(x) ELSE Call(wait[v]) BY <1>1
  <2> QED BY <2>1 DEF Calls
<1>3. Streams' = Streams BY StreamKept, StreamsKept
<1> QED BY <1>2, <1>3 DEF Calls

\* A call that goes on waiting: its client sees nothing.
LEMMA StaysOpen ==
  ASSUME WaitOK, NEW w \in Waiters, NEW x, wait' = [wait EXCEPT ![w] = x],
         UNCHANGED <<now, obs, born, issued>>,
         wait[w].phase \in Registered, x.phase \in Registered,
         x.token = wait[w].token, x.idle = wait[w].idle, x.deadline = wait[w].deadline,
         x.result = wait[w].result, x.next = wait[w].next, x.activity = wait[w].activity
  PROVE  ContractStep
<1>1. Call(x) = Call(wait[w]) BY Stages DEF Call
<1>2. wait'[w] = x /\ \A v \in Waiters : v # w => wait'[v] = wait[v] BY DEF WaitOK
<1>3. \A v \in Waiters : Call(wait'[v]) = Call(wait[v]) BY <1>1, <1>2
<1>4. Calls' = Calls /\ Streams' = Streams BY <1>3, StreamKept, StreamsKept DEF Calls
<1> QED BY <1>4, Unseen DEF ContractStep

\* A call that ends is told its result.
LEMMA EndedCall ==
  ASSUME WaitOK, NEW w \in Waiters, NEW result, NEW next, NEW activity,
         wait' = [wait EXCEPT ![w] = Ended(w, result, next, activity)],
         UNCHANGED <<now, obs, born>>, wait[w].phase \in Registered
  PROVE  /\ Contract!Waits(w)
         /\ Contract!Answer(w, result, next, activity)
<1> DEFINE x == Ended(w, result, next, activity)
<1>1. /\ x.phase = "settling" /\ x.token = wait[w].token /\ x.idle = wait[w].idle
      /\ x.deadline = wait[w].deadline /\ x.result = result /\ x.next = next
      /\ x.activity = activity
  BY EndedFields
<1>2. wait' = [wait EXCEPT ![w] = x] OBVIOUS
<1> HIDE DEF x
<1>3. Calls' = [Calls EXCEPT ![w] = Call(x)] /\ Streams' = Streams /\ Calls[w] = Call(wait[w])
  BY <1>2, OneCall
<1>4. Call(wait[w]).cursor = wait[w].token /\ Call(wait[w]).idle = wait[w].idle
      /\ Call(wait[w]).deadline = wait[w].deadline /\ Call(wait[w]).at = "open"
  BY Stages DEF Call
<1>5. Call(x) = Contract!Told(Calls[w], result, next, activity)
  BY <1>1, <1>3, <1>4, Stages DEF Call, Contract!Told
<1>6. Contract!Waits(w) BY <1>3, <1>4 DEF Contract!Waits, Calls
<1>7. Contract!Answer(w, result, next, activity)
  BY <1>3, <1>5 DEF Contract!Answer, Streams, Calls
<1> QED BY <1>6, <1>7

\* The stream of a waiting call, and its cursor.
LEMMA StreamOfCall ==
  ASSUME ClientInv, NEW w \in Waiters, wait[w].phase # "idle"
  PROVE  /\ wait[w].token.obs \in born /\ wait[w].token.obs \in Observers
         /\ wait[w].token \in Token /\ Of(w) \in Observer /\ Sane(Of(w), now) /\ now \in Nat
         /\ Calls[w].cursor = wait[w].token /\ Calls[w].idle = wait[w].idle
         /\ Calls[w].deadline = wait[w].deadline
         /\ Streams[wait[w].token.obs] = Shown(StateOf(Of(w)), Of(w))
         /\ Honest(Of(w))
<1>1. wait[w].token.obs \in born /\ wait[w].token.obs \in Observers
  BY DEF ClientInv, ToldInv, TableInv, CallsOwned, ObsInv, TableOK
<1>2. wait[w].token \in Token /\ Of(w) \in Observer /\ Sane(Of(w), now) /\ now \in Nat
  BY <1>1, ObserverOfCall DEF ClientInv, ToldInv, TableInv, ObsInv, RecordsOK, Of
<1>3. /\ Calls[w].cursor = wait[w].token /\ Calls[w].idle = wait[w].idle
      /\ Calls[w].deadline = wait[w].deadline
  BY DEF Calls, Call
<1>4. Streams[wait[w].token.obs] = Shown(StateOf(Of(w)), Of(w)) BY <1>1 DEF Streams, Stream, Of
<1>5. Honest(Of(w)) BY <1>1 DEF ClientInv, ToldInv, AllHonest, Of
<1> QED BY <1>1, <1>2, <1>3, <1>4, <1>5

\* Of a failed observer a client may hear anything; of a healthy one that the
\* cursor has expired only if a lease has ended, and of a gap only if events are
\* missing or samples were late; that it is closed only if the pane is gone.
LEMMA VerdictTrue ==
  ASSUME now \in Nat, NEW r \in Observer, Honest(r), NEW t \in Token
  PROVE  LET s == Shown(StateOf(r), r) IN
         /\ Verdict(r, t) = "CURSOR_EXPIRED" => s.state = "dead" \/ t.exp < now \/ s.until < now
         /\ Verdict(r, t) = "OBSERVATION_GAP" =>
              \/ s.state = "dead" \/ t.seq < s.lost
              \/ s.state = "live" /\ ~(now - s.sampled <= Gap)
         /\ Verdict(r, t) = "closed" =>
              s.state = "gone" /\ t.exp >= now /\ s.until >= now /\ t.seq >= s.lost
<1> DEFINE s == Shown(StateOf(r), r)
<1>0. /\ r.validUntil \in Nat /\ r.lastSampleAt \in Nat /\ r.evicted \in Nat
      /\ r.failure \in FailureCodes \cup {None} /\ t.exp \in Nat /\ t.seq \in Nat /\ Gap \in Nat
  BY Fields, Constants DEF Token
<1>1. /\ {"active", "closed"} \cap FailureCodes = {}
      /\ "closed" # "CURSOR_EXPIRED" /\ "closed" # "OBSERVATION_GAP"
      /\ None \notin FailureCodes
  BY NoneAssumption DEF FailureCodes, BackendCodes, ErrorCodes, RefusalCodes
<1>2. /\ s.state = StateOf(r)
      /\ StateOf(r) \in {"live", "gone"} => s.until = r.validUntil /\ s.lost = r.evicted
      /\ StateOf(r) = "live" => s.sampled = r.lastSampleAt
  BY DEF Shown
<1> HIDE DEF s
<1>3. /\ Healthy(r) => StateOf(r) = "live"
      /\ r.failure # None => StateOf(r) = "dead"
      /\ r.closed /\ r.failure = None => StateOf(r) = "gone"
      /\ StateOf(r) \in {"live", "gone", "dead"}
  BY DEF StateOf, Healthy, Honest
<1>4. ASSUME Verdict(r, t) = "CURSOR_EXPIRED"
      PROVE  s.state = "dead" \/ t.exp < now \/ s.until < now
  <2>1. CASE Lapsed(r, t)
    <3>1. t.exp < now \/ r.validUntil < now \/ r.failure # None
      BY <1>1, <2>1 DEF Lapsed, FailureCodes
    <3> QED BY <1>2, <1>3, <3>1
  <2>2. CASE ~Lapsed(r, t)
    <3>1. r.failure # None BY <1>4, <2>2 DEF Verdict
    <3> QED BY <1>2, <1>3, <3>1
  <2> QED BY <2>1, <2>2
<1>5. ASSUME Verdict(r, t) = "OBSERVATION_GAP"
      PROVE  \/ s.state = "dead" \/ t.seq < s.lost
             \/ s.state = "live" /\ ~(now - s.sampled <= Gap)
  <2>1. ~Lapsed(r, t) BY <1>5 DEF Verdict
  <2>2. CASE t.seq < r.evicted BY <1>2, <1>3, <2>2
  <2>3. CASE r.failure # None BY <1>2, <1>3, <2>3
  <2>4. CASE ~(t.seq < r.evicted) /\ r.failure = None
    <3>1. ~r.closed /\ Stale(r) BY <1>5, <2>1, <2>4 DEF Verdict
    <3>2. StateOf(r) = "live" BY <1>3, <2>4, <3>1 DEF Healthy
    <3> QED BY <1>0, <1>2, <3>1, <3>2 DEF Stale
  <2> QED BY <2>2, <2>3, <2>4
<1>6. ASSUME Verdict(r, t) = "closed"
      PROVE  s.state = "gone" /\ t.exp >= now /\ s.until >= now /\ t.seq >= s.lost
  <2>1. ~Lapsed(r, t) BY <1>6 DEF Verdict
  <2>2. ~(t.seq < r.evicted) BY <1>6, <2>1 DEF Verdict
  <2>3. r.failure = None BY <1>0, <1>1, <1>6, <2>1, <2>2 DEF Verdict
  <2>4. r.closed BY <1>6, <2>1, <2>2, <2>3 DEF Verdict
  <2>5. ~(t.exp < now) /\ ~(r.validUntil < now) BY <2>1 DEF Lapsed
  <2> QED BY <1>0, <1>2, <1>3, <2>2, <2>3, <2>4, <2>5
<1> QED BY <1>4, <1>5, <1>6 DEF s

\* The codes of the manager are those of the contract.
LEMMA CodesMatch ==
  /\ ErrorCodes = Contract!Refusals
  /\ FailureCodes \subseteq Contract!Codes
  /\ "RESOURCE_EXHAUSTED" \in Contract!Codes /\ "BACKEND_OPERATION_FAILED" \in Contract!Codes
BY DEF ErrorCodes, RefusalCodes, FailureCodes, BackendCodes, Contract!Codes, Contract!Refusals

\* A step of one call.
LEMMA CallSeen ==
  ASSUME NEW w \in Waiters, NEW code \in Contract!Codes,
         \/ Contract!OutputIdle(w) \/ Contract!TimesOut(w) \/ Contract!HearsClosed(w)
         \/ Contract!Forget(w) \/ Contract!Fails(w, code) \/ Contract!Return(w)
  PROVE  ContractStep
BY DEF Contract!Next, Contract!CallStep, ContractStep

\* A call that is rejected by a code for which there is no condition, or whose
\* condition holds.
LEMMA RejectedRefines ==
  ASSUME ClientInv, NEW w \in Waiters, wait[w].phase \in Registered,
         NEW code \in Contract!Codes,
         wait' = [wait EXCEPT ![w] = Rejected(w, code)], UNCHANGED <<now, obs, born, issued>>,
         code \in {"CURSOR_EXPIRED", "OBSERVATION_GAP"} => code = Found(w)
  PROVE  ContractStep
<1>0. WaitOK /\ wait[w].phase # "idle" BY DEF ClientInv, ToldInv, TableInv, ObsInv, Registered
<1> DEFINE t == wait[w].token
           s == Streams[t.obs]
<1>1. /\ t.obs \in Observers /\ t \in Token /\ Of(w) \in Observer /\ now \in Nat
      /\ Calls[w].cursor = t /\ s = Shown(StateOf(Of(w)), Of(w)) /\ Honest(Of(w))
  BY <1>0, StreamOfCall
<1>2. /\ code = "CURSOR_EXPIRED" => s.state = "dead" \/ t.exp < now \/ s.until < now
      /\ code = "OBSERVATION_GAP" =>
           \/ s.state = "dead" \/ t.seq < s.lost
           \/ s.state = "live" /\ ~(now - s.sampled <= Gap)
  BY <1>1, VerdictTrue DEF Found
<1> HIDE DEF t, s
<1>3. Contract!Waits(w) /\ Contract!Answer(w, code, NoToken, FALSE)
  <2>1. wait' = [wait EXCEPT ![w] = Ended(w, code, NoToken, FALSE)] BY DEF Rejected
  <2> QED BY <1>0, <2>1, EndedCall
<1>4. NoToken = Contract!NoCursor BY DEF NoToken, Contract!NoCursor
<1>5. Contract!StreamOf(w) = s BY <1>1 DEF Contract!StreamOf, Streams, Calls, s
<1>6. Contract!InGap(Calls[w].cursor.obs) <=> now - s.sampled <= Gap
  BY <1>1 DEF Contract!InGap, Streams, s
<1>7. Contract!Fails(w, code)
  BY <1>1, <1>2, <1>3, <1>4, <1>5, <1>6 DEF Contract!Fails, Calls
<1> QED BY <1>7, CallSeen

\* A call that does not find its observer active.
LEMMA StoppedRefines ==
  ASSUME ClientInv, NEW w \in Waiters, wait[w].phase \in Registered, Found(w) # "active",
         NEW activity \in BOOLEAN,
         wait' = [wait EXCEPT ![w] = Stopped(w, activity)], UNCHANGED <<now, obs, born, issued>>
  PROVE  ContractStep
<1>0. WaitOK /\ wait[w].phase # "idle" BY DEF ClientInv, ToldInv, TableInv, ObsInv, Registered
<1> DEFINE t == wait[w].token
           s == Streams[t.obs]
<1>1. /\ t.obs \in Observers /\ t \in Token /\ Of(w) \in Observer /\ now \in Nat
      /\ Calls[w].cursor = t /\ s = Shown(StateOf(Of(w)), Of(w)) /\ Honest(Of(w))
  BY <1>0, StreamOfCall
<1>2. CASE Found(w) = "closed"
  <2>1. s.state = "gone" /\ t.exp >= now /\ s.until >= now /\ t.seq >= s.lost
    BY <1>1, <1>2, VerdictTrue DEF Found
  <2>2. wait' = [wait EXCEPT ![w] = Ended(w, "channel_closed", t, activity)]
    BY <1>2 DEF Stopped, Closed
  <2> HIDE DEF t, s
  <2>3. Contract!Waits(w) /\ Contract!Answer(w, "channel_closed", t, activity)
    BY <1>0, <2>2, EndedCall
  <2>4. Contract!StreamOf(w) = s BY <1>1 DEF Contract!StreamOf, Streams, Calls, s
  <2>5. Contract!Holds(Calls[w].cursor) BY <1>1, <2>1 DEF Contract!Holds, Streams, s
  <2>6. Contract!HearsClosed(w)
    BY <1>1, <2>1, <2>3, <2>4, <2>5 DEF Contract!HearsClosed, Calls
  <2>7. Contract!Next BY <2>6 DEF Contract!Next, Contract!CallStep
  <2> QED BY <2>7 DEF ContractStep
<1>3. CASE Found(w) # "closed"
  <2>1. Found(w) \in Contract!Codes BY <1>1, <1>3, VerdictType, CodesMatch DEF Found
  <2>2. wait' = [wait EXCEPT ![w] = Rejected(w, Found(w))] BY <1>3 DEF Stopped
  <2>3. PICK code : code = Found(w) OBVIOUS
  <2> QED BY <2>1, <2>2, <2>3, RejectedRefines
<1> QED BY <1>2, <1>3

\* A call that finds its observer active sees a live stream that is looked at in
\* time, in which its cursor holds.
LEMMA ActiveWatched ==
  ASSUME ClientInv, NEW w \in Waiters, wait[w].phase # "idle", Found(w) = "active"
  PROVE  /\ Contract!Watched(w)
         /\ Contract!Newer(w) <=> Of(w).seq > wait[w].token.seq
         /\ Contract!Newer(w) <=> Fresh(Of(w), wait[w].token)
         /\ LET s == Streams[wait[w].token.obs] IN
            /\ s.opened = Of(w).created /\ s.seq = Of(w).seq
            /\ s.sampled = Of(w).lastSampleAt /\ s.changed = LastChange(Of(w))
<1> DEFINE t == wait[w].token
           o == wait[w].token.obs
           s == Streams[o]
<1>1. /\ o \in born /\ o \in Observers /\ t \in Token /\ Of(w) \in Observer
      /\ Sane(Of(w), now) /\ now \in Nat /\ Calls[w].cursor = t /\ Of(w) = obs[o]
  BY StreamOfCall DEF Of
<1>2. /\ t.exp >= now /\ Of(w).validUntil >= now /\ now - Of(w).lastSampleAt <= Gap
      /\ Healthy(Of(w)) /\ t.seq >= Of(w).evicted
  BY <1>1, VerdictSays DEF Found
<1>3. Fresh(Of(w), t) <=> Of(w).seq > t.seq BY <1>1, <1>2, FreshIffNewer
<1>4. /\ s.state = "live" /\ s.opened = Of(w).created /\ s.until = Of(w).validUntil
      /\ s.seq = Of(w).seq /\ s.lost = Of(w).evicted
      /\ s.sampled = Of(w).lastSampleAt /\ s.changed = LastChange(Of(w))
  BY <1>1, <1>2, LiveStream
<1> HIDE DEF t, s
<1>5. t.obs = o BY DEF t
<1> HIDE DEF o
<1>6. Contract!StreamOf(w) = s BY <1>1, <1>5 DEF Contract!StreamOf, Streams, Calls, s
<1>7. Contract!InGap(Calls[w].cursor.obs)
  BY <1>1, <1>2, <1>4, <1>5 DEF Contract!InGap, Streams, s
<1>8. Contract!Holds(Calls[w].cursor)
  BY <1>1, <1>2, <1>4, <1>5 DEF Contract!Holds, Streams, s
<1>9. Contract!Watched(w) BY <1>4, <1>6, <1>7, <1>8 DEF Contract!Watched, Calls
<1>10. Contract!Newer(w) <=> Of(w).seq > t.seq BY <1>1, <1>4, <1>6 DEF Contract!Newer, Calls
<1> QED BY <1>3, <1>4, <1>9, <1>10 DEF t, o, s

\* timeoutResult: the time is up, or the observer is not active any more.
LEMMA TimedOutRefines ==
  ASSUME ClientInv, NEW w \in Waiters, wait[w].phase \in Registered, now >= wait[w].deadline,
         wait' = [wait EXCEPT ![w] = TimedOut(w)], UNCHANGED <<now, obs, born, issued>>
  PROVE  ContractStep
<1>0. WaitOK /\ wait[w].phase # "idle" BY DEF ClientInv, ToldInv, TableInv, ObsInv, Registered
<1>1. CASE Found(w) = "active"
  <2> DEFINE b == Fresh(Of(w), wait[w].token)
  <2>1. wait' = [wait EXCEPT ![w] = Ended(w, "timeout", wait[w].token, b)] BY <1>1 DEF TimedOut
  <2>2. Contract!Watched(w) /\ (Contract!Newer(w) <=> b) BY <1>0, <1>1, ActiveWatched
  <2>3. b = Contract!Newer(w)
    <3>1. b \in BOOLEAN /\ Contract!Newer(w) \in BOOLEAN BY DEF Fresh, Contract!Newer
    <3> QED BY <2>2, <3>1
  <2> HIDE DEF b
  <2>4. Contract!Waits(w) /\ Contract!Answer(w, "timeout", wait[w].token, b)
    BY <1>0, <2>1, EndedCall
  <2>5. Calls[w].cursor = wait[w].token /\ Calls[w].deadline = wait[w].deadline
    BY <1>0, StreamOfCall
  <2>6. Contract!TimesOut(w)
    BY <2>2, <2>3, <2>4, <2>5 DEF Contract!TimesOut, Calls
  <2>7. Contract!Next BY <2>6 DEF Contract!Next, Contract!CallStep
  <2> QED BY <2>7 DEF ContractStep
<1>2. CASE Found(w) # "active"
  <2>1. wait' = [wait EXCEPT ![w] = Stopped(w, FALSE)] BY <1>2 DEF TimedOut
  <2> QED BY <1>2, <2>1, StoppedRefines
<1> QED BY <1>1, <1>2

\* The second half of an evaluation.
LEMMA JudgeRefines ==
  ASSUME ClientInv, NEW w \in Waiters, wait[w].phase \in {"ready", "admitting"},
         NEW g, NEW d \in BOOLEAN, Judge(w, g, d), UNCHANGED <<now, obs, born, issued>>
  PROVE  ContractStep
<1>0. WaitOK /\ wait[w] \in WaitCall /\ wait[w].phase \in Registered
  BY DEF ClientInv, ToldInv, TableInv, ObsInv, WaitOK, Registered
<1>1. CASE now >= wait[w].deadline
  <2>1. wait' = [wait EXCEPT ![w] = TimedOut(w)] BY <1>1 DEF Judge
  <2> QED BY <1>0, <1>1, <2>1, TimedOutRefines
<1>2. CASE ~(now >= wait[w].deadline) /\ ~Covered(Of(w), wait[w].token, wait[w].idle)
  <2> DEFINE p == IF d THEN "ready" ELSE "parked"
             x == [wait[w] EXCEPT !.phase = p, !.dirty = FALSE]
  <2>1. wait' = [wait EXCEPT ![w] = x] BY <1>0, <1>2 DEF Judge, WaitOK
  <2>2. p \in Registered BY DEF Registered
  <2> HIDE DEF p
  <2>3. /\ x.phase \in Registered /\ x.token = wait[w].token /\ x.idle = wait[w].idle
        /\ x.deadline = wait[w].deadline /\ x.result = wait[w].result
        /\ x.next = wait[w].next /\ x.activity = wait[w].activity
    BY <1>0, <2>2 DEF WaitCall
  <2> HIDE DEF x
  <2> QED BY <1>0, <2>1, <2>3, StaysOpen
<1>3. CASE /\ ~(now >= wait[w].deadline) /\ Covered(Of(w), wait[w].token, wait[w].idle)
           /\ Full(g)
  <2>1. wait' = [wait EXCEPT ![w] = Rejected(w, "RESOURCE_EXHAUSTED")] BY <1>3 DEF Judge
  <2> QED BY <1>0, <2>1, CodesMatch, RejectedRefines
<1>4. CASE /\ ~(now >= wait[w].deadline) /\ Covered(Of(w), wait[w].token, wait[w].idle)
           /\ ~Full(g)
  <2> DEFINE n == Last(Of(w).events).seq
             x == [wait[w] EXCEPT !.phase = "confirming", !.dirty = d, !.candidate = n]
  <2>1. wait' = [wait EXCEPT ![w] = x] BY <1>0, <1>4 DEF Judge, WaitOK
  <2> HIDE DEF n
  <2>2. "confirming" \in Registered BY DEF Registered
  <2>3. /\ x.phase \in Registered /\ x.token = wait[w].token /\ x.idle = wait[w].idle
        /\ x.deadline = wait[w].deadline /\ x.result = wait[w].result
        /\ x.next = wait[w].next /\ x.activity = wait[w].activity
    BY <1>0, <2>2 DEF WaitCall
  <2> HIDE DEF x
  <2> QED BY <1>0, <2>1, <2>3, StaysOpen
<1> QED BY <1>1, <1>2, <1>3, <1>4

\* The steps that end, park or wake one call.
LEMMA EvaluationRefines ==
  ASSUME ClientInv, NEW w \in Waiters,
         \/ Evaluate(w) \/ Admitted(w) \/ Deadline(w) \/ Cancel(w) \/ Poll(w)
         \/ \E code \in BackendCodes : ValidationFails(w, code)
  PROVE  ContractStep
<1>0. /\ UNCHANGED <<now, obs, born, issued>> /\ WaitOK /\ wait[w] \in WaitCall
      /\ wait \in [Waiters -> WaitCall] /\ wait[w].dirty \in BOOLEAN
  BY DEF ClientInv, ToldInv, TableInv, ObsInv, WaitOK, WaitCall, Evaluate, Admitted, Deadline,
         Cancel, Poll, ValidationFails, cursorVars
<1>1. wait[w].phase \in Registered
  BY DEF Registered, Evaluate, Admitted, Deadline, Cancel, Poll, Pending, ValidationFails
<1>2. CASE Evaluate(w) \/ Admitted(w)
  <2>1. CASE Found(w) # "active"
    <3>1. wait' = [wait EXCEPT ![w] = Stopped(w, FALSE)] BY <1>2, <2>1 DEF Evaluate, Admitted
    <3> QED BY <1>0, <1>1, <2>1, <3>1, StoppedRefines
  <2>2. CASE Found(w) = "active" /\ Evaluate(w) /\ wait[w].phase = "ready"
    <3>1. Judge(w, gate, FALSE) BY <2>2 DEF Evaluate
    <3> QED BY <1>0, <2>2, <3>1, JudgeRefines
  <2>3. CASE Found(w) = "active" /\ Evaluate(w) /\ wait[w].phase = "arriving" /\ Full(gate)
    <3>1. wait' = [wait EXCEPT ![w] = Rejected(w, "RESOURCE_EXHAUSTED")] BY <2>3 DEF Evaluate
    <3> QED BY <1>0, <1>1, <3>1, CodesMatch, RejectedRefines
  <2>4. CASE Found(w) = "active" /\ Evaluate(w) /\ wait[w].phase = "arriving" /\ ~Full(gate)
    <3> DEFINE x == [wait[w] EXCEPT !.phase = "admitting"]
    <3>1. wait' = [wait EXCEPT ![w] = x] BY <1>0, <2>4 DEF Evaluate
    <3>2. "admitting" \in Registered BY DEF Registered
    <3>3. /\ x.phase \in Registered /\ x.token = wait[w].token /\ x.idle = wait[w].idle
          /\ x.deadline = wait[w].deadline /\ x.result = wait[w].result
          /\ x.next = wait[w].next /\ x.activity = wait[w].activity
      BY <1>0, <3>2 DEF WaitCall
    <3> HIDE DEF x
    <3> QED BY <1>0, <1>1, <3>1, <3>3, StaysOpen
  <2>5. CASE Found(w) = "active" /\ Admitted(w)
    <3> DEFINE g == Release(gate, Validation(w))
    <3>1. Judge(w, g, wait[w].dirty) /\ wait[w].phase = "admitting" BY <2>5 DEF Admitted
    <3> HIDE DEF g
    <3> QED BY <1>0, <3>1, JudgeRefines
  <2> QED BY <1>2, <2>1, <2>2, <2>3, <2>4, <2>5 DEF Evaluate
<1>3. CASE Deadline(w)
  <2>1. wait' = [wait EXCEPT ![w] = TimedOut(w)] /\ now >= wait[w].deadline
    BY <1>3 DEF Deadline
  <2> QED BY <1>0, <1>1, <2>1, TimedOutRefines
<1>4. CASE Cancel(w)
  <2>1. wait' = [wait EXCEPT ![w] = Rejected(w, "BACKEND_OPERATION_FAILED")]
    BY <1>4 DEF Cancel
  <2> QED BY <1>0, <1>1, <2>1, CodesMatch, RejectedRefines
<1>5. CASE Poll(w)
  <2> DEFINE x == [wait[w] EXCEPT !.phase = "ready"]
  <2>1. wait' = [wait EXCEPT ![w] = x] BY <1>0, <1>5 DEF Poll
  <2>2. "ready" \in Registered BY DEF Registered
  <2>3. /\ x.phase \in Registered /\ x.token = wait[w].token /\ x.idle = wait[w].idle
        /\ x.deadline = wait[w].deadline /\ x.result = wait[w].result
        /\ x.next = wait[w].next /\ x.activity = wait[w].activity
    BY <1>0, <2>2 DEF WaitCall
  <2> HIDE DEF x
  <2> QED BY <1>0, <1>1, <2>1, <2>3, StaysOpen
<1>6. ASSUME NEW code \in BackendCodes, ValidationFails(w, code) PROVE ContractStep
  <2>1. wait' = [wait EXCEPT ![w] = Rejected(w, code)] BY <1>6 DEF ValidationFails
  <2>2. code \in Contract!Codes /\ code \notin {"CURSOR_EXPIRED", "OBSERVATION_GAP"}
    BY CodesMatch DEF FailureCodes, BackendCodes
  <2> QED BY <1>0, <1>1, <2>1, <2>2, RejectedRefines
<1> QED BY <1>2, <1>3, <1>4, <1>5, <1>6

\* The validation that confirms a candidate: output_idle, or an answer that is
\* never given.
LEMMA ConfirmedRefines ==
  ASSUME ClientInv, NEW w \in Waiters, Confirmed(w)
  PROVE  ContractStep
<1>0. /\ UNCHANGED <<now, obs, born>> /\ wait[w].phase = "confirming" /\ wait[w] \in WaitCall
      /\ WaitOK /\ wait \in [Waiters -> WaitCall] /\ wait[w].phase \in Registered
      /\ wait[w].phase # "idle" /\ now \in Nat /\ wait[w].deadline \in Nat
  BY DEF ClientInv, ToldInv, TableInv, ObsInv, WaitOK, WaitCall, RecordsOK, Registered, Confirmed
<1>1. CASE Found(w) # "active"
  <2>1. wait' = [wait EXCEPT ![w] = Stopped(w, TRUE)] /\ UNCHANGED issued
    BY <1>1 DEF Confirmed
  <2> QED BY <1>0, <1>1, <2>1, StoppedRefines
<1>2. CASE Found(w) = "active" /\ now >= wait[w].deadline
  <2>1. wait' = [wait EXCEPT ![w] = TimedOut(w)] /\ UNCHANGED issued BY <1>2 DEF Confirmed
  <2> QED BY <1>0, <1>2, <2>1, TimedOutRefines
<1>3. CASE Found(w) = "active" /\ ~(now >= wait[w].deadline) /\ ~StillCandidate(w)
  <2> DEFINE x == [wait[w] EXCEPT !.phase = "ready", !.dirty = FALSE, !.candidate = 0]
  <2>1. wait' = [wait EXCEPT ![w] = x] /\ UNCHANGED issued BY <1>0, <1>3 DEF Confirmed
  <2>2. "ready" \in Registered BY DEF Registered
  <2>3. /\ x.phase \in Registered /\ x.token = wait[w].token /\ x.idle = wait[w].idle
        /\ x.deadline = wait[w].deadline /\ x.result = wait[w].result
        /\ x.next = wait[w].next /\ x.activity = wait[w].activity
    BY <1>0, <2>2 DEF WaitCall
  <2> HIDE DEF x
  <2> QED BY <1>0, <2>1, <2>3, StaysOpen
<1>4. CASE Found(w) = "active" /\ ~(now >= wait[w].deadline) /\ StillCandidate(w)
  <2> DEFINE t == wait[w].token
             o == t.obs
             r == obs[o]
             s == Streams[o]
             n == Last(r.events).seq
             next == Cursor(o, r, n)
             stuck == [NoWait EXCEPT !.phase = "stuck", !.token = t]
  <2>1. /\ Issue(o, r, n)
        /\ wait' = [wait EXCEPT ![w] = IF TableFull THEN stuck
                                       ELSE Ended(w, "output_idle", next, TRUE)]
    BY <1>4 DEF Confirmed
  <2>2. /\ o \in Observers /\ Sane(r, now) /\ r = Of(w) /\ Calls[w].cursor = t
        /\ Calls[w].idle = wait[w].idle /\ Calls[w].deadline = wait[w].deadline
    BY <1>0, StreamOfCall DEF Of
  <2>3. Covered(r, t, wait[w].idle) BY <1>4, <2>2 DEF StillCandidate
  <2>4. n = r.seq BY <2>2, <2>3, LastIsNewest DEF Covered, Fresh
  <2>5. LastChange(r) = Last(r.events).at BY <2>3 DEF Covered, Fresh, LastChange
  <2>6. /\ Contract!Watched(w) /\ Contract!Newer(w)
        /\ s.opened = r.created /\ s.seq = r.seq
        /\ s.sampled = r.lastSampleAt /\ s.changed = LastChange(r)
    BY <1>0, <1>4, <2>2, <2>3, ActiveWatched DEF Covered
  <2>7. next = Contract!Newest(o, s.opened, s.seq)
    BY <2>4, <2>6, SameLeaseEnd DEF Cursor, Contract!Newest
  <2>8. s.sampled >= s.changed + wait[w].idle BY <2>3, <2>5, <2>6 DEF Covered
  <2>9. now < wait[w].deadline BY <1>0, <1>4
  <2>10. CASE TableFull
    <3>1. wait' = [wait EXCEPT ![w] = stuck] /\ issued' = issued BY <2>1, <2>10 DEF Issue
    <3>2. /\ stuck.phase = "stuck" /\ stuck.token = t /\ stuck.idle = 0 /\ stuck.deadline = 0
          /\ stuck.result = None /\ stuck.next = NoToken /\ stuck.activity = FALSE
      BY DEF NoWait
    <3> HIDE DEF stuck, t, s, n, next
    <3>3. Call(stuck) = Contract!Forgotten(t)
      BY <3>2, Stages DEF Call, Contract!Forgotten, Contract!NoCursor, NoToken
    <3>4. Calls' = [Calls EXCEPT ![w] = Contract!Forgotten(t)] /\ Streams' = Streams
          /\ Calls[w] = Call(wait[w])
      BY <1>0, <3>1, <3>3, OneCall
    <3>5. Contract!Waits(w)
      <4>1. Calls[w].at = "open" BY <1>0, <3>4, Stages DEF Call
      <4> QED BY <4>1 DEF Contract!Waits, Calls
    <3>6. Contract!Exhausted BY <2>10, FullIsExhausted
    <3>7. Contract!Forget(w)
      BY <1>0, <2>2, <2>6, <3>1, <3>4, <3>5, <3>6 DEF Contract!Forget, Streams, Calls
    <3>8. Contract!Next BY <3>7 DEF Contract!Next, Contract!CallStep
    <3> QED BY <3>8 DEF ContractStep
  <2>11. CASE ~TableFull
    <3>1. wait' = [wait EXCEPT ![w] = Ended(w, "output_idle", next, TRUE)]
          /\ issued' = issued \cup {next}
      BY <2>1, <2>11 DEF Issue
    <3> HIDE DEF t, s, n, next
    <3>2. Contract!Waits(w) /\ Contract!Answer(w, "output_idle", next, TRUE)
      BY <1>0, <3>1, EndedCall
    <3>3. Calls[w].cursor.obs = o BY <2>2
    <3> HIDE DEF o
    <3>4. Contract!OutputIdle(w)
      BY <2>2, <2>6, <2>7, <2>8, <2>9, <3>1, <3>2, <3>3 DEF Contract!OutputIdle, Streams, Calls, s
    <3>5. Contract!Next BY <3>4 DEF Contract!Next, Contract!CallStep
    <3> QED BY <3>5 DEF ContractStep
  <2> QED BY <2>10, <2>11
<1> QED BY <1>1, <1>2, <1>3, <1>4

\* A call is turned away.
LEMMA RefuseRefines ==
  ASSUME ClientInv, NEW w \in Waiters, NEW c \in Channels, NEW t \in issued, Refuse(w, c, t)
  PROVE  ContractStep
<1> DEFINE code == Refusal(c, t)
           x == [NoWait EXCEPT !.phase = "refused", !.token = t, !.result = code]
<1>1. /\ wait[w].phase = "idle" /\ code # None /\ wait' = [wait EXCEPT ![w] = x]
      /\ UNCHANGED <<now, obs, born, issued>>
  BY DEF Refuse, cursorVars
<1>2. /\ WaitOK /\ t \in Token /\ t.obs \in Observers /\ t.obs \in born /\ CursorsOK /\ RecordsOK
      /\ obs[t.obs] \in Observer /\ now \in Nat
  BY DEF ClientInv, ToldInv, TableInv, ObsInv, CursorsOK, RecordsOK, RecordsKept, CursorsGood, Token
<1>3. code \in Contract!Refusals BY <1>1, <1>2, RefusalType, CodesMatch
<1>4. ASSUME Contract!Usable(t.obs), t.exp >= now, Streams[t.obs].channel = c
      PROVE  code = IF t.seq < Streams[t.obs].lost THEN "OBSERVATION_GAP" ELSE "WAITER_LIMIT"
  <2> DEFINE r == obs[t.obs]
  <2>1. Valid(r) /\ Healthy(r) BY <1>2, <1>4, UsableStream DEF Valid
  <2>2. r.channel = c /\ Streams[t.obs].lost = r.evicted BY <1>2, <1>4, <2>1, LiveStream
  <2>3. t \in tokens /\ InUse(t.obs)
    BY <1>4, <2>1, TableInvImplies DEF ClientInv, ToldInv, LeaseHonoured
  <2>4. observers[c] = t.obs
    <3>1. t.obs # None BY <1>2, SetsAssumption
    <3> QED BY <2>2, <2>3, <3>1 DEF InUse, ClientInv, ToldInv, TableInv, RecordsKept, Owned
  <2>5. ~Lapsed(r, t)
    <3>1. r.validUntil \in Nat /\ t.exp \in Nat BY <1>2, Fields DEF Token
    <3>2. None # "CURSOR_EXPIRED" BY NoneAssumption DEF ErrorCodes, RefusalCodes, FailureCodes
    <3> QED BY <1>2, <1>4, <2>1, <3>1, <3>2 DEF Valid, Healthy, Lapsed
  <2>6. TokenError(r, t) = IF t.seq < r.evicted THEN "OBSERVATION_GAP" ELSE None
    BY <2>5 DEF TokenError
  <2>7. "OBSERVATION_GAP" # None BY NoneAssumption DEF ErrorCodes, RefusalCodes, FailureCodes
  <2>8. code = IF TokenError(r, t) # None THEN TokenError(r, t)
               ELSE IF AtLimit(t.obs) THEN "WAITER_LIMIT" ELSE None
    BY <2>2, <2>3, <2>4 DEF Refusal
  <2> HIDE DEF r, code
  <2> QED BY <1>1, <2>2, <2>6, <2>7, <2>8
<1> HIDE DEF code
<1>5. /\ x.phase = "refused" /\ x.token = t /\ x.idle = 0 /\ x.deadline = 0
      /\ x.result = code /\ x.next = NoToken /\ x.activity = FALSE
  BY DEF NoWait
<1> HIDE DEF x
<1>6. Call(x) = Contract!Refused(t, code)
  BY <1>5, Stages DEF Call, Contract!Refused, Contract!NoCursor, NoToken
<1>7. Calls' = [Calls EXCEPT ![w] = Contract!Refused(t, code)] /\ Streams' = Streams
      /\ Calls[w] = Call(wait[w])
  BY <1>1, <1>2, <1>6, OneCall
<1>8. Calls[w].at = "idle" BY <1>1, <1>7, Stages DEF Call
<1>9. Contract!TurnAway(w, c, t, code)
  BY <1>1, <1>4, <1>7, <1>8 DEF Contract!TurnAway, Streams, Calls
<1>10. Contract!Next BY <1>3, <1>9 DEF Contract!Next, Contract!CallStep
<1> QED BY <1>10 DEF ContractStep

\* A call is admitted.
LEMMA AdmitRefines ==
  ASSUME ClientInv, NEW w \in Waiters, NEW c \in Channels, NEW t \in issued,
         NEW idle \in Idles, NEW timeout \in Timeouts, Admit(w, c, t, idle, timeout)
  PROVE  ContractStep
<1> DEFINE e == now + timeout
           x == [NoWait EXCEPT !.phase = "arriving", !.token = t, !.idle = idle, !.deadline = e]
           r == obs[t.obs]
           s == Streams[t.obs]
<1>1. /\ wait[w].phase = "idle" /\ Refusal(c, t) = None /\ wait' = [wait EXCEPT ![w] = x]
      /\ UNCHANGED <<now, obs, born, issued>>
  BY DEF Admit, cursorVars
<1>2. /\ WaitOK /\ t \in Token /\ t.obs \in Observers /\ t.obs \in born /\ CursorsOK
      /\ r \in Observer /\ now \in Nat
  BY DEF ClientInv, ToldInv, TableInv, ObsInv, CursorsOK, RecordsOK, RecordsKept, CursorsGood, Token
<1>3. None \notin FailureCodes \cup {"CURSOR_INVALID", "WAITER_LIMIT"}
  BY NoneAssumption DEF ErrorCodes, RefusalCodes
<1>4. t \in tokens
  <2> SUFFICES ASSUME t \notin tokens PROVE FALSE OBVIOUS
  <2>1. RetiredCode(t) = None BY <1>1 DEF Refusal
  <2>2. \A y \in retired : y.code \in FailureCodes \cup {"CURSOR_INVALID"}
    BY <1>2 DEF CursorsOK, Retired
  <2>3. CASE \E y \in retired : y.token = t
    <3>1. \E y \in retired : y.code = None BY <2>1, <2>3 DEF RetiredCode
    <3> QED BY <1>3, <2>2, <3>1
  <2>4. CASE ~\E y \in retired : y.token = t BY <1>3, <2>1, <2>4 DEF RetiredCode
  <2> QED BY <2>3, <2>4
<1>5. r.channel = c /\ TokenError(r, t) = None BY <1>1, <1>3, <1>4 DEF Refusal
<1>6. ~Lapsed(r, t) /\ ~(t.seq < r.evicted)
  BY <1>3, <1>5 DEF TokenError, FailureCodes
<1>7. s.channel = c /\ (s.state = "dead" \/ Contract!Holds(t))
  <2>1. s = Shown(StateOf(r), r) BY <1>2 DEF Streams, Stream
  <2>2. /\ s.channel = r.channel /\ s.state = StateOf(r)
        /\ StateOf(r) \in {"live", "gone"} => s.until = r.validUntil /\ s.lost = r.evicted
    BY <2>1 DEF Shown
  <2>3. /\ r.validUntil \in Nat /\ r.evicted \in Nat /\ t.exp \in Nat /\ t.seq \in Nat
    BY <1>2, Fields DEF Token
  <2>4. t.exp >= now /\ r.validUntil >= now /\ t.seq >= r.evicted
    BY <1>2, <1>6, <2>3 DEF Lapsed
  <2> HIDE DEF r
  <2>5. StateOf(r) # "dead" => Contract!Holds(t)
    BY <2>2, <2>4, States DEF Contract!Holds, Streams
  <2> QED BY <1>5, <2>2, <2>5
<1> HIDE DEF e, r
<1>8. /\ x.phase = "arriving" /\ x.token = t /\ x.idle = idle /\ x.deadline = e
      /\ x.result = None /\ x.next = NoToken /\ x.activity = FALSE
  BY DEF NoWait
<1> HIDE DEF x
<1>9. Call(x) = Contract!Asked(t, idle, e)
  <2>1. "arriving" \in Registered BY DEF Registered
  <2> QED BY <1>8, <2>1, Stages DEF Call, Contract!Asked, Contract!NoCursor, NoToken
<1>10. Calls' = [Calls EXCEPT ![w] = Contract!Asked(t, idle, e)] /\ Streams' = Streams
       /\ Calls[w] = Call(wait[w])
  BY <1>1, <1>2, <1>9, OneCall
<1>11. Calls[w].at = "idle" BY <1>1, <1>10, Stages DEF Call
<1>12. Contract!Ask(w, c, t, idle, timeout)
  BY <1>1, <1>7, <1>10, <1>11 DEF Contract!Ask, Streams, Calls, e
<1>13. Contract!Next BY <1>12 DEF Contract!Next, Contract!CallStep
<1> QED BY <1>13 DEF ContractStep

\* A call leaves: its client has the answer, and sees nothing of what becomes of
\* the observer.
LEMMA LeavingRefines ==
  ASSUME ClientInv, NEW w \in Waiters, Settle(w) \/ Thrown(w)
  PROVE  ContractStep
<1>1. /\ wait[w].phase \in {"settling", "refused"} /\ wait' = [wait EXCEPT ![w] = NoWait]
      /\ UNCHANGED <<now, born, issued>> /\ WaitOK
  BY DEF Settle, Thrown, cursorVars, ClientInv, ToldInv, TableInv, ObsInv
<1>2. Streams' = Streams
  <2>1. CASE Thrown(w)
    <3>1. UNCHANGED obs BY <2>1 DEF Thrown
    <3> QED BY <1>1, <3>1, StreamKept, StreamsKept
  <2>2. CASE Settle(w)
    <3>0. PICK o : o = wait[w].token.obs OBVIOUS
    <3>1. MaybeDispose(o, obs[o], WaitersOf(o)) BY <2>2, <3>0 DEF Settle, Of
    <3>2. o \in Observers /\ RecordsOK /\ obs[o] \in Observer
      BY <2>2, <3>0 DEF Settle, ClientInv, ToldInv, TableInv, CallsOwned, ObsInv, TableOK, RecordsOK
    <3>3. /\ \A p \in Observers : p # o => obs'[p] = obs[p]
          /\ SameFace(obs'[o], obs[o])
      BY <3>1, <3>2, DisposeFace
    <3>4. StateOf(obs'[o]) = StateOf(obs[o]) /\ \A state : Shown(state, obs'[o]) = Shown(state, obs[o])
      BY <3>3, FaceShown
    <3>5. Stream(o)' = Stream(o) BY <1>1, <3>4 DEF Stream
    <3> QED BY <1>1, <3>3, <3>5, StreamKept, StreamsKept
  <2> QED BY <2>1, <2>2
<1>4. Calls' = [Calls EXCEPT ![w] = Contract!Idle]
  <2>1. wait'[w] = NoWait /\ \A v \in Waiters : v # w => wait'[v] = wait[v] BY <1>1 DEF WaitOK
  <2>2. \A v \in Waiters : Call(wait'[v]) = IF v = w THEN Contract!Idle ELSE Call(wait[v])
    BY <2>1, IdleCall
  <2> QED BY <2>2 DEF Calls
<1>5. Calls[w].at = "told" BY <1>1, Stages DEF Calls, Call
<1>6. Contract!Return(w) BY <1>1, <1>2, <1>4, <1>5 DEF Contract!Return, Streams, Calls
<1>7. Contract!Next BY <1>6 DEF Contract!Next, Contract!CallStep
<1> QED BY <1>7 DEF ContractStep

-----------------------------------------------------------------------------
\* The manager starts as the contract does.
LEMMA InitRefines == Init => Contract!Init
<1> SUFFICES ASSUME Init PROVE Contract!Init OBVIOUS
<1>1. \A o \in Observers : Stream(o) = Contract!NoStream
  BY UnbornShown DEF Init, Stream
<1>3. \A w \in Waiters : Call(wait[w]) = Contract!Idle BY IdleCall DEF Init
<1>4. now = 0 /\ issued = {} BY DEF Init
<1> QED BY <1>1, <1>3, <1>4 DEF Contract!Init

\* Every step of the manager is a step of the contract, or clients do not see it.
LEMMA StepRefines == ClientInv /\ [Next]_vars => ContractStep
<1> SUFFICES ASSUME ClientInv, [Next]_vars PROVE ContractStep OBVIOUS
<1>1. CASE Tick \/ DetachedEnds \/ UNCHANGED vars BY <1>1, TickRefines, UnseenSteps
<1>2. ASSUME NEW c \in Channels, ChannelStep(c) PROVE ContractStep
  BY <1>2, RenewRefines, CreateRefines, CreatedRefines, UnseenSteps DEF ChannelStep
<1>3. ASSUME NEW o \in Observers, ObserverStep(o) PROVE ContractStep
  BY <1>3, IntervalRefines, SampleRefines DEF ObserverStep
<1>4. ASSUME NEW w \in Waiters, WaiterStep(w) PROVE ContractStep
  <2>1. CASE \E c \in Channels, t \in issued : Refuse(w, c, t) BY <2>1, RefuseRefines
  <2>2. CASE \E c \in Channels, t \in issued, idle \in Idles, timeout \in Timeouts :
               Admit(w, c, t, idle, timeout)
    BY <2>2, AdmitRefines
  <2>3. CASE \/ Evaluate(w) \/ Admitted(w) \/ Deadline(w) \/ Cancel(w) \/ Poll(w)
             \/ \E code \in BackendCodes : ValidationFails(w, code)
    BY <2>3, EvaluationRefines
  <2>4. CASE Confirmed(w) BY <2>4, ConfirmedRefines
  <2>5. CASE Settle(w) \/ Thrown(w) BY <2>5, LeavingRefines
  <2> QED BY <1>4, <2>1, <2>2, <2>3, <2>4, <2>5 DEF WaiterStep
<1> QED BY <1>1, <1>2, <1>3, <1>4 DEF Next

\* Whatever its timers, samples, validations and limits do, the manager keeps what
\* the contract promises to its clients.
THEOREM ObservationRefinesContract == Spec => ImplementsContract
<1>1. Init => Contract!Init BY InitRefines
<1>2. ClientInv /\ [Next]_vars => [Contract!Next]_(Contract!contractVars)
  BY StepRefines DEF ContractStep
<1> QED BY <1>1, <1>2, ClientInitial, ClientInductive, PTL
     DEF Spec, ImplementsContract, Contract!Spec
=============================================================================
