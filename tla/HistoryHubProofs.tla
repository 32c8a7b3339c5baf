-------------------------- MODULE HistoryHubProofs --------------------------
(***************************************************************************)
(* Proofs about the history hub, for any Channels, viewers and limits: its *)
(* types, that no watched Channel is left unattended, and that the table   *)
(* keeps what is in use.  That a viewer is attended rests on three facts   *)
(* that Attended does not say: a handle belongs to a chain of ticks that   *)
(* is still there, who is watched is not stopped, and (for the types) the  *)
(* current block lies within the ring.                                     *)
(*                                                                         *)
(* A second part is about hubs that never have to poll: the state tells    *)
(* the truth and every line stands on its side of every user turn.  Where  *)
(* a tick and a loop can read at once neither holds, so the invariant says *)
(* that no chain of ticks is there, and from it that the only reader never *)
(* reads less than was read before.                                        *)
(***************************************************************************)
EXTENDS HistoryHub, QueueLemmas, FiniteSetTheorems, TLAPS

\* A record by itself: its types, its handle and its block.
Shape(h) ==
  /\ h \in Hub
  /\ h.block <= Len(h.shown)
  /\ h.pollTimer # None => h.poll[h.pollTimer] # "off"

\* The same without the handle, as it is while a tick that failed ends.
Loose(h) == h \in Hub /\ h.block <= Len(h.shown)

\* A record whose viewers are attended to.
Manned(h) ==
  h.viewers # {} =>
    /\ ~h.stopped
    /\ h.loop # "off" \/ Polling(h) \/ h.state \in Interrupted

\* The invariant.
HubOK == hub \in [Channels -> Hub] /\ \A c \in Channels : Shape(hub[c]) /\ Manned(hub[c])
HubInv ==
  /\ channels \in Seq(Channels) /\ closed \in BOOLEAN /\ pane \in [Channels -> Nat]
  /\ HubOK /\ TableSound

-----------------------------------------------------------------------------
(* The operators on records.                                               *)

\* The types of the fields of a record.
LEMMA HubFields ==
  ASSUME NEW h \in Hub
  PROVE  /\ h.state \in States /\ h.viewers \in SUBSET Viewers /\ h.stopped \in BOOLEAN
         /\ h.loop \in LoopStates /\ h.cursor \in Nat
         /\ h.pollTimer \in Polls \cup {None} /\ h.poll \in [Polls -> PollStates]
         /\ h.asked \in [Polls \cup {None} -> Nat]
         /\ h.lastRead \in Nat /\ h.attachedOnce \in BOOLEAN
         /\ h.shown \in Seq(Entry) /\ h.block \in Nat
BY DEF Hub

\* A new record is in shape, and nobody watches it.
LEMMA FreshOK ==
  Shape(FreshHub) /\ Manned(FreshHub) /\ FreshHub.viewers = {} /\ FreshHub.loop = "off"
<1>1. <<>> \in Seq(Entry) /\ Len(<<>>) = 0
  OBVIOUS
<1>2. FreshHub \in Hub
  BY <1>1 DEF FreshHub, Hub, States, LoopStates, PollStates
<1> QED BY <1>1, <1>2 DEF Shape, Manned, FreshHub

\* Lines are entries of the ring.
LEMMA LinesType ==
  ASSUME NEW a \in Nat, NEW b \in Nat, a <= b
  PROVE  Lines(a, b) \in Seq(Entry) /\ Len(Lines(a, b)) = b - a
<1>1. b - a \in Nat
  OBVIOUS
<1>2. \A i \in 1..(b - a) : [kind |-> "line", n |-> a + i] \in Entry
  BY DEF Entry
<1> QED BY <1>1, <1>2 DEF Lines

\* New output leaves a ring with the block inside.
LEMMA ExtendedOK ==
  ASSUME NEW h, Shape(h), NEW new \in Seq(Entry)
  PROVE  /\ Shape(Extended(h, new))
         /\ Extended(h, new) = [h EXCEPT !.shown = Extended(h, new).shown,
                                         !.block = Extended(h, new).block]
<1> DEFINE at == IF h.block = 0 THEN Len(h.shown) ELSE h.block
           a == SubSeq(h.shown, 1, at)
           b == SubSeq(h.shown, at + 1, Len(h.shown))
           e == a \o new \o b
<1>0. h \in Hub /\ h.shown \in Seq(Entry) /\ h.block \in Nat /\ h.block <= Len(h.shown)
  BY HubFields DEF Shape
<1>1. at \in Nat /\ at <= Len(h.shown) /\ Len(h.shown) \in Nat
  BY <1>0
<1>2. \A i \in 1..Len(h.shown) : h.shown[i] \in Entry
  BY <1>0
<1>3. a \in Seq(Entry) /\ Len(a) = at
  BY <1>1, <1>2, SubSeqProperties
<1>4. b \in Seq(Entry)
  BY <1>1, <1>2, SubSeqProperties
<1> HIDE DEF a, b, at
<1>5. a \o new \in Seq(Entry) /\ Len(a \o new) = at + Len(new)
  <2>1. a \o new \in Seq(Entry) /\ Len(a \o new) = Len(a) + Len(new)
    BY <1>3, ConcatProperties
  <2> QED BY <1>3, <2>1
<1>6. e \in Seq(Entry) /\ Len(e) = at + Len(new) + Len(b)
  <2> DEFINE an == a \o new
  <2> HIDE DEF an
  <2>1. an \in Seq(Entry) /\ Len(an) = at + Len(new)
    BY <1>5 DEF an
  <2>2. an \o b \in Seq(Entry) /\ Len(an \o b) = Len(an) + Len(b)
    BY <1>4, <2>1, ConcatProperties
  <2> QED BY <2>1, <2>2 DEF an
<1>7. at + Len(new) \in Nat /\ at + Len(new) <= Len(e)
  <2>1. Len(new) \in Nat /\ Len(b) \in Nat
    BY <1>4, LenProperties
  <2> HIDE DEF e, at
  <2> QED BY <1>1, <1>6, <2>1
<1>8. Extended(h, new) = [h EXCEPT !.shown = e, !.block = at + Len(new)]
  BY DEF Extended, a, b, at
<1> HIDE DEF e, at
<1>9. Extended(h, new) \in Hub
  BY <1>0, <1>6, <1>7, <1>8 DEF Hub
<1>10. /\ Extended(h, new).shown = e /\ Extended(h, new).block = at + Len(new)
       /\ Extended(h, new).pollTimer = h.pollTimer /\ Extended(h, new).poll = h.poll
  BY <1>0, <1>8 DEF Hub
<1> QED BY <1>7, <1>8, <1>9, <1>10 DEF Shape

\* A read changes the ring and what was read, and nothing else.
LEMMA PullOK ==
  ASSUME NEW h, Shape(h), NEW mode \in {"earlier", "output"}, NEW m \in Nat
  PROVE  LET r == Pull(h, mode, m) IN
         /\ Shape(r)
         /\ r.viewers = h.viewers /\ r.stopped = h.stopped /\ r.loop = h.loop
         /\ r.state = h.state /\ r.poll = h.poll /\ r.pollTimer = h.pollTimer
<1> DEFINE read == [h EXCEPT !.lastRead = m]
           r == Pull(h, mode, m)
<1>0. h \in Hub /\ h.lastRead \in Nat /\ h.shown \in Seq(Entry) /\ h.block \in Nat
  BY HubFields DEF Shape
<1>1. /\ Shape(read) /\ read \in Hub
      /\ read.viewers = h.viewers /\ read.stopped = h.stopped /\ read.loop = h.loop
      /\ read.state = h.state /\ read.poll = h.poll /\ read.pollTimer = h.pollTimer
      /\ read.shown = h.shown /\ read.block = h.block
  BY <1>0 DEF Shape, Hub
<1> HIDE DEF read
<1>2. CASE mode = "earlier"
  <2>1. /\ h.shown \o Lines(0, m) \in Seq(Entry)
        /\ Len(h.shown \o Lines(0, m)) = Len(h.shown) + Len(Lines(0, m))
        /\ Len(Lines(0, m)) \in Nat /\ Len(h.shown) \in Nat
    <3>1. Lines(0, m) \in Seq(Entry)
      BY LinesType
    <3> QED BY <1>0, <3>1, ConcatProperties, LenProperties, Zenon
  <2>2. r = [read EXCEPT !.shown = h.shown \o Lines(0, m)]
    BY <1>1, <1>2 DEF Pull, read
  <2>3. read.block <= Len(h.shown \o Lines(0, m))
    BY <1>0, <1>1, <2>1 DEF Shape
  <2> HIDE DEF r
  <2>4. r \in Hub /\ r.block = read.block /\ r.shown = h.shown \o Lines(0, m)
    BY <1>1, <2>1, <2>2 DEF Hub
  <2> QED BY <1>1, <2>2, <2>3, <2>4 DEF Shape, Hub, r
<1>3. CASE mode = "output" /\ m > h.lastRead
  <2>1. r = Extended(read, Lines(h.lastRead, m))
    BY <1>3 DEF Pull, read
  <2>2. Lines(h.lastRead, m) \in Seq(Entry)
    <3>1. h.lastRead \in Nat /\ h.lastRead <= m
      BY <1>0, <1>3
    <3> QED BY <3>1, LinesType
  <2>3. Shape(r) /\ r = [read EXCEPT !.shown = r.shown, !.block = r.block]
    <3> DEFINE new == Lines(h.lastRead, m)
    <3> HIDE DEF new
    <3>1. new \in Seq(Entry) /\ r = Extended(read, new)
      BY <2>1, <2>2 DEF new
    <3> HIDE DEF r
    <3> QED BY <1>1, <3>1, ExtendedOK
  <2> HIDE DEF r
  <2> QED BY <1>1, <2>3 DEF Hub, r
<1>4. CASE mode = "output" /\ ~(m > h.lastRead)
  <2>1. r = read
    BY <1>4 DEF Pull, read
  <2> QED BY <1>1, <2>1
<1> QED BY <1>2, <1>3, <1>4

\* Stopping the timer leaves no handle, and ends no read.
LEMMA DisarmOK ==
  ASSUME NEW h, Loose(h)
  PROVE  LET d == Disarm(h) IN
         /\ Shape(d) /\ d.pollTimer = None
         /\ d.viewers = h.viewers /\ d.stopped = h.stopped /\ d.loop = h.loop /\ d.state = h.state
         /\ \A p \in Polls : h.poll[p] = "off" => d.poll[p] = "off"
<1>1. h \in Hub /\ h.pollTimer \in Polls \cup {None} /\ h.poll \in [Polls -> PollStates]
  BY HubFields DEF Loose
<1>2. CASE h.pollTimer = None
  BY <1>1, <1>2 DEF Disarm, Loose, Shape
<1>3. CASE h.pollTimer # None
  <2> DEFINE q == [h.poll EXCEPT ![h.pollTimer] = IF @ = "armed" THEN "off" ELSE @]
             d == [h EXCEPT !.pollTimer = None, !.poll = q]
  <2>1. q \in [Polls -> PollStates] /\ \A p \in Polls : h.poll[p] = "off" => q[p] = "off"
    BY <1>1, <1>3 DEF PollStates
  <2>2. Disarm(h) = d
    BY <1>1, <1>3 DEF Disarm, Hub
  <2> HIDE DEF q
  <2>3. /\ d \in Hub /\ d.pollTimer = None /\ d.poll = q
        /\ d.viewers = h.viewers /\ d.stopped = h.stopped /\ d.loop = h.loop /\ d.state = h.state
        /\ d.block = h.block /\ d.shown = h.shown
    BY <1>1, <2>1 DEF Hub
  <2> HIDE DEF d
  <2> QED BY <2>1, <2>2, <2>3 DEF Shape, Loose
<1> QED BY <1>2, <1>3

\* A poll is scheduled for whoever watches, if no timer is pending.
LEMMA SchedulePollOK ==
  ASSUME NEW h, Shape(h), FreePoll(h), h.pollTimer = None
  PROVE  LET r == SchedulePoll(h) IN
         /\ Shape(r) /\ r.viewers = h.viewers /\ r.stopped = h.stopped /\ r.loop = h.loop
         /\ h.viewers # {} /\ ~h.stopped => Polling(r)
<1>1. h \in Hub /\ h.poll \in [Polls -> PollStates]
  BY HubFields DEF Shape
<1>2. CASE ~Watched(h)
  BY <1>2 DEF SchedulePoll, Watched
<1>3. CASE Watched(h)
  <2> DEFINE p == CHOOSE p \in Polls : h.poll[p] = "off"
             q == [h.poll EXCEPT ![p] = "armed"]
             r == [h EXCEPT !.state = "polling", !.pollTimer = p, !.poll = q]
  <2>1. p \in Polls
    BY DEF FreePoll
  <2> HIDE DEF p
  <2>2. q \in [Polls -> PollStates] /\ q[p] = "armed"
    BY <1>1, <2>1 DEF PollStates
  <2>3. SchedulePoll(h) = r
    BY <1>1, <1>3 DEF SchedulePoll, Hub, p
  <2> HIDE DEF q
  <2>4. /\ r \in Hub /\ r.pollTimer = p /\ r.poll = q
        /\ r.viewers = h.viewers /\ r.stopped = h.stopped /\ r.loop = h.loop
        /\ r.block = h.block /\ r.shown = h.shown
    BY <1>1, <2>1, <2>2 DEF Hub, States
  <2> HIDE DEF r
  <2> QED BY <2>1, <2>2, <2>3, <2>4 DEF Shape, Polling
<1> QED BY <1>2, <1>3

\* Setting the state of a record.
LEMMA StateSet ==
  ASSUME NEW h, Shape(h), NEW x \in States
  PROVE  LET r == [h EXCEPT !.state = x] IN
         /\ Shape(r) /\ r.state = x
         /\ r.viewers = h.viewers /\ r.stopped = h.stopped /\ r.loop = h.loop
         /\ r.poll = h.poll /\ r.pollTimer = h.pollTimer
BY DEF Shape, Hub

\* After an error whoever watches is polled for or told.
LEMMA FailingOK ==
  ASSUME NEW h, Loose(h), FreePoll(h), NEW code \in Codes
  PROVE  LET r == Failing(h, code) IN
         /\ Shape(r) /\ r.viewers = h.viewers /\ r.stopped = h.stopped /\ r.loop = h.loop
         /\ h.viewers # {} /\ ~h.stopped => Polling(r) \/ r.state \in Interrupted
<1> DEFINE d == Disarm(h)
<1>1. /\ Shape(d) /\ d.pollTimer = None /\ FreePoll(d)
      /\ d.viewers = h.viewers /\ d.stopped = h.stopped /\ d.loop = h.loop
  BY DisarmOK DEF FreePoll
<1> HIDE DEF d
<1>2. CASE code = "reobserve"
  <2>1. Failing(h, code) = [d EXCEPT !.state = "needs_reobserve"]
    BY <1>2 DEF Failing, d
  <2>2. "needs_reobserve" \in States \cap Interrupted
    BY DEF States, Interrupted
  <2> QED BY <1>1, <2>1, <2>2, StateSet
<1>3. CASE code = "fatal"
  <2>1. Failing(h, code) = [d EXCEPT !.state = "error"]
    BY <1>3 DEF Failing, d
  <2>2. "error" \in States \cap Interrupted
    BY DEF States, Interrupted
  <2> QED BY <1>1, <2>1, <2>2, StateSet
<1>4. CASE code = "polling"
  <2>1. Failing(h, code) = SchedulePoll(d)
    BY <1>4 DEF Failing, d
  <2> QED BY <1>1, <2>1, SchedulePollOK
<1> QED BY <1>2, <1>3, <1>4, HubCodes

\* The loop ends: nothing of the record changes that a viewer depends on but
\* the loop itself.
LEMMA EndedOK ==
  ASSUME NEW h, Shape(h)
  PROVE  LET r == Ended(h) IN
         /\ Shape(r) /\ r.viewers = h.viewers /\ r.stopped = h.stopped /\ r.loop = "off"
         /\ r.poll = h.poll /\ (h.viewers # {} => r.state = h.state)
<1> DEFINE x == IF h.viewers = {} /\ h.state \in {"live", "attaching"} THEN "idle" ELSE h.state
           k == [h.asked EXCEPT ![None] = 0]
           r == [h EXCEPT !.loop = "off", !.asked = k, !.cursor = 0, !.state = x]
<1>1. h \in Hub /\ h.state \in States /\ h.asked \in [Polls \cup {None} -> Nat]
  BY HubFields DEF Shape
<1>2. x \in States /\ k \in [Polls \cup {None} -> Nat] /\ (h.viewers # {} => x = h.state)
  BY <1>1 DEF States
<1>3. Ended(h) = r
  BY <1>1 DEF Ended, Hub
<1> HIDE DEF x, k
<1>4. r \in Hub
  BY <1>1, <1>2 DEF Hub, LoopStates
<1>5. /\ r.viewers = h.viewers /\ r.stopped = h.stopped /\ r.loop = "off" /\ r.poll = h.poll
      /\ r.state = x /\ r.pollTimer = h.pollTimer /\ r.block = h.block /\ r.shown = h.shown
  BY <1>1 DEF Hub
<1> HIDE DEF r
<1> QED BY <1>2, <1>3, <1>4, <1>5 DEF Shape

\* A loop that is not over has somebody to serve.
LEMMA ContinuedOK ==
  ASSUME NEW h, Shape(h), h.viewers # {} => ~h.stopped
  PROVE  LET r == Continued(h) IN Shape(r) /\ Manned(r) /\ r.viewers = h.viewers
<1>1. CASE ~Watched(h)
  <2>1. Continued(h) = Ended(h) /\ h.viewers = {}
    BY <1>1 DEF Continued, Watched
  <2> QED BY <2>1, EndedOK DEF Manned
<1>2. CASE Watched(h)
  <2> DEFINE k == [h.asked EXCEPT ![None] = 0]
             r == [h EXCEPT !.loop = "waiting", !.asked = k]
  <2>1. h \in Hub /\ h.asked \in [Polls \cup {None} -> Nat]
    BY HubFields DEF Shape
  <2>2. k \in [Polls \cup {None} -> Nat]
    BY <2>1
  <2>3. Continued(h) = r
    BY <1>2, <2>1 DEF Continued, Hub
  <2> HIDE DEF k
  <2>4. /\ r \in Hub /\ r.loop = "waiting" /\ r.viewers = h.viewers /\ r.stopped = h.stopped
        /\ r.poll = h.poll /\ r.pollTimer = h.pollTimer /\ r.block = h.block /\ r.shown = h.shown
    BY <2>1, <2>2 DEF Hub, LoopStates
  <2> HIDE DEF r
  <2> QED BY <2>3, <2>4 DEF Shape, Manned
<1> QED BY <1>1, <1>2

\* A loop that starts attends to everybody.
LEMMA StartLoopOK ==
  ASSUME NEW h, Shape(h), NEW c \in Channels, pane \in [Channels -> Nat]
  PROVE  LET r == StartLoop(h, c) IN
         Shape(r) /\ Manned(r) /\ r.viewers = h.viewers
<1> DEFINE k == [h.asked EXCEPT ![None] = pane[c]]
           r == [h EXCEPT !.state = "attaching", !.loop = "observing", !.stopped = FALSE,
                          !.asked = k]
<1>1. h \in Hub /\ h.asked \in [Polls \cup {None} -> Nat]
  BY HubFields DEF Shape
<1>2. k \in [Polls \cup {None} -> Nat]
  BY <1>1
<1>3. StartLoop(h, c) = r
  BY <1>1 DEF StartLoop, Hub
<1> HIDE DEF k
<1>4. /\ r \in Hub /\ r.loop = "observing" /\ r.viewers = h.viewers /\ r.stopped = FALSE
      /\ r.poll = h.poll /\ r.pollTimer = h.pollTimer /\ r.block = h.block /\ r.shown = h.shown
  BY <1>1, <1>2 DEF Hub, LoopStates, States
<1> HIDE DEF r
<1> QED BY <1>3, <1>4 DEF Shape, Manned

\* A new viewer finds a loop, a poll, or starts the loop.
LEMMA JoinedOK ==
  ASSUME NEW h, Shape(h), NEW c \in Channels, NEW v \in Viewers, pane \in [Channels -> Nat]
  PROVE  Shape(Joined(h, c, v)) /\ Manned(Joined(h, c, v))
<1> DEFINE j == [h EXCEPT !.viewers = h.viewers \cup {v}, !.stopped = FALSE]
<1>1. h \in Hub /\ h.viewers \subseteq Viewers
  BY HubFields DEF Shape
<1>2. /\ j \in Hub /\ j.loop = h.loop /\ j.stopped = FALSE
      /\ j.poll = h.poll /\ j.pollTimer = h.pollTimer /\ j.block = h.block /\ j.shown = h.shown
  BY <1>1 DEF Hub
<1>3. Joined(h, c, v) = IF h.loop = "off" /\ h.pollTimer = None THEN StartLoop(j, c) ELSE j
  BY <1>1 DEF Joined, Hub
<1> HIDE DEF j
<1>4. Shape(j)
  BY <1>2 DEF Shape
<1>5. CASE h.loop = "off" /\ h.pollTimer = None
  BY <1>3, <1>4, <1>5, StartLoopOK
<1>6. CASE ~(h.loop = "off" /\ h.pollTimer = None)
  <2>1. h.pollTimer # None => Polling(j)
    BY <1>2, <1>4, HubFields DEF Shape, Polling
  <2> QED BY <1>2, <1>3, <1>4, <1>6, <2>1 DEF Manned
<1> QED BY <1>5, <1>6

\* Only the last viewer that leaves disturbs anything.
LEMMA LeftOK ==
  ASSUME NEW h, Shape(h), Manned(h), NEW v \in Viewers
  PROVE  LET r == Left(h, v) IN
         Shape(r) /\ Manned(r) /\ r.viewers \subseteq h.viewers /\ r.loop = h.loop
<1> DEFINE l == [h EXCEPT !.viewers = h.viewers \ {v}]
           d == Disarm(l)
           x == IF h.loop = "off" /\ h.state \in {"live", "polling", "attaching"}
                THEN "idle" ELSE d.state
           r == [d EXCEPT !.stopped = TRUE, !.state = x]
<1>1. h \in Hub /\ h.viewers \subseteq Viewers
  BY HubFields DEF Shape
<1>2. /\ l \in Hub /\ l.loop = h.loop /\ l.stopped = h.stopped /\ l.viewers = h.viewers \ {v}
      /\ l.poll = h.poll /\ l.pollTimer = h.pollTimer /\ l.block = h.block /\ l.shown = h.shown
      /\ l.state = h.state
  BY <1>1 DEF Hub
<1> HIDE DEF l
<1>3. Shape(l)
  BY <1>2 DEF Shape
<1>4. Shape(d) /\ d.viewers = l.viewers /\ d.loop = l.loop
  BY <1>3, DisarmOK DEF Shape, Loose
<1>5. CASE l.viewers # {}
  <2>1. Left(h, v) = l
    BY <1>5 DEF Left, l
  <2>2. Polling(h) => Polling(l)
    BY <1>2 DEF Polling
  <2> QED BY <1>2, <1>3, <1>5, <2>1, <2>2 DEF Manned
<1>6. CASE l.viewers = {}
  <2>1. Left(h, v) = r
    <3>1. d \in Hub
      BY <1>4 DEF Shape
    <3> QED BY <1>6, <3>1 DEF Left, l, Hub
  <2> HIDE DEF d
  <2>2. d \in Hub /\ x \in States
    BY <1>4, HubFields DEF Shape, States
  <2> HIDE DEF x
  <2>3. /\ r \in Hub /\ r.viewers = d.viewers /\ r.loop = d.loop
        /\ r.poll = d.poll /\ r.pollTimer = d.pollTimer /\ r.block = d.block /\ r.shown = d.shown
    BY <2>2 DEF Hub
  <2> HIDE DEF r
  <2> QED BY <1>2, <1>4, <1>6, <2>1, <2>3 DEF Shape, Manned
<1> QED BY <1>5, <1>6

\* A send only changes the ring and the block.
LEMMA RecordedOK ==
  ASSUME NEW h, Shape(h), Manned(h), NEW kind \in {"user_turn", "control"}
  PROVE  LET r == Recorded(h, kind) IN
         Shape(r) /\ Manned(r) /\ r.viewers = h.viewers
<1> DEFINE e == [kind |-> kind, n |-> h.lastRead]
           s == Append(h.shown, e)
           b == IF kind = "user_turn" THEN 0 ELSE h.block
           r == [h EXCEPT !.shown = s, !.block = b]
<1>1. h \in Hub /\ h.lastRead \in Nat /\ h.shown \in Seq(Entry) /\ h.block \in Nat
      /\ h.block <= Len(h.shown)
  BY HubFields DEF Shape
<1>2. e \in Entry
  BY <1>1 DEF Entry
<1> HIDE DEF e
<1>3. s \in Seq(Entry) /\ Len(s) = Len(h.shown) + 1
  BY <1>1, <1>2, AppendProperties
<1> HIDE DEF s
<1>4. b \in Nat /\ b <= Len(s)
  BY <1>1, <1>3, LenProperties
<1>5. Recorded(h, kind) = r
  BY <1>1 DEF Recorded, Hub, s, e
<1> HIDE DEF b
<1>6. /\ r \in Hub /\ r.viewers = h.viewers /\ r.loop = h.loop /\ r.state = h.state
      /\ r.stopped = h.stopped
      /\ r.poll = h.poll /\ r.pollTimer = h.pollTimer /\ r.block = b /\ r.shown = s
  BY <1>1, <1>3, <1>4 DEF Hub
<1> HIDE DEF r
<1> QED BY <1>4, <1>5, <1>6 DEF Shape, Manned, Polling

-----------------------------------------------------------------------------
(* The table.                                                              *)

\* The limits, as the provers can use them.
LEMMA Limits == MaxObserved \in Nat /\ MaxManagers \in Nat /\ MaxObserved > 0 /\ MaxManagers > 0
BY HubLimits

\* Making room removes at most one Channel, and none that is in use.
LEMMA MadeRoomOK ==
  ASSUME HubInv
  PROVE  /\ MadeRoom \in Seq(Channels) /\ IsInjective(MadeRoom)
         /\ Len(MadeRoom) <= MaxManagers
         /\ Range(MadeRoom) \subseteq Known
         /\ \A d \in Known : ~Spare(hub[d]) => d \in Range(MadeRoom)
<1> DEFINE spare == {i \in DOMAIN channels : Spare(hub[channels[i]])}
           first == CHOOSE i \in spare : \A j \in spare : i <= j
<1>1. /\ channels \in Seq(Channels) /\ IsInjective(channels) /\ Len(channels) <= MaxManagers
      /\ Len(channels) \in Nat
  BY DEF HubInv, TableSound
<1>2. CASE Len(channels) < MaxManagers \/ spare = {}
  BY <1>1, <1>2 DEF MadeRoom, Known
<1>3. CASE ~(Len(channels) < MaxManagers \/ spare = {})
  <2>1. spare \subseteq Nat /\ spare # {} /\ DOMAIN channels = 1..Len(channels)
    BY <1>1, <1>3
  <2>2. first \in spare
    BY <2>1, LeastIndex
  <2>3. MadeRoom = RemoveAt(channels, first)
    BY <1>3 DEF MadeRoom
  <2>4. first \in 1..Len(channels) /\ Spare(hub[channels[first]])
    BY <2>1, <2>2
  <2> HIDE DEF first, spare
  <2>5. /\ MadeRoom \in Seq(Channels) /\ Len(MadeRoom) = Len(channels) - 1
        /\ Range(MadeRoom) = Known \ {channels[first]} /\ IsInjective(MadeRoom)
    BY <1>1, <2>3, <2>4, RemoveAtIsSeq, RemoveAtRange DEF Known
  <2> QED BY <1>1, <2>4, <2>5, Limits
<1> QED BY <1>2, <1>3

\* The watched Channels are finitely many.
LEMMA ObservedFinite == IsFiniteSet(Observed) /\ Cardinality(Observed) \in Nat
<1>1. Observed \in SUBSET Channels
  BY DEF Observed
<1> QED BY <1>1, HubSets, FS_Subset, FS_CardinalityType

\* What ensure hands out is a record in order, that is in the table if anybody
\* watches it or its loop is active.
LEMMA EnsuredOK ==
  ASSUME HubInv, NEW c \in Channels
  PROVE  /\ Shape(Ensured(c)) /\ Manned(Ensured(c))
         /\ c \notin Known => Ensured(c).viewers = {}
         /\ c \in Known => Ensured(c) = hub[c]
BY FreshOK DEF HubInv, HubOK, Ensured

\* A step that ensures c and leaves in its place a record in order keeps the
\* invariant, if it makes c watched only below the limit.
LEMMA EnsureStep ==
  ASSUME HubInv, NEW c \in Channels, CanEnsure(c), Ensure(c),
         NEW h, Shape(h), Manned(h), hub' = [hub EXCEPT ![c] = h],
         UNCHANGED pane, closed' \in BOOLEAN,
         \/ h.viewers = Ensured(c).viewers
         \/ Ensured(c).viewers # {}
         \/ Cardinality(Observed) < MaxObserved
  PROVE  HubInv'
<1>1. channels \in Seq(Channels) /\ IsInjective(channels) /\ Len(channels) <= MaxManagers
  BY DEF HubInv, TableSound
<1>2. HubOK'
  BY DEF HubInv, HubOK, Shape
<1>3. /\ channels' \in Seq(Channels) /\ IsInjective(channels') /\ Len(channels') <= MaxManagers
      /\ c \in Known'
      /\ \A d \in Known : ~Spare(hub[d]) => d \in Known'
  <2>1. CASE c \in Known
    BY <1>1, <2>1 DEF Ensure, Known
  <2>2. CASE c \notin Known
    <3>1. channels' = Append(MadeRoom, c) /\ Len(MadeRoom) < MaxManagers
      BY <2>2 DEF Ensure, CanEnsure
    <3>2. c \notin Range(MadeRoom)
      BY <2>2, MadeRoomOK
    <3>3. /\ channels' \in Seq(Channels) /\ Len(channels') = Len(MadeRoom) + 1
          /\ Range(channels') = Range(MadeRoom) \cup {c} /\ IsInjective(channels')
      BY <3>1, <3>2, MadeRoomOK, AppendRange, AppendProperties
    <3>4. Len(MadeRoom) + 1 <= MaxManagers
      BY <3>1, MadeRoomOK, Limits, LenProperties
    <3> QED BY <3>3, <3>4, MadeRoomOK DEF Known
  <2> QED BY <2>1, <2>2
<1>4. \A d \in Channels : hub'[d].viewers # {} \/ hub'[d].loop # "off" => d \in Known'
  <2> SUFFICES ASSUME NEW d \in Channels, d # c, hub'[d].viewers # {} \/ hub'[d].loop # "off"
               PROVE  d \in Known'
    BY <1>3
  <2>1. hub'[d] = hub[d]
    BY DEF HubInv, HubOK
  <2>2. d \in Known /\ ~Spare(hub[d])
    BY <2>1 DEF HubInv, TableSound, Spare
  <2> QED BY <1>3, <2>2
<1>5. Cardinality(Observed') <= MaxObserved
  <2>1. \A d \in Channels : d # c => hub'[d] = hub[d]
    BY DEF HubInv, HubOK
  <2>2. \A d \in Channels : hub[d].viewers # {} => d \in Known
    BY DEF HubInv, TableSound
  <2>3. Observed' \subseteq Observed \cup {c}
    BY <2>1, <2>2 DEF Observed
  <2>4. Cardinality(Observed) <= MaxObserved
    BY DEF HubInv, TableSound
  <2>5. CASE Ensured(c).viewers # {}
    <3>1. c \in Observed
      BY <2>5, EnsuredOK DEF Observed
    <3>2. Observed' \in SUBSET Observed
      BY <2>3, <3>1
    <3>3. Cardinality(Observed') <= Cardinality(Observed) /\ Cardinality(Observed') \in Nat
      BY <3>2, ObservedFinite, FS_Subset, FS_CardinalityType
    <3> QED BY <2>4, <3>3, ObservedFinite, Limits
  <2>6. CASE h.viewers = {}
    <3>1. hub'[c] = h
      BY DEF HubInv, HubOK
    <3>2. c \notin Observed'
      BY <2>6, <3>1 DEF Observed
    <3>3. Observed' \in SUBSET Observed
      BY <2>3, <3>2
    <3>4. Cardinality(Observed') <= Cardinality(Observed) /\ Cardinality(Observed') \in Nat
      BY <3>3, ObservedFinite, FS_Subset, FS_CardinalityType
    <3> QED BY <2>4, <3>4, ObservedFinite, Limits
  <2>7. CASE Cardinality(Observed) < MaxObserved
    <3>1. /\ IsFiniteSet(Observed \cup {c})
          /\ Cardinality(Observed \cup {c}) <= Cardinality(Observed) + 1
      <4>1. /\ IsFiniteSet(Observed \cup {c})
            /\ Cardinality(Observed \cup {c})
                 = IF c \in Observed THEN Cardinality(Observed) ELSE Cardinality(Observed) + 1
        BY ObservedFinite, FS_AddElement, Zenon
      <4> QED BY <4>1, ObservedFinite
    <3>2. Cardinality(Observed') <= Cardinality(Observed \cup {c})
          /\ Cardinality(Observed') \in Nat /\ Cardinality(Observed \cup {c}) \in Nat
      BY <2>3, <3>1, FS_Subset, FS_CardinalityType
    <3> QED BY <2>7, <3>1, <3>2, ObservedFinite, Limits
  <2> QED BY <2>5, <2>6, <2>7
<1> QED BY <1>2, <1>3, <1>4, <1>5 DEF HubInv, TableSound

\* A step that changes one record, without viewers of its own and without
\* starting its loop, keeps the invariant.
LEMMA RecordStep ==
  ASSUME HubInv, NEW c \in Channels, NEW h, Shape(h), Manned(h),
         h.viewers \subseteq hub[c].viewers, h.loop # "off" => hub[c].loop # "off",
         hub' = [hub EXCEPT ![c] = h], UNCHANGED <<channels, pane, closed>>
  PROVE  HubInv'
<1>1. HubOK'
  BY DEF HubInv, HubOK, Shape
<1>2. \A d \in Channels :
        /\ hub'[d].viewers # {} => hub[d].viewers # {}
        /\ hub'[d].loop # "off" => hub[d].loop # "off"
  BY DEF HubInv, HubOK
<1>3. Observed' \in SUBSET Observed
  BY <1>2 DEF Observed, Known
<1>4. Cardinality(Observed') <= Cardinality(Observed) /\ Cardinality(Observed') \in Nat
  BY <1>3, ObservedFinite, FS_Subset, FS_CardinalityType
<1>5. Cardinality(Observed') <= MaxObserved
  BY <1>4, ObservedFinite, Limits DEF HubInv, TableSound
<1> QED BY <1>1, <1>2, <1>5 DEF HubInv, TableSound, Known

-----------------------------------------------------------------------------
(* The steps.                                                              *)

\* What every step may use of the record of c.
LEMMA Ours ==
  ASSUME HubInv, NEW c \in Channels
  PROVE  /\ hub \in [Channels -> Hub] /\ hub[c] \in Hub /\ Shape(hub[c]) /\ Manned(hub[c])
         /\ pane \in [Channels -> Nat] /\ pane[c] \in Nat
         /\ \A r \in Polls \cup {None} : Reads(c, r) \subseteq Nat
<1>1. hub[c].asked \in [Polls \cup {None} -> Nat]
  BY HubFields DEF HubInv, HubOK
<1> QED BY <1>1 DEF HubInv, HubOK, Reads

\* A viewer joins, or is refused at the limit (addViewer).
LEMMA AddViewerStep ==
  ASSUME HubInv, NEW c \in Channels, NEW v \in Viewers, AddViewer(c, v)
  PROVE  HubInv'
<1> DEFINE e == Ensured(c)
           h == IF e.viewers = {} /\ Cardinality(Observed) >= MaxObserved THEN e
                ELSE Joined(e, c, v)
<1>1. /\ CanEnsure(c) /\ Ensure(c) /\ hub' = [hub EXCEPT ![c] = h]
      /\ UNCHANGED pane /\ closed' = closed /\ closed \in BOOLEAN
  BY DEF AddViewer, HubInv
<1>2. Shape(e) /\ Manned(e) /\ pane \in [Channels -> Nat]
  BY EnsuredOK DEF HubInv
<1>3. Shape(h) /\ Manned(h)
  BY <1>2, JoinedOK
<1>4. h.viewers = e.viewers \/ e.viewers # {} \/ Cardinality(Observed) < MaxObserved
  BY ObservedFinite, Limits
<1> HIDE DEF e, h
<1> QED BY <1>1, <1>3, <1>4, EnsureStep DEF e

\* A viewer leaves (removeViewer).
LEMMA RemoveViewerStep ==
  ASSUME HubInv, NEW c \in Channels, NEW v \in Viewers, RemoveViewer(c, v)
  PROVE  HubInv'
<1> DEFINE h == Left(hub[c], v)
<1>1. hub' = [hub EXCEPT ![c] = h] /\ UNCHANGED <<channels, pane, closed>>
  BY Ours DEF RemoveViewer
<1>2. Shape(h) /\ Manned(h) /\ h.viewers \subseteq hub[c].viewers /\ h.loop = hub[c].loop
  BY Ours, LeftOK
<1> HIDE DEF h
<1> QED BY <1>1, <1>2, RecordStep

\* A send is recorded (recordConsoleEvent).
LEMMA RecordConsoleEventStep ==
  ASSUME HubInv, NEW c \in Channels, NEW kind \in {"user_turn", "control"},
         RecordConsoleEvent(c, kind)
  PROVE  HubInv'
<1> DEFINE h == Recorded(Ensured(c), kind)
<1>1. /\ CanEnsure(c) /\ Ensure(c) /\ hub' = [hub EXCEPT ![c] = h]
      /\ UNCHANGED pane /\ closed' \in BOOLEAN
  BY DEF RecordConsoleEvent, HubInv
<1>2. Shape(h) /\ Manned(h) /\ h.viewers = Ensured(c).viewers
  BY EnsuredOK, RecordedOK
<1> HIDE DEF h
<1> QED BY <1>1, <1>2, EnsureStep

\* A snapshot makes the record (snapshot).
LEMMA SnapshotStep ==
  ASSUME HubInv, NEW c \in Channels, Snapshot(c)
  PROVE  HubInv'
<1>1. /\ CanEnsure(c) /\ Ensure(c) /\ hub' = [hub EXCEPT ![c] = Ensured(c)]
      /\ UNCHANGED pane /\ closed' \in BOOLEAN
  BY DEF Snapshot, HubInv
<1> QED BY <1>1, EnsuredOK, EnsureStep

\* The hub closes (close): nobody watches any more.
LEMMA CloseStep ==
  ASSUME HubInv, Close
  PROVE  HubInv'
<1> DEFINE gone(d) == [Disarm(hub[d]) EXCEPT !.stopped = TRUE, !.viewers = {}]
<1>1. \A d \in Channels : /\ Shape(gone(d)) /\ Manned(gone(d))
                          /\ gone(d).viewers = {} /\ gone(d).loop = hub[d].loop
  <2> SUFFICES ASSUME NEW d \in Channels
               PROVE  /\ Shape(gone(d)) /\ Manned(gone(d))
                      /\ gone(d).viewers = {} /\ gone(d).loop = hub[d].loop
    OBVIOUS
  <2> DEFINE k == Disarm(hub[d])
             g == [k EXCEPT !.stopped = TRUE, !.viewers = {}]
  <2>1. k \in Hub /\ Shape(k) /\ k.loop = hub[d].loop
    BY Ours, DisarmOK DEF Shape, Loose
  <2> HIDE DEF k
  <2>2. /\ g \in Hub /\ g.viewers = {} /\ g.loop = k.loop /\ g.block = k.block
        /\ g.shown = k.shown /\ g.poll = k.poll /\ g.pollTimer = k.pollTimer
    BY <2>1 DEF Hub
  <2>3. g = gone(d)
    BY DEF k
  <2> HIDE DEF g, gone
  <2> QED BY <2>1, <2>2, <2>3 DEF Shape, Manned
<1>2. /\ closed' = TRUE /\ channels' = channels /\ pane' = pane
      /\ hub' = [d \in Channels |-> IF d \in Known THEN gone(d) ELSE hub[d]]
  BY DEF Close
<1> HIDE DEF gone
<1>3. HubOK'
  BY <1>1, <1>2, Ours DEF HubOK, Shape
<1>4. \A d \in Channels : /\ hub'[d].loop # "off" => hub[d].loop # "off"
                          /\ hub'[d].viewers # {} => hub[d].viewers # {}
  BY <1>1, <1>2
<1>5. Observed' \in SUBSET Observed
  BY <1>2, <1>4 DEF Observed, Known
<1>6. Cardinality(Observed') <= Cardinality(Observed) /\ Cardinality(Observed') \in Nat
  BY <1>5, ObservedFinite, FS_Subset, FS_CardinalityType
<1>7. Cardinality(Observed') <= MaxObserved
  BY <1>6, ObservedFinite, Limits DEF HubInv, TableSound
<1> QED BY <1>2, <1>3, <1>4, <1>7 DEF HubInv, TableSound, Known

\* The loop has its cursor and makes the first read.
LEMMA ObservesStep ==
  ASSUME HubInv, NEW c \in Channels, Observes(c)
  PROVE  HubInv'
<1>1. PICK n \in Reads(c, None) :
        LoopGets(c, [hub[c] EXCEPT !.cursor = n, !.loop = "attaching", !.asked[None] = pane[c]])
  BY DEF Observes
<1> DEFINE k == [hub[c].asked EXCEPT ![None] = pane[c]]
           h == [hub[c] EXCEPT !.cursor = n, !.loop = "attaching", !.asked = k]
<1>2. n \in Nat /\ hub[c] \in Hub /\ hub[c].asked \in [Polls \cup {None} -> Nat]
  BY Ours, HubFields
<1>3. k \in [Polls \cup {None} -> Nat]
  BY <1>2, Ours
<1>4. hub' = [hub EXCEPT ![c] = h] /\ UNCHANGED <<channels, pane, closed>>
  BY <1>1, <1>2 DEF LoopGets, Hub
<1> HIDE DEF k
<1>5. /\ h \in Hub /\ h.loop = "attaching" /\ h.viewers = hub[c].viewers
      /\ h.stopped = hub[c].stopped /\ h.poll = hub[c].poll /\ h.pollTimer = hub[c].pollTimer
      /\ h.block = hub[c].block /\ h.shown = hub[c].shown
  BY <1>2, <1>3 DEF Hub, LoopStates
<1> HIDE DEF h
<1>6. Shape(h) /\ Manned(h)
  BY <1>5, Ours DEF Shape, Manned
<1>7. hub[c].loop # "off"
  BY DEF Observes
<1> QED BY <1>4, <1>5, <1>6, <1>7, RecordStep

\* An answer that the loop goes on from.
LEMMA ContinuedStep ==
  ASSUME HubInv, NEW c \in Channels, NEW h, Shape(h),
         h.viewers = hub[c].viewers, h.stopped = hub[c].stopped,
         hub[c].loop # "off", LoopGets(c, Continued(h))
  PROVE  HubInv'
<1>1. h.viewers # {} => ~h.stopped
  BY Ours DEF Manned
<1>2. Shape(Continued(h)) /\ Manned(Continued(h)) /\ Continued(h).viewers = hub[c].viewers
  BY <1>1, ContinuedOK
<1>3. hub' = [hub EXCEPT ![c] = Continued(h)] /\ UNCHANGED <<channels, pane, closed>>
  BY DEF LoopGets
<1> QED BY <1>2, <1>3, RecordStep

\* The loop has attached.
LEMMA FirstReadStep ==
  ASSUME HubInv, NEW c \in Channels, FirstRead(c)
  PROVE  HubInv'
<1> DEFINE mode == IF hub[c].attachedOnce THEN "output" ELSE "earlier"
<1>1. PICK m \in Reads(c, None) :
        LoopGets(c, Continued([Pull(hub[c], mode, m) EXCEPT
                                 !.attachedOnce = TRUE, !.state = "live"]))
  BY DEF FirstRead
<1> DEFINE p == Pull(hub[c], mode, m)
           h == [p EXCEPT !.attachedOnce = TRUE, !.state = "live"]
<1>2. m \in Nat /\ mode \in {"output", "earlier"}
  BY Ours
<1> HIDE DEF mode
<1>3. Shape(p) /\ p \in Hub /\ p.viewers = hub[c].viewers /\ p.stopped = hub[c].stopped
  BY <1>2, Ours, PullOK DEF Shape
<1> HIDE DEF p
<1>4. /\ h \in Hub /\ h.viewers = p.viewers /\ h.stopped = p.stopped /\ h.poll = p.poll
      /\ h.pollTimer = p.pollTimer /\ h.block = p.block /\ h.shown = p.shown
  BY <1>3 DEF Hub, States
<1>5. LoopGets(c, Continued(h))
  BY <1>1 DEF p
<1> HIDE DEF h
<1>6. Shape(h)
  BY <1>3, <1>4 DEF Shape
<1>7. hub[c].loop # "off"
  BY DEF FirstRead
<1> QED BY <1>3, <1>4, <1>5, <1>6, <1>7, ContinuedStep

\* The loop has read the tail after an event.
LEMMA EventReadStep ==
  ASSUME HubInv, NEW c \in Channels, EventRead(c)
  PROVE  HubInv'
<1>1. PICK m \in Reads(c, None) : LoopGets(c, Continued(Pull(hub[c], "output", m)))
  BY DEF EventRead
<1> DEFINE p == Pull(hub[c], "output", m)
<1>2. Shape(p) /\ p.viewers = hub[c].viewers /\ p.stopped = hub[c].stopped
  BY Ours, PullOK
<1> HIDE DEF p
<1>3. hub[c].loop # "off" /\ LoopGets(c, Continued(p))
  BY <1>1 DEF EventRead, p
<1> QED BY <1>2, <1>3, ContinuedStep

\* An answer that ends the loop, the record h having been brought in order for it.
LEMMA EndedStep ==
  ASSUME HubInv, NEW c \in Channels, NEW h, Shape(h),
         h.viewers = hub[c].viewers, hub[c].loop # "off",
         h.viewers # {} => ~h.stopped /\ (Polling(h) \/ h.state \in Interrupted),
         LoopGets(c, Ended(h))
  PROVE  HubInv'
<1>1. Shape(Ended(h)) /\ Manned(Ended(h)) /\ Ended(h).viewers = h.viewers /\ Ended(h).loop = "off"
  BY EndedOK DEF Manned, Polling
<1>2. hub' = [hub EXCEPT ![c] = Ended(h)] /\ UNCHANGED <<channels, pane, closed>>
  BY DEF LoopGets
<1> QED BY <1>1, <1>2, RecordStep

\* An answer of a wait of which nothing but the event is used.
LEMMA WaitAnswered ==
  ASSUME HubInv, NEW c \in Channels, hub[c].loop = "waiting",
         NEW n \in Nat, NEW next \in LoopStates \ {"off"},
         LoopGets(c, IF Watched(hub[c])
                     THEN [hub[c] EXCEPT !.cursor = n, !.loop = next, !.asked[None] = pane[c]]
                     ELSE Ended(hub[c]))
  PROVE  HubInv'
<1>1. CASE ~Watched(hub[c])
  <2>1. LoopGets(c, Ended(hub[c])) /\ hub[c].viewers = {}
    BY <1>1, Ours DEF Watched, Manned
  <2> QED BY <2>1, Ours, EndedStep
<1>2. CASE Watched(hub[c])
  <2> DEFINE k == [hub[c].asked EXCEPT ![None] = pane[c]]
             h == [hub[c] EXCEPT !.cursor = n, !.loop = next, !.asked = k]
  <2>1. hub[c] \in Hub /\ hub[c].asked \in [Polls \cup {None} -> Nat]
    BY Ours, HubFields
  <2>2. k \in [Polls \cup {None} -> Nat]
    BY <2>1, Ours
  <2>3. hub' = [hub EXCEPT ![c] = h] /\ UNCHANGED <<channels, pane, closed>>
    BY <1>2, <2>1 DEF LoopGets, Hub
  <2> HIDE DEF k
  <2>4. /\ h \in Hub /\ h.loop = next /\ h.viewers = hub[c].viewers
        /\ h.stopped = hub[c].stopped /\ h.poll = hub[c].poll /\ h.pollTimer = hub[c].pollTimer
        /\ h.block = hub[c].block /\ h.shown = hub[c].shown
    BY <2>1, <2>2 DEF Hub
  <2> HIDE DEF h
  <2>5. Shape(h) /\ Manned(h)
    BY <2>4, Ours DEF Shape, Manned
  <2> QED BY <2>3, <2>4, <2>5, RecordStep
<1> QED BY <1>1, <1>2

\* The wait of the loop is answered.
LEMMA WaitStep ==
  ASSUME HubInv, NEW c \in Channels,
         WaitIdle(c) \/ WaitActive(c) \/ WaitTimeout(c) \/ WaitClosed(c)
  PROVE  HubInv'
<1>0. hub[c].loop = "waiting" /\ hub[c] \in Hub /\ hub[c].cursor \in Nat
  BY Ours, HubFields DEF WaitIdle, WaitActive, WaitTimeout, WaitClosed
<1>1. CASE WaitIdle(c)
  <2>1. PICK n \in (hub[c].cursor + 1)..pane[c] :
          LoopGets(c, IF Watched(hub[c])
                      THEN [hub[c] EXCEPT !.cursor = n, !.loop = "idle", !.asked[None] = pane[c]]
                      ELSE Ended(hub[c]))
    BY <1>1 DEF WaitIdle
  <2>2. n \in Nat /\ "idle" \in LoopStates \ {"off"}
    BY <1>0, Ours DEF LoopStates
  <2> QED BY <1>0, <2>1, <2>2, WaitAnswered
<1>2. CASE WaitActive(c)
  <2>1. [hub[c] EXCEPT !.loop = "activity", !.asked[None] = pane[c]]
          = [hub[c] EXCEPT !.cursor = hub[c].cursor, !.loop = "activity", !.asked[None] = pane[c]]
    BY <1>0 DEF Hub
  <2>2. "activity" \in LoopStates \ {"off"}
    BY DEF LoopStates
  <2> QED BY <1>0, <1>2, <2>1, <2>2, WaitAnswered DEF WaitActive
<1>3. CASE WaitTimeout(c)
  BY <1>0, <1>3, Ours, ContinuedStep DEF WaitTimeout
<1>4. CASE WaitClosed(c)
  <2> DEFINE h == IF Watched(hub[c]) THEN [hub[c] EXCEPT !.state = "closed"] ELSE hub[c]
  <2>1. "closed" \in States \cap Interrupted
    BY DEF States, Interrupted
  <2>2. /\ Shape(h) /\ h.viewers = hub[c].viewers /\ h.stopped = hub[c].stopped
        /\ Watched(hub[c]) => h.state \in Interrupted
    BY <2>1, Ours, StateSet
  <2>3. h.viewers # {} => ~h.stopped /\ h.state \in Interrupted
    BY <2>2, Ours DEF Manned, Watched
  <2>4. LoopGets(c, Ended(h))
    BY <1>4 DEF WaitClosed
  <2> HIDE DEF h
  <2> QED BY <1>0, <2>2, <2>3, <2>4, EndedStep
<1> QED BY <1>1, <1>2, <1>3, <1>4

\* A call of the loop fails: the viewers are polled for or told.
LEMMA LoopFailsStep ==
  ASSUME HubInv, NEW c \in Channels, NEW code \in Codes, LoopFails(c, code)
  PROVE  HubInv'
<1> DEFINE h == IF hub[c].stopped THEN hub[c] ELSE Failing(hub[c], code)
<1>1. hub[c].loop # "off" /\ FreePoll(hub[c]) /\ LoopGets(c, Ended(h))
  BY DEF LoopFails
<1>2. /\ Shape(h) /\ h.viewers = hub[c].viewers
      /\ h.viewers # {} => ~h.stopped /\ (Polling(h) \/ h.state \in Interrupted)
  <2>1. CASE hub[c].stopped
    BY <2>1, Ours DEF Manned
  <2>2. CASE ~hub[c].stopped
    <3>1. Loose(hub[c])
      BY Ours DEF Shape, Loose
    <3> QED BY <1>1, <2>2, <3>1, FailingOK, Ours DEF Manned
  <2> QED BY <2>1, <2>2
<1> HIDE DEF h
<1> QED BY <1>1, <1>2, EndedStep

\* A change of one chain of ticks.
Ticked(h, p, x, n, t) == [h EXCEPT !.poll[p] = x, !.asked[p] = n, !.pollTimer = t]

\* Such a change keeps a record in shape if the handle is that of a chain.
LEMMA PollSet ==
  ASSUME NEW h, Shape(h), NEW p \in Polls, NEW x \in PollStates, NEW n \in Nat,
         NEW t \in Polls \cup {None}, t = p => x # "off", t # p => t = None \/ h.poll[t] # "off"
  PROVE  LET r == Ticked(h, p, x, n, t) IN
         /\ Shape(r) /\ r.viewers = h.viewers /\ r.stopped = h.stopped /\ r.loop = h.loop
         /\ r.state = h.state /\ r.poll[p] = x /\ r.pollTimer = t
<1> DEFINE q == [h.poll EXCEPT ![p] = x]
           k == [h.asked EXCEPT ![p] = n]
           r == [h EXCEPT !.poll = q, !.asked = k, !.pollTimer = t]
<1>1. h \in Hub /\ h.poll \in [Polls -> PollStates] /\ h.asked \in [Polls \cup {None} -> Nat]
  BY HubFields DEF Shape
<1>2. /\ q \in [Polls -> PollStates] /\ k \in [Polls \cup {None} -> Nat] /\ q[p] = x
      /\ t # None => q[t] # "off"
  BY <1>1
<1>3. r = Ticked(h, p, x, n, t)
  BY <1>1 DEF Hub, Ticked
<1> HIDE DEF q, k
<1>4. /\ r \in Hub /\ r.viewers = h.viewers /\ r.stopped = h.stopped /\ r.loop = h.loop
      /\ r.state = h.state /\ r.poll = q /\ r.pollTimer = t
      /\ r.block = h.block /\ r.shown = h.shown
  BY <1>1, <1>2 DEF Hub
<1>5. Shape(r)
  <2> HIDE DEF r
  <2> QED BY <1>1, <1>2, <1>4 DEF Shape
<1> HIDE DEF r
<1> QED BY <1>2, <1>3, <1>4, <1>5

\* A poll timer fires.
LEMMA TimerFiresStep ==
  ASSUME HubInv, NEW c \in Channels, NEW p \in Polls, TimerFires(c, p)
  PROVE  HubInv'
<1> DEFINE h == hub[c]
           a == Ticked(h, p, "reading", pane[c], h.pollTimer)
           b == Ticked(h, p, "off", h.asked[p], None)
<1>1. /\ h \in Hub /\ Shape(h) /\ Manned(h) /\ pane[c] \in Nat /\ h.asked[p] \in Nat
      /\ h.pollTimer \in Polls \cup {None}
  BY Ours, HubFields
<1>2. /\ hub' = [hub EXCEPT ![c] = IF Watched(h) THEN a ELSE b]
      /\ UNCHANGED <<channels, pane, closed>>
  <2>1. a = [h EXCEPT !.poll[p] = "reading", !.asked[p] = pane[c]]
    BY <1>1 DEF Hub, Ticked
  <2>2. b = [h EXCEPT !.poll[p] = "off", !.pollTimer = None]
    BY <1>1, HubFields DEF Hub, Ticked
  <2> HIDE DEF a, b
  <2> QED BY <2>1, <2>2, Ours DEF TimerFires
<1>3. {"reading", "off"} \subseteq PollStates /\ None \notin Polls
  BY HubSets DEF PollStates
<1>4. h.pollTimer # p => h.pollTimer = None \/ h.poll[h.pollTimer] # "off"
  BY <1>1 DEF Shape
<1> HIDE DEF h
<1>5. /\ Shape(a) /\ a.viewers = h.viewers /\ a.stopped = h.stopped /\ a.loop = h.loop
      /\ a.poll[p] = "reading"
  BY <1>1, <1>3, <1>4, PollSet
<1>6. Shape(b) /\ b.viewers = h.viewers /\ b.loop = h.loop
  BY <1>1, <1>3, PollSet
<1> HIDE DEF a, b
<1>7. CASE Watched(h)
  <2>1. Manned(a)
    BY <1>5, <1>7 DEF Manned, Polling, Watched
  <2> QED BY <1>2, <1>5, <1>7, <2>1, RecordStep DEF h
<1>8. CASE ~Watched(h)
  <2>1. Manned(b)
    BY <1>1, <1>6, <1>8 DEF Manned, Watched
  <2> QED BY <1>2, <1>6, <1>8, <2>1, RecordStep DEF h
<1> QED BY <1>7, <1>8

\* The read of a tick is answered; the tick takes the handle for itself.
LEMMA TickReadsStep ==
  ASSUME HubInv, NEW c \in Channels, NEW p \in Polls, TickReads(c, p)
  PROVE  HubInv'
<1>1. PICK m \in Reads(c, p) :
        LET h == [Pull(hub[c], "output", m) EXCEPT !.asked[p] = 0] IN
        hub' = [hub EXCEPT ![c] =
          IF Watched(h) THEN [h EXCEPT !.poll[p] = "armed", !.pollTimer = p]
          ELSE [h EXCEPT !.poll[p] = "off", !.pollTimer = None]]
  BY DEF TickReads
<1> DEFINE h == Pull(hub[c], "output", m)
           k == [h EXCEPT !.asked[p] = 0]
           a == Ticked(h, p, "armed", 0, p)
           b == Ticked(h, p, "off", 0, None)
<1>2. /\ Shape(h) /\ h \in Hub /\ h.viewers = hub[c].viewers /\ h.stopped = hub[c].stopped
      /\ h.loop = hub[c].loop
  BY Ours, PullOK DEF Shape
<1>3. Manned(hub[c]) /\ UNCHANGED <<channels, pane, closed>>
  BY Ours DEF TickReads
<1>4. hub' = [hub EXCEPT ![c] = IF Watched(k) THEN [k EXCEPT !.poll[p] = "armed", !.pollTimer = p]
                                ELSE [k EXCEPT !.poll[p] = "off", !.pollTimer = None]]
  BY <1>1
<1> HIDE DEF h
<1>5. /\ [k EXCEPT !.poll[p] = "armed", !.pollTimer = p] = a
      /\ [k EXCEPT !.poll[p] = "off", !.pollTimer = None] = b
      /\ k.viewers = h.viewers /\ k.stopped = h.stopped
  BY <1>2 DEF Hub, Ticked
<1>6. {"armed", "off"} \subseteq PollStates /\ None \notin Polls
  BY HubSets DEF PollStates
<1>7. /\ Shape(a) /\ a.viewers = h.viewers /\ a.stopped = h.stopped /\ a.loop = h.loop
      /\ a.poll[p] = "armed"
  BY <1>2, <1>6, PollSet
<1>8. Shape(b) /\ b.viewers = h.viewers /\ b.loop = h.loop
  BY <1>2, <1>6, PollSet
<1> HIDE DEF a, b, k
<1>9. CASE Watched(k)
  <2>1. Manned(a)
    BY <1>5, <1>7, <1>9 DEF Manned, Polling, Watched
  <2>2. hub' = [hub EXCEPT ![c] = a]
    BY <1>4, <1>5, <1>9
  <2> QED BY <1>2, <1>3, <1>7, <2>1, <2>2, RecordStep
<1>10. CASE ~Watched(k)
  <2>1. Manned(b)
    BY <1>2, <1>3, <1>5, <1>8, <1>10 DEF Manned, Watched
  <2>2. hub' = [hub EXCEPT ![c] = b]
    BY <1>4, <1>5, <1>10
  <2> QED BY <1>2, <1>3, <1>8, <2>1, <2>2, RecordStep
<1> QED BY <1>9, <1>10

\* The read of a tick fails: the viewers are polled for or told.
LEMMA TickFailsStep ==
  ASSUME HubInv, NEW c \in Channels, NEW p \in Polls, NEW code \in Codes, TickFails(c, p, code)
  PROVE  HubInv'
<1> DEFINE q == [hub[c].poll EXCEPT ![p] = "off"]
           k == [hub[c].asked EXCEPT ![p] = 0]
           h == [hub[c] EXCEPT !.poll = q, !.asked = k]
<1>1. /\ hub[c] \in Hub /\ Shape(hub[c]) /\ Manned(hub[c])
      /\ hub[c].poll \in [Polls -> PollStates] /\ hub[c].asked \in [Polls \cup {None} -> Nat]
  BY Ours, HubFields
<1>2. /\ q \in [Polls -> PollStates] /\ k \in [Polls \cup {None} -> Nat] /\ q[p] = "off"
  BY <1>1 DEF PollStates
<1>3. hub' = [hub EXCEPT ![c] = Failing(h, code)] /\ UNCHANGED <<channels, pane, closed>>
  <2>1. h = [hub[c] EXCEPT !.poll[p] = "off", !.asked[p] = 0]
    BY <1>1 DEF Hub
  <2> HIDE DEF h
  <2> QED BY <2>1, Ours DEF TickFails
<1> HIDE DEF q, k
<1>4. /\ h \in Hub /\ h.viewers = hub[c].viewers /\ h.stopped = hub[c].stopped
      /\ h.loop = hub[c].loop /\ h.poll = q /\ h.block = hub[c].block /\ h.shown = hub[c].shown
  BY <1>1, <1>2 DEF Hub
<1> HIDE DEF h
<1>5. Loose(h) /\ FreePoll(h)
  BY <1>1, <1>2, <1>4 DEF Loose, Shape, FreePoll
<1> DEFINE f == Failing(h, code)
<1>6. /\ Shape(f) /\ f.viewers = h.viewers /\ f.stopped = h.stopped /\ f.loop = h.loop
      /\ h.viewers # {} /\ ~h.stopped => Polling(f) \/ f.state \in Interrupted
  BY <1>5, FailingOK
<1> HIDE DEF f
<1>7. Manned(f)
  BY <1>1, <1>4, <1>6 DEF Manned
<1>8. hub' = [hub EXCEPT ![c] = f]
  BY <1>3 DEF f
<1> QED BY <1>3, <1>4, <1>6, <1>7, <1>8, RecordStep

\* The pane grows.
LEMMA OutputStep ==
  ASSUME HubInv, NEW c \in Channels, Output(c)
  PROVE  HubInv'
<1>1. pane' \in [Channels -> Nat]
  BY DEF HubInv, Output
<1> QED BY <1>1 DEF HubInv, HubOK, TableSound, Observed, Known, Output

-----------------------------------------------------------------------------
(* The theorems.                                                           *)

\* The hub starts empty, and so within the invariant.
THEOREM HubInitial == Init => HubInv
<1> SUFFICES ASSUME Init PROVE HubInv
  OBVIOUS
<1>1. HubOK
  BY FreshOK DEF Init, HubOK, Shape
<1>2. channels = <<>> /\ Known = {} /\ Len(channels) = 0 /\ IsInjective(channels)
  BY DEF Init, Known, Range, IsInjective
<1>3. \A c \in Channels : hub[c].viewers = {} /\ hub[c].loop = "off"
  BY FreshOK DEF Init
<1>4. Observed = {} /\ Cardinality(Observed) = 0
  BY <1>2, FS_EmptySet DEF Observed
<1>5. TableSound
  <2>1. Len(channels) <= MaxManagers /\ Cardinality(Observed) <= MaxObserved
    BY <1>2, <1>4, Limits
  <2> QED BY <1>2, <1>3, <2>1, Zenon DEF TableSound
<1>6. channels \in Seq(Channels)
  BY <1>2, EmptySeq
<1>7. closed \in BOOLEAN /\ pane \in [Channels -> Nat]
  BY DEF Init
<1> QED BY <1>1, <1>5, <1>6, <1>7 DEF HubInv

\* Every step of the hub preserves the invariant.
THEOREM HubInductive == HubInv /\ [Next]_vars => HubInv'
<1> SUFFICES ASSUME HubInv, [Next]_vars PROVE HubInv'
  OBVIOUS
<1>1. CASE UNCHANGED vars
  BY <1>1 DEF vars, HubInv, HubOK, TableSound, Observed, Known
<1>2. CASE Close
  BY <1>2, CloseStep
<1>3. ASSUME NEW c \in Channels, NEW v \in Viewers, AddViewer(c, v) \/ RemoveViewer(c, v)
      PROVE  HubInv'
  BY <1>3, AddViewerStep, RemoveViewerStep
<1>4. ASSUME NEW c \in Channels, Snapshot(c) \/ Output(c)
      PROVE  HubInv'
  BY <1>4, SnapshotStep, OutputStep
<1>5. ASSUME NEW c \in Channels, NEW kind \in {"user_turn", "control"}, RecordConsoleEvent(c, kind)
      PROVE  HubInv'
  BY <1>5, RecordConsoleEventStep
<1>6. ASSUME NEW c \in Channels, LoopAnswers(c)
      PROVE  HubInv'
  BY <1>6, ObservesStep, FirstReadStep, EventReadStep, WaitStep, LoopFailsStep DEF LoopAnswers
<1>7. ASSUME NEW c \in Channels, NEW p \in Polls, TimerFires(c, p) \/ TickAnswers(c, p)
      PROVE  HubInv'
  BY <1>7, TimerFiresStep, TickReadsStep, TickFailsStep DEF TickAnswers
<1> QED BY <1>1, <1>2, <1>3, <1>4, <1>5, <1>6, <1>7 DEF Next

\* The records have their types, and whoever watches a Channel is attended to or
\* told so, for any number of Channels, viewers and chains of ticks.
THEOREM ViewersAttended == Spec => [](TypeOK /\ Attended)
<1>1. HubInv => TypeOK /\ Attended
  BY DEF HubInv, HubOK, Shape, Manned, TypeOK, Attended
<1> QED BY <1>1, HubInitial, HubInductive, PTL DEF Spec

\* The table is within its limits and holds every Channel that is in use.
THEOREM TableKept == Spec => []TableSound
<1>1. HubInv => TableSound
  BY DEF HubInv
<1> QED BY <1>1, HubInitial, HubInductive, PTL DEF Spec

\* The state of the hub is well-formed, for any constants.
THEOREM HubTypes == Spec => []TypeOK
BY ViewersAttended, PTL

-----------------------------------------------------------------------------
(* Where waiting always works: no call of the loop fails so that the tail  *)
(* would have to be polled.  There the state is true, and every line is on *)
(* its side of every user turn.                                            *)

NoPoll(h) == h.pollTimer = None /\ \A p \in Polls : h.poll[p] = "off"

Truthful(h) ==
  /\ h.loop # "off" => h.state \in {"live", "attaching"}
  /\ h.loop = "off" /\ h.viewers # {} => h.state \notin {"live", "attaching"}

\* A ring that shows the lines up to b, and whose turns tell of what had been
\* read.
InTurns(s, b) ==
  /\ \A i \in DOMAIN s : s[i].kind \in {"line", "user_turn"} => s[i].n <= b
  /\ \A i, j \in DOMAIN s :
       s[i].kind = "user_turn" /\ s[j].kind = "line" => (j < i <=> s[j].n <= s[i].n)
  /\ LinesExactly(s, b)

\* Turns and lines stand before position at, where output goes.
TurnsWithin(s, at) == \A i \in DOMAIN s : s[i].kind \in {"line", "user_turn"} => i <= at

\* A record whose pane holds n lines.
Kept(h, n) ==
  /\ NoPoll(h) /\ h.lastRead <= n
  /\ ~h.attachedOnce => h.lastRead = 0 /\ h.block = 0
  /\ InTurns(h.shown, h.lastRead)
  /\ h.block # 0 => TurnsWithin(h.shown, h.block)

\* The only reader reads no less than was read before.
Reader(h) ==
  /\ h.loop \in {"attaching", "idle", "activity"} => h.lastRead <= h.asked[None]
  /\ h.loop \in {"waiting", "idle", "activity"} => h.attachedOnce

Plain(h, n) == Kept(h, n) /\ Truthful(h) /\ Reader(h)
PlainHub == \A c \in Channels : Plain(hub[c], pane[c])

\* What the properties ask for.
LEMMA PlainImplies == PlainHub => StateHonest /\ TurnsBound /\ TranscriptExact
<1> SUFFICES ASSUME PlainHub, NEW c \in Channels
             PROVE  /\ hub[c].viewers # {} =>
                         /\ hub[c].state \in {"live", "attaching"} <=> hub[c].loop # "off"
                         /\ hub[c].state \in Interrupted => ~Polling(hub[c])
                    /\ \A i, j \in DOMAIN hub[c].shown :
                         hub[c].shown[i].kind = "user_turn" /\ hub[c].shown[j].kind = "line"
                           => (j < i <=> hub[c].shown[j].n <= hub[c].shown[i].n)
                    /\ LinesExactly(hub[c].shown, hub[c].lastRead)
  BY DEF StateHonest, TurnsBound, TranscriptExact
<1>1. Plain(hub[c], pane[c]) BY DEF PlainHub
<1>2. hub[c].viewers # {} => (hub[c].state \in {"live", "attaching"} <=> hub[c].loop # "off")
  BY <1>1 DEF Plain, Truthful
<1>3. ~Polling(hub[c]) BY <1>1 DEF Plain, Kept, NoPoll, Polling
<1>4. InTurns(hub[c].shown, hub[c].lastRead) BY <1>1 DEF Plain, Kept
<1> QED BY <1>2, <1>3, <1>4 DEF InTurns

\* The part of a record that Kept looks at.
SameRing(r, h) ==
  /\ r.pollTimer = h.pollTimer /\ r.poll = h.poll /\ r.lastRead = h.lastRead
  /\ r.attachedOnce = h.attachedOnce /\ r.shown = h.shown /\ r.block = h.block

\* Nothing else of a record matters to it.
LEMMA KeptSame ==
  ASSUME NEW h, NEW r, SameRing(r, h), NEW n, Kept(h, n)
  PROVE  Kept(r, n)
BY DEF SameRing, Kept, NoPoll

\* A new record.
LEMMA FreshPlain == ASSUME NEW n \in Nat PROVE Plain(FreshHub, n)
<1>1. /\ FreshHub.pollTimer = None /\ FreshHub.poll = [p \in Polls |-> "off"]
      /\ FreshHub.lastRead = 0 /\ FreshHub.shown = <<>> /\ FreshHub.block = 0
      /\ FreshHub.loop = "off" /\ FreshHub.viewers = {}
  BY DEF FreshHub
<1>2. DOMAIN FreshHub.shown = {} BY <1>1
<1>3. LinesExactly(FreshHub.shown, 0) BY <1>2 DEF LinesExactly
<1> QED BY <1>1, <1>2, <1>3 DEF Plain, Kept, NoPoll, InTurns, Truthful, Reader

-----------------------------------------------------------------------------
(* Output goes behind the turns.                                           *)

\* What the entries of a ring are.
LEMMA EntriesAre ==
  ASSUME NEW s \in Seq(Entry)
  PROVE  \A i \in DOMAIN s : s[i] \in Entry /\ s[i].n \in Nat
<1>1. ASSUME NEW i \in DOMAIN s PROVE s[i] \in Entry /\ s[i].n \in Nat
  <2>1. i \in 1..Len(s) OBVIOUS
  <2>2. s[i] \in Entry BY <2>1, ElementOfSeq
  <2> QED BY <2>2 DEF Entry
<1> QED BY <1>1

\* The lines after b and up to b + k have been inserted into the ring s behind
\* position at, which gives t.
Inserted(s, t, at, k, b) ==
  /\ s \in Seq(Entry) /\ t \in Seq(Entry)
  /\ at \in Nat /\ k \in Nat /\ b \in Nat
  /\ at <= Len(s) /\ Len(t) = Len(s) + k
  /\ \A i \in 1..at : t[i] = s[i]
  /\ \A i \in 1..k : t[at + i] = [kind |-> "line", n |-> b + i]
  /\ \A i \in (at + 1)..Len(s) : t[i + k] = s[i]

\* The j-th entry of t is one of s before position at, or a new line.
Placed(s, t, at, k, b, j) ==
  \/ j <= at /\ j \in DOMAIN s /\ t[j] = s[j]
  \/ at < j /\ j <= at + k /\ t[j] = [kind |-> "line", n |-> b + (j - at)]

\* Where the entries of t come from.
LEMMA InsertedPlaced ==
  ASSUME NEW s, NEW t, NEW at, NEW k, NEW b, Inserted(s, t, at, k, b), TurnsWithin(s, at)
  PROVE  /\ DOMAIN t = 1..(Len(s) + k) /\ DOMAIN s = 1..Len(s) /\ Len(s) \in Nat
         /\ \A i \in DOMAIN s : s[i].n \in Nat
         /\ \A i \in DOMAIN t : t[i].n \in Nat
         /\ \A i \in DOMAIN t :
              t[i].kind \in {"line", "user_turn"} => Placed(s, t, at, k, b, i)
<1>i. /\ s \in Seq(Entry) /\ t \in Seq(Entry)
      /\ at \in Nat /\ k \in Nat /\ b \in Nat
      /\ at <= Len(s) /\ Len(t) = Len(s) + k
      /\ \A i \in 1..at : t[i] = s[i]
      /\ \A i \in 1..k : t[at + i] = [kind |-> "line", n |-> b + i]
      /\ \A i \in (at + 1)..Len(s) : t[i + k] = s[i]
  BY DEF Inserted
<1>0. DOMAIN s = 1..Len(s) /\ DOMAIN t = 1..(Len(s) + k) /\ Len(s) \in Nat
  BY <1>i
<1>1. \A i \in DOMAIN s : s[i] \in Entry /\ s[i].n \in Nat BY <1>i, EntriesAre
<1>2. \A i \in DOMAIN t : t[i] \in Entry /\ t[i].n \in Nat BY <1>i, EntriesAre
<1>3. ASSUME NEW i \in DOMAIN t, t[i].kind \in {"line", "user_turn"}
      PROVE  Placed(s, t, at, k, b, i)
  <2>1. i \in Nat /\ 1 <= i /\ i <= Len(s) + k BY <1>0, <1>i
  <2>2. CASE i <= at BY <1>i, <1>0, <2>1, <2>2 DEF Placed
  <2>3. CASE at < i /\ i <= at + k
    <3>1. i - at \in 1..k /\ at + (i - at) = i BY <1>i, <2>1, <2>3
    <3>2. t[i] = [kind |-> "line", n |-> b + (i - at)] BY <1>i, <3>1
    <3> QED BY <2>3, <3>2 DEF Placed
  <2>4. CASE at + k < i
    <3>1. i - k \in (at + 1)..Len(s) /\ (i - k) + k = i BY <1>i, <1>0, <2>1, <2>4
    <3>2. t[i] = s[i - k] BY <1>i, <3>1
    <3>3. i - k \in DOMAIN s /\ ~(i - k <= at) BY <1>i, <1>0, <3>1
    <3> QED BY <1>3, <3>2, <3>3 DEF TurnsWithin
  <2> QED BY <1>i, <2>1, <2>2, <2>3, <2>4
<1> QED BY <1>0, <1>1, <1>2, <1>3

\* Of two lines, the one that stands first is the earlier one.
LEMMA InsertedLines ==
  ASSUME NEW s, NEW t, NEW at, NEW k, NEW b, Inserted(s, t, at, k, b),
         InTurns(s, b), TurnsWithin(s, at)
  PROVE  LinesExactly(t, b + k)
<1>i. /\ at \in Nat /\ k \in Nat /\ b \in Nat /\ at <= Len(s)
      /\ \A i \in 1..at : t[i] = s[i]
      /\ \A i \in 1..k : t[at + i] = [kind |-> "line", n |-> b + i]
  BY DEF Inserted
<1>0. /\ DOMAIN t = 1..(Len(s) + k) /\ DOMAIN s = 1..Len(s) /\ Len(s) \in Nat
      /\ \A i \in DOMAIN s : s[i].n \in Nat
      /\ \A i \in DOMAIN t : t[i].kind \in {"line", "user_turn"} => Placed(s, t, at, k, b, i)
  BY InsertedPlaced
<1>1. /\ \A i \in DOMAIN s : s[i].kind = "line" => s[i].n \in 1..b
      /\ \A n \in 1..b : \E i \in DOMAIN s : s[i] = [kind |-> "line", n |-> n]
      /\ \A i, j \in DOMAIN s :
           s[i].kind = "line" /\ s[j].kind = "line" => (i < j <=> s[i].n < s[j].n)
  BY DEF InTurns, LinesExactly
<1>2. ASSUME NEW i \in DOMAIN t, t[i].kind = "line"
      PROVE  \/ i <= at /\ i \in DOMAIN s /\ t[i] = s[i] /\ t[i].n \in 1..b
             \/ at < i /\ i <= at + k /\ t[i].n = b + (i - at)
  BY <1>0, <1>1, <1>2 DEF Placed
<1>3. ASSUME NEW i \in DOMAIN t, t[i].kind = "line" PROVE t[i].n \in 1..(b + k)
  <2>1. i \in Nat BY <1>0
  <2> QED BY <1>i, <1>2, <1>3, <2>1
<1>4. ASSUME NEW n \in 1..(b + k) PROVE \E i \in DOMAIN t : t[i] = [kind |-> "line", n |-> n]
  <2>1. CASE n <= b
    <3>1. n \in 1..b BY <1>i, <2>1
    <3>2. PICK i \in DOMAIN s : s[i] = [kind |-> "line", n |-> n] BY <1>1, <3>1
    <3>3. i <= at BY <3>2 DEF TurnsWithin
    <3>4. i \in 1..at /\ i \in DOMAIN t BY <1>i, <1>0, <3>3
    <3> QED BY <1>i, <3>2, <3>4
  <2>2. CASE n > b
    <3>1. n - b \in 1..k /\ b + (n - b) = n /\ at + (n - b) \in DOMAIN t BY <1>i, <1>0, <2>2
    <3>2. PICK l \in 1..k : l = n - b BY <3>1
    <3>3. t[at + l] = [kind |-> "line", n |-> b + l] BY Zenon DEF Inserted
    <3>4. b + l = n /\ at + l \in DOMAIN t BY <3>1, <3>2
    <3> QED BY <3>3, <3>4
  <2>3. n <= b \/ n > b BY <1>i
  <2> QED BY <2>1, <2>2, <2>3
<1>5. ASSUME NEW i \in DOMAIN t, NEW j \in DOMAIN t, t[i].kind = "line", t[j].kind = "line"
      PROVE  i < j <=> t[i].n < t[j].n
  <2>0. i \in Nat /\ j \in Nat BY <1>0
  <2>1. CASE i \in DOMAIN s /\ t[i] = s[i] /\ j \in DOMAIN s /\ t[j] = s[j]
    BY <1>1, <1>5, <2>1
  <2>2. CASE at < i /\ t[i].n = b + (i - at) /\ at < j /\ t[j].n = b + (j - at)
    BY <1>i, <2>0, <2>2
  <2>3. CASE i <= at /\ t[i].n \in 1..b /\ at < j /\ t[j].n = b + (j - at)
    BY <1>i, <2>0, <2>3
  <2>4. CASE at < i /\ t[i].n = b + (i - at) /\ j <= at /\ t[j].n \in 1..b
    BY <1>i, <2>0, <2>4
  <2> QED BY <1>2, <1>5, <2>1, <2>2, <2>3, <2>4
<1> QED BY <1>3, <1>4, <1>5 DEF LinesExactly

\* Behind the turns and the lines that the ring held, the next lines leave it in
\* order.
LEMMA InsertKeeps ==
  ASSUME NEW s, NEW t, NEW at, NEW k, NEW b, Inserted(s, t, at, k, b),
         InTurns(s, b), TurnsWithin(s, at)
  PROVE  InTurns(t, b + k) /\ TurnsWithin(t, at + k)
<1>i. at \in Nat /\ k \in Nat /\ b \in Nat /\ at <= Len(s)
  BY DEF Inserted
<1>0. /\ DOMAIN t = 1..(Len(s) + k) /\ DOMAIN s = 1..Len(s) /\ Len(s) \in Nat
      /\ \A i \in DOMAIN s : s[i].n \in Nat
      /\ \A i \in DOMAIN t : t[i].kind \in {"line", "user_turn"} => Placed(s, t, at, k, b, i)
  BY InsertedPlaced
<1>1. /\ \A i \in DOMAIN s : s[i].kind \in {"line", "user_turn"} => s[i].n <= b
      /\ \A i, j \in DOMAIN s :
           s[i].kind = "user_turn" /\ s[j].kind = "line" => (j < i <=> s[j].n <= s[i].n)
  BY DEF InTurns
<1>2. ASSUME NEW i \in DOMAIN t, t[i].kind \in {"line", "user_turn"}
      PROVE  \/ i <= at /\ i \in DOMAIN s /\ t[i] = s[i] /\ s[i].n <= b
             \/ at < i /\ i <= at + k /\ t[i].kind = "line" /\ t[i].n = b + (i - at)
  BY <1>0, <1>1, <1>2 DEF Placed
<1>3. ASSUME NEW i \in DOMAIN t, t[i].kind \in {"line", "user_turn"}
      PROVE  t[i].n <= b + k /\ i <= at + k
  <2>1. i \in Nat BY <1>0
  <2>2. CASE i <= at /\ i \in DOMAIN s /\ t[i] = s[i] /\ s[i].n <= b
    <3>1. s[i].n \in Nat BY <1>0, <2>2
    <3> QED BY <1>i, <2>1, <2>2, <3>1
  <2>3. CASE at < i /\ i <= at + k /\ t[i].n = b + (i - at)
    BY <1>i, <2>1, <2>3
  <2> QED BY <1>2, <1>3, <2>2, <2>3
<1>4. ASSUME NEW i \in DOMAIN t, NEW j \in DOMAIN t, t[i].kind = "user_turn", t[j].kind = "line"
      PROVE  j < i <=> t[j].n <= t[i].n
  <2>0. i \in Nat /\ j \in Nat BY <1>0
  <2>1. i <= at /\ i \in DOMAIN s /\ t[i] = s[i] /\ s[i].n <= b BY <1>2, <1>4
  <2>2. CASE j \in DOMAIN s /\ t[j] = s[j]
    BY <1>1, <1>4, <2>1, <2>2
  <2>3. CASE at < j /\ t[j].n = b + (j - at)
    <3>1. s[i].n \in Nat BY <1>0, <2>1
    <3>2. ~(j < i) /\ ~(t[j].n <= t[i].n) BY <1>i, <2>0, <2>1, <2>3, <3>1
    <3> QED BY <3>2
  <2> QED BY <1>2, <1>4, <2>2, <2>3
<1>5. InTurns(t, b + k) BY <1>3, <1>4, InsertedLines DEF InTurns
<1> QED BY <1>3, <1>5 DEF TurnsWithin

\* The lines past a.
LEMMA LinesAre ==
  ASSUME NEW a \in Nat, NEW m \in Nat, a <= m
  PROVE  /\ Lines(a, m) \in Seq(Entry) /\ Len(Lines(a, m)) = m - a /\ m - a \in Nat
         /\ \A i \in 1..(m - a) : Lines(a, m)[i] = [kind |-> "line", n |-> a + i]
<1>1. ASSUME NEW i \in 1..(m - a)
      PROVE  Lines(a, m)[i] = [kind |-> "line", n |-> a + i]
  BY DEF Lines
<1> QED BY <1>1, LinesType

\* New lines in the ring of a record.
LEMMA ExtendedPlain ==
  ASSUME NEW h, Shape(h), NEW b \in Nat, NEW m \in Nat, b <= m,
         InTurns(h.shown, b), h.block # 0 => TurnsWithin(h.shown, h.block)
  PROVE  LET r == Extended(h, Lines(b, m)) IN
         /\ InTurns(r.shown, m) /\ (r.block # 0 => TurnsWithin(r.shown, r.block))
         /\ r.pollTimer = h.pollTimer /\ r.poll = h.poll
         /\ r.lastRead = h.lastRead /\ r.attachedOnce = h.attachedOnce
         /\ r.asked = h.asked
<1> DEFINE new == Lines(b, m)
           k == m - b
           at == IF h.block = 0 THEN Len(h.shown) ELSE h.block
           pre == SubSeq(h.shown, 1, at)
           suf == SubSeq(h.shown, at + 1, Len(h.shown))
           e == pre \o new \o suf
<1>0. h \in Hub /\ h.shown \in Seq(Entry) /\ h.block \in Nat /\ h.block <= Len(h.shown)
  BY HubFields DEF Shape
<1>1. at \in Nat /\ at <= Len(h.shown) /\ Len(h.shown) \in Nat
  BY <1>0
<1>2. TurnsWithin(h.shown, at)
  <2>1. CASE h.block = 0
    <3>1. \A i \in DOMAIN h.shown : i <= Len(h.shown) BY <1>0
    <3> QED BY <2>1, <3>1 DEF TurnsWithin
  <2> QED BY <2>1
<1>3. /\ new \in Seq(Entry) /\ Len(new) = k /\ k \in Nat /\ b + k = m
      /\ \A i \in 1..k : new[i] = [kind |-> "line", n |-> b + i]
  <2>1. b + (m - b) = m OBVIOUS
  <2> QED BY <2>1, LinesAre
<1> HIDE DEF new, k
<1>4. \A i \in 1..Len(h.shown) : h.shown[i] \in Entry
  BY <1>0
<1>5. pre \in Seq(Entry) /\ Len(pre) = at /\ \A i \in 1..at : pre[i] = h.shown[i]
  BY <1>1, <1>4, SubSeqProperties
<1>6. /\ suf \in Seq(Entry) /\ Len(suf) = Len(h.shown) - at
      /\ \A i \in 1..(Len(h.shown) - at) : suf[i] = h.shown[at + i]
  <2> DEFINE n == Len(h.shown)
  <2>1. at + 1 \in 1..(n + 1) /\ n \in Nat /\ n - (at + 1) + 1 = n - at BY <1>1
  <2>2. \A i \in 1..(n - at) : (at + 1) + i - 1 = at + i BY <1>1
  <2> HIDE DEF at, e, pre, k, n
  <2>3. \A i \in (at + 1)..n : h.shown[i] \in Entry BY <1>1, <1>4 DEF n
  <2>4. /\ suf \in Seq(Entry) /\ Len(suf) = n - at
        /\ \A i \in 1..(n - at) : suf[i] = h.shown[at + i]
    BY <1>1, <2>1, <2>2, <2>3, SubSeqProperties DEF n
  <2> QED BY <2>4 DEF n
<1>8. Extended(h, new) = [h EXCEPT !.shown = e, !.block = at + Len(new)]
  BY DEF Extended
<1> HIDE DEF pre, suf, at
<1>7. /\ e \in Seq(Entry) /\ Len(e) = Len(h.shown) + k
      /\ \A i \in 1..at : e[i] = h.shown[i]
      /\ \A i \in 1..k : e[at + i] = new[i]
      /\ \A i \in (at + 1)..Len(h.shown) : e[i + k] = h.shown[i]
  <2> DEFINE pn == pre \o new
  <2>1. /\ pn \in Seq(Entry) /\ Len(pn) = at + k
        /\ \A i \in 1..at : pn[i] = h.shown[i]
        /\ \A i \in 1..k : pn[at + i] = new[i]
    <3>1. /\ pn \in Seq(Entry) /\ Len(pn) = Len(pre) + Len(new)
          /\ \A i \in 1..Len(pn) : pn[i] = IF i <= Len(pre) THEN pre[i] ELSE new[i - Len(pre)]
      BY <1>3, <1>5, ConcatProperties
    <3> HIDE DEF pn
    <3>2. \A i \in 1..at : pn[i] = h.shown[i] BY <1>1, <1>3, <1>5, <3>1
    <3>3. ASSUME NEW i \in 1..k PROVE pn[at + i] = new[i]
      <4>1. at + i \in 1..Len(pn) /\ ~(at + i <= at) /\ (at + i) - at = i
        BY <1>1, <1>3, <1>5, <3>1
      <4> QED BY <1>5, <3>1, <4>1
    <3> QED BY <1>3, <1>5, <3>1, <3>2, <3>3
  <2> HIDE DEF pn
  <2>2. /\ e \in Seq(Entry) /\ Len(e) = Len(pn) + Len(suf)
        /\ \A i \in 1..Len(e) : e[i] = IF i <= Len(pn) THEN pn[i] ELSE suf[i - Len(pn)]
    <3>1. e = pn \o suf BY DEF pn
    <3> HIDE DEF e
    <3>2. /\ pn \o suf \in Seq(Entry) /\ Len(pn \o suf) = Len(pn) + Len(suf)
          /\ \A i \in 1..(Len(pn) + Len(suf)) :
               (pn \o suf)[i] = IF i <= Len(pn) THEN pn[i] ELSE suf[i - Len(pn)]
      BY <1>6, <2>1, ConcatProperties
    <3> QED BY <3>1, <3>2
  <2> HIDE DEF e
  <2>3. Len(e) = Len(h.shown) + k
    <3>1. Len(e) = Len(pn) + Len(suf) /\ Len(pn) = at + k /\ Len(suf) = Len(h.shown) - at
      BY <1>6, <2>1, <2>2
    <3>2. Len(h.shown) \in Nat /\ at \in Nat /\ k \in Nat
      BY <1>1, <1>3
    <3>3. Len(e) = (at + k) + (Len(h.shown) - at)
      BY <3>1
    <3>4. \A x, y, z \in Nat : (y + z) + (x - y) = x + z
      OBVIOUS
    <3> QED BY <3>2, <3>3, <3>4
  <2> DEFINE len == Len(h.shown)
  <2>l. len \in Nat /\ at \in Nat /\ k \in Nat /\ at <= len
    BY <1>1, <1>3
  <2>n. Len(e) = len + k /\ Len(pn) = at + k
    BY <2>1, <2>3
  <2> HIDE DEF len
  <2>4. \A i \in 1..at : e[i] = h.shown[i]
    <3> TAKE i \in 1..at
    <3>1. i \in 1..(len + k) /\ i <= at + k BY <2>l
    <3> QED BY <2>1, <2>2, <2>n, <3>1
  <2>5. \A i \in 1..k : e[at + i] = new[i]
    <3> TAKE i \in 1..k
    <3>1. at + i \in 1..(len + k) /\ at + i <= at + k BY <2>l
    <3> QED BY <2>1, <2>2, <2>n, <3>1
  <2>6. \A i \in (at + 1)..Len(h.shown) : e[i + k] = h.shown[i]
    <3> SUFFICES ASSUME NEW i \in (at + 1)..len PROVE e[i + k] = h.shown[i]
      BY DEF len
    <3>1. /\ i + k \in 1..(len + k) /\ ~(i + k <= at + k) /\ (i + k) - (at + k) = i - at
          /\ i - at \in 1..(len - at) /\ at + (i - at) = i
      BY <2>l
    <3>2. e[i + k] = suf[i - at]
      BY <2>2, <2>n, <3>1
    <3>3. \A j \in 1..(len - at) : suf[j] = h.shown[at + j]
      BY <1>6 DEF len
    <3> QED BY <3>1, <3>2, <3>3
  <2> QED BY <2>2, <2>3, <2>4, <2>5, <2>6
<1> HIDE DEF e
<1>9. InTurns(e, m) /\ TurnsWithin(e, at + Len(new))
  <2>1. \A i \in 1..k : e[at + i] = [kind |-> "line", n |-> b + i]
    BY <1>3, <1>7
  <2>2. Inserted(h.shown, e, at, k, b)
    BY <1>0, <1>1, <1>3, <1>7, <2>1 DEF Inserted
  <2>3. InTurns(e, b + k) /\ TurnsWithin(e, at + k) BY <1>2, <2>2, InsertKeeps
  <2> QED BY <1>3, <2>3
<1> DEFINE r == Extended(h, new)
<1>11. /\ r.shown = e /\ r.block = at + Len(new) /\ r.pollTimer = h.pollTimer /\ r.poll = h.poll
       /\ r.lastRead = h.lastRead /\ r.attachedOnce = h.attachedOnce /\ r.asked = h.asked
  BY <1>0, <1>8 DEF Hub
<1> QED BY <1>9, <1>11 DEF new

\* A read whose answer is no older than the last one.
LEMMA PullPlain ==
  ASSUME NEW h, Shape(h), NEW n \in Nat, Kept(h, n), NEW m \in Nat, h.lastRead <= m, m <= n,
         NEW mode, (mode = "output" /\ h.attachedOnce) \/ (mode = "earlier" /\ ~h.attachedOnce)
  PROVE  LET r == Pull(h, mode, m) IN
         /\ NoPoll(r) /\ r.lastRead = m /\ r.attachedOnce = h.attachedOnce
         /\ InTurns(r.shown, m) /\ (r.block # 0 => TurnsWithin(r.shown, r.block))
<1> DEFINE read == [h EXCEPT !.lastRead = m]
           r == Pull(h, mode, m)
<1>0. /\ h \in Hub /\ h.lastRead \in Nat /\ h.shown \in Seq(Entry) /\ h.block \in Nat
      /\ NoPoll(h) /\ InTurns(h.shown, h.lastRead)
      /\ h.block # 0 => TurnsWithin(h.shown, h.block)
      /\ h.block <= Len(h.shown)
  BY HubFields DEF Shape, Kept
<1>1. /\ Shape(read) /\ read \in Hub /\ read.lastRead = m
      /\ read.poll = h.poll /\ read.pollTimer = h.pollTimer
      /\ read.attachedOnce = h.attachedOnce /\ read.shown = h.shown /\ read.block = h.block
  BY <1>0 DEF Shape, Hub
<1> HIDE DEF read
<1>2. CASE mode = "earlier"
  <2> DEFINE t == h.shown \o Lines(0, m)
  <2>1. h.lastRead = 0 /\ h.block = 0 BY <1>2 DEF Kept
  <2>2. /\ Lines(0, m) \in Seq(Entry) /\ Len(Lines(0, m)) = m
        /\ \A i \in 1..m : Lines(0, m)[i] = [kind |-> "line", n |-> 0 + i]
    <3>1. /\ Lines(0, m) \in Seq(Entry) /\ Len(Lines(0, m)) = m - 0
          /\ \A i \in 1..(m - 0) : Lines(0, m)[i] = [kind |-> "line", n |-> 0 + i]
      <4>1. 0 \in Nat /\ 0 <= m OBVIOUS
      <4> QED BY <4>1, LinesAre
    <3>2. m - 0 = m OBVIOUS
    <3> QED BY <3>1, <3>2
  <2> DEFINE new == Lines(0, m)
  <2> HIDE DEF new
  <2>3. /\ t \in Seq(Entry) /\ Len(t) = Len(h.shown) + m
        /\ \A i \in 1..Len(h.shown) : t[i] = h.shown[i]
        /\ \A i \in 1..m : t[Len(h.shown) + i] = Lines(0, m)[i]
    <3>1. /\ t \in Seq(Entry) /\ Len(t) = Len(h.shown) + Len(new)
          /\ \A i \in 1..Len(t) : t[i] = IF i <= Len(h.shown) THEN h.shown[i]
                                         ELSE new[i - Len(h.shown)]
      BY <1>0, <2>2, ConcatProperties DEF new
    <3> HIDE DEF t
    <3>2. Len(h.shown) \in Nat /\ Len(new) = m BY <1>0, <2>2 DEF new
    <3>3. \A i \in 1..Len(h.shown) : t[i] = h.shown[i] BY <3>1, <3>2
    <3>4. ASSUME NEW i \in 1..m PROVE t[Len(h.shown) + i] = new[i]
      <4>1. /\ Len(h.shown) + i \in 1..Len(t) /\ ~(Len(h.shown) + i <= Len(h.shown))
            /\ (Len(h.shown) + i) - Len(h.shown) = i
        BY <3>1, <3>2
      <4> QED BY <3>1, <4>1
    <3> QED BY <3>1, <3>2, <3>3, <3>4 DEF new
  <2>4. r = [read EXCEPT !.shown = t]
    BY <1>1, <1>2 DEF Pull, read
  <2> HIDE DEF t
  <2>5. TurnsWithin(h.shown, Len(h.shown))
    BY <1>0 DEF TurnsWithin
  <2>6. \A i \in 1..m : t[Len(h.shown) + i] = [kind |-> "line", n |-> 0 + i]
    BY <2>2, <2>3
  <2>7. \A i \in (Len(h.shown) + 1)..Len(h.shown) : t[i + m] = h.shown[i]
    BY <1>0
  <2>8. InTurns(t, m)
    <3>1. Len(h.shown) \in Nat /\ Len(h.shown) <= Len(h.shown) BY <1>0
    <3>2. InTurns(h.shown, 0) BY <1>0, <2>1
    <3>3. Inserted(h.shown, t, Len(h.shown), m, 0)
      BY <1>0, <2>3, <2>6, <2>7, <3>1 DEF Inserted
    <3>4. InTurns(t, 0 + m) BY <2>5, <3>2, <3>3, InsertKeeps
    <3> QED BY <3>4
  <2> HIDE DEF r
  <2>10. /\ r.shown = t /\ r.block = h.block /\ r.lastRead = m /\ r.poll = h.poll
         /\ r.pollTimer = h.pollTimer /\ r.attachedOnce = h.attachedOnce
    BY <1>1, <2>4 DEF Hub
  <2> QED BY <1>0, <2>1, <2>8, <2>10 DEF NoPoll, r
<1>3. CASE mode = "output" /\ m > h.lastRead
  <2>1. r = Extended(read, Lines(h.lastRead, m))
    BY <1>3 DEF Pull, read
  <2> HIDE DEF r
  <2>2. /\ InTurns(r.shown, m) /\ (r.block # 0 => TurnsWithin(r.shown, r.block))
        /\ r.pollTimer = read.pollTimer /\ r.poll = read.poll
        /\ r.lastRead = read.lastRead /\ r.attachedOnce = read.attachedOnce
    <3>1. InTurns(read.shown, h.lastRead) /\ (read.block # 0 => TurnsWithin(read.shown, read.block))
      BY <1>0, <1>1
    <3> QED BY <1>0, <1>1, <2>1, <3>1, ExtendedPlain
  <2> QED BY <1>0, <1>1, <2>2 DEF NoPoll, r
<1>4. CASE mode = "output" /\ ~(m > h.lastRead)
  <2>1. r = read /\ m = h.lastRead
    BY <1>0, <1>4 DEF Pull, read
  <2> QED BY <1>0, <1>1, <2>1 DEF NoPoll
<1> QED BY <1>2, <1>3, <1>4
-----------------------------------------------------------------------------
(* The operators on such records.                                          *)

\* Where no timer is pending there is none to stop.
LEMMA DisarmPlain == ASSUME NEW h, NoPoll(h) PROVE Disarm(h) = h
BY DEF NoPoll, Disarm

\* The loop ends, having told those who watch.
LEMMA EndedPlain ==
  ASSUME NEW h, Shape(h), NEW n, Kept(h, n),
         h.viewers # {} => h.state \notin {"live", "attaching"}
  PROVE  Plain(Ended(h), n)
<1> DEFINE x == IF h.viewers = {} /\ h.state \in {"live", "attaching"} THEN "idle" ELSE h.state
           k == [h.asked EXCEPT ![None] = 0]
           r == [h EXCEPT !.loop = "off", !.asked = k, !.cursor = 0, !.state = x]
<1>1. h \in Hub
  BY DEF Shape
<1>2. x \notin {"live", "attaching"}
  OBVIOUS
<1>3. Ended(h) = r
  BY <1>1 DEF Ended, Hub
<1> HIDE DEF x, k
<1>4. SameRing(r, h) /\ r.loop = "off" /\ r.state = x
  BY <1>1 DEF Hub, SameRing
<1> HIDE DEF r
<1>5. Truthful(r)
  BY <1>2, <1>4 DEF Truthful
<1>6. Reader(r)
  BY <1>4 DEF Reader
<1> QED BY <1>3, <1>4, <1>5, <1>6, KeptSame DEF Plain

\* The loop waits on for those who watch, who are told so.
LEMMA ContinuedPlain ==
  ASSUME NEW h, Shape(h), NEW n, Kept(h, n), h.attachedOnce,
         h.state \in {"live", "attaching"}, h.viewers # {} => ~h.stopped
  PROVE  Plain(Continued(h), n)
<1>1. CASE ~Watched(h)
  <2>1. Continued(h) = Ended(h) /\ h.viewers = {}
    BY <1>1 DEF Continued, Watched
  <2> QED BY <2>1, EndedPlain
<1>2. CASE Watched(h)
  <2> DEFINE k == [h.asked EXCEPT ![None] = 0]
             r == [h EXCEPT !.loop = "waiting", !.asked = k]
  <2>1. h \in Hub
    BY DEF Shape
  <2>2. Continued(h) = r
    BY <1>2, <2>1 DEF Continued, Hub
  <2> HIDE DEF k
  <2>3. SameRing(r, h) /\ r.loop = "waiting" /\ r.state = h.state
    BY <2>1 DEF Hub, SameRing
  <2> HIDE DEF r
  <2>4. Truthful(r) /\ Reader(r)
    BY <2>3 DEF Truthful, Reader, SameRing
  <2> QED BY <2>2, <2>3, <2>4, KeptSame DEF Plain
<1> QED BY <1>1, <1>2

\* A new viewer finds a loop or starts it.
LEMMA JoinedPlain ==
  ASSUME NEW h, Shape(h), NEW n, Plain(h, n), NEW c \in Channels, NEW v \in Viewers
  PROVE  Plain(Joined(h, c, v), n)
<1> DEFINE j == [h EXCEPT !.viewers = h.viewers \cup {v}, !.stopped = FALSE]
           k == [j.asked EXCEPT ![None] = pane[c]]
           s == [j EXCEPT !.state = "attaching", !.loop = "observing", !.stopped = FALSE,
                          !.asked = k]
<1>1. h \in Hub /\ h.viewers \subseteq Viewers /\ Kept(h, n) /\ Truthful(h) /\ Reader(h)
      /\ h.pollTimer = None
  BY HubFields DEF Shape, Plain, Kept, NoPoll
<1>2. j \in Hub /\ SameRing(j, h) /\ j.loop = h.loop /\ j.state = h.state /\ j.asked = h.asked
  BY <1>1 DEF Hub, SameRing
<1>3. Joined(h, c, v) = IF h.loop = "off" THEN StartLoop(j, c) ELSE j
  BY <1>1 DEF Joined, Hub
<1> HIDE DEF j
<1>4. CASE h.loop = "off"
  <2>1. Joined(h, c, v) = s
    BY <1>2, <1>3, <1>4 DEF StartLoop, Hub
  <2> HIDE DEF k
  <2>2. SameRing(s, j) /\ s.loop = "observing" /\ s.state = "attaching"
    BY <1>2 DEF Hub, SameRing
  <2> HIDE DEF s
  <2>3. SameRing(s, h)
    BY <1>2, <2>2 DEF SameRing
  <2>4. Truthful(s) /\ Reader(s)
    BY <2>2 DEF Truthful, Reader
  <2> QED BY <1>1, <2>1, <2>3, <2>4, KeptSame DEF Plain
<1>5. CASE h.loop # "off"
  <2>1. Truthful(j) /\ Reader(j)
    BY <1>1, <1>2, <1>5 DEF Truthful, Reader, SameRing
  <2> QED BY <1>1, <1>2, <1>3, <1>5, <2>1, KeptSame DEF Plain
<1> QED BY <1>4, <1>5

\* A viewer leaves.
LEMMA LeftPlain ==
  ASSUME NEW h, Shape(h), NEW n, Plain(h, n), NEW v \in Viewers
  PROVE  Plain(Left(h, v), n)
<1> DEFINE l == [h EXCEPT !.viewers = h.viewers \ {v}]
           x == IF h.loop = "off" /\ h.state \in {"live", "polling", "attaching"}
                THEN "idle" ELSE l.state
           r == [l EXCEPT !.stopped = TRUE, !.state = x]
<1>1. h \in Hub /\ Kept(h, n) /\ Truthful(h) /\ Reader(h)
  BY DEF Shape, Plain
<1>2. /\ l \in Hub /\ SameRing(l, h) /\ l.loop = h.loop /\ l.state = h.state
      /\ l.asked = h.asked /\ (l.viewers # {} => h.viewers # {})
  BY <1>1 DEF Hub, SameRing
<1>3. Disarm(l) = l
  <2>1. NoPoll(l)
    BY <1>1, <1>2 DEF Kept, NoPoll, SameRing
  <2> QED BY <2>1, DisarmPlain
<1>4. Left(h, v) = IF l.viewers # {} THEN l ELSE r
  <2>1. Left(h, v) = IF l.viewers # {} THEN l
                     ELSE [Disarm(l) EXCEPT !.stopped = TRUE,
                             !.state = IF h.loop = "off" /\ h.state \in {"live", "polling", "attaching"}
                                       THEN "idle" ELSE @]
    BY <1>1 DEF Left, Hub
  <2> HIDE DEF l
  <2> QED BY <1>2, <1>3, <2>1 DEF Hub
<1> HIDE DEF l
<1>5. CASE l.viewers # {}
  <2>1. Truthful(l) /\ Reader(l)
    BY <1>1, <1>2, <1>5 DEF Truthful, Reader, SameRing
  <2> QED BY <1>1, <1>2, <1>4, <1>5, <2>1, KeptSame DEF Plain
<1>6. CASE l.viewers = {}
  <2>1. h.loop # "off" => x = h.state
    BY <1>2
  <2> HIDE DEF x
  <2>2. /\ SameRing(r, l) /\ r.loop = l.loop /\ r.state = x /\ r.asked = l.asked
        /\ r.viewers = {}
    BY <1>2, <1>6 DEF Hub, SameRing
  <2> HIDE DEF r
  <2>3. SameRing(r, h)
    BY <1>2, <2>2 DEF SameRing
  <2>4. Truthful(r) /\ Reader(r)
    BY <1>1, <1>2, <2>1, <2>2, <2>3 DEF Truthful, Reader, SameRing
  <2> QED BY <1>1, <1>4, <1>6, <2>3, <2>4, KeptSame DEF Plain
<1> QED BY <1>5, <1>6

\* A send: a user turn tells of all that has been read.
LEMMA RecordedPlain ==
  ASSUME NEW h, Shape(h), NEW n \in Nat, Plain(h, n), NEW kind \in {"user_turn", "control"}
  PROVE  Plain(Recorded(h, kind), n)
<1> DEFINE e == [kind |-> kind, n |-> h.lastRead]
           s == Append(h.shown, e)
           b == IF kind = "user_turn" THEN 0 ELSE h.block
           r == [h EXCEPT !.shown = s, !.block = b]
<1>1. /\ h \in Hub /\ h.lastRead \in Nat /\ h.shown \in Seq(Entry) /\ h.block \in Nat
      /\ h.block <= Len(h.shown)
      /\ NoPoll(h) /\ InTurns(h.shown, h.lastRead)
      /\ h.block # 0 => TurnsWithin(h.shown, h.block)
  BY HubFields DEF Shape, Plain, Kept
<1>2. e \in Entry /\ e.kind = kind /\ e.n = h.lastRead
  BY <1>1 DEF Entry
<1> HIDE DEF e
<1>3. /\ Len(h.shown) \in Nat /\ DOMAIN h.shown = 1..Len(h.shown)
      /\ DOMAIN s = 1..(Len(h.shown) + 1) /\ s[Len(h.shown) + 1] = e
      /\ \A i \in 1..Len(h.shown) : s[i] = h.shown[i]
  BY <1>1, <1>2, AppendProperties
<1>5. Recorded(h, kind) = r
  BY <1>1 DEF Recorded, Hub, e
<1> HIDE DEF s
<1>4. ASSUME NEW i \in DOMAIN s
      PROVE  \/ i \in DOMAIN h.shown /\ s[i] = h.shown[i] /\ i <= Len(h.shown)
             \/ i = Len(h.shown) + 1 /\ s[i] = e
  BY <1>3
<1>6. InTurns(s, h.lastRead)
  <2>1. ASSUME NEW i \in DOMAIN s, s[i].kind \in {"line", "user_turn"} PROVE s[i].n <= h.lastRead
    BY <1>1, <1>2, <1>4, <2>1 DEF InTurns
  <2>2. ASSUME NEW i \in DOMAIN s, NEW j \in DOMAIN s,
               s[i].kind = "user_turn", s[j].kind = "line"
        PROVE  j < i <=> s[j].n <= s[i].n
    <3>1. j \in DOMAIN h.shown /\ s[j] = h.shown[j] /\ j <= Len(h.shown)
      BY <1>2, <1>4, <2>2
    <3>2. CASE i \in DOMAIN h.shown /\ s[i] = h.shown[i]
      BY <1>1, <2>2, <3>1, <3>2 DEF InTurns
    <3>3. CASE i = Len(h.shown) + 1 /\ s[i] = e
      <4>1. s[j].n <= h.lastRead
        BY <2>1, <2>2
      <4>2. j \in Nat /\ j < i
        BY <1>3, <3>1, <3>3
      <4> QED BY <1>2, <3>3, <4>1, <4>2
    <3> QED BY <1>4, <3>2, <3>3
  <2>3. LinesExactly(s, h.lastRead)
    <3>1. LinesExactly(h.shown, h.lastRead) BY <1>1 DEF InTurns
    <3>2. ASSUME NEW i \in DOMAIN s, s[i].kind = "line"
          PROVE  i \in DOMAIN h.shown /\ s[i] = h.shown[i]
      BY <1>2, <1>4, <3>2
    <3>3. \A i \in DOMAIN h.shown : i \in DOMAIN s /\ s[i] = h.shown[i] BY <1>3
    <3>4. \A i \in DOMAIN s : s[i].kind = "line" => s[i].n \in 1..h.lastRead
      BY <3>1, <3>2 DEF LinesExactly
    <3>5. \A l \in 1..h.lastRead : \E i \in DOMAIN s : s[i] = [kind |-> "line", n |-> l]
      <4> TAKE l \in 1..h.lastRead
      <4>1. PICK i \in DOMAIN h.shown : h.shown[i] = [kind |-> "line", n |-> l]
        BY <3>1 DEF LinesExactly
      <4> QED BY <3>3, <4>1
    <3>6. \A i, j \in DOMAIN s :
            s[i].kind = "line" /\ s[j].kind = "line" => (i < j <=> s[i].n < s[j].n)
      BY <3>1, <3>2 DEF LinesExactly
    <3> QED BY <3>4, <3>5, <3>6 DEF LinesExactly
  <2> QED BY <2>1, <2>2, <2>3 DEF InTurns
<1>7. b # 0 => TurnsWithin(s, b)
  <2> SUFFICES ASSUME b # 0, NEW i \in DOMAIN s, s[i].kind \in {"line", "user_turn"}
               PROVE  i <= b
    BY DEF TurnsWithin
  <2>1. kind = "control" /\ b = h.block
    OBVIOUS
  <2>2. i \in DOMAIN h.shown /\ s[i] = h.shown[i]
    BY <1>2, <1>4, <2>1
  <2> QED BY <1>1, <2>1, <2>2 DEF TurnsWithin
<1> HIDE DEF b
<1>8. /\ r.shown = s /\ r.block = b /\ r.pollTimer = h.pollTimer /\ r.poll = h.poll
      /\ r.lastRead = h.lastRead /\ r.attachedOnce = h.attachedOnce
      /\ r.loop = h.loop /\ r.state = h.state /\ r.viewers = h.viewers /\ r.asked = h.asked
  BY <1>1 DEF Hub
<1> HIDE DEF r
<1>9. Kept(r, n)
  <2>1. h.lastRead <= n /\ (~h.attachedOnce => h.lastRead = 0 /\ h.block = 0)
    BY DEF Plain, Kept
  <2>2. h.block = 0 => b = 0 BY DEF b
  <2>3. NoPoll(r) /\ InTurns(r.shown, r.lastRead) /\ (r.block # 0 => TurnsWithin(r.shown, r.block))
    BY <1>1, <1>6, <1>7, <1>8 DEF NoPoll
  <2> QED BY <1>8, <2>1, <2>2, <2>3 DEF Kept
<1>10. Truthful(r) /\ Reader(r)
  BY <1>8 DEF Plain, Truthful, Reader
<1> QED BY <1>5, <1>9, <1>10 DEF Plain
-----------------------------------------------------------------------------
(* The steps.                                                              *)

\* A step that leaves such a record in the place of one.
LEMMA PlainStep ==
  ASSUME HubInv, PlainHub, NEW c \in Channels, NEW h, Plain(h, pane[c]),
         hub' = [hub EXCEPT ![c] = h], UNCHANGED pane
  PROVE  PlainHub'
<1> SUFFICES ASSUME NEW d \in Channels PROVE Plain(hub'[d], pane'[d])
  BY DEF PlainHub, Plain, Kept, NoPoll, Truthful, Reader
<1>1. hub'[d] = IF d = c THEN h ELSE hub[d]
  BY Ours
<1> QED BY <1>1 DEF PlainHub

\* What every step may use of the record of c.
LEMMA OursPlain ==
  ASSUME HubInv, PlainHub, NEW c \in Channels
  PROVE  /\ Plain(hub[c], pane[c]) /\ Kept(hub[c], pane[c]) /\ Truthful(hub[c]) /\ Reader(hub[c])
         /\ hub[c].loop # "off" => hub[c].state \in {"live", "attaching"}
         /\ hub[c].viewers # {} => ~hub[c].stopped
         /\ Shape(Ensured(c)) /\ Plain(Ensured(c), pane[c])
<1>1. Plain(hub[c], pane[c])
  BY DEF PlainHub
<1>2. Plain(Ensured(c), pane[c])
  BY <1>1, Ours, FreshPlain DEF Ensured
<1> QED BY <1>1, <1>2, Ours, EnsuredOK DEF Plain, Truthful, Manned

\* A viewer comes or leaves.
LEMMA ViewerPlain ==
  ASSUME HubInv, PlainHub, NEW c \in Channels, NEW v \in Viewers,
         AddViewer(c, v) \/ RemoveViewer(c, v)
  PROVE  PlainHub'
<1>1. CASE AddViewer(c, v)
  <2> DEFINE e == Ensured(c)
             h == IF e.viewers = {} /\ Cardinality(Observed) >= MaxObserved THEN e
                  ELSE Joined(e, c, v)
  <2>1. hub' = [hub EXCEPT ![c] = h] /\ UNCHANGED pane
    BY <1>1 DEF AddViewer
  <2>2. Plain(h, pane[c])
    BY OursPlain, JoinedPlain
  <2> HIDE DEF e, h
  <2> QED BY <2>1, <2>2, PlainStep
<1>2. CASE RemoveViewer(c, v)
  <2> DEFINE h == Left(hub[c], v)
  <2>1. hub' = [hub EXCEPT ![c] = h] /\ UNCHANGED pane
    BY <1>2, Ours DEF RemoveViewer
  <2>2. Plain(h, pane[c])
    BY Ours, OursPlain, LeftPlain
  <2> HIDE DEF h
  <2> QED BY <2>1, <2>2, PlainStep
<1> QED BY <1>1, <1>2

\* A send is recorded.
LEMMA SendPlain ==
  ASSUME HubInv, PlainHub, NEW c \in Channels, NEW kind \in {"user_turn", "control"},
         RecordConsoleEvent(c, kind)
  PROVE  PlainHub'
<1> DEFINE h == Recorded(Ensured(c), kind)
<1>1. hub' = [hub EXCEPT ![c] = h] /\ UNCHANGED pane
  BY DEF RecordConsoleEvent
<1>2. Plain(h, pane[c])
  BY Ours, OursPlain, RecordedPlain
<1> HIDE DEF h
<1> QED BY <1>1, <1>2, PlainStep

\* A snapshot makes the record.
LEMMA SnapshotPlain ==
  ASSUME HubInv, PlainHub, NEW c \in Channels, Snapshot(c)
  PROVE  PlainHub'
<1>1. hub' = [hub EXCEPT ![c] = Ensured(c)] /\ UNCHANGED pane
  BY DEF Snapshot
<1> QED BY <1>1, OursPlain, PlainStep

\* The hub closes.
LEMMA ClosePlain ==
  ASSUME HubInv, PlainHub, Close
  PROVE  PlainHub'
<1> SUFFICES ASSUME NEW d \in Channels PROVE Plain(hub'[d], pane'[d])
  BY DEF PlainHub, Plain, Kept, NoPoll, Truthful, Reader
<1> DEFINE h == hub[d]
           g == [h EXCEPT !.stopped = TRUE, !.viewers = {}]
<1>1. h \in Hub /\ Kept(h, pane[d]) /\ Truthful(h) /\ Reader(h) /\ Plain(h, pane[d])
  BY Ours, OursPlain
<1>2. Disarm(h) = h
  BY <1>1, DisarmPlain DEF Kept
<1>3. hub'[d] = (IF d \in Known THEN g ELSE h) /\ pane' = pane
  <2>1. hub'[d] = IF d \in Known THEN [Disarm(h) EXCEPT !.stopped = TRUE, !.viewers = {}] ELSE h
    BY DEF Close
  <2> HIDE DEF h
  <2> QED BY <1>2, <2>1 DEF Close
<1> HIDE DEF h
<1>4. /\ SameRing(g, h) /\ g.loop = h.loop /\ g.state = h.state /\ g.asked = h.asked
      /\ g.viewers = {}
  BY <1>1 DEF Hub, SameRing
<1> HIDE DEF g
<1>5. Truthful(g) /\ Reader(g)
  BY <1>1, <1>4 DEF Truthful, Reader, SameRing
<1>6. Plain(g, pane[d])
  BY <1>1, <1>4, <1>5, KeptSame DEF Plain
<1> QED BY <1>1, <1>3, <1>6

\* The loop makes a call at the record h, which differs from that of c in what
\* the call needs.
LEMMA CallPlain ==
  ASSUME HubInv, PlainHub, NEW c \in Channels, NEW x,
         NEW next \in {"attaching", "idle", "activity"}, hub[c].loop # "off",
         next # "attaching" => hub[c].attachedOnce,
         LoopGets(c, [hub[c] EXCEPT !.cursor = x, !.loop = next, !.asked[None] = pane[c]])
  PROVE  PlainHub'
<1> DEFINE k == [hub[c].asked EXCEPT ![None] = pane[c]]
           h == [hub[c] EXCEPT !.cursor = x, !.loop = next, !.asked = k]
<1>1. hub[c] \in Hub /\ hub[c].asked \in [Polls \cup {None} -> Nat]
  BY Ours, HubFields
<1>2. k[None] = pane[c]
  BY <1>1
<1>3. hub' = [hub EXCEPT ![c] = h] /\ UNCHANGED pane
  BY <1>1 DEF LoopGets, Hub
<1> HIDE DEF k
<1>4. /\ SameRing(h, hub[c]) /\ h.loop = next /\ h.state = hub[c].state /\ h.asked = k
  BY <1>1 DEF Hub, SameRing
<1> HIDE DEF h
<1>5. Kept(hub[c], pane[c]) /\ hub[c].state \in {"live", "attaching"}
      /\ hub[c].lastRead <= pane[c]
  BY OursPlain DEF Kept
<1>6. Truthful(h) /\ Reader(h)
  BY <1>2, <1>4, <1>5 DEF Truthful, Reader, SameRing
<1>7. Plain(h, pane[c])
  BY <1>4, <1>5, <1>6, KeptSame DEF Plain
<1> QED BY <1>3, <1>7, PlainStep

\* get_channel has answered.
LEMMA ObservesPlain ==
  ASSUME HubInv, PlainHub, NEW c \in Channels, Observes(c)
  PROVE  PlainHub'
<1>1. PICK n \in Reads(c, None) :
        LoopGets(c, [hub[c] EXCEPT !.cursor = n, !.loop = "attaching", !.asked[None] = pane[c]])
  BY DEF Observes
<1>2. hub[c].loop # "off"
  BY DEF Observes
<1> QED BY <1>1, <1>2, CallPlain

\* What a read of the loop may answer is no older than the last read.
LEMMA ReadsPlain ==
  ASSUME HubInv, PlainHub, NEW c \in Channels, NEW m \in Reads(c, None),
         hub[c].loop \in {"attaching", "idle", "activity"}
  PROVE  m \in Nat /\ hub[c].lastRead <= m /\ m <= pane[c] /\ pane[c] \in Nat
<1>1. /\ hub[c].lastRead <= hub[c].asked[None] /\ hub[c].asked[None] \in Nat
      /\ hub[c].lastRead \in Nat /\ pane[c] \in Nat
  BY Ours, OursPlain, HubFields DEF Reader
<1> QED BY <1>1 DEF Reads

\* The record after a read, with the state x.
LEMMA AfterReadPlain ==
  ASSUME HubInv, PlainHub, NEW c \in Channels, hub[c].loop # "off",
         NEW p, Shape(p), NoPoll(p), NEW m \in Nat, p.lastRead = m, m <= pane[c],
         InTurns(p.shown, m), p.block # 0 => TurnsWithin(p.shown, p.block),
         p.viewers = hub[c].viewers, p.stopped = hub[c].stopped, p.attachedOnce,
         p.state \in {"live", "attaching"}, LoopGets(c, Continued(p))
  PROVE  PlainHub'
<1>1. Kept(p, pane[c])
  BY DEF Kept
<1>2. p.viewers # {} => ~p.stopped
  BY OursPlain
<1>3. Plain(Continued(p), pane[c])
  BY <1>1, <1>2, ContinuedPlain
<1> QED BY <1>3, PlainStep DEF LoopGets

\* The loop has attached.
LEMMA FirstReadPlain ==
  ASSUME HubInv, PlainHub, NEW c \in Channels, FirstRead(c)
  PROVE  PlainHub'
<1> DEFINE mode == IF hub[c].attachedOnce THEN "output" ELSE "earlier"
<1>1. PICK m \in Reads(c, None) :
        LoopGets(c, Continued([Pull(hub[c], mode, m) EXCEPT
                                 !.attachedOnce = TRUE, !.state = "live"]))
  BY DEF FirstRead
<1> DEFINE p == Pull(hub[c], mode, m)
           h == [p EXCEPT !.attachedOnce = TRUE, !.state = "live"]
<1>2. m \in Nat /\ hub[c].lastRead <= m /\ m <= pane[c] /\ pane[c] \in Nat
  BY ReadsPlain DEF FirstRead
<1>3. \/ mode = "output" /\ hub[c].attachedOnce
      \/ mode = "earlier" /\ ~hub[c].attachedOnce
  OBVIOUS
<1>4. LoopGets(c, Continued(h)) /\ hub[c].loop # "off"
  BY <1>1 DEF FirstRead
<1> HIDE DEF mode
<1>5. Shape(p) /\ p \in Hub /\ p.viewers = hub[c].viewers /\ p.stopped = hub[c].stopped
  BY <1>2, <1>3, Ours, PullOK DEF Shape
<1>6. /\ NoPoll(p) /\ p.lastRead = m
      /\ InTurns(p.shown, m) /\ (p.block # 0 => TurnsWithin(p.shown, p.block))
  BY <1>2, <1>3, Ours, OursPlain, PullPlain
<1> HIDE DEF p
<1>7. /\ h \in Hub /\ h.viewers = p.viewers /\ h.stopped = p.stopped /\ h.poll = p.poll
      /\ h.pollTimer = p.pollTimer /\ h.block = p.block /\ h.shown = p.shown
      /\ h.lastRead = p.lastRead /\ h.attachedOnce = TRUE /\ h.state = "live"
  BY <1>5 DEF Hub, States
<1> HIDE DEF h
<1>8. Shape(h) /\ NoPoll(h)
  BY <1>5, <1>6, <1>7 DEF Shape, NoPoll
<1> QED BY <1>2, <1>4, <1>5, <1>6, <1>7, <1>8, AfterReadPlain

\* The loop has read the tail after an event.
LEMMA EventReadPlain ==
  ASSUME HubInv, PlainHub, NEW c \in Channels, EventRead(c)
  PROVE  PlainHub'
<1>1. PICK m \in Reads(c, None) : LoopGets(c, Continued(Pull(hub[c], "output", m)))
  BY DEF EventRead
<1> DEFINE p == Pull(hub[c], "output", m)
<1>2. m \in Nat /\ hub[c].lastRead <= m /\ m <= pane[c] /\ pane[c] \in Nat
  BY ReadsPlain DEF EventRead
<1>3. hub[c].attachedOnce /\ hub[c].state \in {"live", "attaching"} /\ hub[c].loop # "off"
  BY OursPlain DEF EventRead, Reader
<1>4. LoopGets(c, Continued(p))
  BY <1>1
<1>5. /\ Shape(p) /\ p.viewers = hub[c].viewers /\ p.stopped = hub[c].stopped
      /\ p.state = hub[c].state
  BY <1>2, Ours, PullOK
<1>6. /\ NoPoll(p) /\ p.lastRead = m /\ p.attachedOnce = hub[c].attachedOnce
      /\ InTurns(p.shown, m) /\ (p.block # 0 => TurnsWithin(p.shown, p.block))
  BY <1>2, <1>3, Ours, OursPlain, PullPlain
<1> HIDE DEF p
<1> QED BY <1>2, <1>3, <1>4, <1>5, <1>6, AfterReadPlain

\* The wait of the loop is answered.
LEMMA WaitPlain ==
  ASSUME HubInv, PlainHub, NEW c \in Channels,
         WaitIdle(c) \/ WaitActive(c) \/ WaitTimeout(c) \/ WaitClosed(c)
  PROVE  PlainHub'
<1>0. /\ hub[c].loop = "waiting" /\ hub[c] \in Hub /\ Shape(hub[c]) /\ Kept(hub[c], pane[c])
      /\ hub[c].attachedOnce /\ hub[c].state \in {"live", "attaching"}
      /\ (hub[c].viewers # {} => ~hub[c].stopped)
  BY Ours, OursPlain DEF WaitIdle, WaitActive, WaitTimeout, WaitClosed, Reader
<1>1. ASSUME ~Watched(hub[c]), LoopGets(c, Ended(hub[c])) PROVE PlainHub'
  <2>1. Plain(Ended(hub[c]), pane[c])
    BY <1>0, <1>1, EndedPlain DEF Watched
  <2> QED BY <1>1, <2>1, PlainStep DEF LoopGets
<1>2. CASE WaitIdle(c)
  <2>1. PICK n \in (hub[c].cursor + 1)..pane[c] :
          LoopGets(c, IF Watched(hub[c])
                      THEN [hub[c] EXCEPT !.cursor = n, !.loop = "idle", !.asked[None] = pane[c]]
                      ELSE Ended(hub[c]))
    BY <1>2 DEF WaitIdle
  <2>2. CASE Watched(hub[c])
    BY <1>0, <2>1, <2>2, CallPlain
  <2> QED BY <1>1, <2>1, <2>2
<1>3. CASE WaitActive(c)
  <2>1. [hub[c] EXCEPT !.loop = "activity", !.asked[None] = pane[c]]
          = [hub[c] EXCEPT !.cursor = hub[c].cursor, !.loop = "activity", !.asked[None] = pane[c]]
    BY <1>0 DEF Hub
  <2>2. CASE Watched(hub[c])
    <3>1. LoopGets(c, [hub[c] EXCEPT !.cursor = hub[c].cursor, !.loop = "activity",
                                     !.asked[None] = pane[c]])
      BY <1>3, <2>1, <2>2 DEF WaitActive
    <3> QED BY <1>0, <3>1, CallPlain
  <2> QED BY <1>1, <1>3, <2>2 DEF WaitActive
<1>4. CASE WaitTimeout(c)
  <2>1. Plain(Continued(hub[c]), pane[c])
    BY <1>0, ContinuedPlain
  <2> QED BY <1>4, <2>1, PlainStep DEF WaitTimeout, LoopGets
<1>5. CASE WaitClosed(c)
  <2>1. CASE ~Watched(hub[c])
    BY <1>1, <1>5, <2>1 DEF WaitClosed
  <2>2. CASE Watched(hub[c])
    <3> DEFINE h == [hub[c] EXCEPT !.state = "closed"]
    <3>1. "closed" \in States
      BY DEF States
    <3>2. Shape(h) /\ h.state = "closed" /\ SameRing(h, hub[c])
      BY <1>0, <3>1, StateSet DEF SameRing, Hub
    <3>3. LoopGets(c, Ended(h))
      BY <1>5, <2>2 DEF WaitClosed
    <3> HIDE DEF h
    <3>4. Plain(Ended(h), pane[c])
      BY <1>0, <3>2, KeptSame, EndedPlain
    <3> QED BY <3>3, <3>4, PlainStep DEF LoopGets
  <2> QED BY <2>1, <2>2
<1> QED BY <1>2, <1>3, <1>4, <1>5

\* A call of the loop fails, but not so that the tail would be polled.
LEMMA LoopFailsPlain ==
  ASSUME HubInv, PlainHub, NEW c \in Channels, NEW code \in Codes, code # "polling",
         LoopFails(c, code)
  PROVE  PlainHub'
<1> DEFINE h == IF hub[c].stopped THEN hub[c] ELSE Failing(hub[c], code)
<1>1. LoopGets(c, Ended(h))
  BY DEF LoopFails
<1>2. /\ hub[c] \in Hub /\ Shape(hub[c]) /\ Kept(hub[c], pane[c])
      /\ (hub[c].viewers # {} => ~hub[c].stopped)
  BY Ours, OursPlain
<1>3. Disarm(hub[c]) = hub[c]
  BY <1>2, DisarmPlain DEF Kept
<1>4. Shape(h) /\ Kept(h, pane[c]) /\ (h.viewers # {} => h.state \notin {"live", "attaching"})
  <2>1. CASE hub[c].stopped
    BY <1>2, <2>1
  <2>2. CASE ~hub[c].stopped
    <3>1. PICK x \in {"needs_reobserve", "error"} : h = [hub[c] EXCEPT !.state = x]
      BY <1>3, <2>2, HubCodes DEF Failing
    <3>2. x \in States
      BY DEF States
    <3> HIDE DEF h
    <3>3. Shape(h) /\ h.state = x /\ SameRing(h, hub[c])
      BY <1>2, <3>1, <3>2, StateSet DEF SameRing, Hub
    <3> QED BY <1>2, <3>3, KeptSame
  <2> QED BY <2>1, <2>2
<1> HIDE DEF h
<1>5. Plain(Ended(h), pane[c])
  BY <1>4, EndedPlain
<1> QED BY <1>1, <1>5, PlainStep DEF LoopGets

\* The pane grows.
LEMMA OutputPlain ==
  ASSUME HubInv, PlainHub, NEW c \in Channels, Output(c)
  PROVE  PlainHub'
<1> SUFFICES ASSUME NEW d \in Channels PROVE Plain(hub'[d], pane'[d])
  BY DEF PlainHub, Plain, Kept, NoPoll, Truthful, Reader
<1>1. hub' = hub /\ pane[d] \in Nat /\ pane'[d] \in Nat /\ pane[d] <= pane'[d]
  BY Ours DEF Output
<1>2. Plain(hub[d], pane[d]) /\ hub[d].lastRead \in Nat
  BY Ours, OursPlain, HubFields
<1> QED BY <1>1, <1>2 DEF Plain, Kept

\* No poll is there to fire or to be answered.
LEMMA NoTick ==
  ASSUME HubInv, PlainHub, NEW c \in Channels, NEW p \in Polls
  PROVE  ~TimerFires(c, p) /\ ~TickAnswers(c, p)
<1>1. hub[c].poll[p] = "off"
  BY OursPlain DEF Kept, NoPoll
<1> QED BY <1>1 DEF TimerFires, TickAnswers, TickReads, TickFails

\* Where no call fails so that the tail would be polled, every step keeps the
\* records so.
LEMMA PlainInductive ==
  ASSUME "polling" \notin Codes, HubInv, PlainHub, [Next]_vars
  PROVE  PlainHub'
<1>1. CASE UNCHANGED vars
  BY <1>1 DEF vars, PlainHub, Plain, Kept, NoPoll, Truthful, Reader
<1>2. CASE Close
  BY <1>2, ClosePlain
<1>3. ASSUME NEW c \in Channels, NEW v \in Viewers, AddViewer(c, v) \/ RemoveViewer(c, v)
      PROVE  PlainHub'
  BY <1>3, ViewerPlain
<1>4. ASSUME NEW c \in Channels, Snapshot(c) \/ Output(c)
      PROVE  PlainHub'
  BY <1>4, SnapshotPlain, OutputPlain
<1>5. ASSUME NEW c \in Channels, NEW kind \in {"user_turn", "control"}, RecordConsoleEvent(c, kind)
      PROVE  PlainHub'
  BY <1>5, SendPlain
<1>6. ASSUME NEW c \in Channels, LoopAnswers(c)
      PROVE  PlainHub'
  BY <1>6, ObservesPlain, FirstReadPlain, EventReadPlain, WaitPlain, LoopFailsPlain DEF LoopAnswers
<1>7. ASSUME NEW c \in Channels, NEW p \in Polls, TimerFires(c, p) \/ TickAnswers(c, p)
      PROVE  PlainHub'
  BY <1>7, NoTick
<1> QED BY <1>1, <1>2, <1>3, <1>4, <1>5, <1>6, <1>7 DEF Next

\* The hub starts so.
LEMMA PlainInitial == Init => PlainHub
<1> SUFFICES ASSUME Init, NEW c \in Channels PROVE Plain(hub[c], pane[c])
  BY DEF PlainHub
<1>1. hub[c] = FreshHub /\ pane[c] = 0
  BY DEF Init
<1> QED BY <1>1, FreshPlain

\* Where waiting always works the viewers are told the truth: a Channel that is
\* said to be live has a loop, an interrupted one is not polled (setState, the
\* finally of runLoop), for any number of Channels and viewers.
THEOREM StatesAreHonest ==
  ASSUME "polling" \notin Codes
  PROVE  Spec => []StateHonest
<1>1. PlainHub => StateHonest
  BY PlainImplies
<1>2. HubInv /\ PlainHub /\ [Next]_vars => PlainHub'
  BY PlainInductive
<1> QED BY <1>1, <1>2, PlainInitial, HubInitial, HubInductive, PTL DEF Spec

\* There every user turn has before it the lines that had been read when it was
\* recorded and behind it those that were read later (recordConsoleEvent), for
\* any number of sends, reads and viewers.
THEOREM TurnsAreBounds ==
  ASSUME "polling" \notin Codes
  PROVE  Spec => []TurnsBound
<1>1. PlainHub => TurnsBound
  BY PlainImplies
<1>2. HubInv /\ PlainHub /\ [Next]_vars => PlainHub'
  BY PlainInductive
<1> QED BY <1>1, <1>2, PlainInitial, HubInitial, HubInductive, PTL DEF Spec

\* There the ring shows every line that has been read exactly once and in order,
\* whatever viewers, sends, restarts of the loop and failing calls come in
\* between (pull, attachedOnce, currentBlock).
THEOREM TranscriptsAreExact ==
  ASSUME "polling" \notin Codes
  PROVE  Spec => []TranscriptExact
<1>1. PlainHub => TranscriptExact
  BY PlainImplies
<1>2. HubInv /\ PlainHub /\ [Next]_vars => PlainHub'
  BY PlainInductive
<1> QED BY <1>1, <1>2, PlainInitial, HubInitial, HubInductive, PTL DEF Spec
=============================================================================
