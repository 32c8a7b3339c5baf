-------------------------- MODULE SampleGateProofs --------------------------
(***************************************************************************)
(* Proofs about the sampling gate, for any number of callers, slots and    *)
(* queue entries.  The invariant GateInv adds to the checked properties    *)
(* the shape of the microtask queue: between a release and the end of the  *)
(* releasing caller's continuation it holds at most one resumption, always *)
(* at its head, and the signal of the resumed call has not fired.          *)
(***************************************************************************)
EXTENDS SampleGate, QueueLemmas, FiniteSetTheorems, TLAPS

\* A drained microtask queue, or a return, possibly behind one resumption.
MicroShape ==
  \/ micro = <<>> /\ In("resuming") = {} /\ In("returning") = {}
  \/ \E c \in Calls : /\ micro = <<Return(c)>>
                      /\ In("resuming") = {} /\ In("returning") = {c}
  \/ \E c, h \in Calls : /\ micro = <<Resumption(h), Return(c)>>
                         /\ In("resuming") = {h} /\ In("returning") = {c}

\* The signal of a call that waits for its slot has not fired.
WaitingIsLive == \A c \in Calls : stage[c] \in {"queued", "resuming"} => c \notin aborted

GateInv ==
  /\ TypeOK /\ MicroShape /\ WaitingIsLive
  /\ BatchCap /\ NoLostSlot /\ QueueExact

-----------------------------------------------------------------------------
\* What moving one call to another stage does to the sets of calls per stage.
LEMMA MoveOne ==
  ASSUME stage \in [Calls -> Stages], NEW c \in Calls, NEW t \in Stages,
         stage' = [stage EXCEPT ![c] = t], NEW s \in Stages
  PROVE  In(s)' = IF s = t THEN In(s) \cup {c} ELSE In(s) \ {c}
  BY DEF In

\* The calls at a stage are finitely many.
LEMMA InFinite ==
  ASSUME NEW s
  PROVE  IsFiniteSet(In(s)) /\ Cardinality(In(s)) \in Nat
<1>1. In(s) \in SUBSET Calls
  BY DEF In
<1>2. IsFiniteSet(In(s))
  BY <1>1, CallsAssumption, FS_Subset
<1> QED BY <1>2, FS_CardinalityType

\* The gate starts within the invariant.
THEOREM GateInitial == Init => GateInv
<1> SUFFICES ASSUME Init PROVE GateInv
  OBVIOUS
<1>1. In("running") = {} /\ In("resuming") = {} /\ In("returning") = {} /\ In("queued") = {}
  BY DEF Init, In
<1>2. TypeOK
  BY DEF Init, TypeOK, Stages
<1>3. BatchCap
  BY <1>1, FS_EmptySet, SlotsAssumption DEF Init, BatchCap
<1>4. QueueExact
  BY DEF Init, QueueExact, Range, IsInjective
<1>5. MicroShape /\ WaitingIsLive /\ NoLostSlot
  BY <1>1 DEF Init, MicroShape, WaitingIsLive, NoLostSlot
<1> QED BY <1>2, <1>3, <1>4, <1>5 DEF GateInv

-----------------------------------------------------------------------------
\* A call that finds a free slot.
LEMMA RunNowKeepsInv ==
  ASSUME GateInv, NEW c \in Calls, RunNow(c)
  PROVE  GateInv'
<1> USE DEF GateInv
<1>1. /\ In("running")' = In("running") \cup {c} /\ c \notin In("running")
      /\ In("resuming")' = In("resuming") \ {c} /\ c \notin In("resuming")
      /\ In("returning")' = In("returning") \ {c} /\ c \notin In("returning")
  BY MoveOne DEF RunNow, TypeOK, Stages, In
<1>2. In("resuming")' = In("resuming") /\ In("returning")' = In("returning")
  BY <1>1
<1>3. In("resuming") = {}
  BY DEF RunNow, InScript, MicroShape, Resumption, Return
<1>4. Cardinality(In("running"))' = Cardinality(In("running")) + 1
  BY <1>1, InFinite, FS_AddElement
<1>5. Cardinality(In("resuming")) = 0
  BY <1>3, FS_EmptySet
<1>6. TypeOK'
  BY DEF RunNow, TypeOK, Stages
<1>7. BatchCap'
  BY <1>2, <1>4, <1>5, SlotsAssumption DEF RunNow, BatchCap, TypeOK
<1>8. sampleQueue = <<>>
  BY <1>5, SlotsAssumption DEF RunNow, NoLostSlot, TypeOK
<1>9. NoLostSlot'
  BY <1>8 DEF RunNow, NoLostSlot
<1>10. QueueExact'
  BY DEF RunNow, QueueExact, TypeOK, Stages
<1>11. MicroShape'
  BY <1>2 DEF RunNow, MicroShape
<1>12. WaitingIsLive'
  BY DEF RunNow, WaitingIsLive, TypeOK
<1> QED BY <1>6, <1>7, <1>9, <1>10, <1>11, <1>12

\* A call that joins the queue.
LEMMA EnqueueKeepsInv ==
  ASSUME GateInv, NEW c \in Calls, Enqueue(c)
  PROVE  GateInv'
<1> USE DEF GateInv
<1>1. /\ In("running")' = In("running")
      /\ In("resuming")' = In("resuming") /\ In("returning")' = In("returning")
  BY MoveOne DEF Enqueue, TypeOK, Stages, In
<1>2. TypeOK'
  BY DEF Enqueue, TypeOK, Stages
<1>3. BatchCap'
  BY <1>1 DEF Enqueue, BatchCap
<1>4. NoLostSlot'
  BY <1>1, InFinite, SlotsAssumption DEF Enqueue, NoLostSlot, BatchCap, TypeOK
<1>5. c \notin Range(sampleQueue)
  BY DEF Enqueue, QueueExact
<1>6. /\ Range(sampleQueue') = Range(sampleQueue) \cup {c}
      /\ IsInjective(sampleQueue')
  BY <1>5, AppendRange DEF Enqueue, QueueExact, TypeOK
<1>7. QueueExact'
  BY <1>6 DEF Enqueue, QueueExact, TypeOK
<1>8. MicroShape'
  BY <1>1 DEF Enqueue, MicroShape
<1>9. WaitingIsLive'
  BY DEF Enqueue, WaitingIsLive, TypeOK
<1> QED BY <1>2, <1>3, <1>4, <1>7, <1>8, <1>9

\* The signal of a queued or running call fires.
LEMMA AbortKeepsInv ==
  ASSUME GateInv, NEW c \in Calls, Abort(c)
  PROVE  GateInv'
<1> USE DEF GateInv
<1>1. /\ In("running")' = In("running")
      /\ In("resuming")' = In("resuming") /\ In("returning")' = In("returning")
  BY MoveOne DEF Abort, TypeOK, Stages, In
<1>2. /\ sampleQueue' \in Seq(Calls) /\ IsInjective(sampleQueue')
      /\ \/ stage[c] = "queued" /\ Range(sampleQueue') = Range(sampleQueue) \ {c}
         \/ stage[c] = "running" /\ sampleQueue' = sampleQueue
      /\ sampleQueue' # <<>> => sampleQueue # <<>>
  <2>1. CASE stage[c] = "queued"
    <3>1. PICK i \in DOMAIN sampleQueue :
            sampleQueue[i] = c /\ sampleQueue' = RemoveAt(sampleQueue, i)
      BY <2>1 DEF Abort
    <3>2. i \in 1..Len(sampleQueue) /\ sampleQueue # <<>>
      BY <3>1 DEF TypeOK
    <3> QED BY <2>1, <3>1, <3>2, RemoveAtIsSeq, RemoveAtRange DEF TypeOK, QueueExact
  <2>2. CASE stage[c] = "running"
    BY <2>2 DEF Abort, TypeOK, QueueExact
  <2> QED BY <2>1, <2>2 DEF Abort
<1>3. TypeOK'
  BY <1>2 DEF Abort, TypeOK, Stages
<1>4. BatchCap' /\ NoLostSlot'
  BY <1>1, <1>2 DEF Abort, BatchCap, NoLostSlot
<1>5. QueueExact'
  BY <1>2 DEF Abort, QueueExact, TypeOK
<1>6. MicroShape'
  BY <1>1 DEF Abort, MicroShape
<1>7. WaitingIsLive'
  BY DEF Abort, WaitingIsLive, TypeOK
<1> QED BY <1>3, <1>4, <1>5, <1>6, <1>7

\* The backend answers and nobody is queued: the slot becomes free.
LEMMA CompleteAloneKeepsInv ==
  ASSUME GateInv, NEW c \in Calls, Complete(c), sampleQueue = <<>>
  PROVE  GateInv'
<1> USE DEF GateInv
<1>1. /\ micro = <<>> /\ micro' = <<Return(c)>> /\ UNCHANGED <<sampleQueue, aborted>>
      /\ stage' = [stage EXCEPT ![c] = "returning"] /\ stage[c] = "running"
      /\ activeSamples' = activeSamples - 1
  BY DEF Complete
<1>2. In("resuming") = {} /\ In("returning") = {}
  BY <1>1 DEF MicroShape
<1>3. /\ In("running")' = In("running") \ {c} /\ c \in In("running")
      /\ In("resuming")' = {} /\ In("returning")' = {c}
  BY <1>1, <1>2, MoveOne DEF TypeOK, Stages, In
<1>4. /\ Cardinality(In("running"))' = Cardinality(In("running")) - 1
      /\ Cardinality(In("running")) # 0
  BY <1>3, InFinite, FS_RemoveElement, FS_EmptySet
<1>5. TypeOK'
  <2>1. activeSamples' \in Nat
    BY <1>1, <1>4 DEF TypeOK, BatchCap
  <2>2. micro' \in Seq(Microtasks)
    BY <1>1 DEF Microtasks, Return
  <2> QED BY <1>1, <2>1, <2>2 DEF TypeOK, Stages
<1>6. BatchCap'
  <2>1. Cardinality(In("resuming"))' = 0 /\ Cardinality(In("resuming")) = 0
    BY <1>2, <1>3, FS_EmptySet
  <2> QED BY <1>1, <1>4, <2>1, InFinite, SlotsAssumption DEF BatchCap, TypeOK
<1>7. NoLostSlot'
  BY <1>1 DEF NoLostSlot
<1>8. QueueExact'
  BY <1>1 DEF QueueExact, TypeOK
<1>9. MicroShape'
  BY <1>1, <1>3 DEF MicroShape
<1>10. WaitingIsLive'
  BY <1>1 DEF WaitingIsLive, TypeOK
<1> QED BY <1>5, <1>6, <1>7, <1>8, <1>9, <1>10

\* The backend answers and the oldest queued call is resolved.
LEMMA CompleteHandingOverKeepsInv ==
  ASSUME GateInv, NEW c \in Calls, Complete(c), sampleQueue # <<>>
  PROVE  GateInv'
<1> USE DEF GateInv
<1> DEFINE h == Head(sampleQueue)
<1>1. /\ micro = <<>> /\ micro' = <<Resumption(h), Return(c)>>
      /\ sampleQueue' = Tail(sampleQueue) /\ UNCHANGED aborted
      /\ stage' = [stage EXCEPT ![c] = "returning", ![h] = "resuming"]
      /\ stage[c] = "running" /\ activeSamples' = activeSamples - 1
  BY DEF Complete
<1>2. In("resuming") = {} /\ In("returning") = {}
  BY <1>1 DEF MicroShape
<1>3. /\ h \in Range(sampleQueue) /\ sampleQueue' \in Seq(Calls)
      /\ Range(sampleQueue') = Range(sampleQueue) \ {h} /\ IsInjective(sampleQueue')
  BY <1>1, TailRange DEF TypeOK, QueueExact
<1>4. h \in Calls
  BY HeadTailProperties DEF TypeOK
<1>5. stage[h] = "queued" /\ h # c
  BY <1>1, <1>3, <1>4 DEF QueueExact
<1> HIDE DEF h
<1>6. /\ In("running")' = In("running") \ {c} /\ c \in In("running")
      /\ In("resuming")' = {h} /\ In("returning")' = {c}
  <2>1. stage \in [Calls -> Stages]
    BY DEF TypeOK
  <2>2. /\ In("running")' = In("running") \ {c, h}
        /\ In("returning")' = (In("returning") \cup {c}) \ {h}
        /\ In("resuming")' = (In("resuming") \cup {h}) \ {c}
    BY <1>1, <1>4, <1>5, <2>1 DEF In
  <2>3. c \in In("running") /\ h \notin In("running")
    BY <1>1, <1>4, <1>5 DEF In
  <2> QED BY <1>2, <1>5, <2>2, <2>3
<1>7. /\ Cardinality(In("running"))' = Cardinality(In("running")) - 1
      /\ Cardinality(In("running")) # 0
      /\ Cardinality(In("resuming"))' = 1 /\ Cardinality(In("resuming")) = 0
  <2>1. IsFiniteSet(In("running")) BY InFinite
  <2>2. Cardinality(In("running"))' = Cardinality(In("running")) - 1
    BY <1>6, <2>1, FS_RemoveElement
  <2>3. Cardinality(In("running")) # 0 BY <1>6, <2>1, FS_EmptySet
  <2>4. Cardinality(In("resuming"))' = 1 BY <1>6, FS_Singleton
  <2>5. Cardinality(In("resuming")) = 0 BY <1>2, FS_EmptySet
  <2> QED BY <2>2, <2>3, <2>4, <2>5
<1>8. TypeOK'
  <2>1. activeSamples' \in Nat
    BY <1>1, <1>7 DEF TypeOK, BatchCap
  <2>2. micro' \in Seq(Microtasks)
    BY <1>1, <1>4 DEF Microtasks, Return, Resumption
  <2> QED BY <1>1, <1>3, <1>4, <2>1, <2>2 DEF TypeOK, Stages
<1>9. BatchCap'
  BY <1>1, <1>7, SlotsAssumption DEF BatchCap, TypeOK
<1>10. NoLostSlot'
  BY <1>1, <1>7, SlotsAssumption DEF NoLostSlot, BatchCap, TypeOK
<1>11. QueueExact'
  BY <1>1, <1>3, <1>4, <1>5 DEF QueueExact, TypeOK
<1>12. MicroShape'
  BY <1>1, <1>4, <1>6 DEF MicroShape
<1>13. WaitingIsLive'
  BY <1>1, <1>4, <1>5 DEF WaitingIsLive, TypeOK
<1> QED BY <1>8, <1>9, <1>10, <1>11, <1>12, <1>13

\* A resolved call takes the slot that was handed to it.
LEMMA ResumeTakesSlot ==
  ASSUME GateInv, NEW c \in Calls, Resume(c)
  PROVE  /\ c \notin aborted /\ stage[c] = "resuming"
         /\ stage' = [stage EXCEPT ![c] = "running"]
         /\ activeSamples' = activeSamples + 1
         /\ UNCHANGED <<sampleQueue, aborted>>
         /\ In("resuming") = {c}
         /\ \E r \in Calls : micro' = <<Return(r)>> /\ In("returning") = {r}
<1> USE DEF GateInv
<1>1. PICK r \in Calls : micro = <<Resumption(c), Return(r)>> /\ In("resuming") = {c}
                         /\ In("returning") = {r}
  BY DEF Resume, MicroShape, Resumption, Return
<1>2. stage[c] = "resuming"
  BY <1>1 DEF In
<1>3. micro' = <<Return(r)>>
  BY <1>1 DEF Resume
<1> QED BY <1>1, <1>2, <1>3 DEF Resume, WaitingIsLive

\* A resumed call takes the slot that it was promised.
LEMMA ResumeKeepsInv ==
  ASSUME GateInv, NEW c \in Calls, Resume(c)
  PROVE  GateInv'
<1> USE DEF GateInv
<1>1. /\ c \notin aborted /\ stage[c] = "resuming"
      /\ stage' = [stage EXCEPT ![c] = "running"]
      /\ activeSamples' = activeSamples + 1
      /\ UNCHANGED <<sampleQueue, aborted>>
      /\ In("resuming") = {c}
  BY ResumeTakesSlot
<1>2. PICK r \in Calls : micro' = <<Return(r)>> /\ In("returning") = {r}
  BY ResumeTakesSlot
<1>3. /\ In("running")' = In("running") \cup {c} /\ c \notin In("running")
      /\ In("resuming")' = {} /\ In("returning")' = {r}
  BY <1>1, <1>2, MoveOne DEF TypeOK, Stages, In
<1>4. /\ Cardinality(In("running"))' = Cardinality(In("running")) + 1
      /\ Cardinality(In("resuming"))' = 0 /\ Cardinality(In("resuming")) = 1
  <2>1. Cardinality(In("running"))' = Cardinality(In("running")) + 1
    BY <1>3, InFinite, FS_AddElement
  <2>2. Cardinality(In("resuming"))' = 0 /\ Cardinality(In("resuming")) = 1
    BY <1>1, <1>3, FS_EmptySet, FS_Singleton
  <2> QED BY <2>1, <2>2
<1>5. TypeOK'
  BY <1>1, <1>2 DEF TypeOK, Stages, Microtasks, Return
<1>6. BatchCap' /\ NoLostSlot'
  BY <1>1, <1>4, SlotsAssumption DEF BatchCap, NoLostSlot, TypeOK
<1>7. QueueExact'
  BY <1>1 DEF QueueExact, TypeOK
<1>8. MicroShape'
  BY <1>2, <1>3 DEF MicroShape
<1>9. WaitingIsLive'
  BY <1>1 DEF WaitingIsLive, TypeOK
<1> QED BY <1>5, <1>6, <1>7, <1>8, <1>9

\* The continuation of a caller ends.
LEMMA ReturnedKeepsInv ==
  ASSUME GateInv, NEW c \in Calls, Returned(c)
  PROVE  GateInv'
<1> USE DEF GateInv
<1>1. /\ micro = <<Return(c)>> /\ In("resuming") = {} /\ In("returning") = {c}
  BY DEF Returned, MicroShape, Resumption, Return
<1>2. /\ micro' = <<>> /\ stage' = [stage EXCEPT ![c] = "idle"] /\ stage[c] = "returning"
      /\ UNCHANGED <<activeSamples, sampleQueue, aborted>>
  BY <1>1 DEF Returned, In
<1>3. /\ In("running")' = In("running") /\ In("resuming")' = {} /\ In("returning")' = {}
  BY <1>1, <1>2, MoveOne DEF TypeOK, Stages, In
<1>4. TypeOK'
  BY <1>2 DEF TypeOK, Stages
<1>5. BatchCap' /\ NoLostSlot'
  BY <1>1, <1>2, <1>3 DEF BatchCap, NoLostSlot
<1>6. QueueExact' /\ MicroShape' /\ WaitingIsLive'
  BY <1>2, <1>3 DEF QueueExact, MicroShape, WaitingIsLive, TypeOK
<1> QED BY <1>4, <1>5, <1>6

\* Every step of the gate preserves its invariant.
THEOREM GateInductive == GateInv /\ [Next]_vars => GateInv'
<1> SUFFICES ASSUME GateInv, [Next]_vars PROVE GateInv'
  OBVIOUS
<1>1. CASE UNCHANGED vars
  BY <1>1 DEF vars, GateInv, TypeOK, MicroShape, WaitingIsLive, BatchCap, NoLostSlot,
              QueueExact, In
<1>2. ASSUME NEW c \in Calls, Step(c)
      PROVE  GateInv'
  BY <1>2, RunNowKeepsInv, EnqueueKeepsInv, AbortKeepsInv, CompleteAloneKeepsInv,
     CompleteHandingOverKeepsInv, ResumeKeepsInv, ReturnedKeepsInv DEF Step
<1> QED BY <1>1, <1>2 DEF Next

\* The batches that run are counted exactly and never exceed the cap, no slot
\* is lost while a call waits, and the queue holds the waiting calls exactly,
\* for any number of callers, slots and queue entries.
THEOREM GateSafety == Spec => [](TypeOK /\ BatchCap /\ NoLostSlot /\ QueueExact)
<1>1. GateInv => TypeOK /\ BatchCap /\ NoLostSlot /\ QueueExact
  BY DEF GateInv
<1> QED BY <1>1, GateInitial, GateInductive, PTL DEF Spec

\* The state of the gate is well-formed (withSampleSlot).
THEOREM GateTypes == Spec => []TypeOK
BY GateSafety, PTL

\* No more batches run than there are slots; while a call waits, every slot is
\* taken by a batch that runs or by one to which it has been handed (the finally
\* of withSampleSlot).
THEOREM SlotsNotLost == Spec => []SlotsCounted
<1>1. BatchCap /\ NoLostSlot => SlotsCounted
  BY DEF SlotsCounted
<1> QED BY <1>1, GateSafety, PTL

\* The queue holds exactly the calls that wait, each once (sampleQueue).
THEOREM QueueKept == Spec => []QueueExact
BY GateSafety, PTL

-----------------------------------------------------------------------------
(* Refinement of SlotGate.                                                 *)
holders == In("running") \cup In("resuming")

\* Outside a hand-over only running batches hold slots, and they are counted.
LEMMA HoldersInScript ==
  ASSUME GateInv, InScript
  PROVE  holders = In("running") /\ Cardinality(holders) = activeSamples
<1>1. In("resuming") = {}
  BY DEF GateInv, InScript, MicroShape, Resumption, Return
<1> QED BY <1>1 DEF GateInv, BatchCap, holders

\* The library operators that the contract uses are the gate's own.
LEMMA SameOperators ==
  /\ \A S : Contract!Cardinality(S) = Cardinality(S)
  /\ \A s : Contract!Range(s) = Range(s)
  /\ \A s, i : Contract!RemoveAt(s, i) = RemoveAt(s, i)
<1>1. \A S : Contract!Cardinality(S) = Cardinality(S)
  BY DEF Contract!Cardinality, Cardinality
<1>2. \A s : Contract!Range(s) = Range(s)
  BY DEF Contract!Range, Range
<1>3. \A s, i : Contract!RemoveAt(s, i) = RemoveAt(s, i)
  BY DEF Contract!RemoveAt, RemoveAt
<1> QED BY <1>1, <1>2, <1>3

\* A step of the gate is a step of the contract or leaves its state alone.
LEMMA StepRefines ==
  ASSUME GateInv, NEW c \in Calls, Step(c)
  PROVE  \/ Contract!Enter(c) \/ Contract!Cancel(c) \/ Contract!Leave(c)
         \/ UNCHANGED <<holders, sampleQueue>>
<1> USE DEF GateInv
<1>1. CASE RunNow(c)
  <2>1. /\ holders' = holders \cup {c} /\ c \notin holders
    BY <1>1 DEF RunNow, TypeOK, Stages, In, holders
  <2>2. Cardinality(holders) < Slots /\ c \notin Range(sampleQueue)
    BY <1>1, HoldersInScript DEF RunNow, QueueExact
  <2>3. Contract!Admit(c)
    BY <1>1, <2>1, <2>2, SameOperators DEF RunNow, Contract!Admit, holders
  <2> QED BY <2>1, <2>2, <2>3, SameOperators DEF Contract!Enter, holders
<1>2. CASE Enqueue(c)
  <2>1. /\ holders' = holders /\ c \notin holders
    BY <1>2 DEF Enqueue, TypeOK, Stages, In, holders
  <2>2. Cardinality(holders) = Slots /\ c \notin Range(sampleQueue)
    <3>1. activeSamples <= Slots
      BY InFinite, SlotsAssumption DEF BatchCap, TypeOK
    <3> QED BY <1>2, <3>1, HoldersInScript, SlotsAssumption DEF Enqueue, QueueExact, TypeOK
  <2>3. Contract!Queue(c)
    BY <1>2, <2>1, <2>2, SameOperators DEF Enqueue, Contract!Queue, holders
  <2> QED BY <2>1, <2>2, <2>3, SameOperators DEF Contract!Enter, holders
<1>3. CASE Abort(c)
  <2>1. holders' = holders
    BY <1>3 DEF Abort, TypeOK, Stages, In, holders
  <2> QED BY <1>3, <2>1, SameOperators DEF Abort, Contract!Cancel, holders
<1>4. CASE Complete(c)
  <2>1. c \in holders /\ In("resuming") = {}
    BY <1>4 DEF Complete, In, holders, MicroShape
  <2>2. CASE sampleQueue = <<>>
    <3>1. holders' = holders \ {c} /\ sampleQueue' = sampleQueue
      BY <1>4, <2>2 DEF Complete, TypeOK, Stages, In, holders
    <3> QED BY <2>1, <2>2, <3>1 DEF Contract!Leave, holders
  <2>3. CASE sampleQueue # <<>>
    <3> DEFINE h == Head(sampleQueue)
    <3>1. h \in Calls /\ h \in Range(sampleQueue)
      BY <2>3, HeadTailProperties, TailRange DEF TypeOK, QueueExact
    <3>2. stage[h] = "queued"
      BY <3>1 DEF QueueExact
    <3>3. /\ stage' = [stage EXCEPT ![c] = "returning", ![h] = "resuming"]
          /\ stage[c] = "running" /\ sampleQueue' = Tail(sampleQueue)
      BY <1>4, <2>3 DEF Complete
    <3> HIDE DEF h
    <3>4. holders' = (holders \ {c}) \cup {h}
      BY <2>1, <3>1, <3>2, <3>3 DEF TypeOK, Stages, In, holders
    <3> QED BY <2>1, <2>3, <3>3, <3>4 DEF Contract!Leave, holders, h
  <2> QED BY <2>2, <2>3
<1>5. CASE Resume(c)
  <2>1. holders' = holders /\ sampleQueue' = sampleQueue
    <3>1. /\ stage[c] = "resuming" /\ stage' = [stage EXCEPT ![c] = "running"]
          /\ sampleQueue' = sampleQueue
      BY <1>5, ResumeTakesSlot
    <3> QED BY <3>1 DEF TypeOK, Stages, In, holders
  <2> QED BY <2>1
<1>6. CASE Returned(c)
  <2>1. stage[c] = "returning"
    BY <1>6 DEF Returned, MicroShape, Resumption, Return, In
  <2>2. holders' = holders /\ sampleQueue' = sampleQueue
    BY <1>6, <2>1 DEF Returned, TypeOK, Stages, In, holders
  <2> QED BY <2>2
<1> QED BY <1>1, <1>2, <1>3, <1>4, <1>5, <1>6 DEF Step

\* The microtask-level gate implements the contract: whatever the callers do,
\* a released slot passes to the oldest waiting call in the same step.
THEOREM GateRefinesContract == Spec => ImplementsSlotGate
<1>1. Init => Contract!Init
  BY DEF Init, Contract!Init, In
<1>2. GateInv /\ [Next]_vars => [Contract!Next]_(Contract!gateVars)
  <2> SUFFICES ASSUME GateInv, [Next]_vars
               PROVE  [Contract!Next]_(Contract!gateVars)
    OBVIOUS
  <2>1. CASE UNCHANGED vars
    BY <2>1 DEF vars, Contract!gateVars, In
  <2>2. ASSUME NEW c \in Calls, Step(c)
        PROVE  [Contract!Next]_(Contract!gateVars)
    BY <2>2, StepRefines DEF Contract!Next, Contract!gateVars, holders
  <2> QED BY <2>1, <2>2 DEF Next
<1>3. GateInv /\ [Next]_vars => GateInv'
  BY GateInductive
<1> QED BY <1>1, <1>2, <1>3, GateInitial, PTL DEF Spec, ImplementsSlotGate, Contract!Spec
=============================================================================
