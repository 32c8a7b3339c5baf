----------------------------- MODULE SampleGate -----------------------------
(***************************************************************************)
(* ObservationManager.runSample: the two-slot gate in front of the tmux    *)
(* sampling and validation batches, at the granularity of single           *)
(* microtasks.                                                             *)
(*                                                                         *)
(* The code counts the running batches in activeSamples and resolves the   *)
(* promise of one queued entry when a batch ends.  The resolved entry      *)
(* takes its slot only when its continuation runs: until then the counter  *)
(* says that a slot is free, and what keeps every other caller from taking *)
(* it is the FIFO order of the microtask queue alone.                      *)
(*                                                                         *)
(* A macrotask (a request, an abort, the exit of a backend process) starts *)
(* only when the microtask queue is empty.                                 *)
(***************************************************************************)
EXTENDS Naturals, Sequences, FiniteSets, SequencesExt

CONSTANTS
  Calls,      \* concurrent calls of runSample
  Abortable,  \* the calls that pass an AbortSignal (a waiter's validation)
  Slots,      \* the literal 2 of runSample
  MaxQueue    \* MAX_SAMPLE_QUEUE

ASSUME CallsAssumption == IsFiniteSet(Calls) /\ Abortable \subseteq Calls
ASSUME SlotsAssumption == Slots \in Nat \ {0}
ASSUME MaxQueueAssumption == MaxQueue \in Nat

VARIABLES
  activeSamples,  \* the counter this.activeSamples
  sampleQueue,    \* this.sampleQueue, the calls whose promise is pending
  micro,          \* pending microtasks, each the continuation of a call
  stage,          \* where each call stands
  aborted         \* calls whose AbortSignal has fired

vars == <<activeSamples, sampleQueue, micro, stage, aborted>>

Stages == {"idle", "queued", "resuming", "running", "returning"}
Resumption(c) == [kind |-> "resume", call |-> c]
Return(c) == [kind |-> "return", call |-> c]
Microtasks == [kind : {"resume", "return"}, call : Calls]

In(s) == {c \in Calls : stage[c] = s}

Init ==
  /\ activeSamples = 0
  /\ sampleQueue = <<>>
  /\ micro = <<>>
  /\ stage = [c \in Calls |-> "idle"]
  /\ aborted = {}

\* runSample is called by a macrotask, or by the continuation of a caller
\* whose batch has just ended (an evaluation woken by a sample, say).
InScript == micro # <<>> => Head(micro).kind = "return"

\* A free slot: the batch starts in the caller's own step.
RunNow(c) ==
  /\ InScript /\ stage[c] = "idle"
  /\ activeSamples < Slots
  /\ activeSamples' = activeSamples + 1
  /\ stage' = [stage EXCEPT ![c] = "running"]
  /\ aborted' = aborted \ {c}
  /\ UNCHANGED <<sampleQueue, micro>>

\* No free slot: a queue entry is pushed.  With the queue at its limit the
\* call throws RESOURCE_EXHAUSTED and changes nothing.
Enqueue(c) ==
  /\ InScript /\ stage[c] = "idle"
  /\ activeSamples >= Slots
  /\ Len(sampleQueue) < MaxQueue
  /\ sampleQueue' = Append(sampleQueue, c)
  /\ stage' = [stage EXCEPT ![c] = "queued"]
  /\ aborted' = aborted \ {c}
  /\ UNCHANGED <<activeSamples, micro>>

\* Seeded fault of Abort: the rejected entry stays in the queue.
AbortKeepingEntry(c) ==
  /\ micro = <<>>
  /\ c \in Abortable \ aborted /\ stage[c] \in {"queued", "running"}
  /\ aborted' = aborted \cup {c}
  /\ stage' = [stage EXCEPT ![c] = IF @ = "queued" THEN "idle" ELSE @]
  /\ UNCHANGED <<activeSamples, sampleQueue, micro>>

\* The signal of a caller fires: a queued entry is spliced out and rejected,
\* a running batch keeps its slot until the backend answers.
Abort(c) ==
  /\ micro = <<>>
  /\ c \in Abortable \ aborted /\ stage[c] \in {"queued", "running"}
  /\ aborted' = aborted \cup {c}
  /\ \/ /\ stage[c] = "queued"
        /\ \E i \in DOMAIN sampleQueue :
             /\ sampleQueue[i] = c
             /\ sampleQueue' = RemoveAt(sampleQueue, i)
        /\ stage' = [stage EXCEPT ![c] = "idle"]
     \/ /\ stage[c] = "running"
        /\ UNCHANGED <<sampleQueue, stage>>
  /\ UNCHANGED <<activeSamples, micro>>

\* Seeded faults of Complete: the released slot is not handed on; the caller
\* is resumed before the queued entry; the newest entry is resumed.
CompleteKeepingQueue(c) ==
  /\ micro = <<>> /\ stage[c] = "running"
  /\ activeSamples' = activeSamples - 1
  /\ stage' = [stage EXCEPT ![c] = "returning"]
  /\ micro' = <<Return(c)>>
  /\ UNCHANGED <<sampleQueue, aborted>>
CompleteReturningFirst(c) ==
  /\ micro = <<>> /\ stage[c] = "running"
  /\ activeSamples' = activeSamples - 1
  /\ IF sampleQueue = <<>>
     THEN /\ stage' = [stage EXCEPT ![c] = "returning"]
          /\ micro' = <<Return(c)>>
          /\ UNCHANGED sampleQueue
     ELSE /\ stage' = [stage EXCEPT ![c] = "returning", ![Head(sampleQueue)] = "resuming"]
          /\ micro' = <<Return(c), Resumption(Head(sampleQueue))>>
          /\ sampleQueue' = Tail(sampleQueue)
  /\ UNCHANGED aborted
CompleteNewestFirst(c) ==
  /\ micro = <<>> /\ stage[c] = "running"
  /\ activeSamples' = activeSamples - 1
  /\ IF sampleQueue = <<>>
     THEN /\ stage' = [stage EXCEPT ![c] = "returning"]
          /\ micro' = <<Return(c)>>
          /\ UNCHANGED sampleQueue
     ELSE /\ stage' = [stage EXCEPT ![c] = "returning", ![Last(sampleQueue)] = "resuming"]
          /\ micro' = <<Resumption(Last(sampleQueue)), Return(c)>>
          /\ sampleQueue' = Front(sampleQueue)
  /\ UNCHANGED aborted

\* The backend answers: the finally block releases the slot and resolves the
\* oldest entry, whose continuation is queued ahead of the caller's own.  The
\* loop's second iteration never happens: an entry is cancelled only by its
\* abort, which removes it from the queue.
Complete(c) ==
  /\ micro = <<>> /\ stage[c] = "running"
  /\ activeSamples' = activeSamples - 1
  /\ IF sampleQueue = <<>>
     THEN /\ stage' = [stage EXCEPT ![c] = "returning"]
          /\ micro' = <<Return(c)>>
          /\ UNCHANGED sampleQueue
     ELSE /\ stage' = [stage EXCEPT ![c] = "returning", ![Head(sampleQueue)] = "resuming"]
          /\ micro' = <<Resumption(Head(sampleQueue)), Return(c)>>
          /\ sampleQueue' = Tail(sampleQueue)
  /\ UNCHANGED aborted

\* Seeded fault of Resume: the resumed entry does not count its batch.
ResumeUncounted(c) ==
  /\ micro # <<>> /\ Head(micro) = Resumption(c)
  /\ micro' = Tail(micro)
  /\ stage' = [stage EXCEPT ![c] = "running"]
  /\ UNCHANGED <<activeSamples, sampleQueue, aborted>>

\* The continuation of a resolved entry: re-check the signal, take the slot.
Resume(c) ==
  /\ micro # <<>> /\ Head(micro) = Resumption(c)
  /\ micro' = Tail(micro)
  /\ IF c \in aborted
     THEN stage' = [stage EXCEPT ![c] = "idle"] /\ UNCHANGED activeSamples
     ELSE /\ stage' = [stage EXCEPT ![c] = "running"]
          /\ activeSamples' = activeSamples + 1
  /\ UNCHANGED <<sampleQueue, aborted>>

\* The continuation of the caller ends.
Returned(c) ==
  /\ micro # <<>> /\ Head(micro) = Return(c)
  /\ micro' = Tail(micro)
  /\ stage' = [stage EXCEPT ![c] = "idle"]
  /\ UNCHANGED <<activeSamples, sampleQueue, aborted>>

Step(c) ==
  \/ RunNow(c) \/ Enqueue(c) \/ Abort(c)
  \/ Complete(c) \/ Resume(c) \/ Returned(c)

Next == \E c \in Calls : Step(c)

Spec == Init /\ [][Next]_vars

\* Every backend command has a finite timeout, so every batch ends; the engine
\* drains its microtasks.
Fairness ==
  \A c \in Calls : WF_vars(Complete(c)) /\ WF_vars(Resume(c)) /\ WF_vars(Returned(c))

FairSpec == Spec /\ Fairness

-----------------------------------------------------------------------------
TypeOK ==
  /\ activeSamples \in Nat
  /\ sampleQueue \in Seq(Calls)
  /\ micro \in Seq(Microtasks)
  /\ stage \in [Calls -> Stages]
  /\ aborted \subseteq Abortable

\* The counter is the number of batches that really run, and never above the
\* cap, although it lags behind the entry that a release has resolved.
BatchCap ==
  /\ activeSamples = Cardinality(In("running"))
  /\ activeSamples + Cardinality(In("resuming")) <= Slots

\* Nobody waits in line while a slot is free: the slots that are not running
\* are those already promised to a resolved entry.
NoLostSlot ==
  sampleQueue # <<>> => activeSamples + Cardinality(In("resuming")) = Slots

\* The counter, which lags behind what a release has promised, neither lets in
\* one batch too many nor keeps one waiting for nothing.
SlotsCounted == BatchCap /\ NoLostSlot

\* The queue holds exactly the calls that wait for a slot, each of them once:
\* an aborted call leaves no entry behind that would swallow a release.
QueueExact ==
  /\ \A c \in Calls : stage[c] = "queued" <=> c \in Range(sampleQueue)
  /\ IsInjective(sampleQueue)

\* A queued call is not left in line for ever: it gets its slot or is aborted.
QueuedIsServed == \A c \in Calls : (stage[c] = "queued") ~> (stage[c] # "queued")

\* The gate implements the contract of SlotGate: a resolved entry already
\* holds the slot it will take.
Contract == INSTANCE SlotGate
              WITH running <- In("running") \cup In("resuming"), waiting <- sampleQueue
ImplementsSlotGate == Contract!Spec
=============================================================================
