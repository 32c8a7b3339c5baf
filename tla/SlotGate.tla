------------------------------ MODULE SlotGate ------------------------------
(***************************************************************************)
(* What the sampling gate of ObservationManager promises its callers: at   *)
(* most Slots backend batches run at once, the others wait in line, and a  *)
(* released slot passes to the head of the line in the same step, so that  *)
(* nobody can overtake and no slot is lost.                                *)
(***************************************************************************)
EXTENDS Naturals, Sequences, FiniteSets, SequencesExt

CONSTANTS Calls, Slots

VARIABLES
  running,   \* calls whose backend batch holds a slot
  waiting    \* calls in line for a slot, oldest first

gateVars == <<running, waiting>>

Init == running = {} /\ waiting = <<>>

Admit(c) ==
  /\ Cardinality(running) < Slots
  /\ running' = running \cup {c}
  /\ UNCHANGED waiting

Queue(c) ==
  /\ Cardinality(running) = Slots
  /\ waiting' = Append(waiting, c)
  /\ UNCHANGED running

\* A call enters once: it is neither running nor in line.
Enter(c) ==
  /\ c \notin running /\ c \notin Range(waiting)
  /\ Admit(c) \/ Queue(c)

\* The caller gives up while it is in line.
Cancel(c) ==
  /\ \E i \in DOMAIN waiting :
       waiting[i] = c /\ waiting' = RemoveAt(waiting, i)
  /\ UNCHANGED running

\* A batch ends; its slot goes to the head of the line, if there is one.
Leave(c) ==
  /\ c \in running
  /\ IF waiting = <<>>
     THEN running' = running \ {c} /\ UNCHANGED waiting
     ELSE /\ running' = (running \ {c}) \cup {Head(waiting)}
          /\ waiting' = Tail(waiting)

Next == \E c \in Calls : Enter(c) \/ Cancel(c) \/ Leave(c)

Spec == Init /\ [][Next]_gateVars
=============================================================================
