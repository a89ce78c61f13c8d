------------------------------ MODULE TaskPool ------------------------------
(***************************************************************************)
(* What ns_agent/include/tpool.h promises: a pool runs the tasks it is     *)
(* given, at most Width at a time, and starts them in the order of their   *)
(* submission.  Once it is being destroyed it starts no other task, lets   *)
(* the running ones end, and drops the rest.                               *)
(***************************************************************************)
EXTENDS Naturals, SequencesExt, FiniteSets

CONSTANTS Task, Width

VARIABLES pending,    \* the tasks submitted and not started, in order
          running,    \* the tasks started and not ended
          over,       \* the tasks ended or dropped
          closed      \* the pool is being destroyed

vars == <<pending, running, over, closed>>

Waiting == ToSet(pending)

Init == pending = <<>> /\ running = {} /\ over = {} /\ closed = FALSE

\* The creator of the pool submits until it destroys it, a task while it runs.
Submit(t) ==
  /\ t \notin Waiting \cup running \cup over
  /\ ~closed \/ running # {}
  /\ pending' = Append(pending, t)
  /\ UNCHANGED <<running, over, closed>>

Start ==
  /\ pending # <<>> /\ ~closed
  /\ Cardinality(running) < Width
  /\ running' = running \cup {Head(pending)}
  /\ pending' = Tail(pending)
  /\ UNCHANGED <<over, closed>>

End(t) ==
  /\ t \in running
  /\ running' = running \ {t}
  /\ over' = over \cup {t}
  /\ UNCHANGED <<pending, closed>>

Close ==
  /\ closed' = TRUE
  /\ UNCHANGED <<pending, running, over>>

Drop ==
  /\ closed /\ running = {} /\ pending # <<>>
  /\ over' = over \cup {Head(pending)}
  /\ pending' = Tail(pending)
  /\ UNCHANGED <<running, closed>>

Next == \/ \E t \in Task : Submit(t) \/ End(t)
        \/ Start \/ Close \/ Drop

Fairness == WF_vars(Start) /\ WF_vars(Drop) /\ \A t \in Task : WF_vars(End(t))
Spec == Init /\ [][Next]_vars /\ Fairness
=============================================================================
