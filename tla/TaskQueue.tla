----------------------------- MODULE TaskQueue -----------------------------
(***************************************************************************)
(* What both thread pools of the repository promise to their callers: a    *)
(* bounded first-in first-out queue of tasks, each handed to one worker    *)
(* and run by it at most once.  A pool that is being shut down may also    *)
(* hand a task out and drop it.                                            *)
(***************************************************************************)
EXTENDS Naturals, Sequences

CONSTANTS Task,       \* the tasks callers may submit
          Capacity,   \* queue_max_size, max_job_num
          MayDiscard  \* whether a task may be taken out and never run

VARIABLES queue,      \* submitted and not yet handed out, oldest first
          running,    \* handed to a worker
          done        \* run to completion

vars == <<queue, running, done>>

Queued == {queue[i] : i \in DOMAIN queue}

Init == queue = <<>> /\ running = {} /\ done = {}

Submit(t) == /\ Len(queue) < Capacity
             /\ t \notin Queued \cup running \cup done
             /\ queue' = Append(queue, t)
             /\ UNCHANGED <<running, done>>

Start == /\ queue # <<>>
         /\ Head(queue) \notin running \cup done
         /\ queue' = Tail(queue)
         /\ running' = running \cup {Head(queue)}
         /\ UNCHANGED done

Finish(t) == /\ t \in running
             /\ running' = running \ {t}
             /\ done' = done \cup {t}
             /\ UNCHANGED queue

Discard(t) == /\ MayDiscard
              /\ t \in running
              /\ running' = running \ {t}
              /\ UNCHANGED <<queue, done>>

Next == \/ \E t \in Task : Submit(t) \/ Finish(t) \/ Discard(t)
        \/ Start

Spec == Init /\ [][Next]_vars
=============================================================================
