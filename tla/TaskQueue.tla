------------------------------ MODULE TaskQueue ------------------------------
(***************************************************************************)
(* What queue.c promises to engine.c and threadpool.c: a FIFO of tasks     *)
(* with a soft capacity.  A plain enqueue is refused when the queue holds  *)
(* MaxSize tasks; a forced one (the merger's) is always accepted.  A       *)
(* MaxSize of zero means "no limit" (queue.c tests max_size > 0 first).    *)
(*                                                                         *)
(* Each operation is one step here.  SpinQueue shows that the linked list  *)
(* under the spinlock implements these steps.                              *)
(***************************************************************************)
EXTENDS Naturals, Sequences

CONSTANTS Item,      \* what the void pointers of the queue point to
          MaxSize    \* max_size

VARIABLE q           \* the queued items, oldest first

\* Mutant of Full: the limit tested with > instead of >=.
FullOneLater == MaxSize > 0 /\ Len(q) > MaxSize

Full == MaxSize > 0 /\ Len(q) >= MaxSize

Init == q = << >>

\* enqueue(queue, data, force) that links the element.
Enqueue(item, forced) ==
  /\ forced \/ ~Full
  /\ q' = Append(q, item)

\* enqueue(queue, data, 0) on a full queue: the caller gets -1.
Refuse(forced) ==
  /\ ~forced
  /\ Full
  /\ q' = q

\* dequeue that hands the oldest item to the caller.
Dequeue(item) ==
  /\ q # << >>
  /\ item = Head(q)
  /\ q' = Tail(q)

Next ==
  \/ \E item \in Item, forced \in BOOLEAN : Enqueue(item, forced)
  \/ \E item \in Item : Dequeue(item)

Spec == Init /\ [][Next]_q

==============================================================================
