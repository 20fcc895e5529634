----------------------------- MODULE ThreadPool ------------------------------
(***************************************************************************)
(* threadpool.c: worker threads that take tasks from one queue and sleep   *)
(* on an event, a flag guarded by a mutex and a condition variable.  What  *)
(* a task does is left to the module that uses the pool: a worker with a   *)
(* task is at "run", and "deq" is where its handler returns to.            *)
(*                                                                         *)
(* The critical sections of the event are short and block nobody, so each  *)
(* of them is one step.  The queue is the one of queue.c: taking an item   *)
(* and refusing one are one step (SpinQueue shows that they may be), but   *)
(* the value dequeue returns for an empty queue is the size it reads after *)
(* the unlock (queue.c:49), a step of its own.                             *)
(***************************************************************************)
EXTENDS Naturals, Sequences, FiniteSets

CONSTANTS Worker,          \* the threads of the pool
          Task,            \* what the handler of a task works on
          NoTask,          \* *task before the first dequeue
          Capacity         \* max_size, 2 * thread_num in the code (threadpool.c:77)

ASSUME PoolAssumption ==
  /\ IsFiniteSet(Worker) /\ Worker # {}   \* assert(thread_num > 0)
  /\ NoTask \notin Task
  /\ Capacity \in Nat \ {0}

VARIABLES
  tasks,    \* tp->queue
  signal,   \* event.signal
  exit,     \* tp->exit
  wpc,      \* wpc[w]: where worker w is
  task,     \* task[w]: its local task
  staleRun  \* a worker has run a task it was not given

poolVars == << tasks, signal, exit, wpc, task, staleRun >>

PoolInit ==
  /\ tasks = << >>
  /\ signal = FALSE
  /\ exit = FALSE
  /\ wpc = [w \in Worker |-> "start"]
  /\ task = [w \in Worker |-> NoTask]
  /\ staleRun = FALSE

\* thread_num_alive
Alive == {w \in Worker : wpc[w] \notin {"start", "gone"}}

Step(w, from, to) ==
  /\ wpc[w] = from
  /\ wpc' = [wpc EXCEPT ![w] = to]

-----------------------------------------------------------------------------
(* The event, and ts_threadpool_push.  The queue refuses when it is full   *)
(* and push returns 0 all the same.                                        *)

PushEnqueue(x) ==
  /\ tasks' = IF Len(tasks) < Capacity THEN Append(tasks, x) ELSE tasks
  /\ UNCHANGED << signal, exit, wpc, task, staleRun >>

Asleep == {w \in Worker : wpc[w] = "asleep"}

\* ts_tpevent_signal: the flag, and one of the sleepers.
Signal ==
  /\ signal' = TRUE
  /\ \/ Asleep = {} /\ UNCHANGED wpc
     \/ \E w \in Asleep : wpc' = [wpc EXCEPT ![w] = "wait"]
  /\ UNCHANGED << tasks, exit, task, staleRun >>

\* Mutant of Broadcast: the sleepers are woken but the flag is not set.
BroadcastNoFlag ==
  /\ wpc' = [w \in Worker |-> IF w \in Asleep THEN "wait" ELSE wpc[w]]
  /\ UNCHANGED << tasks, signal, exit, task, staleRun >>

\* ts_tpevent_broadcast
Broadcast ==
  /\ signal' = TRUE
  /\ wpc' = [w \in Worker |-> IF w \in Asleep THEN "wait" ELSE wpc[w]]
  /\ UNCHANGED << tasks, exit, task, staleRun >>

SetExit ==
  /\ exit' = TRUE
  /\ UNCHANGED << tasks, signal, wpc, task, staleRun >>

-----------------------------------------------------------------------------
(* ts_threadpool_loop.                                                     *)

Start(w) ==
  /\ Step(w, "start", "loop")
  /\ UNCHANGED << tasks, signal, exit, task, staleRun >>

\* The test of the outer loop, and the one after the wait.
TestExit(w) ==
  /\ \/ Step(w, "loop", IF exit THEN "gone" ELSE "wait")
     \/ Step(w, "woken", IF exit THEN "gone" ELSE "deq")
  /\ UNCHANGED << tasks, signal, exit, task, staleRun >>

\* Mutant of Wait: the flag is not looked at before the worker sleeps.
WaitWithoutTest(w) ==
  /\ Step(w, "wait", "asleep")
  /\ UNCHANGED << tasks, signal, exit, task, staleRun >>

\* ts_tpevent_wait: the flag is set and is taken, or the worker sleeps.
Wait(w) ==
  /\ \/ signal /\ Step(w, "wait", "woken") /\ signal' = FALSE
     \/ ~signal /\ Step(w, "wait", "asleep") /\ UNCHANGED signal
  /\ UNCHANGED << tasks, exit, task, staleRun >>

\* pthread_cond_wait may return unasked.
WakeUp(w) ==
  /\ Step(w, "asleep", "wait")
  /\ UNCHANGED << tasks, signal, exit, task, staleRun >>

\* Mutant of Dequeue: the head does not move on.
DequeueKeepHead(w) ==
  /\ IF tasks = << >>
     THEN Step(w, "deq", "empty") /\ UNCHANGED task
     ELSE Step(w, "deq", "run") /\ task' = [task EXCEPT ![w] = Head(tasks)]
  /\ UNCHANGED << tasks, signal, exit, staleRun >>

Dequeue(w) ==
  /\ IF tasks = << >>
     THEN Step(w, "deq", "empty") /\ UNCHANGED << tasks, task >>
     ELSE /\ Step(w, "deq", "run")
          /\ task' = [task EXCEPT ![w] = Head(tasks)]
          /\ tasks' = Tail(tasks)
  /\ UNCHANGED << signal, exit, staleRun >>

\* What the dequeue of an empty queue returns: if it is positive by now the
\* worker runs the task it ran before, which has been freed.
DequeueReturns(w) ==
  /\ Step(w, "empty", IF tasks = << >> THEN "loop" ELSE "run")
  /\ staleRun' = (staleRun \/ tasks # << >>)
  /\ UNCHANGED << tasks, signal, exit, task >>

WorkerLoop(w) ==
  \/ Start(w)
  \/ TestExit(w)
  \/ Wait(w)
  \/ Dequeue(w)
  \/ DequeueReturns(w)

=============================================================================
