------------------------------ MODULE SpinQueue ------------------------------
(***************************************************************************)
(* queue.c over the spinlock of lock.c: a singly linked list, its head,    *)
(* its tail and its size, used by any number of threads.  The engine's     *)
(* input queue and the thread pool's queue are two instances.              *)
(*                                                                         *)
(* A step is the code between two accesses another thread can observe:     *)
(* head, tail and the elements are touched only under the lock, size is    *)
(* also read AFTER the unlock, for the value the call returns.             *)
(***************************************************************************)
EXTENDS Integers, Sequences, FiniteSets, Functions

CONSTANTS Thread,    \* the threads that use the queue
          Item,      \* what they put in it
          Node,      \* the addresses the allocator may return for elements
          NULL,      \* no element
          NoItem,    \* *data before dequeue assigns it
          MaxSize,   \* max_size
          MaxCalls   \* bound: how many calls a behaviour makes

ASSUME SizeAssumption == MaxSize \in Nat
ASSUME NullAssumption == NULL \notin Node /\ NoItem \notin Item

VARIABLES
  mutex,   \* lock.mutex
  head,    \* queue->head
  tail,    \* queue->tail
  size,    \* queue->size
  nxt,     \* nxt[n]: el->next
  data,    \* data[n]: el->data
  heap,    \* the elements allocated and not freed
  pc,      \* pc[t]: where thread t is
  el,      \* el[t]: the local el
  force,   \* force[t]: the parameter of enqueue
  out,     \* out[t]: what the call has stored through its data parameter
  ret,     \* ret[t]: what the last call returned
  calls,   \* the calls made so far
  list     \* history: the elements in the queue, oldest first

vars == << mutex, head, tail, size, nxt, data, heap, pc, el, force, out, ret,
           calls, list >>

Init ==
  /\ mutex = 0
  /\ head = NULL
  /\ tail = NULL
  /\ size = 0
  /\ nxt = [n \in Node |-> NULL]
  /\ data = [n \in Node |-> NoItem]
  /\ heap = {}
  /\ pc = [t \in Thread |-> "idle"]
  /\ el = [t \in Thread |-> NULL]
  /\ force = [t \in Thread |-> FALSE]
  /\ out = [t \in Thread |-> NoItem]
  /\ ret = [t \in Thread |-> 0]
  /\ calls = 0
  /\ list = << >>

Goto(t, from, to) ==
  /\ pc[t] = from
  /\ pc' = [pc EXCEPT ![t] = to]

-----------------------------------------------------------------------------
(* enqueue(queue, data, force)                                             *)

\* The element is allocated, cleared and filled before the lock is taken.
EnqueueCall(t) ==
  /\ calls < MaxCalls
  /\ Goto(t, "idle", "enq_lock")
  /\ \E n \in Node \ heap, x \in Item, f \in BOOLEAN :
       /\ heap' = heap \cup {n}
       /\ nxt' = [nxt EXCEPT ![n] = NULL]
       /\ data' = [data EXCEPT ![n] = x]
       /\ el' = [el EXCEPT ![t] = n]
       /\ force' = [force EXCEPT ![t] = f]
  /\ calls' = calls + 1
  /\ UNCHANGED << mutex, head, tail, size, out, ret, list >>

\* Mutant of Lock: the lock word is not tested.
LockUntested(t) ==
  /\ mutex' = 1
  /\ Goto(t, "enq_lock", "enq_check") \/ Goto(t, "deq_lock", "deq_check")
  /\ UNCHANGED << head, tail, size, nxt, data, heap, el, force, out, ret,
                  calls, list >>

\* ts_spinlock_lock: the compare and swap that succeeds.
Lock(t) ==
  /\ mutex = 0
  /\ mutex' = 1
  /\ Goto(t, "enq_lock", "enq_check") \/ Goto(t, "deq_lock", "deq_check")
  /\ UNCHANGED << head, tail, size, nxt, data, heap, el, force, out, ret,
                  calls, list >>

AtLimit == MaxSize > 0 /\ size >= MaxSize

\* Mutant of EnqueueRefuse: it frees an element, but the wrong one.
EnqueueRefuseFreeTail(t) ==
  /\ Goto(t, "enq_check", "enq_refused")
  /\ AtLimit
  /\ ~force[t]
  /\ ret' = [ret EXCEPT ![t] = -1]
  /\ heap' = heap \ {tail}
  /\ UNCHANGED << mutex, head, tail, size, nxt, data, el, force, out, calls,
                  list >>

\* A full queue refuses; the element allocated for the call is not freed.
EnqueueRefuse(t) ==
  /\ Goto(t, "enq_check", "enq_refused")
  /\ AtLimit
  /\ ~force[t]
  /\ ret' = [ret EXCEPT ![t] = -1]
  /\ UNCHANGED << mutex, head, tail, size, nxt, data, heap, el, force, out,
                  calls, list >>

\* Mutant of EnqueueLink: whether the queue is empty is read from tail, which
\* dequeue does not reset.
EnqueueLinkByTail(t) ==
  /\ Goto(t, "enq_check", "enq_size")
  /\ ~AtLimit \/ force[t]
  /\ IF tail = NULL
     THEN head' = el[t] /\ UNCHANGED nxt
     ELSE nxt' = [nxt EXCEPT ![tail] = el[t]] /\ UNCHANGED head
  /\ tail' = el[t]
  /\ list' = Append(list, el[t])
  /\ UNCHANGED << mutex, size, data, heap, el, force, out, ret, calls >>

EnqueueLink(t) ==
  /\ Goto(t, "enq_check", "enq_size")
  /\ ~AtLimit \/ force[t]
  /\ IF head = NULL
     THEN head' = el[t] /\ UNCHANGED nxt
     ELSE nxt' = [nxt EXCEPT ![tail] = el[t]] /\ UNCHANGED head
  /\ tail' = el[t]
  /\ list' = Append(list, el[t])
  /\ UNCHANGED << mutex, size, data, heap, el, force, out, ret, calls >>

EnqueueSize(t) ==
  /\ Goto(t, "enq_size", "enq_done")
  /\ size' = size + 1
  /\ UNCHANGED << mutex, head, tail, nxt, data, heap, el, force, out, ret,
                  calls, list >>

-----------------------------------------------------------------------------
(* dequeue(queue, data)                                                    *)

DequeueCall(t) ==
  /\ calls < MaxCalls
  /\ Goto(t, "idle", "deq_lock")
  /\ out' = [out EXCEPT ![t] = NoItem]
  /\ calls' = calls + 1
  /\ UNCHANGED << mutex, head, tail, size, nxt, data, heap, el, force, ret,
                  list >>

\* The oldest element leaves the list and is freed; tail is left as it is.
DequeueTake(t) ==
  /\ Goto(t, "deq_check", "deq_size")
  /\ size > 0
  /\ head' = nxt[head]
  /\ out' = [out EXCEPT ![t] = data[head]]
  /\ heap' = heap \ {head}
  /\ list' = Tail(list)
  /\ UNCHANGED << mutex, tail, size, nxt, data, el, force, ret, calls >>

\* int size = queue->size--
DequeueSize(t) ==
  /\ Goto(t, "deq_size", "deq_done")
  /\ ret' = [ret EXCEPT ![t] = size]
  /\ size' = size - 1
  /\ UNCHANGED << mutex, head, tail, nxt, data, heap, el, force, out, calls,
                  list >>

DequeueEmpty(t) ==
  /\ Goto(t, "deq_check", "deq_empty")
  /\ size = 0
  /\ UNCHANGED << mutex, head, tail, size, nxt, data, heap, el, force, out,
                  ret, calls, list >>

-----------------------------------------------------------------------------

\* Mutant of Exits: the refused enqueue returns without unlocking.
ExitsButRefused == { << "enq_done", "enq_read" >>,
                     << "deq_done", "idle" >>, << "deq_empty", "deq_read" >> }

\* Where a call unlocks, and where it goes: to its caller with a value it
\* already has, or to the read of queue->size, which is outside the lock.
Exits == { << "enq_refused", "idle" >>, << "enq_done", "enq_read" >>,
           << "deq_done", "idle" >>, << "deq_empty", "deq_read" >> }

\* ts_spinlock_unlock
Unlock(t) ==
  /\ mutex' = 0
  /\ \E e \in Exits : Goto(t, e[1], e[2])
  /\ el' = [el EXCEPT ![t] = NULL]
  /\ UNCHANGED << head, tail, size, nxt, data, heap, force, out, ret, calls,
                  list >>

\* return queue->size
ReturnSize(t) ==
  /\ Goto(t, "enq_read", "idle") \/ Goto(t, "deq_read", "idle")
  /\ ret' = [ret EXCEPT ![t] = size]
  /\ UNCHANGED << mutex, head, tail, size, nxt, data, heap, el, force, out,
                  calls, list >>

InCall(t) ==
  \/ Lock(t)
  \/ EnqueueRefuse(t)
  \/ EnqueueLink(t)
  \/ EnqueueSize(t)
  \/ DequeueTake(t)
  \/ DequeueSize(t)
  \/ DequeueEmpty(t)
  \/ Unlock(t)
  \/ ReturnSize(t)

Next == \E t \in Thread : EnqueueCall(t) \/ DequeueCall(t) \/ InCall(t)

Spec == Init /\ [][Next]_vars

\* A thread inside a call is scheduled again; nobody has to make a call.
FairSpec == Spec /\ \A t \in Thread : WF_vars(InCall(t))

-----------------------------------------------------------------------------
(* Properties.                                                             *)

\* Where a thread owns the lock.
Critical == {"enq_check", "enq_size", "deq_check", "deq_size", "enq_refused",
             "enq_done", "deq_done", "deq_empty"}

TypeOK ==
  /\ mutex \in {0, 1}
  /\ {head, tail} \subseteq Node \cup {NULL}
  /\ size \in Nat
  /\ nxt \in [Node -> Node \cup {NULL}]
  /\ data \in [Node -> Item \cup {NoItem}]
  /\ heap \subseteq Node
  /\ pc \in [Thread -> Critical \cup {"idle", "enq_lock", "deq_lock",
                                      "enq_read", "deq_read"}]
  /\ el \in [Thread -> Node \cup {NULL}]
  /\ force \in [Thread -> BOOLEAN]
  /\ out \in [Thread -> Item \cup {NoItem}]
  /\ ret \in [Thread -> Int]
  /\ calls \in Nat
  /\ list \in Seq(Node)

\* The spinlock admits one thread at a time to the list, and is free when no
\* thread is there.
MutualExclusion ==
  /\ \A t, u \in Thread : pc[t] \in Critical /\ pc[u] \in Critical => t = u
  /\ mutex = 1 <=> \E t \in Thread : pc[t] \in Critical

\* The chain from head to tail is the queue: it ends in NULL, and every
\* element of it is allocated (dequeue has not freed what it left linked).
Linked ==
  /\ head = (IF list = << >> THEN NULL ELSE list[1])
  /\ list # << >> => tail = list[Len(list)]
  /\ \A i \in 1..Len(list) :
       nxt[list[i]] = (IF i = Len(list) THEN NULL ELSE list[i + 1])
  /\ IsInjective(list)
  /\ Range(list) \subseteq heap

\* size counts the chain whenever nobody is between the two updates.
SizeCounts ==
  size = Len(list) + (IF \E t \in Thread : pc[t] = "deq_size" THEN 1 ELSE 0)
                   - (IF \E t \in Thread : pc[t] = "enq_size" THEN 1 ELSE 0)

\* An element a thread has allocated is its own until it links it.
OwnElement ==
  \A t \in Thread : pc[t] \in {"enq_lock", "enq_check"} =>
    /\ el[t] \in heap \ Range(list)
    /\ nxt[el[t]] = NULL
    /\ \A u \in Thread \ {t} :
         pc[u] \in {"enq_lock", "enq_check"} => el[u] # el[t]

\* The pointers and counters of queue.c are those of a queue, in every
\* interleaving of enqueues and dequeues.
WellFormed == Linked /\ SizeCounts /\ OwnElement

\* The linked list implements the abstract queue of tasks.
Abstract == INSTANCE TaskQueue
              WITH q <- [i \in 1..Len(list) |-> data[list[i]]]
ImplementsTaskQueue == Abstract!Spec

\* No call keeps the lock: a thread that spins has something to wait for.
LockReleased == (mutex = 1) ~> (mutex = 0)

(* Refuted by a run.                                                       *)

\* tests/queue_test.c:23 and engine.c:49 use *data whenever dequeue returned
\* a positive number.
PositiveReturnHasItem ==
  [][\A t \in Thread :
       pc[t] \in {"deq_done", "deq_read"} /\ pc'[t] = "idle" /\ ret'[t] > 0
         => out[t] # NoItem]_vars

=============================================================================
