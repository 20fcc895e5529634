--------------------------- MODULE SpinQueueProofs ---------------------------
(***************************************************************************)
(* The spinlock and the linked list of queue.c, for any number of threads, *)
(* elements and calls: the lock excludes, the list is a queue, and it      *)
(* implements TaskQueue.                                                   *)
(***************************************************************************)
EXTENDS SpinQueue, TLAPS

Place == Critical \cup {"idle", "enq_lock", "deq_lock", "enq_read", "deq_read"}

\* The part of TypeOK the lock depends on.
LockTypeOK == mutex \in {0, 1} /\ pc \in [Thread -> Place]

LockInv == LockTypeOK /\ MutualExclusion

\* No thread owns the lock at the start.
LEMMA LockInit == Init => LockInv
  BY DEF Init, LockInv, LockTypeOK, MutualExclusion, Place, Critical

\* Every step keeps the lock exclusive: Lock finds it free, hence finds no
\* thread inside, and Unlock is made by the only thread that is.
LEMMA LockStep == LockInv /\ [Next]_vars => LockInv'
<1> SUFFICES ASSUME LockInv, [Next]_vars PROVE LockInv'
  OBVIOUS
<1>1. CASE UNCHANGED vars
  BY <1>1 DEF vars, LockInv, LockTypeOK, MutualExclusion
<1>2. ASSUME NEW t \in Thread, EnqueueCall(t) \/ DequeueCall(t) \/ InCall(t)
      PROVE  LockInv'
  <2> USE <1>2 DEF LockInv, LockTypeOK, Place, Critical
  <2>1. CASE EnqueueCall(t)
    BY <2>1 DEF EnqueueCall, Goto, MutualExclusion
  <2>2. CASE DequeueCall(t)
    BY <2>2 DEF DequeueCall, Goto, MutualExclusion
  <2>3. CASE Lock(t)
    BY <2>3 DEF Lock, Goto, MutualExclusion
  <2>4. CASE EnqueueRefuse(t)
    BY <2>4 DEF EnqueueRefuse, Goto, MutualExclusion
  <2>5. CASE EnqueueLink(t)
    BY <2>5 DEF EnqueueLink, Goto, MutualExclusion
  <2>6. CASE EnqueueSize(t)
    BY <2>6 DEF EnqueueSize, Goto, MutualExclusion
  <2>7. CASE DequeueTake(t)
    BY <2>7 DEF DequeueTake, Goto, MutualExclusion
  <2>8. CASE DequeueSize(t)
    BY <2>8 DEF DequeueSize, Goto, MutualExclusion
  <2>9. CASE DequeueEmpty(t)
    BY <2>9 DEF DequeueEmpty, Goto, MutualExclusion
  <2>10. CASE Unlock(t)
    BY <2>10 DEF Unlock, Exits, Goto, MutualExclusion
  <2>11. CASE ReturnSize(t)
    BY <2>11 DEF ReturnSize, Goto, MutualExclusion
  <2> QED
    BY <2>1, <2>2, <2>3, <2>4, <2>5, <2>6, <2>7, <2>8, <2>9, <2>10, <2>11
       DEF InCall
<1> QED
  BY <1>1, <1>2 DEF Next

\* The spinlock admits one thread at a time to the list of queue.c, and its
\* word is 1 exactly while a thread is there.
THEOREM SpinlockExcludes == Spec => []MutualExclusion
<1>1. LockInv => MutualExclusion
  BY DEF LockInv
<1> QED
  BY LockInit, LockStep, <1>1, PTL DEF Spec

-----------------------------------------------------------------------------
(* The linked list.  WellFormed is inductive once the lock is exclusive    *)
(* and the variables have their types: a thread that tests head or size    *)
(* finds nobody between the two updates, so size is the length of the      *)
(* chain, and the element it links is nobody else's.                       *)

ListInv == TypeOK /\ WellFormed

QueueInv == LockInv /\ ListInv

\* What a thread that owns the lock before its first update may rely on:
\* size is the length of the chain.
LEMMA SizeIsLength ==
  ASSUME QueueInv, NEW t \in Thread, pc[t] \in {"enq_check", "deq_check"}
  PROVE  size = Len(list)
<1>1. \A u \in Thread : pc[u] \notin {"enq_size", "deq_size"}
  BY DEF QueueInv, LockInv, MutualExclusion, Critical
<1>2. Len(list) \in Nat /\ size \in Nat
  BY DEF QueueInv, ListInv, TypeOK
<1> QED
  BY <1>1, <1>2 DEF QueueInv, ListInv, WellFormed, SizeCounts

\* The head of a chain that is not empty is its first element; a chain is
\* empty exactly when head is NULL.
LEMMA HeadOfChain ==
  ASSUME QueueInv
  PROVE  /\ head = NULL <=> list = << >>
         /\ list # << >> => /\ Len(list) \in Nat \ {0}
                            /\ head = list[1] /\ head \in Node
                            /\ tail = list[Len(list)] /\ tail \in Node
<1>1. list \in Seq(Node) /\ Linked
  BY DEF QueueInv, ListInv, TypeOK, WellFormed
<1>2. list # << >> => Len(list) \in Nat \ {0} /\ list[1] \in Node
                      /\ list[Len(list)] \in Node
  BY <1>1
<1> QED
  BY <1>1, <1>2, NullAssumption DEF Linked

\* The queue is empty at the start.
LEMMA ListInit == Init => ListInv
<1> SUFFICES ASSUME Init PROVE ListInv
  OBVIOUS
<1>1. TypeOK
  BY DEF Init, TypeOK
<1>2. Linked
  <2>1. list = << >> /\ Len(list) = 0 /\ DOMAIN list = {}
    BY DEF Init
  <2> QED
    BY <2>1 DEF Init, Linked, IsInjective, Range
<1>3. SizeCounts
  BY DEF Init, SizeCounts
<1>4. OwnElement
  BY DEF Init, OwnElement
<1> QED
  BY <1>1, <1>2, <1>3, <1>4 DEF ListInv, WellFormed

\* The address the allocator returns is in no chain: what is linked is
\* allocated.
LEMMA EnqueueCallStep ==
  ASSUME QueueInv, NEW t \in Thread, EnqueueCall(t)
  PROVE  ListInv'
<1> USE DEF QueueInv, ListInv
<1>1. PICK n \in Node \ heap, x \in Item, f \in BOOLEAN :
        /\ heap' = heap \cup {n}
        /\ nxt' = [nxt EXCEPT ![n] = NULL]
        /\ data' = [data EXCEPT ![n] = x]
        /\ el' = [el EXCEPT ![t] = n]
        /\ force' = [force EXCEPT ![t] = f]
  BY DEF EnqueueCall
<1>2. /\ pc[t] = "idle" /\ pc' = [pc EXCEPT ![t] = "enq_lock"]
      /\ calls' = calls + 1
      /\ UNCHANGED << mutex, head, tail, size, out, ret, list >>
  BY DEF EnqueueCall, Goto
<1>3. TypeOK'
  BY <1>1, <1>2 DEF TypeOK, Critical
<1>4. n \notin Range(list)
  BY <1>1 DEF WellFormed, Linked
<1>5. \A i \in 1..Len(list) : list[i] \in Range(list) /\ list[i] \in Node
  BY DEF Range, TypeOK
<1>6. Linked'
  <2>1. \A i \in 1..Len(list) : nxt'[list[i]] = nxt[list[i]]
    BY <1>1, <1>4, <1>5 DEF TypeOK
  <2> QED
    BY <1>1, <1>2, <2>1 DEF WellFormed, Linked
<1>7. SizeCounts'
  <2>1. \A u \in Thread : /\ pc'[u] = "deq_size" <=> pc[u] = "deq_size"
                          /\ pc'[u] = "enq_size" <=> pc[u] = "enq_size"
    BY <1>2 DEF TypeOK
  <2> QED
    BY <1>2, <2>1 DEF WellFormed, SizeCounts
<1>8. OwnElement'
  <2>1. \A u \in Thread \ {t} : pc'[u] = pc[u] /\ el'[u] = el[u]
    BY <1>1, <1>2 DEF TypeOK
  <2>2. pc'[t] = "enq_lock" /\ el'[t] = n /\ nxt'[n] = NULL
    BY <1>1, <1>2 DEF TypeOK
  <2>3. \A u \in Thread \ {t} : pc[u] \in {"enq_lock", "enq_check"}
          => el[u] \in heap \ Range(list) /\ el[u] # n /\ nxt'[el[u]] = NULL
    BY <1>1 DEF WellFormed, OwnElement, TypeOK
  <2> QED
    BY <1>1, <1>2, <1>4, <2>1, <2>2, <2>3 DEF WellFormed, OwnElement
<1> QED
  BY <1>3, <1>6, <1>7, <1>8 DEF WellFormed

\* The element is appended to the chain: behind tail, or as the head of a
\* chain that is empty whatever tail still says.
LEMMA EnqueueLinkStep ==
  ASSUME QueueInv, NEW t \in Thread, EnqueueLink(t)
  PROVE  ListInv'
<1> USE DEF QueueInv, ListInv
<1> DEFINE e == el[t]
<1>1. /\ pc[t] = "enq_check" /\ pc' = [pc EXCEPT ![t] = "enq_size"]
      /\ tail' = e /\ list' = Append(list, e)
      /\ UNCHANGED << mutex, size, data, heap, el, force, out, ret, calls >>
  BY DEF EnqueueLink, Goto
<1>2. /\ head = NULL => head' = e /\ nxt' = nxt
      /\ head # NULL => nxt' = [nxt EXCEPT ![tail] = e] /\ head' = head
  BY DEF EnqueueLink
<1>3. e \in heap \ Range(list) /\ e \in Node /\ nxt[e] = NULL
  BY <1>1 DEF WellFormed, OwnElement, TypeOK
<1>4. list \in Seq(Node) /\ Len(list) \in Nat /\ DOMAIN list = 1..Len(list)
  BY DEF TypeOK
<1>5. /\ list' \in Seq(Node) /\ Len(list') = Len(list) + 1
      /\ list'[Len(list) + 1] = e
      /\ \A i \in 1..Len(list) : list'[i] = list[i]
      /\ DOMAIN list' = 1..(Len(list) + 1)
  BY <1>1, <1>3, <1>4
<1>6. nxt \in [Node -> Node \cup {NULL}] /\ nxt' \in [Node -> Node \cup {NULL}]
  BY <1>2, <1>3, HeadOfChain DEF TypeOK
<1>7. TypeOK'
  <2>1. {head', tail'} \subseteq Node \cup {NULL}
    BY <1>1, <1>2, <1>3 DEF TypeOK
  <2> QED
    BY <1>1, <1>5, <1>6, <2>1 DEF TypeOK, Critical
<1>8. \A i \in 1..Len(list) : list[i] \in Range(list) /\ list[i] \in Node
  BY <1>4 DEF Range
<1>9. \A i, j \in 1..Len(list) : list[i] = list[j] => i = j
  BY <1>4 DEF WellFormed, Linked, IsInjective
<1>10. \A i \in 1..Len(list) :
         nxt[list[i]] = (IF i = Len(list) THEN NULL ELSE list[i + 1])
  BY DEF WellFormed, Linked
<1>11. Linked'
  <2>1. head' = list'[1] /\ list' # << >>
    <3>1. CASE head = NULL
      BY <3>1, <1>2, <1>5, HeadOfChain
    <3>2. CASE head # NULL
      BY <3>2, <1>2, <1>4, <1>5, HeadOfChain
    <3> QED BY <3>1, <3>2
  <2>2. nxt'[e] = NULL
    <3>1. CASE head = NULL
      BY <3>1, <1>2, <1>3
    <3>2. CASE head # NULL
      <4>1. tail \in Range(list)
        BY <3>2, <1>8, HeadOfChain
      <4> QED
        BY <3>2, <4>1, <1>2, <1>3, <1>6
    <3> QED BY <3>1, <3>2
  <2>3. ASSUME NEW i \in 1..Len(list)
        PROVE  nxt'[list'[i]] = list'[i + 1]
    <3>1. head # NULL /\ tail = list[Len(list)] /\ tail \in Node
      BY <1>4, HeadOfChain
    <3>2. nxt' = [nxt EXCEPT ![tail] = e]
      BY <3>1, <1>2
    <3>3. CASE i = Len(list)
      BY <3>1, <3>2, <3>3, <1>5, <1>6
    <3>4. CASE i # Len(list)
      <4>1. list[i] # tail
        <5>1. Len(list) \in 1..Len(list)
          BY <1>4
        <5> QED
          BY <3>1, <3>4, <5>1, <1>9
      <4>2. nxt[list[i]] = list[i + 1]
        BY <3>4, <1>10
      <4>3. nxt'[list[i]] = nxt[list[i]]
        BY <3>2, <4>1, <1>6, <1>8
      <4>4. i + 1 \in 1..Len(list)
        <5>1. Len(list) \in Nat
          BY <1>4
        <5> QED
          BY <3>4, <5>1
      <4> QED
        BY <4>2, <4>3, <4>4, <1>5
    <3> QED BY <3>3, <3>4
  <2>4. IsInjective(list')
    <3>2. \A i \in 1..Len(list) : list[i] # e
      BY <1>3, <1>8
    <3>3. ASSUME NEW i \in 1..(Len(list) + 1), NEW j \in 1..(Len(list) + 1),
                 list'[i] = list'[j]
          PROVE  i = j
      <4>1. /\ i \in 1..Len(list) \/ i = Len(list) + 1
            /\ j \in 1..Len(list) \/ j = Len(list) + 1
        BY <1>4
      <4> QED
        BY <1>9, <3>2, <3>3, <4>1, <1>5
    <3> QED
      BY <3>3, <1>5 DEF IsInjective
  <2>5. Range(list') \subseteq heap'
    <3>1. ASSUME NEW i \in 1..(Len(list) + 1) PROVE list'[i] \in heap
      <4>1. i \in 1..Len(list) \/ i = Len(list) + 1
        BY <1>4
      <4> QED
        BY <4>1, <1>3, <1>5, <1>8 DEF WellFormed, Linked
    <3> QED
      BY <3>1, <1>1, <1>5 DEF Range
  <2>6. \A i \in 1..Len(list') :
          nxt'[list'[i]] = (IF i = Len(list') THEN NULL ELSE list'[i + 1])
    <3>1. \A i \in 1..Len(list') : i \in 1..Len(list) \/ i = Len(list) + 1
      BY <1>4, <1>5
    <3>2. \A i \in 1..Len(list) : i # Len(list')
      BY <1>4, <1>5
    <3> QED
      BY <2>2, <2>3, <3>1, <3>2, <1>5
  <2>7. tail' = list'[Len(list')]
    BY <1>1, <1>5
  <2> QED
    BY <2>1, <2>4, <2>5, <2>6, <2>7 DEF Linked
<1>12. SizeCounts'
  <2>1. size = Len(list)
    BY <1>1, SizeIsLength
  <2>2. \A u \in Thread \ {t} : pc[u] \notin {"enq_size", "deq_size"}
    BY <1>1 DEF LockInv, MutualExclusion, Critical
  <2>3. pc'[t] = "enq_size" /\ \A u \in Thread \ {t} : pc'[u] = pc[u]
    BY <1>1 DEF TypeOK
  <2>4. \A u \in Thread : pc'[u] # "deq_size"
    BY <2>2, <2>3
  <2> QED
    BY <2>1, <2>3, <2>4, <1>1, <1>4, <1>5 DEF SizeCounts
<1>13. OwnElement'
  <2>1. pc'[t] = "enq_size" /\ \A u \in Thread \ {t} : pc'[u] = pc[u]
    BY <1>1 DEF TypeOK
  <2>2. \A y : y \in Range(list') => y \in Range(list) \/ y = e
    <3>1. \A i \in 1..(Len(list) + 1) : i \in 1..Len(list) \/ i = Len(list) + 1
      BY <1>4
    <3> QED
      BY <3>1, <1>5, <1>8 DEF Range
  <2>3. ASSUME NEW u \in Thread, pc'[u] \in {"enq_lock", "enq_check"}
        PROVE  /\ el[u] \in heap \ Range(list')
               /\ nxt'[el[u]] = NULL
    <3>1. u # t /\ pc[u] \in {"enq_lock", "enq_check"}
      BY <2>1, <2>3
    <3>2. /\ el[u] \in heap \ Range(list) /\ el[u] \in Node /\ el[u] # e
          /\ nxt[el[u]] = NULL
      BY <3>1, <1>1 DEF WellFormed, OwnElement, TypeOK
    <3>3. head # NULL => tail \in Range(list)
      BY <1>8, HeadOfChain
    <3>4. nxt'[el[u]] = nxt[el[u]]
      BY <3>2, <3>3, <1>2, <1>6
    <3> QED
      BY <3>2, <3>4, <2>2
  <2>4. \A u, v \in Thread : /\ pc'[u] \in {"enq_lock", "enq_check"}
                             /\ pc'[v] \in {"enq_lock", "enq_check"}
                             /\ u # v
                             => el[u] # el[v]
    BY <2>1 DEF WellFormed, OwnElement
  <2> QED
    BY <2>3, <2>4, <1>1 DEF OwnElement
<1> QED
  BY <1>7, <1>11, <1>12, <1>13 DEF WellFormed

\* The first element leaves the chain and is freed; the rest is a chain.
LEMMA DequeueTakeStep ==
  ASSUME QueueInv, NEW t \in Thread, DequeueTake(t)
  PROVE  ListInv'
<1> USE DEF QueueInv, ListInv
<1>1. /\ pc[t] = "deq_check" /\ pc' = [pc EXCEPT ![t] = "deq_size"]
      /\ size > 0
      /\ head' = nxt[head]
      /\ out' = [out EXCEPT ![t] = data[head]]
      /\ heap' = heap \ {head}
      /\ list' = Tail(list)
      /\ UNCHANGED << mutex, tail, size, nxt, data, el, force, ret, calls >>
  BY DEF DequeueTake, Goto
<1>2. size = Len(list) /\ list \in Seq(Node) /\ DOMAIN list = 1..Len(list)
  BY <1>1, SizeIsLength DEF TypeOK
<1>3. list # << >> /\ Len(list) \in Nat \ {0} /\ head = list[1] /\ head \in Node
      /\ tail = list[Len(list)]
  BY <1>1, <1>2, HeadOfChain
<1>4. /\ list' \in Seq(Node) /\ Len(list') = Len(list) - 1
      /\ DOMAIN list' = 1..(Len(list) - 1)
      /\ \A i \in 1..(Len(list) - 1) : list'[i] = list[i + 1]
  BY <1>1, <1>2, <1>3
<1>5. TypeOK'
  <2>1. head' \in Node \cup {NULL} /\ data[head] \in Item \cup {NoItem}
    BY <1>1, <1>3 DEF TypeOK
  <2> QED
    BY <1>1, <1>4, <2>1 DEF TypeOK, Critical
<1>6. \A i, j \in 1..Len(list) : list[i] = list[j] => i = j
  BY <1>2 DEF WellFormed, Linked, IsInjective
<1>7. \A i \in 1..Len(list) :
        nxt[list[i]] = (IF i = Len(list) THEN NULL ELSE list[i + 1])
  BY DEF WellFormed, Linked
<1>8. \A i \in 1..(Len(list) - 1) : i + 1 \in 1..Len(list) /\ i + 1 # 1
  BY <1>3
<1>9. Linked'
  <2>1. head' = (IF list' = << >> THEN NULL ELSE list'[1])
    <3>1. head' = (IF 1 = Len(list) THEN NULL ELSE list[2])
      <4>1. 1 \in 1..Len(list)
        BY <1>3
      <4>2. nxt[list[1]] = (IF 1 = Len(list) THEN NULL ELSE list[1 + 1])
        BY <4>1, <1>7
      <4> QED
        BY <4>2, <1>1, <1>3
    <3>2. CASE Len(list) = 1
      <4>1. list' = << >>
        BY <3>2, <1>4
      <4> QED
        BY <3>1, <3>2, <4>1
    <3>3. CASE Len(list) # 1
      <4>1. list' # << >> /\ list'[1] = list[2]
        BY <3>3, <1>3, <1>4
      <4> QED
        BY <3>1, <3>3, <4>1
    <3> QED BY <3>2, <3>3
  <2>2. list' # << >> => tail' = list'[Len(list')]
    BY <1>1, <1>3, <1>4
  <2>3. ASSUME NEW i \in 1..Len(list')
        PROVE  nxt'[list'[i]] = (IF i = Len(list') THEN NULL ELSE list'[i + 1])
    <3>1. i \in 1..(Len(list) - 1) /\ i + 1 \in 1..Len(list)
      BY <1>3, <1>4
    <3>2. nxt'[list'[i]] = (IF i + 1 = Len(list) THEN NULL ELSE list[i + 2])
      <4>1. list'[i] = list[i + 1] /\ (i + 1) + 1 = i + 2
        BY <3>1, <1>4
      <4>2. nxt[list[i + 1]]
              = (IF i + 1 = Len(list) THEN NULL ELSE list[(i + 1) + 1])
        BY <3>1, <1>7
      <4> QED
        BY <4>1, <4>2, <1>1
    <3>3. CASE i = Len(list')
      BY <3>1, <3>2, <3>3, <1>3, <1>4
    <3>4. CASE i # Len(list')
      <4>1. i + 1 \in 1..(Len(list) - 1) /\ i + 1 # Len(list)
        BY <3>1, <3>4, <1>3, <1>4
      <4>2. list'[i + 1] = list[i + 2]
        BY <3>1, <4>1, <1>4
      <4> QED
        BY <3>2, <3>4, <4>1, <4>2
    <3> QED BY <3>3, <3>4
  <2>4. IsInjective(list')
    <3>1. ASSUME NEW i \in 1..(Len(list) - 1), NEW j \in 1..(Len(list) - 1),
                 list'[i] = list'[j]
          PROVE  i = j
      <4>1. i + 1 = j + 1
        BY <3>1, <1>4, <1>6, <1>8
      <4> QED
        BY <4>1, <1>3
    <3> QED
      BY <3>1, <1>4 DEF IsInjective
  <2>5. Range(list') \subseteq heap'
    <3>1. ASSUME NEW i \in 1..(Len(list) - 1)
          PROVE  list[i + 1] \in heap /\ list[i + 1] # head
      <4>1. i + 1 \in 1..Len(list) /\ i + 1 # 1 /\ 1 \in 1..Len(list)
        BY <1>3, <1>8
      <4>2. list[i + 1] \in Range(list)
        BY <4>1, <1>2 DEF Range
      <4>3. list[i + 1] # list[1]
        BY <4>1, <1>6
      <4> QED
        BY <4>2, <4>3, <1>3 DEF WellFormed, Linked
    <3> QED
      BY <3>1, <1>1, <1>4 DEF Range
  <2> QED
    BY <2>1, <2>2, <2>3, <2>4, <2>5 DEF Linked
<1>10. pc'[t] = "deq_size" /\ \A u \in Thread \ {t} : pc'[u] = pc[u]
  BY <1>1 DEF TypeOK
<1>11. SizeCounts'
  <2>1. \A u \in Thread \ {t} : pc[u] \notin {"enq_size", "deq_size"}
    BY <1>1 DEF LockInv, MutualExclusion, Critical
  <2>2. \A u \in Thread : pc'[u] # "enq_size"
    BY <1>10, <2>1
  <2> QED
    BY <1>1, <1>2, <1>3, <1>4, <1>10, <2>2 DEF SizeCounts
<1>12. OwnElement'
  <2>1. \A y : y \in Range(list') => y \in Range(list)
    BY <1>2, <1>4, <1>8 DEF Range
  <2>2. head \in Range(list)
    BY <1>2, <1>3 DEF Range
  <2>3. \A u \in Thread : pc'[u] \in {"enq_lock", "enq_check"}
                          => u # t /\ pc[u] \in {"enq_lock", "enq_check"}
    BY <1>10
  <2> QED
    BY <2>1, <2>2, <2>3, <1>1 DEF WellFormed, OwnElement
<1> QED
  BY <1>5, <1>9, <1>11, <1>12 DEF WellFormed

\* A step that touches neither the chain nor the elements, that does not
\* enter the window between the two updates nor leave it, keeps the chain.
LEMMA ChainUntouched ==
  ASSUME WellFormed,
         UNCHANGED << head, tail, size, nxt, heap, list >>,
         \A u \in Thread :
           /\ pc'[u] = "deq_size" <=> pc[u] = "deq_size"
           /\ pc'[u] = "enq_size" <=> pc[u] = "enq_size"
           /\ pc'[u] \in {"enq_lock", "enq_check"}
                => pc[u] \in {"enq_lock", "enq_check"} /\ el'[u] = el[u]
  PROVE  WellFormed'
<1>1. Linked'
  BY DEF WellFormed, Linked
<1>2. SizeCounts'
  BY DEF WellFormed, SizeCounts
<1>3. OwnElement'
  BY DEF WellFormed, OwnElement
<1> QED
  BY <1>1, <1>2, <1>3 DEF WellFormed

\* size++ and size-- close the window the link and the take opened.
LEMMA SizeStep ==
  ASSUME QueueInv, NEW t \in Thread, EnqueueSize(t) \/ DequeueSize(t)
  PROVE  ListInv'
<1> USE DEF QueueInv, ListInv
<1>1. UNCHANGED << mutex, head, tail, nxt, data, heap, el, force, out, calls,
                   list >>
  BY DEF EnqueueSize, DequeueSize
<1>2. Len(list) \in Nat /\ size \in Nat
  BY DEF TypeOK
<1>3. pc[t] \in {"enq_size", "deq_size"}
  BY DEF EnqueueSize, DequeueSize, Goto
<1>4. \A u \in Thread \ {t} : pc[u] \notin {"enq_size", "deq_size"}
  BY <1>3 DEF LockInv, MutualExclusion, Critical
<1>5. \A u \in Thread \ {t} : pc'[u] = pc[u]
  BY DEF EnqueueSize, DequeueSize, Goto, TypeOK
<1>6. pc'[t] \in {"enq_done", "deq_done"}
  BY DEF EnqueueSize, DequeueSize, Goto, TypeOK
<1>7. \A u \in Thread : pc'[u] \notin {"enq_size", "deq_size"}
  BY <1>4, <1>5, <1>6
<1>8. size' = Len(list)
  <2>1. CASE EnqueueSize(t)
    <3>1. size' = size + 1 /\ pc[t] = "enq_size"
      BY <2>1 DEF EnqueueSize, Goto
    <3>2. ~\E u \in Thread : pc[u] = "deq_size"
      BY <3>1, <1>4
    <3> QED
      BY <3>1, <3>2, <1>2 DEF WellFormed, SizeCounts
  <2>2. CASE DequeueSize(t)
    <3>1. size' = size - 1 /\ pc[t] = "deq_size"
      BY <2>2 DEF DequeueSize, Goto
    <3>2. ~\E u \in Thread : pc[u] = "enq_size"
      BY <3>1, <1>4
    <3> QED
      BY <3>1, <3>2, <1>2 DEF WellFormed, SizeCounts
  <2> QED BY <2>1, <2>2
<1>9. TypeOK'
  <2>1. ret' \in [Thread -> Int]
    BY <1>2 DEF EnqueueSize, DequeueSize, TypeOK
  <2>2. pc' \in [Thread -> Critical \cup {"idle", "enq_lock", "deq_lock",
                                          "enq_read", "deq_read"}]
    BY DEF EnqueueSize, DequeueSize, Goto, TypeOK, Critical
  <2> QED
    BY <1>1, <1>2, <1>8, <2>1, <2>2 DEF TypeOK
<1>10. Linked'
  BY <1>1 DEF WellFormed, Linked
<1>11. SizeCounts'
  BY <1>1, <1>2, <1>7, <1>8 DEF SizeCounts
<1>12. OwnElement'
  BY <1>1, <1>5, <1>6 DEF WellFormed, OwnElement
<1> QED
  BY <1>9, <1>10, <1>11, <1>12 DEF WellFormed

\* The other steps move a thread, set what it returns, or take and give the
\* lock.
LEMMA OtherStep ==
  ASSUME QueueInv, NEW t \in Thread,
         \/ DequeueCall(t) \/ Lock(t) \/ EnqueueRefuse(t) \/ DequeueEmpty(t)
         \/ Unlock(t) \/ ReturnSize(t)
  PROVE  ListInv'
<1> USE DEF QueueInv, ListInv
<1>1. CASE DequeueCall(t)
  <2>1. TypeOK'
    BY <1>1 DEF DequeueCall, Goto, TypeOK, Critical
  <2>2. WellFormed'
    BY <1>1, ChainUntouched DEF DequeueCall, Goto, TypeOK
  <2> QED BY <2>1, <2>2
<1>2. CASE Lock(t)
  <2>1. TypeOK'
    BY <1>2 DEF Lock, Goto, TypeOK, Critical
  <2>2. WellFormed'
    BY <1>2, ChainUntouched DEF Lock, Goto, TypeOK
  <2> QED BY <2>1, <2>2
<1>3. CASE EnqueueRefuse(t)
  <2>1. TypeOK'
    BY <1>3 DEF EnqueueRefuse, Goto, TypeOK, Critical
  <2>2. WellFormed'
    BY <1>3, ChainUntouched DEF EnqueueRefuse, Goto, TypeOK
  <2> QED BY <2>1, <2>2
<1>4. CASE DequeueEmpty(t)
  <2>1. TypeOK'
    BY <1>4 DEF DequeueEmpty, Goto, TypeOK, Critical
  <2>2. WellFormed'
    BY <1>4, ChainUntouched DEF DequeueEmpty, Goto, TypeOK
  <2> QED BY <2>1, <2>2
<1>5. CASE Unlock(t)
  <2>1. TypeOK'
    BY <1>5 DEF Unlock, Exits, Goto, TypeOK, Critical
  <2>2. \A u \in Thread \ {t} : pc'[u] = pc[u] /\ el'[u] = el[u]
    BY <1>5 DEF Unlock, Goto, TypeOK
  <2>3. pc[t] \in {"enq_refused", "enq_done", "deq_done", "deq_empty"}
    BY <1>5 DEF Unlock, Exits, Goto
  <2>4. pc'[t] \in {"idle", "enq_read", "deq_read"}
    BY <1>5 DEF Unlock, Exits, Goto, TypeOK
  <2>5. UNCHANGED << head, tail, size, nxt, heap, list >>
    BY <1>5 DEF Unlock
  <2>6. WellFormed'
    BY <2>2, <2>3, <2>4, <2>5, ChainUntouched
  <2> QED BY <2>1, <2>6
<1>6. CASE ReturnSize(t)
  <2>1. TypeOK'
    <3>1. size \in Int
      BY DEF TypeOK
    <3>2. ret' \in [Thread -> Int]
      BY <1>6, <3>1 DEF ReturnSize, TypeOK
    <3>3. pc' \in [Thread -> Critical \cup {"idle", "enq_lock", "deq_lock",
                                            "enq_read", "deq_read"}]
      BY <1>6 DEF ReturnSize, Goto, TypeOK, Critical
    <3> QED
      BY <1>6, <3>2, <3>3 DEF ReturnSize, TypeOK
  <2>2. WellFormed'
    BY <1>6, ChainUntouched DEF ReturnSize, Goto, TypeOK
  <2> QED BY <2>1, <2>2
<1> QED
  BY <1>1, <1>2, <1>3, <1>4, <1>5, <1>6

\* Every step keeps the lock exclusive and the chain a queue.
LEMMA QueueStep == QueueInv /\ [Next]_vars => QueueInv'
<1> SUFFICES ASSUME QueueInv, [Next]_vars PROVE QueueInv'
  OBVIOUS
<1>1. LockInv'
  BY LockStep DEF QueueInv
<1>2. CASE UNCHANGED vars
  <2>1. TypeOK'
    BY <1>2 DEF vars, QueueInv, ListInv, TypeOK
  <2>2. WellFormed'
    BY <1>2, ChainUntouched DEF vars, QueueInv, ListInv
  <2> QED
    BY <1>1, <2>1, <2>2 DEF QueueInv, ListInv
<1>3. ASSUME NEW t \in Thread, EnqueueCall(t) \/ DequeueCall(t) \/ InCall(t)
      PROVE  ListInv'
  BY <1>3, EnqueueCallStep, EnqueueLinkStep, DequeueTakeStep, SizeStep,
     OtherStep DEF InCall
<1> QED
  BY <1>1, <1>2, <1>3 DEF Next, QueueInv

\* The lock and the list of queue.c keep their invariant.
THEOREM QueueInvHolds == Spec => []QueueInv
<1>1. Init => QueueInv
  BY LockInit, ListInit DEF QueueInv
<1> QED
  BY <1>1, QueueStep, PTL DEF Spec

\* Every variable of queue.c keeps its type; size is never negative.
THEOREM QueueTypeCorrect == Spec => []TypeOK
<1>1. QueueInv => TypeOK
  BY DEF QueueInv, ListInv
<1> QED
  BY QueueInvHolds, <1>1, PTL

\* In every interleaving of enqueues and dequeues the chain from head to tail
\* is the queue, its elements are allocated, size counts it, and the element
\* of an enqueue under way is its own.
THEOREM QueueWellFormed == Spec => []WellFormed
<1>1. QueueInv => WellFormed
  BY DEF QueueInv, ListInv
<1> QED
  BY QueueInvHolds, <1>1, PTL

-----------------------------------------------------------------------------
(* The list implements the queue of TaskQueue.                             *)

Chained == [i \in 1..Len(list) |-> data[list[i]]]

\* What an element holds was put in it before the lock was taken, so every
\* linked element has the item of its enqueue.
ItemsPresent ==
  /\ \A i \in 1..Len(list) : data[list[i]] \in Item
  /\ \A t \in Thread :
       pc[t] \in {"enq_lock", "enq_check"} => data[el[t]] \in Item

\* Only an enqueue that begins writes to an element, and that element is not
\* yet known to another thread.
LEMMA CallKeepsItems ==
  ASSUME QueueInv, ItemsPresent, NEW t \in Thread, EnqueueCall(t)
  PROVE  ItemsPresent' /\ Chained' = Chained
<1>1. PICK n \in Node \ heap, x \in Item :
        /\ data' = [data EXCEPT ![n] = x]
        /\ el' = [el EXCEPT ![t] = n]
  BY DEF EnqueueCall
<1>2. pc' = [pc EXCEPT ![t] = "enq_lock"] /\ list' = list
  BY DEF EnqueueCall, Goto
<1>3. TypeOK /\ Linked /\ OwnElement
  BY DEF QueueInv, ListInv, WellFormed
<1>4. \A i \in 1..Len(list) : list[i] \in Range(list) /\ list[i] \in Node
  BY <1>3 DEF Range, TypeOK
<1>5. \A i \in 1..Len(list) : data'[list[i]] = data[list[i]]
  BY <1>1, <1>3, <1>4 DEF Linked, TypeOK
<1>6. \A u \in Thread \ {t} : /\ pc'[u] = pc[u] /\ el'[u] = el[u]
                              /\ pc[u] \in {"enq_lock", "enq_check"}
                                   => data'[el[u]] = data[el[u]]
  BY <1>1, <1>2, <1>3 DEF OwnElement, TypeOK
<1>7. data'[el'[t]] = x
  BY <1>1, <1>3 DEF TypeOK
<1>8. Chained' = Chained
  BY <1>2, <1>5 DEF Chained
<1> QED
  BY <1>1, <1>2, <1>5, <1>6, <1>7, <1>8 DEF ItemsPresent

\* Appending an element to the chain appends its item to the queue, within
\* the capacity or by force.
LEMMA LinkEnqueues ==
  ASSUME QueueInv, ItemsPresent, NEW t \in Thread, EnqueueLink(t)
  PROVE  ItemsPresent' /\ Abstract!Next
<1>1. /\ pc[t] = "enq_check" /\ pc' = [pc EXCEPT ![t] = "enq_size"]
      /\ ~AtLimit \/ force[t]
      /\ list' = Append(list, el[t]) /\ UNCHANGED << data, el >>
  BY DEF EnqueueLink, Goto
<1>2. TypeOK /\ OwnElement
  BY DEF QueueInv, ListInv, WellFormed
<1>3. size = Len(list)
  BY <1>1, SizeIsLength
<1>4. Len(list) \in Nat /\ list \in Seq(Node) /\ force[t] \in BOOLEAN
  BY <1>2 DEF TypeOK
<1>5. el[t] \in Node
  BY <1>1, <1>2 DEF OwnElement, TypeOK
<1>6. data[el[t]] \in Item
  BY <1>1 DEF ItemsPresent
<1>7. Len(Chained) = Len(list) /\ Chained \in Seq(Item)
  BY <1>4 DEF Chained, ItemsPresent
<1>8. /\ Len(list') = Len(list) + 1
      /\ \A i \in 1..(Len(list) + 1) :
           list'[i] = IF i = Len(list) + 1 THEN el[t] ELSE list[i]
  BY <1>1, <1>4, <1>5
<1>9. Chained' = Append(Chained, data[el[t]])
  <2>1. Chained' = [i \in 1..(Len(list) + 1) |-> data[list'[i]]]
    BY <1>1, <1>8 DEF Chained
  <2>2. Append(Chained, data[el[t]])
          = [i \in 1..(Len(list) + 1) |->
               IF i = Len(list) + 1 THEN data[el[t]] ELSE Chained[i]]
    BY <1>6, <1>7
  <2>3. \A i \in 1..(Len(list) + 1) :
          data[list'[i]] = IF i = Len(list) + 1 THEN data[el[t]] ELSE Chained[i]
    <3>1. \A i \in 1..(Len(list) + 1) : i # Len(list) + 1 => i \in 1..Len(list)
      BY <1>4
    <3> QED
      BY <3>1, <1>8 DEF Chained
  <2> QED
    BY <2>1, <2>2, <2>3
<1>10. force[t] \/ ~Abstract!Full
  BY <1>1, <1>3, <1>7 DEF AtLimit, Abstract!Full, Chained
<1>11. Abstract!Next
  <2>1. \E item \in Item, forced \in BOOLEAN :
          (forced \/ ~Abstract!Full) /\ Chained' = Append(Chained, item)
    BY <1>4, <1>6, <1>9, <1>10
  <2> QED
    BY <2>1 DEF Abstract!Next, Abstract!Enqueue, Chained
<1>12. ItemsPresent'
  <2>1. \A i \in 1..Len(list') : data'[list'[i]] \in Item
    <3>1. \A i \in 1..Len(list') : i # Len(list) + 1 => i \in 1..Len(list)
      BY <1>4, <1>8
    <3> QED
      BY <3>1, <1>1, <1>6, <1>8 DEF ItemsPresent
  <2>2. \A u \in Thread : pc'[u] \in {"enq_lock", "enq_check"} => pc'[u] = pc[u]
    BY <1>1, <1>2 DEF TypeOK
  <2> QED
    BY <2>1, <2>2, <1>1 DEF ItemsPresent
<1> QED
  BY <1>11, <1>12

\* What is left of a sequence that is not empty, element by element.
LEMMA TailElements ==
  ASSUME NEW S, NEW s \in Seq(S), Len(s) \in Nat \ {0}
  PROVE  Tail(s) = [i \in 1..(Len(s) - 1) |-> s[i + 1]]
<1>1. Tail(s) \in Seq(S) /\ Len(Tail(s)) = Len(s) - 1
  OBVIOUS
<1>2. \A i \in 1..(Len(s) - 1) : Tail(s)[i] = s[i + 1]
  OBVIOUS
<1>3. Tail(s) = [i \in 1..Len(Tail(s)) |-> Tail(s)[i]]
  <2>1. ASSUME NEW r \in Seq(S) PROVE r = [i \in 1..Len(r) |-> r[i]]
    OBVIOUS
  <2> QED
    BY <1>1, <2>1, Zenon
<1> QED
  BY <1>1, <1>2, <1>3

\* Taking the head of the chain takes the oldest item of the queue.
LEMMA TakeDequeues ==
  ASSUME QueueInv, ItemsPresent, NEW t \in Thread, DequeueTake(t)
  PROVE  ItemsPresent' /\ Abstract!Next
<1>1. /\ pc[t] = "deq_check" /\ pc' = [pc EXCEPT ![t] = "deq_size"]
      /\ size > 0 /\ list' = Tail(list) /\ UNCHANGED << data, el >>
  BY DEF DequeueTake, Goto
<1>2. TypeOK
  BY DEF QueueInv, ListInv
<1>3. list \in Seq(Node) /\ Len(list) \in Nat \ {0}
  <2>1. size = Len(list)
    BY <1>1, SizeIsLength
  <2> QED
    BY <2>1, <1>1, <1>2 DEF TypeOK
<1>4. Chained \in Seq(Item) /\ Len(Chained) = Len(list)
  BY <1>3 DEF Chained, ItemsPresent
<1>5. /\ Len(list') = Len(list) - 1
      /\ \A i \in 1..(Len(list) - 1) : list'[i] = list[i + 1]
                                       /\ i + 1 \in 1..Len(list)
  BY <1>1, <1>3
<1>6. Chained' = Tail(Chained)
  <2>1. Chained' = [i \in 1..(Len(list) - 1) |-> data[list'[i]]]
    BY <1>1, <1>5 DEF Chained
  <2>2. Tail(Chained) = [i \in 1..(Len(list) - 1) |-> Chained[i + 1]]
    BY <1>3, <1>4, TailElements
  <2>3. \A i \in 1..(Len(list) - 1) : data[list'[i]] = Chained[i + 1]
    BY <1>5 DEF Chained
  <2> QED
    BY <2>1, <2>2, <2>3
<1>7. Chained # << >> /\ Head(Chained) \in Item
  BY <1>3, <1>4
<1>8. Abstract!Next
  <2>1. \E item \in Item : /\ Chained # << >>
                            /\ item = Head(Chained)
                            /\ Chained' = Tail(Chained)
    BY <1>6, <1>7
  <2> QED
    BY <2>1 DEF Abstract!Next, Abstract!Dequeue, Chained
<1>9. ItemsPresent'
  <2>1. \A u \in Thread : pc'[u] \in {"enq_lock", "enq_check"} => pc'[u] = pc[u]
    BY <1>1, <1>2 DEF TypeOK
  <2> QED
    BY <2>1, <1>1, <1>5 DEF ItemsPresent
<1> QED
  BY <1>8, <1>9

\* The other steps leave the chain, the items and the callers' elements.
LEMMA OtherKeepsItems ==
  ASSUME QueueInv, ItemsPresent, NEW t \in Thread,
         \/ DequeueCall(t) \/ Lock(t) \/ EnqueueRefuse(t) \/ EnqueueSize(t)
         \/ DequeueSize(t) \/ DequeueEmpty(t) \/ Unlock(t) \/ ReturnSize(t)
  PROVE  ItemsPresent' /\ Chained' = Chained
<1>1. UNCHANGED << list, data >>
  BY DEF DequeueCall, Lock, EnqueueRefuse, EnqueueSize, DequeueSize,
         DequeueEmpty, Unlock, ReturnSize
<1>2. TypeOK
  BY DEF QueueInv, ListInv
<1>3. \A u \in Thread : pc'[u] \in {"enq_lock", "enq_check"}
        => pc[u] \in {"enq_lock", "enq_check"} /\ el'[u] = el[u]
  <2>1. CASE Unlock(t)
    BY <2>1, <1>2 DEF Unlock, Exits, Goto, TypeOK
  <2>2. CASE \/ DequeueCall(t) \/ Lock(t) \/ EnqueueRefuse(t) \/ EnqueueSize(t)
             \/ DequeueSize(t) \/ DequeueEmpty(t) \/ ReturnSize(t)
    BY <2>2, <1>2 DEF DequeueCall, Lock, EnqueueRefuse, EnqueueSize,
       DequeueSize, DequeueEmpty, ReturnSize, Goto, TypeOK
  <2> QED BY <2>1, <2>2
<1> QED
  BY <1>1, <1>3 DEF ItemsPresent, Chained

\* A step of the list is a step of the queue or leaves it as it is.
LEMMA RefinementStep ==
  ASSUME QueueInv, ItemsPresent, [Next]_vars
  PROVE  ItemsPresent' /\ (Abstract!Next \/ Chained' = Chained)
<1>1. CASE UNCHANGED vars
  BY <1>1 DEF vars, ItemsPresent, Chained
<1>2. ASSUME NEW t \in Thread, EnqueueCall(t) \/ DequeueCall(t) \/ InCall(t)
      PROVE  ItemsPresent' /\ (Abstract!Next \/ Chained' = Chained)
  BY <1>2, CallKeepsItems, LinkEnqueues, TakeDequeues, OtherKeepsItems
     DEF InCall
<1> QED
  BY <1>1, <1>2 DEF Next

\* The linked list of queue.c under its spinlock is a queue: every behaviour
\* of any number of threads is, at the step that links and the step that
\* takes, one of the first-in first-out queue with a soft capacity.
THEOREM QueueRefines == Spec => ImplementsTaskQueue
<1>1. Init => ItemsPresent /\ Abstract!Init
  <2> SUFFICES ASSUME Init PROVE ItemsPresent /\ Abstract!Init
    OBVIOUS
  <2>1. list = << >> /\ 1..Len(list) = {}
    BY DEF Init
  <2>2. Chained = << >>
    BY <2>1 DEF Chained
  <2> QED
    BY <2>1, <2>2 DEF Init, ItemsPresent, Abstract!Init, Chained
<1>2. QueueInv /\ ItemsPresent /\ [Next]_vars
        => ItemsPresent' /\ [Abstract!Next]_Chained
  BY RefinementStep
<1>3. QueueInv /\ ItemsPresent /\ [Next]_vars
        => ItemsPresent'
           /\ [Abstract!Next]_([i \in 1..Len(list) |-> data[list[i]]])
  BY <1>2 DEF Chained
<1> QED
  BY <1>1, <1>3, QueueInvHolds, PTL DEF Spec, ImplementsTaskQueue, Abstract!Spec
=============================================================================
