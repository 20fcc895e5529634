----------------------------- MODULE HashTable -------------------------------
(***************************************************************************)
(* The intrusive hash table of lib/uthash.h as the engine uses it: the     *)
(* posting lists of a segment by term, its documents by key, the fields of *)
(* a document by name.  An item is on two lists, the one of all items in   *)
(* the order they were added and the chain of its bucket; the buckets are  *)
(* doubled when a chain gets too long.                                     *)
(*                                                                         *)
(* One thread writes a segment's tables (HASH_ADD, segment.c:21 and :35)   *)
(* while lookups read them without a lock (HASH_FIND, segment.c:141, and   *)
(* HASH_ITER, :120): a step here is what a reader can see between two      *)
(* writes.  HASH_DELETE is used on the fields of private documents only,   *)
(* with no reader about.  A lookup finds or iterates, one at a time.       *)
(***************************************************************************)
EXTENDS Naturals, Sequences, FiniteSets

CONSTANTS HashItem,                  \* the items, positive numbers
          HashOf,                    \* HashOf[i]: hashv, the hash of i's key
          HASH_INITIAL_NUM_BUCKETS,
          HASH_BKT_CAPACITY_THRESH,
          MaxAdds                    \* bound: adds of one behaviour

ASSUME HashAssumption ==
  /\ HashItem \subseteq Nat \ {0} /\ IsFiniteSet(HashItem)
  /\ HashOf \in [HashItem -> Nat]
  /\ HASH_INITIAL_NUM_BUCKETS \in Nat \ {0}
  /\ HASH_BKT_CAPACITY_THRESH \in Nat \ {0}

NIL == 0

VARIABLES
  hhead,       \* the user's head pointer
  tbl,         \* UT_hash_table: num_buckets, num_items, tail and the counters
  appNext,     \* hh.next
  appPrev,     \* hh.prev
  chainNext,   \* hh.hh_next
  chainPrev,   \* hh.hh_prev
  buckets,     \* tbl->buckets: [0..n-1 -> [first, count, mult]]
  newBuckets,  \* the array of an expansion, << >> when there is none
  arrayFreed,  \* tbl->buckets points to the array that was freed
  wpc, adding, \* the writer: where it is, and the item it adds
  todo,        \* the items an expansion has still to move
  order,       \* history: the items in the table as they were added
  adds,        \* how many adds have begun
  fpc, fkey, fsize, fat,    \* HASH_FIND: place, item wanted, num_buckets, out
  fpresent, fexpanded,      \* history: the item was in, an expansion ran
  hfault,                   \* the reader has read a freed array
  ipc, el, tmp, visited,    \* HASH_ITER: place, its variables, what it has met
  istart                    \* history: the order when it began

hashVars == << hhead, tbl, appNext, appPrev, chainNext, chainPrev, buckets,
               newBuckets, arrayFreed, wpc, adding, todo, order, adds >>
findVars == << fpc, fkey, fsize, fat, fpresent, fexpanded, hfault >>
iterVars == << ipc, el, tmp, visited, istart >>

EmptyBucket == [first |-> NIL, count |-> 0, mult |-> 0]
EmptyArray(n) == [b \in 0..(n - 1) |-> EmptyBucket]

NoTable == [n |-> HASH_INITIAL_NUM_BUCKETS, items |-> 0, tail |-> NIL,
            ideal |-> 0, nonideal |-> 0, ineff |-> 0, noexpand |-> FALSE]

HashInit ==
  /\ hhead = NIL
  /\ tbl = NoTable
  /\ appNext = [i \in HashItem |-> NIL] /\ appPrev = [i \in HashItem |-> NIL]
  /\ chainNext = [i \in HashItem |-> NIL]
  /\ chainPrev = [i \in HashItem |-> NIL]
  /\ buckets = EmptyArray(HASH_INITIAL_NUM_BUCKETS)
  /\ newBuckets = << >>
  /\ arrayFreed = FALSE
  /\ wpc = "idle" /\ adding = NIL /\ todo = << >>
  /\ order = << >> /\ adds = 0
  /\ fpc = "idle" /\ fkey = NIL /\ fsize = 0 /\ fat = NIL
  /\ fpresent = FALSE /\ fexpanded = FALSE /\ hfault = FALSE
  /\ ipc = "idle" /\ el = NIL /\ tmp = NIL /\ visited = << >>
  /\ istart = << >>

\* HASH_TO_BKT
ToBucket(i, n) == HashOf[i] % n

Members == {order[j] : j \in DOMAIN order}

-----------------------------------------------------------------------------
(* HASH_ADD.                                                               *)

BeginAdd(i) ==
  /\ ~hfault
  /\ wpc = "idle"
  /\ adds < MaxAdds
  /\ i \notin Members
  /\ adds' = adds + 1
  /\ adding' = i
  /\ wpc' = "bucket"
  /\ appNext' = [appNext EXCEPT ![i] = NIL,
                                ![IF hhead = NIL THEN i ELSE tbl.tail] =
                                  IF hhead = NIL THEN NIL ELSE i]
  /\ order' = Append(order, i)

\* HASH_MAKE_TABLE: the first item brings the table with it.
AddFirst(i) ==
  /\ hhead = NIL
  /\ BeginAdd(i)
  /\ appPrev' = [appPrev EXCEPT ![i] = NIL]
  /\ tbl' = [NoTable EXCEPT !.tail = i]
  /\ buckets' = EmptyArray(HASH_INITIAL_NUM_BUCKETS)
  /\ hhead' = i
  /\ UNCHANGED << chainNext, chainPrev, newBuckets, arrayFreed, todo, findVars,
                  iterVars >>

\* HASH_APPEND_LIST: from here on an iteration meets the item.
AddAppend(i) ==
  /\ hhead # NIL
  /\ BeginAdd(i)
  /\ appPrev' = [appPrev EXCEPT ![i] = tbl.tail]
  /\ tbl' = [tbl EXCEPT !.tail = i]
  /\ UNCHANGED << hhead, chainNext, chainPrev, buckets, newBuckets, arrayFreed,
                  todo, findVars, iterVars >>

\* Mutant of Linked: the old first item's hh_prev is forgotten.
LinkedOneWay(bs, i, b, prev) == prev

\* The hh_prev pointers once i is the first of bucket b.
Linked(bs, i, b, prev) ==
  IF bs[b].first = NIL THEN [prev EXCEPT ![i] = NIL]
  ELSE [prev EXCEPT ![i] = NIL, ![bs[b].first] = i]

TooLong(bkt) == bkt.count >= (bkt.mult + 1) * HASH_BKT_CAPACITY_THRESH

\* HASH_ADD_TO_TABLE, HASH_ADD_TO_BKT: the item is put before its chain.
AddToBucket ==
  /\ wpc = "bucket"
  /\ LET b   == ToBucket(adding, tbl.n)
         new == [first |-> adding, count |-> buckets[b].count + 1,
                 mult |-> buckets[b].mult]
     IN  /\ chainNext' = [chainNext EXCEPT ![adding] = buckets[b].first]
         /\ chainPrev' = Linked(buckets, adding, b, chainPrev)
         /\ buckets' = [buckets EXCEPT ![b] = new]
         /\ IF TooLong(new) /\ ~tbl.noexpand
            THEN wpc' = "expand" /\ UNCHANGED adding
            ELSE wpc' = "idle" /\ adding' = NIL
  /\ tbl' = [tbl EXCEPT !.items = @ + 1]
  /\ UNCHANGED << hhead, appNext, appPrev, newBuckets, arrayFreed, todo, order,
                  adds, findVars, iterVars >>

-----------------------------------------------------------------------------
(* HASH_EXPAND_BUCKETS: the items are moved one by one to an array of      *)
(* twice the size; their chain pointers change under the readers of the    *)
(* old one, which is freed before the new one takes its place.             *)

Overlap == fexpanded' = (fexpanded \/ fpc # "idle")

\* The items met along a link, from i on.
Met(i, link) ==
  LET from[n \in 0..Cardinality(HashItem)] ==
        [j \in HashItem \cup {NIL} |->
           IF j = NIL \/ n = 0 THEN << >> ELSE << j >> \o from[n - 1][link[j]]]
  IN  from[Cardinality(HashItem)][i]

\* Items of a bucket, first to last.
Chain(bs, b, link) == Met(bs[b].first, link)

\* Mutant of ByBucket: the loop ends one bucket early.
ByBucketButLast ==
  LET upto[b \in 0..tbl.n] ==
        IF b = 0 THEN << >> ELSE upto[b - 1] \o Chain(buckets, b - 1, chainNext)
  IN  upto[tbl.n - 1]

\* All items, in the order of the two loops of the expansion.
ByBucket ==
  LET upto[b \in 0..tbl.n] ==
        IF b = 0 THEN << >> ELSE upto[b - 1] \o Chain(buckets, b - 1, chainNext)
  IN  upto[tbl.n]

CeilDiv(a, b) == (a \div b) + (IF a % b # 0 THEN 1 ELSE 0)

ExpandBegin ==
  /\ wpc = "expand"
  /\ newBuckets' = EmptyArray(2 * tbl.n)
  /\ tbl' = [tbl EXCEPT !.ideal = CeilDiv(tbl.items, 2 * tbl.n), !.nonideal = 0]
  /\ todo' = ByBucket
  /\ wpc' = "move"
  /\ Overlap
  /\ UNCHANGED << hhead, appNext, appPrev, chainNext, chainPrev, buckets,
                  arrayFreed, adding, order, adds, fpc, fkey, fsize, fat,
                  fpresent, hfault, iterVars >>

ExpandMove ==
  /\ wpc = "move"
  /\ todo # << >>
  /\ LET i       == Head(todo)
         b       == ToBucket(i, 2 * tbl.n)
         count   == newBuckets[b].count + 1
         crowded == count > tbl.ideal
         more    == crowded /\ count > newBuckets[b].mult * tbl.ideal
     IN  /\ tbl' = [tbl EXCEPT !.nonideal = IF crowded THEN @ + 1 ELSE @]
         /\ newBuckets' = [newBuckets EXCEPT ![b] =
              [first |-> i, count |-> count,
               mult |-> IF more THEN @.mult + 1 ELSE @.mult]]
         /\ chainNext' = [chainNext EXCEPT ![i] = newBuckets[b].first]
         /\ chainPrev' = Linked(newBuckets, i, b, chainPrev)
  /\ todo' = Tail(todo)
  /\ Overlap
  /\ UNCHANGED << hhead, appNext, appPrev, buckets, arrayFreed, wpc, adding,
                  order, adds, fpc, fkey, fsize, fat, fpresent, hfault,
                  iterVars >>

\* uthash_free of the old array.
ExpandFree ==
  /\ wpc = "move"
  /\ todo = << >>
  /\ arrayFreed' = TRUE
  /\ wpc' = "resize"
  /\ Overlap
  /\ UNCHANGED << hhead, tbl, appNext, appPrev, chainNext, chainPrev, buckets,
                  newBuckets, adding, todo, order, adds, fpc, fkey, fsize, fat,
                  fpresent, hfault, iterVars >>

ExpandResize ==
  /\ wpc = "resize"
  /\ tbl' = [tbl EXCEPT !.n = 2 * @]
  /\ wpc' = "publish"
  /\ Overlap
  /\ UNCHANGED << hhead, appNext, appPrev, chainNext, chainPrev, buckets,
                  newBuckets, arrayFreed, adding, todo, order, adds, fpc, fkey,
                  fsize, fat, fpresent, hfault, iterVars >>

\* tbl->buckets and the judgement of the expansion; the add returns.
ExpandPublish ==
  /\ wpc = "publish"
  /\ buckets' = newBuckets
  /\ newBuckets' = << >>
  /\ arrayFreed' = FALSE
  /\ LET ineff == IF tbl.nonideal > tbl.items \div 2 THEN tbl.ineff + 1 ELSE 0
     IN  tbl' = [tbl EXCEPT !.ineff = ineff, !.noexpand = @ \/ ineff > 1]
  /\ wpc' = "idle"
  /\ adding' = NIL
  /\ Overlap
  /\ UNCHANGED << hhead, appNext, appPrev, chainNext, chainPrev, todo, order,
                  adds, fpc, fkey, fsize, fat, fpresent, hfault, iterVars >>

-----------------------------------------------------------------------------
(* HASH_DELETE.                                                            *)

Idle == wpc = "idle" /\ fpc = "idle" /\ ipc = "idle" /\ ~hfault

\* order without i, which is in it once.
PlaceOf(i) == CHOOSE j \in DOMAIN order : order[j] = i
Without(i) == [j \in 1..(Len(order) - 1) |->
                 order[IF j < PlaceOf(i) THEN j ELSE j + 1]]

\* The only item: the table goes with it.
DeleteOnly(i) ==
  /\ Idle
  /\ hhead = i /\ appPrev[i] = NIL /\ appNext[i] = NIL
  /\ hhead' = NIL
  /\ tbl' = NoTable
  /\ buckets' = EmptyArray(HASH_INITIAL_NUM_BUCKETS)
  /\ order' = Without(i)
  /\ UNCHANGED << appNext, appPrev, chainNext, chainPrev, newBuckets,
                  arrayFreed, wpc, adding, todo, adds, findVars, iterVars >>

\* link with the pointer of p, if there is one, set to q.
Set(link, p, q) == IF p = NIL THEN link ELSE [link EXCEPT ![p] = q]

DeleteOne(i) ==
  /\ Idle
  /\ i \in Members
  /\ appPrev[i] # NIL \/ appNext[i] # NIL
  /\ hhead' = IF appPrev[i] = NIL THEN appNext[i] ELSE hhead
  /\ appNext' = Set(appNext, appPrev[i], appNext[i])
  /\ appPrev' = Set(appPrev, appNext[i], appPrev[i])
  /\ chainNext' = Set(chainNext, chainPrev[i], chainNext[i])
  /\ chainPrev' = Set(chainPrev, chainNext[i], chainPrev[i])
  /\ buckets' = [buckets EXCEPT ![ToBucket(i, tbl.n)] =
                   [first |-> IF @.first = i THEN chainNext[i] ELSE @.first,
                    count |-> @.count - 1, mult |-> @.mult]]
  /\ tbl' = [tbl EXCEPT !.items = @ - 1,
                        !.tail = IF @ = i THEN appPrev[i] ELSE @]
  /\ order' = Without(i)
  /\ UNCHANGED << newBuckets, arrayFreed, wpc, adding, todo, adds, findVars,
                  iterVars >>

-----------------------------------------------------------------------------
(* HASH_FIND by a lookup.                                                  *)

Unwritten == UNCHANGED << hashVars, iterVars >>

Completed == {i \in Members : i # adding}

FindBegin(i) ==
  /\ fpc = "idle" /\ ipc = "idle" /\ ~hfault
  /\ hhead # NIL
  /\ fkey' = i
  /\ fsize' = tbl.n
  /\ fpresent' = (i \in Completed)
  /\ fexpanded' = (wpc \in {"expand", "move", "resize", "publish"})
  /\ fpc' = "bucket"
  /\ UNCHANGED << fat, hfault >>
  /\ Unwritten

\* The array of buckets, at the index the size read before gives.
FindBucket ==
  /\ fpc = "bucket"
  /\ hfault' = arrayFreed
  /\ fat' = IF arrayFreed THEN NIL ELSE buckets[ToBucket(fkey, fsize)].first
  /\ fpc' = "walk"
  /\ UNCHANGED << fkey, fsize, fpresent, fexpanded >>
  /\ Unwritten

\* HASH_FIND_IN_BKT
FindWalk ==
  /\ fpc = "walk" /\ ~hfault
  /\ fat # NIL /\ fat # fkey
  /\ fat' = chainNext[fat]
  /\ UNCHANGED << fpc, fkey, fsize, fpresent, fexpanded, hfault >>
  /\ Unwritten

FindReturn ==
  /\ fpc = "walk" /\ ~hfault
  /\ fat \in {NIL, fkey}
  /\ fpc' = "idle" /\ fkey' = NIL /\ fsize' = 0 /\ fat' = NIL
  /\ fpresent' = FALSE /\ fexpanded' = FALSE
  /\ UNCHANGED hfault
  /\ Unwritten

-----------------------------------------------------------------------------
(* HASH_ITER by a lookup: tmp is loaded before the body of the loop runs.  *)

IterBegin ==
  /\ ipc = "idle" /\ fpc = "idle" /\ ~hfault
  /\ hhead # NIL
  /\ el' = hhead
  /\ tmp' = appNext[hhead]
  /\ istart' = order
  /\ ipc' = "loop"
  /\ UNCHANGED << hashVars, findVars, visited >>

\* Mutant of IterNext: it follows the chain of the bucket.
IterNextInChain ==
  /\ ipc = "loop" /\ ~hfault
  /\ el # NIL
  /\ visited' = Append(visited, el)
  /\ el' = tmp
  /\ tmp' = IF tmp = NIL THEN NIL ELSE chainNext[tmp]
  /\ UNCHANGED << hashVars, findVars, ipc, istart >>

IterNext ==
  /\ ipc = "loop" /\ ~hfault
  /\ el # NIL
  /\ visited' = Append(visited, el)
  /\ el' = tmp
  /\ tmp' = IF tmp = NIL THEN NIL ELSE appNext[tmp]
  /\ UNCHANGED << hashVars, findVars, ipc, istart >>

IterEnd ==
  /\ ipc = "loop" /\ ~hfault
  /\ el = NIL
  /\ ipc' = "idle"
  /\ visited' = << >>
  /\ istart' = << >>
  /\ UNCHANGED << hashVars, findVars, el, tmp >>

HashNext ==
  \/ \E i \in HashItem : \/ AddFirst(i)
                         \/ AddAppend(i)
                         \/ DeleteOnly(i)
                         \/ DeleteOne(i)
                         \/ FindBegin(i)
  \/ AddToBucket
  \/ ExpandBegin
  \/ ExpandMove
  \/ ExpandFree
  \/ ExpandResize
  \/ ExpandPublish
  \/ FindBucket
  \/ FindWalk
  \/ FindReturn
  \/ IterBegin
  \/ IterNext
  \/ IterEnd

HashSpec == HashInit /\ [][HashNext]_<< hashVars, findVars, iterVars >>

-----------------------------------------------------------------------------
(* Properties.                                                             *)

AppList == Met(hhead, appNext)

Backwards(seq, link) ==
  \A j \in DOMAIN seq : link[seq[j]] = IF j = 1 THEN NIL ELSE seq[j - 1]

\* HASH_FSCK (uthash.h:526): the lists agree with their prev pointers, their
\* counters and each other after every add and delete.
HashIntegrity ==
  wpc = "idle" =>
    /\ AppList = order
    /\ Backwards(order, appPrev)
    /\ tbl.items = Len(order)
    /\ \A b \in 0..(tbl.n - 1) :
         LET c == Chain(buckets, b, chainNext) IN
         /\ Backwards(c, chainPrev)
         /\ buckets[b].count = Len(c)
         /\ {c[j] : j \in DOMAIN c} = {i \in Members : ToBucket(i, tbl.n) = b}

\* A lookup misses a term that was in the table when it began, or reads a freed
\* array of buckets, only if the table was being expanded meanwhile.
MissOnlyDuringExpansion ==
  /\ fpc = "walk" /\ fat = NIL /\ fpresent => fexpanded
  /\ hfault => fexpanded

IsPrefixOf(s, t) == Len(s) <= Len(t) /\ SubSeq(t, 1, Len(s)) = s

\* An iteration meets every key that was there when it began, in the order they
\* were added and none twice, whatever is added meanwhile, expansions included.
IterationComplete ==
  ipc = "loop" =>
    /\ IsPrefixOf(visited, order)
    /\ el = NIL => IsPrefixOf(istart, visited)

=============================================================================
