------------------------------- MODULE DocIds --------------------------------
(***************************************************************************)
(* The container of doc_id pointers of docid.c: buckets in a linked list,  *)
(* each twice the size of the one before, filled in turn.  The input       *)
(* processor appends to the posting lists of the active segment while      *)
(* lookups read them without a lock, with ts_docid_foreach or with the     *)
(* iterator linear_intersect uses.  The writer's stores are steps of their *)
(* own and so are the reader's loads.                                      *)
(*                                                                         *)
(* The pointers are numbered in the order they are appended; calloc makes  *)
(* the slots NULL.                                                         *)
(***************************************************************************)
EXTENDS Naturals, Sequences, SequencesExt

CONSTANTS BUCKET_SIZE,
          MaxAppends     \* bound: appends since the container was made

ASSUME DocIdsAssumption == BUCKET_SIZE \in Nat \ {0}

EMPTY == 0   \* a slot that holds NULL
NOBKT == 0   \* a bucket pointer that is NULL

VARIABLES
  bkts,       \* the buckets from head on: [offset, ids]; next is the successor
  tailBkt,    \* container->tail
  total,      \* container->total
  dpc,        \* where the writer is
  appended,   \* how many appends have begun
  rpc,        \* the reader: "idle", "foreach", "next", "follow", "load", "done"
  bkt, tmpBkt, offset,  \* its bucket, the tmp of the loop, its offset
  seen,       \* the pointers it has been given
  startTotal  \* history: total when it began

docVars == << bkts, tailBkt, total, dpc, appended >>
docReader == << rpc, bkt, tmpBkt, offset, seen, startTotal >>

\* ts_docid_bucket_new
NewBucket(size) == [offset |-> 0, ids |-> [o \in 0..(size - 1) |-> EMPTY]]
SizeOf(b) == Cardinality(DOMAIN b.ids)

\* ts_docid_container_init reserves the first bucket.
DocIdsInit ==
  /\ bkts = << NewBucket(BUCKET_SIZE) >>
  /\ tailBkt = 1
  /\ total = 0 /\ appended = 0
  /\ dpc = "idle"
  /\ rpc = "idle" /\ bkt = NOBKT /\ tmpBkt = NOBKT /\ offset = 0
  /\ seen = << >> /\ startTotal = 0

-----------------------------------------------------------------------------
(* ts_docid_container_append.                                              *)

\* ts_docid_container_reserve: a full tail gets a successor.
AppendBegin ==
  /\ dpc = "idle"
  /\ appended < MaxAppends
  /\ appended' = appended + 1
  /\ IF bkts[tailBkt].offset < SizeOf(bkts[tailBkt])
     THEN dpc' = "store" /\ UNCHANGED bkts
     ELSE /\ dpc' = "tail"
          /\ bkts' = Append(bkts, NewBucket(2 * SizeOf(bkts[tailBkt])))
  /\ UNCHANGED << tailBkt, total, docReader >>

MoveTail ==
  /\ dpc = "tail"
  /\ tailBkt' = Len(bkts)
  /\ dpc' = "store"
  /\ UNCHANGED << bkts, total, appended, docReader >>

StoreId ==
  /\ dpc = "store"
  /\ bkts' = [bkts EXCEPT ![tailBkt].ids[bkts[tailBkt].offset] = appended]
  /\ dpc' = "offset"
  /\ UNCHANGED << tailBkt, total, appended, docReader >>

AdvanceOffset ==
  /\ dpc = "offset"
  /\ bkts' = [bkts EXCEPT ![tailBkt].offset = @ + 1]
  /\ dpc' = "total"
  /\ UNCHANGED << tailBkt, total, appended, docReader >>

CountTotal ==
  /\ dpc = "total"
  /\ total' = total + 1
  /\ dpc' = "idle"
  /\ UNCHANGED << bkts, tailBkt, appended, docReader >>

\* ts_docid_container_reset, of the containers an intersection keeps for
\* itself: every bucket is freed, and the first made anew.
Reset ==
  /\ dpc = "idle" /\ rpc = "idle"
  /\ bkts' = << NewBucket(BUCKET_SIZE) >>
  /\ tailBkt' = 1
  /\ total' = 0 /\ appended' = 0
  /\ UNCHANGED << dpc, docReader >>

-----------------------------------------------------------------------------
(* The readers.                                                            *)

NextBkt(b) == IF b < Len(bkts) THEN b + 1 ELSE NOBKT

\* ts_docid_foreach loads the next bucket before it looks into this one.
ForeachBegin ==
  /\ rpc = "idle"
  /\ rpc' = "foreach"
  /\ bkt' = 1 /\ tmpBkt' = NextBkt(1) /\ offset' = 0
  /\ startTotal' = total
  /\ UNCHANGED << docVars, seen >>

ForeachId ==
  /\ rpc = "foreach" /\ bkt # NOBKT
  /\ offset < bkts[bkt].offset
  /\ seen' = Append(seen, bkts[bkt].ids[offset])
  /\ offset' = offset + 1
  /\ UNCHANGED << docVars, rpc, bkt, tmpBkt, startTotal >>

ForeachBucket ==
  /\ rpc = "foreach" /\ bkt # NOBKT
  /\ offset >= bkts[bkt].offset
  /\ bkt' = tmpBkt
  /\ tmpBkt' = IF tmpBkt = NOBKT THEN NOBKT ELSE NextBkt(tmpBkt)
  /\ offset' = 0
  /\ UNCHANGED << docVars, rpc, seen, startTotal >>

ForeachEnd ==
  /\ rpc = "foreach" /\ bkt = NOBKT
  /\ rpc' = "done"
  /\ UNCHANGED << docVars, bkt, tmpBkt, offset, seen, startTotal >>

\* ts_docid_container_iterator_init, after total has been read.
IterateBegin ==
  /\ rpc = "idle"
  /\ rpc' = "next"
  /\ bkt' = 1 /\ offset' = 0
  /\ startTotal' = total
  /\ UNCHANGED << docVars, tmpBkt, seen >>

\* ts_docid_container_next loads the offset of its bucket.
NextTest ==
  /\ rpc = "next"
  /\ rpc' = IF offset >= bkts[bkt].offset THEN "follow" ELSE "load"
  /\ UNCHANGED << docVars, bkt, tmpBkt, offset, seen, startTotal >>

\* Mutant of NextBucket: the offset is that of the bucket left.
NextBucketKeepOffset ==
  /\ rpc = "follow"
  /\ rpc' = "load"
  /\ bkt' = NextBkt(bkt)
  /\ UNCHANGED << docVars, tmpBkt, offset, seen, startTotal >>

\* It then loads next, once a call: the writer may have filled the bucket
\* since the test, and linked another.
NextBucket ==
  /\ rpc = "follow"
  /\ rpc' = "load"
  /\ bkt' = NextBkt(bkt) /\ offset' = 0
  /\ UNCHANGED << docVars, tmpBkt, seen, startTotal >>

\* The pointer is returned; NULL ends the intersection, also when it is the
\* first slot of a bucket the writer has linked and not filled.
NextId ==
  /\ rpc = "load"
  /\ IF bkt = NOBKT \/ bkts[bkt].ids[offset] = EMPTY
     THEN rpc' = "done" /\ UNCHANGED << offset, seen >>
     ELSE /\ rpc' = "next"
          /\ seen' = Append(seen, bkts[bkt].ids[offset])
          /\ offset' = offset + 1
  /\ UNCHANGED << docVars, bkt, tmpBkt, startTotal >>

ReadEnd ==
  /\ rpc = "done"
  /\ rpc' = "idle" /\ bkt' = NOBKT /\ tmpBkt' = NOBKT /\ offset' = 0
  /\ seen' = << >> /\ startTotal' = 0
  /\ UNCHANGED docVars

DocIdsNext ==
  \/ AppendBegin
  \/ MoveTail
  \/ StoreId
  \/ AdvanceOffset
  \/ CountTotal
  \/ Reset
  \/ ForeachBegin
  \/ ForeachId
  \/ ForeachBucket
  \/ ForeachEnd
  \/ IterateBegin
  \/ NextTest
  \/ NextBucket
  \/ NextId
  \/ ReadEnd

-----------------------------------------------------------------------------

DocIdsSpec == DocIdsInit /\ [][DocIdsNext]_<< docVars, docReader >>

\* A reader is given pointers that have been appended, in that order and none of
\* them NULL or twice; those total counted when it began are given to it without
\* a gap and all of them by its end, so a list that is not empty by its total has
\* a first pointer to follow (intersect.c:7 and :21).  ts_docid_foreach, which
\* loads next first, leaves no gap at all; the iterator, which tests the offset
\* first (docid.h:82-83), may miss pointers appended since it began.
ReaderInOrder ==
  /\ \A i \in DOMAIN seen : seen[i] \in 1..appended
  /\ \A i, j \in DOMAIN seen : i < j => seen[i] < seen[j]
  /\ \A i \in DOMAIN seen : i <= startTotal \/ rpc = "foreach" => seen[i] = i
  /\ rpc = "done" => Len(seen) >= startTotal

=============================================================================
