------------------------------- MODULE Lookup --------------------------------
(***************************************************************************)
(* ts_engine_lookup and ts_segment_lookup over the engine of Merger: the   *)
(* workers of the server walk the list of segments and read the documents, *)
(* their ids, the bitmaps and the counters while the input processor and   *)
(* the merge thread change them.  A lookup takes no lock but the one under *)
(* which it clones a bitmap; what keeps a segment it is inside of from     *)
(* being freed is the counter `processes'.                                 *)
(*                                                                         *)
(* A step is one access of the lookup to what another thread changes: the  *)
(* pointer to a segment, the counter of lookups, either counter of         *)
(* documents, the clone of the bitmap, the walk over the documents or the  *)
(* postings, the copies of the documents found.  The walk of one segment   *)
(* is one step, and so is the add of one document; what a walk may meet of *)
(* an add that is not over is said at FindMisses.                          *)
(*                                                                         *)
(* A thread that touches what has been freed leaves defined behaviour:     *)
(* `fault' says what it touched, and the model stops.                      *)
(***************************************************************************)
EXTENDS Merger, Integers

CONSTANTS Reader,           \* the workers that run lookups
          Term,             \* names of indexable fields
          TermsOf,          \* TermsOf[d]: those of document d
          Query,            \* the requests: records [terms, limit]
          LOOKUP_MAX_SIZE,  \* config.h
          Garbage,          \* what an uninitialised uint32_t may hold
          UINT32,           \* 2^32
          MaxLookups        \* bound: lookups of one behaviour

ASSUME TermsAssumption   == TermsOf \in [Doc -> SUBSET Term]
ASSUME QueryAssumption   == Query \subseteq [terms : Seq(Term), limit : Nat]
ASSUME LookupAssumption  ==
  /\ IsFiniteSet(Reader)
  /\ LOOKUP_MAX_SIZE \in Nat /\ MaxLookups \in Nat /\ Garbage \subseteq Nat
  /\ UINT32 \in Nat

VARIABLES
  next,      \* next[s]: the next pointer of segment s
  fault,     \* "none", or what was used after it was freed
  nlookups,  \* how many lookups have begun
  rpc,       \* rpc[r]: where the lookup of r is
  rseg,      \* rseg[r]: seg
  query,     \* query[r]: the request
  count,     \* count[r]: num_total_docs as last loaded
  bits,      \* bits[r]: the clone of the segment's bitmap
  found,     \* found[r]: the container of the segment's lookup
  total,     \* total[r]: the local variable of ts_engine_lookup
  docsOut,   \* docsOut[r]: response->docs
  totalOut,  \* totalOut[r]: response->total
  quiet,     \* history, quiet[r]: what has run since the lookup began
  listed,    \* history: the segment was in the list when r entered it
  early,     \* history: a segment was left before total was assigned
  misled,    \* history: a segment was left for what an add had half done
  seen,      \* history: the documents added before the lookup began,
  current    \* ... and those of them that were their key's latest

readerVars == << nlookups, rpc, rseg, query, count, bits, found, total,
                 docsOut, totalOut, quiet, listed, early, misled, seen,
                 current >>
lookupVars == << next, fault, readerVars >>
allVars    == << vars, lookupVars >>

Unset == -1          \* total has not been assigned in this lookup
NoQuery == [terms |-> << >>, limit |-> 0]

UNDISTURBED == 2     \* neither the input processor nor a merge has run
UNMERGED    == 1     \* no merge has been under way
RACED       == 0

LookupInit ==
  /\ next = [s \in Seg |-> NoSeg]
  /\ fault = "none"
  /\ nlookups = 0
  /\ rpc = [r \in Reader |-> "idle"]
  /\ rseg = [r \in Reader |-> NoSeg]
  /\ query = [r \in Reader |-> NoQuery]
  /\ count = [r \in Reader |-> 0]
  /\ bits = [r \in Reader |-> {}]
  /\ found = [r \in Reader |-> << >>]
  /\ total = [r \in Reader |-> Unset]
  /\ docsOut = [r \in Reader |-> << >>]
  /\ totalOut = [r \in Reader |-> 0]
  /\ quiet = [r \in Reader |-> RACED]
  /\ listed = [r \in Reader |-> FALSE]
  /\ early = [r \in Reader |-> FALSE]
  /\ misled = [r \in Reader |-> FALSE]
  /\ seen = [r \in Reader |-> {}]
  /\ current = [r \in Reader |-> {}]

Running == crash = "none" /\ fault = "none"

-----------------------------------------------------------------------------
(* The engine, seen by the lookups.                                        *)

\* DL_PREPEND and DL_DELETE set the next pointers of the segments in the
\* list; one that is taken out keeps the pointer it had.
NextPointers(list) ==
  [s \in Seg |->
     IF \E i \in 1..Len(list) : list[i] = s
     THEN LET i == CHOOSE j \in 1..Len(list) : list[j] = s
          IN  IF i < Len(list) THEN list[i + 1] ELSE NoSeg
     ELSE next[s]]

\* What a lookup remembers of the steps of the other threads.
Disturb(level) ==
  quiet' = [r \in Reader |->
              IF rpc[r] = "idle" \/ merge_stage' # 0 THEN RACED
              ELSE IF level < quiet[r] THEN level ELSE quiet[r]]

Unlooked == UNCHANGED << fault, nlookups, rpc, rseg, query, count, bits,
                         found, total, docsOut, totalOut, listed, early,
                         misled, seen, current >>

\* The input processor has looked for a task in vain.
Polled == pc' = "empty" \/ pc = "empty"

ClientStepL ==
  /\ Running
  /\ ClientStep
  /\ UNCHANGED lookupVars

InputStepL ==
  /\ Running
  /\ InputStep
  /\ next' = NextPointers(segments')
  /\ Disturb(IF Polled THEN UNDISTURBED ELSE UNMERGED)
  /\ Unlooked

MergeStepL ==
  /\ Running
  /\ MergeStep
  /\ UNCHANGED next
  /\ Disturb(RACED)
  /\ Unlooked

\* Release in a round in which one of its two pointers is already NULL.
ReleaseNull ==
  /\ Running
  /\ \/ mpc = "loop" /\ merge_stage = 3 /\ mseg1 = NoSeg
     \/ mpc = "release2" /\ mseg2 = NoSeg
  /\ fault' = "null_segment"
  /\ UNCHANGED << vars, next, readerVars >>

-----------------------------------------------------------------------------
(* ts_engine_lookup.                                                       *)

\* ERROR_CODE_INVALID_ARGUMENT
RejectLookup(r, q) ==
  /\ Running
  /\ rpc[r] = "idle"
  /\ nlookups < MaxLookups
  /\ q.limit > LOOKUP_MAX_SIZE
  /\ nlookups' = nlookups + 1
  /\ UNCHANGED << vars, next, fault, rpc, rseg, query, count, bits, found,
                  total, docsOut, totalOut, quiet, listed, early, misled,
                  seen, current >>

Latest == {store[k] : k \in PK} \ {0}

\* DL_FOREACH loads the head.
BeginLookup(r, q) ==
  /\ Running
  /\ rpc[r] = "idle"
  /\ nlookups < MaxLookups
  /\ q.limit <= LOOKUP_MAX_SIZE
  /\ nlookups' = nlookups + 1
  /\ query' = [query EXCEPT ![r] = q]
  /\ rseg' = [rseg EXCEPT ![r] = Head(segments)]
  /\ rpc' = [rpc EXCEPT ![r] = "enter"]
  /\ quiet' = [quiet EXCEPT ![r] = IF merge_stage = 0 THEN UNDISTURBED
                                                     ELSE RACED]
  /\ seen' = [seen EXCEPT ![r] = Added]
  /\ current' = [current EXCEPT ![r] = Latest]
  /\ UNCHANGED << vars, next, fault, count, bits, found, total, docsOut,
                  totalOut, listed, early, misled >>

UseAfterFree ==
  /\ fault' = "freed_segment"
  /\ UNCHANGED << vars, next, readerVars >>

\* Mutant of Enter: lookups wait for the end of the merge.
EnterBetweenMerges(r) ==
  /\ Running
  /\ rpc[r] = "enter"
  /\ merge_stage = 0
  /\ processes' = [processes EXCEPT ![rseg[r]] = @ + 1]
  /\ rpc' = [rpc EXCEPT ![r] = "check"]
  /\ UNCHANGED << pkOf, docId, docs, deletion, deleted, state, nsegs,
                  freedSegs, freedDocs, removal, engineVars, mergerVars,
                  headPrev, next, fault, nlookups, rseg, query, count, bits,
                  found, total, docsOut, totalOut, quiet, listed, early,
                  misled, seen, current >>

\* processes++ and the container of the segment.
Enter(r) ==
  /\ Running
  /\ rpc[r] = "enter"
  /\ IF rseg[r] \in freedSegs
     THEN UseAfterFree
     ELSE /\ processes' = [processes EXCEPT ![rseg[r]] = @ + 1]
          /\ listed' = [listed EXCEPT ![r] = rseg[r] \in Listed]
          /\ rpc' = [rpc EXCEPT ![r] = "check"]
          /\ UNCHANGED << pkOf, docId, docs, deletion, deleted, state, nsegs,
                          freedSegs, freedDocs, removal, engineVars,
                          mergerVars, headPrev, next, fault, nlookups, rseg,
                          query, count, bits, found, total, docsOut, totalOut,
                          quiet, early, misled, seen, current >>

\* request->limit of this segment.
Limit(r) == query[r].limit - Len(docsOut[r])

(* ts_segment_lookup.  It loads num_total_docs and num_total_deleted one   *)
(* after the other, twice, and without a lock: segment.c:101 compares them *)
(* and segment.c:119 subtracts them.  Loading the documents first is the   *)
(* worse order, since both counters only grow; of the loads of segment.c:98*)
(* and :101 only the later matters.                                        *)

\* A return that leaves *total as it was.
Skip(r) ==
  /\ rpc' = [rpc EXCEPT ![r] = "leave"]
  /\ early' = [early EXCEPT ![r] = TRUE]

\* The limit, and the first load of the documents.
CheckSize(r) ==
  /\ Running
  /\ rpc[r] = "check"
  /\ count' = [count EXCEPT ![r] = Len(docs[rseg[r]])]
  /\ IF Limit(r) < 1 \/ Len(docs[rseg[r]]) = 0
     THEN Skip(r)
     ELSE rpc' = [rpc EXCEPT ![r] = "compare"] /\ UNCHANGED early
  /\ UNCHANGED << vars, next, fault, nlookups, rseg, query, bits, found, total,
                  docsOut, totalOut, quiet, listed, misled, seen, current >>

\* The load of the deleted: a segment all of whose documents seem deleted is
\* left.  It misleads if documents have come since they were counted.
CheckDeleted(r) ==
  /\ Running
  /\ rpc[r] = "compare"
  /\ IF count[r] = deleted[rseg[r]]
     THEN /\ Skip(r)
          /\ misled' = [misled EXCEPT ![r] = @ \/ count[r] # Len(docs[rseg[r]])]
     ELSE rpc' = [rpc EXCEPT ![r] = "clone"] /\ UNCHANGED << early, misled >>
  /\ UNCHANGED << vars, next, fault, nlookups, rseg, query, count, bits, found,
                  total, docsOut, totalOut, quiet, listed, seen, current >>

CloneBits(r) ==
  /\ Running
  /\ rpc[r] = "clone"
  /\ ~Locked(rseg[r])
  /\ bits' = [bits EXCEPT ![r] = deletion[rseg[r]]]
  /\ rpc' = [rpc EXCEPT ![r] = IF query[r].terms = << >> THEN "count" ELSE "walk"]
  /\ UNCHANGED << vars, next, fault, nlookups, rseg, query, count, found, total,
                  docsOut, totalOut, quiet, listed, early, misled, seen,
                  current >>

\* Without terms: the documents ...
CountDocs(r) ==
  /\ Running
  /\ rpc[r] = "count"
  /\ count' = [count EXCEPT ![r] = Len(docs[rseg[r]])]
  /\ rpc' = [rpc EXCEPT ![r] = "subtract"]
  /\ UNCHANGED << vars, next, fault, nlookups, rseg, query, bits, found, total,
                  docsOut, totalOut, quiet, listed, early, misled, seen,
                  current >>

\* The difference as uint32_t.
Difference(n, m) == IF m <= n THEN n - m ELSE UINT32 - (m - n)

\* Mutant of Assigned: the deleted documents are in the total.
AssignedAll(r) == count[r]

Assigned(r) == Difference(count[r], deleted[rseg[r]])

\* ... less the deleted.
Subtract(r) ==
  /\ Running
  /\ rpc[r] = "subtract"
  /\ total' = [total EXCEPT ![r] = Assigned(r)]
  /\ rpc' = [rpc EXCEPT ![r] = "walk"]
  /\ UNCHANGED << vars, next, fault, nlookups, rseg, query, count, bits, found,
                  docsOut, totalOut, quiet, listed, early, misled, seen,
                  current >>

-----------------------------------------------------------------------------
(* The walk.                                                               *)

I == INSTANCE Intersect

\* The elements of S in the order `before', a set of pairs that is a strict
\* total order on them.
InOrder(S, before) ==
  CHOOSE q \in [1..Cardinality(S) -> S] :
    \A i, j \in 1..Cardinality(S) : i < j => << q[i], q[j] >> \in before

\* HASH_ITER over pk_mapping and the ids of each key.
KeyOrder(s) == {p \in DocsIn(s) \X DocsIn(s) : Precedes(s, p[1], p[2])}

\* The order the documents were added in.
AddOrder(s) ==
  {p \in DocsIn(s) \X DocsIn(s) : PlaceOf(s, p[1]) < PlaceOf(s, p[2])}

\* The posting list of a term.
Postings(s, t) == InOrder({d \in DocsIn(s) : t \in TermsOf[d]}, AddOrder(s))

\* The documents whose bit is clear in the clone.
Clear(r) == {d \in DocsIn(rseg[r]) : docId[d] \notin bits[r]}

\* Mutant of FirstN: the limit is compared after the increment.
FirstButN(seq, n) == SubSeq(seq, 1, IF n - 1 < Len(seq) THEN n - 1 ELSE Len(seq))

FirstN(seq, n) == SubSeq(seq, 1, IF n < Len(seq) THEN n ELSE Len(seq))

\* Mutant of WithoutTerms: the deletion bitmap is not consulted.
WithoutTermsAll(r) ==
  [found |-> FirstN(InOrder(DocsIn(rseg[r]), KeyOrder(rseg[r])), Limit(r)),
   total |-> total[r]]

\* No term: every document of Clear(r).  *total has been assigned.
WithoutTerms(r) ==
  [found |-> FirstN(InOrder(Clear(r), KeyOrder(rseg[r])), Limit(r)),
   total |-> total[r]]

PostingLists(s, terms) == [i \in 1..Len(terms) |-> Postings(s, terms[i])]

\* One term: its postings, deleted or not.  Several: their intersection, and
\* an empty one leaves *total as it was.
WithTerms(r, lists) ==
  LET both == I!SeekIntersect(lists, docId, bits[r])
  IN  IF \E i \in 1..Len(lists) : lists[i] = << >>
      THEN [found |-> << >>, total |-> 0]
      ELSE IF Len(lists) = 1
      THEN [found |-> FirstN(lists[1], Limit(r)), total |-> Len(lists[1])]
      ELSE [found |-> FirstN(both, Limit(r)),
            total |-> IF both = << >> THEN total[r] ELSE Len(both)]

Result(r, lists) == IF lists = << >> THEN WithoutTerms(r) ELSE WithTerms(r, lists)

\* Does a walk over these lists that found this leave *total alone?
LeavesTotal(lists, foundNow) ==
  /\ Len(lists) > 1
  /\ foundNow = << >>
  /\ \A i \in 1..Len(lists) : lists[i] # << >>

\* The add handler is about to add a document to the segment of the lookup.
AddInProgress(r) ==
  /\ pc = "scan" /\ removal.at = "none" /\ cursor > Len(segments)
  /\ task.kind = "add"
  /\ rseg[r] = segment_active

\* It brings a term the segment has not got: the table of terms may expand.
Expands(r) ==
  /\ AddInProgress(r)
  /\ ~(TermsOf[task.doc] \subseteq UNION {TermsOf[d] : d \in DocsIn(rseg[r])})

Walk(r) ==
  /\ Running
  /\ rpc[r] = "walk"
  /\ \E lists \in {PostingLists(rseg[r], query[r].terms)} :
     \E result \in {Result(r, lists)} :
       /\ found' = [found EXCEPT ![r] = result.found]
       /\ total' = [total EXCEPT ![r] = result.total]
       /\ early' = [early EXCEPT ![r] = @ \/ LeavesTotal(lists, result.found)]
  /\ bits' = [bits EXCEPT ![r] = {}]
  /\ rpc' = [rpc EXCEPT ![r] = "leave"]
  /\ UNCHANGED << vars, next, fault, nlookups, rseg, query, count, docsOut,
                  totalOut, quiet, listed, misled, seen, current >>

\* HASH_FIND_STR (segment.c:141) takes no lock.  While the table expands, a
\* term is for a time in no chain the find follows (HashTable): it is taken
\* for absent and the walk ends without a document ...
FindMisses(r) ==
  /\ Running
  /\ rpc[r] = "walk"
  /\ query[r].terms # << >>
  /\ Expands(r)
  /\ total' = [total EXCEPT ![r] = 0]
  /\ misled' = [misled EXCEPT ![r] = TRUE]
  /\ bits' = [bits EXCEPT ![r] = {}]
  /\ rpc' = [rpc EXCEPT ![r] = "leave"]
  /\ UNCHANGED << vars, next, fault, nlookups, rseg, query, count, found,
                  docsOut, totalOut, quiet, listed, early, seen, current >>

\* ... or the find has loaded the array of buckets that the expansion frees.
FindFreed(r) ==
  /\ Running
  /\ rpc[r] = "walk"
  /\ query[r].terms # << >>
  /\ Expands(r)
  /\ fault' = "freed_buckets"
  /\ UNCHANGED << vars, next, readerVars >>

-----------------------------------------------------------------------------

\* response->docs has as many documents as were asked for.
Reached(r) == Len(docsOut'[r]) >= query[r].limit

\* The documents found are cloned, total is added, processes is decremented.
Leave(r) ==
  /\ Running
  /\ rpc[r] = "leave"
  /\ \E t \in IF total[r] = Unset THEN Garbage ELSE {total[r]} :
       /\ total' = [total EXCEPT ![r] = t]
       /\ totalOut' = [totalOut EXCEPT ![r] = @ + t]
  /\ docsOut' = [docsOut EXCEPT ![r] = @ \o found[r]]
  /\ found' = [found EXCEPT ![r] = << >>]
  /\ processes' = [processes EXCEPT ![rseg[r]] = @ - 1]
  /\ listed' = [listed EXCEPT ![r] = FALSE]
  /\ rpc' = [rpc EXCEPT ![r] = IF Reached(r) THEN "return" ELSE "advance"]
  /\ UNCHANGED << pkOf, docId, docs, deletion, deleted, state, nsegs,
                  freedSegs, freedDocs, removal, engineVars, mergerVars,
                  headPrev, next, fault, nlookups, rseg, query, count, bits,
                  quiet, early, misled, seen, current >>

\* seg = seg->next, of a segment the lookup is no longer counted in.
Advance(r) ==
  /\ Running
  /\ rpc[r] = "advance"
  /\ IF rseg[r] \in freedSegs
     THEN UseAfterFree
     ELSE /\ rseg' = [rseg EXCEPT ![r] = next[rseg[r]]]
          /\ rpc' = [rpc EXCEPT ![r] = IF next[rseg[r]] = NoSeg
                                       THEN "return" ELSE "enter"]
          /\ UNCHANGED << vars, next, fault, nlookups, query, count, bits,
                          found, total, docsOut, totalOut, quiet, listed,
                          early, misled, seen, current >>

\* The response is handed over.
EndLookup(r) ==
  /\ Running
  /\ rpc[r] = "return"
  /\ rpc' = [rpc EXCEPT ![r] = "idle"]
  /\ rseg' = [rseg EXCEPT ![r] = NoSeg]
  /\ query' = [query EXCEPT ![r] = NoQuery]
  /\ total' = [total EXCEPT ![r] = Unset]
  /\ docsOut' = [docsOut EXCEPT ![r] = << >>]
  /\ totalOut' = [totalOut EXCEPT ![r] = 0]
  /\ quiet' = [quiet EXCEPT ![r] = RACED]
  /\ early' = [early EXCEPT ![r] = FALSE]
  /\ misled' = [misled EXCEPT ![r] = FALSE]
  /\ seen' = [seen EXCEPT ![r] = {}]
  /\ current' = [current EXCEPT ![r] = {}]
  /\ UNCHANGED << vars, next, fault, nlookups, count, bits, found, listed >>

LookupStep(r) ==
  \/ Enter(r)
  \/ CheckSize(r)
  \/ CheckDeleted(r)
  \/ CloneBits(r)
  \/ CountDocs(r)
  \/ Subtract(r)
  \/ Walk(r)
  \/ FindMisses(r)
  \/ FindFreed(r)
  \/ Leave(r)
  \/ Advance(r)
  \/ EndLookup(r)

MergeThreadL == MergeStepL \/ ReleaseNull
EngineStep == ClientStepL \/ InputStepL \/ MergeThreadL

LookupNext ==
  \/ EngineStep
  \/ \E r \in Reader : \/ \E q \in Query : RejectLookup(r, q) \/ BeginLookup(r, q)
                       \/ LookupStep(r)

LookupSpec == Init /\ LookupInit /\ [][LookupNext]_allVars

(***************************************************************************)
(* A worker runs its lookup to the end and waits only for the bitmap's     *)
(* lock, which the input processor holds for as long as one remove takes.  *)
(***************************************************************************)
LookupFairness ==
  /\ WF_allVars(InputStepL)
  /\ WF_allVars(MergeThreadL)
  /\ \A r \in Reader : WF_allVars(LookupStep(r))

LookupFairSpec == LookupSpec /\ LookupFairness

-----------------------------------------------------------------------------
(* Properties.                                                             *)

\* Where the bitmap has been cloned.
HasBits(r) == rpc[r] \in {"count", "subtract", "walk"}

Inside(r) == rpc[r] \in {"check", "compare", "clone", "leave"} \/ HasBits(r)

\* A segment that was in the list when a lookup entered it is not freed, and
\* none of the documents found in it, before the lookup leaves: the counter
\* is up before the segment is taken out, release reads it after.
CountedLookupsSafe ==
  \A r \in Reader : Inside(r) /\ listed[r] =>
    /\ rseg[r] \notin freedSegs
    /\ Range(found[r]) \cap freedDocs = {}

\* Every document returned has all the terms, unless a merge has renumbered
\* documents under the lookup.
AnswerMatches ==
  \A r \in Reader : quiet[r] # RACED =>
    \A d \in Range(docsOut[r]) : Range(query[r].terms) \subseteq TermsOf[d]

\* A document replaced or removed before the lookup began is not returned,
\* unless the lookup has one term only (segment.c:158 does not look at the
\* bitmap), its key was added again during a merge, or a merge is under way.
AnswerNotDeleted ==
  \A r \in Reader :
    quiet[r] # RACED /\ Len(query[r].terms) # 1 =>
      \A d \in Range(docsOut[r]) :
        d \in seen[r] => d \in current[r] \/ pkOf[d] \in updated

\* What a lookup returns is right: AnswerMatches and AnswerNotDeleted.
AnswerSound == AnswerMatches /\ AnswerNotDeleted

\* The key is being replaced or removed, or a merge has deleted it wrongly.
InDoubt(d) == \/ pc = "scan" /\ task.kind # "none" /\ pkOf[d] = TaskPk
              \/ pkOf[d] \in merging_deletion

\* A lookup that returns fewer documents than it may has found every document
\* that was its key's latest from the beginning to the end and has the terms,
\* although segments were put in front of the list meanwhile.  Two races with
\* an add to a segment the lookup is in break it (misled): a document is added
\* between the loads that are compared (segment.c:101), or a term is looked
\* for while its table expands (segment.c:141).
AnswerComplete ==
  \A r \in Reader :
    /\ rpc[r] = "return"
    /\ quiet[r] # RACED
    /\ ~misled[r]
    /\ Len(docsOut[r]) < query[r].limit
    => \A d \in current[r] \cap Latest :
         Range(query[r].terms) \subseteq TermsOf[d] /\ ~InDoubt(d)
           => d \in Range(docsOut[r])

\* The total of a lookup nothing interfered with is the number of documents,
\* unless a segment was left before *total was assigned (engine.c:178 then
\* adds what the variable held) or there is one term only.
TotalExact ==
  \A r \in Reader :
    /\ rpc[r] = "return"
    /\ quiet[r] = UNDISTURBED
    /\ ~early[r]
    /\ Len(query[r].terms) # 1
    /\ Len(docsOut[r]) < query[r].limit
    => totalOut[r] = Len(docsOut[r])

\* The subtraction of segment.c:119 wraps only if documents have been added
\* since they were counted or a merge is under way: a bit is counted once, by
\* whatever interleaving of the remove with anything but a renumbering.
SubtractionInOrder ==
  \A r \in Reader :
    /\ rpc[r] = "subtract"
    /\ quiet[r] # RACED
    /\ count[r] = Len(docs[rseg[r]])
    => deleted[rseg[r]] <= count[r]

\* A lookup ends: following next pointers, stale ones included, never turns
\* in a circle, and the list cannot grow in front of it.
LookupEnds ==
  \A r \in Reader : (rpc[r] # "idle") ~> (rpc[r] = "idle" \/ ~Running)

\* The progress of the engine with lookups in it.  They hold a segment back
\* from release, but not for ever: the input queue empties, whatever the
\* merger forces into it meanwhile, and a merge that has begun ends, unless
\* merge_stage has been overwritten.
QueueDrainsL == (queue # << >>) ~> (queue = << >> \/ ~Running)
MergeEndsL == (merge_stage = 1) ~> (merge_stage = 0 \/ Overwritten \/ ~Running)
EngineProgresses == QueueDrainsL /\ MergeEndsL

-----------------------------------------------------------------------------

\* engine.c:169 says that cloning the documents found prevents conflicts with
\* the merge thread; refuted by a run.
NothingFreedIsUsed == fault # "freed_segment"

=============================================================================
