------------------------------- MODULE Merger --------------------------------
(***************************************************************************)
(* merger.c, and with it the whole engine: the clients, the input          *)
(* processor and the merge thread over the same list of segments.          *)
(*                                                                         *)
(* The merge thread wakes up once a second and runs five procedures in a   *)
(* row.  Each looks at merge_stage and returns at once unless it is its    *)
(* turn, so a round is the procedures whose stage has come:                *)
(*                                                                         *)
(*   0  check     chooses two segments                                     *)
(*   1  migrate   copies their documents into a new one, posts `replace'   *)
(*   2            waits for the input processor to run `replace'           *)
(*   3  release   frees the two segments                                   *)
(*   4  redelete  posts `redelete'                                         *)
(*   5            waits for the input processor to run `redelete'          *)
(*   6  reset     back to 0                                                *)
(*                                                                         *)
(* merge_stage is written by both threads without a lock, and merger.c     *)
(* writes 2 and 5 AFTER it has posted the task whose handler writes 3 and  *)
(* 6: posting and writing are two steps here.                              *)
(***************************************************************************)
EXTENDS Engine

VARIABLES
  mpc,       \* where the merge thread is
  mseg1,     \* migrate_segs.mseg1
  mseg2,     \* migrate_segs.mseg2
  newseg,    \* replace_segs.newseg
  doomed,    \* replace_segs.deleted: documents to free with the segments
  old,       \* ts_segment_migrate: the segment being copied,
  snapshot,  \* ... its deletion bitmap as cloned,
  pending,   \* ... and the documents still to visit
  headPrev   \* the head's prev pointer is not NULL (see ReplaceDelete)

mergerVars == << mpc, mseg1, mseg2, newseg, doomed, old, snapshot, pending >>
vars == << segVars, engineVars, mergerVars, headPrev >>

MergerInit ==
  /\ mpc = "loop"
  /\ mseg1 = NoSeg
  /\ mseg2 = NoSeg
  /\ newseg = NoSeg
  /\ doomed = {}
  /\ old = NoSeg
  /\ snapshot = {}
  /\ pending = {}
  /\ headPrev = FALSE

Init == SegInit /\ EngineInit /\ MergerInit

-----------------------------------------------------------------------------
(* ts_merger_get_segments.  The scan keeps in mseg1 the last segment whose *)
(* ratio is not below that of the one kept before it, and in mseg2 the one *)
(* kept before; it fails unless the kept segment changed at least once.    *)

\* Mutant of RatioReached: the division of real numbers.
RealRatioReached(s) == 10 * deleted[s] >= 2 * Len(docs[s])

\* MERGE_DELETED_RATIO is 0.2.
RatioReached(s) == 10 * DeletedRatio(s) >= 2

\* Mutant of Eligible: every segment with documents, the active one too.
AnyNonEmpty == {i \in 1..Len(segments) : docs[segments[i]] # << >>}

\* The active segment takes no part.
Eligible == {i \in 1..Len(segments) : state[segments[i]] # ACTIVE}

Kept == {i \in Eligible : \A j \in Eligible :
           j < i => DeletedRatio(segments[i]) >= DeletedRatio(segments[j])}

\* i and j are the places in the list of the mseg1 and mseg2 it returns.
GetSegments(i, j) ==
  /\ Len(segments) >= 3
  /\ i \in Kept
  /\ j \in Kept
  /\ j < i
  /\ \A k \in Kept : k <= j \/ k = i
  /\ RatioReached(segments[i])

Unmerge == UNCHANGED << issued, segments, segment_active, pc, task, cursor,
                        merging_deletion, crash, store, updated, headPrev >>

Check ==
  /\ mpc = "loop"
  /\ merge_stage = 0
  /\ \E i, j \in 1..Len(segments) :
       /\ GetSegments(i, j)
       /\ mseg1' = segments[i]
       /\ mseg2' = segments[j]
  /\ merge_stage' = 1
  /\ UNCHANGED << segVars, queue, mpc, newseg, doomed, old, snapshot, pending >>
  /\ Unmerge

-----------------------------------------------------------------------------
(* Migration.  Only ts_bitmap_clone is under the segment's lock: the input *)
(* processor runs between any two of these steps.                          *)

BeginMigrate ==
  /\ mpc = "loop"
  /\ merge_stage = 1
  /\ NewSegment
  /\ newseg' = Fresh
  /\ doomed' = {}
  /\ old' = mseg1
  /\ mpc' = "clone"
  /\ UNCHANGED << pkOf, docId, docs, deletion, deleted, state, processes,
                  freedSegs, freedDocs, removal, queue, merge_stage, mseg1,
                  mseg2, snapshot, pending >>
  /\ Unmerge

\* Mutant of CloneDeletion: each source starts a new array of deleted ones.
CloneDeletionNewArray ==
  /\ mpc = "clone"
  /\ ~Locked(old)
  /\ snapshot' = deletion[old]
  /\ pending' = DocsIn(old)
  /\ doomed' = {}
  /\ mpc' = "copy"
  /\ UNCHANGED << segVars, queue, merge_stage, mseg1, mseg2, newseg, old >>
  /\ Unmerge

CloneDeletion ==
  /\ mpc = "clone"
  /\ ~Locked(old)
  /\ snapshot' = deletion[old]
  /\ pending' = DocsIn(old)
  /\ mpc' = "copy"
  /\ UNCHANGED << segVars, queue, merge_stage, mseg1, mseg2, newseg, doomed,
                  old >>
  /\ Unmerge

\* The order of ts_segment_migrate: the keys as they first came into the
\* segment, and the documents of a key as they were added.
KeyPlace(s, d)   == CHOOSE i \in DOMAIN docs[s] :
                      /\ pkOf[docs[s][i]] = pkOf[d]
                      /\ \A j \in 1..(i - 1) : pkOf[docs[s][j]] # pkOf[d]
Precedes(s, d, e) ==
  \/ KeyPlace(s, d) < KeyPlace(s, e)
  \/ KeyPlace(s, d) = KeyPlace(s, e) /\ PlaceOf(s, d) < PlaceOf(s, e)

\* Deleted when the bitmap was cloned.
Doomed(d) == docId[d] \in snapshot

\* One document: to the list of the deleted ones, or into the new segment.
\* The latter overwrites its id, which the old segment still lists.
CopyDocument ==
  /\ mpc = "copy"
  /\ \E d \in pending :
       /\ \A e \in pending \ {d} : Precedes(old, d, e)
       /\ pending' = pending \ {d}
       /\ IF Doomed(d)
          THEN /\ doomed' = doomed \cup {d}
               /\ UNCHANGED << docId, docs >>
          ELSE /\ AddDocument(newseg, d)
               /\ UNCHANGED doomed
  /\ UNCHANGED << pkOf, deletion, deleted, state, processes, nsegs, freedSegs,
                  freedDocs, removal, queue, merge_stage, mpc, mseg1, mseg2,
                  newseg, old, snapshot >>
  /\ Unmerge

\* The end of one ts_segment_migrate; the bitmap clone is destroyed.
EndSource ==
  /\ mpc = "copy"
  /\ pending = {}
  /\ snapshot' = {}
  /\ IF old = mseg1
     THEN old' = mseg2 /\ mpc' = "clone"
     ELSE old' = NoSeg /\ mpc' = "post"
  /\ UNCHANGED << segVars, queue, merge_stage, mseg1, mseg2, newseg, doomed,
                  pending >>
  /\ Unmerge

Post(t, from, to) ==
  /\ mpc = from
  /\ Q!Enqueue(t, TRUE)
  /\ mpc' = to
  /\ UNCHANGED << segVars, merge_stage, mseg1, mseg2, newseg, doomed, old,
                  snapshot, pending >>
  /\ Unmerge

WriteStage(at, n) ==
  /\ mpc = at
  /\ merge_stage' = n
  /\ mpc' = "loop"
  /\ UNCHANGED << segVars, queue, mseg1, mseg2, newseg, doomed, old, snapshot,
                  pending >>
  /\ Unmerge

\* Mutant of WriteStage2: the stage replace should write.
WriteStage3 == WriteStage("posted", 3)

PostReplace == Post(ReplaceTask, "post", "posted")
WriteStage2 == WriteStage("posted", 2)

-----------------------------------------------------------------------------
(* ts_merger_replace_segs_handler, run by the input processor.             *)
(*                                                                         *)
(* ts_engine_new sets `segments' by hand, so the first segment's prev is   *)
(* NULL, and DL_PREPEND gives every new head the prev of the old one: the  *)
(* head's prev, the tail in a well-formed list, is NULL until a DL_DELETE  *)
(* of the tail repairs it.  DL_DELETE asserts that it is not NULL.         *)

BeginReplace ==
  /\ Take(ReplaceTask)
  /\ pc' = "delete1"
  /\ UNCHANGED << segVars, issued, segments, segment_active, cursor,
                  merge_stage, merging_deletion, crash, store, updated,
                  mergerVars, headPrev >>

PlaceInList(s) == CHOOSE i \in 1..Len(segments) : segments[i] = s
RemoveAt(seq, i) == SubSeq(seq, 1, i - 1) \o SubSeq(seq, i + 1, Len(seq))

\* DL_DELETE(engine->segments, s)
ReplaceDelete(s, from, to) ==
  /\ pc = from
  /\ IF s = Head(segments) /\ ~headPrev
     THEN /\ crash' = "assertion"
          /\ UNCHANGED << segments, headPrev, pc >>
     ELSE /\ segments' = RemoveAt(segments, PlaceInList(s))
          /\ headPrev' = (headPrev \/ PlaceInList(s) = Len(segments))
          /\ pc' = to
          /\ UNCHANGED crash
  /\ UNCHANGED << segVars, queue, issued, segment_active, task, cursor,
                  merge_stage, merging_deletion, store, updated, mergerVars >>

ReplaceDelete1 == ReplaceDelete(mseg1, "delete1", "delete2")
ReplaceDelete2 == ReplaceDelete(mseg2, "delete2", "prepend")

\* Mutant of Joins: one document is taken for none.
JoinsWithTwo == Len(docs[newseg]) > 1

\* An empty new segment does not join the list.
Joins == docs[newseg] # << >>

FinishReplace ==
  /\ pc = "prepend"
  /\ IF Joins
     THEN /\ Promote(newseg)
          /\ segments' = << newseg >> \o segments
     ELSE UNCHANGED << state, segments >>
  /\ merge_stage' = 3
  /\ Return
  /\ UNCHANGED << pkOf, docId, docs, deletion, deleted, processes, nsegs,
                  freedSegs, freedDocs, removal, queue, issued,
                  segment_active, merging_deletion, crash, store, updated,
                  mergerVars, headPrev >>

-----------------------------------------------------------------------------
(* Release: a round frees each of the two segments no lookup is inside of. *)

\* Mutant of Release1: processes is not looked at.
Release1InUse ==
  /\ mpc = "loop"
  /\ merge_stage = 3
  /\ mseg1 # NoSeg
  /\ FreeSegments({mseg1})
  /\ mseg1' = NoSeg
  /\ mpc' = "release2"
  /\ UNCHANGED << pkOf, docId, docs, deletion, deleted, state, processes,
                  nsegs, freedDocs, removal, queue, merge_stage, mseg2, newseg,
                  doomed, old, snapshot, pending >>
  /\ Unmerge

Release1 ==
  /\ mpc = "loop"
  /\ merge_stage = 3
  /\ mseg1 # NoSeg
  /\ IF processes[mseg1] = 0
     THEN FreeSegments({mseg1}) /\ mseg1' = NoSeg
     ELSE UNCHANGED << freedSegs, mseg1 >>
  /\ mpc' = "release2"
  /\ UNCHANGED << pkOf, docId, docs, deletion, deleted, state, processes,
                  nsegs, freedDocs, removal, queue, merge_stage, mseg2, newseg,
                  doomed, old, snapshot, pending >>
  /\ Unmerge

Release2 ==
  /\ mpc = "release2"
  /\ mseg2 # NoSeg
  /\ IF processes[mseg2] = 0
     THEN FreeSegments({mseg2}) /\ mseg2' = NoSeg
     ELSE UNCHANGED << freedSegs, mseg2 >>
  /\ mpc' = "release3"
  /\ UNCHANGED << pkOf, docId, docs, deletion, deleted, state, processes,
                  nsegs, freedDocs, removal, queue, merge_stage, mseg1, newseg,
                  doomed, old, snapshot, pending >>
  /\ Unmerge

\* Both gone: the documents deleted before the merge follow, and an empty
\* new segment.
Release3 ==
  /\ mpc = "release3"
  /\ mpc' = "loop"
  /\ IF mseg1 = NoSeg /\ mseg2 = NoSeg
     THEN /\ freedDocs' = freedDocs \cup doomed
          /\ IF Joins
             THEN merge_stage' = 4 /\ UNCHANGED freedSegs
             ELSE merge_stage' = 6 /\ FreeSegments({newseg})
     ELSE UNCHANGED << freedDocs, freedSegs, merge_stage >>
  /\ UNCHANGED << pkOf, docId, docs, deletion, deleted, state, processes,
                  nsegs, removal, queue, mseg1, mseg2, newseg, doomed, old,
                  snapshot, pending >>
  /\ Unmerge

-----------------------------------------------------------------------------
(* Redelete and reset.                                                     *)

PostRedelete ==
  /\ merge_stage = 4
  /\ Post(RedeleteTask, "loop", "reposted")

WriteStage5 == WriteStage("reposted", 5)

\* ts_merger_redelete_handler, run by the input processor: the keys removed
\* since the merge began are removed from the new segment.
Redelete ==
  /\ Take(RedeleteTask)
  /\ pc' = "redelete"
  /\ cursor' = cursor
  /\ UNCHANGED << segVars, issued, segments, segment_active, merge_stage,
                  merging_deletion, crash, store, updated, mergerVars,
                  headPrev >>

Redeleted ==
  UNION {Undeleted(newseg, k) : k \in merging_deletion}

FinishRedelete ==
  /\ pc = "redelete"
  /\ deletion' = [deletion EXCEPT ![newseg] = @ \cup Redeleted]
  /\ deleted' = [deleted EXCEPT ![newseg] = @ + Cardinality(Redeleted)]
  /\ merge_stage' = 6
  /\ Return
  /\ UNCHANGED << pkOf, docId, docs, state, processes, nsegs, freedSegs,
                  freedDocs, removal, queue, issued, segments,
                  segment_active, merging_deletion, crash, store, updated,
                  mergerVars, headPrev >>

\* Frees the array of deleted documents, and nothing else: merging_deletion
\* keeps its keys.
Reset ==
  /\ mpc = "loop"
  /\ merge_stage = 6
  /\ doomed' = {}
  /\ merge_stage' = 0
  /\ UNCHANGED << segVars, queue, mpc, mseg1, mseg2, newseg, old, snapshot,
                  pending >>
  /\ Unmerge

-----------------------------------------------------------------------------

MergeThread ==
  \/ Check
  \/ BeginMigrate
  \/ CloneDeletion
  \/ CopyDocument
  \/ EndSource
  \/ PostReplace
  \/ WriteStage2
  \/ Release1
  \/ Release2
  \/ Release3
  \/ PostRedelete
  \/ WriteStage5
  \/ Reset

MergerHandlers ==
  \/ BeginReplace
  \/ ReplaceDelete1
  \/ ReplaceDelete2
  \/ FinishReplace
  \/ Redelete
  \/ FinishRedelete

ClientStep == crash = "none" /\ Client /\ UNCHANGED << mergerVars, headPrev >>

InputStep ==
  /\ crash = "none"
  /\ \/ InputProcessor /\ UNCHANGED << mergerVars, headPrev >>
     \/ MergerHandlers

MergeStep == crash = "none" /\ MergeThread

Next == ClientStep \/ InputStep \/ MergeStep

Spec == Init /\ [][Next]_vars

(***************************************************************************)
(* Both threads loop until shutdown, sleeping with a timeout when there is *)
(* nothing to do, and never block: the spinlock and the rwlock are held    *)
(* for a bounded number of instructions.  Clients owe nothing.             *)
(***************************************************************************)
FairSpec == Spec /\ WF_vars(InputStep) /\ WF_vars(MergeStep)

-----------------------------------------------------------------------------
(* Properties.                                                             *)

\* Type invariant of the three modules.
SegTypeOK ==
  /\ pkOf \in [Doc -> PK \cup {0}]
  /\ docId \in [Doc -> Nat]
  /\ docs \in [Seg -> Seq(Doc)]
  /\ deletion \in [Seg -> SUBSET Nat]
  /\ deleted \in [Seg -> Nat]
  /\ state \in [Seg -> {ACTIVE, VALID}]
  /\ processes \in [Seg -> Nat]
  /\ nsegs \in Seg
  /\ freedSegs \subseteq Seg
  /\ freedDocs \subseteq Doc
  /\ removal \in [at : {"test", "set"}, seg : Seg, doc : Doc, id : Nat,
                  todo : SUBSET Doc] \cup {NoRemoval}

EngineTypeOK ==
  /\ queue \in Seq(Task)
  /\ issued \in 0..MaxDoc
  /\ segments \in Seq(Seg)
  /\ segment_active \in Seg
  /\ pc \in {"idle", "empty", "rotate", "scan", "delete1", "delete2",
             "prepend", "redelete"}
  /\ task \in Task \cup {NoTask}
  /\ cursor \in Nat
  /\ pc = "scan" => cursor >= ListHead
  /\ merge_stage \in 0..6
  /\ merging_deletion \subseteq PK
  /\ crash \in {"none", "assertion", "stale_task"}
  /\ store \in [PK -> Doc \cup {0}]
  /\ updated \subseteq PK

MergerTypeOK ==
  /\ mpc \in {"loop", "clone", "copy", "post", "posted", "release2",
              "release3", "reposted"}
  /\ {mseg1, mseg2, newseg, old} \subseteq Seg \cup {NoSeg}
  /\ {doomed, pending} \subseteq SUBSET Doc
  /\ snapshot \subseteq Nat
  /\ headPrev \in BOOLEAN

\* Every variable has its type, in every interleaving of the two threads: no
\* state passes VALID.  Like all that follows this is said of the engine until
\* it runs a task for a second time (ReadSize, queue.c:49).
TypeOK == SegTypeOK /\ EngineTypeOK /\ MergerTypeOK

Listed == Range(segments)

\* The documents of a key a walk over the list would find undeleted.
Live(k) == {d \in Doc : /\ pkOf[d] = k
                        /\ \E s \in Listed : /\ d \in DocsIn(s)
                                             /\ docId[d] \notin deletion[s]}

\* Neither thread is in the middle of anything.
Quiescent == pc = "idle" /\ mpc = "loop" /\ merge_stage = 0

\* A key whose last task was a remove has no live document once the merge it
\* raced is over, whatever the merge had already copied (engine.c:144 records
\* the key, merger.c:111 removes it from the new segment).
RemovedStaysRemoved ==
  Quiescent => \A k \in PK : store[k] = 0 => Live(k) = {}

\* The last document added under a key survives every merge, unless the key
\* is still recorded in merging_deletion.
LatestSurvivesUnlessRecorded ==
  Quiescent => \A k \in PK \ merging_deletion :
                 store[k] # 0 => store[k] \in Live(k)

\* A key shows an older document beside the latest one only if it was added
\* again during a merge (engine.c:127 deletes every older one otherwise).
DuplicateOnlyAfterMergingUpdate ==
  Quiescent => \A k \in PK \ updated : Live(k) \subseteq {store[k]}

\* Documents whose add handler has returned.
Added == {d \in Doc : docId[d] # 0}

\* Once a merge is over every document ever added is either freed or in
\* exactly one listed segment, once: none leaks and none is shared.
DocumentsAccounted ==
  Quiescent => \A d \in Added :
    Cardinality({s \in Listed : d \in DocsIn(s)})
      = (IF d \in freedDocs THEN 0 ELSE 1)

\* What a thread can reach has not been freed: the list, the active segment,
\* the segments being merged and the documents of all of them.
ReachableNotFreed ==
  LET reach == Listed \cup {segment_active, old, mseg1, mseg2} IN
  /\ reach \cap freedSegs = {}
  /\ \A s \in reach \ {NoSeg} :
       (s \in Listed => DocsIn(s) \cap freedDocs = {})

\* The input queue exceeds its limit by the one task the merger forces in:
\* replace and redelete are never queued together.
QueueBound == Len(queue) <= QUEUE_SIZE_INPUT + 1

\* merger.c:166 fears segments above the limit: a merge does not make any,
\* because it takes a segment with every document deleted and one other.
SegmentSizeBound == \A s \in Seg : Len(docs[s]) <= SEGMENT_MAX_DOC

Migrating == IF Merging THEN {mseg1, mseg2} ELSE {}

\* Outside a merge num_total_deleted counts the set bits and every set bit
\* is the id of one document of the segment.
DeletedCountExact ==
  \A s \in Listed \ Migrating :
    /\ deleted[s] = Cardinality(deletion[s])
    /\ deletion[s] \subseteq {docId[d] : d \in DocsIn(s)}

\* The documents of the segments being merged never change: nothing is added
\* behind the back of the copy.
MergeSourcesFrozen ==
  [][\A s \in Migrating \ {NoSeg} : docs'[s] = docs[s]]_vars

\* A merge that has posted a task and written its stage over the one the
\* task's handler had written waits for ever.
Overwritten ==
  /\ mpc = "loop"
  /\ merge_stage \in {2, 5}
  /\ pc = "idle"
  /\ Range(queue) \cap MergerTask = {}

-----------------------------------------------------------------------------
(* What the comments and assertions of the code say and the code does not  *)
(* do; each is refuted by a run.                                           *)

\* engine.c:127: an add deletes all the old documents of its key.
OneLivePerKey == Quiescent => \A k \in PK : Cardinality(Live(k)) <= 1

\* merger.c:137: reset clears all the resources of the merge.  If the keys
\* recorded were among them no later document would be lost.
LatestSurvives ==
  Quiescent => \A k \in PK : store[k] # 0 => store[k] \in Live(k)

\* merger.c:95 and :104: a merge releases its documents and is reset.
MergeEnds == (merge_stage = 1) ~> (merge_stage = 0)

\* utlist.h:709, the assertion in DL_DELETE.
NeverAborts == crash # "assertion"

=============================================================================
