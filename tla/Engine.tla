------------------------------- MODULE Engine --------------------------------
(***************************************************************************)
(* engine.c without its merge thread: clients put add and remove tasks in  *)
(* the input queue; one thread, the input processor, takes them out and    *)
(* runs their handlers, which walk the list of segments.                   *)
(*                                                                         *)
(* The input queue is TaskQueue, one step per operation; SpinQueue is the  *)
(* code that implements it.  Requests enter through engine->add and        *)
(* engine->remove, called by the workers of the server in any order: the   *)
(* i-th call is any request of Workload[i].                                *)
(*                                                                         *)
(* Two history variables: `store' is the document a key should have once   *)
(* the handlers that have returned are applied in their order (0 for       *)
(* none), `updated' the keys whose add handler ended during a merge.       *)
(***************************************************************************)
EXTENDS Segment

CONSTANTS Workload,           \* Workload[i]: what the i-th request may be
          SEGMENT_MAX_DOC,    \* config.h
          QUEUE_SIZE_INPUT    \* config.h

Request == [op : {"add"}, pk : PK \cup {0}] \cup [op : {"remove"}, pk : PK]

ASSUME WorkloadAssumption   == Workload \in [Doc -> SUBSET Request]
ASSUME SegmentMaxAssumption == SEGMENT_MAX_DOC \in Nat \ {0}
ASSUME QueueSizeAssumption  == QUEUE_SIZE_INPUT \in Nat \ {0}

VARIABLES
  queue,            \* engine->input_queue
  issued,           \* how many requests the clients have made
  segments,         \* engine->segments, the head first
  segment_active,   \* engine->segment_active
  pc,               \* where the input processor is
  task,             \* the task it runs
  cursor,           \* index in segments of the next one its loop visits
  merge_stage,      \* merger->merge_stage
  merging_deletion, \* merger->merging_deletion: keys removed during a merge
  crash,            \* "none", or what has ended defined behaviour
  store,            \* history: the document each key should have
  updated           \* history: keys added while merge_stage was not 0

engineVars == << queue, issued, segments, segment_active, pc, task, cursor,
                 merge_stage, merging_deletion, crash, store, updated >>

AddTask(d)     == [kind |-> "add", doc |-> d]
RemoveTask(k)  == [kind |-> "remove", pk |-> k]
ReplaceTask    == [kind |-> "replace"]
RedeleteTask   == [kind |-> "redelete"]
NoTask         == [kind |-> "none"]

ClientTask == {AddTask(d) : d \in Doc} \cup {RemoveTask(k) : k \in PK}
MergerTask == {ReplaceTask, RedeleteTask}
Task       == ClientTask \cup MergerTask

Q == INSTANCE TaskQueue
       WITH Item <- Task, MaxSize <- QUEUE_SIZE_INPUT, q <- queue

\* The key whose documents the running handler deletes.
TaskPk == IF task.kind = "add" THEN pkOf[task.doc] ELSE task.pk

EngineInit ==
  /\ queue = << >>
  /\ issued = 0
  /\ segments = << 1 >>
  /\ segment_active = 1
  /\ pc = "idle"
  /\ task = NoTask
  /\ cursor = 0
  /\ merge_stage = 0
  /\ merging_deletion = {}
  /\ crash = "none"
  /\ store = [k \in PK |-> 0]
  /\ updated = {}

-----------------------------------------------------------------------------
(* The clients.                                                            *)

RequestTask(r, d) == IF r.op = "add" THEN AddTask(d) ELSE RemoveTask(r.pk)

\* ts_document_check, on a document that has fields.
Acceptable(r) == r.op = "remove" \/ r.pk # 0

Unclient == UNCHANGED << docId, docs, deletion, deleted, state, processes,
              nsegs, freedSegs, freedDocs, removal, segments, segment_active,
              pc, task, cursor, merge_stage, merging_deletion, crash, store,
              updated >>

\* engine->add or engine->remove returning ERROR_CODE_SUCCESS.
Accept(r) ==
  /\ issued < MaxDoc
  /\ r \in Workload[issued + 1]
  /\ Acceptable(r)
  /\ issued' = issued + 1
  /\ pkOf' = IF r.op = "add" THEN [pkOf EXCEPT ![issued + 1] = r.pk] ELSE pkOf
  /\ Q!Enqueue(RequestTask(r, issued + 1), FALSE)
  /\ Unclient

\* ERROR_CODE_QUEUE_FULL: the task is dropped and the caller frees the document.
RejectFull(r) ==
  /\ issued < MaxDoc
  /\ r \in Workload[issued + 1]
  /\ Acceptable(r)
  /\ Q!Refuse(FALSE)
  /\ issued' = issued + 1
  /\ UNCHANGED pkOf
  /\ Unclient

\* ERROR_CODE_INVALID_ARGUMENT
RejectInvalid(r) ==
  /\ issued < MaxDoc
  /\ r \in Workload[issued + 1]
  /\ ~Acceptable(r)
  /\ issued' = issued + 1
  /\ UNCHANGED << pkOf, queue >>
  /\ Unclient

Client == \E r \in Request : Accept(r) \/ RejectFull(r) \/ RejectInvalid(r)

-----------------------------------------------------------------------------
(* The input processor.                                                    *)

\* Mutant of Take: no task is run during a merge.
TakeBetweenMerges(t) ==
  /\ pc = "idle"
  /\ merge_stage = 0
  /\ Q!Dequeue(t)
  /\ task' = t

Take(t) ==
  /\ pc = "idle"
  /\ Q!Dequeue(t)
  /\ task' = t

\* engine.c:49 with queue.c:48: the queue is found empty and unlocked.
FindEmpty ==
  /\ pc = "idle"
  /\ queue = << >>
  /\ pc' = "empty"
  /\ UNCHANGED << segVars, queue, issued, segments, segment_active, task,
                  cursor, merge_stage, merging_deletion, crash, store,
                  updated >>

\* The size is read after the unlock (queue.c:49).  If it is not zero any more
\* the input processor runs the task it ran last for a second time: one of a
\* client has been freed, one of the merger would replace segments that have
\* gone or write merge_stage again.  The model ends there.
ReadSize ==
  /\ pc = "empty"
  /\ pc' = "idle"
  /\ crash' = IF queue = << >> THEN crash ELSE "stale_task"
  /\ UNCHANGED << segVars, queue, issued, segments, segment_active, task,
                  cursor, merge_stage, merging_deletion, store, updated >>

\* Mutant of ListHead: the loops begin behind the head.
SecondInList == 2

\* Where DL_FOREACH begins.
ListHead == 1

\* The head of the add handler: is the active segment full?
BeginAdd ==
  /\ \E d \in Doc : Take(AddTask(d))
  /\ IF Len(docs[segment_active]) >= SEGMENT_MAX_DOC
     THEN /\ Promote(segment_active)
          /\ pc' = "rotate"
          /\ UNCHANGED cursor
     ELSE /\ pc' = "scan"
          /\ cursor' = ListHead
          /\ UNCHANGED state
  /\ UNCHANGED << pkOf, docId, docs, deletion, deleted, processes, nsegs,
                  freedSegs, freedDocs, removal, issued, segments,
                  segment_active, merge_stage, merging_deletion, crash, store,
                  updated >>

\* ... then a new segment becomes the head of the list and the active one.
Rotate ==
  /\ pc = "rotate"
  /\ NewSegment
  /\ segments' = << Fresh >> \o segments
  /\ segment_active' = Fresh
  /\ pc' = "scan"
  /\ cursor' = ListHead
  /\ UNCHANGED << pkOf, docId, docs, deletion, deleted, state, processes,
                  freedSegs, freedDocs, removal, queue, issued, task,
                  merge_stage, merging_deletion, crash, store, updated >>

BeginRemove ==
  /\ \E k \in PK : Take(RemoveTask(k))
  /\ pc' = "scan"
  /\ cursor' = ListHead
  /\ UNCHANGED segVars
  /\ UNCHANGED << issued, segments, segment_active, merge_stage,
                  merging_deletion, crash, store, updated >>

\* With the last document of the key the DL_FOREACH goes on.
Scanned ==
  /\ cursor' = IF removal'.at = "none" THEN cursor + 1 ELSE cursor
  /\ UNCHANGED << pkOf, docId, docs, state, processes, nsegs, freedSegs,
                  freedDocs, queue, issued, segments, segment_active, pc,
                  task, merge_stage, merging_deletion, crash, store,
                  updated >>

\* The DL_FOREACH of either handler visits a segment: the key is looked up
\* there and, if it has documents, the lock is taken.
ScanSegment ==
  /\ pc = "scan"
  /\ removal.at = "none"
  /\ cursor <= Len(segments)
  /\ Visit(segments[cursor], OfKey(segments[cursor], TaskPk))
  /\ UNCHANGED << deletion, deleted >>
  /\ Scanned

TestBit ==
  /\ pc = "scan"
  /\ TestDocument
  /\ UNCHANGED << deletion, deleted >>
  /\ Scanned

SetBit ==
  /\ pc = "scan"
  /\ DeleteDocument
  /\ Scanned

Return ==
  /\ pc' = "idle"
  /\ task' = NoTask
  /\ cursor' = 0

\* Mutant of Merging: the first stage does not count.
MergingLate == merge_stage > 1

Merging == merge_stage > 0

\* The end of the add handler.
FinishAdd ==
  /\ pc = "scan"
  /\ cursor > Len(segments)
  /\ task.kind = "add"
  /\ AddDocument(segment_active, task.doc)
  /\ store' = [store EXCEPT ![pkOf[task.doc]] = task.doc]
  /\ updated' = IF Merging THEN updated \cup {pkOf[task.doc]} ELSE updated
  /\ Return
  /\ UNCHANGED << pkOf, deletion, deleted, state, processes, nsegs, freedSegs,
                  freedDocs, removal, queue, issued, segments, segment_active,
                  merge_stage, merging_deletion, crash >>

\* The end of the remove handler: during a merge the key is also recorded.
FinishRemove ==
  /\ pc = "scan"
  /\ cursor > Len(segments)
  /\ task.kind = "remove"
  /\ merging_deletion' = IF Merging THEN merging_deletion \cup {task.pk}
                                    ELSE merging_deletion
  /\ store' = [store EXCEPT ![task.pk] = 0]
  /\ Return
  /\ UNCHANGED segVars
  /\ UNCHANGED << queue, issued, segments, segment_active, merge_stage,
                  crash, updated >>

InputProcessor ==
  \/ FindEmpty
  \/ ReadSize
  \/ BeginAdd
  \/ Rotate
  \/ BeginRemove
  \/ ScanSegment
  \/ TestBit
  \/ SetBit
  \/ FinishAdd
  \/ FinishRemove

=============================================================================
