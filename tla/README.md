# Verification of ts-engine

ts-engine is an in-memory full-text index behind a TCP server. Workers of the
server hand documents to an engine; one *input processor* thread applies them to
a list of segments; one *merge* thread rewrites segments in which everything has
been deleted; readers search the list at any time. Connections travel between an
event loop and the workers through a queue and file events. This directory holds
TLA+ modules of that code, the TLC configurations that check them on small
instances, and TLAPS proofs of the results that hold for every instance. Paths
are relative to `src/`.

## 1. Inventory

### Segment store - `segment.c`, `docid.c`, `document.c`

*State.* Per segment: a doc id generator, the map pk -> documents, the inverted
index, the bitmap of deleted ids, `num_total_docs`, `num_total_deleted`,
`state` (ACTIVE or VALID), `processes` (lookups inside), a rwlock.
*Operations.* new, add_document, remove_document, lookup, migrate (in
`merger.c`), free.
*Interaction.* Called by the engine's handlers and the merger. A container of
doc ids holds pointers to the `doc_id` field of the documents (`docid.h:83`), so
a document that is copied to another segment changes its id in both.
*Hard.* Ids rewritten under a bitmap that still refers to them, and between two
loads of one remove, which locks the bitmap but not the id; counters that
describe another generation of ids; who frees a document, and when.
*Correct if* counters agree with the bitmap, every bit set belongs to a
document of the segment, a segment stays below its size, every document is
owned by one segment or freed.

### Engine - `engine.c`, `task.h`, `config.h`

*State.* The list of segments and the active one, the input queue.
*Operations.* `add`, `remove` (called by any worker: validate and enqueue),
`lookup` (runs in the worker), the input thread and its two handlers, rotation
to a new active segment, stop.
*Hard.* The handlers walk the list while the merge thread prepares to change
it; the queue refuses; the handler rotates in two steps; a dequeue may return a
positive size without a task, and the last one would run again (`engine.c:49`).
*Correct if* after the tasks of a key have been applied in order, a walk over
the list finds the document last added, or none after a remove.

### Merger - `merger.c`, the list macros of `lib/utlist.h`

*State.* `merge_stage` 0..6, the two source segments, the new segment, the
documents to free, the keys removed during the merge.
*Operations.* Five procedures in a row once a second (check, migrate, release,
redelete, reset), each acting only in its stage, and two handlers (replace,
redelete) the input processor runs when the merger has posted their task.
*Hard.* `merge_stage` is written by both threads without a lock and after the
task is posted; removes and adds during a merge reach only the old segments;
the list is rewritten while it may be walked; freeing with readers inside.
*Correct if* merging changes nothing a client sees, nothing reachable is freed,
nothing leaks, and every merge ends.

### Task queue and locks - `queue.c`, `lock.c`

*State.* A singly linked list (head, tail, size) with a soft limit, under a
spinlock. *Operations.* enqueue (plain or forced), dequeue, init, destroy.
*Hard.* `size` is read after the unlock; `tail` dangles when the queue empties.
*Correct if* it is a FIFO, the lock excludes and is always released.

### Lookup - `engine.c:152-187`, `segment.c:89-173`, `inverted.c`

*State.* Per lookup: the segment it is at, a clone of its bitmap, the documents
found so far, a total. *Operations.* A worker walks the list; for each segment it
raises `processes`, evaluates the query, clones what it found, lowers
`processes` and goes on to `next`.
*Hard.* It takes no lock but the one under which it clones the bitmap: segments
enter and leave the list, ids are rewritten, counters change between two loads,
the table of terms expands and memory is freed while it walks. A lookup with one term never consults the bitmap; `total` is
added even when the segment left it unassigned.
*Correct if* it touches nothing freed, returns only documents that match and were
not deleted before it began, misses none that was there throughout, and ends.

### Query evaluation - `intersect.c`, `bitmap.h`

Pure algorithms: n-way intersection of sorted posting lists, the bitmap.
*Correct if* each equals its mathematical definition.

### Documents, requests and responses - `document.c`, `query.c`, `adapter.c`

A document is a hash of fields; a request holds an array of distinct tokens; a
reply is built from clones of the documents found. *Hard.* Ownership: a field
replaced by another, a clone, the structures of the protocol.
*Correct if* everything allocated has one owner.

### Thread pool - `threadpool.c`

A queue of tasks, N workers, an event (a flag, a mutex, a condition variable).
*Hard.* One flag stands for many pushes; push ignores a refused enqueue and
reports success; dequeue's positive result may come without a task.
*Correct if* no task waits while all workers sleep, and every worker ends.

### Server - `server.c`, `net.c`, `ts.c`

An event loop accepts, reads and pushes to the pool; a worker answers by adding a
write event from its own thread. *Hard.* Both threads are at the events of one
descriptor at the same time (`server.c:122-126`); a descriptor is closed and
used again; shutdown frees the event loop and the engine before the workers are
joined (`server.c:56-59`).
*Correct if* a connection has one holder at any time, every request ends, the
process can be stopped.

### Event loop - `ae/ae.c`, `ae/ae_epoll.c`

File events per descriptor (mask and handlers), mirrored in epoll; a list of
timers walked at every turn. *Hard.* Handlers change what is being dispatched or
walked; the mask remembered may differ from the kernel's.

### Containers - `lib/uthash.h`, `lib/utlist.h`, `lib/utarray.h`, `lib/utstring.h`, `docid.c`

The table of a segment's keys and terms, the list of segments, arrays of tokens
and documents, posting lists. *Hard.* The first and the last are written by the
input processor while lookups read them, without a lock.
*Correct if* each does what its mathematical counterpart does, and a reader sees
only what was there.

### Left aside

`protocol/` (generated), the back ends of `ae/` for other systems, `anet.c` but
for the results of two functions, `lib/utringbuffer.h` and `lib/utstack.h` (unused),
options and the daemon in `ts.c`.

## 2. Modules

| module | models | state and actions |
|---|---|---|
| `TaskQueue` | what `queue.c` promises | a sequence; Enqueue, Refuse, Dequeue |
| `SpinQueue` | `queue.c` over `lock.c` | head, tail, size, the heap of elements; one step per access another thread can observe |
| `Segment` | `segment.c` | documents, ids, bitmaps, counters; one operator per function |
| `Engine` (EXTENDS `Segment`) | `engine.c`: clients and input processor | Accept, RejectFull, RejectInvalid; FindEmpty, ReadSize; BeginAdd, Rotate, BeginRemove, ScanSegment, TestBit, SetBit, FinishAdd, FinishRemove |
| `Merger` (EXTENDS `Engine`) | `merger.c`, and the composition | Check, migration in steps, posting and writing the stage in two, replace in four, release in three, redelete, reset |
| `Lookup` (EXTENDS `Merger`) | `ts_engine_lookup`, `ts_segment_lookup`, composed with both threads | BeginLookup, Enter, CheckSize, CheckDeleted, CloneBits, CountDocs, Subtract, Walk, FindMisses, FindFreed, Leave, Advance, EndLookup |
| `Intersect` | `intersect.c` | `LinearIntersect`, `SeekIntersect`, used by `Lookup` |
| `IntersectCalls` | a call of `ts_seek_intersect` | any ordered posting lists, any excluded ids |
| `ThreadPool` | `threadpool.c` | tasks, the event, the place of each worker |
| `EventLoop` | file events of `ae.c`, `ae_epoll.c` | mask, wfileProc, clientData, the kernel's interest set, what fired |
| `Server` (EXTENDS `ThreadPool`, `EventLoop`) | `server.c`, `net.c`, `ts.c` | connections; the steps of the main thread, of the workers, of clients and signals |
| `HashTable` | `lib/uthash.h` | HASH_ADD with the expansion of buckets in steps, HASH_DELETE, HASH_FIND and HASH_ITER beside it |
| `SegmentList`, `DList` | a sequence; the DL_ macros of `lib/utlist.h` | prev and next pointers; `DList` implements `SegmentList` |
| `DocIds` | `docid.c`, `docid.h` | the chain of buckets, append store by store, two ways to read it |
| `Bitmap` | `bitmap.h` | bytes, set, unset, clone, destroy |
| `Documents` | `document.c`, `query.c`, `adapter.c` | allocations and who owns them |
| `Arrays` | `lib/utarray.h` | slots and strings, every macro that moves them |
| `TimeEvents` | time events of `ae.c` | the list of timers, the clock, the walk in steps |
| `StringSearch` | the searches of `utstring.h` | functions for its loops, any two strings and a start |
| `ListSort` | the sorts of `utlist.h` and `uthash.h` | operators |
| `MCMerger`, `MCLookup`, `MCSpinQueue`, `MCServer`, `MCStructures` | instances for TLC | workloads, restrictions of the environment, inputs |
| `MergerInv`, `DocInv`, `KeyInv`, `LookupInv`, `AnswerInv`, `ServerInv` | | inductive invariants: of the hand-shake, on it of the documents, on them of the keys and of the lookups, on both of the answers; of the connections |
| `MergerProofs`, `DocProofs`, `LookupProofs`, `AnswerProofs`, `ServerProofs`, `SpinQueueProofs`, `ListProofs`, `StructureProofs` | | theorems (section 4) |

How they fit: `Engine` uses `TaskQueue` for its input queue by INSTANCE, and
`SpinQueue!ImplementsTaskQueue` shows that the linked list implements it, so a
queue operation is one step in `Engine` and in `ThreadPool`. `Lookup` takes
pointers of the segment list as `DList` gives them, posting lists as sequences
(`DocIds`), tables as functions (`HashTable`) and the bitmap as a set (`Bitmap`).
`MCStructures` puts the small modules side by side, one in each behaviour.

### Correspondence and abstractions

Engine and merger:

- `pc`, `task`, `cursor` are the program counter and locals of the input
  processor; `mpc`, `old`, `snapshot`, `pending` those of the merge thread. A
  procedure of the merger that returns at once because it is not its stage is
  a stutter; a round is therefore not a step of the model.
- A step is the code between two accesses the other thread can tell apart. In
  the handlers each round of the `DL_FOREACH` begins with a step (`ScanSegment`).
  `ts_segment_add_document` is one step for the merge thread, which never reads
  a segment that is still active.
- `ts_segment_remove_document` holds the lock of the bitmap, but the merge thread
  stores to `doc_id` (`segment.c:52`) after it has released that lock
  (`merger.c:146`). So the test of a bit and its store are two steps (`TestBit`,
  `SetBit`), and since the macros load `*doc_id` once for the byte and once for
  the bit, each reaches the bit of the old id, of the new one or of a mixture
  (`Torn`). `removal` holds what the remove has loaded. Of the segment being
  renumbered nothing is claimed but that ids stay below its length; there a bit is
  counted twice.
- The input processor trusts the positive result of a dequeue (`engine.c:49`),
  but the size is read after the unlock (`queue.c:49`). `FindEmpty` and `ReadSize`
  are those two; if a task has come between them the previous one would run
  again, with arguments that have been freed or as a second `replace`. The model
  has `crash = "stale_task"` and ends there: *everything said of the engine and
  of lookups is said of the behaviour until then.* `queue_stale_return` is the
  disagreement itself.
- `Check` is one step. It reads only state and counters of listed segments; a
  counter that changes during the scan gives the result of a scan at another
  moment. What could differ is the pair chosen, never that both are VALID and
  listed.
- The handler of an add increments `state` of the full segment, and only later
  prepends the next one: `BeginAdd` and `Rotate`. Between the two the list has
  no active segment and the merger may choose the one just closed.
- The id generator is not a variable: it starts at 1 and only
  `ts_segment_add_document` draws from it, so the next id is `Len(docs) + 1`.
- A freed segment keeps its contents and a segment number is never used
  twice, so that a use after free shows as a reference to a freed member
  rather than as garbage.
- The merger's list is a sequence; the one pointer that matters for control, the
  head's `prev`, is `headPrev`, and the assertion in `DL_DELETE`
  (`lib/utlist.h:709`) sets `crash` to "assertion".
- The ratio of `config.h:9` is 0.2, but `merger.c:12` divides integers: only a
  segment in which everything is deleted reaches it (`RatioReached`).
- `store` and `updated` are history variables. They appear in no guard.

Lookup: a step is one access to what another thread changes. The loads of
`num_total_docs` and `num_total_deleted` are steps of their own, twice
(`CheckSize`, `CheckDeleted` for `segment.c:101`; `CountDocs`, `Subtract` for
`:119`), in the order in which they do most harm; the difference is a `uint32_t`
(`UINT32`), so that it wraps. The clone of the bitmap waits for its lock. The walk
over one segment after that is one step, and so is the add of one document; what a
reader can see *within* such an add is the subject of `HashTable` and `DocIds`,
and what follows from it is here: while the table of terms expands under an add
that brings a new term, a find may miss (`FindMisses`) or follow freed buckets
(`FindFreed`). `misled` remembers a lookup that left a segment after such a miss,
or because it compared counters of two moments. That a posting list read beside an
append may skip ids appended since the walk began (`ReaderInOrder`) takes nothing
from an answer: `AnswerComplete` asks only for documents that were there when the
lookup began. Release tests `processes` and
frees in one step. A thread that touches freed memory, or the NULL segment of
the second round of release, leaves defined behaviour: `fault` says so and the
behaviour ends. What an uninitialised `total` holds is any member of `Garbage`.

Server: the critical sections of the event are one step each. The processing of
a request by the engine is one step. The read event is deleted by the loop and
the write event added by the worker in steps (`DeleteSees`, `DeleteCtl`,
`DeleteStore`; `Process`, `CreateCtl`, `CreateStore`, `CreateProc`,
`CreateData`), since both touch the same mask without a lock. Between the store
of the mask (`ae.c:147`) and that of the handler (`ae.c:149`) the loop may call
a `wfileProc` that a descriptor used for the first time has never been given, in
memory from `malloc`: `OnUnset`, a fault; a mask that is loaded and stored may
be loaded at any time since `epoll_ctl`, represented by the choice between the
value seen then and the one now. Accepted sockets are blocking, because
`server.c:75` makes the listening one non-blocking a second time, so reading a
body waits for the client. Replies are taken to fit the buffer of the socket. A
read of the body may bring a part (`BodyPart`), nothing (`BodyEnds`) or an error
(`BodyFails`). What a client has sent when it is accepted (its end, the header,
everything) is chosen when it connects; whether its length is refused or its
action unknown, when it is read. `lost`, `lateStore` and `busyAtStop` are
history variables.

TimeEvents: the user of the loop is any, since the server runs this code but
creates no timer. The clock may be set back once while the loop waits, not as far
as its first second (`when_sec = 0` would not be in the past).

Arrays: callers respect the bounds the macros take for granted. ListSort and
StringSearch are library functions the engine does not call today (no file of the
program includes `utstring.h`); they are checked as pure functions over all inputs
up to a length, and the search is proved for all.

## 3. Runs

`engine_*` instances start with fixed requests that bring the engine to its
first merge as early as possible and continue with free choices. The requests
of different workers may be issued at any moment, before, during or after any
step of the merge. `MaxDoc` is the number of requests. `MaxSeg` is a bound on
allocations which none of the instances reaches.

| run | instance | shows |
|---|---|---|
| `engine_merge` | 7 requests, 1 document per segment, queue of 2 | removes stick, the latest document survives, nothing leaks or is freed while reachable, the queue's excess is one |
| `engine_capacity` | 9 requests, 2 documents per segment, queue of 3 | the same where ids and bits of several documents share a segment; segment size, counters, sources frozen, and the inductive invariant |
| `lookup` | 6 requests, 2 documents per segment, bytes of 2 bits, one lookup of 4 kinds, fair | what a lookup touches, returns, misses and counts; that it ends, and that the input queue drains and merges end with lookups inside |
| `queue` | 2 threads, 3 elements, 5 calls, limit 1, fair | exclusion, well-formed list, FIFO by refinement, the lock is released |
| `structures` | see below | containers and algorithms |
| `server` | 2 workers, a queue of 1, 2 connections, 2 descriptors, 1 signal, fair | who holds a connection, when freed memory is touched, no lost wake-up, requests and shutdown end |

Why these bounds are enough to mean something: a merge needs three segments and
all documents of one removed, that is four requests; three more let any pair of
operations hit the same key on either side of any step, and let a second merge
follow. Two documents per segment is the least at which an id of the new segment
collides with the id of *another* document in the old bitmap. One lookup is
enough for what a lookup and the two threads do to each other, because lookups
only share the counter; in `MCLookup` the requests before the last come one at a
time and the lookup begins when the first merge can (`MCInput`, `MCFairness`:
once it has, the input processor does not poll an empty queue). A byte of a
bitmap has two bits (`BYTE`), so that ids of one segment fall in different bytes
and a torn one can be met; `UINT32` is a small modulus. A limit of 1 reaches the
empty, full and forced-above-limit queue with an element used again. In `server`
a queue of one task (the code has twice the threads) makes the refused enqueue a
matter of two requests; a second client, restricted to whole requests, is what
it takes to use a descriptor again; two workers are what it takes to steal a
task between a dequeue and its result. `MCServer` lets a signal come once the
loop has begun and outside the handlers: the loop forgets an earlier one, and
looks at `stop` only after them, so no other place makes a difference to it. The
run has 670,000 states.

`structures`: a table of 4 items in 1 to 4 buckets with a threshold of 1, so that
every second add expands; 4 segments in a list; id buckets of 1, 2 and 4 ids with
6 appends; bits in the same byte, on either side of a byte's and of the
preallocation's end; two names and values for fields, so that one replaces
another; arrays of up to 3 strings that start with 1 slot; 3 timers within 4
ticks of 2 to the second; all posting lists over 4 ids, 2 or 3 at a time, with
all sets of deletions; all lists of up to 6 keys out of 3 values; all strings of
up to 5 characters out of two, all needles of up to 4, all starts.

`CHECK_DEADLOCK FALSE` is in every configuration: requests, calls, appends or
signals are bounded, and a server at rest waits for clients that need not come.

### Disagreements between code and its own statements

Each is a run that TLC must find violated.

| run | statement | what the code does |
|---|---|---|
| `engine_update_in_merge` | `engine.c:127`, an add deletes all old documents of its key | not the copy a merge has already made: the key keeps two live documents |
| `engine_stale_deletion` | `merger.c:137`, reset clears all resources | `merging_deletion` is kept: a later merge deletes a document added since |
| `engine_stage_overwritten` | `merger.c:95`, `:104`, a merge is released and reset | 2 or 5 is written after the task is posted and may overwrite the handler's 3 or 6: merging stops for ever |
| `engine_head_prev` | `lib/utlist.h:709`, `assert((del)->prev != NULL)` | the first segment enters the list without `DL_PREPEND`; a merged segment at the head has no `prev` |
| `lookup_freed` | `engine.c:169`, documents found are cloned to prevent conflicts with the merge thread | a lookup that has loaded a segment and not yet raised `processes`, or lowered it and not yet loaded `next`, uses a segment that release has freed |
| `queue_stale_return` | `tests/queue_test.c:23`, a positive return means an item | the size is read after the unlock |

The properties that hold are stated next to these, weakened by exactly the
defect: `LatestSurvivesUnlessRecorded`, `DuplicateOnlyAfterMergingUpdate`,
`EngineProgresses` (a merge ends unless its stage was overwritten or defined
behaviour has ended), `CountedLookupsSafe` (a lookup that is counted is safe in
a segment that was listed when it entered). The answers of a lookup are held to
a strict standard where no merge is under way, and say what they exclude:
`AnswerSound` excepts lookups with one term, `TotalExact` those and lookups that
left a segment before `*total` was assigned, `AnswerComplete` those an add has
misled at `segment.c:101` or `:141`. `SubtractionInOrder` says exactly when the
subtraction of `segment.c:119` cannot wrap: when no document was added since
they were counted and no merge is under way; beside a merge that renumbers it
does wrap, because a remove then counts a bit twice. `ReaderInOrder` gives a
reader of a posting list the order, and all ids counted when it began; an
iterator that has tested `offset` and not yet loaded `next` (`docid.h:82-83`)
skips later ones. `ConnectionAccounted`, `FaultsExplained` and `RequestEnds`
name the ways a connection may be lost (`lost`: a refused enqueue, a write event
deleted by the loop), spoilt (`lateStore`: clientData stored after the
descriptor was used again), or undefined (a task run again: `staleRun`; an
engine freed under it: `busyAtStop`; a handler called before it is stored: the
worker is between `ae.c:147` and `:149`), and show that there are no others.
`MissOnlyDuringExpansion` does the same for a HASH_FIND beside a writer.
`MemoryAccounted` counts what is never freed: a field replaced by one of its
name, a `Document` of the protocol per document replied.

### Fairness

- Engine (`lookup`): weak fairness of the input processor, of the merge thread
  and of a lookup that has begun. The two threads loop until shutdown and sleep
  with a timeout (`engine.c:44-75`, `merger.c:200-216`); no step of theirs waits
  for anything but a lock held for a bounded number of instructions. Clients owe
  nothing, so no liveness property depends on a further request.
- `SpinQueue`: every thread inside a call is weakly fair; acquiring the lock is
  not assumed strongly fair, hence `LockReleased` says that the lock becomes
  free, not that a given thread gets it.
- `Server`: the main thread and each worker are weakly fair, and a client that
  has sent a header sends the rest or closes, because the loop blocks in its read
  (a client that does neither stops the server, and nothing is claimed then).
  Nothing is assumed of signals, of spurious wake-ups or of new clients.
  `ShutdownEnds` starts from a loop that is not waiting: a signal that another
  thread handles does not end `epoll_wait`.

## 4. Proofs

TLAPS proves, for all values of the constants:

| theorem | says |
|---|---|
| `MergerProofs!InvHolds` | `Spec => []Inv`: the hand-shake of the two threads, until a task is run again |
| `MergerProofs!TypeCorrect` | `Spec => []TypeOK`: no state passes VALID, until a task is run again |
| `MergerProofs!QueueBounded` | the input queue exceeds its limit by one task at most |
| `MergerProofs!SourcesFrozen` | no document is added to a segment that is being merged |
| `DocProofs!EngineInvHolds` | `Spec => []EngineInv`: which document is where, through every step of a merge and of a remove; bits of a segment being renumbered excepted |
| `DocProofs!SegmentSizeBounded` | no segment outgrows the bitmap it was made with |
| `DocProofs!DeletedCounted` | `num_total_deleted` is the number of bits set, outside a copy |
| `DocProofs!AllDocumentsAccounted` | between merges every document is in one listed segment or freed |
| `DocProofs!ReachedNotFreed` | what the engine can reach has not been freed |
| `DocProofs!KeyInvHolds` | `Spec => []KeyInv`: which of a key's documents are marked, and where |
| `DocProofs!RemovedStays` | a removed key shows nothing, wherever in a merge the removal came |
| `DocProofs!DuplicateOnlyAfterUpdate` | only a key added again during a merge shows an old document |
| `DocProofs!LatestSurvive` | the latest document is found, unless `merging_deletion` has its key |
| `LookupProofs!LookupInvHolds` | `LookupSpec => [](EngineInv /\ LookupInv)` |
| `LookupProofs!LookupsSafe` | a listed segment that was entered is not freed before it is left |
| `AnswerProofs!AnswerInvHolds` | `LookupSpec => [](KeyInv /\ LookupInv /\ AnswerInv)` |
| `AnswerProofs!AnswersSound` | an undisturbed lookup returns only documents it should |
| `AnswerProofs!AnswersComplete` | ... and all of them, if it may return more and no add has misled it |
| `AnswerProofs!TotalsExact` | the total is their number, unless the code adds what it did not assign |
| `AnswerProofs!SubtractionsInOrder` | `num_total_docs - num_total_deleted` wraps only beside a merge, or if documents came since they were counted |
| `LookupProofs!LinearIntersectSound`, `...Exact` | what `linear_intersect` computes, for lists of any length |
| `LookupProofs!SeekIntersectSound`, `...Exact` | what `ts_seek_intersect` computes, for any number of lists |
| `LookupProofs!IntersectExactHolds` | `PostingsSpec => []IntersectExact`: the same of every call a lookup makes |
| `SpinQueueProofs!SpinlockExcludes` | one thread at a time is inside the list |
| `SpinQueueProofs!QueueInvHolds` | `Spec => []QueueInv`, the strengthening the next two rest on |
| `SpinQueueProofs!QueueTypeCorrect` | the variables keep their types; `size` is never negative |
| `SpinQueueProofs!QueueWellFormed` | the chain from `head` to `tail` is the queue, allocated and counted |
| `SpinQueueProofs!QueueRefines` | the linked list implements `TaskQueue`, which `Engine` is built over |
| `ServerProofs!NoWakeupLost` | the workers never all sleep on a task that has been signalled |
| `ServerProofs!ServerInvHolds`, `HandlersHold` | `ServerSpec => [](ServerInv /\ HandlersOK)`: the events of every connection's descriptor, and the handlers stored for it |
| `ServerProofs!ConnectionsAccounted` | a connection is in one party's hands until it is freed or lost on a known way |
| `ServerProofs!NothingClosedMonitored` | a closed descriptor keeps no event |
| `ServerProofs!AllFaultsExplained` | each undefined step has one of four known races before it |
| `StructureProofs!BitmapSetHolds` | a bitmap and its clone are sets, however they grew; no block is lost but those of empty clones |
| `StructureProofs!ReaderInOrderHolds` | a reader without a lock is given a posting list in order, and all of what was there when it began, at any step of an append |
| `StructureProofs!MemoryAccountedHolds` | who owns each field; a clone says what its document said |
| `StructureProofs!ArrayOwnsItsStringsHolds` | every string of an array is in one slot and allocated, whichever macros moved it |
| `StructureProofs!FindExactHolds` | `SearchSpec => []FindExact`: both searches find the first or last occurrence, or none, of any string in any other |
| `ListProofs!TimersExactHolds` | a walk calls every timer that was due when it began, none twice, none new and none deleted; no wait goes past one |
| `ListProofs!IterationCompleteHolds` | an iteration beside a writer meets all that was in the table when it began |
| `ListProofs!HashIntegrityHolds` | after every add and delete the chains, their counters and the list through all items agree, however often the buckets were expanded |
| `ListProofs!MissOnlyDuringExpansionHolds` | a find beside a writer misses an item, or reads freed buckets, only if they were expanded meanwhile |
| `ListProofs!ListRefines` | the DL_ macros do to the pointers what `SegmentList` does to a sequence |

So every safety property a run checks, containers included, is a theorem but one:
`SortsStably`.

*Assumptions.* `PKAssumption` (keys are positive), `MaxDocAssumption`,
`MaxSegAssumption`, `SegmentMaxAssumption` and `QueueSizeAssumption` (positive
limits, `config.h`), `ByteAssumption` (a byte has a bit), `WorkloadAssumption` (a request is an add or a remove);
`NullAssumption` (an address is not NULL); `TermsAssumption`, `QueryAssumption`,
`LookupAssumption` (finitely many readers: a counter counts them);
`PoolAssumption` (there is a worker: `threadpool.c:72` asserts `thread_num > 0`);
`ConnAssumption` (connections are numbered, and a task or a clientData is one of
them) and `FDAssumption` (descriptors are numbers and none is the listening
socket); `HashAssumption` (items are finitely many addresses, sizes positive),
`BitmapAssumption` and `DocIdsAssumption` (the preallocation of a bitmap and the
first size of a bucket are positive, `bitmap.h`, `docid.h`; positions are natural
numbers) and `DocumentsAssumption` (`NoField`, which stands for what is not
allocated, is no field); `TimeAssumption` (a second is some positive number of
ticks, delays are natural numbers), `ListElemAssumption` (elements are addresses and
none is NULL), `ArrayAssumption` (the same of strings; an array first grows to a
positive size), `PostingsAssumption` and `SearchAssumption` (the bounds are
numbers). TLC evaluates them in the runs of their modules.

### The hand-shake (`MergerInv`)

`TypeOK` is not inductive: that `state++` ends at VALID needs that
only an active segment is promoted, and that `DL_DELETE` finds its segment
needs that replace runs once per merge. So `Inv` adds the hand-shake of the two
threads:

1. `StagePlace`: the stage agrees with where the merge thread is, allowing for
   the window in which it has posted a task and not yet written the stage.
2. `OneMergerTask`: at most one merger task is queued or running, and only in
   the phase that follows its posting. Overwriting a stage can lose a merge but
   can never make a second replace.
3. `LastPlaceForMerger`: the place above the limit is taken by that task; with
   2 this is `QueueBound`.
4. `KeysKnown`: a document has its key before its task is queued.
5. `ActiveState`: outside rotation the active segment is ACTIVE, and so are the
   segments not yet allocated.
6. `ListOfAllocated`: the list has no duplicates and only allocated segments.
7. `NewSegmentPrivate`: until it is prepended the new segment is known to the
   merge thread only.
8. `SourcesValid`: the segments being merged are VALID; with 5 they are not
   the one the input processor writes to, which gives `MergeSourcesFrozen`.
9. `SourcesListed`: as long as replace is to come its two segments are listed.

There is a lemma per action (`Inv /\ Action => Inv'`), with steps for the
conjuncts the action can disturb; the theorems combine them.

### The documents (`DocInv`)

`LayoutInv` says which segments a role may have: sources leave the list at their
step of replace and are freed after; the new one is private, empty until the
copy of the second source, then listed. `DocumentInv` says what they hold. Its
core is `CopiedFromSecond`: the merger takes a segment whose documents are *all*
deleted (`RatioReached`) and one other, so every document that gets a new id comes
from the second. Its new ids are drawn in the order of the copy and stay among the
ids of that segment. This is why the new segment has room (`Sized`), and why two segments
in use share documents only while one is the copy of the other (`Disjoint`).
`Counted` says what the bits and the counter of a segment are, except of the
second source once the copy renumbers it (`Renumbered`): there a remove may count
a bit twice, and nothing that follows needs its counter. `RemovalAtCursor` is the remove
under way: it is in the segment under the cursor, and, unless that is renumbered,
the id loaded is still the document's and a bit found clear is clear.
`CopyComplete` and `NoneLost` follow a document through the copy: pending, then
doomed or in the new segment, then freed or listed.

### The keys (`KeyInv`)

A handler marks the documents of its key in the listed segments, one at a time,
while the merge thread clones the bitmaps of two of them. `SearchedMarked` is the
half-done work of the handler, `RemovalMarked` that of the remove in the segment
under the cursor. `SupersededMarked` says where a document that has
been replaced or removed has its mark: in segments the merge has nothing to do
with, always (but for keys added twice in a merge); in those whose bitmap is yet to
be cloned and in the new one, unless redelete is to come for the key.
`LatestClean` says the converse of the latest document of a key, with the
exception that makes `engine_stale_deletion` fail: a key that
`merging_deletion` still has. `RemovedStays`, `DuplicateOnlyAfterUpdate` and
`LatestSurvive` read off `KeyInv` at rest; `KeyInv` is also an invariant of
`engine_capacity`, where its exceptions were found.

### Lookups (`LookupInv`)

`Lookup` adds variables and guards to the steps of `Merger` and changes
`processes`, so its steps keep `EngineInv`, which does not mention the counter.
`CountsInside` makes the counter of a segment the number of lookups in it;
`EnteredKept` says that a segment entered while listed is still listed or among
the sources of the merge, which frees it only at a counter of zero, after replace
has taken it out. This is `CountedLookupsSafe`; that it needs *listed when
entered* is the defect of `lookup_freed`.

### Answers (`AnswerInv`)

A lookup reads a list that grows at its head, bitmaps that fill, and documents
that are being added. `AnswerInv` says of a lookup that no merge has disturbed
(`quiet`) what it knows half-way:

- `SameEngine`: its segment is listed, and what had been replaced when it began
  stays replaced;
- `FoundSound`: the documents found so far have the terms and had not been
  replaced; in the clone of the bitmap nothing that had been is unmarked, by
  `SupersededMarked` of `KeyInv`;
- `FoundComplete`: a document that is due has been found, or is in a segment
  still ahead in the list (`Ahead`, through `NextFollows`: the next pointers are
  the list), or the limit is reached; that it is in the list, and unmarked, is
  `NoneLost` of `DocInv` and `LatestClean` of `KeyInv`;
- `TotalCounts`: if nothing at all has changed, the total is the number of
  documents, by `Counted` of `DocInv`.

Of the counters it keeps that what was loaded is no more than what there is, since
both only grow between merges: a lookup that finds them equal has either been
misled or left nothing behind.

Three kinds of steps keep it. Those of the engine between merges are *calm*
(`CalmStep`): documents stay where they are, keep their ids, and only a segment
without documents is prepended; that no task of the merger can run then is the
hand-shake (`NoMerge`). Those of other lookups touch nothing of it. Its own are
taken one by one; `WalkResult` says what a walk finds for no, one and several
terms, from the *Exact* theorem of the intersections and because ids are places
in a segment nobody copies (`ListedInPlace`).

### Intersections

`LinearIntersect` and `SeekIntersect` are recursive functions. That there is a
function as the definition asks for, and what it returns, is proved by induction on
how much of the lists is still to be read, through lemma `Least` (a set of
numbers has a least one, from the library's `WFMin`). The *Sound* theorems
hold whatever the order of the lists, hence for postings a merge has renumbered;
the *Exact* ones for lists in the order of their ids, which they are when no merge
has touched them. `IntersectExactHolds` draws the conclusion for `IntersectCalls`:
what `SeekIntersect` computes is the reference `Common`, in order.

### Server

`NoWakeupLost`: when a push has set the flag, either the flag is still set, or a
worker that has consumed it is on its way to the queue (`WakeInv`). `ServerInv`
gives, for each place a connection can be at, what the kernel and the mask hold
for its descriptor. The two hand-overs have their own formulas: `RecvedOK` (the
loop has pushed it and is deleting the read event, a worker may already process
it) and `SendingOK` with `CtlOK`, `MaskOK` and `DoneOK` (the worker adds the
write event while the loop may still be storing the mask without it, which is
when a reply is lost). `HandlersOK` is a second layer, proved on `ServerInv`: where the
kernel or the mask has a write event, its handler has been stored or a worker is
about to store it. `Owners`, `ClosedOK` and `FiredOK` are what makes a
descriptor safe to use again.

### The queue

`WellFormed` is not inductive: a thread
that tests `size` relies on nobody being between the link and `size++`, hence on
`MutualExclusion`, and an element it links must be in `heap` and in no other
thread's hands, hence `OwnElement`. `QueueInv` is the three with `TypeOK`.
`SizeIsLength` and `HeadOfChain` say what the owner of the lock may rely on;
there is a lemma for each action that changes the chain, and one
(`ChainUntouched`) for all that do not. The refinement needs one more invariant,
`ItemsPresent`: an element holds its item before it is linked and nobody writes
to it afterwards. `EnqueueLink` and `DequeueTake` map to the abstract enqueue and
dequeue, every other step to a stutter.

### The containers

Each container has its own specification and its own inductive invariant:
`TimeSpec`, `HashSpec` and `ListSpec` in `ListProofs`, `BitmapSpec`,
`DocIdsSpec`, `DocumentsSpec`, `ArraySpec` and `SearchSpec` in
`StructureProofs`. What the lists of `ListProofs` have in common comes first
there: sequences of distinct elements, one taken out, and functions defined by
recursion on a number (`IsIterate`), which walk a chain of pointers (`IsWalk`).

- `BitmapInv`: a position is its byte and its bit (`PositionIsByteAndBit`), so a
  store to one byte changes one position (`ByteWritten`); growing keeps the
  bytes there are and clears the new ones (`ReservedHolds`).
- `BucketsInv`, `SlotsInv`, `WriterInv`, `ReaderInv`: each bucket has twice the
  size of the one before it, so those before the k-th hold `Base(k)` pointers, its
  size less the first's: what a reader at an offset has been given is a
  number. All buckets but the last are full; a slot is NULL or has the
  pointer of its place. `ReaderKept` takes the readers through every step of the
  writer.
- `AppInv`: the list through all items is the order they were added in, in both
  directions, and `hhead` and `tail` are its ends. `IterInv`: an iteration has taken
  its next item one turn early, which can cost it an item added since, never one
  that was there when it began.
- `TableInv`, `ChainsInv`: there is a chain for every bucket, a sequence of distinct
  items, those of the table that belong there, threaded both ways and counted
  (`InChains`). During an expansion this holds of the new buckets and the items moved
  so far, the others being `todo`. A chain has no more elements than there are
  items, which ends the recursion that reads it.
- `FindInv`: as long as no expansion has begun since, a find whose item was in the
  table is at an item from which the links lead to it (`OnTheWay`).
- `ListedInv`, `ClockInv`, `WalkInv`: the timers are in the order of their creation and
  lose their id when they are deleted; a wait goes past none; what a walk is to
  call has been called, deleted, or is ahead of it and due. `HandlerLeft` is the list
  after a handler that created timers or deleted one.
- `RingInv`: the elements in the list are those of a sequence without duplicates,
  linked both ways; the first leads back to the last, unless the list was begun by
  hand. Each macro is one step of `SegmentList`: `PutIn`, `PutFor`, `TakenOut` and
  `Spliced` say what it does to the sequence, and that sequence is `Walked`, to which
  the refinement maps, because there is only one so linked.
- `ArrayInv` (`HoldsTexts`): the first `used` slots hold strings which are allocated,
  distinct (`Apart`) and say what was put there, and nothing else is allocated. Every
  macro either lets elements in at a place (`Filled`, after `Opened` has moved the rest
  up) or takes a stretch out (`Emptied`, `LetGo`); `IsMoved` is its memmove, and
  `DoubledFits` the doubling of its reserve.
- The search: `Ends(P, H, j, k)` says that the first k characters of the needle are
  the last k before the j-th of the text. A table entry is a prefix that ends at
  its place, past all longer ones that would fail as the place itself did (`Link`),
  so following the entries misses nothing that may match (`Goes`) and leaves the
  longest that does (`LongestNext`). The search from the right is the one from the
  left in a mirror: `Mirror` takes its needle and text there, `MirrorTable` its
  table. The loops of the code are functions by recursion; that there are such
  functions is `LoopEnds`, by a rank that each turn decreases.
- `FieldsInv`: a document and its clone have distinct fields, none of them
  taken out, and together with these they are what is allocated; `TokensInv`
  counts the copies of a request's tokens.

### Only model-checked

- Liveness: out of the prover's reach.
- `SortsStably`: `ListSort` uses RECURSIVE operators, which the provers do not take.

## 5. Plan

What is modelled came in this order: the queue, the engine with its merger, the
lookups over both, the server with pool and loop, the containers. The proofs
followed: hand-shake, documents, keys, intersections, lookups, wake-ups,
connections, answers, containers. What is left:

1. `ts_engine_free`, `ts_merger_free` and `ts_queue_destroy` as steps of the
   shutdown, to say what is still allocated when the process ends.
2. Replies larger than the socket's buffer.
3. What follows when the input processor runs a task of the merger a second time.

## 6. Not modelled

- `ts_queue_destroy`, `ts_merger_free`, and what `ts_engine_free` frees: they run
  when the threads have been joined. Memory exhaustion, and the process after
  an assertion fails or after undefined behaviour.
- Options and the daemon of `ts.c`; `aeResizeSetSize`, `aeWait`, the callbacks
  before and after sleep, which the server does not use; `ae_evport.c`,
  `ae_kqueue.c`, `ae_select.c`, which a build for Linux does not contain.
- `anet.c` but for what `anetTcpServer` and `anetTcpAccept` may return: calls of
  the operating system one after the other.
- `protocol/`: generated packing and unpacking.
- Of `lib/`: the LL_ and CDL_ macros other than the sorts, the hash functions (a
  hash is any number), `HASH_SELECT`, `HASH_CLEAR`, formatted strings, and
  `utringbuffer.h` and `utstack.h`, which nothing includes.
