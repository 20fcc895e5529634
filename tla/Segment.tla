------------------------------- MODULE Segment -------------------------------
(***************************************************************************)
(* The segments of the engine (segment.c, document.c, docid.c): every      *)
(* segment owns a doc id generator, the documents appended to it and the   *)
(* bitmap of the doc ids deleted from it.  The module declares the state   *)
(* of all segments and one operator per operation; Engine and Merger build *)
(* their actions from these operators.                                     *)
(*                                                                         *)
(* The generator is not a variable: it starts at 1 and every document      *)
(* given to ts_segment_add_document has passed ts_document_check already   *)
(* (engine.c:87), so generator.start is always Len(docs[s]) + 1.           *)
(* num_total_docs is Len(docs[s]).                                         *)
(*                                                                         *)
(* A container of doc ids holds POINTERS to the doc_id field of the        *)
(* documents (docid.h:83), hence docId is a function of the document and   *)
(* a document copied to another segment changes its id in both.            *)
(***************************************************************************)
EXTENDS Naturals, Sequences, FiniteSets, Functions

CONSTANTS PK,       \* the primary keys in use, positive numbers
          MaxDoc,   \* documents are numbered 1..MaxDoc
          MaxSeg,   \* bound: how many segments a behaviour may allocate
          BYTE      \* bits in a byte of a bitmap: 8, less for TLC

ASSUME PKAssumption     == PK \subseteq Nat \ {0}
ASSUME MaxDocAssumption == MaxDoc \in Nat
ASSUME MaxSegAssumption == MaxSeg \in Nat \ {0}
ASSUME ByteAssumption   == BYTE \in Nat \ {0}

VARIABLES
  pkOf,        \* pkOf[d]: doc->pk, 0 before the document exists
  docId,       \* docId[d]: doc->doc_id, 0 before it is in a segment
  docs,        \* docs[s]: the documents of s in the order they were added
  deletion,    \* deletion[s]: the ids whose bit is set
  deleted,     \* deleted[s]: num_total_deleted
  state,       \* state[s]
  processes,   \* processes[s]: lookups that are inside the segment
  nsegs,       \* segments 1..nsegs have been allocated
  freedSegs,   \* ... and these have been freed
  freedDocs,   \* documents freed by the merger
  removal      \* the ts_segment_remove_document under way, see below

segVars == << pkOf, docId, docs, deletion, deleted, state, processes, nsegs,
              freedSegs, freedDocs, removal >>

Doc == 1..MaxDoc
Seg == 1..MaxSeg
NoSeg == 0

ACTIVE == 0    \* SEGMENT_STATE_ACTIVE
VALID  == 1    \* SEGMENT_STATE_VALID

DocsIn(s) == Range(docs[s])
PlaceOf(s, d) == CHOOSE i \in DOMAIN docs[s] : docs[s][i] = d

NoRemoval == [at |-> "none", seg |-> NoSeg, doc |-> 0, id |-> 0, todo |-> {}]

SegInit ==
  /\ pkOf = [d \in Doc |-> 0]
  /\ docId = [d \in Doc |-> 0]
  /\ docs = [s \in Seg |-> << >>]
  /\ deletion = [s \in Seg |-> {}]
  /\ deleted = [s \in Seg |-> 0]
  /\ state = [s \in Seg |-> ACTIVE]
  /\ processes = [s \in Seg |-> 0]
  /\ nsegs = 1
  /\ freedSegs = {}
  /\ freedDocs = {}
  /\ removal = NoRemoval

-----------------------------------------------------------------------------
(* The operations.  Each constrains only the variables it assigns.         *)

\* ts_segment_new: calloc leaves the segment empty and ACTIVE, as SegInit does.
Fresh == nsegs + 1
NewSegment ==
  /\ nsegs < MaxSeg
  /\ nsegs' = Fresh

\* ts_segment_add_document: a new id for the document, then its mapping.
AddDocument(s, d) ==
  /\ docId' = [docId EXCEPT ![d] = Len(docs[s]) + 1]
  /\ docs' = [docs EXCEPT ![s] = Append(@, d)]

(* ts_segment_remove_document, under the write lock of the segment's       *)
(* bitmap.  What it does not lock is *doc_id: the merge thread may give a  *)
(* document of the segment a new id meanwhile (segment.c:52), and the      *)
(* macros ts_bitmap_get and ts_bitmap_set load it several times, for the   *)
(* byte and for the bit.  So the test and the store are two steps, and     *)
(* each meets the id as it was first loaded, as it is now, or a mixture.   *)
(*                                                                         *)
(* `removal' holds the segment whose lock is held, the document at hand,   *)
(* the id loaded for it and the documents of the key still to come.        *)

OfKey(s, pk) == {d \in DocsIn(s) : pkOf[d] = pk}

\* deletion_lock is held for writing.
Locked(s) == removal.at # "none" /\ removal.seg = s

\* ts_docid_foreach goes on to the first document of D, or there is none left
\* and the lock is released.
Visit(s, D) ==
  \/ D = {} /\ removal' = NoRemoval
  \/ \E d \in D :
       /\ \A e \in D \ {d} : PlaceOf(s, d) < PlaceOf(s, e)
       /\ removal' = [at |-> "test", seg |-> s, doc |-> d, id |-> docId[d],
                      todo |-> D \ {d}]

\* The ids whose bit is reached by loads between which id became now.
Torn(id, now) ==
  {BYTE * (x \div BYTE) + (y % BYTE) : x \in {id, now}, y \in {id, now}}

\* Mutant of BitClear: bits already set are not skipped.
BitAny(b) == TRUE

BitClear(b) == b \notin deletion[removal.seg]

\* ts_bitmap_get
TestDocument ==
  /\ removal.at = "test"
  /\ \E b \in Torn(removal.id, docId[removal.doc]) :
       IF BitClear(b)
       THEN removal' = [removal EXCEPT !.at = "set", !.id = docId[removal.doc]]
       ELSE Visit(removal.seg, removal.todo)

\* ts_bitmap_set and num_total_deleted++, whether the bit was set or not.
DeleteDocument ==
  /\ removal.at = "set"
  /\ \E b \in Torn(removal.id, docId[removal.doc]) :
       deletion' = [deletion EXCEPT ![removal.seg] = @ \cup {b}]
  /\ deleted' = [deleted EXCEPT ![removal.seg] = @ + 1]
  /\ Visit(removal.seg, removal.todo)

\* The same for a segment whose documents keep their ids.
Undeleted(s, pk) == {docId[d] : d \in OfKey(s, pk)} \ deletion[s]

\* Mutant of Promote: a second increment.
PromoteTwice(s) == state' = [state EXCEPT ![s] = @ + 2]

\* state++ on a segment that stops being the active one or joins the list.
Promote(s) == state' = [state EXCEPT ![s] = @ + 1]

\* ts_segment_free: the segment goes, its documents stay.
FreeSegments(S) == freedSegs' = freedSegs \cup S

\* deleted_radio: both counters are uint64_t, the division is an integer one.
DeletedRatio(s) == deleted[s] \div Len(docs[s])

=============================================================================
