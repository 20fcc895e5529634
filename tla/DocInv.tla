------------------------------- MODULE DocInv --------------------------------
(***************************************************************************)
(* The inductive invariant about the documents behind the theorems of      *)
(* DocProofs: which segment holds which document under which id, what the  *)
(* bits of a segment mean, and how far the copy of a merge has come.  It   *)
(* is inductive together with Inv of MergerInv.                            *)
(*                                                                         *)
(* What makes it hold is that a merge takes a segment with every document  *)
(* deleted and one other: only documents of the other get a new id, and    *)
(* they get it in an order that keeps it among the ids of their segment.   *)
(***************************************************************************)
EXTENDS MergerInv

\* The segments being merged, and all the segments a document may be in.
Sources == {mseg1, mseg2} \ {NoSeg}
InUse   == Listed \cup Sources \cup ({newseg} \ {NoSeg})

\* The copy is complete; it has begun to give documents of mseg2 new ids.
Copied      == merge_stage >= 2 \/ mpc \in {"post", "posted"}
CopyStarted == Copied \/ (mpc = "copy" /\ old = mseg2)
Renumbered  == IF CopyStarted THEN {mseg2} ELSE {}

-----------------------------------------------------------------------------
(* The segments.                                                           *)

\* What has not been allocated is as calloc will leave it.
Allocated ==
  /\ {mseg1, mseg2, newseg} \subseteq 0..nsegs
  /\ freedSegs \subseteq 1..nsegs
  /\ \A s \in Seg : s > nsegs =>
       docs[s] = << >> /\ deletion[s] = {} /\ deleted[s] = 0

\* The active segment is in the list, and the others there are valid and hold
\* documents.
ListStates ==
  /\ Lists(segment_active)
  /\ newseg # segment_active
  /\ pc = "rotate" => state[segment_active] = VALID
  /\ \A s \in Seg : Lists(s) =>
       /\ s # segment_active => state[s] = VALID
       /\ state[s] = VALID => docs[s] # << >>

\* The two sources differ, leave the list with `replace' and are then freed.
SourcesLeave ==
  /\ mseg1 = mseg2 => mseg1 = NoSeg
  /\ merge_stage \in {0, 4, 5, 6} => mseg1 = NoSeg /\ mseg2 = NoSeg
  /\ merge_stage = 3 \/ pc \in {"delete2", "prepend"} => ~Lists(mseg1)
  /\ merge_stage = 3 \/ pc = "prepend" => ~Lists(mseg2)
  /\ mpc \notin {"clone", "copy"} => old = NoSeg

\* The new segment is empty until the copy of mseg2, and no segment in use is
\* freed.
NewSegmentRole ==
  /\ NewPrivate => newseg \notin Sources \cup freedSegs
  /\ NewPrivate /\ ~CopyStarted => docs[newseg] = << >>
  /\ ~NewPrivate => newseg = NoSeg \/ Lists(newseg) \/ docs[newseg] = << >>
  /\ \A s \in freedSegs : ~Lists(s) /\ s \notin Sources

LayoutInv == Allocated /\ ListStates /\ SourcesLeave /\ NewSegmentRole

-----------------------------------------------------------------------------
(* The documents.                                                          *)

\* A document of a task queued or running is in no segment yet, and no two
\* tasks have the same.
FreshDocuments ==
  /\ \A d \in Doc : d > issued => docId[d] = 0
  /\ \A i \in 1..Len(queue) : queue[i].kind = "add" =>
       /\ queue[i].doc <= issued
       /\ docId[queue[i].doc] = 0
       /\ task.kind = "add" => queue[i].doc # task.doc
  /\ \A i, j \in 1..Len(queue) :
       (/\ queue[i].kind = "add" /\ queue[j].kind = "add"
        /\ queue[i].doc = queue[j].doc) => i = j
  /\ task.kind = "add" => task.doc <= issued /\ docId[task.doc] = 0

Injective(s) == \A i, j \in 1..Len(docs[s]) : docs[s][i] = docs[s][j] => i = j

\* A segment holds a document once; unless its documents are being copied,
\* the ids of its documents are their places.
Numbered ==
  /\ \A s \in Seg : Injective(s) /\ DocsIn(s) \subseteq Added
  /\ \A s \in InUse \ Renumbered :
       \A i \in 1..Len(docs[s]) : docId[docs[s][i]] = i

\* Two segments in use share no document, but for the copy and its source.
Disjoint ==
  \A s, t \in InUse :
    s # t /\ ~(CopyStarted /\ {s, t} = {newseg, mseg2})
      => DocsIn(s) \cap DocsIn(t) = {}

\* The bits of a segment are ids of its documents, and are counted, unless the
\* documents are being given new ids: a remove may then set a bit twice.
Counted ==
  \A s \in Seg \ (Renumbered \cup freedSegs) :
    /\ deletion[s] \subseteq 1..Len(docs[s])
    /\ deleted[s] = Cardinality(deletion[s])

\* Sizes: the add handler that has found room still has it.
Sized ==
  /\ \A s \in Seg : Len(docs[s]) <= SEGMENT_MAX_DOC
  /\ pc = "scan" /\ task.kind = "add"
       => Len(docs[segment_active]) < SEGMENT_MAX_DOC

\* The documents the copy has visited.
Moved == doomed \cup DocsIn(newseg)

\* All of mseg1 is deleted when it is chosen, and stays so; what is copied is
\* of mseg2, and gets ids that mseg2 has.
CopiedFromSecond ==
  /\ mseg1 # NoSeg => deletion[mseg1] = 1..Len(docs[mseg1])
  /\ mpc = "copy" /\ old = mseg1 => snapshot = 1..Len(docs[mseg1])
  /\ CopyStarted /\ mseg2 # NoSeg =>
       /\ DocsIn(newseg) \subseteq DocsIn(mseg2)
       /\ \A d \in DocsIn(mseg2) : docId[d] <= Len(docs[mseg2])
  /\ mpc = "copy" =>
       /\ pending \subseteq DocsIn(old)
       /\ old = mseg2 => pending \cap Moved = {}
  /\ mpc \in {"clone", "copy"} /\ ~CopyStarted => doomed \cap DocsIn(mseg2) = {}

\* Every document of a source is still to be visited or has been moved.
CopyComplete ==
  /\ mpc = "copy" => DocsIn(old) \subseteq pending \cup Moved
  /\ mpc \in {"clone", "copy"} /\ old = mseg2 => DocsIn(mseg1) \subseteq Moved
  /\ Copied => \A s \in Sources : DocsIn(s) \subseteq Moved

\* Doomed documents are in the sources only, freed ones nowhere.
DoomedNowhere ==
  /\ doomed \cup freedDocs \subseteq Added
  /\ \A s \in InUse : freedDocs \cap DocsIn(s) = {}
  /\ \A s \in InUse \ Sources : doomed \cap DocsIn(s) = {}
  /\ merge_stage = 0 \/ (merge_stage = 1 /\ mpc = "loop") => doomed = {}
  /\ merge_stage \in {4, 5, 6} => doomed \subseteq freedDocs

\* No document is lost.
NoneLost ==
  \A d \in Added : \/ d \in freedDocs \cup doomed
                   \/ \E s \in Listed \cup ({newseg} \ {NoSeg}) : d \in DocsIn(s)

DocumentInv ==
  /\ FreshDocuments
  /\ Numbered
  /\ Disjoint
  /\ Counted
  /\ Sized
  /\ CopiedFromSecond
  /\ CopyComplete
  /\ DoomedNowhere
  /\ NoneLost

-----------------------------------------------------------------------------
(* The remove under way.                                                   *)

\* A remove is at a document of the segment the cursor points to; unless the
\* segment is renumbered the id loaded is still that of the document, and a bit
\* found clear is clear.
Removing == removal.at # "none"
RemovalAtCursor ==
  /\ ~Removing => removal = NoRemoval
  /\ Removing =>
       /\ pc = "scan"
       /\ cursor <= Len(segments)
       /\ removal.seg = segments[cursor]
       /\ removal.doc \notin removal.todo
       /\ removal.todo \cup {removal.doc} \subseteq OfKey(removal.seg, TaskPk)
  /\ Removing /\ removal.seg \notin Renumbered =>
       /\ removal.id = docId[removal.doc]
       /\ removal.at = "set" => removal.id \notin deletion[removal.seg]

EngineInv == Inv /\ LayoutInv /\ DocumentInv /\ RemovalAtCursor

=============================================================================
