------------------------------- MODULE KeyInv --------------------------------
(***************************************************************************)
(* The inductive invariant about keys behind the theorems of DocProofs:    *)
(* at any step of a merge, in which segments the document a key should     *)
(* have is not marked as deleted, and in which the ones it replaced are.   *)
(* It is inductive together with EngineInv of DocInv.                      *)
(*                                                                         *)
(* A handler marks the documents of its key in the segments of the list,   *)
(* while the merge thread copies two of them.  What a handler marks behind *)
(* the clone of a bitmap is lost with its segment; a remove makes up for   *)
(* that by recording the key for redelete, an add does not.                *)
(***************************************************************************)
EXTENDS DocInv

\* The document a key should have is one of that key.
StoreKnown ==
  /\ \A d \in Added : pkOf[d] \in PK
  /\ \A k \in PK : store[k] # 0 => store[k] \in Added /\ pkOf[store[k]] = k

Marked(s, d) == docId[d] \in deletion[s]

\* The segments of the list behind the cursor have been searched for the key.
SearchedMarked ==
  pc = "scan" =>
    \A i \in 1..Len(segments) : i < cursor /\ segments[i] \notin Sources =>
      \A d \in DocsIn(segments[i]) : pkOf[d] = TaskPk => Marked(segments[i], d)

\* The segment under the cursor, as far as the removal has come.
RemovalMarked ==
  Removing /\ removal.seg \notin Sources =>
    \A d \in OfKey(removal.seg, TaskPk) :
      d \in removal.todo \cup {removal.doc} \/ Marked(removal.seg, d)

Superseded == {d \in Added : store[pkOf[d]] # d}

\* Why a document that has been superseded may be without a mark: its key was
\* added again during a merge, or removed during this one and redelete is to
\* come.
Twice(d)    == store[pkOf[d]] # 0 /\ pkOf[d] \in updated
Recorded(d) == merge_stage \in 1..5 /\ pkOf[d] \in merging_deletion

\* The merge under way has a new segment.
HasNew == mpc # "loop" \/ merge_stage >= 2

\* Segments the merge has nothing to do with, and those it has yet to clone
\* the bitmap of.
Plain   == {s \in Listed : s \notin Sources /\ (s = newseg => ~HasNew)}
ToClone == {s \in Sources :
             /\ merge_stage = 1
             /\ \/ mpc = "loop"
                \/ mpc = "clone" /\ s \in {old, mseg2}
                \/ mpc = "copy" /\ old = mseg1 /\ s = mseg2}
New     == IF HasNew THEN {newseg} \ {NoSeg} ELSE {}

SupersededMarked ==
  \A d \in Superseded :
    /\ \A s \in Plain : d \in DocsIn(s) => Marked(s, d) \/ Twice(d)
    /\ \A s \in ToClone \cup New :
         d \in DocsIn(s) => Marked(s, d) \/ Twice(d) \/ Recorded(d)
    /\ mpc = "copy" /\ d \in pending => Doomed(d) \/ Twice(d) \/ Recorded(d)

\* The document is not marked, and no merge will take it for a marked one.
Clean(d) ==
  /\ d \notin doomed \cup freedDocs
  /\ \A s \in InUse \ Renumbered : d \in DocsIn(s) => ~Marked(s, d)
  /\ mpc = "copy" /\ d \in pending => ~Doomed(d)

\* The latest document of a key is clean, but for keys recorded and for the
\* key of the handler that is running.
LatestClean ==
  \A k \in PK \ merging_deletion :
    store[k] # 0 /\ ~(pc = "scan" /\ TaskPk = k) => Clean(store[k])

KeysInv == StoreKnown /\ SearchedMarked /\ SupersededMarked /\ LatestClean

\* The whole of it: the hand-shake, the documents, the keys.
KeyInv == EngineInv /\ KeysInv /\ RemovalMarked

=============================================================================
