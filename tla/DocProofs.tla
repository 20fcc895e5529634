----------------------------- MODULE DocProofs -------------------------------
(***************************************************************************)
(* Theorems about the documents of the engine and what a key shows, for    *)
(* every number of keys, documents and segments, every workload, capacity  *)
(* and size of segment: DocumentInv and LayoutInv of DocInv are inductive  *)
(* together with Inv, which MergerProofs has shown to hold, and KeysInv of *)
(* KeyInv is inductive together with those.                                *)
(***************************************************************************)
EXTENDS KeyInv, MergerProofs

-----------------------------------------------------------------------------
(* Sequences as lists of distinct elements.                                *)

LEMMA RangeElements ==
  ASSUME NEW S, NEW q \in Seq(S)
  PROVE  /\ Range(q) \subseteq S
         /\ \A x : x \in Range(q) <=> \E i \in 1..Len(q) : q[i] = x
  BY DEF Range

LEMMA RangeEmpty == Range(<< >>) = {}
  BY DEF Range

LEMMA RangeAppend ==
  ASSUME NEW S, NEW q \in Seq(S), NEW x \in S
  PROVE  /\ Append(q, x) \in Seq(S)
         /\ Range(Append(q, x)) = Range(q) \cup {x}
<1>1. /\ Append(q, x) \in Seq(S)
      /\ Len(q) \in Nat
      /\ Len(Append(q, x)) = Len(q) + 1
      /\ \A i \in 1..Len(q) : Append(q, x)[i] = q[i]
      /\ Append(q, x)[Len(q) + 1] = x
  BY AppendProperties
<1>2. \A y : y \in Range(q) <=> \E i \in 1..Len(q) : q[i] = y
  BY RangeElements
<1>3. \A y : y \in Range(Append(q, x))
               <=> \E i \in 1..Len(Append(q, x)) : Append(q, x)[i] = y
  BY <1>1, RangeElements
<1>4. ASSUME NEW y \in Range(q) PROVE y \in Range(Append(q, x))
  <2>1. PICK i \in 1..Len(q) : q[i] = y
    BY <1>2
  <2>2. i \in 1..Len(Append(q, x)) /\ Append(q, x)[i] = y
    BY <1>1, <2>1
  <2> QED
    BY <1>3, <2>2
<1>5. x \in Range(Append(q, x))
  BY <1>1, <1>3
<1>6. ASSUME NEW y \in Range(Append(q, x)) PROVE y \in Range(q) \cup {x}
  <2>1. PICK i \in 1..Len(Append(q, x)) : Append(q, x)[i] = y
    BY <1>3
  <2>2. i \in 1..Len(q) \/ i = Len(q) + 1
    BY <1>1
  <2> QED
    BY <1>1, <1>2, <2>1, <2>2
<1> QED
  BY <1>1, <1>4, <1>5, <1>6

LEMMA UpTo ==
  ASSUME NEW n \in Nat
  PROVE  IsFiniteSet(1..n) /\ Cardinality(1..n) = n
<1>1. n \in Int /\ 1 \in Int
  OBVIOUS
<1>2. /\ IsFiniteSet(1..n)
      /\ Cardinality(1..n) = IF 1 > n THEN 0 ELSE n - 1 + 1
  BY <1>1, FS_Interval
<1>3. (IF 1 > n THEN 0 ELSE n - 1 + 1) = n
  OBVIOUS
<1> QED
  BY <1>2, <1>3

\* A sequence of distinct elements is as long as its range is large.
LEMMA DistinctCount ==
  ASSUME NEW S, NEW q \in Seq(S),
         \A i, j \in 1..Len(q) : q[i] = q[j] => i = j
  PROVE  IsFiniteSet(Range(q)) /\ Cardinality(Range(q)) = Len(q)
<1>1. Len(q) \in Nat
  OBVIOUS
<1>2. IsFiniteSet(1..Len(q)) /\ Cardinality(1..Len(q)) = Len(q)
  BY <1>1, UpTo
<1>3. q \in Bijection(1..Len(q), Range(q))
  <2>1. q \in [1..Len(q) -> Range(q)]
    BY DEF Range
  <2>2. \A y \in Range(q) : \E i \in 1..Len(q) : q[i] = y
    BY RangeElements
  <2> QED
    BY <2>1, <2>2 DEF Bijection, Injection, Surjection, IsInjective
<1>4. ExistsBijection(1..Len(q), Range(q))
  BY <1>3 DEF ExistsBijection
<1> QED
  BY <1>2, <1>4, FS_Bijection

\* The one of two such sequences whose elements are some of the other's is not
\* the longer.
LEMMA DistinctWithin ==
  ASSUME NEW S, NEW a \in Seq(S), NEW b \in Seq(S),
         \A i, j \in 1..Len(a) : a[i] = a[j] => i = j,
         \A i, j \in 1..Len(b) : b[i] = b[j] => i = j,
         Range(a) \subseteq Range(b)
  PROVE  Len(a) <= Len(b)
  BY DistinctCount, FS_Subset

\* A finite set of numbers from 1 to n that has at least n of them has all.
LEMMA AllOfThem ==
  ASSUME NEW n \in Nat, NEW S \in SUBSET (1..n), Cardinality(S) >= n
  PROVE  S = 1..n
<1>1. IsFiniteSet(1..n) /\ Cardinality(1..n) = n
  BY UpTo
<1>2. Cardinality(S) \in Nat /\ Cardinality(S) <= n
  BY <1>1, FS_Subset, FS_CardinalityType
<1>3. Cardinality(1..n) = Cardinality(S)
  BY <1>1, <1>2
<1> QED
  BY <1>1, <1>3, FS_Subset

-----------------------------------------------------------------------------
(* Segments and their documents.                                           *)

LEMMA ListedLists ==
  ASSUME segments \in Seq(Seg)
  PROVE  Listed \subseteq Seg /\ \A s : s \in Listed <=> Lists(s)
  BY RangeElements DEF Listed, Lists

LEMMA DocsInPlaces ==
  ASSUME docs \in [Seg -> Seq(Doc)], NEW s \in Seg
  PROVE  /\ docs[s] \in Seq(Doc) /\ Len(docs[s]) \in Nat
         /\ DocsIn(s) \subseteq Doc
         /\ \A d : d \in DocsIn(s) <=> \E i \in 1..Len(docs[s]) : docs[s][i] = d
         /\ docs[s] = << >> <=> DocsIn(s) = {}
<1>1. docs[s] \in Seq(Doc) /\ Len(docs[s]) \in Nat
  OBVIOUS
<1>2. /\ DocsIn(s) \subseteq Doc
      /\ \A d : d \in DocsIn(s) <=> \E i \in 1..Len(docs[s]) : docs[s][i] = d
  BY <1>1, RangeElements DEF DocsIn
<1>3. docs[s] = << >> => DocsIn(s) = {}
  BY RangeEmpty DEF DocsIn
<1>4. ASSUME docs[s] # << >> PROVE DocsIn(s) # {}
  <2>1. 1 \in 1..Len(docs[s])
    BY <1>1, <1>4
  <2> QED
    BY <1>2, <2>1
<1> QED
  BY <1>1, <1>2, <1>3, <1>4

\* The clauses whose variables a step leaves alone still hold after it, also
\* when a segment that holds nothing has come into use or one has gone out.
LEMMA NumberedFrame ==
  ASSUME Numbered, UNCHANGED << docs, docId >>,
         \A s \in InUse' \ Renumbered' :
           s \in InUse \ Renumbered \/ docs[s] = << >>
  PROVE  Numbered'
<1>1. \A s \in InUse' \ Renumbered' :
        \A i \in 1..Len(docs[s]) : docId[docs[s][i]] = i
  BY DEF Numbered
<1>2. \A s \in Seg : /\ \A i, j \in 1..Len(docs'[s]) :
                          docs'[s][i] = docs'[s][j] => i = j
                     /\ Range(docs'[s]) \subseteq {d \in Doc : docId'[d] # 0}
  BY DEF Numbered, Injective, DocsIn, Added
<1> QED
  BY <1>1, <1>2 DEF Numbered, Injective, DocsIn, Added

LEMMA DisjointFrame ==
  ASSUME Disjoint, UNCHANGED docs,
         \A s \in InUse' : s \in InUse \/ docs[s] = << >>,
         CopyStarted => \/ CopyStarted' /\ UNCHANGED << newseg, mseg2 >>
                        \/ ~({newseg, mseg2} \subseteq InUse')
                        \/ newseg = mseg2
  PROVE  Disjoint'
<1>1. ASSUME NEW s \in InUse', NEW t \in InUse', s # t,
             ~(CopyStarted' /\ {s, t} = {newseg', mseg2'})
      PROVE  DocsIn(s) \cap DocsIn(t) = {}
  <2>1. CASE docs[s] = << >> \/ docs[t] = << >>
    BY <2>1, RangeEmpty DEF DocsIn
  <2>2. CASE s \in InUse /\ t \in InUse
    BY <1>1, <2>2 DEF Disjoint
  <2> QED
    BY <2>1, <2>2
<1> QED
  BY <1>1 DEF Disjoint, DocsIn

LEMMA CountedFrame ==
  ASSUME Counted, UNCHANGED << docs, deletion, deleted >>,
         \A s \in Seg : s \in Renumbered \cup freedSegs
                         => s \in Renumbered' \cup freedSegs'
  PROVE  Counted'
  BY DEF Counted

LEMMA FreshFrame ==
  ASSUME FreshDocuments, UNCHANGED << issued, docId, queue, task >>
  PROVE  FreshDocuments'
  BY DEF FreshDocuments

LEMMA SizedFrame ==
  ASSUME Sized, UNCHANGED << docs, segment_active, pc, task >>
  PROVE  Sized'
  BY DEF Sized

\* A step that leaves the merge and the documents alone.  The list may get the
\* new segment or an empty one, and lose a segment all of whose documents have
\* been moved.
LEMMA ListFrame ==
  ASSUME DocumentInv,
         UNCHANGED << docs, docId, freedDocs, mergerVars >>,
         Copied' <=> Copied,
         merge_stage' \in {0, 1} => merge_stage' = merge_stage,
         merge_stage' \in {4, 5, 6} => merge_stage \in {4, 5, 6},
         \A s \in Listed' : \/ s \in Listed
                            \/ s = newseg /\ s # NoSeg
                            \/ docs[s] = << >>,
         \A s \in Listed : s \in Listed' \/ DocsIn(s) \subseteq Moved,
         newseg \in Seg \cup {NoSeg}, docs \in [Seg -> Seq(Doc)],
         newseg = NoSeg => \A s \in Listed : s \in Listed'
  PROVE  /\ Numbered' /\ Disjoint' /\ CopyComplete' /\ DoomedNowhere' /\ NoneLost'
         /\ UNCHANGED << deletion, deleted, freedSegs >>
              => Counted' /\ CopiedFromSecond'
<1>1. UNCHANGED << mpc, mseg1, mseg2, newseg, doomed, old, snapshot, pending >>
  BY DEF mergerVars
<1>2. UNCHANGED << Sources, Added, Moved >>
  BY <1>1 DEF Sources, Added, Moved, DocsIn
<1>3. (CopyStarted' <=> CopyStarted) /\ UNCHANGED Renumbered
  BY <1>1 DEF CopyStarted, Renumbered
<1>4. \A s \in InUse' : s \in InUse \/ docs[s] = << >>
  BY <1>1, <1>2 DEF InUse
<1>5. Numbered' /\ Disjoint'
  BY <1>1, <1>3, <1>4, NumberedFrame, DisjointFrame DEF DocumentInv
<1>6. ASSUME UNCHANGED << deletion, deleted, freedSegs >>
      PROVE  Counted' /\ CopiedFromSecond'
  <2>1. Counted'
    BY <1>3, <1>6, CountedFrame DEF DocumentInv
  <2>2. CopiedFromSecond'
    BY <1>1, <1>2, <1>3, <1>6 DEF DocumentInv, CopiedFromSecond, DocsIn
  <2> QED
    BY <2>1, <2>2
<1>7. CopyComplete'
  BY <1>1, <1>2 DEF DocumentInv, CopyComplete, DocsIn
<1>8. DoomedNowhere'
  <2>1. /\ doomed' \cup freedDocs' \subseteq Added'
        /\ merge_stage' = 0 \/ (merge_stage' = 1 /\ mpc' = "loop")
             => doomed' = {}
        /\ merge_stage' \in {4, 5, 6} => doomed' \subseteq freedDocs'
    BY <1>1, <1>2 DEF DocumentInv, DoomedNowhere
  <2>2. ASSUME NEW s \in InUse'
        PROVE  /\ freedDocs \cap DocsIn(s) = {}
               /\ s \notin Sources => doomed \cap DocsIn(s) = {}
    <3>1. CASE s \in InUse
      BY <3>1 DEF DocumentInv, DoomedNowhere
    <3>2. CASE docs[s] = << >>
      BY <3>2, RangeEmpty DEF DocsIn
    <3> QED
      BY <1>4, <3>1, <3>2
  <2>3. /\ \A s \in InUse' : freedDocs' \cap Range(docs'[s]) = {}
        /\ \A s \in InUse' \ Sources' : doomed' \cap Range(docs'[s]) = {}
    BY <1>1, <1>2, <2>2 DEF DocsIn
  <2> QED
    BY <2>1, <2>3 DEF DoomedNowhere, DocsIn
<1>9. NoneLost'
  <2>1. ASSUME NEW d \in Added
        PROVE  \/ d \in freedDocs \cup doomed
               \/ \E s \in Listed' \cup ({newseg} \ {NoSeg}) : d \in DocsIn(s)
    <3>1. CASE d \in freedDocs \cup doomed
      BY <3>1
    <3>2. CASE \E s \in Listed \cup ({newseg} \ {NoSeg}) : d \in DocsIn(s)
      <4>1. PICK s \in Listed \cup ({newseg} \ {NoSeg}) : d \in DocsIn(s)
        BY <3>2
      <4>2. CASE s \in Listed' \cup ({newseg} \ {NoSeg})
        BY <4>1, <4>2
      <4>3. CASE s \in Listed /\ s \notin Listed'
        BY <4>1, <4>3 DEF Moved
      <4> QED
        BY <4>1, <4>2, <4>3
    <3> QED
      BY <3>1, <3>2 DEF DocumentInv, NoneLost
  <2> QED
    BY <1>1, <1>2, <2>1 DEF NoneLost, DocsIn
<1> QED
  BY <1>5, <1>6, <1>7, <1>8, <1>9

\* A step that leaves the list alone as well.
LEMMA InputFrame ==
  ASSUME Inv, DocumentInv,
         UNCHANGED << docs, docId, deletion, deleted, freedSegs, freedDocs,
                      segments, merge_stage, mergerVars >>
  PROVE  /\ Numbered' /\ Disjoint' /\ Counted' /\ CopiedFromSecond'
         /\ CopyComplete' /\ DoomedNowhere' /\ NoneLost'
<1>1. Listed' = Listed
  BY DEF Listed
<1>2. Copied' <=> Copied
  BY DEF Copied, mergerVars
<1>3. newseg \in Seg \cup {NoSeg} /\ docs \in [Seg -> Seq(Doc)]
  BY DEF Inv, TypeOK, SegTypeOK, MergerTypeOK
<1> QED
  BY <1>1, <1>2, <1>3, ListFrame

\* The layout, when the list, the merge and the documents are left alone; the
\* states of segments are left to the caller.
LEMMA LayoutFrame ==
  ASSUME LayoutInv,
         UNCHANGED << docs, deletion, deleted, nsegs, freedSegs, segments,
                      segment_active, merge_stage, mergerVars >>,
         NewPrivate' <=> NewPrivate,
         pc' \in {"delete2", "prepend"} => pc' = pc
  PROVE  /\ Allocated' /\ SourcesLeave' /\ NewSegmentRole'
         /\ UNCHANGED state /\ (pc' = "rotate" => pc = "rotate") => ListStates'
<1>1. UNCHANGED << mpc, mseg1, mseg2, newseg, doomed, old, snapshot, pending >>
  BY DEF mergerVars
<1>2. UNCHANGED << Sources, CopyStarted >>
  BY <1>1 DEF Sources, Copied, CopyStarted
<1>3. \A s : Lists(s)' <=> Lists(s)
  BY DEF Lists
<1>4. Allocated'
  BY <1>1 DEF LayoutInv, Allocated
<1>5. SourcesLeave'
  BY <1>1 DEF LayoutInv, SourcesLeave, Lists
<1>6. NewSegmentRole'
  BY <1>1, <1>2, <1>3 DEF LayoutInv, NewSegmentRole, Lists
<1>7. ASSUME UNCHANGED state, pc' = "rotate" => pc = "rotate"
      PROVE  ListStates'
  BY <1>1, <1>7 DEF LayoutInv, ListStates, Lists
<1> QED
  BY <1>4, <1>5, <1>6, <1>7

\* Taking a task moves its document from the queue to the processor.
LEMMA TakeFresh ==
  ASSUME queue \in Seq(Task), FreshDocuments, NEW t, Take(t),
         UNCHANGED << issued, docId >>
  PROVE  FreshDocuments'
<1>1. /\ task' = t /\ 1 \in 1..Len(queue) /\ t = queue[1]
      /\ Len(queue') \in Nat
  BY TakeFacts
<1>2. ASSUME NEW i \in 1..Len(queue')
      PROVE  queue'[i] = queue[i + 1] /\ i + 1 \in 1..Len(queue) /\ i + 1 # 1
  BY <1>1, TakeFacts
<1>3. ASSUME NEW i \in 1..Len(queue'), queue'[i].kind = "add"
      PROVE  /\ queue'[i].doc <= issued
             /\ docId[queue'[i].doc] = 0
             /\ t.kind = "add" => queue'[i].doc # t.doc
  BY <1>1, <1>2, <1>3 DEF FreshDocuments
<1>4. ASSUME NEW i \in 1..Len(queue'), NEW j \in 1..Len(queue'),
             queue'[i].kind = "add", queue'[j].kind = "add",
             queue'[i].doc = queue'[j].doc
      PROVE  i = j
  <2>1. i + 1 = j + 1
    BY <1>2, <1>4 DEF FreshDocuments
  <2> QED
    BY <1>1, <2>1
<1>5. t.kind = "add" => t.doc <= issued /\ docId[t.doc] = 0
  BY <1>1 DEF FreshDocuments
<1>6. \A d \in Doc : d > issued => docId[d] = 0
  BY DEF FreshDocuments
<1> QED
  BY <1>1, <1>3, <1>4, <1>5, <1>6 DEF FreshDocuments

\* Nor does taking another task, or queueing one that is not of the merger,
\* touch whether `replace' is outstanding.
LEMMA TakePrivate ==
  ASSUME queue \in Seq(Task), NEW t, Take(t), UNCHANGED mpc,
         IF t = ReplaceTask THEN ReplaceRuns' ELSE ~ReplaceRuns'
  PROVE  NewPrivate' <=> NewPrivate
<1>1. /\ pc = "idle" /\ 1 \in 1..Len(queue) /\ t = queue[1]
      /\ Len(queue') \in Nat /\ Len(queue) \in Nat
      /\ Len(queue') = Len(queue) - 1
  BY TakeFacts
<1>2. ~ReplaceRuns
  BY <1>1 DEF ReplaceRuns
<1>3. ASSUME NEW i \in 1..Len(queue')
      PROVE  queue'[i] = queue[i + 1] /\ i + 1 \in 1..Len(queue)
  BY <1>1, TakeFacts
<1>4. ASSUME NEW i \in 1..Len(queue), i # 1
      PROVE  i - 1 \in 1..Len(queue') /\ queue'[i - 1] = queue[i]
  <2>1. i - 1 \in 1..Len(queue') /\ (i - 1) + 1 = i
    BY <1>1, <1>4
  <2> QED
    BY <1>3, <2>1
<1>5. CASE t = ReplaceTask
  BY <1>1, <1>5 DEF NewPrivate
<1>6. CASE t # ReplaceTask
  <2>1. (\E i \in 1..Len(queue) : queue[i] = ReplaceTask)
          <=> \E i \in 1..Len(queue') : queue'[i] = ReplaceTask
    BY <1>1, <1>3, <1>4, <1>6
  <2> QED
    BY <1>2, <1>6, <2>1 DEF NewPrivate
<1> QED
  BY <1>5, <1>6

\* The clients: a request is issued, and its document is new.
LEMMA ClientKeepsDocs ==
  ASSUME Inv, LayoutInv, DocumentInv, Client, UNCHANGED << mergerVars, headPrev >>
  PROVE  LayoutInv' /\ DocumentInv'
<1>1. /\ UNCHANGED << docId, docs, deletion, deleted, state, nsegs, freedSegs,
                      freedDocs, segments, segment_active, pc, task,
                      merge_stage, mergerVars >>
      /\ issued \in Nat /\ issued < MaxDoc /\ issued' = issued + 1
  <2>1. issued \in Nat
    BY DEF Inv, TypeOK, EngineTypeOK
  <2>2. PICK r \in Request : Accept(r) \/ RejectFull(r) \/ RejectInvalid(r)
    BY DEF Client
  <2>3. Unclient /\ issued < MaxDoc /\ issued' = issued + 1
    BY <2>2 DEF Accept, RejectFull, RejectInvalid
  <2> QED
    BY <2>1, <2>3 DEF Unclient
<1>2. queue \in Seq(Task)
  BY DEF Inv, TypeOK, EngineTypeOK
<1>3. \A d \in Doc : d > issued' => docId'[d] = 0
  BY <1>1 DEF DocumentInv, FreshDocuments, Doc
<1>4. /\ \A i \in 1..Len(queue) : queue[i].kind = "add"
           => queue[i].doc <= issued /\ queue[i].doc \in Nat
      /\ task.kind = "add" => task.doc <= issued /\ task.doc \in Nat
  <2>1. \A i \in 1..Len(queue) : queue[i].kind = "add" => queue[i].doc \in Doc
    BY <1>2, TaskDoc
  <2>2. task.kind = "add" => task.doc \in Doc
    BY TaskDoc DEF Inv, TypeOK, EngineTypeOK, NoTask
  <2> QED
    BY <2>1, <2>2 DEF DocumentInv, FreshDocuments, Doc
<1>5. /\ \A i \in 1..Len(queue) : queue[i].kind = "add"
           => queue[i].doc <= issued' /\ queue[i].doc # issued + 1
      /\ task.kind = "add" => task.doc <= issued' /\ task.doc # issued + 1
  BY <1>1, <1>4
<1>6. CASE queue' = queue
  <2>1. FreshDocuments'
    BY <1>1, <1>3, <1>6, <1>5 DEF DocumentInv, FreshDocuments
  <2>2. NewPrivate' <=> NewPrivate
    BY <1>1, <1>6 DEF NewPrivate, ReplaceRuns, mergerVars
  <2> QED
    BY <1>1, <2>1, <2>2, LayoutFrame, InputFrame, SizedFrame
       DEF LayoutInv, DocumentInv
<1>7. CASE queue' # queue
  <2>1. PICK r \in Request : Accept(r)
    BY <1>7 DEF Client, RejectFull, RejectInvalid, Q!Refuse
  <2> DEFINE t == RequestTask(r, issued + 1)
  <2>2. issued + 1 \in Doc
    BY <1>1, MaxDocAssumption DEF Doc
  <2>3. /\ t \in Task /\ t # ReplaceTask
        /\ t.kind = "add" => t.doc = issued + 1
    BY <2>1, <2>2
       DEF Accept, Acceptable, Request, RequestTask, Task, ClientTask, AddTask,
           RemoveTask, ReplaceTask
  <2>4. Q!Enqueue(t, FALSE)
    BY <2>1 DEF Accept
  <2> HIDE DEF t
  <2>5. /\ Len(queue) \in Nat /\ Len(queue') = Len(queue) + 1
        /\ \A i \in 1..Len(queue) : queue'[i] = queue[i]
        /\ queue'[Len(queue) + 1] = t
    BY <1>2, <2>3, <2>4, EnqueueFacts
  <2>6. \A i \in 1..Len(queue') : i \in 1..Len(queue) \/ i = Len(queue) + 1
    BY <2>5
  <2>8. docId[issued + 1] = 0
    BY <1>1, <2>2 DEF DocumentInv, FreshDocuments
  <2>11. ASSUME NEW i \in 1..Len(queue'), queue'[i].kind = "add"
         PROVE  /\ queue'[i].doc <= issued'
                /\ docId'[queue'[i].doc] = 0
                /\ task'.kind = "add" => queue'[i].doc # task'.doc
    <3>1. CASE i \in 1..Len(queue)
      BY <1>1, <1>5, <2>5, <2>11, <3>1 DEF DocumentInv, FreshDocuments
    <3>2. CASE i = Len(queue) + 1
      BY <1>1, <1>5, <2>3, <2>5, <2>8, <2>11, <3>2
    <3> QED
      BY <2>6, <3>1, <3>2
  <2>12. ASSUME NEW i \in 1..Len(queue'), NEW j \in 1..Len(queue'),
                queue'[i].kind = "add", queue'[j].kind = "add",
                queue'[i].doc = queue'[j].doc
         PROVE  i = j
    <3>1. CASE i \in 1..Len(queue) /\ j \in 1..Len(queue)
      BY <2>5, <2>12, <3>1 DEF DocumentInv, FreshDocuments
    <3>2. CASE i = Len(queue) + 1 \/ j = Len(queue) + 1
      BY <1>5, <2>3, <2>5, <2>6, <2>12, <3>2
    <3> QED
      BY <2>6, <3>1, <3>2
  <2>13. FreshDocuments'
    BY <1>1, <1>3, <1>5, <2>11, <2>12 DEF DocumentInv, FreshDocuments
  <2>14. NewPrivate' <=> NewPrivate
    <3>1. (\E i \in 1..Len(queue) : queue[i] = ReplaceTask)
            <=> \E i \in 1..Len(queue') : queue'[i] = ReplaceTask
      BY <2>3, <2>5, <2>6
    <3> QED
      BY <1>1, <3>1 DEF NewPrivate, ReplaceRuns, mergerVars
  <2> QED
    BY <1>1, <2>13, <2>14, LayoutFrame, InputFrame, SizedFrame
       DEF LayoutInv, DocumentInv
<1> QED
  BY <1>6, <1>7

\* DL_PREPEND in terms of the set of listed segments.
LEMMA PrependListed ==
  ASSUME segments \in Seq(Seg), NEW s \in Seg, segments' = << s >> \o segments
  PROVE  /\ Listed' = Listed \cup {s}
         /\ \A u : Lists(u)' <=> Lists(u) \/ u = s
<1>0. /\ segments' \in Seq(Seg)
      /\ Len(segments) \in Nat
      /\ Len(segments') = Len(segments) + 1
      /\ segments'[1] = s
      /\ \A i \in 2..Len(segments') : segments'[i] = segments[i - 1]
      /\ \A i \in 1..Len(segments) : segments[i] = segments'[i + 1]
  BY PrependList
<1>1. ASSUME NEW u, Lists(u)' PROVE Lists(u) \/ u = s
  <2>1. PICK i \in 1..Len(segments') : segments'[i] = u
    BY <1>1 DEF Lists
  <2>2. CASE i = 1
    BY <1>0, <2>1, <2>2
  <2>3. CASE i # 1
    <3>1. i \in 2..Len(segments') /\ i - 1 \in 1..Len(segments)
      BY <1>0, <2>3
    <3> QED
      BY <1>0, <2>1, <3>1 DEF Lists
  <2> QED
    BY <2>2, <2>3
<1>2. ASSUME NEW u, Lists(u) PROVE Lists(u)'
  <2>1. PICK i \in 1..Len(segments) : segments[i] = u
    BY <1>2 DEF Lists
  <2>2. i + 1 \in 1..Len(segments') /\ segments'[i + 1] = u
    BY <1>0, <2>1
  <2> QED
    BY <2>2 DEF Lists
<1>3. Lists(s)'
  BY <1>0 DEF Lists
<1>4. \A u : Lists(u)' <=> Lists(u) \/ u = s
  BY <1>1, <1>2, <1>3
<1>5. \A u : u \in Listed' <=> Lists(u)'
  <2>1. \A u : u \in Range(segments')
                 <=> \E i \in 1..Len(segments') : segments'[i] = u
    <3>1. segments' \in Seq(Seg)
      BY <1>0
    <3> QED
      BY <3>1, RangeElements
  <2> QED
    BY <2>1 DEF Listed, Lists
<1>6. \A u : u \in Listed <=> Lists(u)
  BY ListedLists
<1> QED
  BY <1>4, <1>5, <1>6

\* The task's document is forgotten when the handler returns.
LEMMA ReturnFresh ==
  ASSUME FreshDocuments, UNCHANGED << issued, docId, queue >>, task' = NoTask
  PROVE  FreshDocuments'
<1>1. task'.kind # "add"
  BY DEF NoTask
<1> QED
  BY <1>1 DEF FreshDocuments

LEMMA BeginAddKeepsDocs ==
  ASSUME Inv, LayoutInv, DocumentInv, BeginAdd,
         UNCHANGED << mergerVars, headPrev >>
  PROVE  LayoutInv' /\ DocumentInv'
<1>1. /\ UNCHANGED << docId, docs, deletion, deleted, nsegs, freedSegs,
                      freedDocs, segments, segment_active, merge_stage,
                      mergerVars, issued >>
  BY DEF BeginAdd
<1>2. /\ queue \in Seq(Task) /\ segment_active \in Seg
      /\ docs \in [Seg -> Seq(Doc)] /\ state \in [Seg -> States]
  BY DEF Inv, TypeOK, EngineTypeOK, SegTypeOK, States
<1>3. PICK d \in Doc : Take(AddTask(d))
  BY DEF BeginAdd
<1>4. /\ pc = "idle" /\ task' = AddTask(d) /\ pc' \in {"rotate", "scan"}
      /\ AddTask(d) # ReplaceTask
  BY <1>3 DEF Take, BeginAdd, AddTask, ReplaceTask
<1>5. FreshDocuments'
  BY <1>1, <1>2, <1>3, TakeFresh DEF DocumentInv
<1>6. NewPrivate' <=> NewPrivate
  <2>1. ~ReplaceRuns' /\ UNCHANGED mpc
    BY <1>1, <1>4 DEF ReplaceRuns, mergerVars
  <2> QED
    BY <1>2, <1>3, <1>4, <2>1, TakePrivate
<1>7. Len(docs[segment_active]) \in Nat /\ SEGMENT_MAX_DOC \in Nat
      /\ SEGMENT_MAX_DOC > 0
  BY <1>2, SegmentMaxAssumption
<1>8. CASE Len(docs[segment_active]) >= SEGMENT_MAX_DOC
  <2>1. Promote(segment_active) /\ pc' = "rotate"
    BY <1>8 DEF BeginAdd
  <2>2. state[segment_active] = ACTIVE
    BY <1>4 DEF Inv, ActiveState
  <2>3. /\ state'[segment_active] = VALID
        /\ \A u \in Seg \ {segment_active} : state'[u] = state[u]
    BY <1>2, <2>1, <2>2, PromoteType
  <2>4. docs[segment_active] # << >>
    BY <1>7, <1>8
  <2>5. ListStates'
    BY <1>1, <2>3, <2>4 DEF LayoutInv, ListStates, Lists, mergerVars
  <2>6. Sized'
    BY <1>1, <2>1 DEF DocumentInv, Sized
  <2> QED
    BY <1>1, <1>4, <1>5, <1>6, <2>5, <2>6, LayoutFrame, InputFrame
       DEF LayoutInv, DocumentInv
<1>9. CASE ~(Len(docs[segment_active]) >= SEGMENT_MAX_DOC)
  <2>1. UNCHANGED state /\ pc' = "scan"
    BY <1>9 DEF BeginAdd
  <2>2. Len(docs[segment_active]) < SEGMENT_MAX_DOC
    BY <1>7, <1>9
  <2>3. Sized'
    BY <1>1, <2>2 DEF DocumentInv, Sized
  <2> QED
    BY <1>1, <1>4, <1>5, <1>6, <2>1, <2>3, LayoutFrame, InputFrame
       DEF LayoutInv, DocumentInv
<1> QED
  BY <1>8, <1>9

\* The new segment is empty, listed and in nobody else's use.
LEMMA RotateKeepsDocs ==
  ASSUME Inv, LayoutInv, DocumentInv, Rotate,
         UNCHANGED << mergerVars, headPrev >>
  PROVE  LayoutInv' /\ DocumentInv'
<1>1. /\ UNCHANGED << docId, docs, deletion, deleted, state, freedSegs,
                      freedDocs, merge_stage, mergerVars, issued, queue, task >>
      /\ pc = "rotate" /\ pc' = "scan" /\ nsegs' = nsegs + 1
      /\ segment_active' = nsegs + 1 /\ segments' = << nsegs + 1 >> \o segments
      /\ nsegs < MaxSeg
  BY DEF Rotate, NewSegment, Fresh
<1>2. /\ nsegs \in Nat /\ nsegs + 1 \in Seg /\ segments \in Seq(Seg)
      /\ docs \in [Seg -> Seq(Doc)] /\ newseg \in Seg \cup {NoSeg}
  BY <1>1, MaxSegAssumption
     DEF Inv, TypeOK, EngineTypeOK, SegTypeOK, MergerTypeOK, Seg
<1> DEFINE s0 == nsegs + 1
<1>3. /\ docs[s0] = << >> /\ state[s0] = ACTIVE
      /\ \A s \in Seg : s > nsegs' => s > nsegs
  BY <1>1, <1>2 DEF LayoutInv, Allocated, Inv, ActiveState, Seg
<1>4. /\ Listed' = Listed \cup {s0}
      /\ \A u : Lists(u)' <=> Lists(u) \/ u = s0
  BY <1>1, <1>2, PrependListed
<1>5. s0 \notin {mseg1, mseg2, newseg} \cup freedSegs /\ ~Lists(s0)
  <2>1. (\A x \in 0..nsegs : x # s0) /\ (\A x \in 1..nsegs : x # s0)
    BY <1>2
  <2>2. \A i \in 1..Len(segments) : segments[i] # s0
    BY <1>2 DEF Inv, ListOfAllocated, Seg
  <2> QED
    BY <2>1, <2>2 DEF LayoutInv, Allocated, Lists
<1> HIDE DEF s0
<1>6. UNCHANGED << mpc, mseg1, mseg2, newseg, old, Sources >>
  BY <1>1 DEF mergerVars, Sources
<1>7. (Copied' <=> Copied) /\ (CopyStarted' <=> CopyStarted)
  BY <1>1, <1>6 DEF Copied, CopyStarted
<1>8. NewPrivate' <=> NewPrivate
  BY <1>1, <1>6 DEF NewPrivate, ReplaceRuns
<1>9. Allocated'
  <2>1. \A x \in 0..nsegs : x \in 0..nsegs'
    BY <1>1, <1>2
  <2>2. \A x \in 1..nsegs : x \in 1..nsegs'
    BY <1>1, <1>2
  <2> QED
    BY <1>1, <1>3, <1>6, <2>1, <2>2 DEF LayoutInv, Allocated
<1>10. ListStates'
  <2>1. segment_active' = s0
    BY <1>1 DEF s0
  <2>2. ASSUME NEW s \in Seg, Lists(s)'
        PROVE  /\ s # s0 => state[s] = VALID
               /\ state[s] = VALID => docs[s] # << >>
    <3>1. CASE s = s0
      BY <1>3, <3>1 DEF ACTIVE, VALID, s0
    <3>2. CASE Lists(s)
      BY <1>1, <3>2 DEF LayoutInv, ListStates
    <3> QED
      BY <1>4, <2>2, <3>1, <3>2
  <2> QED
    BY <1>1, <1>4, <1>5, <1>6, <2>1, <2>2 DEF ListStates
<1>11. SourcesLeave'
  BY <1>1, <1>4, <1>5, <1>6 DEF LayoutInv, SourcesLeave
<1>12. NewSegmentRole'
  <2>1. NewPrivate' => newseg' \notin Sources' \cup freedSegs'
    BY <1>1, <1>6, <1>8 DEF LayoutInv, NewSegmentRole
  <2>2. NewPrivate' /\ ~CopyStarted' => docs'[newseg'] = << >>
    BY <1>1, <1>6, <1>7, <1>8 DEF LayoutInv, NewSegmentRole
  <2>3. ~NewPrivate' => newseg = NoSeg \/ Lists(newseg) \/ docs[newseg] = << >>
    BY <1>8 DEF LayoutInv, NewSegmentRole
  <2>4. \A s \in freedSegs : ~Lists(s) /\ s \notin Sources /\ s # s0
    BY <1>5 DEF LayoutInv, NewSegmentRole
  <2>5. Lists(newseg) => Lists(newseg)'
    BY <1>4, <1>6 DEF Lists
  <2> QED
    BY <1>1, <1>4, <1>6, <2>1, <2>2, <2>3, <2>4, <2>5 DEF NewSegmentRole
<1>13. /\ Numbered' /\ Disjoint' /\ Counted' /\ CopiedFromSecond'
       /\ CopyComplete' /\ DoomedNowhere' /\ NoneLost'
  BY <1>1, <1>2, <1>3, <1>4, <1>7, ListFrame DEF s0
<1>14. Sized'
  <2>1. Len(docs'[segment_active']) < SEGMENT_MAX_DOC
    BY <1>1, <1>3, SegmentMaxAssumption DEF s0
  <2> QED
    BY <1>1, <2>1 DEF DocumentInv, Sized
<1>15. FreshDocuments'
  BY <1>1, FreshFrame DEF DocumentInv
<1> QED
  BY <1>9, <1>10, <1>11, <1>12, <1>13, <1>14, <1>15 DEF LayoutInv, DocumentInv

\* The ids a segment in use knows its documents by are its places, whether or
\* not its documents are being copied.
LEMMA IdsInRange ==
  ASSUME Inv, DocumentInv, NEW s \in InUse
  PROVE  {docId[d] : d \in DocsIn(s)} \subseteq 1..Len(docs[s])
<1>1. /\ docs \in [Seg -> Seq(Doc)] /\ docId \in [Doc -> Nat]
      /\ segments \in Seq(Seg)
      /\ {mseg1, mseg2, newseg} \subseteq Seg \cup {NoSeg}
  <2>1. docs \in [Seg -> Seq(Doc)] /\ docId \in [Doc -> Nat]
    BY DEF Inv, TypeOK, SegTypeOK
  <2>2. segments \in Seq(Seg) /\ {mseg1, mseg2, newseg} \subseteq Seg \cup {NoSeg}
    BY DEF Inv, TypeOK, EngineTypeOK, MergerTypeOK
  <2> QED
    BY <2>1, <2>2
<1>2. s \in Seg
  BY <1>1, ListedLists DEF InUse, Sources
<1>3. /\ Len(docs[s]) \in Nat /\ DocsIn(s) \subseteq Doc
      /\ \A d : d \in DocsIn(s) <=> \E i \in 1..Len(docs[s]) : docs[s][i] = d
  BY <1>1, <1>2, DocsInPlaces
<1>4. ASSUME NEW d \in DocsIn(s) PROVE docId[d] \in 1..Len(docs[s])
  <2>1. CASE s \in Renumbered
    <3>1. CopyStarted /\ s = mseg2
      BY <2>1 DEF Renumbered
    <3>2. mseg2 # NoSeg
      BY <1>2, <3>1 DEF Seg, NoSeg
    <3>3. docId[d] <= Len(docs[s])
      BY <3>1, <3>2 DEF DocumentInv, CopiedFromSecond
    <3>4. docId[d] # 0 /\ docId[d] \in Nat
      BY <1>1, <1>2, <1>3 DEF DocumentInv, Numbered, Added
    <3> QED
      BY <1>3, <3>3, <3>4
  <2>2. CASE s \notin Renumbered
    <3>1. PICK i \in 1..Len(docs[s]) : docs[s][i] = d
      BY <1>3
    <3>2. docId[d] = i
      BY <2>2, <3>1 DEF DocumentInv, Numbered
    <3> QED
      BY <3>2
  <2> QED
    BY <2>1, <2>2
<1> QED
  BY <1>4

\* Bits set for ids of a segment that were clear, and counted, keep the bitmap
\* and its counter in step.  Nothing is said of a segment being renumbered.
LEMMA MarkFrame ==
  ASSUME Inv, DocumentInv,
         NEW s \in Seg, NEW ids \in SUBSET Nat,
         \/ ids \subseteq 1..Len(docs[s]) /\ ids \cap deletion[s] = {}
         \/ s \in Renumbered /\ s # mseg1,
         deletion' = [deletion EXCEPT ![s] = @ \cup ids],
         deleted' = [deleted EXCEPT ![s] = @ + Cardinality(ids)],
         UNCHANGED << docs, docId, freedSegs, freedDocs, segments, mergerVars >>,
         merge_stage' = merge_stage \/ (merge_stage \in {4, 5} /\ merge_stage' = 6)
  PROVE  /\ Numbered' /\ Disjoint' /\ Counted' /\ CopiedFromSecond'
         /\ CopyComplete' /\ DoomedNowhere' /\ NoneLost'
<1>1. /\ deletion \in [Seg -> SUBSET Nat] /\ deleted \in [Seg -> Nat]
      /\ docs \in [Seg -> Seq(Doc)] /\ newseg \in Seg \cup {NoSeg}
      /\ mseg1 \in Seg \cup {NoSeg}
  BY DEF Inv, TypeOK, SegTypeOK, MergerTypeOK
<1>2. UNCHANGED << mpc, mseg1, mseg2, newseg, old, snapshot, pending, Listed >>
  BY DEF mergerVars, Listed
<1>3. (Copied' <=> Copied) /\ (CopyStarted' <=> CopyStarted)
  BY <1>2 DEF Copied, CopyStarted
<1>4. Numbered' /\ Disjoint' /\ CopyComplete' /\ DoomedNowhere' /\ NoneLost'
  <2>1. /\ merge_stage' \in {0, 1} => merge_stage' = merge_stage
        /\ merge_stage' \in {4, 5, 6} => merge_stage \in {4, 5, 6}
    OBVIOUS
  <2> QED
    BY <1>1, <1>2, <1>3, <2>1, ListFrame
<1>5. Renumbered' = Renumbered
  BY <1>2, <1>3 DEF Renumbered
<1>6. ASSUME s \notin Renumbered \cup freedSegs
      PROVE  /\ deletion[s] \cup ids \subseteq 1..Len(docs[s])
             /\ deleted[s] + Cardinality(ids) = Cardinality(deletion[s] \cup ids)
  <2>0. /\ deletion[s] \subseteq 1..Len(docs[s])
        /\ deleted[s] = Cardinality(deletion[s])
    BY <1>6 DEF DocumentInv, Counted
  <2>1. IsFiniteSet(1..Len(docs[s]))
    BY <1>1, UpTo
  <2>2. IsFiniteSet(deletion[s]) /\ IsFiniteSet(ids)
    BY <1>6, <2>0, <2>1, FS_Subset
  <2>3. deletion[s] \cap ids = {}
    BY <1>6
  <2>4. Cardinality(deletion[s]) \in Nat /\ Cardinality(ids) \in Nat
    BY <2>2, FS_CardinalityType
  <2>5. Cardinality(deletion[s] \cup ids)
          = Cardinality(deletion[s]) + Cardinality(ids)
              - Cardinality(deletion[s] \cap ids)
    BY <2>2, FS_Union
  <2>6. Cardinality(deletion[s] \cap ids) = 0
    BY <2>3, FS_EmptySet
  <2>7. ids \subseteq 1..Len(docs[s])
    BY <1>6
  <2>8. deletion[s] \cup ids \subseteq 1..Len(docs[s])
    BY <2>0, <2>7
  <2>9. deleted[s] + Cardinality(ids) = Cardinality(deletion[s] \cup ids)
    BY <2>0, <2>4, <2>5, <2>6
  <2> QED
    BY <2>8, <2>9
<1>7. Counted'
  <2>1. ASSUME NEW u \in Seg \ (Renumbered \cup freedSegs)
        PROVE  /\ deletion'[u] \subseteq 1..Len(docs[u])
               /\ deleted'[u] = Cardinality(deletion'[u])
    <3>1. CASE u = s
      <4>1. deletion'[u] = deletion[s] \cup ids
        BY <1>1, <3>1
      <4>2. deleted'[u] = deleted[s] + Cardinality(ids)
        BY <1>1, <3>1
      <4> QED
        BY <1>6, <2>1, <3>1, <4>1, <4>2
    <3>2. CASE u # s
      <4>1. deletion'[u] = deletion[u] /\ deleted'[u] = deleted[u]
        BY <1>1, <3>2
      <4> QED
        BY <2>1, <4>1 DEF DocumentInv, Counted
    <3> QED
      BY <3>1, <3>2
  <2> QED
    BY <1>5, <2>1 DEF Counted
<1>8. CopiedFromSecond'
  <2>1. mseg1 # NoSeg => deletion'[mseg1] = 1..Len(docs[mseg1])
    <3>1. CASE mseg1 = s /\ mseg1 # NoSeg
      <4>1. deletion[s] = 1..Len(docs[s])
        BY <3>1 DEF DocumentInv, CopiedFromSecond
      <4>2. deletion'[s] = deletion[s] \cup ids
        BY <1>1
      <4>3. ids \subseteq 1..Len(docs[s])
        BY <3>1
      <4> QED
        BY <3>1, <4>1, <4>2, <4>3
    <3>2. CASE mseg1 # s /\ mseg1 # NoSeg
      <4>1. deletion'[mseg1] = deletion[mseg1]
        BY <1>1, <3>2
      <4> QED
        BY <3>2, <4>1 DEF DocumentInv, CopiedFromSecond
    <3> QED
      BY <3>1, <3>2
  <2>2. Moved' = Moved
    BY <1>2 DEF Moved, DocsIn, mergerVars
  <2> QED
    BY <1>2, <1>3, <2>1, <2>2 DEF DocumentInv, CopiedFromSecond, DocsIn, mergerVars
<1> QED
  BY <1>4, <1>7, <1>8

\* Finding the queue empty and reading its size touch nothing of a segment.
LEMMA PollKeepsDocs ==
  ASSUME Inv, LayoutInv, DocumentInv, FindEmpty \/ ReadSize,
         UNCHANGED << mergerVars, headPrev >>
  PROVE  LayoutInv' /\ DocumentInv'
<1>1. /\ UNCHANGED << segVars, queue, issued, segments, segment_active, task,
                      merge_stage, mergerVars >>
      /\ pc \in {"idle", "empty"} /\ pc' \in {"idle", "empty"}
  BY DEF FindEmpty, ReadSize
<1>2. NewPrivate' <=> NewPrivate
  BY <1>1 DEF NewPrivate, ReplaceRuns, mergerVars
<1>3. FreshDocuments' /\ Sized'
  BY <1>1, FreshFrame DEF DocumentInv, Sized, segVars
<1> QED
  BY <1>1, <1>2, <1>3, LayoutFrame, InputFrame
     DEF LayoutInv, DocumentInv, segVars

LEMMA BeginRemoveKeepsDocs ==
  ASSUME Inv, LayoutInv, DocumentInv, BeginRemove,
         UNCHANGED << mergerVars, headPrev >>
  PROVE  LayoutInv' /\ DocumentInv'
<1>1. /\ UNCHANGED << docId, docs, deletion, deleted, state, nsegs, freedSegs,
                      freedDocs, segments, segment_active, merge_stage,
                      mergerVars, issued >>
      /\ pc' = "scan"
  BY DEF BeginRemove, segVars
<1>2. queue \in Seq(Task)
  BY DEF Inv, TypeOK, EngineTypeOK
<1>3. PICK k \in PK : Take(RemoveTask(k))
  BY DEF BeginRemove
<1>4. /\ task' = RemoveTask(k) /\ RemoveTask(k) # ReplaceTask
      /\ RemoveTask(k).kind # "add"
  BY <1>3 DEF Take, RemoveTask, ReplaceTask
<1>5. FreshDocuments'
  BY <1>1, <1>2, <1>3, TakeFresh DEF DocumentInv
<1>6. NewPrivate' <=> NewPrivate
  <2>1. ~ReplaceRuns' /\ UNCHANGED mpc
    BY <1>1 DEF ReplaceRuns, mergerVars
  <2> QED
    BY <1>2, <1>3, <1>4, <2>1, TakePrivate
<1>7. Sized'
  BY <1>1, <1>4 DEF DocumentInv, Sized
<1> QED
  BY <1>1, <1>5, <1>6, <1>7, LayoutFrame, InputFrame
     DEF LayoutInv, DocumentInv

\* Looking up the key and testing bits change neither segments nor documents.
LEMMA ScanKeepsDocs ==
  ASSUME Inv, LayoutInv, DocumentInv, ScanSegment \/ TestBit,
         UNCHANGED << mergerVars, headPrev >>
  PROVE  LayoutInv' /\ DocumentInv'
<1>1. /\ UNCHANGED << docId, docs, deletion, deleted, state, nsegs, freedSegs,
                      freedDocs, issued, queue, segments, segment_active, pc,
                      task, merge_stage, mergerVars >>
      /\ pc = "scan"
  BY DEF ScanSegment, TestBit, Scanned
<1>2. NewPrivate' <=> NewPrivate
  BY <1>1 DEF NewPrivate, ReplaceRuns, mergerVars
<1>3. FreshDocuments' /\ Sized'
  BY <1>1, FreshFrame, SizedFrame DEF DocumentInv
<1> QED
  BY <1>1, <1>2, <1>3, LayoutFrame, InputFrame DEF LayoutInv, DocumentInv

\* The segment whose lock is held is listed, and its documents are those of
\* the key.
LEMMA RemovalFacts ==
  ASSUME Inv, RemovalAtCursor, Removing
  PROVE  /\ removal.seg \in Seg /\ removal.doc \in Doc
         /\ removal.id \in Nat /\ removal.todo \in SUBSET Doc
         /\ docId[removal.doc] \in Nat
         /\ Lists(removal.seg) /\ removal.seg \in Listed
         /\ removal.doc \in DocsIn(removal.seg)
<1>1. /\ removal \in RemovalType \cup {NoRemoval}
      /\ docId \in [Doc -> Nat] /\ segments \in Seq(Seg) /\ cursor \in Nat
      /\ pc = "scan" => cursor >= 1
  BY DEF Inv, TypeOK, SegTypeOK, EngineTypeOK, RemovalType, ListHead
<1>2. removal \in RemovalType
  BY <1>1 DEF Removing, NoRemoval
<1>3. /\ removal.seg \in Seg /\ removal.doc \in Doc
      /\ removal.id \in Nat /\ removal.todo \in SUBSET Doc
  BY <1>2 DEF RemovalType
<1>4. /\ cursor \in 1..Len(segments) /\ removal.seg = segments[cursor]
      /\ removal.doc \in OfKey(removal.seg, TaskPk)
  BY <1>1 DEF RemovalAtCursor
<1>5. Lists(removal.seg) /\ removal.seg \in Listed
  BY <1>1, <1>4, ListedLists DEF Lists
<1> QED
  BY <1>1, <1>3, <1>4, <1>5 DEF OfKey

\* The bit a remove sets: in a segment that is not renumbered it is that of
\* the document, and was clear.
LEMMA SetBitFacts ==
  ASSUME EngineInv, SetBit
  PROVE  \E b \in Nat :
           /\ deletion' = [deletion EXCEPT ![removal.seg] = @ \cup {b}]
           /\ removal.seg \notin Renumbered =>
                /\ b = docId[removal.doc]
                /\ b \in 1..Len(docs[removal.seg])
                /\ b \notin deletion[removal.seg]
<1>1. removal.at = "set" /\ Removing
  BY DEF SetBit, DeleteDocument, Removing
<1>2. /\ removal.seg \in Seg /\ removal.id \in Nat
      /\ docId[removal.doc] \in Nat /\ removal.seg \in Listed
      /\ removal.doc \in DocsIn(removal.seg)
  BY <1>1, RemovalFacts DEF EngineInv
<1>3. PICK b \in Torn(removal.id, docId[removal.doc]) :
        deletion' = [deletion EXCEPT ![removal.seg] = @ \cup {b}]
  BY DEF SetBit, DeleteDocument
<1>4. b \in Nat
  BY <1>2, <1>3, TornType
<1>5. ASSUME removal.seg \notin Renumbered
      PROVE  /\ b = docId[removal.doc]
             /\ b \in 1..Len(docs[removal.seg])
             /\ b \notin deletion[removal.seg]
  <2>1. /\ removal.id = docId[removal.doc]
        /\ removal.id \notin deletion[removal.seg]
    BY <1>1, <1>5 DEF EngineInv, RemovalAtCursor
  <2>2. b = removal.id
    BY <1>2, <1>3, <2>1, TornStable
  <2>3. docId[removal.doc] \in 1..Len(docs[removal.seg])
    BY <1>2, IdsInRange DEF EngineInv, InUse
  <2> QED
    BY <2>1, <2>2, <2>3
<1> QED
  BY <1>3, <1>4, <1>5

LEMMA SetBitKeepsDocs ==
  ASSUME EngineInv, SetBit, UNCHANGED << mergerVars, headPrev >>
  PROVE  LayoutInv' /\ DocumentInv'
<1>1. /\ UNCHANGED << docId, docs, state, nsegs, freedSegs, freedDocs, issued,
                      queue, segments, segment_active, pc, task, merge_stage,
                      mergerVars >>
      /\ pc = "scan"
  BY DEF SetBit, Scanned
<1> DEFINE s0 == removal.seg
<1>2. s0 \in Seg /\ Lists(s0) /\ s0 \in Listed
  BY RemovalFacts DEF EngineInv, SetBit, DeleteDocument, Removing
<1>3. PICK b \in Nat :
        /\ deletion' = [deletion EXCEPT ![s0] = @ \cup {b}]
        /\ s0 \notin Renumbered =>
             b \in 1..Len(docs[s0]) /\ b \notin deletion[s0]
  BY SetBitFacts
<1>4. deleted' = [deleted EXCEPT ![s0] = @ + Cardinality({b})]
  BY FS_Singleton DEF SetBit, DeleteDocument
<1>5. s0 \in Renumbered => s0 # mseg1
  BY <1>2 DEF EngineInv, LayoutInv, SourcesLeave, Renumbered, Seg, NoSeg
<1> HIDE DEF s0
<1>6. /\ Numbered' /\ Disjoint' /\ Counted' /\ CopiedFromSecond'
      /\ CopyComplete' /\ DoomedNowhere' /\ NoneLost'
  <2>1. \/ {b} \subseteq 1..Len(docs[s0]) /\ {b} \cap deletion[s0] = {}
        \/ s0 \in Renumbered /\ s0 # mseg1
    BY <1>3, <1>5
  <2>2. {b} \in SUBSET Nat
    OBVIOUS
  <2> QED
    BY <1>1, <1>2, <1>3, <1>4, <2>1, <2>2, MarkFrame DEF EngineInv
<1>7. Allocated'
  <2>1. s0 <= nsegs
    BY <1>2 DEF EngineInv, Inv, ListOfAllocated, Lists
  <2>2. \A u \in Seg : u > nsegs => u # s0
    BY <2>1, <1>2 DEF EngineInv, Inv, TypeOK, SegTypeOK, Seg
  <2>3. \A u \in Seg : u # s0 => deletion'[u] = deletion[u]
                                  /\ deleted'[u] = deleted[u]
    BY <1>3, <1>4 DEF EngineInv, Inv, TypeOK, SegTypeOK
  <2> QED
    BY <1>1, <2>2, <2>3 DEF EngineInv, LayoutInv, Allocated, mergerVars
<1>8. ListStates' /\ SourcesLeave' /\ NewSegmentRole'
  <2>1. UNCHANGED << mpc, mseg1, mseg2, newseg, old, Sources >>
    BY <1>1 DEF mergerVars, Sources
  <2>2. (CopyStarted' <=> CopyStarted) /\ (NewPrivate' <=> NewPrivate)
    BY <1>1, <2>1 DEF CopyStarted, Copied, NewPrivate, ReplaceRuns
  <2> QED
    BY <1>1, <2>1, <2>2
       DEF EngineInv, LayoutInv, ListStates, SourcesLeave, NewSegmentRole,
           Lists
<1>9. FreshDocuments' /\ Sized'
  BY <1>1, FreshFrame, SizedFrame DEF EngineInv, DocumentInv
<1> QED
  BY <1>6, <1>7, <1>8, <1>9 DEF LayoutInv, DocumentInv

LEMMA FinishRemoveKeepsDocs ==
  ASSUME Inv, LayoutInv, DocumentInv, FinishRemove,
         UNCHANGED << mergerVars, headPrev >>
  PROVE  LayoutInv' /\ DocumentInv'
<1>1. /\ UNCHANGED << docId, docs, deletion, deleted, state, nsegs, freedSegs,
                      freedDocs, segments, segment_active, merge_stage,
                      mergerVars, issued, queue >>
      /\ pc = "scan" /\ pc' = "idle" /\ task' = NoTask
  BY DEF FinishRemove, Return, segVars
<1>2. NewPrivate' <=> NewPrivate
  BY <1>1 DEF NewPrivate, ReplaceRuns, mergerVars
<1>3. FreshDocuments'
  BY <1>1, ReturnFresh DEF DocumentInv
<1>4. Sized'
  BY <1>1 DEF DocumentInv, Sized
<1> QED
  BY <1>1, <1>2, <1>3, <1>4, LayoutFrame, InputFrame
     DEF LayoutInv, DocumentInv

\* ts_segment_add_document: the segment gets the document at its end, and the
\* document its place as id.
LEMMA AddFacts ==
  ASSUME docs \in [Seg -> Seq(Doc)], docId \in [Doc -> Nat],
         NEW s \in Seg, NEW d \in Doc, AddDocument(s, d)
  PROVE  /\ Len(docs[s]) \in Nat
         /\ Len(docs'[s]) = Len(docs[s]) + 1
         /\ \A i \in 1..Len(docs[s]) : docs'[s][i] = docs[s][i]
         /\ docs'[s][Len(docs[s]) + 1] = d
         /\ \A u \in Seg : u # s => docs'[u] = docs[u]
         /\ docId'[d] = Len(docs[s]) + 1
         /\ \A e \in Doc : e # d => docId'[e] = docId[e]
         /\ Range(docs'[s]) = DocsIn(s) \cup {d}
         /\ Added' = Added \cup {d}
<1>1. docs[s] \in Seq(Doc) /\ Len(docs[s]) \in Nat
  OBVIOUS
<1>2. docs' = [docs EXCEPT ![s] = Append(docs[s], d)]
  BY DEF AddDocument
<1>3. docId' = [docId EXCEPT ![d] = Len(docs[s]) + 1]
  BY DEF AddDocument
<1>4. docs'[s] = Append(docs[s], d) /\ \A u \in Seg : u # s => docs'[u] = docs[u]
  BY <1>2
<1>5. /\ docId'[d] = Len(docs[s]) + 1
      /\ \A e \in Doc : e # d => docId'[e] = docId[e]
  BY <1>3
<1>6. /\ Len(docs'[s]) = Len(docs[s]) + 1
      /\ \A i \in 1..Len(docs[s]) : docs'[s][i] = docs[s][i]
      /\ docs'[s][Len(docs[s]) + 1] = d
  BY <1>1, <1>4, AppendProperties
<1>7. Range(docs'[s]) = DocsIn(s) \cup {d}
  BY <1>1, <1>4, RangeAppend DEF DocsIn
<1>8. docId'[d] # 0
  BY <1>1, <1>5
<1>9. Added' = Added \cup {d}
  BY <1>5, <1>8 DEF Added
<1> QED
  BY <1>1, <1>4, <1>5, <1>6, <1>7, <1>9

\* A document that is in no segment comes to one of distinct documents.
LEMMA AddInjective ==
  ASSUME docs \in [Seg -> Seq(Doc)], docId \in [Doc -> Nat],
         NEW s \in Seg, NEW d \in Doc, AddDocument(s, d), d \notin DocsIn(s),
         \A u \in Seg : Injective(u) /\ DocsIn(u) \subseteq Added
  PROVE  \A u \in Seg : Injective(u)' /\ DocsIn(u)' \subseteq Added'
<1>1. /\ Len(docs[s]) \in Nat
      /\ Len(docs'[s]) = Len(docs[s]) + 1
      /\ \A i \in 1..Len(docs[s]) : docs'[s][i] = docs[s][i]
      /\ docs'[s][Len(docs[s]) + 1] = d
      /\ \A u \in Seg : u # s => docs'[u] = docs[u]
      /\ Range(docs'[s]) = DocsIn(s) \cup {d}
      /\ Added' = Added \cup {d}
  BY AddFacts
<1>2. \A i \in 1..Len(docs[s]) : docs[s][i] # d
  BY DocsInPlaces
<1>3. \A i \in 1..Len(docs'[s]) : i \in 1..Len(docs[s]) \/ i = Len(docs[s]) + 1
  BY <1>1
<1>4. \A i, j \in 1..Len(docs[s]) : docs[s][i] = docs[s][j] => i = j
  BY DEF Injective
<1>5. ASSUME NEW i \in 1..Len(docs'[s]), NEW j \in 1..Len(docs'[s]),
             docs'[s][i] = docs'[s][j]
      PROVE  i = j
  <2>1. CASE i \in 1..Len(docs[s]) /\ j \in 1..Len(docs[s])
    BY <1>1, <1>4, <1>5, <2>1
  <2>2. CASE i = Len(docs[s]) + 1 \/ j = Len(docs[s]) + 1
    BY <1>1, <1>2, <1>3, <1>5, <2>2
  <2> QED
    BY <1>3, <2>1, <2>2
<1>6. ASSUME NEW u \in Seg PROVE Injective(u)' /\ DocsIn(u)' \subseteq Added'
  <2>1. CASE u = s
    <3>1. \A i, j \in 1..Len(docs'[u]) : docs'[u][i] = docs'[u][j] => i = j
      BY <1>5, <2>1
    <3>2. Range(docs'[u]) \subseteq Added'
      BY <1>1, <2>1
    <3> QED
      BY <3>1, <3>2 DEF Injective, DocsIn
  <2>2. CASE u # s
    <3>1. docs'[u] = docs[u]
      BY <1>1, <2>2
    <3>2. \A i, j \in 1..Len(docs'[u]) : docs'[u][i] = docs'[u][j] => i = j
      BY <3>1 DEF Injective
    <3>3. Range(docs'[u]) \subseteq Added'
      BY <1>1, <3>1 DEF DocsIn
    <3> QED
      BY <3>2, <3>3 DEF Injective, DocsIn
  <2> QED
    BY <2>1, <2>2
<1> QED
  BY <1>6

\* More documents in a segment leave room for the bits that are set.
LEMMA AddCounted ==
  ASSUME docs \in [Seg -> Seq(Doc)], docId \in [Doc -> Nat],
         NEW s \in Seg, NEW d \in Doc, AddDocument(s, d),
         Counted, UNCHANGED << deletion, deleted, freedSegs >>,
         Renumbered \subseteq Renumbered'
  PROVE  Counted'
<1>1. /\ Len(docs[s]) \in Nat
      /\ Len(docs'[s]) = Len(docs[s]) + 1
      /\ \A u \in Seg : u # s => docs'[u] = docs[u]
  BY AddFacts
<1>2. 1..Len(docs[s]) \subseteq 1..Len(docs'[s])
  BY <1>1
<1>3. \A u \in Seg : 1..Len(docs[u]) \subseteq 1..Len(docs'[u])
  BY <1>1, <1>2
<1> QED
  BY <1>3 DEF Counted

\* While the merge thread copies, both its sources are listed segments.
LEMMA CopyingFacts ==
  ASSUME Inv, mpc \in {"clone", "copy", "post"}
  PROVE  /\ merge_stage = 1 /\ ~ReplaceRuns
         /\ Lists(mseg1) /\ Lists(mseg2) /\ mseg1 # mseg2
         /\ mseg1 \in Seg /\ mseg2 \in Seg /\ newseg \in Seg
         /\ mseg1 \in Sources /\ mseg2 \in Sources
         /\ mpc # "post" => old \in {mseg1, mseg2}
<1>1. merge_stage = 1 /\ ~ReplaceRuns
  BY DEF Inv, StagePlace, OneMergerTask, ReplacePhase
<1>2. Lists(mseg1) /\ Lists(mseg2) /\ mseg1 # mseg2
  BY <1>1 DEF Inv, SourcesListed, ReplaceToCome
<1>3. segments \in Seq(Seg)
  BY DEF Inv, TypeOK, EngineTypeOK
<1>4. mseg1 \in Seg /\ mseg2 \in Seg
  BY <1>2, <1>3, ListedLists
<1>5. mseg1 \in Sources /\ mseg2 \in Sources
  BY <1>4 DEF Sources, Seg, NoSeg
<1> QED
  BY <1>1, <1>2, <1>4, <1>5 DEF Inv, StagePlace

\* The add handler: a document no segment has comes to the active segment, which
\* takes no part in the merge.
LEMMA FinishAddKeepsDocs ==
  ASSUME Inv, LayoutInv, DocumentInv, FinishAdd,
         UNCHANGED << mergerVars, headPrev >>
  PROVE  LayoutInv' /\ DocumentInv'
<1> DEFINE a == segment_active
           d == task.doc
<1>1. /\ UNCHANGED << deletion, deleted, state, nsegs, freedSegs, freedDocs,
                      segments, segment_active, merge_stage, mergerVars,
                      issued, queue >>
      /\ pc = "scan" /\ pc' = "idle" /\ task.kind = "add" /\ task' = NoTask
      /\ AddDocument(a, d)
  BY DEF FinishAdd, Return
<1>2. UNCHANGED << mpc, mseg1, mseg2, newseg, doomed, old, snapshot, pending,
                   Sources, Listed, InUse >>
  BY <1>1 DEF mergerVars, Sources, Listed, InUse
<1>3. /\ (Copied' <=> Copied) /\ (CopyStarted' <=> CopyStarted)
      /\ Renumbered' = Renumbered
      /\ (NewPrivate' <=> NewPrivate)
  BY <1>1, <1>2 DEF Copied, CopyStarted, Renumbered, NewPrivate, ReplaceRuns
<1>4. /\ docs \in [Seg -> Seq(Doc)] /\ docId \in [Doc -> Nat]
      /\ a \in Seg /\ segments \in Seq(Seg) /\ queue \in Seq(Task)
      /\ {mseg1, mseg2, newseg, old} \subseteq Seg \cup {NoSeg}
      /\ issued \in Nat
  <2>1. docs \in [Seg -> Seq(Doc)] /\ docId \in [Doc -> Nat]
    BY DEF Inv, TypeOK, SegTypeOK
  <2>2. /\ a \in Seg /\ segments \in Seq(Seg) /\ queue \in Seq(Task)
        /\ issued \in 0..MaxDoc
    BY DEF Inv, TypeOK, EngineTypeOK
  <2>3. {mseg1, mseg2, newseg, old} \subseteq Seg \cup {NoSeg}
    BY DEF Inv, TypeOK, MergerTypeOK
  <2> QED
    BY <2>1, <2>2, <2>3
<1>5. d \in Doc /\ docId[d] = 0 /\ d \notin Added /\ d <= issued
  BY <1>1, TaskDoc
     DEF Inv, TypeOK, EngineTypeOK, NoTask, DocumentInv, FreshDocuments, Added
<1>6. state[a] = ACTIVE /\ Lists(a) /\ a \in Listed /\ a # newseg
  BY <1>1, <1>4, ListedLists DEF Inv, ActiveState, LayoutInv, ListStates
<1>7. a \notin Sources
  <2>1. Sources \subseteq Migrating \ {NoSeg}
    BY DEF Sources, Migrating, Merging, LayoutInv, SourcesLeave, Inv, TypeOK,
           EngineTypeOK
  <2> QED
    BY <1>6, <2>1 DEF Inv, SourcesValid, ACTIVE, VALID
<1>8. mpc \in {"clone", "copy"} => old # a /\ old \in Seg /\ mseg1 \in Sources
  BY <1>7, CopyingFacts
<1> HIDE DEF a, d
<1>9. /\ Len(docs[a]) \in Nat
      /\ Len(docs'[a]) = Len(docs[a]) + 1
      /\ \A i \in 1..Len(docs[a]) : docs'[a][i] = docs[a][i]
      /\ docs'[a][Len(docs[a]) + 1] = d
      /\ \A u \in Seg : u # a => docs'[u] = docs[u]
      /\ docId'[d] = Len(docs[a]) + 1
      /\ \A e \in Doc : e # d => docId'[e] = docId[e]
      /\ Range(docs'[a]) = DocsIn(a) \cup {d}
      /\ Added' = Added \cup {d}
  BY <1>1, <1>4, <1>5, AddFacts
<1>10. \A u \in Seg : Injective(u) /\ DocsIn(u) \subseteq Added
  BY DEF DocumentInv, Numbered
<1>11. InUse \subseteq Seg
  BY <1>4, ListedLists DEF InUse, Sources
<1>12. \A u \in Seg : u # a => Range(docs'[u]) = DocsIn(u)
  BY <1>9 DEF DocsIn
<1>13. FreshDocuments'
  <2>1. \A i \in 1..Len(queue) : queue[i].kind = "add"
          => queue[i].doc \in Doc /\ queue[i].doc # d
    <3>1. \A i \in 1..Len(queue) : queue[i].kind = "add" => queue[i].doc \in Doc
      BY <1>4, TaskDoc
    <3>2. \A i \in 1..Len(queue) : queue[i].kind = "add" => queue[i].doc # d
      BY <1>1 DEF DocumentInv, FreshDocuments, d
    <3> QED
      BY <3>1, <3>2
  <2>2. \A e \in Doc : e > issued => docId'[e] = 0
    BY <1>4, <1>5, <1>9 DEF DocumentInv, FreshDocuments, Doc
  <2>3. task'.kind # "add"
    BY <1>1 DEF NoTask
  <2> QED
    BY <1>1, <1>9, <2>1, <2>2, <2>3 DEF DocumentInv, FreshDocuments
<1>14. Numbered'
  <2>1. \A u \in Seg : Injective(u)' /\ DocsIn(u)' \subseteq Added'
    BY <1>1, <1>4, <1>5, <1>10, AddInjective
  <2>2. ASSUME NEW s \in InUse \ Renumbered, NEW i \in 1..Len(docs'[s])
        PROVE  docId'[docs'[s][i]] = i
    <3>1. s \in Seg
      BY <1>11
    <3>2. \A j \in 1..Len(docs[s]) : docs[s][j] \in DocsIn(s)
      BY <1>4, <3>1, DocsInPlaces
    <3>3. \A j \in 1..Len(docs[s]) : docs[s][j] \in Doc /\ docs[s][j] # d
      BY <1>4, <1>5, <1>10, <3>1, <3>2, DocsInPlaces
    <3>4. \A j \in 1..Len(docs[s]) : docId'[docs[s][j]] = j
      BY <1>9, <3>3 DEF DocumentInv, Numbered
    <3>5. CASE s = a /\ i = Len(docs[a]) + 1
      BY <1>9, <3>5
    <3>6. CASE s # a
      BY <1>9, <3>1, <3>4, <3>6
    <3>7. CASE s = a /\ i # Len(docs[a]) + 1
      <4>1. i \in 1..Len(docs[a])
        BY <1>9, <3>7
      <4> QED
        BY <1>9, <3>4, <3>7, <4>1
    <3> QED
      BY <3>5, <3>6, <3>7
  <2> QED
    BY <1>2, <1>3, <2>1, <2>2 DEF Numbered
<1>15. Disjoint'
  <2>1. \A u \in Seg : d \notin DocsIn(u)
    BY <1>5, <1>10
  <2>2. ASSUME NEW s \in InUse, NEW t \in InUse, s # t,
               ~(CopyStarted /\ {s, t} = {newseg, mseg2})
        PROVE  Range(docs'[s]) \cap Range(docs'[t]) = {}
    <3>1. s \in Seg /\ t \in Seg
      BY <1>11
    <3>2. DocsIn(s) \cap DocsIn(t) = {}
      BY <2>2 DEF DocumentInv, Disjoint
    <3>3. \/ Range(docs'[s]) = DocsIn(s)
          \/ Range(docs'[s]) = DocsIn(s) \cup {d} /\ s = a
      BY <1>9, <1>12, <3>1
    <3>4. \/ Range(docs'[t]) = DocsIn(t)
          \/ Range(docs'[t]) = DocsIn(t) \cup {d} /\ t = a
      BY <1>9, <1>12, <3>1
    <3> QED
      BY <2>1, <2>2, <3>1, <3>2, <3>3, <3>4
  <2> QED
    BY <1>2, <1>3, <2>2 DEF Disjoint, DocsIn
<1>16. Counted'
  BY <1>1, <1>3, <1>4, <1>5, AddCounted DEF DocumentInv
<1>17. Sized'
  <2>1. Len(docs'[a]) <= SEGMENT_MAX_DOC
    <3>1. Len(docs[a]) < SEGMENT_MAX_DOC
      BY <1>1 DEF DocumentInv, Sized, a
    <3> QED
      BY <1>9, <3>1, SegmentMaxAssumption
  <2>2. \A s \in Seg : Len(docs'[s]) <= SEGMENT_MAX_DOC
    BY <1>9, <2>1 DEF DocumentInv, Sized
  <2> QED
    BY <1>1, <2>2 DEF Sized
<1>18. newseg \in Seg => Range(docs'[newseg]) = DocsIn(newseg)
  BY <1>6, <1>12
<1>19. CopyStarted \/ mpc \in {"clone", "copy"} => newseg \in Seg
  BY DEF CopyStarted, Copied, Inv, StagePlace
<1>20. \A s \in Sources : /\ s \in Seg /\ docs'[s] = docs[s]
                          /\ Range(docs'[s]) = DocsIn(s)
  BY <1>7, <1>9, <1>11, <1>12 DEF InUse
<1>21. mpc = "copy" => Range(docs'[old]) = DocsIn(old) /\ docs'[old] = docs[old]
  BY <1>8, <1>9, <1>12
<1>22. newseg \in Seg => Moved' = Moved
  BY <1>2, <1>18 DEF Moved, DocsIn
<1>23. CopiedFromSecond'
  <2>1. mseg1 # NoSeg => deletion'[mseg1] = 1..Len(docs'[mseg1])
    BY <1>1, <1>20 DEF DocumentInv, CopiedFromSecond, Sources
  <2>2. mpc = "copy" /\ old = mseg1 => snapshot = 1..Len(docs'[mseg1])
    BY <1>21 DEF DocumentInv, CopiedFromSecond
  <2>3. ASSUME CopyStarted, mseg2 # NoSeg
        PROVE  /\ Range(docs'[newseg]) \subseteq Range(docs'[mseg2])
               /\ \A e \in Range(docs'[mseg2]) : docId'[e] <= Len(docs'[mseg2])
    <3>1. mseg2 \in Sources
      BY <2>3 DEF Sources
    <3>2. DocsIn(mseg2) \subseteq Doc /\ d \notin DocsIn(mseg2)
      BY <1>4, <1>5, <1>10, <1>20, <3>1, DocsInPlaces
    <3> QED
      BY <1>9, <1>18, <1>19, <1>20, <2>3, <3>1, <3>2
         DEF DocumentInv, CopiedFromSecond
  <2>4. mpc = "copy" => /\ pending \subseteq Range(docs'[old])
                        /\ old = mseg2 => pending \cap Moved' = {}
    BY <1>19, <1>21, <1>22 DEF DocumentInv, CopiedFromSecond
  <2>5. mpc \in {"clone", "copy"} /\ ~CopyStarted
          => doomed \cap Range(docs'[mseg2]) = {}
    <3>1. mpc \in {"clone", "copy"} => mseg2 \in Sources
      BY CopyingFacts
    <3> QED
      BY <1>20, <3>1 DEF DocumentInv, CopiedFromSecond
  <2> QED
    BY <1>2, <1>3, <2>1, <2>2, <2>3, <2>4, <2>5 DEF CopiedFromSecond, DocsIn
<1>24. CopyComplete'
  <2>1. mpc = "copy" => Range(docs'[old]) \subseteq pending \cup Moved'
    BY <1>19, <1>21, <1>22 DEF DocumentInv, CopyComplete
  <2>2. mpc \in {"clone", "copy"} /\ old = mseg2
          => Range(docs'[mseg1]) \subseteq Moved'
    BY <1>8, <1>19, <1>20, <1>22 DEF DocumentInv, CopyComplete
  <2>3. Copied => \A s \in Sources : Range(docs'[s]) \subseteq Moved'
    BY <1>19, <1>20, <1>22 DEF DocumentInv, CopyComplete, CopyStarted
  <2> QED
    BY <1>2, <1>3, <2>1, <2>2, <2>3 DEF CopyComplete, DocsIn
<1>25. DoomedNowhere'
  <2>1. doomed \cup freedDocs \subseteq Added /\ d \notin doomed \cup freedDocs
    BY <1>5 DEF DocumentInv, DoomedNowhere
  <2>2. ASSUME NEW s \in InUse
        PROVE  /\ freedDocs \cap Range(docs'[s]) = {}
               /\ s \notin Sources => doomed \cap Range(docs'[s]) = {}
    <3>1. s \in Seg
      BY <1>11
    <3>2. Range(docs'[s]) \subseteq DocsIn(s) \cup {d}
      BY <1>9, <1>12, <3>1
    <3> QED
      BY <2>1, <3>2 DEF DocumentInv, DoomedNowhere
  <2>3. doomed' \cup freedDocs' \subseteq Added'
    BY <1>1, <1>2, <1>9, <2>1
  <2> QED
    BY <1>1, <1>2, <2>2, <2>3 DEF DocumentInv, DoomedNowhere, DocsIn
<1>26. NoneLost'
  <2>1. ASSUME NEW e \in Added \cup {d}
        PROVE  \/ e \in freedDocs \cup doomed
               \/ \E s \in Listed \cup ({newseg} \ {NoSeg}) :
                    e \in Range(docs'[s])
    <3>1. CASE e = d
      BY <1>6, <1>9, <3>1
    <3>2. CASE e \in Added /\ e \notin freedDocs \cup doomed
      <4>1. PICK s \in Listed \cup ({newseg} \ {NoSeg}) : e \in DocsIn(s)
        BY <3>2 DEF DocumentInv, NoneLost
      <4>2. s \in Seg
        BY <4>1, <1>11 DEF InUse
      <4>3. DocsIn(s) \subseteq Range(docs'[s])
        BY <1>9, <1>12, <4>2
      <4> QED
        BY <4>1, <4>3
    <3> QED
      BY <3>1, <3>2
  <2> QED
    BY <1>1, <1>2, <1>9, <2>1 DEF NoneLost, DocsIn
<1>27. Allocated'
  <2>1. \A s \in Seg : s > nsegs => s # a
    BY <1>4 DEF Inv, ActiveState, TypeOK, SegTypeOK, Seg, a
  <2> QED
    BY <1>1, <1>2, <1>9, <2>1 DEF LayoutInv, Allocated
<1>28. ListStates'
  <2>1. \A s \in Seg : Lists(s) /\ state[s] = VALID => docs'[s] # << >>
    <3>1. state[a] # VALID
      BY <1>6 DEF ACTIVE, VALID
    <3> QED
      BY <1>9, <3>1 DEF LayoutInv, ListStates
  <2> QED
    BY <1>1, <1>2, <2>1 DEF LayoutInv, ListStates, Lists
<1>29. SourcesLeave'
  BY <1>1, <1>2 DEF LayoutInv, SourcesLeave, Lists
<1>30. NewSegmentRole'
  <2>1. NewPrivate => newseg \in Seg
    BY DEF Inv, NewSegmentPrivate
  <2>2. NewPrivate /\ ~CopyStarted => docs'[newseg] = << >>
    BY <1>6, <1>9, <2>1 DEF LayoutInv, NewSegmentRole
  <2>3. ~NewPrivate => newseg = NoSeg \/ Lists(newseg) \/ docs'[newseg] = << >>
    BY <1>4, <1>6, <1>9 DEF LayoutInv, NewSegmentRole
  <2> QED
    BY <1>1, <1>2, <1>3, <2>2, <2>3 DEF LayoutInv, NewSegmentRole, Lists
<1> QED
  BY <1>13, <1>14, <1>15, <1>16, <1>17, <1>23, <1>24, <1>25, <1>26, <1>27,
     <1>28, <1>29, <1>30
     DEF LayoutInv, DocumentInv

-----------------------------------------------------------------------------
(* The merger's tasks, run by the input processor.                         *)

\* DL_DELETE in terms of the set of listed segments.
LEMMA DeleteListed ==
  ASSUME segments \in Seq(Seg), ListOfAllocated, NEW s, Lists(s),
         segments' = RemoveAt(segments, PlaceInList(s))
  PROVE  /\ Listed' = Listed \ {s}
         /\ \A u : Lists(u)' <=> Lists(u) /\ u # s
<1> DEFINE p == PlaceInList(s)
           rest == RemoveAt(segments, p)
<1>1. p \in 1..Len(segments) /\ segments[p] = s
  BY DEF Lists, PlaceInList
<1>2. /\ rest \in Seq(Seg)
      /\ \A i \in 1..Len(rest) : Lists(rest[i])
      /\ \A u : Lists(u) /\ u # s => \E i \in 1..Len(rest) : rest[i] = u
  BY DeleteList
<1> HIDE DEF p
<1>0. Len(segments) \in Nat /\ p \in 1..Len(segments)
  BY <1>1
<1>3. /\ Len(rest) = Len(segments) - 1
      /\ \A j \in 1..Len(segments) - 1 :
           rest[j] = IF j < p THEN segments[j] ELSE segments[j + 1]
  BY <1>0, RemoveAtList
<1> HIDE DEF rest
<1>4. ASSUME NEW j \in 1..Len(rest) PROVE rest[j] # s
  <2>1. /\ j \in Nat /\ j \in 1..Len(segments) /\ j + 1 \in 1..Len(segments)
        /\ p \in Nat
    BY <1>0, <1>3
  <2>2. \A i \in 1..Len(segments) : i # p => segments[i] # s
    BY <1>1 DEF ListOfAllocated
  <2>3. CASE j < p
    BY <1>3, <2>1, <2>2, <2>3
  <2>4. CASE ~(j < p)
    <3>1. j + 1 # p
      BY <2>1, <2>4
    <3> QED
      BY <1>3, <2>1, <2>2, <2>4, <3>1
  <2> QED
    BY <2>3, <2>4
<1>5. segments' = rest
  BY DEF rest, p
<1>6. \A u : Lists(u)' <=> Lists(u) /\ u # s
  BY <1>2, <1>4, <1>5 DEF Lists
<1>7. \A u : u \in Listed' <=> Lists(u)'
  <2>1. \A u : u \in Range(rest) <=> \E i \in 1..Len(rest) : rest[i] = u
    BY <1>2, RangeElements
  <2> QED
    BY <1>5, <2>1 DEF Listed, Lists
<1>8. \A u : u \in Listed <=> Lists(u)
  BY ListedLists
<1> QED
  BY <1>6, <1>7, <1>8

\* What holds while `replace' runs.
LEMMA ReplaceFacts ==
  ASSUME Inv, LayoutInv, ReplaceRuns
  PROVE  /\ Copied /\ merge_stage \in {1, 2} /\ NewPrivate
         /\ mpc \notin {"clone", "copy", "post"}
         /\ \A i \in 1..Len(queue) : queue[i] # ReplaceTask
         /\ newseg \in Seg /\ newseg # NoSeg /\ ~Lists(newseg)
         /\ state[newseg] = ACTIVE
         /\ state[segment_active] = ACTIVE
         /\ segment_active \notin {mseg1, mseg2}
<1>1. (mpc = "posted" /\ merge_stage = 1) \/ (mpc = "loop" /\ merge_stage = 2)
  BY DEF Inv, OneMergerTask, ReplacePhase
<1>2. \A i \in 1..Len(queue) : queue[i] # ReplaceTask
  BY DEF Inv, OneMergerTask, MergerTask
<1>3. /\ newseg \in Seg /\ newseg # NoSeg /\ ~Lists(newseg)
      /\ state[newseg] = ACTIVE /\ NewPrivate
  BY DEF Inv, NewSegmentPrivate, NewPrivate, Seg, NoSeg
<1>4. state[segment_active] = ACTIVE /\ segment_active \in Seg
  BY DEF Inv, ActiveState, ReplaceRuns, TypeOK, EngineTypeOK
<1>5. \A s \in {mseg1, mseg2} \ {NoSeg} : state[s] = VALID
  BY <1>1 DEF Inv, SourcesValid, Migrating, Merging
<1>6. segment_active \notin {mseg1, mseg2}
  BY <1>4, <1>5 DEF Seg, NoSeg, ACTIVE, VALID
<1> QED
  BY <1>1, <1>2, <1>3, <1>4, <1>6 DEF Copied

\* A source leaves the list: its documents have been moved.
LEMMA UnlistKeepsDocs ==
  ASSUME Inv, LayoutInv, DocumentInv, ReplaceRuns,
         NEW s \in {mseg1, mseg2}, Lists(s),
         segments' = RemoveAt(segments, PlaceInList(s)),
         UNCHANGED << segVars, queue, issued, segment_active, task,
                      merge_stage, mergerVars >>,
         pc' \in {"delete2", "prepend"},
         Lists(mseg1) => s = mseg1,
         pc' = "prepend" /\ Lists(mseg2) => s = mseg2
  PROVE  LayoutInv' /\ DocumentInv'
<1>1. /\ UNCHANGED << docId, docs, deletion, deleted, state, nsegs, freedSegs,
                      freedDocs, issued, queue, segment_active, task,
                      merge_stage >>
      /\ UNCHANGED << mpc, mseg1, mseg2, newseg, old >>
  BY DEF segVars, mergerVars
<1>2. /\ segments \in Seq(Seg) /\ docs \in [Seg -> Seq(Doc)]
  BY DEF Inv, TypeOK, SegTypeOK, EngineTypeOK
<1>3. /\ Copied /\ merge_stage \in {1, 2} /\ NewPrivate
      /\ newseg \in Seg /\ newseg # NoSeg
      /\ segment_active \notin {mseg1, mseg2}
  BY ReplaceFacts
<1>4. /\ Listed' = Listed \ {s}
      /\ \A u : Lists(u)' <=> Lists(u) /\ u # s
  BY <1>2, DeleteListed DEF Inv
<1>5. (Copied' <=> Copied) /\ (CopyStarted' <=> CopyStarted) /\ NewPrivate'
  BY <1>1, <1>3 DEF Copied, CopyStarted, NewPrivate, ReplaceRuns
<1>6. s \in Sources /\ DocsIn(s) \subseteq Moved
  <2>1. s \in Seg
    BY <1>2, ListedLists
  <2>2. s \in Sources
    BY <2>1 DEF Sources, Seg, NoSeg
  <2> QED
    BY <1>3, <2>2 DEF DocumentInv, CopyComplete
<1>7. /\ Numbered' /\ Disjoint' /\ Counted' /\ CopiedFromSecond'
      /\ CopyComplete' /\ DoomedNowhere' /\ NoneLost'
  <2>1. \A u \in Listed : u \in Listed' \/ DocsIn(u) \subseteq Moved
    BY <1>4, <1>6
  <2> QED
    BY <1>1, <1>2, <1>3, <1>4, <1>5, <2>1, ListFrame
<1>8. FreshDocuments' /\ Sized'
  BY <1>1 DEF DocumentInv, FreshDocuments, Sized
<1>9. Allocated'
  BY <1>1 DEF LayoutInv, Allocated
<1>10. ListStates'
  BY <1>1, <1>3, <1>4 DEF LayoutInv, ListStates
<1>11. SourcesLeave'
  <2>1. ~Lists(mseg1)'
    <3>1. \A u : u = mseg1 => ~(Lists(u) /\ u # s)
      OBVIOUS
    <3> QED
      BY <1>1, <1>4, <3>1 DEF Lists
  <2>2. pc' = "prepend" => ~Lists(mseg2)'
    <3>1. pc' = "prepend" => \A u : u = mseg2 => ~(Lists(u) /\ u # s)
      OBVIOUS
    <3> QED
      BY <1>1, <1>4, <3>1 DEF Lists
  <2> QED
    BY <1>1, <1>3, <2>1, <2>2 DEF LayoutInv, SourcesLeave
<1>12. NewSegmentRole'
  <2>1. Sources' = Sources
    BY <1>1 DEF Sources
  <2> QED
    BY <1>1, <1>3, <1>4, <1>5, <2>1 DEF LayoutInv, NewSegmentRole
<1> QED
  BY <1>7, <1>8, <1>9, <1>10, <1>11, <1>12 DEF LayoutInv, DocumentInv

LEMMA ReplaceDelete1KeepsDocs ==
  ASSUME Inv, LayoutInv, DocumentInv, ReplaceDelete1
  PROVE  LayoutInv' /\ DocumentInv'
<1>1. /\ UNCHANGED << segVars, queue, issued, segment_active, task,
                      merge_stage, mergerVars >>
      /\ pc = "delete1"
  BY DEF ReplaceDelete1, ReplaceDelete
<1>2. ReplaceRuns /\ Lists(mseg1)
  BY <1>1 DEF ReplaceRuns, Inv, SourcesListed, ReplaceToCome
<1>3. CASE UNCHANGED << segments, pc >>
  <2>1. NewPrivate' <=> NewPrivate
    BY <1>1, <1>3 DEF NewPrivate, ReplaceRuns, mergerVars
  <2>2. FreshDocuments' /\ Sized'
    BY <1>1, <1>3, FreshFrame, SizedFrame DEF DocumentInv, segVars
  <2> QED
    BY <1>1, <1>3, <2>1, <2>2, LayoutFrame, InputFrame
       DEF LayoutInv, DocumentInv, segVars
<1>4. CASE /\ segments' = RemoveAt(segments, PlaceInList(mseg1))
           /\ pc' = "delete2"
  BY <1>1, <1>2, <1>4, UnlistKeepsDocs
<1> QED
  BY <1>3, <1>4 DEF ReplaceDelete1, ReplaceDelete

LEMMA ReplaceDelete2KeepsDocs ==
  ASSUME Inv, LayoutInv, DocumentInv, ReplaceDelete2
  PROVE  LayoutInv' /\ DocumentInv'
<1>1. /\ UNCHANGED << segVars, queue, issued, segment_active, task,
                      merge_stage, mergerVars >>
      /\ pc = "delete2"
  BY DEF ReplaceDelete2, ReplaceDelete
<1>2. ReplaceRuns /\ Lists(mseg2) /\ ~Lists(mseg1)
  BY <1>1 DEF ReplaceRuns, Inv, SourcesListed, ReplaceToCome, LayoutInv,
              SourcesLeave
<1>3. CASE UNCHANGED << segments, pc >>
  <2>1. NewPrivate' <=> NewPrivate
    BY <1>1, <1>3 DEF NewPrivate, ReplaceRuns, mergerVars
  <2>2. FreshDocuments' /\ Sized'
    BY <1>1, <1>3, FreshFrame, SizedFrame DEF DocumentInv, segVars
  <2> QED
    BY <1>1, <1>3, <2>1, <2>2, LayoutFrame, InputFrame
       DEF LayoutInv, DocumentInv, segVars
<1>4. CASE /\ segments' = RemoveAt(segments, PlaceInList(mseg2))
           /\ pc' = "prepend"
  BY <1>1, <1>2, <1>4, UnlistKeepsDocs
<1> QED
  BY <1>3, <1>4 DEF ReplaceDelete2, ReplaceDelete

\* The new segment joins the list, unless it is empty.
LEMMA FinishReplaceKeepsDocs ==
  ASSUME Inv, LayoutInv, DocumentInv, FinishReplace
  PROVE  LayoutInv' /\ DocumentInv'
<1>1. /\ UNCHANGED << docId, docs, deletion, deleted, nsegs, freedSegs,
                      freedDocs, issued, queue, segment_active, mergerVars >>
      /\ UNCHANGED << mpc, mseg1, mseg2, newseg, old, Sources >>
      /\ merge_stage' = 3 /\ pc = "prepend" /\ pc' = "idle" /\ task' = NoTask
  BY DEF FinishReplace, Return, mergerVars, Sources
<1>2. ReplaceRuns
  BY <1>1 DEF ReplaceRuns
<1>3. /\ Copied /\ merge_stage \in {1, 2} /\ NewPrivate
      /\ mpc \notin {"clone", "copy", "post"}
      /\ \A i \in 1..Len(queue) : queue[i] # ReplaceTask
      /\ newseg \in Seg /\ newseg # NoSeg /\ ~Lists(newseg)
      /\ state[newseg] = ACTIVE
  BY <1>2, ReplaceFacts
<1>4. /\ segments \in Seq(Seg) /\ docs \in [Seg -> Seq(Doc)]
      /\ state \in [Seg -> States]
  BY DEF Inv, TypeOK, SegTypeOK, EngineTypeOK, States
<1>5. Copied' /\ CopyStarted /\ CopyStarted' /\ ~NewPrivate'
  BY <1>1, <1>3 DEF Copied, CopyStarted, NewPrivate, ReplaceRuns
<1>6. /\ Joins => /\ Listed' = Listed \cup {newseg}
                  /\ \A u : Lists(u)' <=> Lists(u) \/ u = newseg
                  /\ state'[newseg] = VALID
                  /\ \A u \in Seg \ {newseg} : state'[u] = state[u]
      /\ ~Joins => /\ Listed' = Listed
                   /\ \A u : Lists(u)' <=> Lists(u)
                   /\ state' = state
  <2>1. CASE Joins
    <3>1. segments' = << newseg >> \o segments /\ Promote(newseg)
      BY <2>1 DEF FinishReplace
    <3> QED
      BY <1>3, <1>4, <2>1, <3>1, PrependListed, PromoteType
  <2>2. CASE ~Joins
    <3>1. segments' = segments /\ state' = state
      BY <2>2 DEF FinishReplace
    <3> QED
      BY <2>2, <3>1 DEF Listed, Lists
  <2> QED
    BY <2>1, <2>2
<1>7. /\ Numbered' /\ Disjoint' /\ Counted' /\ CopiedFromSecond'
      /\ CopyComplete' /\ DoomedNowhere' /\ NoneLost'
  <2>1. /\ \A u \in Listed' : u \in Listed \/ u = newseg
        /\ \A u \in Listed : u \in Listed'
    BY <1>6
  <2> QED
    BY <1>1, <1>3, <1>4, <1>5, <2>1, ListFrame
<1>8. FreshDocuments' /\ Sized'
  BY <1>1, ReturnFresh DEF DocumentInv, Sized
<1>9. Allocated'
  BY <1>1 DEF LayoutInv, Allocated
<1>10. ListStates'
  <2>1. segment_active \in Seg /\ segment_active # newseg /\ Lists(segment_active)
    BY DEF Inv, TypeOK, EngineTypeOK, LayoutInv, ListStates
  <2>2. Lists(segment_active)'
    <3>1. \A u : u = segment_active => Lists(u)'
      BY <1>6, <2>1
    <3> QED
      BY <1>1, <3>1 DEF Lists
  <2>3. ASSUME NEW s \in Seg, Lists(s)'
        PROVE  /\ s # segment_active => state'[s] = VALID
               /\ state'[s] = VALID => docs[s] # << >>
    <3>1. CASE s = newseg /\ Joins
      BY <1>6, <3>1 DEF Joins
    <3>2. CASE Lists(s) /\ s # newseg
      BY <1>6, <3>2 DEF LayoutInv, ListStates
    <3> QED
      BY <1>3, <1>6, <2>3, <3>1, <3>2
  <2> QED
    BY <1>1, <2>1, <2>2, <2>3 DEF ListStates
<1>11. SourcesLeave'
  <2>1. newseg \notin {mseg1, mseg2}
    BY <1>3 DEF LayoutInv, NewSegmentRole, Sources
  <2>2. ~Lists(mseg1) /\ ~Lists(mseg2)
    BY <1>1 DEF LayoutInv, SourcesLeave
  <2>3. \A u : u \in {mseg1, mseg2} => ~Lists(u)'
    BY <1>6, <2>1, <2>2
  <2>4. ~Lists(mseg1)' /\ ~Lists(mseg2)'
    BY <1>1, <2>3 DEF Lists
  <2> QED
    BY <1>1, <1>3, <2>4 DEF LayoutInv, SourcesLeave
<1>12. NewSegmentRole'
  <2>1. Joins \/ docs[newseg] = << >>
    BY DEF Joins
  <2>2. newseg \notin Sources \cup freedSegs
    BY <1>3 DEF LayoutInv, NewSegmentRole
  <2>3. \A s \in freedSegs : ~Lists(s) /\ s \notin Sources /\ s # newseg
    BY <2>2 DEF LayoutInv, NewSegmentRole
  <2>4. \A s \in freedSegs : ~Lists(s)' /\ s \notin Sources
    BY <1>6, <2>3
  <2>5. Joins => Lists(newseg)'
    <3>1. Joins => \A u : u = newseg => Lists(u)'
      BY <1>6
    <3> QED
      BY <1>1, <3>1 DEF Lists
  <2> QED
    BY <1>1, <1>5, <2>1, <2>4, <2>5 DEF NewSegmentRole
<1> QED
  BY <1>7, <1>8, <1>9, <1>10, <1>11, <1>12 DEF LayoutInv, DocumentInv

LEMMA BeginMergerTaskKeepsDocs ==
  ASSUME Inv, LayoutInv, DocumentInv, BeginReplace \/ Redelete
  PROVE  LayoutInv' /\ DocumentInv'
<1>1. /\ UNCHANGED << docId, docs, deletion, deleted, state, nsegs, freedSegs,
                      freedDocs, segments, segment_active, merge_stage,
                      mergerVars, issued >>
      /\ pc' \in {"delete1", "redelete"}
  BY DEF BeginReplace, Redelete, segVars
<1>2. queue \in Seq(Task)
  BY DEF Inv, TypeOK, EngineTypeOK
<1>3. PICK t \in MergerTask : Take(t) /\ (t = ReplaceTask <=> pc' = "delete1")
  BY DEF BeginReplace, Redelete, MergerTask, ReplaceTask, RedeleteTask
<1>4. task' = t /\ t.kind # "add"
  BY <1>3 DEF Take, MergerTask, ReplaceTask, RedeleteTask
<1>5. FreshDocuments'
  BY <1>1, <1>2, <1>3, TakeFresh DEF DocumentInv
<1>6. NewPrivate' <=> NewPrivate
  <2>1. UNCHANGED mpc /\ IF t = ReplaceTask THEN ReplaceRuns' ELSE ~ReplaceRuns'
    BY <1>1, <1>3 DEF ReplaceRuns, mergerVars
  <2> QED
    BY <1>2, <1>3, <2>1, TakePrivate
<1>7. Sized'
  BY <1>1, <1>4 DEF DocumentInv, Sized
<1> QED
  BY <1>1, <1>5, <1>6, <1>7, LayoutFrame, InputFrame
     DEF LayoutInv, DocumentInv

\* The ids redelete adds to the new segment's bitmap are ids of its documents.
LEMMA FinishRedeleteKeepsDocs ==
  ASSUME Inv, LayoutInv, DocumentInv, FinishRedelete
  PROVE  LayoutInv' /\ DocumentInv'
<1>1. /\ UNCHANGED << docId, docs, state, nsegs, freedSegs, freedDocs,
                      segments, segment_active, mergerVars, issued, queue >>
      /\ UNCHANGED << mpc, mseg1, mseg2, newseg, old, Sources >>
      /\ merge_stage' = 6 /\ pc = "redelete" /\ pc' = "idle" /\ task' = NoTask
      /\ deletion' = [deletion EXCEPT ![newseg] = @ \cup Redeleted]
      /\ deleted' = [deleted EXCEPT ![newseg] = @ + Cardinality(Redeleted)]
  BY DEF FinishRedelete, Return, mergerVars, Sources
<1>2. merge_stage \in {4, 5} /\ mpc \in {"loop", "reposted"}
  BY <1>1 DEF Inv, OneMergerTask, RedeleteRuns, RedeletePhase
<1>3. newseg \in Seg /\ newseg \in InUse /\ newseg <= nsegs
  <2>1. newseg \in Seg
    BY <1>2 DEF Inv, StagePlace
  <2>2. nsegs \in Nat
    BY DEF Inv, TypeOK, SegTypeOK, Seg
  <2> QED
    BY <2>1, <2>2 DEF InUse, Seg, NoSeg, LayoutInv, Allocated
<1>4. Redeleted \subseteq 1..Len(docs[newseg]) /\ Redeleted \cap deletion[newseg] = {}
  <2>1. {docId[d] : d \in DocsIn(newseg)} \subseteq 1..Len(docs[newseg])
    BY <1>3, IdsInRange
  <2>2. \A k : /\ Undeleted(newseg, k) \subseteq {docId[d] : d \in DocsIn(newseg)}
               /\ Undeleted(newseg, k) \cap deletion[newseg] = {}
    BY DEF Undeleted, OfKey
  <2> QED
    BY <2>1, <2>2 DEF Redeleted
<1>5. /\ Numbered' /\ Disjoint' /\ Counted' /\ CopiedFromSecond'
      /\ CopyComplete' /\ DoomedNowhere' /\ NoneLost'
  <2> DEFINE ids == Redeleted
  <2>1. /\ ids \subseteq 1..Len(docs[newseg]) /\ ids \cap deletion[newseg] = {}
        /\ deletion' = [deletion EXCEPT ![newseg] = @ \cup ids]
        /\ deleted' = [deleted EXCEPT ![newseg] = @ + Cardinality(ids)]
    BY <1>1, <1>4
  <2>2. ids \in SUBSET Nat
    <3>1. 1..Len(docs[newseg]) \subseteq Nat
      OBVIOUS
    <3> QED
      BY <2>1, <3>1
  <2> HIDE DEF ids
  <2>3. merge_stage' = merge_stage \/ (merge_stage \in {4, 5} /\ merge_stage' = 6)
    BY <1>1, <1>2
  <2> QED
    BY <1>1, <1>3, <2>1, <2>2, <2>3, MarkFrame
<1>6. Allocated'
  <2>1. \A u \in Seg : u > nsegs => u # newseg
    BY <1>3 DEF Inv, TypeOK, SegTypeOK, Seg
  <2>2. \A u \in Seg : u # newseg => deletion'[u] = deletion[u]
                                      /\ deleted'[u] = deleted[u]
    BY <1>1 DEF Inv, TypeOK, SegTypeOK
  <2> QED
    BY <1>1, <2>1, <2>2 DEF LayoutInv, Allocated
<1>7. ListStates'
  BY <1>1 DEF LayoutInv, ListStates, Lists
<1>8. SourcesLeave'
  BY <1>1, <1>2 DEF LayoutInv, SourcesLeave, Lists
<1>9. NewSegmentRole'
  <2>1. CopyStarted /\ CopyStarted' /\ (NewPrivate' <=> NewPrivate)
    BY <1>1, <1>2 DEF CopyStarted, Copied, NewPrivate, ReplaceRuns
  <2> QED
    BY <1>1, <2>1 DEF LayoutInv, NewSegmentRole, Lists
<1>10. FreshDocuments' /\ Sized'
  BY <1>1, ReturnFresh DEF DocumentInv, Sized
<1> QED
  BY <1>5, <1>6, <1>7, <1>8, <1>9, <1>10 DEF LayoutInv, DocumentInv


-----------------------------------------------------------------------------
(* The merge thread.                                                       *)

\* Once the copy is posted the new segment is private for as long as `replace'
\* is outstanding.
LEMMA PrivateInPhase ==
  ASSUME Inv, NewPrivate, mpc \notin {"clone", "copy", "post"}
  PROVE  ReplacePhase
  BY DEF Inv, OneMergerTask, NewPrivate

\* What the merge thread's steps leave alone but for the copy and the posting.
LEMMA ThreadFrame ==
  ASSUME DocumentInv,
         UNCHANGED << docs, docId, deletion, deleted, issued, queue, task,
                      segment_active, pc >>,
         \A s \in Seg : s \in Renumbered \cup freedSegs
                         => s \in Renumbered' \cup freedSegs'
  PROVE  FreshDocuments' /\ Counted' /\ Sized'
  BY FreshFrame, CountedFrame, SizedFrame DEF DocumentInv

\* Segments in the list or private are not freed, so that their bits count.
LEMMA CountedListed ==
  ASSUME LayoutInv, DocumentInv, NEW s \in Seg, s \notin Renumbered,
         Lists(s) \/ (NewPrivate /\ s = newseg)
  PROVE  /\ deletion[s] \subseteq 1..Len(docs[s])
         /\ deleted[s] = Cardinality(deletion[s])
<1>1. s \notin freedSegs
  BY DEF LayoutInv, NewSegmentRole
<1> QED
  BY <1>1 DEF DocumentInv, Counted

\* No segment in use is the absent one.
LEMMA InUseSegments ==
  ASSUME Inv
  PROVE  /\ segments \in Seq(Seg) /\ docs \in [Seg -> Seq(Doc)]
         /\ {mseg1, mseg2, newseg, old} \subseteq Seg \cup {NoSeg}
         /\ InUse \subseteq Seg /\ NoSeg \notin InUse /\ NoSeg \notin Seg
<1>1. segments \in Seq(Seg)
  BY DEF Inv, TypeOK, EngineTypeOK
<1>2. docs \in [Seg -> Seq(Doc)]
  BY DEF Inv, TypeOK, SegTypeOK
<1>3. {mseg1, mseg2, newseg, old} \subseteq Seg \cup {NoSeg}
  BY DEF Inv, TypeOK, MergerTypeOK
<1>4. InUse \subseteq Seg
  BY <1>1, <1>3, ListedLists DEF InUse, Sources
<1> QED
  BY <1>1, <1>2, <1>3, <1>4 DEF Seg, NoSeg

\* An integer quotient that reaches a ratio of 0.2 is at least one.
LEMMA WholeRatio ==
  ASSUME NEW n \in Nat, n > 0, NEW m \in Nat, 10 * (m \div n) >= 2
  PROVE  m >= n
  OBVIOUS

\* ts_merger_get_segments: the integer division admits nothing but a segment
\* with every document deleted as the first of the two.
LEMMA CheckKeepsDocs ==
  ASSUME Inv, LayoutInv, DocumentInv, Check
  PROVE  LayoutInv' /\ DocumentInv'
<1>1. /\ UNCHANGED << docs, docId, deletion, deleted, state, nsegs, freedSegs,
                      freedDocs, issued, queue, segments, segment_active, pc,
                      task >>
      /\ UNCHANGED << mpc, newseg, doomed, old, snapshot, pending >>
      /\ mpc = "loop" /\ merge_stage = 0 /\ merge_stage' = 1
  BY DEF Check, Unmerge, segVars
<1>2. PICK i, j \in 1..Len(segments) :
        GetSegments(i, j) /\ mseg1' = segments[i] /\ mseg2' = segments[j]
  BY DEF Check
<1>3. /\ segments \in Seq(Seg) /\ docs \in [Seg -> Seq(Doc)]
      /\ newseg \in Seg \cup {NoSeg}
      /\ InUse \subseteq Seg
  BY InUseSegments
<1>4. state \in [Seg -> States] /\ deleted \in [Seg -> Nat]
  BY DEF Inv, TypeOK, SegTypeOK, States
<1>5. mseg1 = NoSeg /\ mseg2 = NoSeg /\ old = NoSeg /\ doomed = {}
  BY <1>1 DEF LayoutInv, SourcesLeave, DocumentInv, DoomedNowhere
<1> DEFINE a == segments[i]
           b == segments[j]
<1>6. a \in Seg /\ b \in Seg /\ Lists(a) /\ Lists(b) /\ a # b
  <2>1. i # j
    BY <1>2, <1>3 DEF GetSegments
  <2> QED
    BY <1>3, <2>1 DEF Lists, Inv, ListOfAllocated
<1>7. deletion[a] = 1..Len(docs[a])
  <2>1. state[a] = VALID
    <3>1. state[a] # ACTIVE
      BY <1>2 DEF GetSegments, Kept, Eligible
    <3> QED
      BY <1>4, <1>6, <3>1 DEF States
  <2>2. docs[a] # << >>
    BY <1>6, <2>1 DEF LayoutInv, ListStates
  <2>3. Len(docs[a]) \in Nat /\ Len(docs[a]) > 0
    BY <1>3, <1>6, <2>2
  <2>4. deleted[a] \in Nat
    BY <1>4, <1>6
  <2>5. 10 * (deleted[a] \div Len(docs[a])) >= 2
    BY <1>2 DEF GetSegments, RatioReached, DeletedRatio
  <2>6. deleted[a] >= Len(docs[a])
    BY <2>3, <2>4, <2>5, WholeRatio
  <2>7. /\ deletion[a] \subseteq 1..Len(docs[a])
         /\ deleted[a] = Cardinality(deletion[a])
    <3>1. a \notin Renumbered
      BY <1>1 DEF Renumbered, CopyStarted, Copied
    <3> QED
      BY <1>6, <3>1, CountedListed
  <2> QED
    BY <2>3, <2>6, <2>7, AllOfThem
<1>8. mseg1' = a /\ mseg2' = b /\ Sources = {}
  BY <1>2, <1>5 DEF Sources
<1>9. Listed' = Listed /\ \A s : Lists(s)' <=> Lists(s)
  BY <1>1 DEF Listed, Lists
<1>10. InUse' = InUse /\ Sources' = {a, b}
  <2>1. a \in Listed /\ b \in Listed
    BY <1>3, <1>6, ListedLists
  <2>2. Sources' = {a, b}
    BY <1>6, <1>8, InUseSegments DEF Sources
  <2> QED
    BY <1>1, <1>8, <1>9, <2>1, <2>2 DEF InUse
<1> HIDE DEF a, b
<1>11. ~Copied /\ ~CopyStarted /\ ~Copied' /\ ~CopyStarted'
  BY <1>1 DEF Copied, CopyStarted
<1>12. ~NewPrivate /\ ~NewPrivate'
  <2>1. ~NewPrivate
    BY <1>1, PrivateInPhase DEF ReplacePhase
  <2> QED
    BY <1>1, <2>1 DEF NewPrivate, ReplaceRuns
<1>13. Numbered' /\ Disjoint'
  BY <1>1, <1>10, <1>11, NumberedFrame, DisjointFrame
     DEF DocumentInv, Renumbered
<1>14. FreshDocuments' /\ Counted' /\ Sized'
  BY <1>1, <1>11, ThreadFrame DEF Renumbered
<1>15. CopiedFromSecond'
  BY <1>1, <1>7, <1>8, <1>11 DEF CopiedFromSecond
<1>16. CopyComplete'
  BY <1>1, <1>11 DEF CopyComplete
<1>17. Added' = Added /\ \A s : DocsIn(s)' = DocsIn(s)
  BY <1>1 DEF Added, DocsIn
<1>18. DoomedNowhere'
  <2>1. \A s \in InUse' : freedDocs' \cap DocsIn(s)' = {}
    BY <1>1, <1>10, <1>17 DEF DocumentInv, DoomedNowhere
  <2> QED
    BY <1>1, <1>5, <1>17, <2>1 DEF DocumentInv, DoomedNowhere
<1>19. NoneLost'
  BY <1>1, <1>9, <1>17 DEF DocumentInv, NoneLost
<1>20. Allocated'
  <2>1. {a, b} \subseteq 0..nsegs
    BY <1>6, <1>3 DEF Inv, ListOfAllocated, Lists, TypeOK, SegTypeOK, Seg
  <2> QED
    BY <1>1, <1>8, <2>1 DEF LayoutInv, Allocated
<1>21. ListStates'
  BY <1>1, <1>9 DEF LayoutInv, ListStates
<1>22. SourcesLeave'
  <2>1. pc \notin {"delete2", "prepend"}
    BY <1>1 DEF Inv, OneMergerTask, ReplaceRuns, ReplacePhase
  <2> QED
    BY <1>1, <1>5, <1>6, <1>8, <2>1 DEF SourcesLeave
<1>23. NewSegmentRole'
  BY <1>1, <1>6, <1>9, <1>10, <1>12 DEF LayoutInv, NewSegmentRole
<1> QED
  BY <1>13, <1>14, <1>15, <1>16, <1>18, <1>19, <1>20, <1>21, <1>22, <1>23
     DEF LayoutInv, DocumentInv


\* The new segment is empty, in nobody else's use, and replaces one that is in
\* the list by now or holds nothing.
LEMMA BeginMigrateKeepsDocs ==
  ASSUME Inv, LayoutInv, DocumentInv, BeginMigrate
  PROVE  LayoutInv' /\ DocumentInv'
<1>1. /\ UNCHANGED << docs, docId, deletion, deleted, state, freedSegs,
                      freedDocs, issued, queue, segments, segment_active, pc,
                      task, merge_stage >>
      /\ UNCHANGED << mseg1, mseg2, snapshot, pending >>
      /\ mpc = "loop" /\ merge_stage = 1
      /\ newseg' = nsegs + 1 /\ nsegs' = nsegs + 1 /\ nsegs < MaxSeg
      /\ doomed' = {} /\ old' = mseg1 /\ mpc' = "clone"
  BY DEF BeginMigrate, Unmerge, NewSegment, Fresh
<1>2. /\ segments \in Seq(Seg) /\ docs \in [Seg -> Seq(Doc)]
      /\ InUse \subseteq Seg /\ NoSeg \notin Seg
  BY InUseSegments
<1>3. nsegs \in Nat /\ nsegs + 1 \in Seg /\ segment_active <= nsegs
      /\ segment_active \in Seg
  BY <1>1, MaxSegAssumption
     DEF Inv, TypeOK, SegTypeOK, EngineTypeOK, ActiveState, Seg
<1>4. doomed = {}
  BY <1>1 DEF DocumentInv, DoomedNowhere
<1> DEFINE f == nsegs + 1
<1>5. /\ docs[f] = << >> /\ DocsIn(f) = {}
      /\ f \notin {mseg1, mseg2, newseg} \cup freedSegs /\ ~Lists(f)
      /\ f # segment_active
  <2>1. docs[f] = << >>
    BY <1>3 DEF LayoutInv, Allocated
  <2>2. (\A x \in 0..nsegs : x # f) /\ (\A x \in 1..nsegs : x # f)
    BY <1>3
  <2>3. ~Lists(f)
    BY <1>2, <1>3 DEF Inv, ListOfAllocated, Lists, Seg
  <2>4. f # segment_active
    BY <1>3 DEF Seg
  <2> QED
    BY <2>1, <2>2, <2>3, <2>4, RangeEmpty DEF LayoutInv, Allocated, DocsIn
<1>6. newseg' = f /\ f \in Seg
  BY <1>1, <1>3
<1>7. \A s \in Seg : s > nsegs' => s > nsegs
  BY <1>1, <1>3 DEF Seg
<1> HIDE DEF f
<1>8. UNCHANGED << Listed, Sources, Added >> /\ \A s : Lists(s)' <=> Lists(s)
  BY <1>1 DEF Listed, Sources, Added, Lists
<1>9. InUse' = Listed \cup Sources \cup {f}
  BY <1>2, <1>6, <1>8 DEF InUse
<1>10. ~Copied /\ ~CopyStarted /\ ~Copied' /\ ~CopyStarted'
  BY <1>1 DEF Copied, CopyStarted
<1>11. ~NewPrivate /\ NewPrivate'
  BY <1>1, PrivateInPhase DEF ReplacePhase, NewPrivate
<1>12. mseg1 # mseg2
  <2>1. ~ReplaceRuns
    BY <1>1 DEF Inv, OneMergerTask, ReplacePhase
  <2> QED
    BY <1>1, <2>1 DEF Inv, SourcesListed, ReplaceToCome
<1>13. Numbered' /\ Disjoint'
  <2>1. \A s \in InUse' : s \in InUse \/ docs[s] = << >>
    BY <1>5, <1>9 DEF InUse
  <2> QED
    BY <1>1, <1>10, <2>1, NumberedFrame, DisjointFrame DEF DocumentInv, Renumbered
<1>14. FreshDocuments' /\ Counted' /\ Sized'
  BY <1>1, <1>10, ThreadFrame DEF Renumbered
<1>15. CopiedFromSecond'
  BY <1>1, <1>10 DEF DocumentInv, CopiedFromSecond
<1>16. CopyComplete'
  BY <1>1, <1>10, <1>12 DEF CopyComplete
<1>17. \A s : DocsIn(s)' = DocsIn(s)
  BY <1>1 DEF DocsIn
<1>18. DoomedNowhere'
  <2>1. \A s \in InUse' : freedDocs \cap DocsIn(s) = {}
    BY <1>5, <1>9 DEF DocumentInv, DoomedNowhere, InUse
  <2> QED
    BY <1>1, <1>8, <1>17, <2>1 DEF DocumentInv, DoomedNowhere
<1>19. NoneLost'
  <2>1. newseg = NoSeg \/ newseg \in Listed \/ DocsIn(newseg) = {}
    BY <1>2, <1>11, ListedLists, RangeEmpty DEF LayoutInv, NewSegmentRole, DocsIn
  <2>2. \A d \in Added : d \in freedDocs \/ \E s \in Listed : d \in DocsIn(s)
    BY <1>4, <2>1 DEF DocumentInv, NoneLost
  <2> QED
    BY <1>1, <1>8, <1>17, <2>2 DEF NoneLost
<1>20. Allocated'
  <2>1. 0..nsegs \subseteq 0..nsegs' /\ 1..nsegs \subseteq 1..nsegs'
        /\ newseg' \in 0..nsegs'
    BY <1>1, <1>3
  <2> QED
    BY <1>1, <1>7, <2>1 DEF LayoutInv, Allocated
<1>21. ListStates'
  BY <1>1, <1>5, <1>6, <1>8 DEF LayoutInv, ListStates
<1>22. SourcesLeave'
  BY <1>1, <1>8 DEF LayoutInv, SourcesLeave
<1>23. NewSegmentRole'
  <2>1. f \notin Sources
    BY <1>5 DEF Sources
  <2> QED
    BY <1>1, <1>5, <1>6, <1>8, <1>11, <2>1 DEF LayoutInv, NewSegmentRole
<1> QED
  BY <1>13, <1>14, <1>15, <1>16, <1>18, <1>19, <1>20, <1>21, <1>22, <1>23
     DEF LayoutInv, DocumentInv

\* What all the steps of the copy leave alone, and the layout with it.
LEMMA CopyLayout ==
  ASSUME Inv, LayoutInv, mpc \in {"clone", "copy"},
         UNCHANGED << deletion, deleted, state, nsegs, freedSegs, segments,
                      segment_active, pc, queue, merge_stage, mseg1, mseg2,
                      newseg >>,
         \A s \in Seg : s # newseg => docs'[s] = docs[s],
         docs' = docs \/ CopyStarted,
         mpc' \in {"clone", "copy"} \/ (mpc' = "post" /\ old' = NoSeg),
         CopyStarted => CopyStarted'
  PROVE  LayoutInv'
<1>1. /\ segments \in Seq(Seg) /\ newseg \in Seg /\ newseg <= nsegs
      /\ ~Lists(newseg) /\ NewPrivate /\ NewPrivate' /\ nsegs \in Nat
  <2>1. NewPrivate /\ NewPrivate'
    BY DEF NewPrivate
  <2> QED
    BY <2>1 DEF Inv, NewSegmentPrivate, TypeOK, EngineTypeOK, SegTypeOK, Seg
<1>2. UNCHANGED Sources /\ \A s : Lists(s)' <=> Lists(s)
  BY DEF Sources, Lists
<1>3. Allocated'
  <2>1. \A s \in Seg : s > nsegs => s # newseg
    BY <1>1 DEF Seg
  <2> QED
    BY <2>1 DEF LayoutInv, Allocated
<1>4. ListStates'
  <2>1. \A s \in Seg : Lists(s) => docs'[s] = docs[s]
    BY <1>1
  <2> QED
    BY <1>2, <2>1 DEF LayoutInv, ListStates
<1>5. SourcesLeave'
  <2>1. merge_stage = 1
    BY CopyingFacts
  <2> QED
    BY <1>2, <2>1 DEF LayoutInv, SourcesLeave
<1>6. NewSegmentRole'
  <2>1. newseg \notin Sources \cup freedSegs
    BY <1>1 DEF LayoutInv, NewSegmentRole
  <2>2. ~CopyStarted' => docs'[newseg] = << >>
    BY <1>1 DEF LayoutInv, NewSegmentRole
  <2> QED
    BY <1>1, <1>2, <2>1, <2>2 DEF LayoutInv, NewSegmentRole
<1> QED
  BY <1>3, <1>4, <1>5, <1>6 DEF LayoutInv

\* The bitmap of mseg1 has every bit set; the new segment is empty when the
\* copy of mseg2 begins.
LEMMA CloneDeletionKeepsDocs ==
  ASSUME Inv, LayoutInv, DocumentInv, CloneDeletion
  PROVE  LayoutInv' /\ DocumentInv'
<1>1. /\ UNCHANGED << docs, docId, deletion, deleted, state, nsegs, freedSegs,
                      freedDocs, issued, queue, segments, segment_active, pc,
                      task, merge_stage >>
      /\ UNCHANGED << mseg1, mseg2, newseg, doomed, old >>
      /\ mpc = "clone" /\ mpc' = "copy"
      /\ snapshot' = deletion[old] /\ pending' = DocsIn(old)
  BY DEF CloneDeletion, Unmerge, segVars
<1>2. /\ merge_stage = 1 /\ mseg1 # mseg2
      /\ mseg1 \in Seg /\ mseg2 \in Seg /\ newseg \in Seg
      /\ mseg1 \in Sources /\ mseg2 \in Sources
      /\ old \in {mseg1, mseg2}
  BY <1>1, CopyingFacts
<1>3. docs \in [Seg -> Seq(Doc)] /\ NoSeg \notin Seg
  BY InUseSegments
<1>4. /\ UNCHANGED << Sources, Listed, Added, InUse, Moved >>
      /\ \A s : DocsIn(s)' = DocsIn(s)
  BY <1>1 DEF Sources, Listed, Added, InUse, Moved, DocsIn
<1>5. ~Copied /\ ~Copied' /\ ~CopyStarted /\ (CopyStarted' <=> old = mseg2)
  BY <1>1, <1>2 DEF Copied, CopyStarted
<1>6. docs[newseg] = << >> /\ DocsIn(newseg) = {}
  <2>1. NewPrivate
    BY <1>1 DEF NewPrivate
  <2> QED
    BY <1>5, <2>1, RangeEmpty DEF LayoutInv, NewSegmentRole, DocsIn
<1>7. LayoutInv'
  BY <1>1, <1>5, CopyLayout
<1>8. Numbered' /\ Disjoint'
  BY <1>1, <1>4, <1>5, NumberedFrame, DisjointFrame DEF DocumentInv, Renumbered
<1>9. FreshDocuments' /\ Counted' /\ Sized'
  BY <1>1, <1>5, ThreadFrame DEF Renumbered
<1>10. doomed \cap DocsIn(mseg2) = {}
  BY <1>1, <1>5 DEF DocumentInv, CopiedFromSecond
<1>11. CopiedFromSecond'
  <2>1. deletion[mseg1] = 1..Len(docs[mseg1])
    BY <1>2, <1>3 DEF DocumentInv, CopiedFromSecond
  <2>2. \A d \in DocsIn(mseg2) : docId[d] <= Len(docs[mseg2])
    <3>1. mseg2 \in InUse
      BY <1>2 DEF InUse
    <3>2. {docId[d] : d \in DocsIn(mseg2)} \subseteq 1..Len(docs[mseg2])
      BY <3>1, IdsInRange
    <3>3. Len(docs[mseg2]) \in Nat
      BY <1>2, <1>3
    <3> QED
      BY <3>2, <3>3
  <2>3. old = mseg2 => pending' \cap Moved' = {}
    BY <1>1, <1>4, <1>6, <1>10 DEF Moved
  <2> QED
    BY <1>1, <1>4, <1>5, <1>6, <1>10, <2>1, <2>2, <2>3 DEF CopiedFromSecond
<1>12. CopyComplete'
  BY <1>1, <1>4, <1>5 DEF DocumentInv, CopyComplete
<1>13. DoomedNowhere'
  BY <1>1, <1>2, <1>4 DEF DocumentInv, DoomedNowhere
<1>14. NoneLost'
  BY <1>1, <1>4 DEF DocumentInv, NoneLost
<1> QED
  BY <1>7, <1>8, <1>9, <1>11, <1>12, <1>13, <1>14 DEF DocumentInv

\* The end of one source: the other one, or the end of the copy.
LEMMA EndSourceKeepsDocs ==
  ASSUME Inv, LayoutInv, DocumentInv, EndSource
  PROVE  LayoutInv' /\ DocumentInv'
<1>1. /\ UNCHANGED << docs, docId, deletion, deleted, state, nsegs, freedSegs,
                      freedDocs, issued, queue, segments, segment_active, pc,
                      task, merge_stage >>
      /\ UNCHANGED << mseg1, mseg2, newseg, doomed, pending >>
      /\ mpc = "copy" /\ pending = {}
      /\ IF old = mseg1 THEN old' = mseg2 /\ mpc' = "clone"
                        ELSE old' = NoSeg /\ mpc' = "post"
  BY DEF EndSource, Unmerge, segVars
<1>2. /\ merge_stage = 1 /\ mseg1 # mseg2
      /\ mseg1 \in Seg /\ mseg2 \in Seg /\ newseg \in Seg
      /\ old \in {mseg1, mseg2}
  BY <1>1, CopyingFacts
<1>3. /\ UNCHANGED << Sources, Listed, Added, InUse, Moved >>
      /\ \A s : DocsIn(s)' = DocsIn(s)
  BY <1>1 DEF Sources, Listed, Added, InUse, Moved, DocsIn
<1>4. /\ ~Copied /\ (Copied' <=> old = mseg2)
      /\ (CopyStarted <=> old = mseg2) /\ (CopyStarted' <=> old = mseg2)
  BY <1>1, <1>2 DEF Copied, CopyStarted
<1>5. LayoutInv'
  BY <1>1, <1>4, CopyLayout
<1>6. Numbered' /\ Disjoint'
  BY <1>1, <1>3, <1>4, NumberedFrame, DisjointFrame DEF DocumentInv, Renumbered
<1>7. FreshDocuments' /\ Counted' /\ Sized'
  BY <1>1, <1>4, ThreadFrame DEF Renumbered
<1>8. CopiedFromSecond'
  BY <1>1, <1>2, <1>3, <1>4 DEF DocumentInv, CopiedFromSecond
<1>9. CopyComplete'
  <2>1. DocsIn(old) \subseteq Moved
    BY <1>1 DEF DocumentInv, CopyComplete
  <2>2. old = mseg2 => DocsIn(mseg1) \subseteq Moved
    BY <1>1 DEF DocumentInv, CopyComplete
  <2>3. Sources \subseteq {mseg1, mseg2}
    BY DEF Sources
  <2> QED
    BY <1>1, <1>2, <1>3, <1>4, <2>1, <2>2, <2>3 DEF CopyComplete
<1>10. DoomedNowhere'
  BY <1>1, <1>2, <1>3 DEF DocumentInv, DoomedNowhere
<1>11. NoneLost'
  BY <1>1, <1>3 DEF DocumentInv, NoneLost
<1> QED
  BY <1>5, <1>6, <1>7, <1>8, <1>9, <1>10, <1>11 DEF DocumentInv


\* A document deleted when the bitmap was cloned; every one of mseg1 is.
LEMMA DoomKeepsDocs ==
  ASSUME Inv, LayoutInv, DocumentInv, CopyDocument, UNCHANGED << docs, docId >>,
         NEW d \in pending, pending' = pending \ {d}, doomed' = doomed \cup {d}
  PROVE  LayoutInv' /\ DocumentInv'
<1>1. /\ UNCHANGED << docs, docId, deletion, deleted, state, nsegs, freedSegs,
                      freedDocs, issued, queue, segments, segment_active, pc,
                      task, merge_stage >>
      /\ UNCHANGED << mpc, mseg1, mseg2, newseg, old, snapshot >>
      /\ mpc = "copy"
  BY DEF CopyDocument, Unmerge
<1>2. /\ merge_stage = 1 /\ mseg1 # mseg2
      /\ mseg1 \in Seg /\ mseg2 \in Seg /\ newseg \in Seg
      /\ mseg1 \in Sources /\ mseg2 \in Sources
      /\ old \in {mseg1, mseg2}
  BY <1>1, CopyingFacts
<1>3. /\ UNCHANGED << Sources, Listed, Added, InUse >>
      /\ \A s : DocsIn(s)' = DocsIn(s)
  BY <1>1 DEF Sources, Listed, Added, InUse, DocsIn
<1>4. /\ ~Copied /\ ~Copied'
      /\ (CopyStarted <=> old = mseg2) /\ (CopyStarted' <=> old = mseg2)
  BY <1>1, <1>2 DEF Copied, CopyStarted
<1>5. Moved' = Moved \cup {d}
  BY <1>1, <1>3 DEF Moved
<1>6. d \in DocsIn(old) /\ d \in Added
  BY <1>1, <1>2 DEF DocumentInv, CopiedFromSecond, Numbered
<1>7. ASSUME NEW s \in InUse \ Sources PROVE d \notin DocsIn(s)
  <2>1. s # old /\ old \in InUse
    BY <1>2 DEF InUse
  <2>2. CASE s = newseg /\ old = mseg2
    BY <1>1, <2>2 DEF DocumentInv, CopiedFromSecond, Moved
  <2>3. CASE ~(s = newseg /\ old = mseg2)
    <3>1. ~(CopyStarted /\ {s, old} = {newseg, mseg2})
      BY <1>2, <1>4, <1>7, <2>3
    <3> QED
      BY <1>6, <2>1, <3>1 DEF DocumentInv, Disjoint
  <2> QED
    BY <2>2, <2>3
<1>8. LayoutInv'
  BY <1>1, <1>4, CopyLayout
<1>9. Numbered' /\ Disjoint'
  BY <1>1, <1>3, <1>4, NumberedFrame, DisjointFrame DEF DocumentInv, Renumbered
<1>10. FreshDocuments' /\ Counted' /\ Sized'
  <2>1. Renumbered' = Renumbered
    BY <1>1, <1>4 DEF Renumbered
  <2> QED
    BY <1>1, <2>1, ThreadFrame
<1>11. CopiedFromSecond'
  <2>1. pending' \subseteq DocsIn(old)
    BY <1>1 DEF DocumentInv, CopiedFromSecond
  <2>2. old = mseg2 => pending' \cap Moved' = {}
    BY <1>1, <1>5 DEF DocumentInv, CopiedFromSecond
  <2>3. ~CopyStarted => doomed' \cap DocsIn(mseg2) = {}
    <3>1. ~CopyStarted => old = mseg1
      BY <1>2, <1>4
    <3>2. ~CopyStarted => DocsIn(mseg1) \cap DocsIn(mseg2) = {}
      BY <1>2 DEF DocumentInv, Disjoint, InUse
    <3> QED
      BY <1>1, <1>6, <3>1, <3>2 DEF DocumentInv, CopiedFromSecond
  <2> QED
    BY <1>1, <1>3, <1>4, <2>1, <2>2, <2>3 DEF DocumentInv, CopiedFromSecond
<1>12. CopyComplete'
  BY <1>1, <1>3, <1>4, <1>5 DEF DocumentInv, CopyComplete
<1>13. DoomedNowhere'
  <2>1. \A s \in InUse \ Sources : doomed' \cap DocsIn(s) = {}
    BY <1>7 DEF DocumentInv, DoomedNowhere
  <2>2. doomed' \subseteq Added
    BY <1>6 DEF DocumentInv, DoomedNowhere
  <2> QED
    BY <1>1, <1>2, <1>3, <2>1, <2>2 DEF DocumentInv, DoomedNowhere
<1>14. NoneLost'
  BY <1>1, <1>3 DEF DocumentInv, NoneLost
<1> QED
  BY <1>8, <1>9, <1>10, <1>11, <1>12, <1>13, <1>14 DEF DocumentInv

\* A document of mseg2 comes to the new segment, which gets no more documents
\* than mseg2 has, so that its new id is one mseg2 knows.
LEMMA CopyKeepsDocs ==
  ASSUME Inv, LayoutInv, DocumentInv, CopyDocument, old = mseg2,
         NEW d \in pending, pending' = pending \ {d}, AddDocument(newseg, d),
         UNCHANGED doomed
  PROVE  LayoutInv' /\ DocumentInv'
<1>1. /\ UNCHANGED << deletion, deleted, state, nsegs, freedSegs, freedDocs,
                      issued, queue, segments, segment_active, pc, task,
                      merge_stage >>
      /\ UNCHANGED << mpc, mseg1, mseg2, newseg, doomed, old, snapshot >>
      /\ mpc = "copy"
  BY DEF CopyDocument, Unmerge
<1>2. /\ merge_stage = 1 /\ mseg1 # mseg2
      /\ mseg1 \in Seg /\ mseg2 \in Seg /\ newseg \in Seg
      /\ mseg1 \in Sources /\ mseg2 \in Sources
  BY <1>1, CopyingFacts
<1>3. /\ docs \in [Seg -> Seq(Doc)] /\ InUse \subseteq Seg /\ NoSeg \notin Seg
      /\ segments \in Seq(Seg)
  BY InUseSegments
<1>4. docId \in [Doc -> Nat] /\ pending \subseteq Doc
  BY DEF Inv, TypeOK, SegTypeOK, MergerTypeOK
<1>5. d \in Doc
  BY <1>4
<1>6. /\ UNCHANGED << Sources, Listed, InUse >>
      /\ newseg \in InUse /\ mseg2 \in InUse
  BY <1>1, <1>2, <1>3 DEF Sources, Listed, InUse
<1>7. /\ ~Copied /\ ~Copied' /\ CopyStarted /\ CopyStarted'
      /\ Renumbered' = Renumbered /\ Renumbered = {mseg2}
  BY <1>1, <1>2 DEF Copied, CopyStarted, Renumbered
<1>8. newseg \notin Sources /\ newseg # segment_active /\ ~Lists(newseg)
  BY <1>1 DEF LayoutInv, NewSegmentRole, NewPrivate, Inv, NewSegmentPrivate
<1>9. newseg # mseg1 /\ newseg # mseg2
  BY <1>2, <1>8
<1>10. /\ d \in DocsIn(mseg2) /\ d \notin DocsIn(newseg) /\ d \notin doomed
       /\ DocsIn(newseg) \subseteq DocsIn(mseg2)
  BY <1>1, <1>2, <1>3, <1>7 DEF DocumentInv, CopiedFromSecond, Moved
<1>11. /\ Len(docs[newseg]) \in Nat
       /\ Len(docs'[newseg]) = Len(docs[newseg]) + 1
       /\ \A i \in 1..Len(docs[newseg]) : docs'[newseg][i] = docs[newseg][i]
       /\ docs'[newseg][Len(docs[newseg]) + 1] = d
       /\ \A u \in Seg : u # newseg => docs'[u] = docs[u]
       /\ docId'[d] = Len(docs[newseg]) + 1
       /\ \A e \in Doc : e # d => docId'[e] = docId[e]
       /\ Range(docs'[newseg]) = DocsIn(newseg) \cup {d}
       /\ Added' = Added \cup {d}
  BY <1>2, <1>3, <1>4, <1>5, AddFacts
<1>12. \A u \in Seg : Injective(u) /\ DocsIn(u) \subseteq Added
  BY DEF DocumentInv, Numbered
<1>13. Added' = Added
  BY <1>2, <1>10, <1>11, <1>12
<1>14. \A u \in Seg : u # newseg => Range(docs'[u]) = DocsIn(u)
  BY <1>11 DEF DocsIn
<1>15. ASSUME NEW s \in InUse \ {newseg, mseg2} PROVE d \notin DocsIn(s)
  <2>1. {s, mseg2} # {newseg, mseg2}
    OBVIOUS
  <2> QED
    BY <1>6, <1>10, <2>1 DEF DocumentInv, Disjoint
<1>16. \A u \in Seg : Injective(u)' /\ DocsIn(u)' \subseteq Added'
  BY <1>2, <1>3, <1>4, <1>5, <1>10, <1>12, AddInjective
<1>17. Len(docs'[newseg]) <= Len(docs[mseg2])
  <2>1. docs' \in [Seg -> Seq(Doc)]
    BY <1>2, <1>3, <1>4, <1>5, AddDocumentType
  <2>2. docs'[newseg] \in Seq(Doc) /\ docs[mseg2] \in Seq(Doc)
    BY <1>2, <1>3, <2>1
  <2>3. /\ \A i, j \in 1..Len(docs'[newseg]) :
             docs'[newseg][i] = docs'[newseg][j] => i = j
        /\ \A i, j \in 1..Len(docs[mseg2]) :
             docs[mseg2][i] = docs[mseg2][j] => i = j
    <3>1. \A u \in Seg : \A i, j \in 1..Len(docs'[u]) :
            docs'[u][i] = docs'[u][j] => i = j
      BY <1>16 DEF Injective
    <3> QED
      BY <1>2, <1>12, <3>1 DEF Injective
  <2>4. Range(docs'[newseg]) \subseteq Range(docs[mseg2])
    BY <1>10, <1>11 DEF DocsIn
  <2> QED
    BY <2>2, <2>3, <2>4, DistinctWithin
<1>18. LayoutInv'
  BY <1>1, <1>7, <1>11, CopyLayout
<1>19. FreshDocuments'
  <2>1. \A e \in Doc : docId[e] = 0 => docId'[e] = 0
    <3>1. docId[d] # 0
      BY <1>2, <1>10, <1>12 DEF Added
    <3> QED
      BY <1>11, <3>1
  <2>2. \A i \in 1..Len(queue) : queue[i].kind = "add" => queue[i].doc \in Doc
    <3>1. queue \in Seq(Task)
      BY DEF Inv, TypeOK, EngineTypeOK
    <3> QED
      BY <3>1, TaskDoc
  <2>3. task.kind = "add" => task.doc \in Doc
    BY TaskDoc DEF Inv, TypeOK, EngineTypeOK, NoTask
  <2> QED
    BY <1>1, <2>1, <2>2, <2>3 DEF DocumentInv, FreshDocuments
<1>20. Numbered'
  <2>1. ASSUME NEW s \in InUse \ Renumbered, NEW i \in 1..Len(docs'[s])
        PROVE  docId'[docs'[s][i]] = i
    <3>1. s \in Seg /\ s # mseg2
      BY <1>3, <1>7
    <3>2. \A j \in 1..Len(docs[s]) : docs[s][j] \in Doc /\ docs[s][j] # d
      <4>1. d \notin DocsIn(s)
        BY <1>10, <1>15, <3>1
      <4>2. \A j \in 1..Len(docs[s]) : docs[s][j] \in DocsIn(s)
        BY <1>3, <3>1, DocsInPlaces
      <4>3. DocsIn(s) \subseteq Doc
        BY <1>3, <3>1, DocsInPlaces
      <4> QED
        BY <4>1, <4>2, <4>3
    <3>3. \A j \in 1..Len(docs[s]) : docId'[docs[s][j]] = j
      BY <1>11, <3>2 DEF DocumentInv, Numbered
    <3>4. CASE s = newseg /\ i = Len(docs[newseg]) + 1
      BY <1>11, <3>4
    <3>5. CASE s # newseg
      BY <1>11, <3>1, <3>3, <3>5
    <3>6. CASE s = newseg /\ i # Len(docs[newseg]) + 1
      <4>1. i \in 1..Len(docs[newseg])
        BY <1>11, <3>6
      <4> QED
        BY <1>11, <3>3, <3>6, <4>1
    <3> QED
      BY <3>4, <3>5, <3>6
  <2> QED
    BY <1>6, <1>7, <1>16, <2>1 DEF Numbered
<1>21. Disjoint'
  <2>1. ASSUME NEW s \in InUse, NEW t \in InUse, s # t,
               {s, t} # {newseg, mseg2}
        PROVE  Range(docs'[s]) \cap Range(docs'[t]) = {}
    <3>1. s \in Seg /\ t \in Seg
      BY <1>3
    <3>2. DocsIn(s) \cap DocsIn(t) = {}
      BY <2>1 DEF DocumentInv, Disjoint
    <3>3. \A u \in {s, t} :
            \/ u # newseg /\ Range(docs'[u]) = DocsIn(u)
            \/ u = newseg /\ Range(docs'[u]) = DocsIn(u) \cup {d}
      BY <1>11, <1>14, <3>1
    <3>4. s = newseg => d \notin DocsIn(t)
      BY <1>15, <2>1
    <3>5. t = newseg => d \notin DocsIn(s)
      BY <1>15, <2>1
    <3> QED
      BY <2>1, <3>2, <3>3, <3>4, <3>5
  <2> QED
    BY <1>1, <1>6, <1>7, <2>1 DEF Disjoint, DocsIn
<1>22. Counted'
  BY <1>1, <1>2, <1>3, <1>4, <1>5, <1>7, AddCounted DEF DocumentInv
<1>23. Sized'
  <2>1. Len(docs'[newseg]) <= SEGMENT_MAX_DOC
    <3>1. Len(docs[mseg2]) <= SEGMENT_MAX_DOC /\ Len(docs[mseg2]) \in Nat
      BY <1>2, <1>3 DEF DocumentInv, Sized
    <3> QED
      BY <1>11, <1>17, <3>1, SegmentMaxAssumption
  <2>2. segment_active \in Seg
    BY DEF Inv, TypeOK, EngineTypeOK
  <2> QED
    BY <1>1, <1>8, <1>11, <2>1, <2>2 DEF DocumentInv, Sized
<1>24. Moved' = Moved \cup {d}
  BY <1>1, <1>11 DEF Moved, DocsIn
<1>25. CopiedFromSecond'
  <2>1. /\ docs'[mseg1] = docs[mseg1] /\ docs'[mseg2] = docs[mseg2]
        /\ Range(docs'[mseg2]) = DocsIn(mseg2)
    BY <1>2, <1>9, <1>11, <1>14
  <2>2. Range(docs'[newseg]) \subseteq DocsIn(mseg2)
    BY <1>10, <1>11
  <2>3. \A e \in DocsIn(mseg2) : docId'[e] <= Len(docs[mseg2])
    <3>1. DocsIn(mseg2) \subseteq Doc
      BY <1>2, <1>3, DocsInPlaces
    <3>2. \A e \in DocsIn(mseg2) : docId[e] <= Len(docs[mseg2])
      BY <1>2, <1>3, <1>7 DEF DocumentInv, CopiedFromSecond
    <3> QED
      BY <1>11, <1>17, <3>1, <3>2
  <2>4. pending' \subseteq DocsIn(mseg2) /\ pending' \cap Moved' = {}
    BY <1>1, <1>24 DEF DocumentInv, CopiedFromSecond
  <2> QED
    BY <1>1, <1>2, <1>3, <1>7, <2>1, <2>2, <2>3, <2>4
       DEF DocumentInv, CopiedFromSecond, DocsIn
<1>26. \A u : u \in {mseg1, mseg2} => Range(docs'[u]) = DocsIn(u)
  BY <1>2, <1>9, <1>14
<1>27. CopyComplete'
  <2>1. DocsIn(mseg2) \subseteq pending' \cup Moved'
    BY <1>1, <1>24 DEF DocumentInv, CopyComplete
  <2>2. DocsIn(mseg1) \subseteq Moved'
    BY <1>1, <1>24 DEF DocumentInv, CopyComplete
  <2> QED
    BY <1>1, <1>7, <1>26, <2>1, <2>2 DEF CopyComplete, DocsIn
<1>28. DoomedNowhere'
  <2>1. ASSUME NEW s \in InUse
        PROVE  /\ freedDocs \cap Range(docs'[s]) = {}
               /\ s \notin Sources => doomed \cap Range(docs'[s]) = {}
    <3>1. d \notin freedDocs
      BY <1>6, <1>10 DEF DocumentInv, DoomedNowhere
    <3>2. s \in Seg
      BY <1>3
    <3>3. Range(docs'[s]) \subseteq DocsIn(s) \cup {d}
      BY <1>11, <1>14, <3>2
    <3>4. s # newseg => Range(docs'[s]) = DocsIn(s)
      BY <1>14, <3>2
    <3> QED
      BY <1>10, <3>1, <3>3, <3>4 DEF DocumentInv, DoomedNowhere
  <2>2. doomed \cup freedDocs \subseteq Added
    BY DEF DocumentInv, DoomedNowhere
  <2> QED
    BY <1>1, <1>2, <1>6, <1>13, <2>1, <2>2 DEF DoomedNowhere, DocsIn
<1>29. NoneLost'
  <2>1. \A u \in Seg : DocsIn(u) \subseteq Range(docs'[u])
    BY <1>11, <1>14
  <2>2. Listed \cup ({newseg} \ {NoSeg}) \subseteq Seg
    BY <1>3 DEF InUse
  <2>3. ASSUME NEW e \in Added, e \notin freedDocs \cup doomed
        PROVE  \E s \in Listed \cup ({newseg} \ {NoSeg}) : e \in Range(docs'[s])
    <3>1. PICK s \in Listed \cup ({newseg} \ {NoSeg}) : e \in DocsIn(s)
      BY <2>3 DEF DocumentInv, NoneLost
    <3> QED
      BY <2>1, <2>2, <3>1
  <2> QED
    BY <1>1, <1>6, <1>13, <2>3 DEF NoneLost, DocsIn
<1> QED
  BY <1>18, <1>19, <1>20, <1>21, <1>22, <1>23, <1>25, <1>27, <1>28, <1>29
     DEF DocumentInv

LEMMA CopyDocumentKeepsDocs ==
  ASSUME Inv, LayoutInv, DocumentInv, CopyDocument
  PROVE  LayoutInv' /\ DocumentInv'
<1>1. PICK d \in pending :
        /\ pending' = pending \ {d}
        /\ IF Doomed(d)
           THEN doomed' = doomed \cup {d} /\ UNCHANGED << docId, docs >>
           ELSE AddDocument(newseg, d) /\ UNCHANGED doomed
  BY DEF CopyDocument
<1>2. mpc = "copy" /\ merge_stage = 1
  BY CopyingFacts DEF CopyDocument
<1>3. CASE Doomed(d)
  BY <1>1, <1>3, DoomKeepsDocs
<1>4. CASE ~Doomed(d)
  <2>1. mseg1 # mseg2 /\ mseg1 \in InUse /\ old \in {mseg1, mseg2}
    BY <1>2, CopyingFacts DEF InUse
  <2>2. ASSUME old = mseg1 PROVE FALSE
    <3>1. d \in DocsIn(mseg1)
      BY <1>2, <2>2 DEF DocumentInv, CopiedFromSecond
    <3>2. docId[d] \in 1..Len(docs[mseg1])
      BY <2>1, <3>1, IdsInRange
    <3> QED
      BY <1>2, <1>4, <2>2, <3>2 DEF DocumentInv, CopiedFromSecond, Doomed
  <2>3. old = mseg2
    BY <2>1, <2>2
  <2> QED
    BY <1>1, <1>4, <2>3, CopyKeepsDocs
<1> QED
  BY <1>3, <1>4


\* A step of the merge thread that leaves the segments, the merge's segments
\* and the documents alone, and does not end a phase of the merge.
LEMMA PlaceFrame ==
  ASSUME Inv, LayoutInv, DocumentInv,
         UNCHANGED << docs, docId, deletion, deleted, state, nsegs, freedSegs,
                      freedDocs, issued, segments, segment_active, pc, task >>,
         UNCHANGED << mseg1, mseg2, newseg, doomed, old, snapshot, pending >>,
         mpc \notin {"clone", "copy"}, mpc' \notin {"clone", "copy"},
         Copied, Copied', NewPrivate' <=> NewPrivate,
         FreshDocuments',
         merge_stage' = merge_stage \/ (merge_stage \in {1, 3} /\ merge_stage' = 2)
           \/ (merge_stage \in {4, 6} /\ merge_stage' = 5)
  PROVE  LayoutInv' /\ DocumentInv'
<1>1. /\ UNCHANGED << Sources, Listed, Added, InUse, Moved, Renumbered >>
      /\ \A s : DocsIn(s)' = DocsIn(s)
      /\ \A s : Lists(s)' <=> Lists(s)
      /\ CopyStarted /\ CopyStarted'
  BY DEF Sources, Listed, Added, InUse, Moved, DocsIn, Lists, Renumbered,
         CopyStarted
<1>2. Numbered' /\ Disjoint'
  BY <1>1, NumberedFrame, DisjointFrame DEF DocumentInv
<1>3. Counted' /\ Sized'
  BY <1>1, CountedFrame, SizedFrame DEF DocumentInv
<1>4. CopiedFromSecond'
  BY <1>1 DEF DocumentInv, CopiedFromSecond
<1>5. CopyComplete'
  BY <1>1 DEF DocumentInv, CopyComplete
<1>6. DoomedNowhere'
  <2>1. merge_stage' = 0 \/ (merge_stage' = 1 /\ mpc' = "loop") => doomed = {}
    BY DEF Copied, DocumentInv, DoomedNowhere
  <2> QED
    BY <1>1, <2>1 DEF DocumentInv, DoomedNowhere
<1>7. NoneLost'
  BY <1>1 DEF DocumentInv, NoneLost
<1>8. Allocated'
  BY DEF LayoutInv, Allocated
<1>9. ListStates'
  BY <1>1 DEF LayoutInv, ListStates
<1>10. SourcesLeave'
  BY <1>1 DEF LayoutInv, SourcesLeave
<1>11. NewSegmentRole'
  BY <1>1 DEF LayoutInv, NewSegmentRole
<1> QED
  BY <1>2, <1>3, <1>4, <1>5, <1>6, <1>7, <1>8, <1>9, <1>10, <1>11
     DEF LayoutInv, DocumentInv

LEMMA PostKeepsDocs ==
  ASSUME Inv, LayoutInv, DocumentInv, PostReplace \/ PostRedelete
  PROVE  LayoutInv' /\ DocumentInv'
<1>1. PICK t \in MergerTask : Q!Enqueue(t, TRUE) /\
        \/ PostReplace /\ t = ReplaceTask
        \/ PostRedelete /\ t = RedeleteTask
  BY DEF PostReplace, PostRedelete, Post, MergerTask
<1>2. /\ UNCHANGED << docs, docId, deletion, deleted, state, nsegs, freedSegs,
                      freedDocs, issued, segments, segment_active, pc, task,
                      merge_stage >>
      /\ UNCHANGED << mseg1, mseg2, newseg, doomed, old, snapshot, pending >>
      /\ \/ mpc = "post" /\ mpc' = "posted" /\ t = ReplaceTask
         \/ mpc = "loop" /\ merge_stage = 4 /\ mpc' = "reposted"
              /\ t = RedeleteTask
  BY <1>1 DEF PostReplace, PostRedelete, Post, Unmerge, segVars
<1>3. t \in Task /\ queue \in Seq(Task) /\ t.kind # "add"
      /\ ReplaceTask # RedeleteTask
  BY DEF Inv, TypeOK, EngineTypeOK, Task, MergerTask, ReplaceTask, RedeleteTask
<1>4. /\ Len(queue) \in Nat /\ Len(queue') = Len(queue) + 1
      /\ \A i \in 1..Len(queue) : queue'[i] = queue[i]
      /\ queue'[Len(queue) + 1] = t
  BY <1>1, <1>3, EnqueueFacts
<1>5. \A i \in 1..Len(queue') : i \in 1..Len(queue) \/ i = Len(queue) + 1
  BY <1>4
<1>6. Copied /\ Copied'
  <2>1. merge_stage = 4 => merge_stage >= 2
    OBVIOUS
  <2> QED
    BY <1>2, <2>1 DEF Copied
<1>7. FreshDocuments'
  <2>1. \A i \in 1..Len(queue') : queue'[i].kind = "add"
          => i \in 1..Len(queue) /\ queue'[i] = queue[i]
    BY <1>3, <1>4, <1>5
  <2> QED
    BY <1>2, <2>1 DEF DocumentInv, FreshDocuments
<1>8. NewPrivate' <=> NewPrivate
  <2>1. CASE t = ReplaceTask
    <3>1. Len(queue) + 1 \in 1..Len(queue')
      BY <1>4
    <3>2. NewPrivate /\ NewPrivate'
      BY <1>2, <1>3, <1>4, <2>1, <3>1 DEF NewPrivate
    <3> QED
      BY <3>2
  <2>2. CASE t = RedeleteTask
    <3>1. (\E i \in 1..Len(queue) : queue[i] = ReplaceTask)
            <=> \E i \in 1..Len(queue') : queue'[i] = ReplaceTask
      BY <1>3, <1>4, <1>5, <2>2
    <3> QED
      BY <1>2, <1>3, <2>2, <3>1 DEF NewPrivate, ReplaceRuns
  <2> QED
    BY <2>1, <2>2 DEF MergerTask
<1> QED
  BY <1>2, <1>6, <1>7, <1>8, PlaceFrame

LEMMA WriteStageKeepsDocs ==
  ASSUME Inv, LayoutInv, DocumentInv, WriteStage2 \/ WriteStage5
  PROVE  LayoutInv' /\ DocumentInv'
<1>1. /\ UNCHANGED << docs, docId, deletion, deleted, state, nsegs, freedSegs,
                      freedDocs, issued, segments, segment_active, pc, task,
                      queue >>
      /\ UNCHANGED << mseg1, mseg2, newseg, doomed, old, snapshot, pending >>
      /\ mpc' = "loop"
      /\ \/ mpc = "posted" /\ merge_stage' = 2
         \/ mpc = "reposted" /\ merge_stage' = 5
  BY DEF WriteStage2, WriteStage5, WriteStage, Unmerge, segVars
<1>2. \/ mpc = "posted" /\ merge_stage \in {1, 3}
      \/ mpc = "reposted" /\ merge_stage \in {4, 6}
  BY <1>1 DEF Inv, StagePlace
<1>3. Copied /\ Copied'
  <2>1. /\ merge_stage \in {4, 6} => merge_stage >= 2
        /\ merge_stage' \in {2, 5} => merge_stage' >= 2
    OBVIOUS
  <2> QED
    BY <1>1, <1>2, <2>1 DEF Copied
<1>4. NewPrivate' <=> NewPrivate
  BY <1>1 DEF NewPrivate, ReplaceRuns
<1>5. FreshDocuments'
  BY <1>1, FreshFrame DEF DocumentInv
<1> QED
  BY <1>1, <1>2, <1>3, <1>4, <1>5, PlaceFrame

\* One source is freed or not: it is out of the list and its documents have
\* been moved.
LEMMA FreeSourceKeepsDocs ==
  ASSUME Inv, LayoutInv, DocumentInv, merge_stage = 3,
         UNCHANGED << docs, docId, deletion, deleted, state, nsegs, freedDocs,
                      issued, queue, segments, segment_active, pc, task,
                      merge_stage >>,
         UNCHANGED << newseg, doomed, old, snapshot, pending >>,
         mpc \notin {"clone", "copy", "post"},
         mpc' \notin {"clone", "copy", "post"},
         \/ UNCHANGED << freedSegs, mseg1, mseg2 >>
         \/ /\ mseg1 # NoSeg /\ mseg1' = NoSeg /\ mseg2' = mseg2
            /\ freedSegs' = freedSegs \cup {mseg1}
         \/ /\ mseg2 # NoSeg /\ mseg2' = NoSeg /\ mseg1' = mseg1
            /\ freedSegs' = freedSegs \cup {mseg2}
  PROVE  LayoutInv' /\ DocumentInv'
<1>1. /\ segments \in Seq(Seg) /\ docs \in [Seg -> Seq(Doc)]
      /\ InUse \subseteq Seg /\ NoSeg \notin InUse /\ NoSeg \notin Seg
  BY InUseSegments
<1>2. ~NewPrivate /\ ~NewPrivate'
  <2>1. ~NewPrivate
    BY PrivateInPhase DEF ReplacePhase
  <2> QED
    BY <2>1 DEF NewPrivate, ReplaceRuns
<1>3. /\ UNCHANGED << Listed, Added, Moved >>
      /\ \A s : DocsIn(s)' = DocsIn(s)
      /\ \A s : Lists(s)' <=> Lists(s)
  BY DEF Listed, Added, Moved, DocsIn, Lists
<1>4. Copied /\ Copied' /\ CopyStarted /\ CopyStarted'
  <2>1. merge_stage >= 2
    OBVIOUS
  <2> QED
    BY <2>1 DEF Copied, CopyStarted
<1>5. ~Lists(mseg1) /\ ~Lists(mseg2) /\ (mseg1 = mseg2 => mseg1 = NoSeg)
  BY DEF LayoutInv, SourcesLeave
<1>6. newseg \in Sources => docs[newseg] = << >>
  BY <1>1, <1>2, <1>5 DEF LayoutInv, NewSegmentRole, Sources
<1>7. /\ Sources' \subseteq Sources /\ InUse' \subseteq InUse
      /\ \A s \in InUse' \ Sources' : s \in InUse \ Sources \/ docs[s] = << >>
      /\ freedSegs' \cap Sources' = {}
      /\ \A s \in freedSegs' : s \in freedSegs \/ s \in {mseg1, mseg2} \ {NoSeg}
  <2>1. Sources' \subseteq Sources
    BY DEF Sources
  <2>2. InUse' \subseteq InUse
    BY <1>3, <2>1 DEF InUse
  <2>3. \A s \in InUse' \ Sources' : s \in InUse \ Sources \/ docs[s] = << >>
    <3>1. ASSUME NEW s \in InUse', s \notin Sources', s \in Sources
          PROVE  s = newseg
      <4>1. s \notin Listed
        BY <1>1, <1>5, <3>1, ListedLists DEF Sources
      <4> QED
        BY <1>3, <3>1, <4>1 DEF InUse
    <3> QED
      BY <1>6, <2>2, <3>1
  <2>4. freedSegs' \cap Sources' = {}
    <3>1. freedSegs \cap Sources = {}
      BY DEF LayoutInv, NewSegmentRole
    <3> QED
      BY <1>5, <2>1, <3>1 DEF Sources
  <2> QED
    BY <2>1, <2>2, <2>3, <2>4
<1>8. Numbered' /\ Disjoint'
  <2>1. \A s \in InUse' \ Renumbered' : s \in InUse \ Renumbered \/ docs[s] = << >>
    <3>1. ASSUME NEW s \in InUse', s \notin Renumbered', s \in Renumbered
          PROVE  docs[s] = << >>
      <4>1. s = mseg2 /\ s # NoSeg /\ mseg2' = NoSeg
        BY <1>1, <1>4, <1>7, <3>1 DEF Renumbered
      <4>2. s \in Sources /\ s \notin Sources'
        BY <1>5, <4>1 DEF Sources
      <4> QED
        BY <1>7, <3>1, <4>2
    <3> QED
      BY <1>7, <3>1
  <2>2. \/ CopyStarted' /\ UNCHANGED << newseg, mseg2 >>
        \/ ~({newseg, mseg2} \subseteq InUse')
        \/ newseg = mseg2
    <3>1. ASSUME mseg2' # mseg2, mseg2 \in InUse' PROVE newseg = mseg2
      <4>1. mseg2 # NoSeg /\ mseg2 \notin Sources'
        BY <1>5, <3>1 DEF Sources
      <4>2. mseg2 \notin Listed
        BY <1>1, <1>5, ListedLists
      <4> QED
        BY <1>3, <3>1, <4>1, <4>2 DEF InUse
    <3> QED
      BY <1>4, <3>1
  <2> QED
    BY <1>7, <2>1, <2>2, NumberedFrame, DisjointFrame DEF DocumentInv
<1>9. FreshDocuments' /\ Counted' /\ Sized'
  <2>1. Renumbered \cup freedSegs \subseteq Renumbered' \cup freedSegs'
    BY <1>4 DEF Renumbered
  <2> QED
    BY <2>1, ThreadFrame
<1>10. CopiedFromSecond'
  BY <1>3, <1>4 DEF DocumentInv, CopiedFromSecond
<1>11. CopyComplete'
  BY <1>3, <1>4, <1>7 DEF DocumentInv, CopyComplete
<1>12. DoomedNowhere'
  <2>1. \A s \in InUse' \ Sources' : doomed \cap DocsIn(s) = {}
    BY <1>7, RangeEmpty DEF DocumentInv, DoomedNowhere, DocsIn
  <2> QED
    BY <1>3, <1>7, <2>1 DEF DocumentInv, DoomedNowhere
<1>13. NoneLost'
  BY <1>3 DEF DocumentInv, NoneLost
<1>14. Allocated'
  <2>1. \A s \in {mseg1, mseg2} \ {NoSeg} : s \in 1..nsegs
    BY DEF LayoutInv, Allocated, NoSeg, Inv, TypeOK, SegTypeOK, Seg
  <2>2. freedSegs' \subseteq 1..nsegs
    BY <1>7, <2>1 DEF LayoutInv, Allocated
  <2>3. {mseg1', mseg2'} \subseteq {mseg1, mseg2, 0}
    BY DEF NoSeg
  <2>4. 0 \in 0..nsegs
    BY DEF Inv, TypeOK, SegTypeOK, Seg
  <2> QED
    BY <2>2, <2>3, <2>4 DEF LayoutInv, Allocated
<1>15. ListStates'
  BY <1>3 DEF LayoutInv, ListStates
<1>16. SourcesLeave'
  <2>1. ~Lists(NoSeg)
    BY <1>1, ListedLists
  <2>2. \A u : u \in {mseg1', mseg2'} => ~Lists(u)'
    BY <1>3, <1>5, <2>1
  <2>3. ~Lists(mseg1)' /\ ~Lists(mseg2)'
    BY <2>2 DEF Lists
  <2>4. mseg1' = mseg2' => mseg1' = NoSeg
    BY <1>5
  <2> QED
    BY <2>3, <2>4 DEF LayoutInv, SourcesLeave
<1>17. NewSegmentRole'
  <2>1. \A s \in freedSegs' : ~Lists(s)'
    BY <1>3, <1>5, <1>7 DEF LayoutInv, NewSegmentRole
  <2> QED
    BY <1>2, <1>3, <1>7, <2>1 DEF LayoutInv, NewSegmentRole
<1> QED
  BY <1>8, <1>9, <1>10, <1>11, <1>12, <1>13, <1>14, <1>15, <1>16, <1>17
     DEF LayoutInv, DocumentInv

LEMMA ReleaseSourceKeepsDocs ==
  ASSUME Inv, LayoutInv, DocumentInv, Release1 \/ Release2
  PROVE  LayoutInv' /\ DocumentInv'
<1>1. merge_stage = 3
  BY DEF Release1, Release2, Inv, StagePlace
<1>2. CASE Release1
  BY <1>1, <1>2, FreeSourceKeepsDocs DEF Release1, FreeSegments, Unmerge
<1>3. CASE Release2
  BY <1>1, <1>3, FreeSourceKeepsDocs DEF Release2, FreeSegments, Unmerge
<1> QED
  BY <1>2, <1>3

\* The documents deleted before the merge are in no segment any more.
LEMMA Release3KeepsDocs ==
  ASSUME Inv, LayoutInv, DocumentInv, Release3
  PROVE  LayoutInv' /\ DocumentInv'
<1>1. /\ UNCHANGED << docs, docId, deletion, deleted, state, nsegs, issued,
                      queue, segments, segment_active, pc, task >>
      /\ UNCHANGED << mseg1, mseg2, newseg, doomed, old, snapshot, pending >>
      /\ mpc = "release3" /\ mpc' = "loop" /\ merge_stage = 3
  BY DEF Release3, Unmerge, Inv, StagePlace
<1>2. CASE UNCHANGED << freedDocs, freedSegs, merge_stage >>
  BY <1>1, <1>2, FreeSourceKeepsDocs
<1>3. CASE mseg1 = NoSeg /\ mseg2 = NoSeg
  <2>1. /\ freedDocs' = freedDocs \cup doomed
        /\ \/ Joins /\ merge_stage' = 4 /\ freedSegs' = freedSegs
           \/ ~Joins /\ merge_stage' = 6 /\ freedSegs' = freedSegs \cup {newseg}
    BY <1>3 DEF Release3, FreeSegments
  <2>2. /\ segments \in Seq(Seg) /\ docs \in [Seg -> Seq(Doc)]
        /\ NoSeg \notin InUse /\ NoSeg \notin Seg
    BY InUseSegments
  <2>3. Sources = {} /\ Sources' = {}
    BY <1>1, <1>3 DEF Sources
  <2>4. /\ UNCHANGED << Listed, Added, Moved, InUse >>
        /\ \A s : DocsIn(s)' = DocsIn(s)
        /\ \A s : Lists(s)' <=> Lists(s)
    BY <1>1, <2>3 DEF Listed, Added, Moved, DocsIn, Lists, InUse
  <2>5. Copied /\ Copied' /\ CopyStarted /\ CopyStarted'
    <3>1. merge_stage >= 2 /\ merge_stage' >= 2
      BY <1>1, <2>1
    <3> QED
      BY <3>1 DEF Copied, CopyStarted
  <2>6. ~NewPrivate /\ ~NewPrivate'
    <3>1. ~NewPrivate
      BY <1>1, PrivateInPhase DEF ReplacePhase
    <3> QED
      BY <1>1, <3>1 DEF NewPrivate, ReplaceRuns
  <2>7. newseg \in Seg /\ newseg \in 1..nsegs
    <3>1. newseg \in Seg
      BY <1>1 DEF Inv, StagePlace
    <3> QED
      BY <3>1 DEF LayoutInv, Allocated, Seg
  <2>8. ~Joins => ~Lists(newseg)
    BY <2>7 DEF LayoutInv, ListStates, Joins
  <2>9. Numbered' /\ Disjoint'
    BY <1>1, <2>4, <2>5, NumberedFrame, DisjointFrame DEF DocumentInv, Renumbered
  <2>10. FreshDocuments' /\ Counted' /\ Sized'
    <3>1. Renumbered \cup freedSegs \subseteq Renumbered' \cup freedSegs'
      BY <1>1, <2>1, <2>5 DEF Renumbered
    <3> QED
      BY <1>1, <3>1, ThreadFrame
  <2>11. CopiedFromSecond'
    BY <1>1, <1>3 DEF CopiedFromSecond
  <2>12. CopyComplete'
    BY <1>1, <2>3 DEF CopyComplete
  <2>13. DoomedNowhere'
    <3>1. \A s \in InUse' : freedDocs' \cap DocsIn(s)' = {}
      BY <2>1, <2>3, <2>4 DEF DocumentInv, DoomedNowhere
    <3> QED
      BY <1>1, <2>1, <2>4, <3>1 DEF DocumentInv, DoomedNowhere
  <2>14. NoneLost'
    BY <1>1, <2>1, <2>4 DEF DocumentInv, NoneLost
  <2>15. Allocated'
    BY <1>1, <2>1, <2>7 DEF LayoutInv, Allocated
  <2>16. ListStates'
    BY <1>1, <2>4 DEF LayoutInv, ListStates
  <2>17. SourcesLeave'
    BY <1>1, <1>3, <2>1 DEF LayoutInv, SourcesLeave, Lists
  <2>18. NewSegmentRole'
    <3>1. \A s \in freedSegs' : ~Lists(s)
      BY <2>1, <2>8 DEF LayoutInv, NewSegmentRole
    <3> QED
      BY <1>1, <2>3, <2>4, <2>6, <3>1 DEF LayoutInv, NewSegmentRole
  <2> QED
    BY <2>9, <2>10, <2>11, <2>12, <2>13, <2>14, <2>15, <2>16, <2>17, <2>18
       DEF LayoutInv, DocumentInv
<1> QED
  BY <1>2, <1>3 DEF Release3

\* The next merge may begin.
LEMMA ResetKeepsDocs ==
  ASSUME Inv, LayoutInv, DocumentInv, Reset
  PROVE  LayoutInv' /\ DocumentInv'
<1>1. /\ UNCHANGED << docs, docId, deletion, deleted, state, nsegs, issued,
                      freedSegs, freedDocs, queue, segments, segment_active,
                      pc, task >>
      /\ UNCHANGED << mpc, mseg1, mseg2, newseg, old, snapshot, pending >>
      /\ mpc = "loop" /\ merge_stage = 6 /\ merge_stage' = 0 /\ doomed' = {}
  BY DEF Reset, Unmerge, segVars
<1>2. mseg1 = NoSeg /\ mseg2 = NoSeg /\ doomed \subseteq freedDocs
  BY <1>1 DEF LayoutInv, SourcesLeave, DocumentInv, DoomedNowhere
<1>3. Sources = {} /\ Sources' = {} /\ NoSeg \notin InUse
  BY <1>1, <1>2, InUseSegments DEF Sources
<1>4. /\ UNCHANGED << Listed, Added, InUse >>
      /\ \A s : DocsIn(s)' = DocsIn(s)
      /\ \A s : Lists(s)' <=> Lists(s)
  BY <1>1, <1>3 DEF Listed, Added, DocsIn, Lists, InUse
<1>5. ~CopyStarted' /\ ~Copied'
  BY <1>1 DEF Copied, CopyStarted
<1>6. ~NewPrivate /\ ~NewPrivate'
  <2>1. ~NewPrivate
    BY <1>1, PrivateInPhase DEF ReplacePhase
  <2> QED
    BY <1>1, <2>1 DEF NewPrivate, ReplaceRuns
<1>7. Numbered' /\ Disjoint'
  <2>1. InUse' \ Renumbered' \subseteq InUse \ Renumbered
    BY <1>2, <1>3, <1>4, <1>5 DEF Renumbered
  <2>2. ~({newseg, mseg2} \subseteq InUse')
    BY <1>2, <1>3, <1>4
  <2> QED
    BY <1>1, <1>4, <2>1, <2>2, NumberedFrame, DisjointFrame DEF DocumentInv
<1>8. FreshDocuments' /\ Counted' /\ Sized'
  <2>1. \A s \in Seg : s \notin Renumbered
    BY <1>2, InUseSegments DEF Renumbered
  <2> QED
    BY <1>1, <2>1, ThreadFrame
<1>9. CopiedFromSecond' /\ CopyComplete'
  BY <1>1, <1>2, <1>5 DEF CopiedFromSecond, CopyComplete
<1>10. DoomedNowhere'
  BY <1>1, <1>4 DEF DocumentInv, DoomedNowhere
<1>11. NoneLost'
  BY <1>1, <1>2, <1>4 DEF DocumentInv, NoneLost
<1>12. Allocated'
  BY <1>1 DEF LayoutInv, Allocated
<1>13. ListStates'
  BY <1>1, <1>4 DEF LayoutInv, ListStates
<1>14. SourcesLeave'
  BY <1>1, <1>2 DEF LayoutInv, SourcesLeave, Lists
<1>15. NewSegmentRole'
  BY <1>1, <1>3, <1>4, <1>6 DEF LayoutInv, NewSegmentRole
<1> QED
  BY <1>7, <1>8, <1>9, <1>10, <1>11, <1>12, <1>13, <1>14, <1>15
     DEF LayoutInv, DocumentInv


-----------------------------------------------------------------------------
(* The theorems.                                                           *)

\* ts_engine_new: one empty segment, and no document.
LEMMA InitEstablishesDocs == Init => LayoutInv /\ DocumentInv
<1> SUFFICES ASSUME Init PROVE LayoutInv /\ DocumentInv
  OBVIOUS
<1>1. /\ docId = [d \in Doc |-> 0] /\ docs = [s \in Seg |-> << >>]
      /\ deletion = [s \in Seg |-> {}] /\ deleted = [s \in Seg |-> 0]
      /\ state = [s \in Seg |-> ACTIVE]
      /\ nsegs = 1 /\ freedSegs = {} /\ freedDocs = {}
      /\ queue = << >> /\ segments = << 1 >> /\ segment_active = 1
      /\ issued = 0 /\ pc = "idle" /\ task = NoTask /\ merge_stage = 0
      /\ mpc = "loop" /\ mseg1 = NoSeg /\ mseg2 = NoSeg /\ newseg = NoSeg
      /\ doomed = {} /\ old = NoSeg
  BY DEF Init, SegInit, EngineInit, MergerInit
<1>2. 1 \in Seg /\ NoSeg \notin Seg /\ NoSeg # 1
  BY MaxSegAssumption DEF Seg, NoSeg
<1>3. << >> \in Seq(Doc) /\ Len(<< >>) = 0 /\ 1..0 = {}
  BY EmptySeq
<1>4. \A s \in Seg : docs[s] = << >> /\ DocsIn(s) = {}
  BY <1>1, RangeEmpty DEF DocsIn
<1>5. Added = {}
  BY <1>1 DEF Added
<1>6. \A s : Lists(s) <=> s = 1
  <2>1. Len(segments) = 1 /\ segments[1] = 1
    BY <1>1
  <2> QED
    BY <2>1 DEF Lists
<1>7. ~Copied /\ ~CopyStarted
  BY <1>1 DEF Copied, CopyStarted
<1>8. Sources = {} /\ InUse \subseteq Seg
  <2>1. Sources = {}
    BY <1>1 DEF Sources
  <2>2. segments \in Seq(Seg)
    BY <1>1, <1>2
  <2> QED
    BY <1>1, <2>1, <2>2, ListedLists DEF InUse
<1>9. Allocated
  BY <1>1, <1>4 DEF Allocated, NoSeg
<1>10. ListStates
  BY <1>1, <1>2, <1>6 DEF ListStates, ACTIVE, VALID
<1>11. SourcesLeave
  BY <1>1 DEF SourcesLeave
<1>12. NewSegmentRole
  <2>1. ~NewPrivate
    BY <1>1, <1>3 DEF NewPrivate, ReplaceRuns
  <2> QED
    BY <1>1, <2>1 DEF NewSegmentRole
<1>13. FreshDocuments
  BY <1>1, <1>3 DEF FreshDocuments, NoTask
<1>14. Numbered /\ Disjoint
  BY <1>3, <1>4, <1>8 DEF Numbered, Injective, Disjoint
<1>15. Counted
  BY <1>1, FS_EmptySet DEF Counted
<1>16. Sized
  BY <1>1, <1>3, <1>4, SegmentMaxAssumption DEF Sized
<1>17. CopiedFromSecond /\ CopyComplete
  BY <1>1, <1>7 DEF CopiedFromSecond, CopyComplete
<1>18. DoomedNowhere /\ NoneLost
  BY <1>1, <1>5 DEF DoomedNowhere, NoneLost
<1> QED
  BY <1>9, <1>10, <1>11, <1>12, <1>13, <1>14, <1>15, <1>16, <1>17, <1>18
     DEF LayoutInv, DocumentInv

LEMMA StutterKeepsDocs ==
  ASSUME Inv, LayoutInv, DocumentInv, UNCHANGED vars
  PROVE  LayoutInv' /\ DocumentInv'
<1>1. UNCHANGED << segVars, engineVars, mergerVars >>
  BY DEF vars
<1>2. NewPrivate' <=> NewPrivate
  BY <1>1 DEF NewPrivate, ReplaceRuns, engineVars, mergerVars
<1>3. FreshDocuments' /\ Sized'
  BY <1>1, FreshFrame, SizedFrame DEF DocumentInv, segVars, engineVars
<1> QED
  BY <1>1, <1>2, <1>3, LayoutFrame, InputFrame
     DEF LayoutInv, DocumentInv, segVars, engineVars

\* No step of a client, of the input processor or of the merge thread breaks
\* what is known of the documents.
LEMMA NextKeepsDocs ==
  ASSUME EngineInv, [Next]_vars
  PROVE  LayoutInv' /\ DocumentInv'
<1>i. Inv /\ LayoutInv /\ DocumentInv
  BY DEF EngineInv
<1>1. CASE UNCHANGED vars
  BY <1>i, <1>1, StutterKeepsDocs
<1>2. CASE ClientStep
  BY <1>i, <1>2, ClientKeepsDocs DEF ClientStep
<1>3. CASE InputProcessor /\ UNCHANGED << mergerVars, headPrev >>
  BY <1>i, <1>3, PollKeepsDocs, BeginAddKeepsDocs, RotateKeepsDocs,
     BeginRemoveKeepsDocs, ScanKeepsDocs, SetBitKeepsDocs, FinishAddKeepsDocs,
     FinishRemoveKeepsDocs
     DEF InputProcessor
<1>4. CASE MergerHandlers
  BY <1>i, <1>4, BeginMergerTaskKeepsDocs, ReplaceDelete1KeepsDocs,
     ReplaceDelete2KeepsDocs, FinishReplaceKeepsDocs, FinishRedeleteKeepsDocs
     DEF MergerHandlers
<1>5. CASE MergeThread
  BY <1>i, <1>5, CheckKeepsDocs, BeginMigrateKeepsDocs, CloneDeletionKeepsDocs,
     CopyDocumentKeepsDocs, EndSourceKeepsDocs, PostKeepsDocs,
     WriteStageKeepsDocs, ReleaseSourceKeepsDocs, Release3KeepsDocs,
     ResetKeepsDocs
     DEF MergeThread
<1> QED
  BY <1>1, <1>2, <1>3, <1>4, <1>5 DEF Next, InputStep, MergeStep

\* Nothing is removed before a step and nothing after it.
LEMMA NoRemovalFrame ==
  ASSUME RemovalAtCursor, ~Removing, UNCHANGED removal
  PROVE  RemovalAtCursor'
<1>1. removal' = NoRemoval
  BY DEF RemovalAtCursor
<1> QED
  BY <1>1 DEF RemovalAtCursor, Removing, NoRemoval

\* The removal is where it was, and so are its documents.
LEMMA RemovalFrame ==
  ASSUME RemovalAtCursor,
         UNCHANGED << removal, pc, cursor, segments, deletion >>,
         Removing =>
           /\ docs'[removal.seg] = docs[removal.seg]
           /\ docId'[removal.doc] = docId[removal.doc]
           /\ \A d \in DocsIn(removal.seg) : pkOf'[d] = pkOf[d]
           /\ TaskPk' = TaskPk
           /\ removal.seg \in Renumbered => removal.seg \in Renumbered'
  PROVE  RemovalAtCursor'
<1>1. CASE ~Removing
  BY <1>1, NoRemovalFrame
<1>2. CASE Removing
  <2>1. Removing' /\ TaskPk' = TaskPk
    BY <1>2 DEF Removing
  <2>2. DocsIn(removal.seg)' = DocsIn(removal.seg)
    BY <1>2 DEF DocsIn
  <2>3. OfKey(removal.seg, TaskPk)' = OfKey(removal.seg, TaskPk)
    BY <1>2, <2>1, <2>2 DEF OfKey
  <2> QED
    BY <1>2, <2>1, <2>3 DEF RemovalAtCursor
<1> QED
  BY <1>1, <1>2

\* The walk over the documents of the key goes on, or is over.
LEMMA VisitKeepsRemoval ==
  ASSUME NEW s, NEW D \in SUBSET OfKey(s, TaskPk), Visit(s, D),
         pc = "scan", cursor <= Len(segments), s = segments[cursor],
         UNCHANGED << pkOf, docId, docs, pc, segments, task >>,
         cursor' = IF removal'.at = "none" THEN cursor + 1 ELSE cursor
  PROVE  RemovalAtCursor'
<1>1. CASE removal' = NoRemoval
  BY <1>1 DEF RemovalAtCursor, Removing, NoRemoval
<1>2. CASE \E d \in D :
             removal' = [at |-> "test", seg |-> s, doc |-> d, id |-> docId[d],
                         todo |-> D \ {d}]
  <2>1. PICK d \in D :
          removal' = [at |-> "test", seg |-> s, doc |-> d, id |-> docId[d],
                      todo |-> D \ {d}]
    BY <1>2
  <2>2. /\ removal'.at = "test" /\ removal'.seg = s /\ removal'.doc = d
        /\ removal'.id = docId[d] /\ removal'.todo = D \ {d}
    BY <2>1
  <2>3. OfKey(s, TaskPk)' = OfKey(s, TaskPk)
    BY DEF OfKey, DocsIn, TaskPk
  <2>4. cursor' = cursor
    BY <2>2
  <2>5. removal'.todo \cup {removal'.doc} \subseteq OfKey(s, TaskPk)'
    BY <2>2, <2>3
  <2> QED
    BY <2>2, <2>4, <2>5 DEF RemovalAtCursor, Removing
<1> QED
  BY <1>1, <1>2 DEF Visit

\* The three steps of a remove in one segment.
LEMMA ScanKeepsRemoval ==
  ASSUME EngineInv, ScanSegment \/ TestBit \/ SetBit,
         UNCHANGED << mergerVars, headPrev >>
  PROVE  RemovalAtCursor'
<1>1. /\ UNCHANGED << pkOf, docId, docs, pc, segments, task, merge_stage,
                      mergerVars >>
      /\ pc = "scan"
      /\ cursor' = IF removal'.at = "none" THEN cursor + 1 ELSE cursor
  BY DEF ScanSegment, TestBit, SetBit, Scanned
<1>2. CASE ScanSegment
  <2>1. /\ cursor <= Len(segments)
        /\ Visit(segments[cursor], OfKey(segments[cursor], TaskPk))
    BY <1>2 DEF ScanSegment
  <2> QED
    BY <1>1, <2>1, VisitKeepsRemoval
<1>3. CASE TestBit \/ SetBit
  <2>1. /\ Removing /\ cursor <= Len(segments)
        /\ removal.seg = segments[cursor]
        /\ removal.doc \notin removal.todo
        /\ removal.todo \cup {removal.doc} \subseteq OfKey(removal.seg, TaskPk)
    BY <1>3
       DEF TestBit, SetBit, TestDocument, DeleteDocument, Removing, EngineInv,
           RemovalAtCursor
  <2>2. CASE Visit(removal.seg, removal.todo)
    BY <1>1, <2>1, <2>2, VisitKeepsRemoval
  <2>3. CASE ~Visit(removal.seg, removal.todo)
    <3>1. TestDocument /\ UNCHANGED deletion
      BY <1>3, <2>3 DEF TestBit, SetBit, DeleteDocument
    <3>2. PICK b \in Torn(removal.id, docId[removal.doc]) :
            /\ BitClear(b)
            /\ removal' = [removal EXCEPT !.at = "set",
                                         !.id = docId[removal.doc]]
      BY <2>3, <3>1 DEF TestDocument
    <3>3. removal \in RemovalType
      BY <2>1
         DEF EngineInv, Inv, TypeOK, SegTypeOK, RemovalType, NoRemoval, Removing
    <3>4. /\ removal'.at = "set" /\ removal'.seg = removal.seg
          /\ removal'.doc = removal.doc /\ removal'.id = docId[removal.doc]
          /\ removal'.todo = removal.todo
      BY <3>2, <3>3 DEF RemovalType
    <3>5. Renumbered' = Renumbered
      BY <1>1 DEF Renumbered, CopyStarted, Copied, mergerVars
    <3>6. ASSUME removal.seg \notin Renumbered
          PROVE  docId[removal.doc] \notin deletion[removal.seg]
      <4>1. removal.id = docId[removal.doc] /\ docId[removal.doc] \in Nat
        BY <2>1, <3>6, RemovalFacts DEF EngineInv, RemovalAtCursor
      <4>2. b = docId[removal.doc]
        BY <3>2, <4>1, TornStable
      <4> QED
        BY <3>2, <4>2 DEF BitClear
    <3>7. OfKey(removal.seg, TaskPk)' = OfKey(removal'.seg, TaskPk)
      BY <1>1, <3>4 DEF OfKey, DocsIn, TaskPk
    <3>8. cursor' = cursor
      BY <1>1, <3>4
    <3>9. /\ Removing' /\ pc' = "scan" /\ cursor' <= Len(segments')
          /\ removal'.seg = segments'[cursor']
          /\ removal'.doc \notin removal'.todo
          /\ removal'.todo \cup {removal'.doc} \subseteq OfKey(removal.seg, TaskPk)'
      BY <1>1, <2>1, <3>4, <3>7, <3>8 DEF Removing
    <3>10. removal'.seg \notin Renumbered' =>
             /\ removal'.id = docId'[removal'.doc]
             /\ removal'.id \notin deletion'[removal'.seg]
      BY <1>1, <3>1, <3>4, <3>5, <3>6
    <3> QED
      BY <3>9, <3>10 DEF RemovalAtCursor
  <2> QED
    BY <2>2, <2>3
<1> QED
  BY <1>2, <1>3

\* A request of a client has a document of its own.
LEMMA ClientKeepsRemoval ==
  ASSUME EngineInv, Client, UNCHANGED << mergerVars, headPrev >>
  PROVE  RemovalAtCursor'
<1>1. /\ UNCHANGED << docId, docs, deletion, removal, segments, pc, task,
                      cursor, merge_stage, mergerVars >>
      /\ pkOf' = pkOf \/ \E k : pkOf' = [pkOf EXCEPT ![issued + 1] = k]
  <2>1. PICK r \in Request : Accept(r) \/ RejectFull(r) \/ RejectInvalid(r)
    BY DEF Client
  <2> QED
    BY <2>1 DEF Accept, RejectFull, RejectInvalid, Unclient
<1>2. /\ issued \in Nat /\ pkOf \in [Doc -> PK \cup {0}]
      /\ task \in Task \cup {NoTask}
  BY DEF EngineInv, Inv, TypeOK, EngineTypeOK, SegTypeOK
<1>3. \A d \in Doc : d <= issued => pkOf'[d] = pkOf[d]
  <2>1. \A d \in Doc : d <= issued => d # issued + 1
    BY <1>2 DEF Doc
  <2> QED
    BY <1>1, <1>2, <2>1
<1>4. TaskPk' = TaskPk
  <2>1. task.kind = "add" => task.doc \in Doc /\ task.doc <= issued
    BY <1>2, TaskDoc DEF NoTask, EngineInv, DocumentInv, FreshDocuments
  <2> QED
    BY <1>1, <1>3, <2>1 DEF TaskPk
<1>5. ASSUME Removing, NEW d \in DocsIn(removal.seg)
      PROVE  pkOf'[d] = pkOf[d]
  <2>1. removal.seg \in Seg /\ docs \in [Seg -> Seq(Doc)]
    BY <1>5, RemovalFacts DEF EngineInv, Inv, TypeOK, SegTypeOK
  <2>2. d \in Doc /\ docId[d] # 0
    BY <2>1, DocsInType DEF EngineInv, DocumentInv, Numbered, Added
  <2>3. d <= issued
    BY <1>2, <2>2 DEF EngineInv, DocumentInv, FreshDocuments, Doc
  <2> QED
    BY <1>3, <2>2, <2>3
<1>6. Renumbered' = Renumbered
  BY <1>1 DEF Renumbered, CopyStarted, Copied, mergerVars
<1> QED
  BY <1>1, <1>4, <1>5, <1>6, RemovalFrame DEF EngineInv

\* The merge thread gives new ids to documents of the source it renumbers
\* only, and adds none to a listed segment.
LEMMA ListedUntouched ==
  ASSUME EngineInv, MergeThread, NEW s, Lists(s)
  PROVE  /\ docs'[s] = docs[s]
         /\ s \notin Renumbered => \A e \in DocsIn(s) : docId'[e] = docId[e]
<1>1. /\ segments \in Seq(Seg) /\ docs \in [Seg -> Seq(Doc)]
      /\ docId \in [Doc -> Nat]
  BY DEF EngineInv, Inv, TypeOK, EngineTypeOK, SegTypeOK
<1>2. s \in Seg /\ s \in Listed /\ s \in InUse
  BY <1>1, ListedLists DEF InUse
<1>3. CASE UNCHANGED << docs, docId >>
  BY <1>3
<1>4. CASE ~UNCHANGED << docs, docId >>
  <2>1. CopyDocument
    <3>1. (\/ Check \/ BeginMigrate \/ CloneDeletion \/ EndSource \/ PostReplace
           \/ PostRedelete \/ WriteStage2 \/ WriteStage5 \/ Release1
           \/ Release2 \/ Release3 \/ Reset) => UNCHANGED << docs, docId >>
      BY DEF Check, BeginMigrate, CloneDeletion, EndSource, PostReplace,
             PostRedelete, Post, WriteStage2, WriteStage5, WriteStage,
             Release1, Release2, Release3, Reset, segVars
    <3> QED
      BY <1>4, <3>1 DEF MergeThread
  <2>2. PICK d \in pending : ~Doomed(d) /\ AddDocument(newseg, d)
    BY <1>4, <2>1 DEF CopyDocument
  <2>3. newseg \in Seg /\ ~Lists(newseg) /\ mpc = "copy"
    <3>1. mpc = "copy"
      BY <2>1 DEF CopyDocument
    <3> QED
      BY <3>1 DEF EngineInv, Inv, NewSegmentPrivate, NewPrivate
  <2>4. /\ d \in DocsIn(old) /\ old \in {mseg1, mseg2} /\ old \in Seg
        /\ d \in Doc
    <3>1. d \in DocsIn(old) /\ old \in {mseg1, mseg2} /\ merge_stage = 1
      BY <2>3 DEF EngineInv, DocumentInv, CopiedFromSecond, Inv, StagePlace
    <3>2. ReplaceToCome
      BY <2>3, <3>1 DEF ReplaceToCome, EngineInv, Inv, OneMergerTask, ReplacePhase
    <3>3. Lists(mseg1) /\ Lists(mseg2)
      BY <3>2 DEF EngineInv, Inv, SourcesListed
    <3>4. old \in Seg
      BY <1>1, <3>1, <3>3, ListedLists
    <3> QED
      BY <1>1, <3>1, <3>4, DocsInType
  <2>5. old = mseg2 /\ mseg2 \in Sources
    <3>1. ASSUME old = mseg1 PROVE FALSE
      <4>1. snapshot = 1..Len(docs[mseg1])
        BY <2>3, <3>1 DEF EngineInv, DocumentInv, CopiedFromSecond
      <4>2. mseg1 \in InUse
        BY <2>4, <3>1 DEF InUse, Sources, Seg, NoSeg
      <4>3. docId[d] \in 1..Len(docs[mseg1])
        BY <2>4, <3>1, <4>2, IdsInRange DEF EngineInv
      <4> QED
        BY <2>2, <4>1, <4>3 DEF Doomed
    <3> QED
      BY <2>4, <3>1 DEF Sources, Seg, NoSeg
  <2>6. CopyStarted /\ Renumbered = {mseg2}
    BY <2>3, <2>5 DEF CopyStarted, Renumbered
  <2>7. s # newseg /\ docs'[s] = docs[s]
    BY <1>1, <1>2, <2>2, <2>3 DEF AddDocument
  <2>8. ASSUME s \notin Renumbered, NEW e \in DocsIn(s)
        PROVE  docId'[e] = docId[e]
    <3>1. mseg2 \in InUse /\ s # mseg2 /\ {s, mseg2} # {newseg, mseg2}
      BY <2>5, <2>6, <2>7, <2>8 DEF InUse
    <3>2. DocsIn(s) \cap DocsIn(mseg2) = {}
      BY <1>2, <3>1 DEF EngineInv, DocumentInv, Disjoint
    <3>3. e # d /\ e \in Doc
      BY <1>1, <1>2, <2>4, <2>5, <2>8, <3>2, DocsInType
    <3> QED
      BY <1>1, <2>2, <2>4, <3>3 DEF AddDocument
  <2> QED
    BY <2>7, <2>8
<1> QED
  BY <1>3, <1>4

\* What it has renumbered it does not put back while it is listed.
LEMMA MergeThreadKeepsRemoval ==
  ASSUME EngineInv, MergeThread
  PROVE  RemovalAtCursor'
<1>1. UNCHANGED << pkOf, deletion, removal, pc, cursor, segments, task >>
  BY DEF MergeThread, Check, BeginMigrate, CloneDeletion, CopyDocument,
         EndSource, PostReplace, PostRedelete, Post, WriteStage2, WriteStage5,
         WriteStage, Release1, Release2, Release3, Reset, Unmerge, segVars
<1>2. TaskPk' = TaskPk
  BY <1>1 DEF TaskPk
<1>3. merge_stage \in 0..6
  BY DEF EngineInv, Inv, TypeOK, EngineTypeOK
<1>4. ASSUME Removing, removal.seg \in Renumbered
      PROVE  removal.seg \in Renumbered'
  <2>1. removal.seg \in Seg /\ Lists(removal.seg)
    BY <1>4, RemovalFacts DEF EngineInv
  <2>2. CopyStarted /\ removal.seg = mseg2 /\ mseg2 # NoSeg
    BY <1>4, <2>1 DEF Renumbered, Seg, NoSeg
  <2>3. merge_stage \in {1, 2}
    <3>1. merge_stage \notin {0, 4, 5, 6}
      BY <2>2 DEF EngineInv, LayoutInv, SourcesLeave
    <3>2. merge_stage # 3
      BY <2>1, <2>2 DEF EngineInv, LayoutInv, SourcesLeave
    <3> QED
      BY <1>3, <3>1, <3>2
  <2>4. CopyStarted' /\ mseg2' = mseg2
    <3>1. ~(Check \/ Release1 \/ Release2 \/ Release3 \/ Reset \/ PostRedelete
            \/ WriteStage5 \/ BeginMigrate \/ CloneDeletion)
      <4>1. mpc \notin {"release2", "release3", "reposted"}
        BY <2>3 DEF EngineInv, Inv, StagePlace
      <4>2. /\ ~(merge_stage = 1 /\ mpc = "loop")
            /\ ~(mpc = "clone")
        <5>1. mpc \in {"clone", "copy", "post"} => merge_stage = 1
          BY DEF EngineInv, Inv, StagePlace
        <5>2. merge_stage = 1 => ~(merge_stage >= 2)
          OBVIOUS
        <5> QED
          BY <2>2, <5>1, <5>2 DEF CopyStarted, Copied
      <4>3. merge_stage \notin {0, 3, 4, 6}
        BY <2>3
      <4> QED
        BY <4>1, <4>2, <4>3
           DEF Check, Release1, Release2, Release3, Reset, PostRedelete,
               WriteStage5, BeginMigrate, CloneDeletion, Post, WriteStage
    <3>2. CASE CopyDocument
      BY <2>2, <3>2 DEF CopyDocument, CopyStarted, Copied
    <3>3. CASE EndSource
      <4>1. merge_stage \in {1, 2} /\ mpc = "copy"
        BY <2>3, <3>3 DEF EndSource
      <4>2. merge_stage = 1 /\ old = mseg2
        BY <2>2, <4>1 DEF CopyStarted, Copied, EngineInv, Inv, StagePlace
      <4>3. mseg1 # mseg2
        BY <2>2 DEF EngineInv, LayoutInv, SourcesLeave
      <4> QED
        BY <3>3, <4>2, <4>3 DEF EndSource, CopyStarted, Copied
    <3>4. CASE PostReplace
      BY <3>4 DEF PostReplace, Post, CopyStarted, Copied
    <3>5. CASE WriteStage2
      BY <3>5 DEF WriteStage2, WriteStage, CopyStarted, Copied
    <3> QED
      BY <3>1, <3>2, <3>3, <3>4, <3>5 DEF MergeThread
  <2> QED
    BY <2>2, <2>4 DEF Renumbered
<1>5. ASSUME Removing
      PROVE  /\ docs'[removal.seg] = docs[removal.seg]
             /\ removal.seg \notin Renumbered
                  => docId'[removal.doc] = docId[removal.doc]
  <2>1. Lists(removal.seg) /\ removal.doc \in DocsIn(removal.seg)
    BY <1>5, RemovalFacts DEF EngineInv
  <2> QED
    BY <2>1, ListedUntouched
<1>6. CASE ~Removing
  BY <1>1, <1>6, NoRemovalFrame DEF EngineInv
<1>7. CASE Removing
  <2>1. Removing' /\ TaskPk' = TaskPk
    BY <1>1, <1>2, <1>7 DEF Removing
  <2>2. OfKey(removal.seg, TaskPk)' = OfKey(removal.seg, TaskPk)
    BY <1>1, <1>2, <1>5, <1>7 DEF OfKey, DocsIn
  <2>3. removal.seg \notin Renumbered' => removal.seg \notin Renumbered
    BY <1>4, <1>7
  <2> QED
    BY <1>1, <1>5, <1>7, <2>1, <2>2, <2>3 DEF EngineInv, RemovalAtCursor
<1> QED
  BY <1>6, <1>7

LEMMA NextKeepsRemoval ==
  ASSUME EngineInv, [Next]_vars
  PROVE  RemovalAtCursor'
<1>1. CASE UNCHANGED vars
  <2>1. UNCHANGED << segVars, engineVars, mergerVars >>
    BY <1>1 DEF vars
  <2>2. Renumbered' = Renumbered /\ TaskPk' = TaskPk
    BY <2>1
       DEF Renumbered, CopyStarted, Copied, TaskPk, segVars, engineVars,
           mergerVars
  <2> QED
    BY <2>1, <2>2, RemovalFrame DEF EngineInv, segVars, engineVars
<1>2. CASE ClientStep
  BY <1>2, ClientKeepsRemoval DEF ClientStep
<1>3. CASE InputProcessor /\ UNCHANGED << mergerVars, headPrev >>
  <2>1. CASE ScanSegment \/ TestBit \/ SetBit
    BY <1>3, <2>1, ScanKeepsRemoval
  <2>2. CASE FinishAdd \/ FinishRemove
    <3>1. cursor > Len(segments) /\ UNCHANGED removal
      BY <2>2 DEF FinishAdd, FinishRemove, segVars
    <3>2. cursor \in Nat /\ Len(segments) \in Nat
      BY DEF EngineInv, Inv, TypeOK, EngineTypeOK
    <3>3. ~Removing
      BY <3>1, <3>2 DEF EngineInv, RemovalAtCursor
    <3> QED
      BY <3>1, <3>3, NoRemovalFrame DEF EngineInv
  <2>3. CASE FindEmpty \/ ReadSize \/ BeginAdd \/ Rotate \/ BeginRemove
    <3>1. pc # "scan" /\ UNCHANGED removal
      BY <2>3 DEF FindEmpty, ReadSize, BeginAdd, Rotate, BeginRemove, Take,
                  segVars
    <3> QED
      BY <3>1, NoRemovalFrame DEF EngineInv, RemovalAtCursor
  <2> QED
    BY <1>3, <2>1, <2>2, <2>3 DEF InputProcessor
<1>4. CASE MergerHandlers
  <2>1. pc # "scan" /\ UNCHANGED removal
    BY <1>4
       DEF MergerHandlers, BeginReplace, ReplaceDelete1, ReplaceDelete2,
           ReplaceDelete, FinishReplace, Redelete, FinishRedelete, Take,
           segVars
  <2> QED
    BY <2>1, NoRemovalFrame DEF EngineInv, RemovalAtCursor
<1>5. CASE MergeThread
  BY <1>5, MergeThreadKeepsRemoval
<1> QED
  BY <1>1, <1>2, <1>3, <1>4, <1>5 DEF Next, InputStep, MergeStep

\* Every step of the two threads and of the clients, until a task is run for a
\* second time (queue.c:49), keeps the documents in step, a remove being a step
\* for each load and store of a bit (segment.c:80-81): which segment holds which, under which id, and with which bits set;
\* the bits of a source whose documents the merge gives new ids excepted, in
\* which a remove may set a bit twice.
THEOREM EngineInvHolds == Spec => []EngineInv
<1>1. Init => LayoutInv /\ DocumentInv
  BY InitEstablishesDocs
<1>2. Init => RemovalAtCursor
  BY DEF Init, SegInit, RemovalAtCursor, Removing, NoRemoval
<1>3. Init => EngineInv
  BY <1>1, <1>2, InitEstablishesInv DEF EngineInv
<1>4. EngineInv /\ [Next]_vars => EngineInv'
  BY NextKeepsInv, NextKeepsDocs, NextKeepsRemoval DEF EngineInv
<1> QED
  BY <1>3, <1>4, PTL DEF Spec

\* No segment gets more documents than the limit, not even the new one of a
\* merge, which merger.c:166 fears: the two sources never have more than one
\* segment's worth of documents that are not deleted.
THEOREM SegmentSizeBounded == Spec => []SegmentSizeBound
<1>1. EngineInv => SegmentSizeBound
  BY DEF EngineInv, DocumentInv, Sized, SegmentSizeBound
<1> QED
  BY EngineInvHolds, <1>1, PTL

\* The counter the merger chooses segments by is exact in every segment that
\* is not being merged, and every bit that is set stands for a document.
THEOREM DeletedCounted == Spec => []DeletedCountExact
<1>1. ASSUME EngineInv, NEW s \in Listed \ Migrating
      PROVE  /\ deleted[s] = Cardinality(deletion[s])
             /\ deletion[s] \subseteq {docId[d] : d \in DocsIn(s)}
  <2>1. Inv /\ LayoutInv /\ DocumentInv
    BY <1>1 DEF EngineInv
  <2>2. s \in Seg /\ s \in InUse /\ docs \in [Seg -> Seq(Doc)]
    BY <2>1, InUseSegments DEF InUse
  <2>4. CopyStarted => Merging
    <3>1. merge_stage \in 0..6
      BY <2>1 DEF Inv, TypeOK, EngineTypeOK
    <3>2. mpc \in {"copy", "post", "posted"} => merge_stage \in {1, 3}
      BY <2>1 DEF Inv, StagePlace
    <3> QED
      BY <3>1, <3>2 DEF CopyStarted, Copied, Merging
  <2>5. s \notin Renumbered
    BY <1>1, <2>4 DEF Renumbered, Migrating
  <2>3. deletion[s] \subseteq 1..Len(docs[s])
        /\ deleted[s] = Cardinality(deletion[s])
    <3>1. Lists(s)
      <4>1. segments \in Seq(Seg)
        BY <2>1, InUseSegments
      <4> QED
        BY <1>1, <4>1, ListedLists
    <3> QED
      BY <2>1, <2>2, <2>5, <3>1, CountedListed
  <2>6. ASSUME NEW i \in 1..Len(docs[s])
        PROVE  i \in {docId[d] : d \in DocsIn(s)}
    <3>1. docId[docs[s][i]] = i
      BY <2>1, <2>2, <2>5 DEF DocumentInv, Numbered
    <3>2. docs[s][i] \in DocsIn(s)
      BY <2>2, DocsInPlaces
    <3> QED
      BY <3>1, <3>2
  <2> QED
    BY <2>3, <2>6
<1>2. EngineInv => DeletedCountExact
  BY <1>1 DEF DeletedCountExact
<1> QED
  BY EngineInvHolds, <1>2, PTL

\* No document leaks and none is in two segments: between merges each one ever
\* added is freed or in exactly one listed segment.
THEOREM AllDocumentsAccounted == Spec => []DocumentsAccounted
<1>1. ASSUME EngineInv, Quiescent, NEW d \in Added
      PROVE  Cardinality({s \in Listed : d \in DocsIn(s)})
               = (IF d \in freedDocs THEN 0 ELSE 1)
  <2>1. Inv /\ LayoutInv /\ DocumentInv
    BY <1>1 DEF EngineInv
  <2>2. /\ segments \in Seq(Seg) /\ docs \in [Seg -> Seq(Doc)]
        /\ InUse \subseteq Seg /\ Listed \subseteq InUse
    BY <2>1, InUseSegments DEF InUse
  <2>3. mpc = "loop" /\ merge_stage = 0 /\ ~CopyStarted
    BY <1>1 DEF Quiescent, CopyStarted, Copied
  <2>4. doomed = {}
    BY <2>1, <2>3 DEF DocumentInv, DoomedNowhere
  <2>5. ~NewPrivate
    BY <2>1, <2>3, PrivateInPhase DEF ReplacePhase
  <2>6. CASE d \in freedDocs
    <3>1. {s \in Listed : d \in DocsIn(s)} = {}
      BY <2>1, <2>2, <2>6 DEF DocumentInv, DoomedNowhere
    <3> QED
      BY <2>6, <3>1, FS_EmptySet
  <2>7. CASE d \notin freedDocs
    <3>1. PICK s \in Listed \cup ({newseg} \ {NoSeg}) : d \in DocsIn(s)
      BY <2>1, <2>4, <2>7 DEF DocumentInv, NoneLost
    <3>2. s \in Listed
      <4>1. newseg = NoSeg \/ newseg \in Listed \/ DocsIn(newseg) = {}
        BY <2>1, <2>2, <2>5, ListedLists, RangeEmpty
           DEF LayoutInv, NewSegmentRole, DocsIn
      <4> QED
        BY <3>1, <4>1
    <3>3. \A t \in Listed : d \in DocsIn(t) => t = s
      BY <2>1, <2>2, <2>3, <3>1, <3>2 DEF DocumentInv, Disjoint
    <3>4. {t \in Listed : d \in DocsIn(t)} = {s}
      BY <3>1, <3>2, <3>3
    <3> QED
      BY <2>7, <3>4, FS_Singleton
  <2> QED
    BY <2>6, <2>7
<1>2. EngineInv => DocumentsAccounted
  BY <1>1 DEF DocumentsAccounted
<1> QED
  BY EngineInvHolds, <1>2, PTL

\* Nothing a thread still follows a pointer to has been freed by the merger:
\* not a listed segment, not a source of the merge, not a document of the list.
THEOREM ReachedNotFreed == Spec => []ReachableNotFreed
<1>1. ASSUME EngineInv PROVE ReachableNotFreed
  <2>1. Inv /\ LayoutInv /\ DocumentInv
    BY <1>1 DEF EngineInv
  <2>2. /\ segments \in Seq(Seg) /\ Listed \subseteq InUse /\ NoSeg \notin Seg
    BY <2>1, InUseSegments DEF InUse
  <2>3. /\ \A s \in freedSegs : s \notin Listed /\ s \notin Sources
        /\ NoSeg \notin freedSegs
    <3>1. freedSegs \subseteq Seg
      BY <2>1 DEF Inv, TypeOK, SegTypeOK
    <3> QED
      BY <2>1, <2>2, <3>1, ListedLists DEF LayoutInv, NewSegmentRole
  <2>4. segment_active \in Listed
    BY <2>1, <2>2, ListedLists DEF LayoutInv, ListStates
  <2>5. old \in {mseg1, mseg2, NoSeg}
    BY <2>1 DEF Inv, StagePlace, LayoutInv, SourcesLeave
  <2>6. \A s \in {segment_active, old, mseg1, mseg2} : s \notin freedSegs
    BY <2>3, <2>4, <2>5 DEF Sources
  <2>7. \A s \in Listed : DocsIn(s) \cap freedDocs = {}
    BY <2>1, <2>2 DEF DocumentInv, DoomedNowhere
  <2> QED
    BY <2>3, <2>6, <2>7 DEF ReachableNotFreed
<1> QED
  BY EngineInvHolds, <1>1, PTL

-----------------------------------------------------------------------------
(* What the clauses rest on, and when a step keeps them.                   *)

LEMMA KeyFacts ==
  ASSUME EngineInv
  PROVE  /\ Inv /\ LayoutInv /\ DocumentInv
         /\ segments \in Seq(Seg) /\ Len(segments) \in Nat
         /\ docs \in [Seg -> Seq(Doc)] /\ docId \in [Doc -> Nat]
         /\ deletion \in [Seg -> SUBSET Nat]
         /\ Listed \subseteq Seg /\ Listed \subseteq InUse
         /\ InUse \subseteq Seg /\ NoSeg \notin Seg
         /\ Sources \subseteq InUse
         /\ \A s \in Seg : DocsIn(s) \subseteq Added
         /\ (pc = "scan" => cursor \in Nat)
<1>1. Inv /\ LayoutInv /\ DocumentInv
  BY DEF EngineInv
<1>2. /\ segments \in Seq(Seg) /\ docs \in [Seg -> Seq(Doc)]
      /\ InUse \subseteq Seg /\ NoSeg \notin Seg
  BY <1>1, InUseSegments
<1>3. docId \in [Doc -> Nat] /\ deletion \in [Seg -> SUBSET Nat]
  BY <1>1 DEF Inv, TypeOK, SegTypeOK
<1>4. Listed \subseteq InUse /\ Sources \subseteq InUse
  BY DEF InUse
<1>5. \A s \in Seg : DocsIn(s) \subseteq Added
  BY <1>1 DEF DocumentInv, Numbered
<1>6. cursor \in Nat
  BY <1>1 DEF Inv, TypeOK, EngineTypeOK
<1>7. Len(segments) \in Nat
  BY <1>2
<1> QED
  BY <1>1, <1>2, <1>3, <1>4, <1>5, <1>6, <1>7

\* The sets of segments the clauses speak of are in use.
LEMMA PlacesInUse ==
  ASSUME EngineInv
  PROVE  /\ Plain \subseteq Listed
         /\ ToClone \subseteq Sources
         /\ New \subseteq InUse
         /\ Plain \cup ToClone \cup New \subseteq Seg
<1>1. Plain \subseteq Listed /\ ToClone \subseteq Sources
  BY DEF Plain, ToClone
<1>2. New \subseteq InUse
  BY DEF New, InUse
<1> QED
  BY <1>1, <1>2, KeyFacts

LEMMA StoreFrame ==
  ASSUME StoreKnown, UNCHANGED << docId, store >>,
         \A d \in Added : pkOf'[d] = pkOf[d]
  PROVE  StoreKnown'
<1>1. Added' = Added
  BY DEF Added
<1> QED
  BY <1>1 DEF StoreKnown

\* A handler at work has its place in the list, or has just begun.
LEMMA SearchFrame ==
  ASSUME EngineInv, SearchedMarked, UNCHANGED << docs, docId >>,
         \A d \in Added : pkOf'[d] = pkOf[d],
         \A s \in Listed : deletion[s] \subseteq deletion'[s],
         \A s \in Listed' : s \in Sources => s \in Sources',
         pc' = "scan" => \/ cursor' = 1
                         \/ /\ pc = "scan" /\ UNCHANGED << segments, cursor >>
                            /\ TaskPk' = TaskPk
  PROVE  SearchedMarked'
<1> SUFFICES ASSUME pc' = "scan", NEW i \in 1..Len(segments'), i < cursor',
                    segments'[i] \notin Sources',
                    NEW d \in Range(docs'[segments'[i]]), pkOf'[d] = TaskPk'
             PROVE  docId'[d] \in deletion'[segments'[i]]
  BY DEF SearchedMarked, Marked, DocsIn
<1>1. cursor' # 1
  OBVIOUS
<1>2. pc = "scan" /\ UNCHANGED << segments, cursor >> /\ TaskPk' = TaskPk
  BY <1>1
<1>3. segments[i] \in Listed /\ segments[i] \in Listed' /\ segments[i] \in Seg
  BY <1>2, KeyFacts, ListedLists DEF Lists, Listed
<1>4. d \in DocsIn(segments[i]) /\ d \in Added
  BY <1>2, <1>3, KeyFacts DEF DocsIn
<1>5. segments[i] \notin Sources
  BY <1>2, <1>3
<1>6. Marked(segments[i], d)
  BY <1>2, <1>4, <1>5 DEF SearchedMarked
<1> QED
  BY <1>2, <1>3, <1>6 DEF Marked

\* A step that leaves the documents and the history alone, marks or not, and
\* takes segments from one of the sets to the next.
LEMMA SupersededFrame ==
  ASSUME EngineInv, SupersededMarked,
         UNCHANGED << docs, docId, store, updated, merging_deletion >>,
         \A d \in Added : pkOf'[d] = pkOf[d],
         \A s \in Seg : deletion[s] \subseteq deletion'[s],
         merge_stage \in 1..5 =>
           \/ merge_stage' \in 1..5
           \/ mpc' # "copy" /\ \A s \in ToClone' \cup New' : DocsIn(s) = {},
         \A s \in Plain' : \/ s \in Plain \/ DocsIn(s) = {}
                           \/ s \in New /\ merge_stage \notin 1..5,
         \A s \in ToClone' \cup New' :
           s \in Plain \cup ToClone \cup New \/ DocsIn(s) = {},
         mpc' = "copy" =>
           \/ /\ mpc = "copy" /\ pending' \subseteq pending
              /\ UNCHANGED snapshot
           \/ /\ old \in ToClone
              /\ pending' = DocsIn(old) /\ snapshot' = deletion[old]
  PROVE  SupersededMarked'
<1>1. Added' = Added /\ \A s : DocsIn(s)' = DocsIn(s)
  BY DEF Added, DocsIn
<1>2. Superseded' = Superseded
  BY <1>1 DEF Superseded
<1> SUFFICES ASSUME NEW d \in Superseded
             PROVE  /\ \A s \in Plain' : d \in DocsIn(s) =>
                         docId[d] \in deletion'[s] \/ Twice(d)'
                    /\ \A s \in ToClone' \cup New' : d \in DocsIn(s) =>
                         docId[d] \in deletion'[s] \/ Twice(d)' \/ Recorded(d)'
                    /\ mpc' = "copy" /\ d \in pending' =>
                         docId[d] \in snapshot' \/ Twice(d)' \/ Recorded(d)'
  BY <1>1, <1>2 DEF SupersededMarked, Marked, Doomed
<1>3. d \in Added /\ pkOf'[d] = pkOf[d]
  BY DEF Superseded
<1>4. Twice(d)' <=> Twice(d)
  BY <1>3 DEF Twice
<1>5. Recorded(d) => \/ Recorded(d)'
                     \/ mpc' # "copy" /\ \A s \in ToClone' \cup New' : DocsIn(s) = {}
  BY <1>3 DEF Recorded
<1>6. /\ \A s \in Plain : d \in DocsIn(s) => docId[d] \in deletion[s] \/ Twice(d)
      /\ \A s \in ToClone \cup New : d \in DocsIn(s) =>
           docId[d] \in deletion[s] \/ Twice(d) \/ Recorded(d)
      /\ mpc = "copy" /\ d \in pending =>
           docId[d] \in snapshot \/ Twice(d) \/ Recorded(d)
  BY DEF SupersededMarked, Marked, Doomed
<1>7. Plain \cup ToClone \cup New \subseteq Seg
  BY PlacesInUse
<1>8. ASSUME NEW s \in Plain', d \in DocsIn(s)
      PROVE  docId[d] \in deletion'[s] \/ Twice(d)'
  <2>1. CASE s \in Plain
    BY <1>4, <1>6, <1>7, <1>8, <2>1
  <2>2. CASE s \in New /\ merge_stage \notin 1..5
    <3>1. ~Recorded(d)
      BY <2>2 DEF Recorded
    <3> QED
      BY <1>4, <1>6, <1>7, <1>8, <2>2, <3>1
  <2> QED
    BY <1>8, <2>1, <2>2
<1>9. ASSUME NEW s \in ToClone' \cup New', d \in DocsIn(s)
      PROVE  docId[d] \in deletion'[s] \/ Twice(d)' \/ Recorded(d)'
  <2>1. s \in Plain \cup ToClone \cup New
    BY <1>9
  <2>2. docId[d] \in deletion[s] \/ Twice(d) \/ Recorded(d)
    BY <1>6, <1>9, <2>1
  <2>3. deletion[s] \subseteq deletion'[s]
    BY <1>7, <2>1
  <2> QED
    BY <1>4, <1>5, <1>9, <2>2, <2>3
<1>10. ASSUME mpc' = "copy", d \in pending'
       PROVE  docId[d] \in snapshot' \/ Twice(d)' \/ Recorded(d)'
  <2>1. docId[d] \in snapshot' \/ Twice(d) \/ Recorded(d)
    <3>1. CASE mpc = "copy" /\ pending' \subseteq pending /\ UNCHANGED snapshot
      BY <1>6, <1>10, <3>1
    <3>2. CASE /\ old \in ToClone
               /\ pending' = DocsIn(old) /\ snapshot' = deletion[old]
      BY <1>6, <1>10, <3>2
    <3> QED
      BY <1>10, <3>1, <3>2
  <2> QED
    BY <1>4, <1>5, <1>10, <2>1
<1> QED
  BY <1>8, <1>9, <1>10

\* A step that leaves the documents alone and marks none of another key than
\* the running handler's, unless that is recorded.
LEMMA CleanFrame ==
  ASSUME EngineInv, StoreKnown, LatestClean,
         UNCHANGED << docs, docId, store, merging_deletion >>,
         \A d \in Added : pkOf'[d] = pkOf[d],
         pc = "scan" => pc' = "scan" /\ TaskPk' = TaskPk,
         doomed' \cup freedDocs' \subseteq doomed \cup freedDocs
           \cup (IF mpc = "copy" THEN {d \in pending : Doomed(d)} ELSE {}),
         \A s \in InUse' \ Renumbered' :
           s \in InUse \ Renumbered \/ DocsIn(s) = {},
         \A s \in InUse \ Renumbered : \A d \in DocsIn(s) :
           docId[d] \in deletion'[s] =>
             \/ Marked(s, d)
             \/ pkOf[d] \in merging_deletion
             \/ pc = "scan" /\ TaskPk = pkOf[d],
         mpc' = "copy" =>
           \/ /\ mpc = "copy" /\ pending' \subseteq pending
              /\ UNCHANGED snapshot
           \/ /\ old \in InUse \ Renumbered
              /\ pending' = DocsIn(old) /\ snapshot' = deletion[old]
  PROVE  LatestClean'
<1>1. Added' = Added /\ \A s : DocsIn(s)' = DocsIn(s)
  BY DEF Added, DocsIn
<1> SUFFICES ASSUME NEW k \in PK \ merging_deletion, store[k] # 0,
                    ~(pc' = "scan" /\ TaskPk' = k)
             PROVE  Clean(store[k])'
  BY DEF LatestClean
<1> DEFINE d == store[k]
<1>2. d \in Added /\ pkOf[d] = k
  BY DEF StoreKnown
<1>3. ~(pc = "scan" /\ TaskPk = k)
  OBVIOUS
<1>4. /\ d \notin doomed \cup freedDocs
      /\ \A s \in InUse \ Renumbered : d \in DocsIn(s) => ~Marked(s, d)
      /\ mpc = "copy" /\ d \in pending => ~Doomed(d)
  BY <1>3 DEF LatestClean, Clean
<1> HIDE DEF d
<1>5. d \notin doomed' \cup freedDocs'
  BY <1>4
<1>6. ASSUME NEW s \in InUse' \ Renumbered', d \in DocsIn(s)
      PROVE  docId[d] \notin deletion'[s]
  <2>1. s \in InUse \ Renumbered
    BY <1>6
  <2> QED
    BY <1>2, <1>3, <1>4, <1>6, <2>1
<1>7. ASSUME mpc' = "copy", d \in pending' PROVE docId[d] \notin snapshot'
  <2>1. CASE mpc = "copy" /\ pending' \subseteq pending /\ UNCHANGED snapshot
    BY <1>4, <1>7, <2>1 DEF Doomed
  <2>2. CASE /\ old \in InUse \ Renumbered
             /\ pending' = DocsIn(old) /\ snapshot' = deletion[old]
    BY <1>4, <1>7, <2>2 DEF Marked
  <2> QED
    BY <1>7, <2>1, <2>2
<1>8. Clean(d)'
  <2>1. \A s \in InUse' \ Renumbered' :
          d \in DocsIn(s)' => docId'[d] \notin deletion'[s]
    BY <1>1, <1>6
  <2>2. UNCHANGED d
    BY DEF d
  <2> QED
    BY <1>5, <1>7, <2>1, <2>2 DEF Clean, Doomed, Marked
<1> QED
  BY <1>8 DEF d

-----------------------------------------------------------------------------
(* The clients and the input processor.                                    *)

LEMMA SetsFrame ==
  ASSUME UNCHANGED << mpc, mseg1, mseg2, newseg, old, merge_stage, segments >>
  PROVE  /\ UNCHANGED << Sources, Listed, InUse, Renumbered >>
         /\ UNCHANGED << Plain, ToClone, New >>
<1>1. UNCHANGED << Sources, Listed >>
  BY DEF Sources, Listed
<1>2. UNCHANGED << InUse, Renumbered >>
  BY <1>1 DEF InUse, Renumbered, CopyStarted, Copied
<1>3. UNCHANGED << Plain, ToClone, New >>
  BY <1>1 DEF Plain, ToClone, New, HasNew
<1> QED
  BY <1>1, <1>2, <1>3

\* A step of a handler that marks no document of another key.
LEMMA HandlerFrame ==
  ASSUME EngineInv, KeysInv,
         UNCHANGED << docs, docId, freedDocs, segments, store, updated,
                      merging_deletion, merge_stage, mergerVars >>,
         \A d \in Added : pkOf'[d] = pkOf[d],
         \A s \in Seg : deletion[s] \subseteq deletion'[s],
         \A s \in InUse \ Renumbered : \A d \in DocsIn(s) :
           docId[d] \in deletion'[s] =>
             Marked(s, d) \/ (pc = "scan" /\ TaskPk = pkOf[d]),
         pc = "scan" => pc' = "scan" /\ TaskPk' = TaskPk
  PROVE  /\ StoreKnown' /\ SupersededMarked' /\ LatestClean'
         /\ (pc' = "scan" => cursor' = 1 \/ (pc = "scan" /\ UNCHANGED cursor))
              => KeysInv'
<1>1. UNCHANGED << mpc, mseg1, mseg2, newseg, doomed, old, snapshot, pending >>
  BY DEF mergerVars
<1>2. /\ UNCHANGED << Sources, Listed, InUse, Renumbered >>
      /\ UNCHANGED << Plain, ToClone, New >>
  BY <1>1, SetsFrame
<1>3. StoreKnown'
  BY StoreFrame DEF KeysInv
<1>4. SupersededMarked'
  BY <1>1, <1>2, SupersededFrame DEF KeysInv
<1>5. LatestClean'
  BY <1>1, <1>2, CleanFrame DEF KeysInv
<1>6. ASSUME pc' = "scan" => cursor' = 1 \/ (pc = "scan" /\ UNCHANGED cursor)
      PROVE  SearchedMarked'
  <2>1. /\ \A s \in Listed : deletion[s] \subseteq deletion'[s]
        /\ \A s \in Listed' : s \in Sources => s \in Sources'
    BY <1>2, KeyFacts
  <2> QED
    BY <1>6, <2>1, SearchFrame DEF KeysInv
<1> QED
  BY <1>3, <1>4, <1>5, <1>6 DEF KeysInv

\* ... and none at all.
LEMMA NoMarkFrame ==
  ASSUME EngineInv, KeysInv,
         UNCHANGED << docs, docId, deletion, freedDocs, segments, store,
                      updated, merging_deletion, merge_stage, mergerVars >>,
         \A d \in Added : pkOf'[d] = pkOf[d],
         pc = "scan" => pc' = "scan" /\ TaskPk' = TaskPk /\ UNCHANGED cursor,
         pc' = "scan" /\ pc # "scan" => cursor' = 1
  PROVE  KeysInv'
<1>1. \A s \in InUse \ Renumbered : \A d \in DocsIn(s) :
        docId[d] \in deletion'[s] => Marked(s, d)
  BY DEF Marked
<1> QED
  BY <1>1, HandlerFrame

\* A request gives a key to a document no segment holds and no handler has.
LEMMA ClientKeepsPk ==
  ASSUME EngineInv, Client
  PROVE  (\A d \in Added : pkOf'[d] = pkOf[d]) /\ TaskPk' = TaskPk
<1>1. PICK r \in Request : Accept(r) \/ RejectFull(r) \/ RejectInvalid(r)
  BY DEF Client
<1>2. /\ UNCHANGED << docId, docs, deletion, freedDocs, segments, pc, task,
                      cursor, merge_stage, merging_deletion, store, updated >>
      /\ issued < MaxDoc
  BY <1>1 DEF Accept, RejectFull, RejectInvalid, Unclient
<1>3. UNCHANGED pkOf \/ pkOf' = [pkOf EXCEPT ![issued + 1] = r.pk]
  BY <1>1 DEF Accept, RejectFull, RejectInvalid
<1>4. pkOf \in [Doc -> PK \cup {0}] /\ issued \in Nat /\ MaxDoc \in Nat
      /\ task \in Task \cup {NoTask}
  <2>1. pkOf \in [Doc -> PK \cup {0}]
    BY DEF EngineInv, Inv, TypeOK, SegTypeOK
  <2>2. issued \in 0..MaxDoc /\ task \in Task \cup {NoTask}
    BY DEF EngineInv, Inv, TypeOK, EngineTypeOK
  <2> QED
    BY <2>1, <2>2, MaxDocAssumption
<1>5. \A d \in Doc : d # issued + 1 => pkOf'[d] = pkOf[d]
  BY <1>3, <1>4
<1>6. issued + 1 \in Doc /\ docId[issued + 1] = 0
  <2>1. issued + 1 \in Doc /\ issued + 1 > issued
    BY <1>2, <1>4 DEF Doc
  <2> QED
    BY <2>1 DEF EngineInv, DocumentInv, FreshDocuments
<1>7. \A d \in Added : pkOf'[d] = pkOf[d]
  BY <1>5, <1>6 DEF Added
<1>8. TaskPk' = TaskPk
  <2>1. CASE task.kind = "add"
    <3>1. task.doc <= issued
      BY <2>1 DEF EngineInv, DocumentInv, FreshDocuments
    <3>2. task.doc \in Doc
      BY <1>4, <2>1 DEF Task, ClientTask, MergerTask, AddTask, RemoveTask,
                        ReplaceTask, RedeleteTask, NoTask
    <3>3. pkOf'[task.doc] = pkOf[task.doc]
      BY <1>4, <1>5, <3>1, <3>2 DEF Doc
    <3> QED
      BY <1>2, <2>1, <3>3 DEF TaskPk
  <2>2. CASE task.kind # "add"
    BY <1>2, <2>2 DEF TaskPk
  <2> QED
    BY <2>1, <2>2
<1> QED
  BY <1>7, <1>8

LEMMA ClientKeepsKeys ==
  ASSUME EngineInv, KeysInv, Client, UNCHANGED << mergerVars, headPrev >>
  PROVE  KeysInv'
<1>1. PICK r \in Request : Accept(r) \/ RejectFull(r) \/ RejectInvalid(r)
  BY DEF Client
<1>2. UNCHANGED << docId, docs, deletion, freedDocs, segments, pc, cursor,
                   merge_stage, merging_deletion, store, updated >>
  BY <1>1 DEF Accept, RejectFull, RejectInvalid, Unclient
<1> QED
  BY <1>2, ClientKeepsPk, NoMarkFrame

\* A handler that begins has marked nothing.
LEMMA BeginKeepsKeys ==
  ASSUME EngineInv, KeysInv, BeginAdd \/ BeginRemove,
         UNCHANGED << mergerVars, headPrev >>
  PROVE  KeysInv'
<1>1. /\ UNCHANGED << pkOf, docs, docId, deletion, freedDocs, segments, store,
                      updated, merging_deletion, merge_stage >>
      /\ pc = "idle" /\ (pc' = "scan" => cursor' = 1)
  BY DEF BeginAdd, BeginRemove, Take, segVars, ListHead
<1> QED
  BY <1>1, NoMarkFrame

LEMMA BeginMergerTaskKeepsKeys ==
  ASSUME EngineInv, KeysInv, BeginReplace \/ Redelete
  PROVE  KeysInv'
<1>1. /\ UNCHANGED << pkOf, docs, docId, deletion, freedDocs, segments, store,
                      updated, merging_deletion, merge_stage, mergerVars >>
      /\ pc = "idle" /\ pc' # "scan"
  BY DEF BeginReplace, Redelete, Take, segVars
<1> QED
  BY <1>1, NoMarkFrame

\* The new active segment is empty.
LEMMA RotateKeepsKeys ==
  ASSUME EngineInv, KeysInv, Rotate, UNCHANGED << mergerVars, headPrev >>
  PROVE  KeysInv'
<1>1. /\ UNCHANGED << pkOf, docs, docId, deletion, freedDocs, store, updated,
                      merging_deletion, merge_stage >>
      /\ UNCHANGED << mpc, mseg1, mseg2, newseg, doomed, old, snapshot, pending >>
      /\ segments' = << Fresh >> \o segments /\ Fresh = nsegs + 1
      /\ nsegs < MaxSeg
      /\ pc = "rotate" /\ pc' = "scan" /\ cursor' = 1
  BY DEF Rotate, NewSegment, ListHead, Fresh, mergerVars
<1>2. nsegs \in Nat /\ Fresh \in Seg /\ Fresh > nsegs
  BY <1>1, MaxSegAssumption DEF EngineInv, Inv, TypeOK, SegTypeOK, Seg
<1>3. DocsIn(Fresh) = {}
  BY <1>2, RangeEmpty DEF EngineInv, LayoutInv, Allocated, DocsIn
<1>4. Listed' = {Fresh} \cup Listed
  BY <1>1, <1>2, KeyFacts, PrependListed
<1>5. /\ UNCHANGED << Sources, Renumbered, ToClone, New >>
      /\ \A s \in Plain' : s \in Plain \/ s = Fresh
      /\ \A s \in InUse' : s \in InUse \/ s = Fresh
  <2>1. UNCHANGED << Sources, Renumbered >>
    BY <1>1 DEF Sources, Renumbered, CopyStarted, Copied
  <2>2. UNCHANGED << ToClone, New >>
    BY <1>1, <2>1 DEF ToClone, New, HasNew
  <2> QED
    BY <1>1, <1>4, <2>1, <2>2 DEF Plain, InUse, HasNew
<1>6. StoreKnown'
  BY <1>1, StoreFrame DEF KeysInv
<1>7. SearchedMarked'
  <2>1. \A s \in Listed' : s \in Sources => s \in Sources'
    BY <1>5
  <2> QED
    BY <1>1, <2>1, SearchFrame DEF KeysInv
<1>8. SupersededMarked'
  BY <1>1, <1>3, <1>5, SupersededFrame DEF KeysInv
<1>9. LatestClean'
  <2>1. \A s \in InUse \ Renumbered : \A d \in DocsIn(s) :
          docId[d] \in deletion'[s] => Marked(s, d)
    BY <1>1 DEF Marked
  <2> QED
    BY <1>1, <1>3, <1>5, <2>1, CleanFrame DEF KeysInv
<1> QED
  BY <1>6, <1>7, <1>8, <1>9 DEF KeysInv

\* The ids of a segment tell its documents apart, unless it is being copied.
LEMMA IdsDiffer ==
  ASSUME EngineInv, NEW s \in InUse \ Renumbered,
         NEW d \in DocsIn(s), NEW e \in DocsIn(s), docId[d] = docId[e]
  PROVE  d = e
<1>1. s \in Seg /\ docs \in [Seg -> Seq(Doc)]
  BY KeyFacts
<1>2. PICK i \in 1..Len(docs[s]) : docs[s][i] = d
  BY <1>1, DocsInPlaces
<1>3. PICK j \in 1..Len(docs[s]) : docs[s][j] = e
  BY <1>1, DocsInPlaces
<1>4. docId[docs[s][i]] = i /\ docId[docs[s][j]] = j
  BY DEF EngineInv, DocumentInv, Numbered
<1> QED
  BY <1>2, <1>3, <1>4

\* What a step of a remove does to the bits: only SetBit sets one, and in a
\* segment that is not renumbered that of the document at hand.
LEMMA ScanMarks ==
  ASSUME EngineInv, ScanSegment \/ TestBit \/ SetBit
  PROVE  /\ \A s \in Seg : deletion[s] \subseteq deletion'[s]
         /\ ~SetBit => deletion' = deletion
         /\ \A s \in InUse \ Renumbered : \A d \in DocsIn(s) :
              docId[d] \in deletion'[s] => Marked(s, d) \/ TaskPk = pkOf[d]
         /\ SetBit /\ removal.seg \notin Renumbered
              => docId[removal.doc] \in deletion'[removal.seg]
<1>1. ~SetBit => deletion' = deletion
  BY DEF ScanSegment, TestBit
<1>2. CASE ~SetBit
  BY <1>1, <1>2 DEF Marked
<1>3. CASE SetBit
  <2>1. /\ Removing /\ removal.seg \in Seg
        /\ removal.doc \in OfKey(removal.seg, TaskPk)
    BY <1>3, RemovalFacts
       DEF EngineInv, RemovalAtCursor, SetBit, DeleteDocument, Removing
  <2>2. PICK b \in Nat :
          /\ deletion' = [deletion EXCEPT ![removal.seg] = @ \cup {b}]
          /\ removal.seg \notin Renumbered => b = docId[removal.doc]
    BY <1>3, SetBitFacts
  <2>3. /\ deletion'[removal.seg] = deletion[removal.seg] \cup {b}
        /\ \A s \in Seg : s # removal.seg => deletion'[s] = deletion[s]
    BY <2>1, <2>2, KeyFacts
  <2>4. ASSUME NEW s \in InUse \ Renumbered, NEW d \in DocsIn(s),
               docId[d] \in deletion'[s], ~Marked(s, d)
        PROVE  TaskPk = pkOf[d]
    <3>1. s = removal.seg /\ docId[d] = b
      BY <2>3, <2>4, KeyFacts DEF Marked
    <3>2. docId[d] = docId[removal.doc] /\ removal.doc \in DocsIn(s)
      BY <2>1, <2>2, <2>4, <3>1 DEF OfKey
    <3>3. d = removal.doc
      BY <3>2, IdsDiffer
    <3> QED
      BY <2>1, <3>3 DEF OfKey
  <2> QED
    BY <1>3, <2>2, <2>3, <2>4
<1> QED
  BY <1>2, <1>3

\* Where the removal stands after a step, and that the document it has left
\* behind is marked.
LEMMA ScanLeavesMarked ==
  ASSUME EngineInv, RemovalMarked, ScanSegment \/ TestBit \/ SetBit,
         segments[cursor] \notin Sources,
         NEW d \in OfKey(segments[cursor], TaskPk)
  PROVE  \/ docId[d] \in deletion'[segments[cursor]]
         \/ /\ removal'.at # "none" /\ removal'.seg = segments[cursor]
            /\ d \in removal'.todo \cup {removal'.doc}
<1> DEFINE s0 == segments[cursor]
<1>1. /\ cursor \in Nat /\ cursor >= 1 /\ cursor <= Len(segments)
      /\ segments \in Seq(Seg)
  BY DEF EngineInv, Inv, TypeOK, EngineTypeOK, ListHead, ScanSegment, TestBit,
         SetBit, TestDocument, DeleteDocument, RemovalAtCursor, Removing
<1>2. s0 \in Seg /\ s0 \in Listed
  <2>1. cursor \in 1..Len(segments)
    BY <1>1
  <2> QED
    BY <1>1, <2>1, ListedLists DEF Lists
<1>3. s0 \notin Renumbered
  BY <1>2 DEF Renumbered, Sources, Seg, NoSeg
<1>4. ASSUME NEW D, Visit(s0, D), d \in D
      PROVE  /\ removal'.at # "none" /\ removal'.seg = s0
             /\ d \in removal'.todo \cup {removal'.doc}
  <2>1. PICK e \in D :
          removal' = [at |-> "test", seg |-> s0, doc |-> e, id |-> docId[e],
                      todo |-> D \ {e}]
    BY <1>4 DEF Visit
  <2>2. /\ removal'.at = "test" /\ removal'.seg = s0 /\ removal'.doc = e
        /\ removal'.todo = D \ {e}
    BY <2>1
  <2> QED
    BY <1>4, <2>2
<1>5. CASE ScanSegment
  BY <1>4, <1>5 DEF ScanSegment
<1>6. CASE TestBit \/ SetBit
  <2>1. /\ Removing /\ removal.seg = s0 /\ removal \in RemovalType
    BY <1>6
       DEF TestBit, SetBit, TestDocument, DeleteDocument, Removing, EngineInv,
           RemovalAtCursor, Inv, TypeOK, SegTypeOK, RemovalType, NoRemoval
  <2>2. d \in removal.todo \cup {removal.doc} \/ docId[d] \in deletion[s0]
    BY <2>1 DEF RemovalMarked, Marked
  <2>3. \A s \in Seg : deletion[s] \subseteq deletion'[s]
    BY ScanMarks
  <2>4. CASE docId[d] \in deletion[s0]
    BY <1>2, <2>3, <2>4
  <2>5. CASE d \in removal.todo /\ Visit(s0, removal.todo)
    BY <1>4, <2>5
  <2>6. CASE d = removal.doc /\ SetBit
    BY <1>3, <2>1, <2>6, ScanMarks
  <2>7. CASE TestBit
    <3>1. PICK b \in Torn(removal.id, docId[removal.doc]) :
            IF BitClear(b)
            THEN removal' = [removal EXCEPT !.at = "set",
                                          !.id = docId[removal.doc]]
            ELSE Visit(removal.seg, removal.todo)
      BY <2>7 DEF TestBit, TestDocument
    <3>2. CASE BitClear(b)
      <4>1. /\ removal'.at = "set" /\ removal'.seg = removal.seg
            /\ removal'.doc = removal.doc /\ removal'.todo = removal.todo
        BY <2>1, <3>1, <3>2 DEF RemovalType
      <4> QED
        BY <2>1, <2>2, <2>4, <4>1
    <3>3. CASE ~BitClear(b)
      <4>1. removal.id = docId[removal.doc] /\ docId[removal.doc] \in Nat
        BY <1>3, <2>1, RemovalFacts DEF EngineInv, RemovalAtCursor
      <4>2. docId[removal.doc] \in deletion[s0]
        BY <2>1, <3>1, <3>3, <4>1, TornStable DEF BitClear
      <4>3. Visit(s0, removal.todo)
        BY <2>1, <3>1, <3>3
      <4> QED
        BY <2>2, <2>4, <2>5, <4>2, <4>3
    <3> QED
      BY <3>2, <3>3
  <2>8. CASE SetBit
    <3>1. Visit(s0, removal.todo)
      BY <2>1, <2>8 DEF SetBit, DeleteDocument
    <3> QED
      BY <2>2, <2>4, <2>5, <2>6, <2>8, <3>1
  <2> QED
    BY <1>6, <2>7, <2>8
<1> QED
  BY <1>5, <1>6

LEMMA ScanKeepsKeys ==
  ASSUME EngineInv, KeysInv, RemovalMarked, ScanSegment \/ TestBit \/ SetBit,
         UNCHANGED << mergerVars, headPrev >>
  PROVE  KeysInv' /\ RemovalMarked'
<1>1. /\ UNCHANGED << pkOf, docId, docs, freedDocs, segments, store, updated,
                      merging_deletion, merge_stage, pc, task >>
      /\ pc = "scan"
      /\ cursor' = IF removal'.at = "none" THEN cursor + 1 ELSE cursor
  BY DEF ScanSegment, TestBit, SetBit, Scanned
<1>2. cursor \in Nat /\ Len(segments) \in Nat
  BY KeyFacts DEF EngineInv, Inv, TypeOK, EngineTypeOK
<1>3. TaskPk' = TaskPk
  BY <1>1 DEF TaskPk
<1>4. /\ \A s \in Seg : deletion[s] \subseteq deletion'[s]
      /\ \A s \in InUse \ Renumbered : \A d \in DocsIn(s) :
           docId[d] \in deletion'[s] => Marked(s, d) \/ TaskPk = pkOf[d]
  BY ScanMarks
<1>5. StoreKnown' /\ SupersededMarked' /\ LatestClean'
  BY <1>1, <1>3, <1>4, HandlerFrame
<1>6. Sources' = Sources /\ \A s : DocsIn(s)' = DocsIn(s)
  BY <1>1 DEF Sources, DocsIn, mergerVars
<1>7. SearchedMarked'
  <2>1. ASSUME NEW i \in 1..Len(segments), i < cursor',
               segments[i] \notin Sources,
               NEW d \in DocsIn(segments[i]), pkOf[d] = TaskPk
        PROVE  docId[d] \in deletion'[segments[i]]
    <3>1. segments[i] \in Seg
      BY KeyFacts
    <3>2. CASE i < cursor
      <4>1. Marked(segments[i], d)
        BY <1>1, <2>1, <3>2 DEF KeysInv, SearchedMarked
      <4> QED
        BY <1>4, <3>1, <4>1 DEF Marked
    <3>3. CASE i = cursor
      <4>1. removal'.at = "none"
        BY <1>1, <1>2, <2>1, <3>3
      <4>2. d \in OfKey(segments[cursor], TaskPk)
        BY <2>1, <3>3 DEF OfKey
      <4> QED
        BY <2>1, <3>3, <4>1, <4>2, ScanLeavesMarked
    <3> QED
      BY <1>1, <1>2, <2>1, <3>2, <3>3
  <2> QED
    BY <1>1, <1>3, <1>6, <2>1 DEF SearchedMarked, Marked, DocsIn
<1>8. RemovalMarked'
  <2> SUFFICES ASSUME Removing', removal'.seg \notin Sources',
                      NEW d \in OfKey(removal.seg, TaskPk)'
               PROVE  \/ d \in removal'.todo \cup {removal'.doc}
                      \/ docId'[d] \in deletion'[removal'.seg]
    BY DEF RemovalMarked, Marked
  <2>1. RemovalAtCursor'
    BY ScanKeepsRemoval
  <2>2. removal'.seg = segments[cursor] /\ cursor' = cursor
    BY <1>1, <2>1 DEF RemovalAtCursor, Removing
  <2>3. d \in OfKey(segments[cursor], TaskPk)
    BY <1>1, <1>3, <1>6, <2>2 DEF OfKey, DocsIn
  <2> QED
    BY <1>1, <1>6, <2>2, <2>3, ScanLeavesMarked
<1> QED
  BY <1>5, <1>7, <1>8 DEF KeysInv

\* A handler that has been through the list has marked its key in all of it,
\* but for what is being copied.
LEMMA SearchComplete ==
  ASSUME EngineInv, KeysInv, pc = "scan", cursor > Len(segments),
         NEW s \in Listed, s \notin Sources, NEW d \in DocsIn(s),
         pkOf[d] = TaskPk
  PROVE  Marked(s, d)
<1>1. PICK i \in 1..Len(segments) : segments[i] = s
  BY KeyFacts, ListedLists DEF Lists
<1>2. i < cursor
  BY KeyFacts
<1> QED
  BY <1>1, <1>2 DEF KeysInv, SearchedMarked

\* When no merge is under way there is nothing to copy and nothing new, and
\* when it has been through redelete the new segment is listed or empty.
LEMMA NothingToCopy ==
  ASSUME EngineInv, merge_stage \notin 1..5, pc = "scan"
  PROVE  /\ merge_stage \in {0, 6}
         /\ ToClone = {} /\ mpc # "copy" /\ Sources = {}
         /\ merge_stage = 0 => New = {}
         /\ \A s \in New : s \in Listed \/ DocsIn(s) = {}
<1>1. Inv /\ LayoutInv
  BY KeyFacts
<1>2. merge_stage \in {0, 6}
  BY <1>1 DEF Inv, TypeOK, EngineTypeOK
<1>3. ToClone = {} /\ mpc # "copy"
  BY <1>1, <1>2 DEF ToClone, Inv, StagePlace
<1>4. Sources = {}
  BY <1>1, <1>2 DEF LayoutInv, SourcesLeave, Sources
<1>5. merge_stage = 0 => New = {}
  <2>1. merge_stage = 0 => mpc = "loop"
    BY <1>1 DEF Inv, StagePlace, TypeOK, MergerTypeOK
  <2> QED
    BY <2>1 DEF New, HasNew
<1>6. ~NewPrivate
  <2>1. mpc \notin {"clone", "copy", "post"}
    BY <1>1, <1>2 DEF Inv, StagePlace
  <2> QED
    BY <1>1, <1>2, <2>1, PrivateInPhase DEF ReplacePhase
<1>7. newseg = NoSeg \/ Lists(newseg) \/ DocsIn(newseg) = {}
  BY <1>1, <1>6, RangeEmpty DEF LayoutInv, NewSegmentRole, DocsIn
<1>8. \A s \in New : s \in Listed \/ DocsIn(s) = {}
  BY <1>7, KeyFacts, ListedLists DEF New
<1> QED
  BY <1>2, <1>3, <1>4, <1>5, <1>8

\* Where the documents of the running handler's key are without a mark, the
\* merge under way is at a stage that redelete follows.
LEMMA UnmarkedInMerge ==
  ASSUME EngineInv, KeysInv, pc = "scan", cursor > Len(segments),
         NEW d \in Added, pkOf[d] = TaskPk
  PROVE  /\ \A s \in Plain : d \in DocsIn(s) => Marked(s, d)
         /\ \A s \in ToClone \cup New :
              d \in DocsIn(s) => Marked(s, d) \/ merge_stage \in 1..5
         /\ mpc = "copy" => merge_stage \in 1..5
<1>1. \A s \in Plain : d \in DocsIn(s) => Marked(s, d)
  BY SearchComplete DEF Plain
<1>2. CASE merge_stage \in 1..5
  BY <1>1, <1>2
<1>3. CASE merge_stage \notin 1..5
  <2>1. \A s \in New : s \in Listed \/ DocsIn(s) = {}
    BY <1>3, NothingToCopy
  <2>2. ToClone = {} /\ mpc # "copy" /\ Sources = {}
    BY <1>3, NothingToCopy
  <2>3. ASSUME NEW s \in New, d \in DocsIn(s) PROVE Marked(s, d)
    <3>1. s \in Listed /\ s \notin Sources
      BY <2>1, <2>2, <2>3
    <3> QED
      BY <2>3, <3>1, SearchComplete
  <2> QED
    BY <1>1, <2>2, <2>3
<1> QED
  BY <1>2, <1>3

\* The remove handler: what it could not mark is recorded.
LEMMA FinishRemoveKeepsKeys ==
  ASSUME EngineInv, KeysInv, FinishRemove, UNCHANGED << mergerVars, headPrev >>
  PROVE  KeysInv'
<1> DEFINE k == task.pk
<1>1. /\ UNCHANGED << pkOf, docId, docs, deletion, freedDocs, segments,
                      updated, merge_stage >>
      /\ UNCHANGED << mpc, mseg1, mseg2, newseg, doomed, old, snapshot, pending >>
      /\ pc = "scan" /\ pc' = "idle" /\ cursor > Len(segments)
      /\ task.kind = "remove" /\ TaskPk = k
      /\ store' = [store EXCEPT ![k] = 0]
      /\ merging_deletion' = IF Merging THEN merging_deletion \cup {k}
                                        ELSE merging_deletion
  BY DEF FinishRemove, Return, segVars, mergerVars, TaskPk
<1>2. store \in [PK -> Doc \cup {0}] /\ merge_stage \in 0..6
  BY DEF EngineInv, Inv, TypeOK, EngineTypeOK
<1>3. k \in PK
  BY <1>1 DEF EngineInv, Inv, TypeOK, EngineTypeOK, Task, ClientTask, MergerTask,
       AddTask, RemoveTask, ReplaceTask, RedeleteTask, NoTask
<1>4. store'[k] = 0 /\ \A j \in PK : j # k => store'[j] = store[j]
  BY <1>1, <1>2, <1>3
<1> HIDE DEF k
<1>5. /\ UNCHANGED << Sources, Listed, InUse, Renumbered, Added >>
      /\ UNCHANGED << Plain, ToClone, New >>
      /\ \A s : DocsIn(s)' = DocsIn(s)
  BY <1>1, SetsFrame DEF Added, DocsIn
<1>6. StoreKnown'
  BY <1>1, <1>4, <1>5 DEF KeysInv, StoreKnown
<1>7. SearchedMarked'
  BY <1>1 DEF SearchedMarked
<1>8. ASSUME NEW d \in Superseded'
      PROVE  /\ \A s \in Plain : d \in DocsIn(s) => Marked(s, d) \/ Twice(d)'
             /\ \A s \in ToClone \cup New : d \in DocsIn(s) =>
                  Marked(s, d) \/ Twice(d)' \/ Recorded(d)'
             /\ mpc = "copy" /\ d \in pending =>
                  Doomed(d) \/ Twice(d)' \/ Recorded(d)'
  <2>1. d \in Added /\ pkOf[d] \in PK /\ store'[pkOf[d]] # d
    BY <1>1, <1>5 DEF Superseded, KeysInv, StoreKnown
  <2>2. CASE pkOf[d] # k
    <3>1. store'[pkOf[d]] = store[pkOf[d]]
      BY <1>4, <2>1, <2>2
    <3>2. d \in Superseded
      BY <2>1, <3>1 DEF Superseded
    <3>3. (Twice(d) => Twice(d)') /\ (Recorded(d) => Recorded(d)')
      BY <1>1, <3>1 DEF Twice, Recorded
    <3> QED
      BY <3>2, <3>3 DEF KeysInv, SupersededMarked
  <2>3. CASE pkOf[d] = k
    <3>1. merge_stage \in 1..5 => Recorded(d)'
      BY <1>1, <2>3 DEF Recorded, Merging
    <3> QED
      BY <1>1, <2>1, <2>3, <3>1, UnmarkedInMerge
  <2> QED
    BY <2>2, <2>3
<1>9. SupersededMarked'
  BY <1>1, <1>5, <1>8 DEF SupersededMarked, Marked, Doomed
<1>10. LatestClean'
  <2>1. ASSUME NEW j \in PK \ merging_deletion', store'[j] # 0
        PROVE  Clean(store'[j])
    <3>1. j # k /\ j \in PK \ merging_deletion
      BY <1>1, <1>4, <2>1
    <3> QED
      BY <1>1, <1>4, <2>1, <3>1 DEF KeysInv, LatestClean
  <2>2. \A d : Clean(d) =>
          /\ d \notin doomed' \cup freedDocs'
          /\ \A s \in InUse' \ Renumbered' :
               d \in Range(docs'[s]) => docId'[d] \notin deletion'[s]
          /\ mpc' = "copy" /\ d \in pending' => docId'[d] \notin snapshot'
    BY <1>1, <1>5 DEF Clean, Marked, Doomed, DocsIn
  <2> QED
    BY <2>1, <2>2 DEF LatestClean, Clean, Marked, Doomed, DocsIn
<1> QED
  BY <1>6, <1>7, <1>9, <1>10 DEF KeysInv

\* The add handler: the documents its key had are marked, or superseded during
\* a merge; its own is in the active segment only and not marked.
LEMMA FinishAddKeepsKeys ==
  ASSUME EngineInv, KeysInv, FinishAdd, UNCHANGED << mergerVars, headPrev >>
  PROVE  KeysInv'
<1> DEFINE a == segment_active
           n == task.doc
           k == pkOf[task.doc]
<1>1. /\ UNCHANGED << pkOf, deletion, freedDocs, segments, merge_stage,
                      merging_deletion >>
      /\ UNCHANGED << mpc, mseg1, mseg2, newseg, doomed, old, snapshot, pending >>
      /\ pc = "scan" /\ pc' = "idle" /\ cursor > Len(segments)
      /\ task.kind = "add" /\ TaskPk = k
      /\ AddDocument(a, n)
      /\ store' = [store EXCEPT ![k] = n]
      /\ updated' = IF Merging THEN updated \cup {k} ELSE updated
  BY DEF FinishAdd, Return, mergerVars, TaskPk
<1>2. /\ store \in [PK -> Doc \cup {0}] /\ merge_stage \in 0..6
      /\ a \in Seg /\ task \in Task \cup {NoTask}
  BY DEF EngineInv, Inv, TypeOK, EngineTypeOK
<1>3. n \in Doc
  BY <1>1, <1>2 DEF Task, ClientTask, MergerTask,
       AddTask, RemoveTask, ReplaceTask, RedeleteTask, NoTask
<1>4. k \in PK /\ docId[n] = 0
  BY <1>1 DEF EngineInv, Inv, KeysKnown, DocumentInv, FreshDocuments
<1>5. n # 0 /\ n \notin Added
  BY <1>3, <1>4 DEF Added, Doc
<1> HIDE DEF a, n, k
<1>6. store'[k] = n /\ \A j \in PK : j # k => store'[j] = store[j]
  BY <1>1, <1>2, <1>4
<1>7. /\ Len(docs[a]) \in Nat
      /\ docId'[n] = Len(docs[a]) + 1
      /\ \A e \in Doc : e # n => docId'[e] = docId[e]
      /\ Range(docs'[a]) = DocsIn(a) \cup {n}
      /\ \A u \in Seg : u # a => Range(docs'[u]) = DocsIn(u)
      /\ Added' = Added \cup {n}
  BY <1>1, <1>2, <1>3, KeyFacts, AddFacts DEF DocsIn
<1>8. \A d \in Added : docId'[d] = docId[d] /\ d # n
  BY <1>5, <1>7 DEF Added
<1>9. \A s \in Seg : \A d \in Added : d \in Range(docs'[s]) <=> d \in DocsIn(s)
  BY <1>7, <1>8
<1>10. /\ UNCHANGED << Sources, Listed, InUse, Renumbered >>
       /\ UNCHANGED << Plain, ToClone, New >>
  BY <1>1, SetsFrame
<1>11. StoreKnown'
  <2>1. \A d \in Added' : pkOf'[d] \in PK
    BY <1>1, <1>4, <1>7 DEF KeysInv, StoreKnown, k, n
  <2>2. ASSUME NEW j \in PK, store'[j] # 0
        PROVE  store'[j] \in Added' /\ pkOf'[store'[j]] = j
    <3>1. CASE j = k
      BY <1>1, <1>6, <1>7, <3>1 DEF k, n
    <3>2. CASE j # k
      <4>1. store'[j] = store[j]
        BY <1>6, <3>2
      <4> QED
        BY <1>1, <1>7, <2>2, <4>1 DEF KeysInv, StoreKnown
    <3> QED
      BY <3>1, <3>2
  <2> QED
    BY <2>1, <2>2 DEF StoreKnown
<1>12. SearchedMarked'
  BY <1>1 DEF SearchedMarked
<1>13. ASSUME NEW d \in Superseded'
       PROVE  /\ d \in Added
              /\ \A s \in Plain : d \in DocsIn(s) => Marked(s, d) \/ Twice(d)'
              /\ \A s \in ToClone \cup New : d \in DocsIn(s) =>
                   Marked(s, d) \/ Twice(d)' \/ Recorded(d)'
              /\ mpc = "copy" /\ d \in pending =>
                   Doomed(d) \/ Twice(d)' \/ Recorded(d)'
  <2>1. d \in Added' /\ store'[pkOf[d]] # d
    BY <1>1 DEF Superseded
  <2>2. d # n
    BY <1>6, <2>1 DEF k, n
  <2>3. d \in Added /\ pkOf[d] \in PK
    BY <1>7, <2>1, <2>2 DEF KeysInv, StoreKnown
  <2>4. CASE pkOf[d] # k
    <3>1. store'[pkOf[d]] = store[pkOf[d]]
      BY <1>6, <2>3, <2>4
    <3>2. d \in Superseded
      BY <2>1, <2>3, <3>1 DEF Superseded
    <3>3. (Twice(d) => Twice(d)') /\ (Recorded(d) => Recorded(d)')
      BY <1>1, <3>1 DEF Twice, Recorded
    <3> QED
      BY <2>3, <3>2, <3>3 DEF KeysInv, SupersededMarked
  <2>5. CASE pkOf[d] = k /\ Merging
    <3>1. Twice(d)'
      BY <1>1, <1>5, <1>6, <2>5 DEF Twice
    <3> QED
      BY <2>3, <3>1
  <2>6. CASE pkOf[d] = k /\ ~Merging
    <3>1. merge_stage \notin 1..5
      BY <2>6 DEF Merging
    <3> QED
      BY <1>1, <2>3, <2>6, <3>1, UnmarkedInMerge
  <2> QED
    BY <2>4, <2>5, <2>6
<1>14. SupersededMarked'
  <2>1. ASSUME NEW d \in Superseded'
        PROVE  /\ \A s \in Plain' : d \in Range(docs'[s]) =>
                    docId'[d] \in deletion'[s] \/ Twice(d)'
               /\ \A s \in ToClone' \cup New' : d \in Range(docs'[s]) =>
                    docId'[d] \in deletion'[s] \/ Twice(d)' \/ Recorded(d)'
               /\ mpc' = "copy" /\ d \in pending' =>
                    docId'[d] \in snapshot' \/ Twice(d)' \/ Recorded(d)'
    <3>1. d \in Added /\ docId'[d] = docId[d]
      BY <1>8, <1>13
    <3>2. \A s \in Plain \cup ToClone \cup New :
            d \in Range(docs'[s]) <=> d \in DocsIn(s)
      BY <1>9, <3>1, PlacesInUse
    <3> QED
      BY <1>1, <1>10, <1>13, <3>1, <3>2 DEF Marked, Doomed
  <2> QED
    BY <2>1 DEF SupersededMarked, Marked, Doomed, DocsIn
<1>15. \A s \in InUse : n \notin DocsIn(s)
  BY <1>5, KeyFacts
<1>16. LatestClean'
  <2>1. ASSUME NEW j \in PK \ merging_deletion', store'[j] # 0
        PROVE  /\ store'[j] \notin doomed \cup freedDocs
               /\ \A s \in InUse \ Renumbered :
                    store'[j] \in Range(docs'[s])
                      => docId'[store'[j]] \notin deletion[s]
               /\ mpc = "copy" /\ store'[j] \in pending
                    => docId'[store'[j]] \notin snapshot
    <3>1. CASE j = k
      <4>1. n \notin doomed \cup freedDocs
        BY <1>5 DEF EngineInv, DocumentInv, DoomedNowhere
      <4>2. mpc = "copy" => n \notin pending
        <5>1. mpc = "copy" => old \in Sources
          BY KeyFacts, CopyingFacts
        <5> QED
          BY <1>15, <5>1, KeyFacts DEF EngineInv, DocumentInv, CopiedFromSecond
      <4>3. ASSUME NEW s \in InUse \ Renumbered, n \in Range(docs'[s])
            PROVE  docId'[n] \notin deletion[s]
        <5>1. s \in Seg
          BY KeyFacts
        <5>2. s = a
          BY <1>7, <1>15, <4>3, <5>1
        <5>3. deletion[a] \subseteq 1..Len(docs[a])
          <6>1. Lists(a) /\ a \notin Renumbered
            BY <4>3, <5>2 DEF EngineInv, LayoutInv, ListStates, a
          <6> QED
            BY <1>2, <6>1, KeyFacts, CountedListed
        <5> QED
          BY <1>7, <5>2, <5>3
      <4> QED
        BY <1>6, <3>1, <4>1, <4>2, <4>3
    <3>2. CASE j # k
      <4>1. store'[j] = store[j] /\ store[j] \in Added
        BY <1>6, <2>1, <3>2 DEF KeysInv, StoreKnown
      <4>2. Clean(store[j])
        BY <1>1, <2>1, <3>2, <4>1 DEF KeysInv, LatestClean
      <4>3. docId'[store[j]] = docId[store[j]]
        BY <1>8, <4>1
      <4>4. \A s \in InUse : store[j] \in Range(docs'[s])
                               <=> store[j] \in DocsIn(s)
        BY <1>9, <4>1, KeyFacts
      <4> QED
        BY <4>1, <4>2, <4>3, <4>4 DEF Clean, Marked, Doomed
    <3> QED
      BY <3>1, <3>2
  <2> QED
    BY <1>1, <1>10, <2>1 DEF LatestClean, Clean, Marked, Doomed, DocsIn
<1> QED
  BY <1>11, <1>12, <1>14, <1>16 DEF KeysInv

-----------------------------------------------------------------------------
(* The merger's handlers.                                                  *)

\* The keys that were recorded are marked in the new segment, and nothing else
\* is.
LEMMA FinishRedeleteKeepsKeys ==
  ASSUME EngineInv, KeysInv, FinishRedelete
  PROVE  KeysInv'
<1>1. /\ UNCHANGED << pkOf, docId, docs, freedDocs, segments, store, updated,
                      merging_deletion >>
      /\ UNCHANGED << mpc, mseg1, mseg2, newseg, doomed, old, snapshot, pending >>
      /\ deletion' = [deletion EXCEPT ![newseg] = @ \cup Redeleted]
      /\ pc = "redelete" /\ pc' = "idle" /\ merge_stage' = 6
  BY DEF FinishRedelete, Return, mergerVars
<1>2. /\ \/ mpc = "reposted" /\ merge_stage = 4
         \/ mpc = "loop" /\ merge_stage = 5
      /\ newseg \in Seg
  BY <1>1 DEF EngineInv, Inv, OneMergerTask, RedeleteRuns, RedeletePhase, StagePlace
<1>3. mseg1 = NoSeg /\ mseg2 = NoSeg /\ Sources = {}
  BY <1>2 DEF EngineInv, LayoutInv, SourcesLeave, Sources
<1>4. newseg \in InUse \ Renumbered /\ New = {newseg}
  <2>1. newseg # NoSeg
    BY <1>2, KeyFacts
  <2>2. HasNew
    BY <1>2 DEF HasNew
  <2> QED
    BY <1>2, <1>3, <2>1, <2>2 DEF InUse, Renumbered, New
<1>5. /\ UNCHANGED << Sources, Listed, InUse, Renumbered, Plain, New >>
      /\ ToClone' = {} /\ mpc' # "copy"
  <2>1. UNCHANGED << Sources, Listed, InUse >>
    BY <1>1 DEF Sources, Listed, InUse
  <2>2. HasNew /\ HasNew' /\ CopyStarted /\ CopyStarted'
    BY <1>1, <1>2 DEF HasNew, CopyStarted, Copied
  <2>3. UNCHANGED << Renumbered, Plain, New >>
    BY <1>1, <2>1, <2>2 DEF Renumbered, Plain, New
  <2> QED
    BY <1>1, <1>2, <2>1, <2>3 DEF ToClone
<1>6. /\ deletion'[newseg] = deletion[newseg] \cup Redeleted
      /\ \A s \in Seg : s # newseg => deletion'[s] = deletion[s]
  BY <1>1, <1>2, KeyFacts
<1>7. \A s \in Seg : deletion[s] \subseteq deletion'[s]
  BY <1>6
<1>8. UNCHANGED Added /\ \A s : DocsIn(s)' = DocsIn(s)
  BY <1>1 DEF Added, DocsIn
<1>9. StoreKnown'
  BY <1>1, StoreFrame DEF KeysInv
<1>10. SearchedMarked'
  BY <1>1 DEF SearchedMarked
<1>11. SupersededMarked'
  <2>1. ASSUME NEW d \in Superseded
        PROVE  /\ \A s \in Plain : d \in DocsIn(s) =>
                    docId[d] \in deletion'[s] \/ Twice(d)
               /\ d \in DocsIn(newseg) =>
                    docId[d] \in deletion'[newseg] \/ Twice(d)
    <3>1. \A s \in Plain : d \in DocsIn(s) => Marked(s, d) \/ Twice(d)
      BY DEF KeysInv, SupersededMarked
    <3>2. d \in DocsIn(newseg) => Marked(newseg, d) \/ Twice(d) \/ Recorded(d)
      BY <1>4 DEF KeysInv, SupersededMarked
    <3>3. ASSUME d \in DocsIn(newseg), pkOf[d] \in merging_deletion
          PROVE  docId[d] \in deletion'[newseg]
      <4>1. docId[d] \in {docId[e] : e \in {c \in DocsIn(newseg) :
                                              pkOf[c] = pkOf[d]}}
        BY <3>3
      <4>2. docId[d] \in deletion[newseg]
              \/ docId[d] \in Undeleted(newseg, pkOf[d])
        BY <4>1 DEF Undeleted, OfKey
      <4> QED
        BY <1>6, <3>3, <4>2 DEF Redeleted
    <3> QED
      BY <1>2, <1>7, <3>1, <3>2, <3>3, PlacesInUse DEF Marked, Recorded
  <2>2. Superseded' = Superseded
    BY <1>1, <1>8 DEF Superseded
  <2>3. \A d : Twice(d)' <=> Twice(d)
    BY <1>1 DEF Twice
  <2> QED
    BY <1>1, <1>4, <1>5, <1>8, <2>1, <2>2, <2>3
       DEF SupersededMarked, Marked, Doomed
<1>12. LatestClean'
  <2>1. ASSUME NEW s \in InUse \ Renumbered, NEW d \in DocsIn(s),
               docId[d] \in deletion'[s], ~Marked(s, d)
        PROVE  pkOf[d] \in merging_deletion
    <3>1. s = newseg /\ docId[d] \in Redeleted
      BY <1>6, <2>1, KeyFacts DEF Marked
    <3>2. PICK k \in merging_deletion : docId[d] \in Undeleted(newseg, k)
      BY <3>1 DEF Redeleted
    <3>3. PICK e \in DocsIn(newseg) : pkOf[e] = k /\ docId[e] = docId[d]
      BY <3>2 DEF Undeleted, OfKey
    <3>4. e = d
      BY <3>1, <3>3, IdsDiffer
    <3> QED
      BY <3>3, <3>4
  <2> QED
    BY <1>1, <1>5, <2>1, CleanFrame DEF KeysInv
<1> QED
  BY <1>9, <1>10, <1>11, <1>12 DEF KeysInv

-----------------------------------------------------------------------------
(* `replace' and the merge thread.                                         *)

\* A step of the merge that copies no document.
LEMMA MergeFrame ==
  ASSUME EngineInv, KeysInv,
         UNCHANGED << pkOf, docId, docs, deletion, store, updated,
                      merging_deletion >>,
         pc' = "scan" => pc = "scan" /\ UNCHANGED << segments, cursor, task >>,
         pc = "scan" => pc' = "scan",
         \A s \in Listed' : s \in Sources => s \in Sources',
         merge_stage \in 1..5 =>
           \/ merge_stage' \in 1..5
           \/ mpc' # "copy" /\ \A s \in ToClone' \cup New' : DocsIn(s) = {},
         \A s \in Plain' : s \in Plain \/ (s \in New /\ merge_stage \notin 1..5),
         \A s \in ToClone' \cup New' :
           s \in Plain \cup ToClone \cup New \/ DocsIn(s) = {},
         \A s \in InUse' \ Renumbered' :
           s \in InUse \ Renumbered \/ DocsIn(s) = {},
         doomed' \cup freedDocs' \subseteq doomed \cup freedDocs
           \cup (IF mpc = "copy" THEN {d \in pending : Doomed(d)} ELSE {}),
         mpc' = "copy" =>
           \/ /\ mpc = "copy" /\ pending' \subseteq pending
              /\ UNCHANGED snapshot
           \/ /\ old \in ToClone /\ old \notin Renumbered
              /\ pending' = DocsIn(old) /\ snapshot' = deletion[old]
  PROVE  KeysInv'
<1>1. StoreKnown'
  BY StoreFrame DEF KeysInv
<1>2. pc' = "scan" => TaskPk' = TaskPk
  BY DEF TaskPk
<1>3. SearchedMarked'
  BY <1>2, SearchFrame DEF KeysInv
<1>4. SupersededMarked'
  BY SupersededFrame DEF KeysInv
<1>5. LatestClean'
  <2>1. \A s \in InUse \ Renumbered : \A d \in DocsIn(s) :
          docId[d] \in deletion'[s] => Marked(s, d)
    BY DEF Marked
  <2>2. ToClone \subseteq InUse
    BY KeyFacts, PlacesInUse
  <2> QED
    BY <1>2, <2>1, <2>2, CleanFrame DEF KeysInv
<1> QED
  BY <1>1, <1>3, <1>4, <1>5 DEF KeysInv

\* The merge's sets of segments at the stages that do not copy.
LEMMA NothingToClone ==
  ASSUME mpc \notin {"clone", "copy"}, merge_stage # 1 \/ mpc # "loop"
  PROVE  ToClone = {}
  BY DEF ToClone

LEMMA ReplaceDeleteKeepsKeys ==
  ASSUME EngineInv, KeysInv, ReplaceDelete1 \/ ReplaceDelete2
  PROVE  KeysInv'
<1>1. /\ UNCHANGED << pkOf, docId, docs, deletion, freedDocs, store, updated,
                      merging_deletion, merge_stage, task >>
      /\ UNCHANGED << mpc, mseg1, mseg2, newseg, doomed, old, snapshot, pending >>
      /\ pc \in {"delete1", "delete2"} /\ pc' # "scan"
  BY DEF ReplaceDelete1, ReplaceDelete2, ReplaceDelete, segVars, mergerVars
<1>2. ReplaceRuns /\ Inv /\ LayoutInv
  BY <1>1, KeyFacts DEF ReplaceRuns
<1>3. mpc # "copy"
  BY <1>2, ReplaceFacts
<1>4. Listed' \subseteq Listed
  <2>1. CASE UNCHANGED segments
    BY <2>1 DEF Listed
  <2>2. CASE ReplaceDelete1 /\ segments' = RemoveAt(segments, PlaceInList(mseg1))
    <3>1. Lists(mseg1)
      BY <1>2, <2>2 DEF ReplaceDelete1, ReplaceDelete, Inv, SourcesListed,
                        ReplaceToCome
    <3> QED
      BY <1>2, <2>2, <3>1, KeyFacts, DeleteListed DEF Inv
  <2>3. CASE ReplaceDelete2 /\ segments' = RemoveAt(segments, PlaceInList(mseg2))
    <3>1. Lists(mseg2)
      BY <1>2, <2>3 DEF ReplaceDelete2, ReplaceDelete, Inv, SourcesListed
    <3> QED
      BY <1>2, <2>3, <3>1, KeyFacts, DeleteListed DEF Inv
  <2> QED
    BY <2>1, <2>2, <2>3 DEF ReplaceDelete1, ReplaceDelete2, ReplaceDelete
<1>5. /\ UNCHANGED << Sources, Renumbered, ToClone, New >>
      /\ Plain' \subseteq Plain /\ InUse' \subseteq InUse
  <2>1. UNCHANGED << Sources, Renumbered >>
    BY <1>1 DEF Sources, Renumbered, CopyStarted, Copied
  <2>2. UNCHANGED << ToClone, New >>
    BY <1>1, <2>1 DEF ToClone, New, HasNew
  <2> QED
    BY <1>1, <1>4, <2>1, <2>2 DEF Plain, InUse, HasNew
<1> QED
  BY <1>1, <1>3, <1>5, MergeFrame

\* The new segment joins the list; it is no plain one before the reset.
LEMMA FinishReplaceKeepsKeys ==
  ASSUME EngineInv, KeysInv, FinishReplace
  PROVE  KeysInv'
<1>1. /\ UNCHANGED << pkOf, docId, docs, deletion, freedDocs, store, updated,
                      merging_deletion >>
      /\ UNCHANGED << mpc, mseg1, mseg2, newseg, doomed, old, snapshot, pending >>
      /\ pc = "prepend" /\ pc' = "idle" /\ merge_stage' = 3
      /\ \/ segments' = << newseg >> \o segments
         \/ UNCHANGED segments
  BY DEF FinishReplace, Return, mergerVars
<1>2. /\ ReplaceRuns /\ Copied /\ merge_stage \in {1, 2}
      /\ mpc \notin {"clone", "copy", "post"}
      /\ newseg \in Seg /\ newseg # NoSeg
  BY <1>1, KeyFacts, ReplaceFacts DEF ReplaceRuns
<1>3. HasNew /\ HasNew' /\ Copied' /\ CopyStarted /\ CopyStarted'
  BY <1>1, <1>2 DEF HasNew, Copied, CopyStarted
<1>4. Listed' \subseteq Listed \cup {newseg}
  <2>1. CASE segments' = << newseg >> \o segments
    BY <1>2, <2>1, KeyFacts, PrependListed
  <2>2. CASE UNCHANGED segments
    BY <2>2 DEF Listed
  <2> QED
    BY <1>1, <2>1, <2>2
<1>5. UNCHANGED << Sources, Renumbered, New >>
  BY <1>1, <1>3 DEF Sources, Renumbered, New
<1>6. Plain' \subseteq Plain
  BY <1>1, <1>3, <1>4, <1>5 DEF Plain
<1>7. InUse' \subseteq InUse
  BY <1>1, <1>2, <1>4, <1>5 DEF InUse
<1>8. ToClone' = {}
  BY <1>1 DEF ToClone
<1> QED
  BY <1>1, <1>2, <1>5, <1>6, <1>7, <1>8, MergeFrame

\* The two segments chosen were plain ones, and are to be cloned.
LEMMA CheckKeepsKeys ==
  ASSUME EngineInv, KeysInv, Check
  PROVE  KeysInv'
<1>1. /\ UNCHANGED << pkOf, docId, docs, deletion, freedDocs, store, updated,
                      merging_deletion, segments, pc, task, cursor >>
      /\ UNCHANGED << mpc, newseg, doomed, old, snapshot, pending >>
      /\ mpc = "loop" /\ merge_stage = 0 /\ merge_stage' = 1
      /\ mseg1' \in Listed /\ mseg2' \in Listed
  <2>1. PICK i, j \in 1..Len(segments) :
          mseg1' = segments[i] /\ mseg2' = segments[j]
    BY DEF Check
  <2>2. mseg1' \in Listed /\ mseg2' \in Listed
    BY <2>1, KeyFacts, ListedLists DEF Lists
  <2> QED
    BY <2>2 DEF Check, Unmerge, segVars
<1>2. mseg1 = NoSeg /\ mseg2 = NoSeg /\ Sources = {}
  BY <1>1 DEF EngineInv, LayoutInv, SourcesLeave, Sources
<1>3. /\ ~HasNew /\ ~HasNew'
      /\ ~CopyStarted /\ ~CopyStarted'
  BY <1>1 DEF HasNew, CopyStarted, Copied
<1>4. Listed' = Listed /\ Sources' \subseteq Listed
  BY <1>1 DEF Listed, Sources
<1>5. /\ Renumbered = {} /\ Renumbered' = {} /\ New' = {}
      /\ Plain = Listed /\ Plain' \subseteq Listed
      /\ InUse' \subseteq InUse
  BY <1>1, <1>2, <1>3, <1>4 DEF Renumbered, New, Plain, InUse
<1>6. ToClone' \subseteq Listed
  BY <1>4 DEF ToClone
<1> QED
  BY <1>1, <1>2, <1>5, <1>6, MergeFrame

LEMMA BeginMigrateKeepsKeys ==
  ASSUME EngineInv, KeysInv, BeginMigrate
  PROVE  KeysInv'
<1>1. /\ UNCHANGED << pkOf, docId, docs, deletion, freedDocs, store, updated,
                      merging_deletion, segments, pc, task, cursor,
                      merge_stage >>
      /\ UNCHANGED << mseg1, mseg2, snapshot, pending >>
      /\ mpc = "loop" /\ merge_stage = 1
      /\ newseg' = nsegs + 1 /\ nsegs < MaxSeg
      /\ doomed' = {} /\ old' = mseg1 /\ mpc' = "clone"
  BY DEF BeginMigrate, Unmerge, NewSegment, Fresh
<1>2. DocsIn(newseg') = {}
  <2>1. nsegs + 1 \in Seg /\ nsegs + 1 > nsegs
    BY <1>1, MaxSegAssumption DEF EngineInv, Inv, TypeOK, SegTypeOK, Seg
  <2> QED
    BY <1>1, <2>1, RangeEmpty DEF EngineInv, LayoutInv, Allocated, DocsIn
<1>3. ~HasNew /\ ~CopyStarted /\ ~CopyStarted'
  BY <1>1 DEF HasNew, CopyStarted, Copied
<1>4. Listed' = Listed /\ Sources' = Sources
  BY <1>1 DEF Listed, Sources
<1>5. /\ Renumbered = {} /\ Renumbered' = {}
      /\ New' \subseteq {newseg'}
      /\ Plain' \subseteq Plain
      /\ InUse' \subseteq InUse \cup {newseg'}
  BY <1>1, <1>3, <1>4 DEF Renumbered, New, Plain, InUse
<1>6. ToClone' \subseteq ToClone
  BY <1>1, <1>4 DEF ToClone
<1> QED
  BY <1>1, <1>2, <1>4, <1>5, <1>6, MergeFrame

LEMMA CloneDeletionKeepsKeys ==
  ASSUME EngineInv, KeysInv, CloneDeletion
  PROVE  KeysInv'
<1>1. /\ UNCHANGED << pkOf, docId, docs, deletion, freedDocs, store, updated,
                      merging_deletion, segments, pc, task, cursor,
                      merge_stage >>
      /\ UNCHANGED << mseg1, mseg2, newseg, doomed, old >>
      /\ mpc = "clone" /\ mpc' = "copy"
      /\ snapshot' = deletion[old] /\ pending' = DocsIn(old)
  BY DEF CloneDeletion, Unmerge, segVars
<1>2. /\ merge_stage = 1 /\ mseg1 # mseg2
      /\ mseg1 \in Sources /\ mseg2 \in Sources
      /\ old \in {mseg1, mseg2}
  BY <1>1, KeyFacts, CopyingFacts
<1>3. ~CopyStarted /\ HasNew /\ HasNew'
  BY <1>1, <1>2 DEF CopyStarted, Copied, HasNew
<1>4. UNCHANGED << Sources, Listed, InUse >>
  BY <1>1 DEF Sources, Listed, InUse
<1>5. Renumbered = {} /\ UNCHANGED << Plain, New >>
  BY <1>1, <1>3, <1>4 DEF Renumbered, Plain, New
<1>6. old \in ToClone /\ ToClone' \subseteq ToClone
  BY <1>1, <1>2, <1>4 DEF ToClone
<1> QED
  BY <1>1, <1>2, <1>4, <1>5, <1>6, MergeFrame

\* A document deleted when the bitmap was cloned joins the deleted ones.
LEMMA DoomKeepsKeys ==
  ASSUME EngineInv, KeysInv, CopyDocument, UNCHANGED << docs, docId >>,
         NEW d \in pending, Doomed(d),
         pending' = pending \ {d}, doomed' = doomed \cup {d}
  PROVE  KeysInv'
<1>1. /\ UNCHANGED << pkOf, deletion, freedDocs, store, updated,
                      merging_deletion, segments, pc, task, cursor,
                      merge_stage >>
      /\ UNCHANGED << mpc, mseg1, mseg2, newseg, old, snapshot >>
      /\ mpc = "copy"
  BY DEF CopyDocument, Unmerge
<1>2. /\ UNCHANGED << Sources, Listed, InUse, Renumbered >>
      /\ UNCHANGED << Plain, ToClone, New >>
  BY <1>1, SetsFrame
<1> QED
  BY <1>1, <1>2, MergeFrame

\* The clone of a bitmap is destroyed, and the next taken, or none.
LEMMA EndSourceKeepsKeys ==
  ASSUME EngineInv, KeysInv, EndSource
  PROVE  KeysInv'
<1>1. /\ UNCHANGED << pkOf, docId, docs, deletion, freedDocs, store, updated,
                      merging_deletion, segments, pc, task, cursor,
                      merge_stage >>
      /\ UNCHANGED << mseg1, mseg2, newseg, doomed, pending >>
      /\ mpc = "copy"
      /\ \/ old = mseg1 /\ old' = mseg2 /\ mpc' = "clone"
         \/ old # mseg1 /\ mpc' = "post"
  BY DEF EndSource, Unmerge, segVars
<1>2. merge_stage = 1 /\ mseg1 # mseg2 /\ old \in {mseg1, mseg2}
  BY <1>1, KeyFacts, CopyingFacts
<1>3. HasNew /\ HasNew' /\ (CopyStarted' <=> CopyStarted)
  BY <1>1, <1>2 DEF CopyStarted, Copied, HasNew
<1>4. UNCHANGED << Sources, Listed, InUse >>
  BY <1>1 DEF Sources, Listed, InUse
<1>5. UNCHANGED << Renumbered, Plain, New >>
  BY <1>1, <1>3, <1>4 DEF Renumbered, Plain, New
<1>6. ToClone' \subseteq ToClone
  BY <1>1, <1>2, <1>4 DEF ToClone
<1> QED
  BY <1>1, <1>2, <1>4, <1>5, <1>6, MergeFrame

\* Posting and writing the stage: the copy is complete.
LEMMA PostKeepsKeys ==
  ASSUME EngineInv, KeysInv,
         PostReplace \/ PostRedelete \/ WriteStage2 \/ WriteStage5
  PROVE  KeysInv'
<1>1. /\ UNCHANGED << pkOf, docId, docs, deletion, freedDocs, store, updated,
                      merging_deletion, segments, pc, task, cursor >>
      /\ UNCHANGED << mseg1, mseg2, newseg, doomed, old, snapshot, pending >>
      /\ mpc' \in {"loop", "posted", "reposted"} /\ mpc # "copy"
  BY DEF PostReplace, PostRedelete, WriteStage2, WriteStage5, Post, WriteStage,
         Unmerge, segVars
<1>2. \/ mpc = "post" /\ mpc' = "posted" /\ merge_stage = 1 /\ merge_stage' = 1
      \/ mpc = "posted" /\ mpc' = "loop" /\ merge_stage' = 2
           /\ merge_stage \in {1, 3}
      \/ mpc = "loop" /\ mpc' = "reposted" /\ merge_stage = 4 /\ merge_stage' = 4
      \/ mpc = "reposted" /\ mpc' = "loop" /\ merge_stage' = 5
           /\ merge_stage \in {4, 6}
  BY DEF PostReplace, PostRedelete, WriteStage2, WriteStage5, Post, WriteStage,
         EngineInv, Inv, StagePlace
<1>3. HasNew /\ HasNew' /\ CopyStarted /\ CopyStarted'
  BY <1>2 DEF HasNew, CopyStarted, Copied
<1>4. UNCHANGED << Sources, Listed, InUse >>
  BY <1>1 DEF Sources, Listed, InUse
<1>5. UNCHANGED << Renumbered, Plain, New >> /\ ToClone' = {}
  BY <1>1, <1>2, <1>3, <1>4 DEF Renumbered, Plain, New, ToClone
<1>6. merge_stage' \in 1..5 /\ mpc' # "copy"
  BY <1>1, <1>2
<1> QED
  BY <1>1, <1>4, <1>5, <1>6, MergeFrame

\* When a source is freed the copies of its documents get the new segment to
\* themselves.
LEMMA ReleaseSourceKeepsKeys ==
  ASSUME EngineInv, KeysInv, Release1 \/ Release2
  PROVE  KeysInv'
<1>1. /\ UNCHANGED << pkOf, docId, docs, deletion, freedDocs, store, updated,
                      merging_deletion, segments, pc, task, cursor,
                      merge_stage >>
      /\ UNCHANGED << newseg, doomed, old, snapshot, pending >>
      /\ mpc' \in {"release2", "release3"} /\ mpc \in {"loop", "release2"}
      /\ merge_stage = 3
      /\ mseg1' \in {mseg1, NoSeg} /\ mseg2' \in {mseg2, NoSeg}
  BY DEF Release1, Release2, Unmerge, EngineInv, Inv, StagePlace
<1>2. HasNew /\ HasNew' /\ CopyStarted /\ CopyStarted'
  BY <1>1 DEF HasNew, CopyStarted, Copied
<1>3. Listed' = Listed /\ Sources' \subseteq Sources
  BY <1>1 DEF Listed, Sources
<1>4. mseg1 \notin Listed /\ mseg2 \notin Listed
  BY <1>1, KeyFacts, ListedLists DEF EngineInv, LayoutInv, SourcesLeave
<1>5. New' = New /\ Plain' \subseteq Plain /\ ToClone' = {}
  BY <1>1, <1>2, <1>3, <1>4 DEF New, Plain, ToClone, Sources
<1>6. newseg = NoSeg \/ newseg \in Listed \/ DocsIn(newseg) = {}
  <2>1. ~NewPrivate
    <3>1. ~ReplacePhase /\ mpc \notin {"clone", "copy", "post"}
      BY <1>1 DEF ReplacePhase
    <3> QED
      BY <3>1, KeyFacts, PrivateInPhase
  <2> QED
    BY <2>1, KeyFacts, ListedLists, RangeEmpty
       DEF EngineInv, LayoutInv, NewSegmentRole, DocsIn
<1>7. ASSUME NEW s \in InUse' \ Renumbered'
      PROVE  s \in InUse \ Renumbered \/ DocsIn(s) = {}
  <2>1. s \in InUse
    BY <1>1, <1>3, <1>7 DEF InUse
  <2>2. CASE s = mseg2
    <3>1. s # NoSeg /\ s \notin Listed
      BY <1>4, <2>1, <2>2, KeyFacts
    <3>2. mseg2' # s
      BY <1>2, <1>7 DEF Renumbered
    <3>3. s \notin Sources'
      <4>1. mseg1 # mseg2
        BY <2>2, <3>1 DEF EngineInv, LayoutInv, SourcesLeave
      <4> QED
        BY <1>1, <2>2, <3>1, <3>2, <4>1 DEF Sources
    <3>4. s = newseg
      BY <1>1, <1>3, <1>7, <3>1, <3>3 DEF InUse
    <3> QED
      BY <1>6, <3>1, <3>4
  <2>3. CASE s # mseg2
    BY <2>1, <2>3 DEF Renumbered
  <2> QED
    BY <2>2, <2>3
<1> QED
  BY <1>1, <1>3, <1>4, <1>5, <1>7, MergeFrame DEF Sources

\* The documents deleted before the merge are freed; an empty new segment is
\* as good as none.
LEMMA Release3KeepsKeys ==
  ASSUME EngineInv, KeysInv, Release3
  PROVE  KeysInv'
<1>1. /\ UNCHANGED << pkOf, docId, docs, deletion, store, updated,
                      merging_deletion, segments, pc, task, cursor >>
      /\ UNCHANGED << mseg1, mseg2, newseg, doomed, old, snapshot, pending >>
      /\ mpc' = "loop" /\ mpc = "release3" /\ merge_stage = 3
      /\ freedDocs' \subseteq freedDocs \cup doomed
      /\ \/ merge_stage' \in {3, 4}
         \/ merge_stage' = 6 /\ docs[newseg] = << >>
  BY DEF Release3, Joins, Unmerge, EngineInv, Inv, StagePlace
<1>2. HasNew /\ HasNew' /\ CopyStarted /\ CopyStarted'
  BY <1>1 DEF HasNew, CopyStarted, Copied
<1>3. UNCHANGED << Sources, Listed, InUse >>
  BY <1>1 DEF Sources, Listed, InUse
<1>4. UNCHANGED << Renumbered, Plain, New >> /\ ToClone' = {}
  BY <1>1, <1>2, <1>3 DEF Renumbered, Plain, New, ToClone
<1>5. merge_stage' = 6 => \A s \in New' : DocsIn(s) = {}
  BY <1>1, <1>4, RangeEmpty DEF New, DocsIn
<1> QED
  BY <1>1, <1>3, <1>4, <1>5, MergeFrame

\* The new segment becomes one like the others.
LEMMA ResetKeepsKeys ==
  ASSUME EngineInv, KeysInv, Reset
  PROVE  KeysInv'
<1>1. /\ UNCHANGED << pkOf, docId, docs, deletion, freedDocs, store, updated,
                      merging_deletion, segments, pc, task, cursor >>
      /\ UNCHANGED << mpc, mseg1, mseg2, newseg, old, snapshot, pending >>
      /\ mpc = "loop" /\ merge_stage = 6 /\ merge_stage' = 0 /\ doomed' = {}
  BY DEF Reset, Unmerge, segVars
<1>2. HasNew /\ ~HasNew' /\ ~CopyStarted'
  BY <1>1 DEF HasNew, CopyStarted, Copied
<1>3. UNCHANGED << Sources, Listed, InUse >>
  BY <1>1 DEF Sources, Listed, InUse
<1>4. mseg2 = NoSeg
  BY <1>1 DEF EngineInv, LayoutInv, SourcesLeave
<1>5. InUse' \ Renumbered' \subseteq InUse \ Renumbered
  BY <1>3, <1>4, KeyFacts DEF Renumbered
<1>6. New' = {} /\ ToClone' = {}
  BY <1>1, <1>2 DEF New, ToClone
<1>7. \A s \in Plain' : s \in Plain \/ s \in New
  <2>1. \A s \in Plain' : s \in Listed /\ s \notin Sources /\ s # NoSeg
    BY <1>3, KeyFacts DEF Plain
  <2> QED
    BY <1>2, <2>1 DEF Plain, New
<1> QED
  BY <1>1, <1>3, <1>5, <1>6, <1>7, MergeFrame

\* A document not marked when the bitmap was cloned is copied and gets a new
\* id, which is not among the marks of the new segment.
LEMMA CopyKeepsKeys ==
  ASSUME EngineInv, KeysInv, CopyDocument, old = mseg2,
         NEW d \in pending, ~Doomed(d), pending' = pending \ {d},
         AddDocument(newseg, d), UNCHANGED doomed
  PROVE  KeysInv'
<1>1. /\ UNCHANGED << pkOf, deletion, freedDocs, store, updated,
                      merging_deletion, segments, pc, task, cursor,
                      merge_stage >>
      /\ UNCHANGED << mpc, mseg1, mseg2, newseg, old, snapshot >>
      /\ mpc = "copy"
  BY DEF CopyDocument, Unmerge
<1>2. /\ merge_stage = 1 /\ mseg1 # mseg2
      /\ mseg2 \in Seg /\ newseg \in Seg /\ mseg2 \in Sources
  BY <1>1, KeyFacts, CopyingFacts
<1>3. /\ UNCHANGED << Sources, Listed, InUse, Renumbered >>
      /\ UNCHANGED << Plain, ToClone, New >>
  BY <1>1, SetsFrame
<1>4. ~Lists(newseg) /\ newseg \notin Sources
  BY <1>1 DEF EngineInv, LayoutInv, NewSegmentRole, NewPrivate, Inv,
              NewSegmentPrivate
<1>5. /\ ToClone = {} /\ New = {newseg} /\ Renumbered = {mseg2}
      /\ newseg \notin Listed /\ newseg # mseg2
      /\ newseg \in InUse /\ mseg2 \in InUse
  <2>1. newseg # NoSeg
    BY <1>2, KeyFacts
  <2>2. newseg \notin Listed
    BY <1>4, KeyFacts, ListedLists
  <2> QED
    BY <1>1, <1>2, <1>4, <2>1, <2>2
       DEF ToClone, New, HasNew, Renumbered, CopyStarted, InUse
<1>6. /\ d \in DocsIn(mseg2) /\ d \notin DocsIn(newseg) /\ d \notin doomed
      /\ d \in Doc /\ d \in Added
  <2>1. d \in DocsIn(mseg2) /\ d \notin DocsIn(newseg) /\ d \notin doomed
    BY <1>1 DEF EngineInv, DocumentInv, CopiedFromSecond, Moved
  <2>2. d \in Added
    BY <1>2, <2>1, KeyFacts
  <2> QED
    BY <2>1, <2>2 DEF Added
<1>7. /\ Len(docs[newseg]) \in Nat
      /\ docId'[d] = Len(docs[newseg]) + 1
      /\ \A e \in Doc : e # d => docId'[e] = docId[e]
      /\ Range(docs'[newseg]) = DocsIn(newseg) \cup {d}
      /\ \A u \in Seg : u # newseg => Range(docs'[u]) = DocsIn(u)
      /\ Added' = Added
  <2>1. /\ Len(docs[newseg]) \in Nat
        /\ docId'[d] = Len(docs[newseg]) + 1
        /\ \A e \in Doc : e # d => docId'[e] = docId[e]
        /\ Range(docs'[newseg]) = DocsIn(newseg) \cup {d}
        /\ \A u \in Seg : u # newseg => docs'[u] = docs[u]
        /\ Added' = Added \cup {d}
    BY <1>2, <1>6, KeyFacts, AddFacts
  <2>2. \A u \in Seg : u # newseg => Range(docs'[u]) = DocsIn(u)
    BY <2>1 DEF DocsIn
  <2> QED
    BY <1>6, <2>1, <2>2
<1>8. \A e \in Added : e # d => docId'[e] = docId[e]
  BY <1>7 DEF Added
<1>9. ASSUME NEW s \in InUse \ {newseg, mseg2} PROVE d \notin DocsIn(s)
  <2>1. {s, mseg2} # {newseg, mseg2} /\ s # mseg2
    OBVIOUS
  <2> QED
    BY <1>5, <1>6, <2>1 DEF EngineInv, DocumentInv, Disjoint
\* Away from the new segment and the source nothing changes.
<1>10. ASSUME NEW s \in InUse \ {newseg, mseg2}, NEW e \in Range(docs'[s])
       PROVE  e \in DocsIn(s) /\ e \in Added /\ e # d /\ docId'[e] = docId[e]
  <2>1. s \in Seg
    BY KeyFacts
  <2>2. e \in DocsIn(s)
    BY <1>7, <1>10, <2>1
  <2>3. e \in Added /\ e # d
    BY <1>9, <2>1, <2>2, KeyFacts
  <2> QED
    BY <1>8, <2>2, <2>3
<1>11. StoreKnown'
  BY <1>1, <1>7 DEF KeysInv, StoreKnown
<1>12. SearchedMarked'
  <2>1. ASSUME pc = "scan", NEW i \in 1..Len(segments), i < cursor,
               segments[i] \notin Sources,
               NEW e \in Range(docs'[segments[i]]), pkOf[e] = TaskPk
        PROVE  docId'[e] \in deletion[segments[i]]
    <3>1. segments[i] \in InUse \ {newseg, mseg2}
      <4>1. segments[i] \in Listed
        BY KeyFacts, ListedLists DEF Lists
      <4> QED
        BY <1>2, <1>5, <2>1, <4>1, KeyFacts
    <3>2. e \in DocsIn(segments[i]) /\ docId'[e] = docId[e]
      BY <1>10, <2>1, <3>1
    <3>3. Marked(segments[i], e)
      BY <2>1, <3>2 DEF KeysInv, SearchedMarked
    <3> QED
      BY <3>2, <3>3 DEF Marked
  <2>2. TaskPk' = TaskPk
    BY <1>1 DEF TaskPk
  <2> QED
    BY <1>1, <1>3, <2>1, <2>2 DEF SearchedMarked, Marked, DocsIn
<1>13. SupersededMarked'
  <2>1. Superseded' = Superseded
    BY <1>1, <1>7 DEF Superseded
  <2>2. \A e : (Twice(e)' <=> Twice(e)) /\ (Recorded(e)' <=> Recorded(e))
    BY <1>1 DEF Twice, Recorded
  <2>3. ASSUME NEW e \in Superseded, NEW s \in Plain, e \in Range(docs'[s])
        PROVE  docId'[e] \in deletion[s] \/ Twice(e)
    <3>1. s \in InUse \ {newseg, mseg2}
      BY <1>2, <1>5, KeyFacts DEF Plain
    <3>2. e \in DocsIn(s) /\ docId'[e] = docId[e]
      BY <1>10, <2>3, <3>1
    <3> QED
      BY <3>2 DEF KeysInv, SupersededMarked, Marked
  <2>4. ASSUME NEW e \in Superseded, e \in Range(docs'[newseg])
        PROVE  docId'[e] \in deletion[newseg] \/ Twice(e) \/ Recorded(e)
    <3>1. CASE e = d
      BY <1>1, <3>1 DEF KeysInv, SupersededMarked
    <3>2. CASE e # d
      <4>1. e \in DocsIn(newseg) /\ e \in Added
        BY <1>7, <2>4, <3>2 DEF Superseded
      <4>2. docId'[e] = docId[e]
        BY <1>8, <3>2, <4>1
      <4> QED
        BY <1>5, <4>1, <4>2 DEF KeysInv, SupersededMarked, Marked
    <3> QED
      BY <3>1, <3>2
  <2>5. ASSUME NEW e \in Superseded, e \in pending'
        PROVE  docId'[e] \in snapshot \/ Twice(e) \/ Recorded(e)
    <3>1. e \in pending /\ e # d /\ e \in Added
      BY <2>5 DEF Superseded
    <3>2. docId'[e] = docId[e]
      BY <1>8, <3>1
    <3> QED
      BY <1>1, <3>1, <3>2 DEF KeysInv, SupersededMarked, Doomed
  <2> QED
    BY <1>1, <1>3, <1>5, <2>1, <2>2, <2>3, <2>4, <2>5
       DEF SupersededMarked, Marked, Doomed, DocsIn
<1>14. LatestClean'
  <2>1. ASSUME NEW e \in Added, Clean(e), NEW s \in InUse \ Renumbered,
               e \in Range(docs'[s])
        PROVE  docId'[e] \notin deletion[s]
    <3>1. CASE s = newseg
      <4>1. CASE e = d
        <5>1. deletion[newseg] \subseteq 1..Len(docs[newseg])
          <6>1. NewPrivate /\ newseg \notin Renumbered
            BY <1>1, <1>5 DEF NewPrivate
          <6> QED
            BY <1>2, <6>1, KeyFacts, CountedListed
        <5> QED
          BY <1>7, <3>1, <4>1, <5>1
      <4>2. CASE e # d
        <5>1. e \in DocsIn(newseg)
          BY <1>7, <2>1, <3>1, <4>2
        <5> QED
          BY <1>8, <2>1, <3>1, <4>2, <5>1 DEF Clean, Marked
      <4> QED
        BY <4>1, <4>2
    <3>2. CASE s # newseg
      <4>1. s \in InUse \ {newseg, mseg2}
        BY <1>5, <3>2
      <4>2. e \in DocsIn(s) /\ docId'[e] = docId[e]
        BY <1>10, <2>1, <4>1
      <4> QED
        BY <2>1, <4>2 DEF Clean, Marked
    <3> QED
      BY <3>1, <3>2
  <2>2. ASSUME NEW e \in Added, Clean(e), e \in pending'
        PROVE  docId'[e] \notin snapshot
    <3>1. docId'[e] = docId[e] /\ e \in pending
      BY <1>8, <2>2
    <3> QED
      BY <1>1, <2>2, <3>1 DEF Clean, Doomed
  <2>3. ASSUME NEW e \in Added, Clean(e)
        PROVE  Clean(e)'
    BY <1>1, <1>3, <2>1, <2>2, <2>3 DEF Clean, Marked, Doomed, DocsIn
  <2>4. TaskPk' = TaskPk
    BY <1>1 DEF TaskPk
  <2>5. ASSUME NEW k \in PK \ merging_deletion, store[k] # 0,
               ~(pc = "scan" /\ TaskPk = k)
        PROVE  Clean(store[k])'
    <3>1. store[k] \in Added /\ Clean(store[k])
      BY <2>5 DEF KeysInv, StoreKnown, LatestClean
    <3>2. PICK e \in Added : e = store[k]
      BY <3>1
    <3>3. Clean(e)'
      BY <2>3, <3>1, <3>2
    <3> QED
      BY <1>1, <3>2, <3>3 DEF Clean, Marked, Doomed, DocsIn
  <2> QED
    BY <1>1, <2>4, <2>5 DEF LatestClean
<1> QED
  BY <1>11, <1>12, <1>13, <1>14 DEF KeysInv

LEMMA CopyDocumentKeepsKeys ==
  ASSUME EngineInv, KeysInv, CopyDocument
  PROVE  KeysInv'
<1>1. PICK d \in pending :
        /\ pending' = pending \ {d}
        /\ IF Doomed(d)
           THEN doomed' = doomed \cup {d} /\ UNCHANGED << docId, docs >>
           ELSE AddDocument(newseg, d) /\ UNCHANGED doomed
  BY DEF CopyDocument
<1>2. mpc = "copy"
  BY DEF CopyDocument
<1>3. CASE Doomed(d)
  BY <1>1, <1>3, DoomKeepsKeys
<1>4. CASE ~Doomed(d)
  <2>1. mseg1 \in InUse /\ old \in {mseg1, mseg2}
    BY <1>2, KeyFacts, CopyingFacts
  <2>2. ASSUME old = mseg1 PROVE FALSE
    <3>1. d \in DocsIn(mseg1)
      BY <1>2, <2>2 DEF EngineInv, DocumentInv, CopiedFromSecond
    <3>2. docId[d] \in 1..Len(docs[mseg1])
      BY <2>1, <3>1, KeyFacts, IdsInRange
    <3> QED
      BY <1>2, <1>4, <2>2, <3>2 DEF EngineInv, DocumentInv, CopiedFromSecond,
                                    Doomed
  <2>3. old = mseg2
    BY <2>1, <2>2
  <2> QED
    BY <1>1, <1>4, <2>3, CopyKeepsKeys
<1> QED
  BY <1>3, <1>4

-----------------------------------------------------------------------------
(* The theorems.                                                           *)

LEMMA InitEstablishesKeys == Init => KeysInv
<1> SUFFICES ASSUME Init PROVE KeysInv
  OBVIOUS
<1>1. /\ docId = [d \in Doc |-> 0] /\ pc = "idle"
      /\ store = [k \in PK |-> 0]
  BY DEF Init, SegInit, EngineInit, MergerInit
<1>2. Added = {}
  BY <1>1 DEF Added
<1>3. StoreKnown /\ SearchedMarked
  BY <1>1, <1>2 DEF StoreKnown, SearchedMarked
<1>4. SupersededMarked
  BY <1>2 DEF SupersededMarked, Superseded
<1>5. LatestClean
  BY <1>1 DEF LatestClean
<1> QED
  BY <1>3, <1>4, <1>5 DEF KeysInv

LEMMA StutterKeepsKeys ==
  ASSUME EngineInv, KeysInv, UNCHANGED vars
  PROVE  KeysInv'
<1>1. UNCHANGED << segVars, engineVars, mergerVars >>
  BY DEF vars
<1>2. /\ UNCHANGED << pkOf, docs, docId, deletion, freedDocs, segments, store,
                      updated, merging_deletion, merge_stage, mergerVars >>
      /\ UNCHANGED << pc, task, cursor >>
  BY <1>1 DEF segVars, engineVars
<1>3. TaskPk' = TaskPk
  BY <1>2 DEF TaskPk
<1> QED
  BY <1>2, <1>3, NoMarkFrame

\* Polling the queue marks nothing.
LEMMA PollKeepsKeys ==
  ASSUME EngineInv, KeysInv, FindEmpty \/ ReadSize,
         UNCHANGED << mergerVars, headPrev >>
  PROVE  KeysInv'
<1>1. /\ UNCHANGED << pkOf, docs, docId, deletion, freedDocs, segments, store,
                      updated, merging_deletion, merge_stage >>
      /\ pc # "scan" /\ pc' # "scan"
  BY DEF FindEmpty, ReadSize, segVars
<1> QED
  BY <1>1, NoMarkFrame

LEMMA NextKeepsKeys ==
  ASSUME EngineInv, KeysInv, RemovalMarked, [Next]_vars
  PROVE  KeysInv'
<1>1. CASE UNCHANGED vars
  BY <1>1, StutterKeepsKeys
<1>2. CASE ClientStep
  BY <1>2, ClientKeepsKeys DEF ClientStep
<1>3. CASE InputProcessor /\ UNCHANGED << mergerVars, headPrev >>
  BY <1>3, PollKeepsKeys, BeginKeepsKeys, RotateKeepsKeys, ScanKeepsKeys,
     FinishAddKeepsKeys, FinishRemoveKeepsKeys
     DEF InputProcessor
<1>4. CASE MergerHandlers
  BY <1>4, BeginMergerTaskKeepsKeys, ReplaceDeleteKeepsKeys,
     FinishReplaceKeepsKeys, FinishRedeleteKeepsKeys
     DEF MergerHandlers
<1>5. CASE MergeThread
  BY <1>5, CheckKeepsKeys, BeginMigrateKeepsKeys, CloneDeletionKeepsKeys,
     CopyDocumentKeepsKeys, EndSourceKeepsKeys, PostKeepsKeys,
     ReleaseSourceKeepsKeys, Release3KeepsKeys, ResetKeepsKeys
     DEF MergeThread
<1> QED
  BY <1>1, <1>2, <1>3, <1>4, <1>5 DEF Next, InputStep, MergeStep

\* What a removal has left behind is left alone by everybody else.
LEMMA NextKeepsRemovalMarked ==
  ASSUME EngineInv, KeysInv, RemovalMarked, [Next]_vars
  PROVE  RemovalMarked'
<1>1. CASE ~Removing /\ UNCHANGED removal
  BY <1>1 DEF RemovalMarked, Removing
<1>2. CASE (ScanSegment \/ TestBit \/ SetBit) /\ UNCHANGED << mergerVars, headPrev >>
  BY <1>2, ScanKeepsKeys
<1>3. ASSUME Removing,
             UNCHANGED << pc, cursor, segments, task, deletion, removal >>,
             \A d \in Added : pkOf'[d] = pkOf[d],
             TaskPk' = TaskPk,
             docs'[removal.seg] = docs[removal.seg],
             removal.seg \notin Renumbered
               => \A d \in DocsIn(removal.seg) : docId'[d] = docId[d],
             removal.seg \in Sources => removal.seg \in Sources'
      PROVE  RemovalMarked'
  <2>1. removal.seg \in Seg
    BY <1>3, RemovalFacts DEF EngineInv
  <2>2. DocsIn(removal.seg) \subseteq Added
    BY <2>1 DEF EngineInv, DocumentInv, Numbered
  <2>3. OfKey(removal.seg, TaskPk)' = OfKey(removal.seg, TaskPk)
    BY <1>3, <2>2 DEF OfKey, DocsIn
  <2>4. removal.seg \notin Sources => removal.seg \notin Renumbered
    BY <2>1 DEF Renumbered, Sources, Seg, NoSeg
  <2>5. OfKey(removal.seg, TaskPk) \subseteq DocsIn(removal.seg)
    BY DEF OfKey
  <2> QED
    BY <1>3, <2>3, <2>4, <2>5 DEF RemovalMarked, Removing, Marked
<1>4. CASE Client /\ UNCHANGED << mergerVars, headPrev >>
  <2>1. /\ UNCHANGED << pc, cursor, segments, task, deletion, removal, docs,
                        docId, merge_stage >>
    <3>1. PICK r \in Request : Accept(r) \/ RejectFull(r) \/ RejectInvalid(r)
      BY <1>4 DEF Client
    <3> QED
      BY <3>1 DEF Accept, RejectFull, RejectInvalid, Unclient
  <2>2. (\A d \in Added : pkOf'[d] = pkOf[d]) /\ TaskPk' = TaskPk
    BY <1>4, ClientKeepsPk
  <2>3. Sources' = Sources
    BY <1>4 DEF Sources, mergerVars
  <2> QED
    BY <1>1, <1>3, <2>1, <2>2, <2>3
<1>5. CASE MergeThread
  <2>1. UNCHANGED << pkOf, deletion, removal, pc, cursor, segments, task >>
    BY <1>5
       DEF MergeThread, Check, BeginMigrate, CloneDeletion, CopyDocument,
           EndSource, PostReplace, PostRedelete, Post, WriteStage2,
           WriteStage5, WriteStage, Release1, Release2, Release3, Reset,
           Unmerge, segVars
  <2>2. TaskPk' = TaskPk
    BY <2>1 DEF TaskPk
  <2>3. ASSUME Removing, removal.seg \in Sources
        PROVE  removal.seg \in Sources'
    <3>1. removal.seg \in Seg /\ Lists(removal.seg)
      BY <2>3, RemovalFacts DEF EngineInv
    <3>2. merge_stage \in {1, 2}
      <4>1. removal.seg \in {mseg1, mseg2} \ {NoSeg}
        BY <2>3 DEF Sources
      <4>2. merge_stage \notin {0, 4, 5, 6}
        BY <4>1 DEF EngineInv, LayoutInv, SourcesLeave
      <4>3. merge_stage # 3
        BY <3>1, <4>1 DEF EngineInv, LayoutInv, SourcesLeave
      <4>4. merge_stage \in 0..6
        BY DEF EngineInv, Inv, TypeOK, EngineTypeOK
      <4> QED
        BY <4>2, <4>3, <4>4
    <3>3. UNCHANGED << mseg1, mseg2 >>
      <4>1. mpc # "release2" /\ merge_stage \notin {0, 3}
        BY <3>2 DEF EngineInv, Inv, StagePlace
      <4>2. ~(Check \/ Release1 \/ Release2)
        BY <4>1 DEF Check, Release1, Release2
      <4>3. CASE BeginMigrate \/ CloneDeletion \/ CopyDocument \/ EndSource
        BY <4>3 DEF BeginMigrate, CloneDeletion, CopyDocument, EndSource
      <4>4. CASE \/ PostReplace \/ PostRedelete \/ WriteStage2 \/ WriteStage5
                 \/ Release3 \/ Reset
        BY <4>4 DEF PostReplace, PostRedelete, Post, WriteStage2, WriteStage5,
                    WriteStage, Release3, Reset
      <4> QED
        BY <1>5, <4>2, <4>3, <4>4 DEF MergeThread
    <3> QED
      BY <2>3, <3>3 DEF Sources
  <2>4. Removing => Lists(removal.seg)
    BY RemovalFacts DEF EngineInv
  <2> QED
    BY <1>1, <1>3, <1>5, <2>1, <2>2, <2>3, <2>4, ListedUntouched
<1>6. CASE UNCHANGED vars
  <2>1. UNCHANGED << segVars, engineVars, mergerVars >>
    BY <1>6 DEF vars
  <2>2. TaskPk' = TaskPk /\ Sources' = Sources
    BY <2>1 DEF TaskPk, Sources, segVars, engineVars, mergerVars
  <2> QED
    BY <1>1, <1>3, <2>1, <2>2 DEF segVars, engineVars
<1>7. CASE FinishAdd \/ FinishRemove
  <2>1. cursor > Len(segments) /\ UNCHANGED removal
    BY <1>7 DEF FinishAdd, FinishRemove, segVars
  <2>2. ~Removing
    BY <2>1, KeyFacts DEF EngineInv, RemovalAtCursor, Inv, TypeOK, EngineTypeOK
  <2> QED
    BY <1>1, <2>1, <2>2
<1>8. CASE /\ InputProcessor
           /\ ~(FinishAdd \/ FinishRemove \/ ScanSegment \/ TestBit \/ SetBit)
  <2>1. pc # "scan" /\ UNCHANGED removal
    BY <1>8 DEF InputProcessor, FindEmpty, ReadSize, BeginAdd, Rotate,
                BeginRemove, Take, segVars
  <2> QED
    BY <1>1, <2>1 DEF EngineInv, RemovalAtCursor
<1>9. CASE MergerHandlers
  <2>1. pc # "scan" /\ UNCHANGED removal
    BY <1>9
       DEF MergerHandlers, BeginReplace, ReplaceDelete1, ReplaceDelete2,
           ReplaceDelete, FinishReplace, Redelete, FinishRedelete, Take,
           segVars
  <2> QED
    BY <1>1, <2>1 DEF EngineInv, RemovalAtCursor
<1> QED
  BY <1>2, <1>4, <1>5, <1>6, <1>7, <1>8, <1>9
     DEF Next, ClientStep, InputStep, MergeStep

\* Every step of the two threads and of the clients, until a task is run for a
\* second time (queue.c:49), keeps the marks in step with the documents the
\* keys should have; of the marks in a source that has been cloned it says none.
THEOREM KeyInvHolds == Spec => []KeyInv
<1>1. Init => KeyInv
  <2>1. Init => RemovalMarked
    BY DEF Init, SegInit, RemovalMarked, Removing, NoRemoval
  <2>2. Init => EngineInv
    BY InitEstablishesDocs, InitEstablishesInv
       DEF EngineInv, Init, SegInit, RemovalAtCursor, Removing, NoRemoval
  <2> QED
    BY <2>1, <2>2, InitEstablishesKeys DEF KeyInv
<1>2. KeyInv /\ [Next]_vars => KeyInv'
  <2> SUFFICES ASSUME KeyInv, [Next]_vars PROVE KeyInv'
    OBVIOUS
  <2>1. EngineInv'
    BY NextKeepsInv, NextKeepsDocs, NextKeepsRemoval DEF KeyInv, EngineInv
  <2> QED
    BY <2>1, NextKeepsKeys, NextKeepsRemovalMarked DEF KeyInv
<1> QED
  BY <1>1, <1>2, PTL DEF Spec

\* Between merges every listed segment is a plain one, and no other holds a
\* document.
LEMMA QuiescentPlaces ==
  ASSUME EngineInv, Quiescent
  PROVE  /\ Plain = Listed /\ Listed \subseteq InUse \ Renumbered
         /\ newseg = NoSeg \/ newseg \in Listed \/ DocsIn(newseg) = {}
<1>1. pc = "idle" /\ mpc = "loop" /\ merge_stage = 0
  BY DEF Quiescent
<1>2. mseg1 = NoSeg /\ mseg2 = NoSeg /\ Sources = {}
  BY <1>1 DEF EngineInv, LayoutInv, SourcesLeave, Sources
<1>3. ~HasNew /\ ~CopyStarted
  BY <1>1 DEF HasNew, CopyStarted, Copied
<1>4. ~NewPrivate
  BY <1>1, KeyFacts, PrivateInPhase DEF ReplacePhase
<1>5. newseg = NoSeg \/ newseg \in Listed \/ DocsIn(newseg) = {}
  BY <1>4, KeyFacts, ListedLists, RangeEmpty
     DEF EngineInv, LayoutInv, NewSegmentRole, DocsIn
<1> QED
  BY <1>2, <1>3, <1>5, KeyFacts DEF Plain, Renumbered

\* What a walk over the list finds is a document the key should have, or one
\* of those that an add during a merge has left.
LEMMA LiveIsLatest ==
  ASSUME KeyInv, Quiescent, NEW k \in PK, NEW d \in Live(k)
  PROVE  store[k] = d \/ (store[k] # 0 /\ k \in updated)
<1>1. EngineInv /\ KeysInv
  BY DEF KeyInv
<1>2. PICK s \in Listed : d \in DocsIn(s) /\ ~Marked(s, d)
  BY DEF Live, Marked
<1>3. d \in Added /\ pkOf[d] = k
  BY <1>1, <1>2, KeyFacts DEF Live
<1> SUFFICES ASSUME store[k] # d PROVE store[k] # 0 /\ k \in updated
  OBVIOUS
<1>4. d \in Superseded
  BY <1>3 DEF Superseded
<1>5. s \in Plain
  BY <1>1, QuiescentPlaces
<1>6. Twice(d)
  BY <1>1, <1>2, <1>4, <1>5 DEF KeysInv, SupersededMarked
<1> QED
  BY <1>3, <1>6 DEF Twice

\* A removed key stays removed, however its removal met a merge: what the
\* merge had copied by then is marked by redelete before the merge ends.
THEOREM RemovedStays == Spec => []RemovedStaysRemoved
<1>1. ASSUME KeyInv, Quiescent, NEW k \in PK, store[k] = 0
      PROVE  Live(k) = {}
  <2>1. \A d \in Live(k) : d = 0
    BY <1>1, LiveIsLatest
  <2>2. 0 \notin Live(k)
    BY DEF Live, Doc
  <2> QED
    BY <2>1, <2>2
<1>2. KeyInv => RemovedStaysRemoved
  BY <1>1 DEF RemovedStaysRemoved
<1> QED
  BY KeyInvHolds, <1>2, PTL

\* An older document beside the latest one is the mark of an add during a
\* merge: without one a key shows its latest document at most.
THEOREM DuplicateOnlyAfterUpdate == Spec => []DuplicateOnlyAfterMergingUpdate
<1>1. ASSUME KeyInv, Quiescent, NEW k \in PK \ updated
      PROVE  Live(k) \subseteq {store[k]}
  BY <1>1, LiveIsLatest
<1>2. KeyInv => DuplicateOnlyAfterMergingUpdate
  BY <1>1 DEF DuplicateOnlyAfterMergingUpdate
<1> QED
  BY KeyInvHolds, <1>2, PTL

\* The document a key should have can be found after any number of merges, but
\* for the keys that merging_deletion has kept.
THEOREM LatestSurvive == Spec => []LatestSurvivesUnlessRecorded
<1>1. ASSUME KeyInv, Quiescent, NEW k \in PK \ merging_deletion, store[k] # 0
      PROVE  store[k] \in Live(k)
  <2>1. EngineInv /\ KeysInv /\ pc = "idle"
    BY <1>1 DEF KeyInv, Quiescent
  <2>2. store[k] \in Added /\ pkOf[store[k]] = k /\ Clean(store[k])
    BY <1>1, <2>1 DEF KeysInv, StoreKnown, LatestClean
  <2>3. PICK d \in Added : d = store[k]
    BY <2>2
  <2>4. /\ d \notin doomed \cup freedDocs
        /\ \A s \in InUse \ Renumbered : d \in DocsIn(s) => ~Marked(s, d)
    BY <2>2, <2>3 DEF Clean
  <2>5. PICK s \in Listed \cup ({newseg} \ {NoSeg}) : d \in DocsIn(s)
    BY <2>1, <2>4 DEF EngineInv, DocumentInv, NoneLost
  <2>6. s \in Listed /\ ~Marked(s, d)
    BY <1>1, <2>1, <2>4, <2>5, QuiescentPlaces
  <2> QED
    BY <2>2, <2>3, <2>5, <2>6 DEF Live, Marked, Added
<1>2. KeyInv => LatestSurvivesUnlessRecorded
  BY <1>1 DEF LatestSurvivesUnlessRecorded
<1> QED
  BY KeyInvHolds, <1>2, PTL
==============================================================================
