------------------------------ MODULE Documents ------------------------------
(***************************************************************************)
(* The memory of documents and requests outside the segments: document.c,  *)
(* the copies adapter.c makes between the protocol's structures and the    *)
(* engine's, and the tokens of a lookup (query.c, an UT_array of strings). *)
(* All of it is sequential: a worker builds a document from a request, or  *)
(* the tokens of a lookup, and gives up what is private to the request.    *)
(*                                                                         *)
(* A field is its allocation; what matters of it is its name and what it   *)
(* is a copy of.  Fields are kept in the order they were added, which is   *)
(* the order HASH_ITER meets them (HashTable).                             *)
(***************************************************************************)
EXTENDS Naturals, Sequences, SequencesExt

CONSTANTS FieldName, FieldValue, Token,
          FieldId,      \* bound: the allocations of fields, numbers from 1
          MaxReplies    \* bound: replies of one behaviour

VARIABLES
  heapF,     \* heapF[f]: the field at f, or NoField
  doc,       \* the fields of the document, in order
  clone,     \* those of its clone, when a lookup has made one
  hasDoc, hasClone,
  copied,    \* history: names and values when the clone was made
  dropped,   \* history: fields taken out of a document and not freed
  tokens,    \* request->tokens
  strings,   \* copies of tokens allocated and not freed
  slots,     \* n of the array of tokens
  protoDocs, \* Documents of the protocol allocated and not freed
  replies    \* documents replied

documentVars == << heapF, doc, clone, hasDoc, hasClone, copied, dropped, tokens,
                   strings, slots, protoDocs, replies >>

NoField == [name |-> "none", value |-> "none"]

ASSUME DocumentsAssumption == NoField \notin [name : FieldName, value : FieldValue]

DocumentsInit ==
  /\ heapF = [f \in FieldId |-> NoField]
  /\ doc = << >> /\ clone = << >>
  /\ hasDoc = FALSE /\ hasClone = FALSE
  /\ copied = << >> /\ dropped = {}
  /\ tokens = << >> /\ strings = 0 /\ slots = 0
  /\ protoDocs = 0 /\ replies = 0

Allocated == {f \in FieldId : heapF[f] # NoField}
Content(d) == [i \in DOMAIN d |-> heapF[d[i]]]

-----------------------------------------------------------------------------
(* document.c, and ts_adapter_document which calls it field by field.      *)

DocumentNew ==
  /\ ~hasDoc
  /\ hasDoc' = TRUE
  /\ UNCHANGED << heapF, doc, clone, hasClone, copied, dropped, tokens, strings,
                  slots, protoDocs, replies >>

\* The place of the name in d, 0 if it has none.
PlaceIn(d, name) ==
  IF \E i \in DOMAIN d : heapF[d[i]].name = name
  THEN CHOOSE i \in DOMAIN d : heapF[d[i]].name = name
  ELSE 0

WithoutPlace(d, i) == IF i = 0 THEN d ELSE RemoveAt(d, i)

\* ts_field_new and ts_document_field_add(doc, field, 1): a field of the same
\* name is taken out, and its memory forgotten.
FieldAdd(f, name, value) ==
  /\ hasDoc /\ ~hasClone
  /\ f \notin Allocated
  /\ heapF' = [heapF EXCEPT ![f] = [name |-> name, value |-> value]]
  /\ LET i == PlaceIn(doc, name)
     IN  /\ doc' = Append(WithoutPlace(doc, i), f)
         /\ dropped' = IF i = 0 THEN dropped ELSE dropped \cup {doc[i]}
  /\ UNCHANGED << clone, hasDoc, hasClone, copied, tokens, strings, slots,
                  protoDocs, replies >>

\* ts_document_field_del(doc, name)
FieldDel(name) ==
  /\ hasDoc /\ ~hasClone
  /\ PlaceIn(doc, name) # 0
  /\ LET i == PlaceIn(doc, name)
     IN  doc' = RemoveAt(doc, i) /\ dropped' = dropped \cup {doc[i]}
  /\ UNCHANGED << heapF, clone, hasDoc, hasClone, copied, tokens, strings,
                  slots, protoDocs, replies >>

Freed(d) == [f \in FieldId |-> IF \E i \in DOMAIN d : d[i] = f THEN NoField
                               ELSE heapF[f]]

\* ts_document_free(doc, 1), of a document the engine refused.
DocumentFree ==
  /\ hasDoc /\ ~hasClone
  /\ hasDoc' = FALSE
  /\ doc' = << >>
  /\ heapF' = Freed(doc)
  /\ UNCHANGED << clone, hasClone, copied, dropped, tokens, strings, slots,
                  protoDocs, replies >>

\* Mutant of DocumentClone: the clone shares the fields.
DocumentCloneShared ==
  /\ hasDoc /\ ~hasClone
  /\ hasClone' = TRUE
  /\ clone' = doc
  /\ copied' = Content(doc)
  /\ UNCHANGED << heapF, doc, hasDoc, dropped, tokens, strings, slots,
                  protoDocs, replies >>

\* ts_document_clone: a new field for each, in order.
DocumentClone ==
  /\ hasDoc /\ ~hasClone
  /\ \E fs \in [DOMAIN doc -> FieldId \ Allocated] :
       /\ IsInjective(fs)
       /\ \A i, j \in DOMAIN doc : i < j => fs[i] < fs[j]
       /\ clone' = fs
       /\ heapF' = [f \in FieldId |->
            IF \E i \in DOMAIN fs : fs[i] = f
            THEN heapF[doc[CHOOSE i \in DOMAIN fs : fs[i] = f]] ELSE heapF[f]]
  /\ hasClone' = TRUE
  /\ copied' = Content(doc)
  /\ UNCHANGED << doc, hasDoc, dropped, tokens, strings, slots, protoDocs,
                  replies >>

\* ts_adapter_response_lookup_new: a Document, its array and its Fields for a
\* document found; when it is packed the Fields and the array are freed.  Then
\* ts_lookup_response_destroy frees the clone.
Reply ==
  /\ hasClone
  /\ replies < MaxReplies
  /\ protoDocs' = protoDocs + 1
  /\ replies' = replies + 1
  /\ hasClone' = FALSE
  /\ clone' = << >> /\ copied' = << >>
  /\ heapF' = Freed(clone)
  /\ UNCHANGED << doc, hasDoc, dropped, tokens, strings, slots >>

-----------------------------------------------------------------------------
(* query.c.                                                                *)

\* ts_lookup_request_append: a token that is there is refused; the array takes
\* a copy of any other, and doubles from 8 when it is full.
AppendToken(t) ==
  /\ \A i \in DOMAIN tokens : tokens[i] # t
  /\ tokens' = Append(tokens, t)
  /\ strings' = strings + 1
  /\ slots' = IF Len(tokens) < slots THEN slots
              ELSE IF slots = 0 THEN 8 ELSE 2 * slots
  /\ UNCHANGED << heapF, doc, clone, hasDoc, hasClone, copied, dropped,
                  protoDocs, replies >>

\* ts_lookup_request_free: utarray_free frees every string with its array.
RequestFree ==
  /\ tokens # << >>
  /\ tokens' = << >>
  /\ slots' = 0
  /\ strings' = IF slots > 0 THEN strings - Len(tokens) ELSE strings
  /\ UNCHANGED << heapF, doc, clone, hasDoc, hasClone, copied, dropped,
                  protoDocs, replies >>

DocumentsNext ==
  \/ DocumentNew
  \/ \E f \in FieldId, name \in FieldName, value \in FieldValue :
       FieldAdd(f, name, value)
  \/ \E name \in FieldName : FieldDel(name)
  \/ DocumentFree
  \/ DocumentClone
  \/ Reply
  \/ \E t \in Token : AppendToken(t)
  \/ RequestFree

DocumentsSpec == DocumentsInit /\ [][DocumentsNext]_documentVars

-----------------------------------------------------------------------------

\* Every field allocated belongs to the document or to its clone, never to both,
\* or is one a later field of the same name replaced or a delete took out: these
\* are never freed.  A clone says what the document said.  A Document of the
\* protocol is lost for every document replied, and the copies of the tokens are
\* as many as the tokens.
MemoryAccounted ==
  /\ IsInjective(doc \o clone)
  /\ Allocated = ToSet(doc) \cup ToSet(clone) \cup dropped
  /\ ToSet(doc \o clone) \cap dropped = {}
  /\ \A i, j \in DOMAIN doc :
       heapF[doc[i]].name = heapF[doc[j]].name => i = j
  /\ hasClone => Content(clone) = copied
  /\ protoDocs = replies
  /\ strings = Len(tokens) /\ Len(tokens) <= slots

=============================================================================
