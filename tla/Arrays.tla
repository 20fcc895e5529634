------------------------------- MODULE Arrays --------------------------------
(***************************************************************************)
(* The dynamic array of lib/utarray.h with elements that own memory: the   *)
(* array of strings (ut_str_icd), whose copy duplicates the string and     *)
(* whose dtor frees it; an element the array grew by itself is a null      *)
(* pointer.  The engine keeps the tokens of a lookup, the documents found  *)
(* and the deletions of a merge in such arrays.                            *)
(*                                                                         *)
(* slot is the memory behind d.  Every macro moves, copies and destroys    *)
(* slots as the code does; ref is what a sequence would be after the same  *)
(* calls.  Callers respect the bounds the macros take for granted: what is *)
(* popped or erased is there.                                              *)
(***************************************************************************)
EXTENDS Naturals, Sequences, FiniteSets

CONSTANTS Text,           \* what strings say
          StringId,       \* bound: strings allocated at once, numbers from 1
          FIRST_SLOTS,    \* the slots an empty array gets, 8 in the code
          MaxLen          \* bound: elements of the array
ASSUME ArrayAssumption ==
  /\ StringId \subseteq Nat \ {0}
  /\ FIRST_SLOTS \in Nat \ {0}
  /\ MaxLen \in Nat

NULLS   == 0      \* a null char *
GARBAGE == "garbage"

VARIABLES
  slot,     \* slot[k]: the memory of slot k, from 0
  used,     \* i
  text,     \* text[s]: what the string s says, for every s allocated
  broken,   \* history: a string was freed that was not allocated
  ref       \* history: the sequence of texts the array stands for

arrayVars == << slot, used, text, broken, ref >>

NoText == "null"
capacity == Cardinality(DOMAIN slot)

ArrayInit ==
  /\ slot = << >>
  /\ used = 0
  /\ text = << >>
  /\ broken = FALSE
  /\ ref = << >>

-----------------------------------------------------------------------------

\* utarray_reserve: slots are doubled until the elements fit.
Doubled(n, need) ==
  LET size[d \in 0..need] ==   \* after d rounds; no more can be needed
        IF d = 0 THEN n
        ELSE IF size[d - 1] >= need THEN size[d - 1]
        ELSE IF size[d - 1] = 0 THEN FIRST_SLOTS ELSE 2 * size[d - 1]
  IN  size[need]

WithRoom(sl, need) ==
  [k \in 0..Doubled(Cardinality(DOMAIN sl), need) - 1 |->
     IF k \in DOMAIN sl THEN sl[k] ELSE GARBAGE]

\* memmove of n slots
Moved(sl, to, from, n) ==
  [k \in DOMAIN sl |-> IF k \in to..to + n - 1 THEN sl[from + k - to] ELSE sl[k]]

Put(sl, at, elts) ==
  [k \in DOMAIN sl |-> IF k \in at..at + Len(elts) - 1 THEN elts[k - at + 1]
                       ELSE sl[k]]

\* icd.copy of each text: strings of their own.
Copies(texts, ids) ==
  /\ Len(ids) = Len(texts)
  /\ \A i \in DOMAIN ids : ids[i] \notin DOMAIN text
  /\ \A i, j \in DOMAIN ids : i < j => ids[i] < ids[j]
  /\ text' = [s \in {ids[i] : i \in DOMAIN ids} \cup DOMAIN text |->
                IF s \in DOMAIN text THEN text[s]
                ELSE texts[CHOOSE i \in DOMAIN ids : ids[i] = s]]
  /\ UNCHANGED broken

\* icd.dtor of each of these slots.
Destroyed(ks) ==
  LET gone == {slot[k] : k \in ks} \ {NULLS}
  IN  /\ text' = [s \in DOMAIN text \ gone |-> text[s]]
      /\ broken' = \/ broken
                   \/ ~(gone \subseteq DOMAIN text)
                   \/ \E j, k \in ks : j # k /\ slot[j] = slot[k] /\ slot[j] # NULLS

Nulls(n) == [i \in 1..n |-> NULLS]
NullTexts(n) == [i \in 1..n |-> NoText]

\* utarray_resize when the array grows: the new slots are set to zero.
Grown(sl, num) == Put(WithRoom(sl, num), used, Nulls(num - used))

-----------------------------------------------------------------------------
(* The macros.                                                             *)

PushBack(t) ==
  /\ used < MaxLen
  /\ \E s \in StringId :
       /\ Copies(<< t >>, << s >>)
       /\ slot' = Put(WithRoom(slot, used + 1), used, << s >>)
  /\ used' = used + 1
  /\ ref' = Append(ref, t)

PopBack ==
  /\ used > 0
  /\ Destroyed({used - 1})
  /\ used' = used - 1
  /\ ref' = SubSeq(ref, 1, used - 1)
  /\ UNCHANGED slot

\* ut_str_icd has no init: the element is null.
ExtendBack ==
  /\ used < MaxLen
  /\ slot' = Put(WithRoom(slot, used + 1), used, << NULLS >>)
  /\ used' = used + 1
  /\ ref' = Append(ref, NoText)
  /\ UNCHANGED << text, broken >>

\* utarray_inserta(a, w, j), and utarray_insert for one text; past the end the
\* array first grows to j.
InsertA(texts, j) ==
  LET grown == IF j > used THEN Grown(slot, j) ELSE slot
      now   == IF j > used THEN j ELSE used
      room  == WithRoom(grown, now + Len(texts))
      moved == IF j < now THEN Moved(room, j + Len(texts), j, now - j) ELSE room
      ref0  == IF j > used THEN ref \o NullTexts(j - used) ELSE ref
  IN  /\ now + Len(texts) <= MaxLen
      /\ \E ids \in [1..Len(texts) -> StringId] :
           /\ Copies(texts, ids)
           /\ slot' = Put(moved, j, ids)
      /\ used' = now + Len(texts)
      /\ ref' = SubSeq(ref0, 1, j) \o texts \o SubSeq(ref0, j + 1, now)

Insert(t, j) == InsertA(<< t >>, j)

Concat(texts) == InsertA(texts, used)

\* Mutant of Shrink: the elements cut off keep their strings.
ShrinkKeep(num) ==
  /\ num < used
  /\ used' = num
  /\ ref' = SubSeq(ref, 1, num)
  /\ UNCHANGED << slot, text, broken >>

\* utarray_resize in its two directions.
Shrink(num) ==
  /\ num < used
  /\ Destroyed(num..used - 1)
  /\ used' = num
  /\ ref' = SubSeq(ref, 1, num)
  /\ UNCHANGED slot

Grow(num) ==
  /\ num > used /\ num <= MaxLen
  /\ slot' = Grown(slot, num)
  /\ used' = num
  /\ ref' = ref \o NullTexts(num - used)
  /\ UNCHANGED << text, broken >>

\* utarray_erase
Erase(pos, len) ==
  /\ len > 0 /\ pos + len <= used
  /\ Destroyed(pos..pos + len - 1)
  /\ slot' = IF used > pos + len THEN Moved(slot, pos, pos + len, used - (pos + len))
             ELSE slot
  /\ used' = used - len
  /\ ref' = SubSeq(ref, 1, pos) \o SubSeq(ref, pos + len + 1, used)

Clear ==
  /\ used > 0
  /\ Destroyed(0..used - 1)
  /\ used' = 0
  /\ ref' = << >>
  /\ UNCHANGED slot

\* utarray_free, and utarray_new for the next use.
Free ==
  /\ capacity > 0
  /\ Destroyed(0..used - 1)
  /\ slot' = << >>
  /\ used' = 0
  /\ ref' = << >>

ArrayNext ==
  \/ \E t \in Text : PushBack(t)
  \/ PopBack
  \/ ExtendBack
  \/ \E t \in Text, j \in 0..MaxLen : Insert(t, j)
  \/ \E t, u \in Text : Concat(<< t, u >>)
  \/ \E num \in 0..MaxLen : Shrink(num) \/ Grow(num)
  \/ \E pos \in 0..MaxLen, len \in 1..MaxLen : Erase(pos, len)
  \/ Clear
  \/ Free

ArraySpec == ArrayInit /\ [][ArrayNext]_arrayVars

-----------------------------------------------------------------------------

\* What utarray_next visits, from front to the NULL it ends with.
NextAfter(k) == IF used # k + 1 THEN k + 1 ELSE capacity
Visited ==
  LET from[n \in 0..used] ==
        [k \in 0..capacity |-> IF n = 0 \/ k = capacity THEN << >>
                              ELSE << slot[k] >> \o from[n - 1][NextAfter(k)]]
  IN  IF used = 0 THEN << >> ELSE from[used][0]

TextOf(s) == IF s = NULLS THEN NoText ELSE text[s]

\* An iteration of the array meets the texts a sequence would hold; every string
\* allocated is in one slot and one only, and none is freed twice or left behind.
ArrayOwnsItsStrings ==
  /\ ~broken
  /\ used <= capacity
  /\ \A k \in 0..used - 1 : slot[k] \in DOMAIN text \cup {NULLS}
  /\ [i \in DOMAIN Visited |-> TextOf(Visited[i])] = ref
  /\ DOMAIN text = {slot[k] : k \in 0..used - 1} \ {NULLS}
  /\ \A j, k \in 0..used - 1 : j # k /\ slot[j] = slot[k] => slot[j] = NULLS

=============================================================================
