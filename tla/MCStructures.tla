---------------------------- MODULE MCStructures -----------------------------
(***************************************************************************)
(* The data structures under the engine, one in each behaviour: which one, *)
(* part says.  For the pure algorithms a behaviour draws their input:      *)
(* posting lists and deletions, the keys of a list, a string and what to   *)
(* find in it.                                                             *)
(***************************************************************************)
EXTENDS HashTable, DList, Bitmap, DocIds, Documents, Arrays, TimeEvents,
        IntersectCalls, StringSearch

CONSTANT MaxSort   \* bound: length of a list to sort

VARIABLES part,
          keys

L == INSTANCE ListSort

MCHashOf == << 0, 32, 1, 64 >>

hash == << hashVars, findVars, iterVars >>
ids == << docVars, docReader >>
inputs == << postingVars, searchVars, keys >>

\* The keys of a list to sort.
DrawKeys ==
  /\ keys = << >>
  /\ \E n \in 0..MaxSort : keys' \in [1..n -> 1..3]

Init ==
  /\ part \in {"hash", "list", "ids", "bitmap", "documents", "arrays", "timers",
              "intersect", "sort", "search"}
  /\ HashInit
  /\ ListInit /\ (part # "list" => lhead = NULLP)
  /\ DocIdsInit
  /\ BitmapInit
  /\ DocumentsInit
  /\ ArrayInit
  /\ TimeInit
  /\ PostingsInit
  /\ SearchInit
  /\ keys = << >>

Next ==
  /\ UNCHANGED part
  /\ \/ /\ part = "hash" /\ HashNext
        /\ UNCHANGED << listVars, ids, bitmapVars, documentVars, arrayVars, timeVars,
                       inputs >>
     \/ /\ part = "list" /\ ListNext
        /\ UNCHANGED << hash, ids, bitmapVars, documentVars, arrayVars, timeVars,
                       inputs >>
     \/ /\ part = "ids" /\ DocIdsNext
        /\ UNCHANGED << hash, listVars, bitmapVars, documentVars, arrayVars, timeVars,
                       inputs >>
     \/ /\ part = "bitmap" /\ BitmapNext
        /\ UNCHANGED << hash, listVars, ids, documentVars, arrayVars, timeVars,
                       inputs >>
     \/ /\ part = "documents" /\ DocumentsNext
        /\ UNCHANGED << hash, listVars, ids, bitmapVars, arrayVars, timeVars,
                       inputs >>
     \/ /\ part = "arrays" /\ ArrayNext
        /\ UNCHANGED << hash, listVars, ids, bitmapVars, documentVars, timeVars,
                       inputs >>
     \/ /\ part = "timers" /\ TimeNext
        /\ UNCHANGED << hash, listVars, ids, bitmapVars, documentVars, arrayVars,
                       inputs >>
     \/ /\ \/ /\ part = "intersect" /\ DrawLists
              /\ UNCHANGED << searchVars, keys >>
           \/ /\ part = "sort" /\ DrawKeys
              /\ UNCHANGED << postingVars, searchVars >>
           \/ /\ part = "search" /\ DrawStrings
              /\ UNCHANGED << postingVars, keys >>
        /\ UNCHANGED << hash, listVars, ids, bitmapVars, documentVars, arrayVars,
                       timeVars >>

Spec == Init /\ [][Next]_<< part, hash, listVars, ids, bitmapVars, documentVars,
                           arrayVars, timeVars, inputs >>

\* The sort macros put a list in the order of its keys, leave equal elements in
\* the order they had, and set every pointer a list of the kind has.
SortsStably ==
  part = "sort" =>
    LET links(kind, l) == L!Links(kind, l, L!StableOrder(keys))
        given(kind) == L!ListOf(kind, Len(keys))
    IN  /\ links("LL", L!LL_SORT(given("LL"), keys))
        /\ links("DL", L!DL_SORT(given("DL"), keys))
        /\ links("CDL", L!CDL_SORT(given("CDL"), keys))
        /\ links("HASH", L!HASH_SRT(given("HASH"), keys))

=============================================================================
