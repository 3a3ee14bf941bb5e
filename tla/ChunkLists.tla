----------------------------- MODULE ChunkLists -----------------------------
(***************************************************************************)
(* The doubly linked lists of chunks kept in the database metadata         *)
(* (db_metadata::append_ and remove_ in db_metadata.hpp): the free list,   *)
(* and the lists of chunks the fast and the slow node writer append to.    *)
(* The operators take a record b with at least the fields info (one        *)
(* chunk_info_t per chunk) and lists (one id_pair per list).               *)
(***************************************************************************)
EXTENDS Integers, Sequences

CONSTANTS Chunks,            \* ids of the sequential chunks of the pool
          INVALID_CHUNK_ID,  \* no chunk: 0xfffff in a link, UINT32_MAX in a list
          MAX_COUNT          \* the largest insertion count, of 20 bits

ASSUME ChunkAssumption == INVALID_CHUNK_ID \notin Chunks

\* in_fast_list and in_slow_list; neither bit means the free list
ListNames == {"free", "fast", "slow"}

\* Mutant of AppendChunk: the insertion count of the tail is taken over.
AppendChunkSameCount(b, l, c) ==
    LET tail == b.lists[l].end
        link == [prev |-> tail, next |-> INVALID_CHUNK_ID, list |-> l,
                 count |-> IF tail = INVALID_CHUNK_ID THEN 0 ELSE b.info[tail].count]
    IN  IF tail = INVALID_CHUNK_ID
        THEN [b EXCEPT !.lists[l] = [begin |-> c, end |-> c], !.info[c] = link]
        ELSE [b EXCEPT !.lists[l].end = c,
                       !.info = [@ EXCEPT ![tail].next = c, ![c] = link]]

\* append_(list, c): the chunk becomes the tail, one insertion count further.
AppendChunk(b, l, c) ==
    LET tail == b.lists[l].end
        link == [prev |-> tail, next |-> INVALID_CHUNK_ID, list |-> l,
                 count |-> IF tail = INVALID_CHUNK_ID THEN 0
                           ELSE b.info[tail].count + 1]
    IN  IF tail = INVALID_CHUNK_ID
        THEN [b EXCEPT !.lists[l] = [begin |-> c, end |-> c], !.info[c] = link]
        ELSE [b EXCEPT !.lists[l].end = c,
                       !.info = [@ EXCEPT ![tail].next = c, ![c] = link]]

\* "Chunk count overflow detected", and the tail has no next chunk
AppendAssert(b, l) ==
    LET tail == b.lists[l].end
    IN  tail # INVALID_CHUNK_ID => /\ b.info[tail].count < MAX_COUNT
                                   /\ b.info[tail].next = INVALID_CHUNK_ID

\* remove_(c).  A release build leaves the links and the list bits of c as
\* they were.
RemoveChunk(b, c) ==
    LET i == b.info[c]
    IN  CASE i.prev = INVALID_CHUNK_ID /\ i.next = INVALID_CHUNK_ID ->
               [b EXCEPT !.lists[i.list] =
                           [begin |-> INVALID_CHUNK_ID, end |-> INVALID_CHUNK_ID]]
          [] i.prev = INVALID_CHUNK_ID /\ i.next # INVALID_CHUNK_ID ->
               [b EXCEPT !.info[i.next].prev = INVALID_CHUNK_ID,
                         !.lists[i.list].begin = i.next]
          [] i.prev # INVALID_CHUNK_ID /\ i.next = INVALID_CHUNK_ID ->
               [b EXCEPT !.info[i.prev].next = INVALID_CHUNK_ID,
                         !.lists[i.list].end = i.prev]
          [] OTHER -> b

\* "remove_() has had mid-list removals explicitly disabled to prevent
\* insertion count becoming inaccurate"
RemoveAssert(b, c) ==
    \/ b.info[c].prev = INVALID_CHUNK_ID
    \/ b.info[c].next = INVALID_CHUNK_ID

\* num_chunks(list): the length of a list, from the counts of its two ends.
\* It asserts that the list is not empty.
NumChunks(b, l) ==
    b.info[b.lists[l].end].count - b.info[b.lists[l].begin].count + 1

\* The chunks of list l in order, from its head along the next links (the
\* loops over a list in update_aux.cpp); a broken list yields at most n chunks.
ListSeq(b, l, n) ==
    LET walk[k \in 0 .. n] ==
          IF k = 0 THEN <<>>
          ELSE LET before == walk[k - 1]
                   c == IF k = 1 THEN b.lists[l].begin
                        ELSE IF Len(before) < k - 1 THEN INVALID_CHUNK_ID
                        ELSE b.info[before[k - 1]].next
               IN  IF c = INVALID_CHUNK_ID THEN before ELSE Append(before, c)
    IN  walk[n]
=============================================================================
