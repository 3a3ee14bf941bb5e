----------------------------- MODULE DbMetadata -----------------------------
(***************************************************************************)
(* One copy of the database metadata (detail::db_metadata), what the       *)
(* update_aux.cpp readers compute from it, and the primitives that change  *)
(* it.  A primitive is one of the do_ lambdas of update_aux.cpp: it runs   *)
(* on the first copy, then on the second, each time under the dirty bit of *)
(* the copy it changes.                                                    *)
(*                                                                         *)
(* A copy is a record with the fields                                      *)
(*   lb, next     version_lower_bound_ and next_version_ of the ring       *)
(*   slots        the ring's storage (cnv chunks, outside the struct)      *)
(*   hist         history_length                                           *)
(*   latest       latest_{finalized,verified,voted,proposed}_version       *)
(*   expire       auto_expire_version                                      *)
(*   wip          start_of_wip_offset_{fast,slow}                          *)
(*   info, lists  chunk_info and the three id_pairs                        *)
(*   freecap      capacity_in_free_list, in chunks                         *)
(***************************************************************************)
EXTENDS RootOffsets, ChunkLists, FiniteSets

CONSTANT ChunkCap   \* units of data (one node write each) that fit a chunk

ASSUME ChunkCapAssumption == ChunkCap \in Nat \ {0}

LatestMarks == {"finalized", "verified", "voted", "proposed"}

\* A chunk_offset_t: a chunk and the unit of data inside it.
Offset(c, u) == [chunk |-> c, unit |-> u]

NumOfChunks == Cardinality(Chunks)

List(b, l) == ListSeq(b, l, NumOfChunks)

----------------------------------------------------------------------------
\* What readers compute from the first copy

\* db_history_min_valid_version: the first version of the range with a root,
\* or the maximum version when there is none.
MinValidVersion(b) ==
    IF b.next = 0 THEN INVALID_BLOCK_NUM ELSE FirstValidFrom(b, b.lb)

\* db_history_range_lower_bound, and the assertion it makes
RangeLowerBound(b) == IF b.next = 0 THEN INVALID_BLOCK_NUM ELSE b.lb

HistoryRangeMin(b) ==
    IF MaxVersion(b) >= b.hist THEN MaxVersion(b) - b.hist + 1 ELSE 0

HistoryRangeAssert(b) == b.next # 0 => b.lb >= HistoryRangeMin(b)

\* get_root_offset_at_version
RootOffsetAt(b, v) ==
    IF v <= MaxVersion(b) /\ v >= RangeLowerBound(b) THEN At(b, v)
    ELSE INVALID_OFFSET

\* version_is_valid_ondisk
IsValid(b, v) == RootOffsetAt(b, v) # INVALID_OFFSET

ValidVersions(b) == {v \in b.lb .. b.next - 1 : IsValid(b, v)}

\* What a reader sees of the history: every version that has a root.
View(b) == [v \in ValidVersions(b) |-> At(b, v)]

\* The insertion count of the chunk of an offset: the chunk part of
\* physical_to_virtual
Count(b, o) == b.info[o.chunk].count

\* physical_to_virtual(p) > physical_to_virtual(q), for offsets of one list
VirtuallyAfter(b, p, q) ==
    \/ Count(b, p) > Count(b, q)
    \/ Count(b, p) = Count(b, q) /\ p.unit > q.unit

\* disk_usage() > x / 10 and < x / 10
UsageAbove(b, x) == 10 * (NumOfChunks - NumChunks(b, "free")) > x * NumOfChunks
UsageBelow(b, x) == 10 * (NumOfChunks - NumChunks(b, "free")) < x * NumOfChunks

\* calc_auto_expire_version
CalcAutoExpireVersion(b) ==
    IF b.next = 0 THEN 0
    ELSE IF MinValidVersion(b) = MaxVersion(b) \/ MinValidVersion(b) <= b.expire + 1
         THEN MinValidVersion(b)
         ELSE b.expire + 2

----------------------------------------------------------------------------
\* Primitives

PrimOps == {"push", "assign", "fast_forward", "reset", "rewind", "hist", "latest",
            "expire", "wip", "link", "unlink", "freecap"}

\* update_root_offset on one copy.  Whether the ring is now empty is asked of
\* the first copy, front, whichever copy is being changed.
UpdateRootOffset(b, v, o, front) ==
    IF o = INVALID_OFFSET /\ v = MaxVersion(front) /\ v = MinValidVersion(front)
    THEN ResetAll(Assign(b, v, o), 0)
    ELSE Assign(b, v, o)

\* Copy c of the two copies after primitive p.
Apply(p, copies, c) ==
    LET b == copies[c]
    IN  CASE p.op = "push" -> Push(b, p.o)
          [] p.op = "assign" ->
               UpdateRootOffset(b, p.v, p.o,
                                IF c = 0 THEN Assign(b, p.v, p.o) ELSE copies[0])
          [] p.op = "fast_forward" -> FastForward(b, p.v)
          [] p.op = "reset" -> ResetAll(b, 0)
          [] p.op = "rewind" -> RewindRing(b, p.v)
          [] p.op = "hist" -> [b EXCEPT !.hist = p.n]
          [] p.op = "latest" -> [b EXCEPT !.latest[p.mark] = p.v]
          [] p.op = "expire" -> [b EXCEPT !.expire = p.v]
          [] p.op = "wip" -> [b EXCEPT !.wip = p.wip]
          [] p.op = "link" -> AppendChunk(b, p.list, p.c)
          [] p.op = "unlink" -> RemoveChunk(b, p.c)
          [] p.op = "freecap" -> [b EXCEPT !.freecap = @ + p.n]

\* The MONAD_ASSERT a primitive makes on the copy it changes
PrimAssert(p, b) ==
    CASE p.op = "fast_forward" -> b.next = 0 \/ p.v > MaxVersion(b)
      [] p.op = "rewind" -> p.v < MaxVersion(b) /\ MaxVersion(b) - p.v <= Cap
      [] p.op = "hist" -> p.n > 0 /\ p.n <= Cap
      [] p.op = "link" -> AppendAssert(b, p.list)
      [] p.op = "unlink" -> RemoveAssert(b, p.c)
      [] OTHER -> TRUE

\* The ring's storage when the process dies inside primitive p: every slot
\* is one atomic store, and a clearing loop or memset may have got anywhere.
PartialSlots(p, b) ==
    CASE p.op = "push" -> {b.slots, [b.slots EXCEPT ![SlotOf(b.next)] = p.o]}
      [] p.op = "assign" -> {b.slots, [b.slots EXCEPT ![SlotOf(p.v)] = p.o]}
      [] p.op = "rewind" ->
           {Cleared(b.slots, p.v + 1 .. v) : v \in p.v .. MaxVersion(b)}
      [] p.op = "reset" \/ (p.op = "fast_forward" /\ ForgetsAll(b, p.v)) ->
           {[s \in Slots |-> IF s \in erased THEN INVALID_OFFSET ELSE b.slots[s]] :
              erased \in SUBSET Slots}
      [] p.op = "fast_forward" /\ ~ForgetsAll(b, p.v) ->
           {Cleared(b.slots, b.next .. v) : v \in b.next - 1 .. p.v - 1}
      [] OTHER -> {b.slots}

\* Mutant of DbCopy: the header of the ring stays behind with its storage.
DbCopyNoRing(dst, src) ==
    [src EXCEPT !.slots = dst.slots, !.next = dst.next, !.lb = dst.lb]

\* db_copy: everything in the struct and its chunk_info array.  The ring's
\* storage lies in other chunks, outside the bytes that are copied.
DbCopy(dst, src) == [src EXCEPT !.slots = dst.slots]

=============================================================================
