----------------------------- MODULE UpdateAux -----------------------------
(***************************************************************************)
(* The on-disk state of the trie database: UpdateAuxImpl in update_aux.cpp *)
(* and the writes of trie.cpp, with the two copies of the metadata, the    *)
(* data in the chunks, and a process that may die between any two stores.  *)
(*                                                                         *)
(* An operation is a program: the sequence todo of items still to do.  An  *)
(* item that names a primitive of DbMetadata runs on the first copy and    *)
(* then on the second, each time setting the dirty bit, changing the copy  *)
(* and clearing the bit.  Every other item is a point where the code reads *)
(* the metadata and decides what comes next, or touches a chunk's data.    *)
(***************************************************************************)
EXTENDS DbMetadata, SequencesExt

CONSTANTS Versions,            \* versions callers use (bound)
          Marks,               \* the latest_*_version fields callers set (bound)
          Ops,                 \* operations the callers of this instance make
          HistoryLens,         \* values of fixed_history_length at open
          MIN_HISTORY_LENGTH,
          MaxWrites,           \* bound on upserts
          MaxCrashes,          \* bound on sudden exits
          CrashWrites,         \* bound on upserts where there are sudden exits
          NoValue              \* "no history length given"

VARIABLES
    copies,   \* db_metadata_[0] and db_metadata_[1]
    dirty,    \* is_dirty() of each copy
    magic,    \* the copy carries the magic string
    disk,     \* the units of data in each chunk
    pc,       \* "closed", the phase of set_io, or "open"
    todo,     \* the items left of the operation in progress
    side,     \* the copy the primitive at the head of todo changes next
    writer,   \* node_writer_fast and node_writer_slow
    vol,      \* volatile members: compact_offset_{fast,slow}, a root in memory,
              \* enable_dynamic_history_length_
    fault,    \* the assertion that stopped a process, or "none"
    writes,   \* number of upserts so far
    crashes,  \* number of sudden exits so far
    recov,    \* what a reopened database may record
    moved     \* pairs of versions that move_trie_version_forward joined

vars == <<copies, dirty, magic, disk, pc, todo, side, writer, vol, fault, writes,
          crashes, recov, moved>>

front == copies[0]

\* What a copy records of the history, as a reader of it sees it
Recorded(b) == [view |-> View(b), max |-> MaxVersion(b), hist |-> b.hist,
                latest |-> b.latest, expire |-> b.expire, wip |-> b.wip]

----------------------------------------------------------------------------
\* Programs

PushRoot(o) == [op |-> "push", o |-> o]
SetRoot(v, o) == [op |-> "assign", v |-> v, o |-> o]
SetHistory(n) == [op |-> "hist", n |-> n]
SetLatest(m, v) == [op |-> "latest", mark |-> m, v |-> v]
SetExpire(v) == [op |-> "expire", v |-> v]
SetWip(w) == [op |-> "wip", wip |-> w]
Item(op, v) == [op |-> op, v |-> v]
ItemOf(op, l) == [op |-> op, list |-> l]
FreeBefore(l, n) == [op |-> "free_before", list |-> l, n |-> n]

\* append(list, c): link the chunk, and count it if it is free again.
AppendTo(l, c) ==
    <<[op |-> "link", list |-> l, c |-> c]>>
      \o (IF l = "free" THEN <<[op |-> "freecap", n |-> 1]>> ELSE <<>>)

\* Mutant of RemoveFrom: the free capacity stays.
RemoveUncounted(l, c) == <<[op |-> "unlink", c |-> c]>>

\* remove(c): unlink the chunk, and uncount it if the first copy has it free.
RemoveFrom(l, c) ==
    <<[op |-> "unlink", c |-> c]>>
      \o (IF l = "free" THEN <<[op |-> "freecap", n |-> -1]>> ELSE <<>>)

\* remove(c), destroy_contents() and append(free, c), in this order
Free(l, c) ==
    RemoveFrom(l, c) \o <<[op |-> "destroy", c |-> c]>> \o AppendTo("free", c)

----------------------------------------------------------------------------
\* New database (set_io on a pool without magic strings)

\* The first chunk in the order of the pool starts the fast list, the second
\* the slow list, and the others are free.
ChunkOrder == SetToSortSeq(Chunks, >)

EmptyCopy ==
    [lb |-> 0, next |-> 0, slots |-> [s \in Slots |-> INVALID_OFFSET], hist |-> Cap,
     latest |-> [m \in LatestMarks |-> INVALID_BLOCK_NUM], expire |-> 0,
     wip |-> [fast |-> Offset(ChunkOrder[1], 0), slow |-> Offset(ChunkOrder[2], 0)],
     info |-> [c \in Chunks |-> [prev |-> INVALID_CHUNK_ID, next |-> INVALID_CHUNK_ID,
                                 list |-> "free", count |-> 0]],
     lists |-> [l \in ListNames |-> [begin |-> INVALID_CHUNK_ID,
                                     end |-> INVALID_CHUNK_ID]],
     freecap |-> NumOfChunks - 2]

NewCopy ==
    LET grow[n \in 0 .. NumOfChunks] ==
          IF n = 0 THEN EmptyCopy
          ELSE AppendChunk(grow[n - 1],
                           CASE n = 1 -> "fast" [] n = 2 -> "slow" [] OTHER -> "free",
                           ChunkOrder[n])
    IN  [EmptyCopy EXCEPT !.info = grow[NumOfChunks].info,
                          !.lists = grow[NumOfChunks].lists]

ClosedVol == [cof |-> 0, cos |-> 0, mem |-> FALSE, dyn |-> TRUE]

Init ==
    /\ copies = [i \in 0 .. 1 |-> EmptyCopy]
    /\ dirty = [i \in 0 .. 1 |-> FALSE]
    /\ magic = [i \in 0 .. 1 |-> FALSE]
    /\ disk = [c \in Chunks |-> <<>>]
    /\ pc = "closed" /\ todo = <<>> /\ side = 0
    /\ writer = EmptyCopy.wip
    /\ vol = ClosedVol
    /\ fault = "none" /\ writes = 0 /\ crashes = 0
    /\ recov = {Recorded(EmptyCopy)} /\ moved = {}

----------------------------------------------------------------------------
\* Steps of a program

\* The phases of set_io in which the two copies are brought back together, and
\* the one in which a new database is made
Healing == {"heal_magic", "heal_dirty", "attach"}

item == Head(todo)

Doing(op) == pc = "open" /\ todo # <<>> /\ item.op = op

\* Items that call db_history_range_lower_bound, which asserts that the ring's
\* lower bound is inside the history
RangeReaders == {"erase_up_to", "release", "adjust", "shorten", "erase_outdated",
                 "erased_outdated", "compact", "nodes", "lower_bound", "rewind_on_open"}

Reading(op) == Doing(op) /\ HistoryRangeAssert(front)

volatile == <<pc, side, writer, vol>>
ghosts == <<fault, writes, crashes, recov, moved>>

\* The item at the head of todo is replaced by a program.
Continue(program) ==
    /\ todo' = program \o Tail(todo)
    /\ UNCHANGED <<copies, dirty, magic, disk, volatile, ghosts>>

\* The process is gone, and what it held in memory with it.
Exit ==
    /\ pc' = "closed" /\ todo' = <<>> /\ side' = 0
    /\ writer' = EmptyCopy.wip /\ vol' = ClosedVol

\* A MONAD_ASSERT fails (or a null root is dereferenced).
Abort(why) ==
    /\ Exit /\ fault' = why
    /\ recov' = IF pc \in Healing THEN recov ELSE {Recorded(front)}
    /\ UNCHANGED <<copies, dirty, magic, disk, writes, crashes, moved>>

\* MONAD_ASSERT(ro_version_lower_bound >= history_range_min)
HistoryRangeFails ==
    /\ \E op \in RangeReaders : Doing(op)
    /\ ~HistoryRangeAssert(front)
    /\ Abort("history range")

\* A primitive is to run on one copy or on both.
InPrim == pc \in {"creating", "open"} /\ todo # <<>> /\ item.op \in PrimOps

\* Mutant of HoldDirty: one dirty bit for both copies
HoldDirtyBoth ==
    /\ InPrim /\ ~dirty[side]
    /\ dirty' = [i \in 0 .. 1 |-> TRUE]
    /\ UNCHANGED <<copies, magic, disk, todo, volatile, ghosts>>

\* hold_dirty() on the next copy
HoldDirty ==
    /\ InPrim /\ ~dirty[side]
    /\ dirty' = [dirty EXCEPT ![side] = TRUE]
    /\ UNCHANGED <<copies, magic, disk, todo, volatile, ghosts>>

\* The stores of the primitive on that copy, and the end of hold_dirty()
RunPrim ==
    /\ InPrim /\ dirty[side]
    /\ IF PrimAssert(item, copies[side])
       THEN /\ copies' = [copies EXCEPT ![side] = Apply(item, copies, side)]
            /\ dirty' = [dirty EXCEPT ![side] = FALSE]
            /\ side' = 1 - side
            /\ todo' = IF side = 1 THEN Tail(todo) ELSE todo
            /\ UNCHANGED <<magic, disk, pc, writer, vol, ghosts>>
       ELSE Abort(item.op)

\* destroy_contents(): the units of the chunk are gone, and every root that
\* refers to the chunk with them.
Destroy ==
    /\ Doing("destroy")
    /\ disk' = [c \in Chunks |->
                  IF c = item.c THEN <<>>
                  ELSE [n \in DOMAIN disk[c] |->
                          IF item.c \in disk[c][n].refs
                          THEN [disk[c][n] EXCEPT !.lost = TRUE] ELSE disk[c][n]]]
    /\ todo' = Tail(todo)
    /\ UNCHANGED <<copies, dirty, magic, volatile, ghosts>>

\* try_trim_contents(offset) of the chunk a writer goes on with
Trim ==
    /\ Doing("trim")
    /\ LET o == front.wip[item.list]
       IN  /\ disk' = [disk EXCEPT ![o.chunk] = SubSeq(@, 1, o.unit)]
           /\ todo' = Tail(todo)
           /\ UNCHANGED <<copies, dirty, magic, volatile, ghosts>>

\* reset_node_writers(), which asserts that the chunks are long enough
ResetNodeWriters ==
    /\ Doing("reset_node_writers")
    /\ IF \A l \in {"fast", "slow"} : Len(disk[front.wip[l].chunk]) >= front.wip[l].unit
       THEN /\ writer' = front.wip /\ todo' = Tail(todo)
            /\ UNCHANGED <<copies, dirty, magic, disk, pc, side, vol, ghosts>>
       ELSE Abort("chunk too short")

----------------------------------------------------------------------------
\* History: erasing versions and giving their chunks back

\* The loop of clear_root_offsets_up_to_and_including, then
\* release_unreferenced_chunks: together erase_versions_up_to_and_including
EraseUpTo ==
    /\ Reading("erase_up_to")
    /\ IF RangeLowerBound(front) # INVALID_BLOCK_NUM /\ RangeLowerBound(front) <= item.v
       THEN Continue(<<SetRoot(RangeLowerBound(front), INVALID_OFFSET), item>>)
       ELSE Continue(<<Item("release", item.v)>>)

UnitAt(o) == disk[o.chunk][o.unit + 1]

ListEndCount(l) == front.info[front.lists[l].end].count

\* release_unreferenced_chunks and free_compacted_chunks
ReleaseUnreferencedChunks ==
    /\ Reading("release")
    /\ LET v == MinValidVersion(front)
           root == RootOffsetAt(front, v)
       IN  IF v = INVALID_BLOCK_NUM THEN Continue(<<>>)
           ELSE IF root = INVALID_OFFSET THEN Abort("null root")
           ELSE IF front.lb < v THEN Abort("lower bound")
           ELSE IF \/ UnitAt(root).cof > ListEndCount("fast")
                   \/ UnitAt(root).cos > ListEndCount("slow")
           THEN Abort("compaction offset")
           ELSE Continue(<<FreeBefore("fast", UnitAt(root).cof),
                           FreeBefore("slow", UnitAt(root).cos)>>)

\* Mutant of FreeCompacted: the chunk at the count is freed as well.
FreeCompactedUpTo ==
    /\ Doing("free_before")
    /\ LET c == front.lists[item.list].begin
       IN  IF c # INVALID_CHUNK_ID /\ front.info[c].count <= item.n
           THEN Continue(Free(item.list, c) \o <<item>>) ELSE Continue(<<>>)

\* free_chunks_from_ci_till_count: one turn of its loop
FreeCompacted ==
    /\ Doing("free_before")
    /\ LET c == front.lists[item.list].begin
       IN  IF c # INVALID_CHUNK_ID /\ front.info[c].count < item.n
           THEN Continue(Free(item.list, c) \o <<item>>) ELSE Continue(<<>>)

\* adjust_history_length_based_on_disk_usage: the entry, and one turn of its loop
AdjustHistoryLength ==
    /\ Reading("adjust")
    /\ IF front.next = 0 THEN Continue(<<>>)
       ELSE IF front.lists["free"].end = INVALID_CHUNK_ID THEN Abort("out of storage")
       ELSE IF /\ UsageAbove(front, 8)
               /\ MaxVersion(front) - MinValidVersion(front) + 1 > MIN_HISTORY_LENGTH
       THEN Continue(<<Item("shorten", MaxVersion(front))>>)
       ELSE IF UsageBelow(front, 6) /\ front.hist < Cap
       THEN Continue(<<SetHistory(Cap)>>)
       ELSE Continue(<<>>)

ShortenHistory ==
    /\ Reading("shorten")
    /\ LET v == MinValidVersion(front)
           rest == item.v - v
       IN  IF front.lists["free"].end = INVALID_CHUNK_ID THEN Abort("out of storage")
           ELSE IF ~(UsageAbove(front, 8) /\ front.hist > MIN_HISTORY_LENGTH)
           THEN Continue(<<>>)
           ELSE IF v = INVALID_BLOCK_NUM \/ v >= item.v THEN Abort("erase latest version")
           ELSE Continue(<<Item("erase_up_to", v),
                           SetHistory(IF rest > MIN_HISTORY_LENGTH THEN rest
                                      ELSE MIN_HISTORY_LENGTH),
                           item>>)

----------------------------------------------------------------------------
\* upsert: do_update, the node writers, write_new_root_node

MaxOf(x, y) == IF x > y THEN x ELSE y

\* The versions do_update's callers pass: any one into an empty database, then
\* the maximum version or the next.
UpsertVersions ==
    IF front.next = 0 THEN Versions
    ELSE {MaxVersion(front), MaxVersion(front) + 1} \cap Versions

\* do_update with compaction enabled; the previous root is the one in memory,
\* or else the one of the maximum version.  target is the list the root goes to
\* (can_write_to_fast).
Upsert(v, writeRoot, target) ==
    /\ pc = "open" /\ todo = <<>> /\ writes < (IF crashes = 0 THEN MaxWrites ELSE CrashWrites)
    /\ v \in UpsertVersions
    /\ LET root == RootOffsetAt(front, MaxVersion(front))
           prev == IF vol.mem \/ root = INVALID_OFFSET THEN vol
                   ELSE [vol EXCEPT !.cof = UnitAt(root).cof, !.cos = UnitAt(root).cos]
       IN  vol' = [prev EXCEPT !.mem = TRUE]
    /\ todo' = (IF vol.dyn THEN <<Item("adjust", v)>> ELSE <<>>)
                 \o <<Item("compact", v), Item("erase_outdated", v),
                      [op |-> "nodes", v |-> v, target |-> target, writeRoot |-> writeRoot]>>
    /\ writes' = writes + 1
    /\ UNCHANGED <<copies, dirty, magic, disk, pc, side, writer, fault, crashes,
                   recov, moved>>

\* Where advance_compact_offsets may put the two offsets: the fast one anywhere
\* up to the writer, the slow one only on a full disk.
CompactTo ==
    LET slowToo == UsageAbove(front, 6) /\ 10 * NumChunks(front, "slow") > 2 * NumOfChunks
        upTo(offset, l) == offset .. MaxOf(offset, Count(front, writer[l]))
    IN  upTo(vol.cof, "fast") \X (IF slowToo THEN upTo(vol.cos, "slow") ELSE {vol.cos})

\* Only a version that does not exist advances them.  The disk usage is asked
\* for, which asserts that the free list is not empty.
AdvanceCompactOffsets ==
    /\ Reading("compact")
    /\ IF IsValid(front, item.v) THEN Continue(<<>>)
       ELSE IF front.lists["free"].end = INVALID_CHUNK_ID THEN Abort("out of storage")
       ELSE /\ \E to \in CompactTo : vol' = [vol EXCEPT !.cof = to[1], !.cos = to[2]]
            /\ todo' = Tail(todo)
            /\ UNCHANGED <<copies, dirty, magic, disk, pc, side, writer, ghosts>>

\* The version that falls out of the history is erased before its slot of the
\* ring is written.
EraseOutdated ==
    /\ Reading("erase_outdated")
    /\ LET post == MaxOf(item.v, MaxVersion(front))
       IN  IF front.next # 0 /\ post - MinValidVersion(front) >= front.hist
           THEN Continue(<<Item("erase_up_to", post - front.hist),
                           Item("erased_outdated", post)>>)
           ELSE Continue(<<>>)

\* MONAD_ASSERT(max_version_post_upsert - db_history_min_valid_version() <
\* version_history_length()), in 64 bit arithmetic
ErasedOutdated ==
    /\ Reading("erased_outdated")
    /\ IF (item.v - MinValidVersion(front)) % (INVALID_BLOCK_NUM + 1) < front.hist
       THEN Continue(<<>>) ELSE Abort("erase outdated")

\* The chunks a trie compacted up to the given counts may refer to
Referenced(cof, cos) ==
    {c \in ToSet(List(front, "fast")) : front.info[c].count >= cof}
      \cup {c \in ToSet(List(front, "slow")) : front.info[c].count >= cos}

\* Write one unit where writer l stands.
Written(d, l, unit) ==
    [d EXCEPT ![writer[l].chunk] = Append(SubSeq(@, 1, writer[l].unit), unit)]

Node(v) == [ver |-> v, cof |-> 0, cos |-> 0, refs |-> {}, lost |-> FALSE]

\* upsert_ and the writes it makes: the root, with what belongs to it, goes to
\* the target list, nodes that are compacted to the slow list.  The rest of
\* upsert follows.
WriteNodes ==
    /\ Reading("nodes")
    /\ \E compacts \in BOOLEAN :
         LET target == item.target
             root == [ver |-> item.v, cof |-> vol.cof, cos |-> vol.cos,
                      refs |-> Referenced(vol.cof, vol.cos), lost |-> FALSE]
             other == IF compacts /\ target = "fast" THEN {"slow"} ELSE {}
         IN  /\ compacts => vol.cof > 0 \/ vol.cos > 0
             /\ disk' = Written(IF other = {} THEN disk ELSE Written(disk, "slow", Node(item.v)),
                                target, root)
             /\ writer' = [l \in {"fast", "slow"} |->
                             IF l \in {target} \cup other
                             THEN [writer[l] EXCEPT !.unit = @ + 1] ELSE writer[l]]
    /\ todo' = <<ItemOf("flush", "fast"), ItemOf("flush", "slow")>>
                 \o (IF item.writeRoot
                     THEN <<Item("advance", item.v),
                            [op |-> "root", v |-> item.v, o |-> writer[item.target]]>>
                     ELSE <<>>)
                 \o <<SetExpire(CalcAutoExpireVersion(front))>> \o Tail(todo)
    /\ UNCHANGED <<copies, dirty, magic, pc, side, vol, ghosts>>

\* Mutant of Flush: the free list is taken to have a chunk.
FlushUnchecked ==
    /\ Doing("flush")
    /\ LET c == front.lists["free"].end
       IN  IF writer[item.list].unit < ChunkCap THEN Continue(<<>>)
           ELSE /\ writer' = [writer EXCEPT ![item.list] = Offset(c, 0)]
                /\ todo' = RemoveFrom("free", c) \o AppendTo(item.list, c) \o Tail(todo)
                /\ UNCHANGED <<copies, dirty, magic, disk, pc, side, vol, ghosts>>

\* flush_buffered_writes for one writer: a writer at the end of its chunk goes
\* on in the chunk at the end of the free list (replace_node_writer).
Flush ==
    /\ Doing("flush")
    /\ LET c == front.lists["free"].end
       IN  IF writer[item.list].unit < ChunkCap THEN Continue(<<>>)
           ELSE IF c = INVALID_CHUNK_ID THEN Abort("out of free blocks")
           ELSE /\ writer' = [writer EXCEPT ![item.list] = Offset(c, 0)]
                /\ todo' = RemoveFrom("free", c) \o AppendTo(item.list, c) \o Tail(todo)
                /\ UNCHANGED <<copies, dirty, magic, disk, pc, side, vol, ghosts>>

\* advance_db_offsets_to the two writers
AdvanceDbOffsets ==
    /\ Doing("advance")
    /\ IF \A l \in {"fast", "slow"} : front.info[writer[l].chunk].list = l
       THEN Continue(<<SetWip(writer)>>)
       ELSE Abort("writer in wrong list")

\* The rest of write_new_root_node
UpdateRoot ==
    /\ Doing("root")
    /\ IF front.next = 0
       THEN Continue(<<Item("fast_forward", item.v), PushRoot(item.o),
                       Item("lower_bound", item.v)>>)
       ELSE IF item.v <= MaxVersion(front)
       THEN IF item.v >= HistoryRangeMin(front) /\ HistoryRangeAssert(front)
            THEN Continue(<<SetRoot(item.v, item.o),
                            Item("lower_bound", IF item.v < front.lb THEN item.v
                                                ELSE front.lb)>>)
            ELSE Abort("root out of range")
       ELSE IF item.v = MaxVersion(front) + 1
       THEN Continue(<<PushRoot(item.o)>>) ELSE Abort("version gap")

\* The assertion on db_history_range_lower_bound after a root was recorded
LowerBoundIs ==
    /\ Reading("lower_bound")
    /\ IF RangeLowerBound(front) = item.v THEN Continue(<<>>) ELSE Abort("lower bound")

----------------------------------------------------------------------------
\* Other operations of an open database

\* Mutant of MoveTrieVersionForward: versions that fall out of the history stay.
MoveWithoutErasing(src, dest) ==
    /\ pc = "open" /\ todo = <<>>
    /\ HistoryRangeAssert(front) /\ IsValid(front, src) /\ dest > src /\ dest >= MaxVersion(front)
    /\ todo' = <<SetRoot(src, INVALID_OFFSET), Item("fast_forward", dest),
                 PushRoot(RootOffsetAt(front, src))>>
    /\ moved' = moved \cup {<<UnitAt(RootOffsetAt(front, src)).ver, dest>>}
    /\ UNCHANGED <<copies, dirty, magic, disk, volatile, fault, writes, crashes, recov>>

\* move_trie_version_forward
MoveTrieVersionForward(src, dest) ==
    /\ pc = "open" /\ todo = <<>>
    /\ HistoryRangeAssert(front) /\ IsValid(front, src) /\ dest > src /\ dest >= MaxVersion(front)
    /\ todo' = <<SetRoot(src, INVALID_OFFSET)>>
                 \o (IF dest >= front.hist THEN <<Item("erase_up_to", dest - front.hist)>>
                     ELSE <<>>)
                 \o <<Item("fast_forward", dest), PushRoot(RootOffsetAt(front, src))>>
    /\ moved' = moved \cup {<<UnitAt(RootOffsetAt(front, src)).ver, dest>>}
    /\ UNCHANGED <<copies, dirty, magic, disk, volatile, fault, writes, crashes, recov>>

\* update_finalized_version and its siblings (set_latest_*)
UpdateLatest(m, v) ==
    /\ pc = "open" /\ todo = <<>> /\ v \in ValidVersions(front)
    /\ todo' = <<SetLatest(m, v)>>
    /\ UNCHANGED <<copies, dirty, magic, disk, volatile, ghosts>>

----------------------------------------------------------------------------
\* Opening, closing and dying

\* set_io(io, h) on a writable pool, then what the caller asks of the database
\* it opens: nothing, rewind_to_latest_finalized, or the CLI's --rewind-to.
Open(h, then) ==
    /\ pc = "closed"
    /\ pc' = "heal_magic" /\ fault' = "none"
    /\ todo' = <<[op |-> "attach", h |-> h]>> \o then
    /\ UNCHANGED <<copies, dirty, magic, disk, side, writer, vol, writes, crashes, recov,
                   moved>>

\* db_copy asserts that the source is clean, and holds the dirty bit of the
\* destination while it copies.
DbCopyOnto(dst) ==
    LET src == 1 - dst
    IN  IF dirty[src] THEN Abort("db_copy")
        ELSE /\ dirty' = [dirty EXCEPT ![dst] = ~@]
             /\ IF dirty[dst]
                THEN /\ copies' = [copies EXCEPT ![dst] = DbCopy(@, copies[src])]
                     /\ magic' = [magic EXCEPT ![dst] = magic[src]]
                ELSE UNCHANGED <<copies, magic>>
             /\ UNCHANGED <<disk, todo, volatile, ghosts>>

\* set_io goes on to its next phase.
GoTo(phase) ==
    /\ pc' = phase
    /\ UNCHANGED <<copies, dirty, magic, disk, todo, side, writer, vol, ghosts>>

\* The front copy lost its magic string: overwrite it with the backup.
HealMagic ==
    /\ pc = "heal_magic"
    /\ IF ~magic[0] /\ magic[1] THEN DbCopyOnto(0) ELSE GoTo("heal_dirty")

\* "Replace the dirty copy with the non-dirty copy"
HealDirty ==
    /\ pc = "heal_dirty"
    /\ IF magic[0] /\ magic[1] /\ dirty[0] THEN DbCopyOnto(0)
       ELSE IF magic[0] /\ magic[1] /\ dirty[1] THEN DbCopyOnto(1)
       ELSE GoTo("attach")

\* set_io goes on with a first copy that a dying process tore, because the other
\* one has no magic string to be healed from.  Undefined from here on: the model
\* stops the process.
UseTorn == pc = "attach" /\ magic[0] /\ dirty[0] /\ Abort("torn metadata")

\* The rest of set_io: resume the database that is there, or make a new one, but
\* never over data.  Its two magic strings are the last thing a new database gets.
Attach ==
    /\ pc = "attach" /\ ~(magic[0] /\ dirty[0])
    /\ IF ~magic[0] /\ \E c \in Chunks : disk[c] # <<>> THEN Abort("existing data")
       ELSE /\ pc' = IF magic[0] THEN "open" ELSE "creating"
            /\ vol' = [ClosedVol EXCEPT !.dyn = item.h = NoValue]
            /\ LET history == IF item.h = NoValue THEN <<>> ELSE <<SetHistory(item.h)>>
                   shorten == IF item.h = NoValue THEN <<>>
                              ELSE <<Item("shorten_to", item.h)>>
               IN  IF magic[0]
                   THEN /\ todo' = <<[op |-> "match_offsets"]>> \o shorten \o history
                                     \o Tail(todo)
                        /\ UNCHANGED <<copies, dirty>>
                   ELSE /\ copies' = [i \in 0 .. 1 |-> NewCopy]
                        /\ dirty' = [i \in 0 .. 1 |-> FALSE]
                        /\ todo' = history
                                     \o <<[op |-> "magic", i |-> 0], [op |-> "magic", i |-> 1],
                                          [op |-> "reset_node_writers"]>> \o Tail(todo)
            /\ UNCHANGED <<magic, disk, side, writer, ghosts>>

\* The last phase of making a new database
WriteMagic ==
    /\ pc = "creating" /\ todo # <<>> /\ item.op = "magic"
    /\ magic' = [magic EXCEPT ![item.i] = TRUE]
    /\ pc' = IF item.i = 1 THEN "open" ELSE pc
    /\ todo' = Tail(todo)
    /\ UNCHANGED <<copies, dirty, disk, side, writer, vol, ghosts>>

\* A shorter history erases the versions before it.
ShortenTo ==
    /\ Doing("shorten_to")
    /\ IF item.v < front.hist /\ item.v <= MaxVersion(front)
       THEN Continue(<<Item("erase_up_to", MaxVersion(front) - item.v)>>)
       ELSE Continue(<<>>)

\* The loop of rewind_to_match_offsets frees the chunks behind the one a writer
\* stands in, from the end of the list.
FreeWip ==
    /\ Doing("free_after")
    /\ LET c == front.lists[item.list].end
       IN  IF c = INVALID_CHUNK_ID THEN Abort("wip not in list")
           ELSE IF c # front.wip[item.list].chunk
           THEN Continue(Free(item.list, c) \o <<item>>) ELSE Continue(<<>>)

\* rewind_to_match_offsets
MatchOffsets ==
    /\ Doing("match_offsets")
    /\ LET last == At(front, MaxVersion(front))
           of == front.info[last.chunk].list
       IN  IF \E l \in {"fast", "slow"} :
                     front.info[front.wip[l].chunk].list # l THEN Abort("wip in wrong list")
           ELSE IF last # INVALID_OFFSET /\ of = "free" THEN Abort("last root is free")
           ELSE IF last # INVALID_OFFSET /\ ~VirtuallyAfter(front, front.wip[of], last)
           THEN Abort("last root ahead of offsets")
           ELSE Continue(<<ItemOf("free_after", "fast"), ItemOf("trim", "fast"),
                           ItemOf("free_after", "slow"), ItemOf("trim", "slow"),
                           [op |-> "reset_node_writers"]>>)

ForgetLatest == <<SetLatest("verified", INVALID_BLOCK_NUM),
                  SetLatest("voted", INVALID_BLOCK_NUM),
                  SetLatest("proposed", INVALID_BLOCK_NUM)>>

\* clear_ondisk_db
ClearOndiskDb ==
    <<[op |-> "reset"], SetLatest("finalized", INVALID_BLOCK_NUM)>> \o ForgetLatest
    \o <<SetExpire(0),
      SetWip([l \in {"fast", "slow"} |-> Offset(front.lists[l].begin, 0)]),
      [op |-> "match_offsets"]>>

\* Mutant of PastRoot: the root is written over.
OntoRoot ==
    /\ Doing("past_root")
    /\ Continue(<<SetWip([front.wip EXCEPT !.fast = item.o])>>)

\* Where the fast writer goes on after the root of a version: the unit behind it.
\* A chunk has 256 MB, so that add_to_offset asserts for a root that ends its chunk,
\* and the branch that goes on in the next chunk is never taken.
PastRoot ==
    /\ Doing("past_root")
    /\ IF item.o.unit + 1 < ChunkCap
       THEN Continue(<<SetWip([front.wip EXCEPT !.fast = Offset(item.o.chunk, item.o.unit + 1)])>>)
       ELSE Abort("past chunk")

\* rewind_to_version
RewindTo(v) ==
    LET root == At(front, v)
    IN  IF v = MaxVersion(front) THEN <<>>
        ELSE <<Item("rewind", v)>>
               \o (IF /\ front.latest["finalized"] # INVALID_BLOCK_NUM
                      /\ front.latest["finalized"] > v
                   THEN <<SetLatest("finalized", v)>> ELSE <<>>)
               \o ForgetLatest
               \o (IF front.info[root.chunk].list = "fast"
                   THEN <<[op |-> "past_root", o |-> root]>> ELSE <<>>)
               \o <<[op |-> "match_offsets"]>>

\* DbAsyncWorker with rewind_to_latest_finalized, or the CLI's --rewind-to
RewindOnOpen ==
    /\ Reading("rewind_on_open")
    /\ LET v == IF item.v = NoValue THEN front.latest["finalized"] ELSE item.v
       IN  IF item.v = NoValue /\ v = INVALID_BLOCK_NUM THEN Continue(ClearOndiskDb)
           ELSE IF item.v # NoValue
                   /\ (v < MinValidVersion(front) \/ v >= MaxVersion(front))
           THEN Continue(<<>>)
           ELSE IF ~IsValid(front, v) THEN Abort("rewind to no version")
           ELSE Continue(RewindTo(v))

Close ==
    /\ pc = "open" /\ todo = <<>>
    /\ Exit /\ recov' = {Recorded(front)}
    /\ UNCHANGED <<copies, dirty, magic, disk, fault, writes, crashes, moved>>

\* What is left of a copy when the process dies inside primitive p: the fields
\* before or after it, and the stores made to the ring's storage.
Torn(p, c) ==
    {[b EXCEPT !.slots = slots] :
       b \in {copies[c]} \cup (IF PrimAssert(p, copies[c]) THEN {Apply(p, copies, c)} ELSE {}),
       slots \in PartialSlots(p, copies[c])}

\* The copies that db_copy may be writing to, in one of the healing phases
HealTargets ==
    {d \in 0 .. 1 : /\ dirty[d] /\ ~dirty[1 - d] /\ magic[1 - d]
                    /\ \/ pc = "heal_magic" /\ d = 0 /\ ~magic[0]
                       \/ pc = "heal_dirty" /\ magic[d]}

\* The process dies inside a primitive, inside db_copy or between two steps.  A
\* copy being changed keeps its dirty bit.
Crash ==
    /\ pc # "closed" /\ crashes < MaxCrashes /\ writes <= CrashWrites
    /\ Exit /\ crashes' = crashes + 1
    /\ LET inPrim == InPrim /\ dirty[side]
       IN  /\ \/ /\ inPrim /\ UNCHANGED magic
                 /\ \E torn \in Torn(item, side) : copies' = [copies EXCEPT ![side] = torn]
              \/ \E dst \in HealTargets :
                   /\ copies' = [copies EXCEPT ![dst] = DbCopy(@, copies[1 - dst])]
                   /\ magic' = [magic EXCEPT ![dst] = TRUE]
              \/ ~inPrim /\ UNCHANGED <<copies, magic>>
           /\ recov' = IF pc \in Healing THEN recov
                       ELSE {Recorded(front)} \cup
                            (IF inPrim /\ side = 0 /\ PrimAssert(item, front)
                             THEN {Recorded(Apply(item, copies, 0))} ELSE {})
    /\ UNCHANGED <<dirty, disk, fault, writes, moved>>

\* "something or someone zaps the front bytes of the partition"
ZapFront ==
    /\ pc = "closed" /\ magic[0]
    /\ copies' = [copies EXCEPT ![0] = [EmptyCopy EXCEPT !.slots = front.slots]]
    /\ magic' = [magic EXCEPT ![0] = FALSE]
    /\ dirty' = [dirty EXCEPT ![0] = FALSE]
    /\ UNCHANGED <<disk, todo, volatile, ghosts>>

----------------------------------------------------------------------------
Lookup ==
    \/ HealMagic \/ HealDirty \/ UseTorn \/ Attach \/ MatchOffsets \/ ShortenTo
    \/ RewindOnOpen \/ PastRoot
    \/ EraseUpTo \/ ReleaseUnreferencedChunks \/ FreeCompacted \/ FreeWip
    \/ AdjustHistoryLength \/ ShortenHistory
    \/ AdvanceCompactOffsets \/ EraseOutdated \/ ErasedOutdated \/ WriteNodes \/ Flush
    \/ AdvanceDbOffsets \/ UpdateRoot \/ LowerBoundIs \/ HistoryRangeFails

Store ==
    HoldDirty \/ RunPrim \/ WriteMagic \/ Destroy \/ Trim \/ ResetNodeWriters

\* The versions the callers of this instance move: any, or the latest.
MoveSources ==
    IF "move" \in Ops THEN Versions
    ELSE IF "move_latest" \in Ops THEN {MaxVersion(front)} ELSE {}

Call ==
    \/ \E v \in Versions : "upsert" \in Ops /\ Upsert(v, TRUE, "fast")
    \/ \E v \in Versions : "upsert_slow" \in Ops /\ Upsert(v, TRUE, "slow")
    \/ \E v \in Versions : "upsert_unrooted" \in Ops /\ Upsert(v, FALSE, "fast")
    \/ \E src, dest \in Versions : src \in MoveSources /\ MoveTrieVersionForward(src, dest)
    \/ \E m \in Marks, v \in Versions : "latest" \in Ops /\ UpdateLatest(m, v)
    \/ \E h \in HistoryLens : Open(h, <<>>)
    \/ "rewind_finalized" \in Ops /\ Open(NoValue, <<Item("rewind_on_open", NoValue)>>)
    \/ \E v \in Versions : "rewind" \in Ops /\ Open(NoValue, <<Item("rewind_on_open", v)>>)
    \/ "zap" \in Ops /\ ZapFront
    \/ Close

Next == Call \/ Lookup \/ Store \/ Crash

Spec == Init /\ [][Next]_vars

\* A process that was called and does not die goes on until the call returns.
FairSpec == Spec /\ WF_vars(Lookup \/ Store)

----------------------------------------------------------------------------
\* Properties

Offsets == [chunk : Chunks, unit : 0 .. ChunkCap]

ChunkIds == Chunks \cup {INVALID_CHUNK_ID}

\* The values one copy of the metadata takes
Copies ==
    [lb : Nat, next : Nat, slots : [Slots -> Offsets \cup {INVALID_OFFSET}],
     hist : Nat, latest : [LatestMarks -> Nat], expire : Nat,
     wip : [fast : Offsets, slow : Offsets],
     info : [Chunks -> [prev : ChunkIds, next : ChunkIds, list : ListNames, count : Nat]],
     lists : [ListNames -> [begin : ChunkIds, end : ChunkIds]],
     freecap : Int]

\* Every variable keeps its type.
TypeOK ==
    /\ copies \in [0 .. 1 -> Copies]
    /\ dirty \in [0 .. 1 -> BOOLEAN] /\ magic \in [0 .. 1 -> BOOLEAN]
    /\ pc \in {"closed", "creating", "open"} \cup Healing /\ side \in 0 .. 1
    /\ writer \in [fast : Offsets, slow : Offsets]
    /\ writes \in 0 .. MaxWrites /\ crashes \in 0 .. MaxCrashes

\* No MONAD_ASSERT of update_aux.cpp fails but those for a full disk and the one
\* that PastRoot meets at the end of a chunk, and no missing root is dereferenced.
NoFault == fault \in {"none", "out of storage", "out of free blocks", "past chunk"}

\* "Can't use add_to_offset(), because it asserts if we go past the capacity"
\* (trie.cpp:1479): a rewind never asks it for the offset behind the last root of
\* a chunk.
NeverPastChunk == fault # "past chunk"

\* Once both copies carry the magic string there is always a clean one to heal
\* the other from: the assertion db_copy makes on its source.
CleanCopy == magic[0] /\ magic[1] => ~(dirty[0] /\ dirty[1])

\* A reopened database records what it did before or after the metadata update
\* its last process died in, and never a mixture of the two.
RecoveredAtomic ==
    [][pc = "attach" /\ pc' = "open" => Recorded(front) \in recov]_vars

\* The lists of the first copy are what num_chunks and virtual offsets take them
\* for: disjoint, linked both ways, every chunk marked with its list, and with
\* consecutive insertion counts.
ListsSound ==
    magic[0] /\ ~dirty[0] =>
      LET seq == [l \in ListNames |-> List(front, l)]
      IN  /\ \A l \in ListNames : \A i \in DOMAIN seq[l] :
               LET chunk == front.info[seq[l][i]]
               IN  /\ chunk.list = l
                   /\ chunk.prev = IF i = 1 THEN INVALID_CHUNK_ID ELSE seq[l][i - 1]
                   /\ i > 1 => chunk.count = front.info[seq[l][i - 1]].count + 1
                   /\ i = Len(seq[l]) =>
                        chunk.next = INVALID_CHUNK_ID /\ front.lists[l].end = seq[l][i]
          /\ \A l \in ListNames : seq[l] = <<>> =>
               front.lists[l].end = INVALID_CHUNK_ID

\* Between two operations the backup records what the first copy does, no chunk
\* is outside the lists, and the free capacity is that of the free list.
CopiesAgree ==
    pc = "open" /\ todo = <<>> =>
      /\ copies[1] = copies[0]
      /\ UNION {ToSet(List(front, l)) : l \in ListNames} = Chunks
      /\ front.freecap = Len(List(front, "free"))

\* The lower bound of the ring lies inside the history: the assertion every
\* lookup of a version makes, in this process and in read-only ones.
HistoryRangeHolds == magic[0] /\ ~dirty[0] => HistoryRangeAssert(front)

\* Whatever a reader of the first copy takes for the root of version v is a root
\* that was written for v, or for the version that was moved to v.
RootIsOwn ==
    ~dirty[0] /\ HistoryRangeAssert(front) => \A v \in ValidVersions(front) :
      LET o == At(front, v)
      IN  o.unit < Len(disk[o.chunk]) =>
            UnitAt(o).ver = v \/ <<UnitAt(o).ver, v>> \in moved

\* Every call returns or aborts: in particular the loop that shortens the history
\* until the disk usage is low again comes to an end.
CallsEnd == (todo # <<>>) ~> (todo = <<>>)

\* No chunk that a trie in the history may refer to is ever destroyed, or in the
\* list that new chunks are taken from.
NoLiveChunkDestroyed ==
    ~dirty[0] /\ HistoryRangeAssert(front) => \A v \in ValidVersions(front) :
      LET o == At(front, v)
      IN  /\ o.unit < Len(disk[o.chunk]) /\ ~UnitAt(o).lost
          /\ front.info[o.chunk].list # "free"
=============================================================================
