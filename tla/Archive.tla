------------------------------- MODULE Archive -------------------------------
(***************************************************************************)
(* monad_mpt --archive and --restore (cli_tool_impl.cpp): the chunks of a  *)
(* database are compressed by threads and written to a tar file in order;  *)
(* another invocation truncates a pool, decompresses the entries into it   *)
(* by threads, and rebuilds the metadata around them.                      *)
(*                                                                         *)
(* A source database is a record: its fast and slow lists, the insertion   *)
(* counts their first chunks have, how full each chunk is, the versions it *)
(* holds, and whether the front copy of its metadata is "clean" or was     *)
(* "wiped" (set_io then works from the back copy).  A unit of capacity     *)
(* holds one entry of the root offset ring; the root of version v is v.    *)
(***************************************************************************)
EXTENDS Integers, Sequences, FiniteSets, SequencesExt

CONSTANTS Sources,        \* databases to archive
          SrcSeq,         \* sequential chunks of their pool
          SrcCap,         \* capacity of their chunks, an even number
          RingChunks,     \* cnv_chunks_len
          Destinations,   \* pools to restore into: chunks of each type, capacity
          Threads,        \* hardware_concurrency()
          TrueThreads,    \* true_hardware_concurrency
          LastCount,      \* the largest insertion count
          MaxCliFailures  \* bound on what fails

Nil == -1           \* no chunk, no root
NoFile == <<[type |-> "none", whole |-> FALSE]>>
NoPool == [seq |-> 0, cnv |-> 0, cap |-> 0]

L == INSTANCE ChunkLists WITH Chunks <- 0 .. SrcSeq - 1, INVALID_CHUNK_ID <- Nil, MAX_COUNT <- LastCount

VARIABLES src,          \* the database that is archived
          cli,          \* what the tool is doing, or how it ended
          tar,          \* the entries of the archive file
          zst,          \* they are compressed: compression_level is not 0
          squeezers,    \* the compression thread of each chunk to archive
          dst,          \* the pool that is restored into
          inflaters,    \* the decompression thread of each entry
          out,          \* what the pool holds
          cliFailures

archiveVars == <<src, cli, tar, zst, squeezers, dst, inflaters, out, cliFailures>>

ArchiveInit ==
    /\ src \in Sources /\ cli = "idle" /\ tar = NoFile /\ zst = TRUE
    /\ squeezers = <<>> /\ dst = NoPool /\ inflaters = <<>> /\ out = NoPool
    /\ cliFailures = 0

-----------------------------------------------------------------------------
(* Archiving *)

Half(cap) == cap \div 2

\* The root offset ring, and what both halves of the ring chunk k hold of it
RootAt(slot) ==
    LET at == {v \in src.lower .. src.next - 1 : v % (RingChunks * Half(SrcCap)) = slot}
    IN  IF at = {} THEN Nil ELSE CHOOSE v \in at : TRUE
RingChunk(k) == [p \in 0 .. SrcCap - 1 |-> RootAt((k - 1) * Half(SrcCap) + (p % Half(SrcCap)))]

\* The front copy of the metadata, the first half of cnv/0
FrontCopy ==
    [magic |-> src.front = "clean", lower |-> src.lower, next |-> src.next,
     begin |-> [fast |-> src.fast[1], slow |-> src.slow[1]],
     end |-> [fast |-> Last(src.fast), slow |-> Last(src.slow)],
     base |-> src.base]

CnvEntry(k) == [type |-> "cnv", id |-> k, list |-> "none", count |-> LastCount, whole |-> TRUE,
                data |-> IF k = 0 THEN FrontCopy ELSE RingChunk(k)]

\* print_list_info: the chunks of a list with their chunk_info_t; then the ones that hold something.
\* No insertion count is past the largest: append_ asserts it.
ListEntries(l) ==
    LET all == [i \in 1 .. Len(src[l]) |->
                  [type |-> "seq", id |-> src[l][i], list |-> l, count |-> src.base[l] + i - 1, whole |-> TRUE,
                   data |-> [chunk |-> src[l][i], size |-> src.size[src[l][i]]]]]
    IN  SelectSeq(all, LAMBDA e : e.data.size > 0)

\* tocompress.  How many conventional chunks there are is read from the front copy.
ToCompress ==
    [k \in 1 .. 1 + (IF src.front = "clean" THEN RingChunks ELSE 0) |-> CnvEntry(k - 1)]
    \o ListEntries("fast") \o ListEntries("slow")

RestIdle == UNCHANGED <<src, dst, inflaters, out>>

\* do_archive_database: the file is created or emptied, and cnv/0 is mapped ahead of the others.
StartArchive ==
    /\ cli = "idle" /\ RestIdle /\ UNCHANGED cliFailures
    /\ cli' = "archiving" /\ tar' = <<>> /\ zst' \in BOOLEAN
    /\ squeezers' = [i \in 1 .. Len(ToCompress) |-> IF i = 1 THEN "running" ELSE "none"]

\* A warning about free space is answered with no: exit(0) leaves the emptied file.
DeclineArchive ==
    /\ cli = "idle" /\ RestIdle /\ UNCHANGED <<zst, squeezers, cliFailures>>
    /\ cli' = "archived" /\ tar' = <<>>

\* map_chunk_into_memory, for the next chunk of the window
MapChunk ==
    /\ cli = "archiving" /\ RestIdle /\ UNCHANGED <<cli, tar, zst, cliFailures>>
    /\ \E i \in Len(tar) + 1 .. Len(tar) + Threads \div 2 :
          /\ i \in DOMAIN squeezers /\ squeezers[i] = "none"
          /\ \A j \in 1 .. i - 1 : squeezers[j] # "none"
          /\ squeezers' = [squeezers EXCEPT ![i] = "running"]

\* chunk_info_archive_t::run, in a thread of its own
Compress(i) ==
    /\ cli = "archiving" /\ i \in DOMAIN squeezers /\ squeezers[i] = "running"
    /\ RestIdle /\ UNCHANGED <<cli, tar, zst>>
    /\ \/ squeezers' = [squeezers EXCEPT ![i] = "done"] /\ UNCHANGED cliFailures
       \/ /\ cliFailures < MaxCliFailures
          /\ squeezers' = [squeezers EXCEPT ![i] = "failed"] /\ cliFailures' = cliFailures + 1

\* The first chunk of the window is compressed: its entry is written.
WriteEntry ==
    /\ cli = "archiving" /\ Threads \div 2 > 0 /\ squeezers[Len(tar) + 1] = "done"
    /\ RestIdle /\ UNCHANGED <<zst, squeezers, cliFailures>>
    /\ tar' = Append(tar, ToCompress[Len(tar) + 1])
    /\ cli' = IF Len(tar') = Len(ToCompress) THEN "archived" ELSE "archiving"

\* What is left of the archive when the process ends: libarchive writes blocks, so that the file may
\* end after any of the entries it was given, or inside one.
CutFile ==
    LET given == Len(tar) + (IF squeezers[Len(tar) + 1] = "done" THEN 1 ELSE 0)
        cut(i) == [ToCompress[i] EXCEPT !.whole = FALSE]
    IN  /\ tar' \in {SubSeq(tar, 1, n) : n \in 0 .. Len(tar)}
                  \cup {Append(SubSeq(tar, 1, n - 1), cut(n)) : n \in 1 .. given}
        /\ cli' = "archived" /\ squeezers' = <<>>

\* The thread of the first chunk of the window threw: the file is unlinked.  Destructors unmap
\* what other threads still compress before they wait for them, which may end the process first.
ArchiveFails ==
    /\ cli = "archiving" /\ Threads \div 2 > 0 /\ squeezers[Len(tar) + 1] = "failed"
    /\ RestIdle /\ UNCHANGED <<zst, cliFailures>>
    /\ \/ cli' = "failed" /\ tar' = NoFile /\ UNCHANGED squeezers
       \/ (\E j \in DOMAIN squeezers : squeezers[j] = "running") /\ CutFile

\* The process is killed.
ArchiveKilled ==
    /\ cli = "archiving" /\ cliFailures < MaxCliFailures /\ cliFailures' = cliFailures + 1
    /\ RestIdle /\ UNCHANGED zst /\ CutFile

-----------------------------------------------------------------------------
(* Restoring *)

MaxId(type) == LET ids == {tar[i].id : i \in {j \in DOMAIN tar : tar[j].type = type}}
               IN  IF ids = {} THEN 0 ELSE CHOOSE m \in ids : \A n \in ids : n <= m

\* Mutant of TooFewChunks: the last chunk of the pool counts as one too many.
TooFewChunksByOne(d) == MaxId("cnv") >= d.cnv \/ MaxId("seq") + 1 >= d.seq

\* "Does the destination pool have enough chunks?"
TooFewChunks(d) == MaxId("cnv") >= d.cnv \/ MaxId("seq") >= d.seq

\* decompressed_len, which a compressed entry says of itself; cnv/0 goes to memory instead
Length(e) == IF e.type = "seq" THEN e.data.size ELSE SrcCap
TooLarge(d) ==
    \E i \in DOMAIN tar : /\ tar[i].type # "cnv" \/ tar[i].id # 0
                          /\ zst \/ tar[i].whole
                          /\ Length(tar[i]) > d.cap

\* UpdateAux sets up an empty database in the truncated pool d: one chunk in the fast list, one in
\* the slow list, the rest free; and the ring holds no root.  left is chunks, todo is todecompress.
NewDb(d) ==
    LET free == 2 .. d.seq - 1
        ends(c) == [begin |-> c, end |-> c]
    IN  [lists |-> [l \in L!ListNames |->
                      CASE l = "fast" -> ends(0) [] l = "slow" -> ends(1)
                        [] l = "free" -> IF free = {} THEN ends(Nil) ELSE [begin |-> 2, end |-> d.seq - 1]],
         info |-> [c \in 0 .. d.seq - 1 |->
                      [prev |-> IF c - 1 \in free THEN c - 1 ELSE Nil,
                       next |-> IF c \in free /\ c + 1 \in free THEN c + 1 ELSE Nil,
                       list |-> CASE c = 0 -> "fast" [] c = 1 -> "slow" [] OTHER -> "free",
                       count |-> IF c \in free THEN c - 2 ELSE 0]],
         chunk |-> [c \in 0 .. d.seq - 1 |-> [chunk |-> c, size |-> 0]],
         ring |-> [k \in 1 .. d.cnv - 1 |-> [p \in 0 .. d.cap - 1 |-> Nil]],
         lower |-> 0, next |-> 0, left |-> <<>>, todo |-> <<>>]

\* do_restore_database up to the decompression, in a pool that was truncated before.  A file
\* without a byte cannot be mapped; one that ends inside its first header makes the loop that
\* reports progress divide by zero; one that ends with the header of an entry is refused.
StartRestore(d) ==
    /\ cli = "archived" /\ dst' = d
    /\ UNCHANGED <<src, tar, zst, squeezers, cliFailures>>
    /\ \/ tar = <<>> /\ cli' \in {"refused", "fault"} /\ UNCHANGED <<out, inflaters>>
       \/ /\ tar # <<>> /\ (TooFewChunks(d) \/ TooLarge(d) \/ ~ Last(tar).whole)
          /\ cli' = "refused" /\ UNCHANGED <<out, inflaters>>
       \/ /\ tar # <<>> /\ ~ TooFewChunks(d) /\ ~ TooLarge(d)
          /\ cli' = "emptying" /\ out' = NewDb(d) /\ inflaters' = [i \in DOMAIN tar |-> "none"]

\* The head of a list is removed, from the fast list first and from the free list last.
RemoveHead ==
    /\ cli = "emptying" /\ UNCHANGED <<src, tar, zst, squeezers, dst, inflaters, cliFailures>>
    /\ LET begins == SelectSeq(<<out.lists["fast"].begin, out.lists["slow"].begin, out.lists["free"].begin>>,
                               LAMBDA c : c # Nil)
       IN  IF begins = <<>> THEN cli' = "inflating" /\ UNCHANGED out
           ELSE out' = [L!RemoveChunk(out, begins[1]) EXCEPT !.left = Append(@, begins[1])] /\ UNCHANGED cli

\* Mutant of MayStart: threads that have ended are counted too.
MayStartOfAll(i) == Cardinality({j \in 1 .. i - 1 : inflaters[j] # "none"}) < TrueThreads

\* max_concurrency counts the entries in front that are not done.
MayStart(i) == Cardinality({j \in 1 .. i - 1 : inflaters[j] # "done"}) < TrueThreads

StartInflate(i) ==
    /\ cli = "inflating" /\ i \in DOMAIN inflaters /\ inflaters[i] = "none" /\ MayStart(i)
    /\ inflaters' = [inflaters EXCEPT ![i] = "running"]
    /\ UNCHANGED <<src, cli, tar, zst, squeezers, dst, out, cliFailures>>

\* How much of an entry there is: all, or of one that was cut less
Parts(e) == IF e.whole THEN {Length(e)} ELSE {n \in 0 .. Length(e) - 1 : n <= dst.cap}

\* n units of an entry go to the front of a conventional chunk, or behind the contents of a
\* sequential one, which is empty.
Written(e, n) ==
    CASE e.type = "seq" -> [out EXCEPT !.chunk[e.id] = [e.data EXCEPT !.size = n]]
      [] e.type = "cnv" /\ e.id = 0 -> out
      [] OTHER -> [out EXCEPT !.ring[e.id] = [p \in DOMAIN @ |-> IF p < n THEN e.data[p] ELSE @[p]]]

\* chunk_info_restore_t::run.  What was compressed and cut cannot be decompressed.
Inflate(i) ==
    /\ cli = "inflating" /\ i \in DOMAIN inflaters /\ inflaters[i] = "running"
    /\ UNCHANGED <<src, tar, zst, squeezers, dst>>
    /\ \/ /\ ~ zst \/ tar[i].whole
          /\ \E n \in Parts(tar[i]) : out' = Written(tar[i], n)
          /\ inflaters' = [inflaters EXCEPT ![i] = "done"]
          /\ UNCHANGED <<cli, cliFailures>>
       \/ /\ zst /\ ~ tar[i].whole
          /\ cli' = "failed" /\ UNCHANGED <<out, inflaters, cliFailures>>
       \/ /\ cliFailures < MaxCliFailures /\ cliFailures' = cliFailures + 1
          /\ cli' = "failed" /\ UNCHANGED <<out, inflaters>>

\* The comparison of the sort: the fast list before the slow list before the conventional chunks,
\* and a list by what its insertion counts are past that of its first chunk
Before(a, b) ==
    LET past(e) == (e.count - tar[1].data.base[e.list]) % (LastCount + 1)
    IN  \/ a.type = "seq" /\ b.type = "cnv"
        \/ /\ a.type = "seq" /\ b.type = "seq"
           /\ \/ a.list = "fast" /\ b.list = "slow"
              \/ a.list = b.list /\ past(a) < past(b)

\* "Fix up triedb metadata to match archived": both copies take the values of cnv/0, unless its
\* magic is another or a list begins outside of the pool; then the entries are sorted.  If cnv/0
\* was cut, what lies behind the buffer is read, with any outcome.
FixUp ==
    /\ cli = "inflating" /\ \A i \in DOMAIN inflaters : inflaters[i] = "done"
    /\ UNCHANGED <<src, tar, zst, squeezers, dst, inflaters, cliFailures>>
    /\ LET old == tar[1].data
       IN  IF ~ tar[1].whole THEN cli' \in {"failed", "fault", "restored"} /\ UNCHANGED out
           ELSE IF old.magic /\ old.begin.fast < dst.seq /\ old.begin.slow < dst.seq
           THEN /\ cli' = "relisting"
                /\ out' = [out EXCEPT !.lower = old.lower, !.next = old.next, !.todo = SortSeq(tar, Before)]
           ELSE cli' = "failed" /\ UNCHANGED out

\* Mutant of Override: the first chunk keeps the count append gave it.
OverrideNever(b, l, n) == b

\* override_insertion_count
Override(b, l, n) == [b EXCEPT !.info[b.lists[l].begin].count = n]

\* A chunk goes to its list, the first one with the count of the archived list, and out of chunks.
Relisted(b, l, c) ==
    LET appended == L!AppendChunk(b, l, c)
        counted == IF b.lists[l].begin = Nil THEN Override(appended, l, tar[1].data.base[l]) ELSE appended
    IN  [counted EXCEPT !.left = SelectSeq(@, LAMBDA x : x # c)]

\* Mutant of ListAgrees: the end of the list is not compared.
ListAgreesAtFront(b, l) == b.lists[l].begin = tar[1].data.begin[l]

\* The assertions on both ends of a list
ListAgrees(b, l) == b.lists[l] = [begin |-> tar[1].data.begin[l], end |-> tar[1].data.end[l]]

Relisting(state) == cli = state /\ UNCHANGED <<src, tar, zst, squeezers, dst, inflaters, cliFailures>>

\* "Use UpdateAux to adjust the fast and slow lists": the archived chunks in order
RelistNext ==
    /\ Relisting("relisting") /\ out.todo[1].type = "seq"
    /\ cli' = IF L!AppendAssert(out, out.todo[1].list) THEN cli ELSE "fault"
    /\ out' = [Relisted(out, out.todo[1].list, out.todo[1].id) EXCEPT !.todo = Tail(@)]

\* Only the conventional chunks are left, as many as the largest id of theirs says.
AllRelisted ==
    /\ Relisting("relisting") /\ out.todo[1].type = "cnv" /\ UNCHANGED out
    /\ cli' = IF Len(out.todo) = MaxId("cnv") + 1 THEN "fast" ELSE "fault"

\* A list of which no chunk was archived gets its first chunk; the list has both its ends.
BeginList(l) ==
    /\ Relisting(l)
    /\ out' = IF out.lists[l].begin = Nil THEN Relisted(out, l, tar[1].data.begin[l]) ELSE out
    /\ cli' = IF ~ ListAgrees(out', l) THEN "fault" ELSE IF l = "fast" THEN "slow" ELSE "freeing"

\* What is in no list yet is free.
FreeNext ==
    /\ Relisting("freeing")
    /\ IF out.left = <<>> THEN cli' = "restored" /\ UNCHANGED out
       ELSE out' = [L!AppendChunk(out, "free", out.left[1]) EXCEPT !.left = Tail(@)] /\ UNCHANGED cli

-----------------------------------------------------------------------------
\* What a user does, and what the tool then does by itself
CliCall == StartArchive \/ DeclineArchive \/ (\E d \in Destinations : StartRestore(d)) \/ ArchiveKilled

CliStep == \/ MapChunk \/ (\E i \in DOMAIN squeezers : Compress(i)) \/ WriteEntry \/ ArchiveFails
           \/ RemoveHead \/ (\E i \in DOMAIN inflaters : StartInflate(i) \/ Inflate(i)) \/ FixUp
           \/ RelistNext \/ AllRelisted \/ (\E l \in {"fast", "slow"} : BeginList(l)) \/ FreeNext

ArchiveNext == CliCall \/ CliStep

\* Threads run, and so does the loop that waits for them.
ArchiveSpec == ArchiveInit /\ [][ArchiveNext]_archiveVars /\ WF_archiveVars(CliStep)

-----------------------------------------------------------------------------
Complete == Len(tar) = Len(ToCompress) /\ Last(tar).whole
ListOf(l) == L!ListSeq(out, l, dst.seq)

\* What a restored pool lists is what the source listed, with its insertion counts, and what is in no list is free.
ListsRestored ==
    /\ \A l \in {"fast", "slow"} :
          /\ ListOf(l) = src[l]
          /\ \A i \in DOMAIN src[l] : out.info[src[l][i]].count = src.base[l] + i - 1
    /\ ToSet(ListOf("free")) = (0 .. dst.seq - 1) \ (ToSet(src.fast) \cup ToSet(src.slow))
    /\ Len(ListOf("free")) = dst.seq - Len(src.fast) - Len(src.slow)

\* The root offset of version v in a copy of the ring of the restored pool
RestoredRoot(v, copy) ==
    LET slot == v % (RingChunks * Half(dst.cap))
    IN  out.ring[slot \div Half(dst.cap) + 1][copy * Half(dst.cap) + (slot % Half(dst.cap))]

\* A restore that succeeds from an archive that is whole yields the database: its lists with
\* their insertion counts, the contents of its chunks, its versions and, unless chunks have
\* another capacity, the root of each of them in both copies of the ring.
RestoredSame ==
    cli = "restored" /\ Complete =>
        /\ ListsRestored
        /\ \A c \in ToSet(src.fast) \cup ToSet(src.slow) : out.chunk[c].size = src.size[c]
        /\ out.lower = src.lower /\ out.next = src.next
        /\ dst.cap = SrcCap => \A v \in src.lower .. src.next - 1, copy \in 0 .. 1 : RestoredRoot(v, copy) = v

\* The end of an archive that is not compressed is in the entry of chunk c.
CutInside(c) == ~ zst /\ ~ Last(tar).whole /\ Last(tar).type = "seq" /\ Last(tar).id = c

\* A restore that succeeds from an archive that was cut behind its first entry has every chunk of
\* a list of several, and all of each, except that nothing notices the part that is missing of
\* the last entry if it is not compressed.
CutNoticed ==
    cli = "restored" /\ tar[1].whole =>
        \A l \in {"fast", "slow"} : Len(src[l]) > 1 =>
            /\ ListOf(l) = src[l]
            /\ \A c \in ToSet(src[l]) : out.chunk[c].size = src.size[c] \/ CutInside(c)

SameShape(d) == d.seq = SrcSeq /\ d.cnv >= RingChunks + 1 /\ d.cap = SrcCap

\* The last chunk of a list of several has nothing in it yet.
EmptyEnd == \E l \in {"fast", "slow"} : Len(src[l]) > 1 /\ src.size[Last(src[l])] = 0

\* A whole archive of a database can be restored into a pool of the size it came from if no call
\* fails, unless the last chunk of a list is new or the front copy of the metadata was wiped.
SameSizeRestores ==
    cli \in {"refused", "fault", "failed"} /\ Complete /\ cliFailures = 0
        => ~ SameShape(dst) \/ EmptyEnd \/ src.front = "wiped"

\* "it should always be possible to backup and restore to identically sized DBs"
SameSizeAlwaysRestores == cli \in {"refused", "fault"} /\ Complete => ~ SameShape(dst)

\* Roots are where they were in pools with larger chunks too.
RootsRestoredAlways ==
    cli = "restored" /\ Complete => \A v \in src.lower .. src.next - 1 : RestoredRoot(v, 0) = v

\* Archiving and restoring come to an end.
ToolEnds == []<>(cli \in {"idle", "archived", "failed", "refused", "fault", "restored"})

\* What is archived can be restored, and what is restored is what was archived.
RestoresWhole == RestoredSame /\ CutNoticed /\ SameSizeRestores
=============================================================================
