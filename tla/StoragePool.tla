----------------------------- MODULE StoragePool -----------------------------
(***************************************************************************)
(* The pool of chunks over files and block devices: its layout on the      *)
(* devices, what is stored of it, how the chunks of several devices become *)
(* one numbering when a pool is created and opened again, and the          *)
(* operations on a chunk.                                                  *)
(*                                                                         *)
(* A device is a function from units to tokens.  It holds the chunks, then *)
(* the number of units used of every chunk (one unit each), then the       *)
(* footer (one unit), which is a record here.                              *)
(***************************************************************************)
EXTENDS Integers, Sequences, FiniteSets, SequencesExt

CONSTANTS DeviceSizes,  \* of every device, in units
          DeviceKinds,  \* "file" or "block"
          PoolPage,     \* CPU_PAGE_SIZE and DISK_PAGE_SIZE
          PoolFlags,    \* creation_flags of those who open: [cap, cnv, interleave]
          MaxPoolOps    \* bound on operations on chunks

ASSUME StoragePoolAssumption ==
    /\ DeviceSizes \in Seq(Nat) /\ PoolPage \in Nat \ {0} /\ MaxPoolOps \in Nat
    /\ DeviceKinds \in [DOMAIN DeviceSizes -> {"file", "block"}]
    /\ \A f \in PoolFlags : f.cap % PoolPage = 0 /\ f.interleave \in BOOLEAN
    \* Block devices of one size are not told apart.
    /\ \A d, e \in DOMAIN DeviceSizes : DeviceSizes[d] = DeviceSizes[e] => d = e

VARIABLES
    cells,      \* what is on the devices
    footer,     \* metadata_t of the devices: [magic, cap, cnv, hash]
    pool,       \* the pool in this process
    underWay,   \* the writes and trims under way
    expect,     \* what those who wrote to the sequential chunks expect of them
    createdAs,  \* of that pool when it was new: [devices, interleave]
    poolOps

poolVars == <<cells, footer, pool, underWay, expect, createdAs, poolOps>>

Devices == DOMAIN DeviceSizes
NoHash == <<>>
Unused == [magic |-> FALSE, cap |-> 0, cnv |-> 0, hash |-> NoHash]
Closed == [at |-> "closed"]
Nobody == <<>>      \* no expectations
NoPool == [devices |-> {}, interleave |-> FALSE]
Lost == -1          \* a unit whose write or trim did not end

StoragePoolInit ==
    /\ cells = [d \in Devices |-> [u \in 0 .. DeviceSizes[d] - 1 |-> 0]]
    /\ footer = [d \in Devices |-> Unused]
    /\ pool = Closed /\ underWay = {} /\ expect = Nobody /\ createdAs = NoPool /\ poolOps = 0

-----------------------------------------------------------------------------
(***************************************************************************)
(* Layout                                                                  *)
(***************************************************************************)
RoundDown(x) == x - (x % PoolPage)
SumOf(s) == FoldLeft(+, 0, s)

\* Mutant: counters that begin in the page after the last chunk are not made room for.
ChunksTight(d) == (DeviceSizes[d] - 1) \div footer[d].cap

\* metadata_t::chunks
ChunksOf(d) ==
    LET end == DeviceSizes[d] - 1
        n == end \div (footer[d].cap + 1)
    IN  IF RoundDown(end - n) = RoundDown(n * footer[d].cap) THEN n - 1 ELSE n

\* metadata_t::chunk_bytes_used: where the count of a chunk is
UsedAt(c) == DeviceSizes[c.dev] - 1 - ChunksOf(c.dev) + c.id
Used(c) == cells[c.dev][UsedAt(c)]

Offset(c) == c.id * footer[c.dev].cap
UnitsOf(c) == [u \in 1 .. footer[c.dev].cap |-> cells[c.dev][Offset(c) + u - 1]]
\* A count may be past the capacity, see WriteFd.
Contents(c) == [u \in 1 .. Used(c) |-> IF u <= footer[c.dev].cap THEN UnitsOf(c)[u] ELSE Lost]

\* fill_chunks_ without interleaving: device after device
InOrder(order, cnv) ==
    FlattenSeq([i \in DOMAIN order |->
        [k \in 1 .. ChunksOf(order[i]) - cnv |-> [dev |-> order[i], id |-> cnv + k - 1]]])

\* With interleaving.  chunkcounts and chunkratios are multiplied by the chunks of their device:
\* a round takes that number off, a chunk adds the total.
RECURSIVE Spread(_, _, _, _, _)
Spread(order, cnv, i, counts, table) ==
    LET share == [k \in DOMAIN order |-> ChunksOf(order[k]) - cnv]
        total == SumOf(share)
        left == counts[i] - share[i]
        taken == Cardinality({k \in DOMAIN table : table[k].dev = order[i]})
        next == (i % Len(order)) + 1
    IN  IF Len(table) = total THEN table
        ELSE IF left < 0
        THEN Spread(order, cnv, next, [counts EXCEPT ![i] = left + total],
                    Append(table, [dev |-> order[i], id |-> cnv + taken]))
        ELSE Spread(order, cnv, next, [counts EXCEPT ![i] = left], table)

SeqChunks(order, cnv, interleave) ==
    IF interleave
    THEN Spread(order, cnv, 1,
                [i \in DOMAIN order |-> SumOf([k \in DOMAIN order |-> ChunksOf(order[k]) - cnv])],
                <<>>)
    ELSE InOrder(order, cnv)

-----------------------------------------------------------------------------
(***************************************************************************)
(* Opening                                                                 *)
(***************************************************************************)
Orders == {o \in SeqOf(Devices, Cardinality(Devices)) : o # <<>> /\ IsInjective(o)}

OpenModes == {"open_existing", "create_if_needed", "truncate"}

BeginOpen(mode, order, flags) ==
    /\ pool = Closed
    /\ pool' = [at |-> "devices", mode |-> mode, order |-> order, flags |-> flags, next |-> 1]
    /\ UNCHANGED <<cells, footer, underWay, expect, createdAs, poolOps>>

Refuse == pool' = Closed /\ UNCHANGED <<cells, footer, expect, createdAs>>

\* A device without the magic, or one to truncate, is emptied.
Fresh(d) == ~footer[d].magic \/ pool.mode = "truncate"

\* make_device_ for the next source
MakeDevice ==
    LET d == pool.order[pool.next]
        goOn == pool' = [pool EXCEPT !.next = @ + 1]
    IN  /\ pool.at = "devices" /\ pool.next <= Len(pool.order)
        /\ IF ~Fresh(d) THEN goOn /\ UNCHANGED <<cells, footer, expect, createdAs>>
           ELSE IF pool.mode = "open_existing" \/ DeviceSizes[d] < pool.flags.cap + PoolPage
           THEN Refuse
           ELSE /\ cells' = [cells EXCEPT ![d] = [u \in DOMAIN @ |-> 0]]
                /\ footer' = [footer EXCEPT ![d] = [magic |-> TRUE, cap |-> pool.flags.cap,
                                                    cnv |-> pool.flags.cnv, hash |-> NoHash]]
                /\ expect' = IF d \in createdAs.devices THEN Nobody ELSE expect
                /\ createdAs' = IF d \in createdAs.devices THEN NoPool ELSE createdAs
                /\ goOn
        /\ UNCHANGED <<underWay, poolOps>>

\* The hash of the devices in their order: their kind, inode (none for a block device) and
\* size, the number of their chunks and the capacity of these.
ConfigHash(order) ==
    [i \in DOMAIN order |->
        <<DeviceKinds[order[i]], IF DeviceKinds[order[i]] = "file" THEN order[i] ELSE 0,
          DeviceSizes[order[i]], ChunksOf(order[i]), footer[order[i]].cap>>]

\* Mutant: any hash will do.
HashAgreesAlways(d, hash) == TRUE

HashAgrees(d, hash) == footer[d].hash \in {NoHash, hash}

\* fill_chunks_: devices get the hash in turn, up to one that has another.
FillChunks ==
    LET order == pool.order
        cnv == IF footer[order[1]].cnv = 0 THEN 3 ELSE footer[order[1]].cnv
        hash == ConfigHash(order)
        bad == {i \in DOMAIN order : ~HashAgrees(order[i], hash)}
        marked == {i \in DOMAIN order : \A j \in bad : i < j}
    IN  /\ pool.at = "devices" /\ pool.next > Len(order)
        /\ IF \E i \in DOMAIN order : ChunksOf(order[i]) < cnv + 1
           THEN Refuse
           ELSE /\ footer' = [d \in Devices |->
                       IF \E i \in marked : order[i] = d THEN [footer[d] EXCEPT !.hash = hash]
                       ELSE footer[d]]
                /\ UNCHANGED cells
                /\ IF bad # {} THEN pool' = Closed /\ UNCHANGED <<expect, createdAs>>
                   ELSE LET table == SeqChunks(order, cnv, pool.flags.interleave)
                            new == createdAs = NoPool
                        IN  /\ pool' = [at |-> "open", order |-> order, cnv |-> cnv, seq |-> table,
                                        interleave |-> pool.flags.interleave]
                            /\ expect' = IF new THEN [i \in DOMAIN table |->
                                                         Contents(table[i])]
                                         ELSE expect
                            /\ createdAs' = IF new THEN [devices |-> ToSet(order),
                                                     interleave |-> pool.flags.interleave]
                                            ELSE createdAs
        /\ UNCHANGED <<underWay, poolOps>>

\* What is under way on a chunk: writes that are counted and not yet there, [chunk, from, to, of]
\* with the chunk their data come from (their own for an append), and trims, [chunk, size, at].
Writes == {w \in underWay : "of" \in DOMAIN w}
Trims == {t \in underWay : "at" \in DOMAIN t}

\* What is left to expect when the writes under way do not get there
LoseWrites ==
    [c \in DOMAIN expect |-> [u \in DOMAIN expect[c] |->
        IF \E w \in Writes : w.chunk = c /\ u \in w.from .. w.to THEN Lost ELSE expect[c][u]]]

\* ~storage_pool, or the end of the process, during an opening or an operation too
ClosePool ==
    /\ pool # Closed
    /\ pool' = Closed
    /\ expect' = LoseWrites
    /\ underWay' = {}
    /\ UNCHANGED <<cells, footer, createdAs, poolOps>>

-----------------------------------------------------------------------------
(***************************************************************************)
(* Operations on sequential chunks                                         *)
(***************************************************************************)
Zeros(n) == [i \in 1 .. n |-> 0]
Put(f, from, tokens) ==
    [u \in DOMAIN f |-> IF u >= from /\ u < from + Len(tokens) THEN tokens[u - from + 1] ELSE f[u]]
Least(m, n) == IF m < n THEN m ELSE n
\* The pool is the one whose writers' expectations are followed, or what it has become.
Followed == createdAs.devices \cap ToSet(pool.order) # {}
\* Who writes opens with the flag the pool was created with.
Operate ==
    /\ pool.at = "open" /\ Followed /\ pool.interleave = createdAs.interleave
    /\ poolOps < MaxPoolOps /\ poolOps' = poolOps + 1
\* Who trims a chunk has waited for what is written to it or copied from it, and whoever writes
\* to it or copies it waits for the trim.
Untrimmed(c) == \A t \in Trims : t.chunk # c
NotInUse(c) == \A w \in Writes : c \notin {w.chunk, w.of}

\* write_fd: the bytes that shall be written to chunk c are counted; only then it is asserted
\* that they fit, and a failed assertion ends the process with the count advanced.
WriteFd(c, tokens, of) ==
    LET x == pool.seq[c]
        used == Used(x)
        n == Len(tokens)
    IN  /\ cells' = [cells EXCEPT ![x.dev][UsedAt(x)] = used + n]
        /\ IF used + n <= footer[x.dev].cap
           THEN /\ underWay' = underWay \cup {[chunk |-> c, from |-> used + 1, to |-> used + n, of |-> of]}
                /\ expect' = [expect EXCEPT ![c] = @ \o tokens]
                /\ UNCHANGED pool
           ELSE /\ pool' = Closed /\ underWay' = {}
                /\ expect' = [LoseWrites EXCEPT ![c] = @ \o [i \in 1 .. n |-> Lost]]
        /\ UNCHANGED <<footer, createdAs>>

BeginAppend(c, n) == Operate /\ Untrimmed(c) /\ WriteFd(c, [i \in 1 .. n |-> c], c)

\* clone_contents_into: the destination is asserted to be empty, and the bytes are counted there
\* before they are copied.
CloneContents(from, to, bytes) ==
    LET n == Least(bytes, Used(pool.seq[from]))
    IN  /\ Operate /\ Untrimmed(from) /\ Untrimmed(to)
        /\ \A w \in Writes : w.chunk # from
        /\ IF Used(pool.seq[to]) # 0
           THEN /\ pool' = Closed /\ underWay' = {} /\ expect' = LoseWrites
                /\ UNCHANGED <<cells, footer, createdAs>>
           ELSE WriteFd(to, SubSeq(expect[from], 1, n), from)

\* The write ends, or the copy.
EndWrite ==
    \E w \in Writes :
        LET x == pool.seq[w.chunk]
            n == w.to - w.from + 1
            tokens == IF w.of = w.chunk THEN [i \in 1 .. n |-> w.chunk]
                      ELSE SubSeq(UnitsOf(pool.seq[w.of]), 1, n)
        IN  /\ cells' = [cells EXCEPT ![x.dev] = Put(@, Offset(x) + w.from - 1, tokens)]
            /\ underWay' = underWay \ {w}
            /\ UNCHANGED <<footer, pool, expect, createdAs, poolOps>>

\* try_trim_contents.  What was behind the new size may be gone from now on.
TrimContents(c, bytes) ==
    LET x == pool.seq[c]
        n == Least(bytes, Used(x))
        first == IF DeviceKinds[x.dev] = "block" /\ (Offset(x) + n) % PoolPage # 0
                 THEN "page" ELSE "tail"
    IN  /\ Operate /\ Untrimmed(c) /\ NotInUse(c)
        /\ underWay' = underWay \cup {[chunk |-> c, size |-> n, at |-> first]}
        /\ expect' = [expect EXCEPT ![c] = [u \in DOMAIN @ |-> IF u <= n THEN @[u] ELSE Lost]]
        /\ UNCHANGED <<cells, footer, pool, createdAs>>

\* Mutant: the rest of the page is left as it was.
PageUntouched(x, n) == cells[x.dev]

\* On a block device the page where the contents end is read and written again, with zeros
\* behind them.
ZeroedPage(x, n) ==
    LET page == RoundDown(Offset(x) + n)
        rest == Offset(x) + n - page
    IN  Put(cells[x.dev], page,
            [i \in 1 .. PoolPage |-> IF i <= rest THEN cells[x.dev][page + i - 1] ELSE 0])

\* A file gets a hole behind the contents; of a block device the pages behind them are discarded.
ZeroedTail(x, n) ==
    LET end == Offset(x) + footer[x.dev].cap
        from == IF DeviceKinds[x.dev] = "file" THEN Offset(x) + n
                ELSE RoundDown(Offset(x) + n + PoolPage - 1)
    IN  Put(cells[x.dev], from, Zeros(end - from))

\* The steps of a trim; the count is stored last.
TrimStep ==
    \E t \in Trims :
        LET x == pool.seq[t.chunk]
            goOn(at) == underWay' = (underWay \ {t}) \cup {[t EXCEPT !.at = at]} /\ UNCHANGED expect
        IN  /\ \/ /\ t.at = "page"
                  /\ cells' = [cells EXCEPT ![x.dev] = ZeroedPage(x, t.size)]
                  /\ goOn("tail")
               \/ /\ t.at = "tail"
                  /\ cells' = [cells EXCEPT ![x.dev] = ZeroedTail(x, t.size)]
                  /\ goOn("count")
               \/ /\ t.at = "count"
                  /\ cells' = [cells EXCEPT ![x.dev][UsedAt(x)] = t.size]
                  /\ underWay' = underWay \ {t}
                  /\ expect' = [expect EXCEPT ![t.chunk] = SubSeq(@, 1, t.size)]
            /\ UNCHANGED <<footer, pool, createdAs, poolOps>>

StoragePoolNext ==
    \/ \E mode \in OpenModes, order \in Orders,
          flags \in PoolFlags : BeginOpen(mode, order, flags)
    \/ MakeDevice \/ FillChunks \/ ClosePool \/ EndWrite \/ TrimStep
    \/ pool.at = "open" /\ \E c \in DOMAIN pool.seq :
          \/ \E n \in 1 .. PoolPage : BeginAppend(c, n)
          \/ \E n \in 0 .. PoolPage - 1 : TrimContents(c, n)
          \/ \E to \in DOMAIN pool.seq : CloneContents(c, to, PoolPage)

StoragePoolSpec == StoragePoolInit /\ [][StoragePoolNext]_poolVars

-----------------------------------------------------------------------------
(***************************************************************************)
(* Properties                                                              *)
(***************************************************************************)
\* Every chunk of a device but the conventional ones in front has one sequential number, and
\* neither another chunk nor the counts and the footer are within it.
LayoutSound ==
    pool.at = "open" =>
        /\ IsInjective(pool.seq)
        /\ ToSet(pool.seq) = {c \in [dev : ToSet(pool.order), id : 0 .. Len(pool.seq) + pool.cnv] :
                                  c.id \in pool.cnv .. ChunksOf(c.dev) - 1}
        /\ \A c \in ToSet(pool.seq) :
              /\ Offset(c) + footer[c.dev].cap <= UsedAt([c EXCEPT !.id = 0])
              /\ UsedAt(c) < DeviceSizes[c.dev] - 1

\* What was written to a sequential chunk is there under the number of that chunk and up to the
\* size it had, whoever opened the pool since with whatever sources and flags, unless the flag
\* to interleave, which is not stored, was not the one the pool was created with.  Only units
\* being written, copied or trimmed when the process ended may be anything, and their count
\* stays: with a trim it is the old one until all behind the new size is gone.
PoolKeepsData ==
    pool.at = "open" /\ Followed /\ pool.interleave = createdAs.interleave =>
        /\ DOMAIN expect = DOMAIN pool.seq
        /\ \A c \in DOMAIN pool.seq :
              /\ Used(pool.seq[c]) = Len(expect[c])
              /\ \A u \in DOMAIN expect[c] :
                    \/ expect[c][u] = Lost
                    \/ UnitsOf(pool.seq[c])[u] = expect[c][u]
                    \/ \E w \in Writes : w.chunk = c /\ u \in w.from .. w.to

\* The same with any flags: "Whether to interleave chunks evenly during creation".
PoolKeepsDataAlways ==
    pool.at = "open" /\ Followed =>
        \A c \in DOMAIN pool.seq \cap DOMAIN expect : Used(pool.seq[c]) = Len(expect[c])

\* Behind the contents of a sequential chunk there are zeros: trimming leaves nothing, and
\* takes nothing.
NothingBehindContents ==
    pool.at = "open" => \A c \in DOMAIN pool.seq :
        \A u \in Used(pool.seq[c]) + 1 .. footer[pool.seq[c].dev].cap :
            UnitsOf(pool.seq[c])[u] = 0

\* A sequential chunk has a place of its own, and holds what was written to it and nothing else.
ChunksSound == LayoutSound /\ PoolKeepsData /\ NothingBehindContents
=============================================================================
