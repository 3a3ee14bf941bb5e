# A TLA+ model of nomad-mpt

nomad-mpt packages the Merkle Patricia trie database of monad (`src/depend/monad/category/mpt`,
with its `async` and `core` layers), a C API, and bindings for Rust and Go. This directory models
the parts of it whose correctness depends on order, interleaving, failure or sudden exits, checks
them with TLC on small instances, and proves results about them with TLAPS.

File names below without a directory are in `src/depend/monad/category/mpt/`; those of the
asynchronous channel are in `src/bindings/rust/nomad-mpt-sys/src/`, those of the storage pool, of
AsyncIO, of the event ring and of the numbers in `src/depend/monad/category/{async,core}/`.

## The system

### Components

| Component | State | Operations | Interacts with |
|---|---|---|---|
| Root offset ring (`trie.hpp`, `root_offsets_delegator`) | `version_lower_bound_`, `next_version_`, and a ring of root offsets in chunks of its own | `push`, `assign`, `reset_all`, `rewind_to_version`, and the lower bound they move | held by each copy of the metadata; read by every lookup |
| Chunk lists (`detail/db_metadata.hpp`) | free, fast and slow list, linked through `chunk_info`, with a 20 bit insertion count for each chunk | `append_`, `remove_` (first and last chunk only) | chunks come from the free list for the node writers, and go back when no version refers to them |
| Database metadata (`detail/db_metadata.hpp`) | the two above, history length, the latest finalized, verified, voted and proposed versions, `auto_expire_version`, where the writers stand (`db_offsets`), and a dirty bit; two copies | `hold_dirty`, `db_copy` | memory mapped: a sudden exit leaves what was stored |
| `UpdateAux` (`update_aux.cpp`) | the two copies, the node writers, the compaction offsets | `set_io` (heal, create, resume), root updates, erasing versions, freeing chunks, shortening the history, `move_trie_version_forward`, `rewind_to_version`, `clear_ondisk_db` | called by `upsert` and by `Db` |
| Trie update (`trie.cpp`, `copy_trie.cpp`, `node.cpp`) | the trie in memory, tnodes of what is unfinished, reads in flight | `upsert_` and what is below it, expiry, compaction, `copy_trie_to_dest` | reads and writes nodes through AsyncIO, then `UpdateAux` records the root |
| Node writers (`trie.cpp`) | a write buffer at the end of the fast and of the slow list | `async_write_node`, `replace_node_writer`, `flush_buffered_writes` | take chunks from the free list; entered again by completions |
| Find, traverse, caches (`find*.cpp`, `traverse.hpp`, `node_cache.hpp`) | reads in flight, an LRU cache | find, traverse, copy | read-only, but they race the writer |
| `Db` (`db.cpp`) | a worker thread, a queue of requests, a sleep flag | `upsert`, `find`, `traverse`, `move_trie_version_forward`, open options | one thread owns the trie; callers wait on promises |
| Asynchronous channel (`bridge_fifo.cpp`, `async_fifo.rs`, `ck_wrapper.c`) | `running_`, a pool of worker fibers, four lock-free queues | `start`, `stop`, submit, poll, drop | calls `Db::find` and `Db::traverse` |
| Storage pool (`storage_pool.cpp`) | chunks on devices, counts of bytes used, footers | create, open, truncate; activate, write, trim, destroy | below everything |
| AsyncIO (`io.cpp`, `io.hpp`) | rings, registered buffers, reads put off | submit, poll, run completions | completions run the trie's and the finds' code |
| Event ring (`core/event/`) | lock-free ring of events, payload buffer with a sliding window | record, iterate | independent of the trie |
| 256 bit numbers (`core/runtime/uint256.*`) | none | arithmetic, shifts, conversions | none |
| Command line tool (`cli_tool_impl.cpp`) | an archive | archive, restore, rewind, clear | works on the pool and the metadata directly |
| Core C API, Go binding, Rust synchronous binding | roots the program holds, `unflushed_version_` | open, upsert, find, load_root, close | call `Db`, and never record a root |

### What is hard to get right here

* **Sudden exits.** The metadata is memory mapped, without a log. Each update is made on one copy
  and then on the other, under a dirty bit. Whether a reopened database is a state the program
  meant is a question about every point between two stores.
* **The ring at its limit.** With a history as long as the ring, a new root takes the slot of the
  oldest version; erasing, the lower bound and the new root must come in the right order.
* **Freeing.** Chunks are given back by insertion count, computed from the compaction offsets of
  the oldest root. A chunk given back too early is written again under a live trie.
* **Sleeping and waking**: callers and the worker tell each other through a queue, a flag and a
  condition variable, and promises live until the other side has let go of them.
* **Loops that wait for something**: shortening the history until the disk usage falls; `stop()`
  waiting for every fiber.
* **Completions that call back.** Waiting for a buffer polls, polling runs completions, and those
  write nodes, begin reads and wait for buffers themselves. A tnode is finished by whichever read
  comes last.
* **Readers without locks.** A find reads chunks that another process frees and writes anew; an
  iterator copies events that recorders overwrite. They find out afterwards, from numbers that
  change too.
* **What is kept of something else**: least offsets, least versions and hashes of subtries,
  counts in lists, a hash of the pool's configuration.
* **Queues between languages**: a request taken while the channel stops; a value and its
  announcement in different queues; allocations that fail at every point; different layouts of
  one struct.

`PROJECT.json` lists these as hazards, each at its line, with the properties that cover it.

### What makes each component correct

| Component | Properties |
|---|---|
| Ring | a reader of version v finds a root written for v (`RootIsOwn`); the lower bound stays in the history (`HistoryRangeHolds`) |
| Lists | linked both ways, consecutive counts (`ListsSound`); every chunk in a list, capacity counted (`CopiesAgree`) |
| Metadata | always a clean copy (`CleanCopy`); copies equal between operations (`CopiesAgree`) |
| Trie | versions are what their batches say, and do not change (`RefinesStore`); what is kept of subtries is true (`OffsetsSound`, `SubtriesDescribed`); keys are found (`FindAgrees`); no assertion fails (`TrieNoFault`) |
| Finds | what a find says is true (`AnswersRight`), the cache is right (`CacheRight`), finds end (`FindAnswered`) |
| Node writers, AsyncIO | `NodesPlaced`, `FlushedIsDurable`, `BuffersConserved`, `ReadsComplete`, `WriteReturns` |
| Storage pool | `ChunksSound` |
| Event ring | `IteratorsRight`, `EventDelivered` |
| Numbers | `UintAgrees` |
| Tool | `RestoresWhole`, `ToolEnds` |
| Synchronous interfaces | `FindsOwn`, `AbortsOnMisuse` |
| UpdateAux | recovery is atomic (`RecoveredAtomic`); no live chunk destroyed (`NoLiveChunkDestroyed`); no assertion fails (`NoFault`); calls end (`CallsEnd`) |
| Worker thread | no promise dropped while a read is in flight (`PromiseKept`); no sleep on work (`WorkerSound`); calls and the destructor return (`EveryoneReturns`) |
| Channel | `NothingLost`, `AnswersInOrder`, `StopReturns`, `Answered` |

## Modules

```
RootOffsets   ChunkLists        operators on the ring and on the lists of one copy
        \      /       \
       DbMetadata       \       one copy: fields, primitives, assertions, db_copy, torn stores
            |            \
        UpdateAux         \     state machine: two copies, chunks, a process, sudden exits
        /        \         (Archive)
  MCUpdateAux   UpdateAuxProofs

  TrieNode -- TrieUpdate -- Trie -- MCTrie          nodes; the update algorithm; a trie's life
                             |
                         TrieStore                  what a trie promises (Trie implements it)

  FifoManager -- MCFifoManager, FifoManagerProofs   the asynchronous channel
  DbWorker -- DbWorkerProofs                        Db's worker thread and its callers
  Uint256 -- UintCheck                              256 bit numbers, and the integers
  Archive -- MCArchive  (uses ChunkLists)           archive and restore
  NomadDb -- MCNomadDb, NomadDbProofs               C, Go and Rust, synchronous
      all five: MCFrontEnd

  Readers -- MCReaders, ReadersProofs               finds against the writer
  AsyncIO -- NodeWriters -- NodeWritersProofs       i/o, and the node writers over it
  StoragePool                                       the pool
      all three: MCStorage

  EventRing -- EventRingProofs                      the event ring
```

`MCFrontEnd` and `MCStorage` are sums: their parts share no state, so a behaviour chooses a part
(`part`) and the others rest in one initial state.

### RootOffsets, ChunkLists, DbMetadata

A copy is a record `b`: `lb`, `next`, `slots` for the ring; `info`, `lists` for the chunks;
`hist`, `latest`, `expire`, `wip` (`db_offsets`) and `freecap`. Each member function is an
operator from copies to copies, with its assertions as separate predicates (`AppendAssert`,
`RemoveAssert`, `PrimAssert`). `FirstValidFrom` is the loop of `update_version_lower_bound_`.
Versions wrap at `INVALID_BLOCK_NUM + 1`, where the code has 64 bits.

A *primitive* is what the code does between taking and releasing one `hold_dirty`: `Apply(p, ...)`
is the copy after it, and `PartialSlots(p, b)` the contents the ring's storage may have if the
process dies inside. The ring's storage is mapped from other chunks than the struct, and `db_copy`
copies only the struct and `chunk_info`: `DbCopy(dst, src)` keeps `dst.slots`.

### UpdateAux

An operation is a *program*: the sequence `todo` of items still to be done. Items that name a
primitive run on copy 0 and then on copy 1 (`HoldDirty`, `RunPrim`; `side` says which), so that
every point where the process may die is a state. Every other item is one step that reads the
metadata and decides what comes next (`Continue`), or touches the data of a chunk (`Destroy`,
`Trim`, `WriteNodes`). A failed assertion is `Abort(why)`: the process is gone.

| Definition | Code |
|---|---|
| `Open`, `HealMagic`, `HealDirty`, `UseTorn`, `Attach`, `WriteMagic`, `ShortenTo` | `set_io` |
| `MatchOffsets`, `FreeWip`, `Trim`, `ResetNodeWriters` | `rewind_to_match_offsets`, `reset_node_writers` |
| `RewindTo`, `PastRoot`, `ClearOndiskDb`, `RewindOnOpen` | `rewind_to_version`, `clear_ondisk_db`, `db.cpp` and the CLI that call them |
| `Upsert`, `AdvanceCompactOffsets`, `EraseOutdated`, `WriteNodes`, `Flush`, `AdvanceDbOffsets`, `UpdateRoot`, `LowerBoundIs` | `do_update`, `upsert`, `flush_buffered_writes`, `write_new_root_node` |
| `EraseUpTo`, `ReleaseUnreferencedChunks`, `FreeCompacted` | `erase_versions_up_to_and_including` and what it calls |
| `AdjustHistoryLength`, `ShortenHistory` | `adjust_history_length_based_on_disk_usage` |
| `MoveTrieVersionForward`, `UpdateLatest` | `move_trie_version_forward`, `set_latest_*` |
| `Crash` | a sudden exit: between two steps, inside a primitive, or inside `db_copy` |
| `ZapFront` | the wiped front copy `set_io` has a comment about |

Data: a chunk holds `ChunkCap` units; an upsert writes one unit with its root, and one more to the
slow list if it compacts. A root's unit remembers the version it was written for, its compaction
offsets, and the chunks its trie may refer to (every chunk at or behind those offsets); `Destroy`
marks the units that referred to the destroyed chunk. `advance_compact_offsets` computes offsets
from statistics with floating point; the model lets it choose any offsets the code's clamps allow.
`PastRoot` is the step of `rewind_to_version` that forms the offset behind the root. `add_to_offset`
asserts that this is an offset of the same chunk, so a rewind to a root that ends its chunk aborts
there. That holds for chunks of 256 MB, the capacity offsets have room for; pools made with a smaller
`--chunk-capacity`, where the offset is one behind the chunk, are not modelled.

History variables: `recov` (what a reopened database may record), `moved`, `fault` and the two
counters that bound the instance.

### DbWorker

`OnDiskWithWorkerThreadImpl`: the base of the writable and of the read-only database. A caller
(`Call`) makes a promise and a future, queues the request, reads `sleeping` (`ReadSleeping`), takes
`lock_` to notify if it was set (`Notify`), and waits (`Get`). The worker's turn is `Take` or
`TakeNothing`, `Poll` and `Turn`: promises move to a deque for their type and leave it from the
front when their futures are gone; turns with nothing to do are counted. `Doze`, `Sleep` and `Park`
are the way to `wait_for`, `WakeUp` and `Pulse` the ways out of it, `Constructed`, `Destroy` and
`Join` the thread that owns the database.

The worker stores `sleeping` and then reads the size of the queue; a caller queues and then reads
`sleeping`. With release and acquire both may read the old value: `Doze` lets the store become
visible at once or not before the worker waits. A find takes any number of reads; an upsert, a
traversal and the other requests end in the turn that takes them, and may poll reads of finds.
`did_nothing_count` is kept at `MaxIdle` behind a sleep, where the code lets it grow.

### FifoManager

Clients submit, workers take, process and post, clients poll; one thread starts, stops and drops.
One enqueue or dequeue is a step, and so is the worker's load of `running_`: a worker may have seen
it true when `stop()` clears it. Between `find` or `traverse` and the results a worker may be
overtaken. `got` and `lost` count what clients polled and what failed allocations dropped. The
four queues are sequences (concurrency kit's MPMC queue is linearizable). All worker fibers share
one thread; the model lets them interleave at every step, which includes what that thread does.
A large value is a node of words of four bytes, because the defect below is one of layout.

### TrieNode, TrieUpdate, Trie, TrieStore

`TrieNode` has nodes as records (path, value, version, children), what a parent keeps of a child
(offset, least offset in each list, least version, data, and the child itself if it is in memory),
and the functions of `node.cpp` that make, move and finalize children. The data stands for the
hash: it is what the hash depends on. `Serialized` drops what is not written to disk.

`TrieUpdate` is `trie.cpp` from `upsert_` down. A world `w` holds the thread's stack of calls, the
tnodes, the reads in flight and the disk; `Step` runs one function up to its next call. A call that
reads stops there, and its completion continues with `upward_update` from the tnode it was for.
`Trie` is the state machine: `BeginUpsert`, `CompleteRead` (any read in flight, while upsert waits),
`PollInWrite` (a write polls, and a read completes inside it), `EndUpsert`, and between upserts
`CopyTrie` and `CopyTrieToNew` (the copy into a root, and into none), `Find`, `Reopen`, `LoadAll`. `TrieStore` is the abstract specification: a version is a
table, made from the one before by one batch in one step, and never changed. `RefinesStore` is the
refinement, `store <- [v \in DOMAIN versions |-> Entries(v)]`: what is reachable from the root of
each version *now*, not when it was written, so a later upsert that overwrote or moved a node of an
earlier version would break it.

`clean` is false after a copy (and after compacting with `can_write_to_fast` false): what the
code keeps is then not what it says it is (observations below), and the properties about offsets
and data say nothing.

### Readers

A process that finds while another writes, step by step on the ring's bounds and slots, the
insertion counts and the chunks: `ReadBound`, the root's offset, the translation to a virtual
offset, the cache, joining or beginning a read, what the device returns, and the checks afterwards,
in the order each of the four protocols has them. The writer's `do_update` is a plan of single
changes (`Erase`, `Free`, `DestroyContents`, `AppendChunk`, `WriteNode`, `PushRoot`), so a reader is
between any two of them. The cache is the map, the list in order of use and the free list of
`static_lru_cache.hpp`, with `node_cache.hpp`'s bytes; the loop of `evict_until_under_limit` is written
by what it removes, the fewest of the least recently used nodes that have to go. The ring has at least
two slots (`ReadersAssumption`; the code's least history is 257 versions). `NoOwnFinds` is what `db.cpp:798` says of the
writing process ("RWDb never performs upserts concurrently with reads"): assumed, not shown.

### AsyncIO, NodeWriters

One thread's stack of frames over the kernel (external: what is submitted completes at some poll).
`AsyncIO` has the pool of buffers, the limit of concurrent reads, what is put off while completions
run (`enter_completions`), retries after `EAGAIN`, and polling for a buffer; `NodeWriters` adds
`async_write_node`, both functions that replace a writer with their detection of re-entrance, and
`flush_buffered_writes`. A user's completion may begin a read or write a node, so the frames nest.

### StoragePool, EventRing

`StoragePool`: devices are arrays of units; chunks, counts and the footer lie where `num_chunks` and
`offset_` put them. Any sequence of devices may be opened, in any mode, with any flags, over and over,
with appends, copies, trims and destroys in between. Each of these is several steps (`underWay`), and the
process may end between any two: `WriteFd` counts the bytes first and only then asserts that they fit,
so that a failed assertion leaves a count past the capacity; the data of an append or of a copy
come later (`EndWrite`); a trim (`TrimStep`) writes the page where the contents end, discards or punches
what is behind it, and stores the count last. `expect` has what a reader of the pool may rely on.

`EventRing`: one access to shared memory is one step. Assumed, in a guard: no recorder sleeps for a
whole turn of the descriptors. Written as `EventRingAssumption`: the ring has at least two
descriptors (the code: 2^16), the events being recorded at one time fit `WINDOW_INCR`, the payloads of
a turn of the ring with them fit the payload buffer, and nothing is counted up to `Word` (2^64).
Differences of offsets wrap at `Word` (`UintSub`), as those of `uint64_t` do: a recorder that reads the
window after others have moved it past its own payload gets a huge difference, and moves the window
back. `LagBounded` is the condition on the sizes under which that cannot happen; payloads are
claimed to be intact only under it (observations below).

### Uint256, UintCheck

The algorithms word by word with the width of a word as a constant, so that every carry, borrow,
estimate and add-back of Knuth's division happens with words of two bits; what takes counts or text
has words of six bits. `UintCheck` compares with TLA+'s integers.

### Archive, NomadDb

`Archive`: a database (lists, counts, sizes, versions, a clean or wiped front copy) becomes a tar
file, compressed or not, window by window, by threads; it may be declined, fail, or be killed. libarchive
writes blocks, so what a kill leaves may end between two entries or inside one (`CutFile`). A restore
checks the archive against the pool, inflates in windows, fixes the metadata up and builds the lists. A
compressed entry that was cut fails to decompress; the part of an uncompressed one is taken for the
chunk, and `CutNoticed` says that this is all that goes unnoticed. An archive of a wiped front copy
cannot be restored. Insertion counts do not wrap: `append_` asserts that they are at most `MAX_COUNT`,
and the instance has lists that end there.

`NomadDb`: the roots a program holds and what is in memory below them. An upsert moves children out
of the root it starts from; on disk they are read again. For each child a root also keeps the version of
the leaf (`stamp`; updates through C and Go carry version 0, those of Rust the version of the upsert) and
the recorded version whose nodes it was loaded with (`home`). Opening a file and upserting erase the
versions outside the history and release their chunks (`KeepRecent`, `Released`), before the upsert reads:
one that starts from a root with such nodes may be aborted by what it reads, or happen not to
read there. `misused` is set by the calls the interfaces rule out (`Misuse`), so that `AbortsOnMisuse`
says which these are.

## Runs

Each run has bounds in its configuration. `UpdateAux`: `Cap` slots in the ring, six chunks of one
unit (two in use by the writers, so that four upserts meet a full disk), `Versions`, `MaxWrites`
upserts (`CrashWrites` if there are sudden exits), `MaxCrashes` sudden exits, and `Ops`, the operations
callers make. Where there are rewinds (`history`, `moves`, `rewind_crash`) chunks have two
units, so that a root may be in the middle of its chunk or end it.

| Run | Instance | Shows |
|---|---|---|
| `history` | ring of 4, 4 upserts, chunks of 2 units, history 2 or dynamic, roots in either list, rewinds | `NoFault` (but for the assertion in `PastRoot`), `CopiesAgree`, `ListsSound`, `NoLiveChunkDestroyed`. Four upserts with a history of 2 erase versions, free chunks and reuse them |
| `moves` | unrooted upserts, moving the latest version, marking and rewinding to finalized | `HistoryRangeHolds` with holes in the history, `NoLiveChunkDestroyed` with compaction offsets that moved along |
| `faults` | ring of 4, dynamic history, wiped front copy, fair; 5 upserts without an exit, or 2 upserts and 2 exits, also inside `db_copy` | `CallsEnd`: the loop that shortens the history ends; `CleanCopy` |
| `one_crash` | ring of 2, history 2, 5 upserts, 1 exit | `TypeOK`, `RootIsOwn`, `NoLiveChunkDestroyed`, `RecoveredAtomic`: after an exit anywhere in an upsert |
| `trie` | 3 versions of 7 batches over 4 keys of 3 nibbles, with tables below a key; memory, disk, disk with expiry; 1 completion inside writes | `RefinesStore`, `TrieNoFault`, `OffsetsSound`, `SubtriesDescribed`, `FindAgrees` |
| `front_end` | channel: 2 requests, up to 2 workers, 1 failed allocation; worker: 2 callers with 2 calls each; numbers: every first operand of 4 words of 2 bits; tool: 32 databases, compressed or not, 4 pools, 1 failure; interfaces: 2 keys, 3 roots, versions 2 to 4 over recorded 0 to 2, of which opening erases one | the properties of the five parts |
| `storage` | finds: 2 finds, 4 chunks, ring of 2, 3 versions, 4 protocols; writers: 2 reads, 2 nodes and a root, 4 write buffers, 3 configurations; pool: a block device and a file, 2 sets of flags, 2 operations | the properties of the three parts |
| `event_ring` | 2 recorders, an iterator, 6 events in 2 slots and a payload buffer of 5 bytes with a window of 3, fair | `IteratorsRight`: the window moves twice while payloads are copied; `EventDelivered` |

Properties of several conjuncts (`WorkerSound`, `EveryoneReturns`, `OffsetsSound`, `SubtriesDescribed`, `AnswersRight`, `CacheRight`,
`BuffersConserved`, `NodesPlaced`, `ChunksSound`, `IteratorsRight`, `AnswersInOrder`, `UintAgrees`,
`RestoresWhole`) have a mutant for each conjunct that can fail by itself.

Why these bounds: a ring of 2 wraps at the third version and a ring of 4 leaves room for holes;
six chunks reach both thresholds of the disk usage (60 % and 80 %) and an empty free list. Three
versions of a trie have a node that is two versions old when it is compacted, expired or copied;
keys of three nibbles have a branch, a path and a leaf, and the cached depth of 2 leaves some of
them on disk. Two requests and two workers have every order of taking and posting, and one more
value per prefix only repeats the loop of `SendNode`; two callers have one future gone while the
other waits. Four chunks and three versions with a history of two free a chunk and write it anew
under a find; two finds share a read; three bytes of cache do not hold two roots. Two nodes of three
units each need a new chunk, and four write buffers leave two besides the writers', so that one is
waited for. Six events go round two slots three times, write the first byte of the payload buffer
again and move the window twice.

Fairness. `UpdateAux` (in `faults`): weak fairness of the steps of the process, a single thread of
control that the code never blocks; sudden exits are not fair. Channel: weak fairness of each worker
(the pool's scheduler is round-robin, and a worker with nothing to do yields) and of the thread
inside `stop()`; clients need not poll. Worker: weak fairness of the worker (asleep for a second at
most), of each caller inside a call and of the owner, and strong fairness of the end of each find's
read: the device completes every read, but only a turn of the worker sees it. Finds: weak fairness of
the reader's thread and of the device. Node writers: weak fairness of the thread, and strong fairness
of what completes at a poll. Events: weak fairness of recorders and iterators inside their calls, and
strong fairness of `try_next`, which an iterator calls in a loop. Tool: weak fairness of its threads.
Nobody needs to call, to destroy, or to record another event. `history`, `moves`, `faults` and
`one_crash` check for deadlock; the other systems may really stop.

### Runs that fail, and what they show

* `rewind_crash` (`RecoveredAtomic`): an exit inside the clearing loop of `rewind_to_version` leaves
  the copy dirty. It is healed from the other one, but the slots already cleared are outside what
  `db_copy` restores: the reopened database has the old maximum version and some old versions
  missing.
* `fifo_restart` (`AtLeastOneWorker`): `stop()` clears `running_` before it queues the shutdown
  requests, workers leave without taking them, and the next `start()`'s workers take them and leave.
* `stale_root` (`FindCorrectAlways`): `load_root_receiver_t` (`db.cpp:1399`) checks the version and
  then translates the offset. If the version goes and its chunk comes back in between, the old root
  is cached under the new contents' virtual offset. `AnswersRight` and `CacheRight` hold up to that.
* `restore_new` (`SameSizeAlwaysRestores`): a last chunk that is still empty is not archived, and
  the restore's assertion about the end of the list fails.

### Observations

Properties that the modules state and the code does not have, and other things met while modelling.
Each property named here can be put into the configuration of its part to see it fail.

Database (`UpdateAux`):

* With a ring of 2 and one exit, `HistoryRangeHolds` fails: an exit inside the erase of the oldest
  version leads to a lower bound outside the history, and every later lookup fails its assertion.
* With one exit, `NoFault` fails: an exit between the two copies' `remove_` leaves two clean copies
  that differ, and a later allocation unlinks, on the second copy, a chunk in the middle of a list.
* With two exits and a ring of 4, `RootIsOwn` fails: an exit between two copies leaves both clean and
  different; a second one inside a primitive on the first copy heals it from the one that lags.
* `Ops` with `"move"` (any source version): `NoLiveChunkDestroyed` fails, because freeing takes the
  compaction offsets of the oldest version for the oldest offsets. Moving the latest version over a
  hole as long as the history makes `NoFault` fail: the minimum valid version has no root.
* `NeverPastChunk` fails: `rewind_to_version` has code for a root that ends its chunk, to go on in the
  next one (`update_aux.cpp` 533), but forms the offset with `add_to_offset` (531), which asserts that it
  stays in the chunk (`async/config.hpp:125`); `trie.cpp:1479` says of the other place that needs such an
  offset "Can't use add_to_offset(), because it asserts if we go past the capacity". The process is
  aborted when both copies have been rewound and `db_offsets` have not. `NoFault` allows this one.
* `"rewind_finalized"` with enough upserts for the finalized version to fall out of the history:
  `NoFault` fails in `rewind_to_version` at every open, in the instance of `moves` too, which does not
  check it.
* A `fixed_history_length` of 1 passes the assertion of `set_history_length`, and `NoFault` fails at
  the second version: `do_update` erases the only version, the ring is empty, and the minimum valid
  version is `INVALID_BLOCK_NUM` in the assertion that follows (`update_aux.cpp:1153`). Besides,
  `update_root_offset` (207) asks the first copy whether the ring is now empty, for both copies: the
  first is reset, and then the second is not; moving the only version forward does that too.
  `HistoryLens` has lengths from 2.
* An exit between the two magic strings of a new database: it is opened from then on as one that
  has no backup; `UseTorn` in `faults` is what follows if it dies once more.

Trie:

* `copy_trie.cpp` (102, 113, 277) computes least offsets of a child without the child's own offset,
  copies subtries whose hashes it does not recompute, and writes the bottom node twice.
* `trie.cpp` about 1332: with `can_write_to_fast` false a compacted node is written to the slow list
  and recorded as one of the fast list. The comment at `node.hpp:181` has least offsets otherwise
  than the code.
* `create_node_with_expired_branches` (346) returns nothing for a node that has a value and no
  children left.

Input and output:

* `WriteReturnsAlways` fails: two writers that are entered again by each other's completions may
  undo and retry for ever (`trie.cpp` 1425-1462). `WriteReturns` is about retries that are not
  interrupted themselves.
* `LargeNodesIntact` fails: the loop for a node larger than a buffer ignores that the replacing was
  undone (`trie.cpp` 1607-1640).
* With nodes larger than a write buffer and smaller ones beside them, the assertion that the buffer to
  be initiated is full (`trie.cpp` 1597) may fail: `replace_node_writer_to_start_at_new_chunk` has
  padded its buffer and waits for another one; a node written meanwhile replaces the writer
  through `replace_node_writer`, which `reentrancy_detection` does not count, and leaves a writer that is
  partly filled; the outer one sees no deeper entry (1458) and goes on with that writer.
* A read that waits to be retried keeps its buffer, and with eager completions one that was taken
  from the ring may hold the buffer its turn waits for.
* `PoolKeepsDataAlways` fails: whether chunks were interleaved is not stored (`storage_pool.hpp:315`);
  a pool opened with the other flag has its chunks in another order. Block devices of one size are
  not told apart, and a mismatch found at a later device leaves the new hash on the earlier ones.
* `PayloadIntact` fails where `LagBounded` does not hold (4 descriptors, a payload buffer of 5 bytes and 7
  events show it): a recorder reserves its bytes and is overtaken; others move the window past its payload,
  the unsigned difference wraps (`event_recorder_inline.h:112`), and its compare-exchange moves the window
  back, where `event_recorder.md:59` has it that "`buffer_window_start` slides forward". An iterator then
  takes a payload that was overwritten for intact. With the code's sizes the recorder has to stand
  still while others take nearly all of the buffer (more than 2^27 - 2^25 bytes).
* `RingTryCopyIntact` fails: `monad_event_ring_try_copy` of an event that is just being recorded
  returns a copy that was not checked (`event_ring.h` 248-264).

Channel and worker:

* `LargeValueIntact` fails: C++ writes a large value at offset 44 (`LargeValueNode::data`), Rust reads
  it at 48, `size_of` the struct (`async_fifo.rs:344`).
* The `limit` of `submit_traverse` ("最大返回数量", the largest number of results, `async_fifo.rs:262`)
  is passed to `Db::traverse` as the limit of concurrent reads (`bridge_fifo.cpp:475`).
* `AsyncFifo` is `Sync`, and two threads that start and stop it race on `pool_`; what is queued at
  `Drop` is never freed (`ck_wrapper.c:124`).
* The pulse of one second in the worker's `wait_for` is also what rescues a caller whose request and
  the worker's sleep miss each other: `CallsReturn` fails without it.
* `unflushed_version_` (`db.cpp:836`) is a plain field that functions marked threadsafe use.

Tool: a larger capacity of chunks misplaces the roots (`RootsRestoredAlways`); the front copy is
archived as it is, dirty or wiped; `latest_proposed` is not restored; with one processor the window
is empty and the archive never ends; declining the question leaves an emptied file; an error after
the lists were emptied leaves the pool unusable; an archive that was cut is not
noticed if a list of one chunk is missing or if the cut is inside an uncompressed entry; a live database is archived at different times in different chunks.

Synchronous interfaces: `FoundByVersion` fails, because upserts through C, Go and Rust never record a root
(`nomad_mpt.cpp:441`, `bridge.cpp:289`), so that `Find` by version finds nothing of what was upserted, where
`doc.go:66` says "Disk databases persist the root automatically and support Find() directly."; a find from an older root on disk gives nothing, because any error is
"not found"; a root of a version that is not recorded loads as null in Rust, and an upsert from it
starts from an empty trie; Rust's `find` in memory ends the process; `create` empties a database that
is there; without it a file that is not there is created and the process ended; unrooted upserts
free no chunk of their own, but those of recorded versions that they make outdated: a root that was
loaded with one of these then reads chunks that may have been given back or written anew, in a find
as in an upsert. An update through C or Go of a key that another program recorded with a version ends
the process, because such updates carry version 0 (`nomad_mpt.cpp:402`, with a comment that the version
is "由外部指定", given from outside). Go keeps nothing alive across its calls (`db.go:176`), and puts neither pointer nor
length for an empty value (`db.go:279`).

## Proofs

Fourteen theorems in seven modules, for every value of the constants that the assumptions named allow.
Each has the same form: an inductive invariant that is stronger than the property, a lemma for each
action or group of actions that says that it is kept, and a last step that puts them together. TLC
evaluates every assumption in the passing runs. The invariants' main parts were tried out with TLC on
small instances first; they are in the proof modules, and no run depends on them.

`UpdateAuxProofs` (no assumption on the constants is needed):

**CleanCopyAlways**: `Spec => []CleanCopy`. Once both copies carry the magic string, at most one of
them is dirty: the assertion `db_copy` makes on its source never fails, whatever the operations, and
however often the process dies, also while it heals.

`CleanCopy` is not inductive: a step `HoldDirty` on one copy breaks it if the other is dirty. The
invariant `DirtyInv` adds what rules that out, by the phase of the process:

* `BitTypes`: the bits are Booleans, `side` is 0 or 1;
* when `set_io` has healed (`pc = "attach"`) and both copies are magic, neither is dirty;
* `OneAtATime`, while a database is made, and while one with both magic strings is open: the other
  copy than `side` is clean, and `side`'s is dirty only if a primitive is at the head of `todo`.

A lemma for each group of actions (`PrimitiveStep`, `SetIoStep`, `OpeningStep`, `HistoryStep`,
`UpsertStep`, `ChunkStep`, `CallStep`, `CrashStep`) rests on four about the forms steps have:
`OutsidePrimitives` (a step outside primitives leaves the bits alone), `ProcessGone`, `AbortStep`
and `DbCopyStep`.

**CopiesEqualAlways**: `Spec /\ []~ErasesLast => []CopiesEqual`, and **AgreeOutsideRingAlways**: `Spec =>
[]AgreeOutsideRing`. As long as no process dies suddenly, the backup is equal to the first copy between
any two operations. `ErasesLast` is the one exception, and the proof's only way out of it: when
`update_root_offset` takes the only version away it asks the first copy whether the ring is now empty,
also for the second copy, and by then the first has been reset (observations above; a history of one
version does it, and moving the only version). What is outside the ring agrees even then, which is the
second theorem. Both are parts of `CopiesAgree`; its other parts are about `List`.

Neither is inductive, because in the middle of a primitive the copies differ. `EqualInv` (and `StepInv`,
field by field) says by how much: the first copy is what the primitive at the head of `todo` makes of the
second one (`Made`), and its assertion holds of the second one, so that the process cannot abort
between the two. For the time without a process it says that the copies are equal unless the first has
lost its magic string, and that the ring's storage is the same even then: `db_copy` does not copy it.
`Quiet` covers all steps that leave the copies alone, `LoudOrQuiet` says that the others are those of
primitives and of `set_io`. TLC confirmed `EqualInv` and `~ErasesLast` on the instance of `history`.

`DbWorkerProofs` (from `WorkerAssumption`: the kinds are those of the loops, the bounds are numbers):

**PromiseKeptAlways**: `Spec => []PromiseKept`. The promise of a find that waits for a read is still
in its deque, for any number of callers, calls and kinds: the completion, which holds a reference to
the promise, never writes to one that was dropped.

`PromiseKept` alone is not inductive, because `Turn` drops promises. `KeptInv` adds that whoever has
a request queued or in flight still holds its future, and the request has no value yet
(`Unanswered`); that the two sets are disjoint; and that no call has a value before it is made
(`NotYetMade`), so that a new call cannot return with the value of an earlier one. `PoppedKeeps` says
of the `pop_front` loops that they keep every promise with a future; it rests on `MinIsLeast`, which
gets the least element of a set from the library's well-founded order on the natural numbers. `Untouched`
covers the steps that only move the worker, the owner or a waiting caller.

**WorkerSoundAlways**: `Spec => []WorkerSound`. The worker is never asleep while a find waits for a
read or somebody holds the future of a promise it keeps. The code only tests at the end of a turn
whether it did nothing; what it sleeps on four steps later is another matter. `RestInv` says that
`did_nothing` implies that no read is in flight (`NothingIsNothing`), that from there to the sleep
every deque is empty (`RestsOnNothing`: nobody else puts promises into them), and where the count of
idle turns may pass its bound (`IdleBounded`). The types of the callers come from `KeptInv`.

`NomadDbProofs` (from `NomadAssumption`: versions are numbers, updates are of the program's keys, and
files record values of those keys and versions of their leaves, with a last version):

**AbortsOnMisuseAlways**: `NomadSpec => []AbortsOnMisuse` and **FindsOwnAlways**: `NomadSpec =>
[]FindsOwn`. No sequence of calls ends the process without one of the six kinds of calls in `Misuse`, or
the opening of a file that is not there, and a root finds what was put into it, except for nodes in
chunks that were released. `FileSound` says that what is recorded has a last version also after any
number of erasures: without a misuse one version is always left, so the assertion after the erasure
holds. `NomadInv` relates a node in memory to what the program put into it:
what is on disk below a root is what it wants, what is in memory is that or was moved out
(`RootsHold`), and in memory children are moved out only into a root that knows where it is from
(`MovedToHeir`). Without the last one `FindsOwn` is not inductive: an upsert from one root takes the
children of another one away.

`EventRingProofs` (from `EventRingAssumption`, above):

**IteratorsRightAlways**: `EventRingSpec => []IteratorsRight`, for any number of recorders and
iterators. `RingInv` has five parts besides the types:

* `RecInv`: numbers being recorded are distinct and of the last turn of the ring; a descriptor with a
  number is whole, in its slot, and not being recorded; a recorder has its slot to itself until it
  commits;
* `CopyInv`: between the iterator's two loads of a slot's number, either the slot still has that
  number and what was copied so far, or the number will never be seen there again. That the second
  load then fails is why no copy is torn;
* `ByteInv`: how many bytes are taken, and that a recorder's bytes come not long after those of the
  numbers before its own, although numbers and bytes are taken in two steps;
* `WindowInv`: the window has room for every recorder that does not stand before it. The attempt to
  move it is made once, and its failure is ignored; the proof shows why this is enough: whoever
  made it fail has moved the window by a multiple of `WINDOW_INCR`, beyond what all recorders
  together can need. `Reach` and `BlockedOnes` count how far. `Behind` says how near the window
  may come to the last byte taken; with `TakenSince`, how many bytes can be taken while a recorder
  records, it gives `NoWrap`: under `LagBounded` no difference wraps;
* `PayInv`: payloads of different events do not overlap while the window has both, so that a payload
  the window still contains after it was read is the event's own.

`WindowInv` and `PayInv` are kept under `LagBounded` only; events and gaps are right without it.

Lemmas on rounding, remainders (`SlotTurn`: different numbers of one slot are a turn apart) and
cardinalities are stated once and used in all of them.

`FifoManagerProofs` (from `FifoAssumption`: the bounds are numbers):

**NothingLostAlways**: `FifoSpec => []NothingLost` and **AnswersInOrderAlways**: `FifoSpec =>
[]AnswersInOrder`, for any number of requests, workers, starts and failed allocations. `NothingLost`
counts, and is not inductive: a worker that posts an answer must be the one that holds the request.
`FifoInv` adds

* `ControlInv`: a channel that stands still has no fiber inside its task, so that `start()`, which
  replaces the pool, never throws away one that holds a request;
* `FiberInv`: what a fiber holds at each of its places;
* `CountInv`: the sum in `NothingLost`, for requests that were not submitted too (it is 0), so that a
  request nobody submitted is nowhere;
* `TraverseInv`, `CompletionInv`: a request with results in the traverse queue and no end is held by a
  worker that is in its traversal, and has neither a completion nor an answer; what is announced
  as a large value is one;
* `EndInv`, `LargeInv`: the two orders. `LargeInv` counts the workers that have posted a large value
  and not yet announced it.

Counting lemmas (`CardChange`, `CountAppend`, `CountTail`, `HeldChange`) say how the sums change when
one entry is appended or polled and one fiber moves.

`NodeWritersProofs` (from `AsyncIOAssumption`: there are finitely many reads, and a configuration has at
least one read buffer; and `NodeWritersAssumption`: there are at least two write buffers and two
chunks, one for each writer):

**BuffersConservedAlways**: `NodeWritersSpec => []BuffersConserved` and **FlushedIsDurableAlways**:
`NodeWritersSpec => []FlushedIsDurable`, for any number of reads, buffers, chunks and nodes, sizes of
nodes up to a chunk, and every configuration of the rings, with the stack as deep as it gets. The
invariant `NodeWritersInv` says what each frame of the stack holds:

* `StackOK`: `main` is at the bottom, and only it waits and flushes;
* `GetBufsOK`, `InitsOK`: a frame that polls for a buffer is called by the frame that gets it, a read is
  initiated by one frame only, and has its buffer once that frame is past the place where it gets it;
* `QueuesOK`, `TodosOK`, `ReadsKept`: a read that is begun is in one place, once: initiated by a frame,
  put off, over the limit, in flight, or completed and waiting for its turn in one poll;
* `WithinOK`: `within_completions_count` is the number of frames that run completions, so that what was
  put off is initiated when the last of them returns;
* `LandedOK`: writes that were taken from the ring and not processed are among those in flight;
* `NodesKept`: a node that is begun is written or is being written by a frame;
* `PhaseOK`: how far `main` has come. `wait_until_done` returns only if nothing is read, put off or in
  flight (`NothingInFlight`), so nobody but `main` writes from then on; that is why a writer that
  was flushed stays empty while the other one is, and why what is in flight ends.

Neither property is inductive: a buffer may be given back twice if two completions of one read wait,
and a flush that lets a receiver run may leave behind what that receiver writes. Because the stack
changes at its top only, there are three lemmas for each part (`...Tops`, `...Pushes`, `...Pops`: the top
frame goes on, calls, or returns), and one for each of the 35 actions.

`ReadersProofs` (from `ReadersAssumption`: the bounds are numbers, there is a chunk and a slot of the cache,
and the ring has two slots or more):

**AnswersRightAlways**: `ReadersSpec => []AnswersRight` and **CacheSoundAlways**: `ReadersSpec =>
[](CacheSound /\ ReadersNoFault)`, for any number of finds, chunks, versions, slots of the ring and of
the cache and for the four protocols. As in the runs, they say nothing after a root was cached too late
(`clean`; the run `stale_root` has that behaviour). `ReadersInv` is `WriterInv /\ (clean => ReaderInv)`.

`WriterInv` is about what is shared, and holds between any two changes of an update: insertion counts
are distinct and never given out again (`CountsSound`), what is left of the plan is one of eight
shapes, each with the chunks, versions and room it needs (`PlanSound`), and the versions between the two
bounds have their root and their leaf where the ring and the root say (`HistorySound`). The lower
bound moves before the first chunk is freed: that is why a version that is still valid *after* a read
makes the read valid.

`ReaderInv` rests on two facts about a virtual offset that stay true whatever the writer does
afterwards: the node it has for as long as it is in use (`HoldsAt`) and the chunk it is of (`IsOf`).
With them,

* `FindsSound`: as long as its version is there, a find has no nodes or the version's own;
* `ReadsSound`: what a read in flight will bring, by the kind of its key; keys of reads are distinct, and
  with `find_owning` the offset of a read is not in the cache, which is the assertion of its receiver;
* `WaitingSound`: the finds that wait for a key look for the node of that key;
* `ThreadSound`: what the thread's find, and those it has still to resume, know at each step;
* `OnePlace`: a find waits for one read, or is handled, or is to be resumed, once;
* `CacheHolds`, `TreeRight`: what the cache and the writer's own tree hold.

None of the parts is kept without the others: the cache is right because reads are, reads because finds
were when they began them. `Steady` is what the writer's steps leave alone, and one lemma carries the
whole of `ReaderInv` over them; each of the reader's actions has a lemma of its own.

What the proofs found out about the model: two definitions (`FindBelow` in `NomadDb`, `InflightKey` in
`Readers`) had a `CASE` with guards that overlap, of which TLC takes the first and a proof may take
either: they are now written so that the guards exclude each other. With a single descriptor
`GapIsReal` is false, and with a payload buffer that has no room for a turn of payloads
`PayloadIntact` is: both are now part of the assumption. The code makes rings of at least 2^16
descriptors; what callers record is up to them.

### Only model-checked

* Liveness, which the prover does not do: `CallsEnd`, `StopReturns`, `Answered`, `EveryoneReturns`,
  `FindAnswered`, `ReadsComplete`, `WriteReturns`, `EventDelivered`, `ToolEnds`.
* The trie with its refinement, the storage pool and the numbers: their modules have recursive
  operators, or compute by recursion over data.
* `CacheBounded`, the third part of `CacheRight`: the bytes the cache counts are a sum over its list.
* `RestoresWhole`: it compares lists that are sorted by a fold and walked by a recursive function.
* `RecoveredAtomic`, `NoFault`, `HistoryRangeHolds`, `RootIsOwn`, `NoLiveChunkDestroyed` and
  `CopiesAgree` of `UpdateAux` hold for the operations of their runs and not for every value of
  `Ops`, `HistoryLens` and `MaxCrashes`: `rewind_crash` and the observations above have the
  counterexamples. The equality of the copies is proved, above; a theorem about the rest needs
  hypotheses about these constants, and an invariant about every item `todo` may hold. `ListsSound`
  and the other parts of `CopiesAgree` are also about `List`, a recursive function.
* `NodesPlaced` holds for nodes of the sizes of its run and not for all: see the third observation on
  input and output above. The pool may also run out of chunks, which ends the process.

## Not modelled

* Byte layout: node tables, nibble packing, page counts in offsets, files of event rings. Properties
  do not depend on it beyond what `Serialized`, `LargeValueIntact` and `StoragePool` have.
* Traversal (`traverse.hpp`, `traverse_util.hpp`) and the iterators of the bindings: they read nodes
  as finds do.
* In `Trie`: the alternation of the writers (a test option), an upsert of no updates, unrooted
  upserts (they are in `UpdateAux` and `NomadDb`).
* A rewind of the writer under a reader whose cache survives it; a read-only process that waits for a
  dirty copy; the contract `NoOwnFinds`.
* Timed and threadsafe operations of AsyncIO, scheduling of fibers, huge pages, hash functions.
* A database at the limit of the insertion count: in `UpdateAux` `MAX_COUNT` is the code's, and no
  instance comes near it. `append_` asserts the limit, so counts never wrap; `Archive` has lists with
  counts up to it.
* Pools with chunks smaller than 256 MB, where offsets behind a chunk are not caught by assertions.
* Finalizers of Go, memory that is never freed, statistics, logging, command line parsing.

## Plan

1. Proofs: for `UpdateAux` without sudden exits, lemmas on the ring's operators and
   `HistoryRangeHolds`; `WriterChunks`, for nodes that fit a write buffer; the layout of the pool
   without interleaving.
2. An abstract specification of the history (a map from versions to tries, with atomic operations)
   that `UpdateAux` without sudden exits implements.
3. Traversal against a writer, with the protocols of `Readers`.
