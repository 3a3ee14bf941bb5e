------------------------------- MODULE Readers -------------------------------
(***************************************************************************)
(* Finds in a process that reads the database while another one writes it. *)
(* The two share the metadata (mapped) and the device; there is no lock.   *)
(* The writer gives versions up, frees their chunks and writes new nodes   *)
(* there; a reader must notice.  Four protocols:                           *)
(*   blocking   Db over AsyncIOContext: find_blocking, read_node_blocking  *)
(*   owning     RODb: find_owning_notify_fiber_future and a NodeCache      *)
(*   async      AsyncContext: DbGetSender, find_request_sender             *)
(*   rw         the writer's own finds: find_notify_fiber_future           *)
(*                                                                         *)
(* Data: a version is a root with one leaf; a node fills a chunk, so an    *)
(* offset is a chunk and a virtual offset its insertion count, 0 if it is  *)
(* in no list.  A leaf's value is the version that wrote it.               *)
(***************************************************************************)
EXTENDS Integers, Sequences, FiniteSets, SequencesExt, FiniteSetsExt, Functions, TLC

CONSTANTS Finds,     \* finds: model values, or numbers from 1
          NumChunks,    \* chunks of the pool
          Capacity,     \* slots of the ring of root offsets, and the history length
          MaxVersion,   \* bound on versions
          Protocols,
          MaxBytes,     \* NodeCache: bytes, and list nodes in its array
          CacheSlots

ASSUME ReadersAssumption ==
    /\ NumChunks \in Nat \ {0} /\ MaxVersion \in Nat
    /\ Capacity \in Nat /\ Capacity >= 2    \* MIN_HISTORY_LENGTH is 257
    /\ MaxBytes \in Nat /\ CacheSlots \in Nat \ {0}
    /\ Protocols \subseteq {"blocking", "owning", "async", "rw"}

VARIABLES
    count,      \* insertion count of each chunk, 0: on the free list
    freeList,   \* the free list
    inserted,   \* chunks appended so far
    disk,       \* what each chunk holds
    ring,       \* root offsets by slot
    newest,        \* next_version_ - 1
    oldest,     \* version_lower_bound_
    plan,       \* what the writer is about to do
    truth,      \* of every version, the value its leaf has
    protocol,
    req,        \* the finds
    thread,     \* the reader's thread: where it is, for which find, and whom to resume next
    reads,      \* reads in flight
    inflights,  \* who waits for what
    cache,      \* the NodeCache
    hint,       \* CacheNode::next of a root, by its virtual offset: a list node
    tree,       \* rw: the leaf below the root of a version, if it is in memory
    clean,      \* no root was cached after its version was gone
    failed      \* assertions that failed

shared == <<count, freeList, inserted, disk, ring, newest, oldest, plan, truth>>
local == <<protocol, req, thread, reads, inflights, cache, hint, tree, clean, failed>>
readersVars == <<shared, local>>

None == 0
Chunks == 1 .. NumChunks
Unwritten == [kind |-> "none", version |-> 0, child |-> None]
Root(version, child) == [kind |-> "root", version |-> version, child |-> child]
Leaf(version) == [kind |-> "leaf", version |-> version, child |-> None]

-----------------------------------------------------------------------------
(***************************************************************************)
(* NodeCache: a map into an array of list nodes, the active ones in order  *)
(* of their last use, the others free.                                     *)
(***************************************************************************)
MemSize(node) == IF node.kind = "root" THEN 2 ELSE 1

EmptySlot == [key |-> None, val |-> Unwritten, size |-> 0]

EmptyCache == [slot |-> [s \in 1 .. CacheSlots |-> EmptySlot], active |-> <<>>,
               free |-> [s \in 1 .. CacheSlots |-> s], used |-> 0]

\* map_.find: the list node of a key, or None.
Mapped(c, key) == LET at == {s \in ToSet(c.active) : c.slot[s].key = key}
                  IN  IF at = {} THEN None ELSE CHOOSE s \in at : TRUE

update_lru(c, s) == [c EXCEPT !.active = <<s>> \o RemoveFirst(@, s)]

\* The k list nodes that were not used for longest, and what they take
LastUsed(c, k) == SubSeq(c.active, Len(c.active) - k + 1, Len(c.active))
SizeOf(c, slots) == FoldSeq(LAMBDA s, n : n + c.slot[s].size, 0, slots)

\* list_.pop_back() while more than MaxBytes are used: the fewest that have to go
evict_until_under_limit(c) ==
    LET n == Len(c.active)
        k == Min({j \in 0 .. n : j = n \/ c.used - SizeOf(c, LastUsed(c, j)) <= MaxBytes})
        out == LastUsed(c, k)
    IN  [slot |-> [s \in 1 .. CacheSlots |-> IF s \in ToSet(out) THEN EmptySlot ELSE c.slot[s]],
         active |-> SubSeq(c.active, 1, n - k), free |-> out \o c.free,
         used |-> c.used - SizeOf(c, out)]

\* static_lru_cache::insert: the same key, a free list node, or the one used least.
LruInsert(c, key, node) ==
    LET at == Mapped(c, key)
        s == IF at # None THEN at ELSE IF c.free # <<>> THEN Head(c.free) ELSE Last(c.active)
        erased == IF at = None /\ c.free # <<>> THEN 0 ELSE c.slot[s].size
    IN  [c EXCEPT !.slot[s] = [key |-> key, val |-> node, size |-> MemSize(node)],
                  !.active = <<s>> \o RemoveFirst(@, s),
                  !.free = IF at = None /\ @ # <<>> THEN Tail(@) ELSE @,
                  !.used = @ - erased]

\* Mutant: what an entry that is replaced took is not given back.
InsertLeaky(c, key, node) ==
    LET done == LruInsert(evict_until_under_limit([c EXCEPT !.used = @ + MemSize(node)]), key, node)
    IN  IF Mapped(c, key) = None THEN done ELSE [done EXCEPT !.used = @ + 1]

CacheInsert(c, key, node) ==
    LruInsert(evict_until_under_limit([c EXCEPT !.used = @ + MemSize(node)]), key, node)

-----------------------------------------------------------------------------
ReqIdle == [at |-> "idle", version |-> 0, off |-> None, virt |-> None,
            root |-> Unwritten, rootVirt |-> None, leaf |-> Unwritten, result |-> "none"]

NoRead == [key |-> <<"none", 0>>, off |-> None, virt |-> None, q |-> None, data |-> Unwritten,
           landed |-> FALSE]

ThreadIdle == [at |-> "idle", q |-> None, todo |-> <<>>, read |-> NoRead, virt |-> None]

ReadersInit ==
    /\ count = [c \in Chunks |-> 0] /\ freeList = [i \in Chunks |-> i] /\ inserted = 0
    /\ disk = [c \in Chunks |-> Unwritten]
    /\ ring = [s \in 0 .. Capacity - 1 |-> None] /\ newest = 0 /\ oldest = 1
    /\ plan = <<>> /\ truth = <<>>
    /\ protocol \in Protocols
    /\ req = [q \in Finds |-> ReqIdle] /\ thread = ThreadIdle
    /\ reads = {} /\ inflights = <<>> /\ cache = EmptyCache
    /\ hint = [v \in 0 .. 2 * MaxVersion |-> None]
    /\ tree = [v \in 1 .. MaxVersion |-> Unwritten]
    /\ clean = TRUE /\ failed = {}

SlotOfVersion(v) == v % Capacity

\* get_root_offset_at_version and version_is_valid_ondisk
IsValid(v) == v <= newest /\ v >= oldest /\ ring[SlotOfVersion(v)] # None

\* physical_to_virtual
Virtual(chunk) == IF chunk = None THEN None ELSE count[chunk]

-----------------------------------------------------------------------------
(***************************************************************************)
(* The writer: do_update as a sequence of changes to what is shared.       *)
(***************************************************************************)
Referenced == UNION {LET r == ring[SlotOfVersion(v)] IN {r, disk[r].child} :
                     v \in {u \in 1 .. newest : IsValid(u)}}

Garbage == {c \in Chunks : count[c] # 0} \ Referenced

\* The caller's contract: the process that writes does not look up meanwhile.
NoOwnFinds == protocol = "rw" => thread = ThreadIdle /\ inflights = <<>>

\* Erase the version that falls out of the history, free its chunks, write the nodes of
\* the new version, which may share the leaf of the one before, and push its root.
BeginUpdate(newLeaf) ==
    LET v == newest + 1
        kept == disk[ring[SlotOfVersion(newest)]].child
        leaf == IF newLeaf THEN <<[do |-> "append", node |-> Leaf(v)]>> ELSE <<>>
    IN  /\ plan = <<>> /\ newest < MaxVersion /\ NoOwnFinds
        /\ newest = 0 => newLeaf
        /\ Len(freeList) + (IF v > Capacity THEN 1 ELSE 0) >= IF newLeaf THEN 2 ELSE 1
        /\ plan' = (IF v > Capacity THEN <<[do |-> "erase"], [do |-> "free"]>> ELSE <<>>)
                   \o leaf \o <<[do |-> "append", node |-> Root(v, IF newLeaf THEN None ELSE kept)]>>
        /\ UNCHANGED <<count, freeList, inserted, disk, ring, newest, oldest, truth, local>>

\* The plan goes on after its first step.
Planned(do) == plan # <<>> /\ Head(plan).do = do /\ NoOwnFinds /\ UNCHANGED local

\* clear_root_offsets_up_to_and_including
Erase ==
    /\ Planned("erase")
    /\ ring' = [ring EXCEPT ![SlotOfVersion(oldest)] = None]
    /\ oldest' = oldest + 1
    /\ plan' = Tail(plan)
    /\ UNCHANGED <<count, freeList, inserted, disk, newest, truth>>

\* free_compacted_chunks, one chunk after the other: remove, then destroy_contents.
Free ==
    /\ Planned("free")
    /\ plan' = (IF Garbage = {} THEN Tail(plan)
                ELSE <<[do |-> "destroy", chunk |-> Min(Garbage)]>> \o plan)
    /\ count' = IF Garbage = {} THEN count ELSE [count EXCEPT ![Min(Garbage)] = 0]
    /\ UNCHANGED <<freeList, inserted, disk, ring, newest, oldest, truth>>

DestroyContents ==
    /\ Planned("destroy")
    /\ disk' = [disk EXCEPT ![Head(plan).chunk] = Unwritten]
    /\ freeList' = Append(freeList, Head(plan).chunk)
    /\ plan' = Tail(plan)
    /\ UNCHANGED <<count, inserted, ring, newest, oldest, truth>>

\* A chunk from the free list is appended to the fast list, for the node that follows.
AppendChunk ==
    LET c == Head(freeList)
    IN  /\ Planned("append")
        /\ freeList' = Tail(freeList)
        /\ inserted' = inserted + 1
        /\ count' = [count EXCEPT ![c] = inserted + 1]
        /\ plan' = <<[do |-> "write", chunk |-> c, node |-> Head(plan).node]>> \o Tail(plan)
        /\ UNCHANGED <<disk, ring, newest, oldest, truth>>

\* The node is written; a root gets the leaf just written, if there is one.
WriteNode ==
    LET w == Head(plan)
        linked == [i \in DOMAIN Tail(plan) |->
                      IF w.node.kind = "leaf" THEN [Tail(plan)[i] EXCEPT !.node.child = w.chunk]
                      ELSE Tail(plan)[i]]
    IN  /\ Planned("write")
        /\ disk' = [disk EXCEPT ![w.chunk] = w.node]
        /\ plan' = IF w.node.kind = "root"
                   THEN <<[do |-> "push", chunk |-> w.chunk]>> ELSE linked
        /\ UNCHANGED <<count, freeList, inserted, ring, newest, oldest, truth>>

\* append_root_offset
PushRoot ==
    LET root == Head(plan).chunk
    IN  /\ Planned("push")
        /\ ring' = [ring EXCEPT ![SlotOfVersion(newest + 1)] = root]
        /\ newest' = newest + 1
        /\ truth' = Append(truth, disk[disk[root].child].version)
        /\ plan' = <<>>
        /\ UNCHANGED <<count, freeList, inserted, disk, oldest>>

WriterNext ==
    \/ \E newLeaf \in BOOLEAN : BeginUpdate(newLeaf)
    \/ Erase \/ Free \/ DestroyContents \/ AppendChunk \/ WriteNode \/ PushRoot

-----------------------------------------------------------------------------
(***************************************************************************)
(* The reader.  Its thread handles one find until it is answered or waits; *)
(* between any two of its steps the writer may act.                        *)
(***************************************************************************)
At(at) == thread.at = at /\ UNCHANGED shared
Q == thread.q
Goto(at) == thread' = [thread EXCEPT !.at = at]

\* The thread is done with a find and goes on with the next that waits for the same node.
Finished(q, result) ==
    /\ req' = [req EXCEPT ![q].result = result, ![q].at = "done"]
    /\ thread' = IF thread.todo = <<>> THEN ThreadIdle
                 ELSE [thread EXCEPT !.at = "resume", !.q = Head(thread.todo), !.todo = Tail(@)]

Waits == thread' = IF thread.todo = <<>> THEN ThreadIdle
                   ELSE [thread EXCEPT !.at = "resume", !.q = Head(thread.todo), !.todo = Tail(@)]

\* A find of a version that is, or was, in the history.
BeginFind(q, v) ==
    /\ At("idle")
    /\ req[q].at = "idle" /\ v \in 1 .. newest
    /\ protocol = "rw" => plan = <<>> /\ IsValid(v)
    /\ req' = [req EXCEPT ![q] = [ReqIdle EXCEPT !.at = "busy", !.version = v,
                   !.root = IF protocol = "rw" THEN disk[ring[SlotOfVersion(v)]] ELSE Unwritten]]
    /\ thread' = [thread EXCEPT !.at = IF protocol = "rw" THEN "own" ELSE "slot", !.q = q]
    /\ UNCHANGED <<protocol, reads, inflights, cache, hint, tree, clean, failed>>

\* get_root_offset_at_version: the slot first, the lower bound after it.
ReadSlot ==
    /\ At("slot")
    /\ req' = [req EXCEPT ![Q].off = ring[SlotOfVersion(req[Q].version)]]
    /\ Goto("bound")
    /\ UNCHANGED <<protocol, reads, inflights, cache, hint, tree, clean, failed>>

\* Mutant: the lowest version counts as gone.
ReadBoundLate ==
    LET off == IF req[Q].version > oldest THEN req[Q].off ELSE None
    IN  /\ At("bound")
        /\ IF off = None THEN Finished(Q, "gone")
           ELSE /\ req' = [req EXCEPT ![Q].off = off]
                /\ Goto(IF protocol = "blocking" THEN "before" ELSE "translate")
        /\ UNCHANGED <<protocol, reads, inflights, cache, hint, tree, clean, failed>>

ReadBound ==
    LET off == IF req[Q].version >= oldest THEN req[Q].off ELSE None
    IN  /\ At("bound")
        /\ IF protocol = "blocking" /\ off = None THEN Finished(Q, "gone")
           ELSE /\ req' = [req EXCEPT ![Q].off = off]
                /\ Goto(IF protocol = "blocking" THEN "before" ELSE "translate")
        /\ UNCHANGED <<protocol, reads, inflights, cache, hint, tree, clean, failed>>

AtRoot == req[Q].root = Unwritten

\* DbGetSender looks a root up without another check of the version.
Translate ==
    /\ At("translate")
    /\ req' = [req EXCEPT ![Q].virt = Virtual(req[Q].off)]
    /\ Goto(IF protocol = "async" /\ AtRoot THEN "lookup" ELSE "valid")
    /\ UNCHANGED <<protocol, reads, inflights, cache, hint, tree, clean, failed>>

\* "version validity check must be after the virtual offset translation"
Validate ==
    /\ At("valid")
    /\ IF IsValid(req[Q].version) /\ (protocol = "owning" => req[Q].virt # None)
       THEN Goto("lookup") /\ UNCHANGED req
       ELSE Finished(Q, "gone")
    /\ UNCHANGED <<protocol, reads, inflights, cache, hint, tree, clean, failed>>

\* The find has the node it looked for: the root, or the leaf.
Got(node, virt) ==
    /\ req' = [req EXCEPT ![Q].root = IF AtRoot THEN node ELSE @,
                          ![Q].rootVirt = IF AtRoot THEN virt ELSE @,
                          ![Q].leaf = IF AtRoot THEN @ ELSE node]
    /\ Goto("enter")

\* inflights: by virtual offset; DbGetSender by version for roots, find_request_sender
\* also by the parent; the writer's own finds by physical offset.
InflightKey ==
    CASE protocol = "owning" -> <<"virt", req[Q].virt>>
      [] protocol = "async" /\ AtRoot -> <<"version", req[Q].version>>
      [] protocol = "async" /\ ~AtRoot -> <<"virt", req[Q].virt, req[Q].rootVirt>>
      [] protocol = "rw" -> <<"off", req[Q].root.child>>

\* Mutant: every find reads for itself.
ReadAlways(off) ==
    /\ inflights' = Append(inflights, [key |-> InflightKey, waiting |-> <<Q>>])
    /\ reads' = reads \cup {[key |-> InflightKey, off |-> off, virt |-> req[Q].virt, q |-> Q,
                             data |-> Unwritten, landed |-> FALSE]}
    /\ Waits

\* async_read_with_continuation: wait for the read in flight, or begin one.
JoinOrRead(off) ==
    LET key == InflightKey
        joined == {i \in DOMAIN inflights : inflights[i].key = key}
    IN  /\ inflights' = IF joined # {}
                       THEN [inflights EXCEPT ![Min(joined)].waiting = Append(@, Q)]
                       ELSE Append(inflights, [key |-> key, waiting |-> <<Q>>])
        /\ reads' = IF joined # {} THEN reads
                    ELSE reads \cup {[key |-> key, off |-> off, virt |-> req[Q].virt, q |-> Q,
                                      data |-> Unwritten, landed |-> FALSE]}
        /\ Waits

\* The list node the root points to, if it still has the key; else the cache; else a read.
Lookup ==
    LET hinted == IF AtRoot \/ protocol = "owning" THEN None ELSE hint[req[Q].rootVirt]
        s == Mapped(cache, req[Q].virt)
    IN  /\ At("lookup")
        /\ \/ /\ hinted # None /\ cache.slot[hinted].key = req[Q].virt
              /\ Got(cache.slot[hinted].val, req[Q].virt)
              /\ UNCHANGED <<reads, inflights, cache, hint>>
           \/ /\ ~(hinted # None /\ cache.slot[hinted].key = req[Q].virt) /\ s # None
              /\ Got(cache.slot[s].val, req[Q].virt)
              /\ cache' = update_lru(cache, s)
              /\ hint' = IF protocol = "async" /\ ~AtRoot
                         THEN [hint EXCEPT ![req[Q].rootVirt] = s] ELSE hint
              /\ UNCHANGED <<reads, inflights>>
           \/ /\ s = None /\ req[Q].off = None
              /\ Finished(Q, "gone")
              /\ UNCHANGED <<reads, inflights, cache, hint>>
           \/ /\ s = None /\ req[Q].off # None
              /\ JoinOrRead(req[Q].off)
              /\ UNCHANGED <<req, cache, hint>>
        /\ UNCHANGED <<protocol, tree, clean, failed>>

\* A find with a root, or a leaf, checks the version and goes on or ends.
Enter ==
    LET r == req[Q]
    IN  /\ At("enter")
        /\ IF protocol # "rw" /\ ~IsValid(r.version) THEN Finished(Q, "gone")
           ELSE IF r.leaf # Unwritten THEN Finished(Q, "success")
           ELSE /\ req' = [req EXCEPT ![Q].off = r.root.child]
                /\ Goto(IF protocol = "blocking" THEN "before" ELSE "translate")
        /\ UNCHANGED <<protocol, reads, inflights, cache, hint, tree, clean, failed>>

\* read_node_blocking: check, pread, check.
BlockingBefore ==
    /\ At("before")
    /\ IF IsValid(req[Q].version) THEN Goto("pread") /\ UNCHANGED req ELSE Finished(Q, "gone")
    /\ UNCHANGED <<protocol, reads, inflights, cache, hint, tree, clean, failed>>

BlockingPread ==
    /\ At("pread")
    /\ thread' = [thread EXCEPT !.at = "after", !.read.data = disk[req[Q].off]]
    /\ UNCHANGED <<protocol, req, reads, inflights, cache, hint, tree, clean, failed>>

BlockingAfter ==
    LET node == thread.read.data
    IN  /\ At("after")
        /\ IF ~IsValid(req[Q].version) THEN Finished(Q, "gone")
           ELSE /\ req' = [req EXCEPT ![Q].root = IF AtRoot THEN node ELSE @,
                                      ![Q].leaf = IF AtRoot THEN @ ELSE node]
                /\ thread' = [thread EXCEPT !.at = "enter", !.read = NoRead]
        /\ UNCHANGED <<protocol, reads, inflights, cache, hint, tree, clean, failed>>

\* find_notify_fiber_future: the leaf is in memory, or is read.
FindOwn ==
    LET v == req[Q].version
    IN  /\ At("own")
        /\ IF tree[v] # Unwritten
           THEN /\ req' = [req EXCEPT ![Q].leaf = tree[v]]
                /\ Goto("enter")
                /\ UNCHANGED <<reads, inflights>>
           ELSE JoinOrRead(req[Q].root.child) /\ UNCHANGED req
        /\ UNCHANGED <<protocol, cache, hint, tree, clean, failed>>

-----------------------------------------------------------------------------
\* The device reads at some time between the request and its completion.
DeviceRead ==
    /\ \E r \in reads :
        /\ ~r.landed
        /\ reads' = (reads \ {r}) \cup {[r EXCEPT !.landed = TRUE, !.data = disk[r.off]]}
    /\ UNCHANGED <<shared, protocol, req, thread, inflights, cache, hint, tree, clean, failed>>

\* A receiver's set_value begins.  load_root_receiver_t checks the version first, the
\* others translate the offset again.
BeginComplete ==
    /\ At("idle")
    /\ \E r \in reads :
        /\ r.landed
        /\ reads' = reads \ {r}
        /\ thread' = [thread EXCEPT !.read = r,
                          !.at = CASE r.key[1] = "version" -> "alive"
                                   [] r.key[1] = "off" -> "deliver"
                                   [] OTHER -> "retranslate"]
    /\ UNCHANGED <<protocol, req, inflights, cache, hint, tree, clean, failed>>

StillValid ==
    /\ At("alive")
    /\ thread' = [thread EXCEPT !.at = IF IsValid(req[thread.read.q].version)
                                       THEN "retranslate" ELSE "deliver", !.virt = None]
    /\ UNCHANGED <<protocol, req, reads, inflights, cache, hint, tree, clean, failed>>

Retranslate ==
    /\ At("retranslate")
    /\ thread' = [thread EXCEPT !.at = "insert", !.virt = Virtual(thread.read.off)]
    /\ UNCHANGED <<protocol, req, reads, inflights, cache, hint, tree, clean, failed>>

\* The waiting finds, and the rest of the inflights.
Pending == LET i == CHOOSE j \in DOMAIN inflights : inflights[j].key = thread.read.key
           IN  [waiting |-> inflights[i].waiting, rest |-> RemoveAt(inflights, i)]

\* Mutant: only the find that began the read is resumed.
NotifyFirst(node, virt) ==
    /\ inflights' = Pending.rest
    /\ thread' = [thread EXCEPT !.at = "resume", !.q = Head(Pending.waiting),
                                !.read = [thread.read EXCEPT !.data = node], !.virt = virt]

\* Resume the waiting finds with the node, or with none.
NotifyFinds(node, virt) ==
    /\ inflights' = Pending.rest
    /\ thread' = [thread EXCEPT !.at = "resume", !.q = Head(Pending.waiting),
                                !.todo = Tail(Pending.waiting),
                                !.read = [thread.read EXCEPT !.data = node], !.virt = virt]

\* Mutant: what was read is kept under the virtual offset its chunk has by now.
InsertUnchecked ==
    LET r == thread.read
        gone == thread.virt = None
    IN  /\ At("insert")
        /\ cache' = IF gone THEN cache ELSE CacheInsert(cache, thread.virt, r.data)
        /\ hint' = hint
        /\ NotifyFinds(IF gone THEN Unwritten ELSE r.data, thread.virt)
        /\ UNCHANGED <<protocol, req, reads, tree, clean, failed>>

\* find_owning_receiver and find_receiver use what they read if the offset still has the
\* virtual offset it had; load_root_receiver_t takes the one it has now.
Insert ==
    LET r == thread.read
        isRoot == r.key[1] = "version"
        same == thread.virt = r.virt
    IN  /\ At("insert")
        /\ IF isRoot \/ same
           THEN /\ cache' = CacheInsert(cache, thread.virt, r.data)
                /\ LET s == Mapped(cache', thread.virt)
                       fresh == IF thread.virt = None THEN hint
                                ELSE [hint EXCEPT ![thread.virt] = None]
                   IN  hint' = IF Len(r.key) = 3 THEN [fresh EXCEPT ![r.key[3]] = s] ELSE fresh
                /\ NotifyFinds(r.data, thread.virt)
           ELSE NotifyFinds(Unwritten, None) /\ UNCHANGED <<cache, hint>>
        /\ clean' = (clean /\ (isRoot => same))
        /\ failed' = failed
               \cup (IF isRoot /\ thread.virt = None THEN {"inserted an invalid offset"} ELSE {})
               \cup (IF protocol = "owning" /\ same /\ Mapped(cache, r.virt) # None
                     THEN {"cached already"} ELSE {})
        /\ UNCHANGED <<protocol, req, reads, tree>>

\* Nothing to insert: the version of a root has gone, or the tree of the writer gets
\* the node.
Deliver ==
    LET r == thread.read
        v == req[r.q].version
        leaf == IF tree[v] = Unwritten THEN r.data ELSE tree[v]
    IN  /\ At("deliver")
        /\ IF protocol = "rw"
           THEN NotifyFinds(leaf, None) /\ tree' = [tree EXCEPT ![v] = leaf]
           ELSE NotifyFinds(Unwritten, None) /\ UNCHANGED tree
        /\ UNCHANGED <<protocol, req, reads, cache, hint, clean, failed>>

\* A continuation runs.
Resume ==
    /\ At("resume")
    /\ IF thread.read.data = Unwritten THEN Finished(Q, "gone")
       ELSE IF protocol = "rw"
       THEN req' = [req EXCEPT ![Q].leaf = thread.read.data] /\ Goto("enter")
       ELSE Got(thread.read.data, thread.virt)
    /\ UNCHANGED <<protocol, reads, inflights, cache, hint, tree, clean, failed>>

ReaderStep ==
    \/ ReadSlot \/ ReadBound \/ Translate \/ Validate \/ Lookup \/ Enter
    \/ BlockingBefore \/ BlockingPread \/ BlockingAfter \/ FindOwn
    \/ BeginComplete \/ StillValid \/ Retranslate \/ Insert \/ Deliver \/ Resume

ReadersNext ==
    \/ WriterNext
    \/ \E q \in Finds, v \in 1 .. MaxVersion : BeginFind(q, v)
    \/ ReaderStep
    \/ DeviceRead

\* The reader's thread runs and the device answers.
ReadersSpec == ReadersInit /\ [][ReadersNext]_readersVars
               /\ WF_readersVars(ReaderStep) /\ WF_readersVars(DeviceRead)

-----------------------------------------------------------------------------
(***************************************************************************)
(* Properties                                                              *)
(***************************************************************************)
Outcome(q) == req[q].result

\* A find that succeeds has the value its version has, although chunks are freed and
\* written anew under it.
FindCorrect ==
    clean => \A q \in Finds :
        Outcome(q) = "success" => req[q].leaf = Leaf(truth[req[q].version])

\* A find says that the version is gone only if it is.
GoneIsGone == clean => \A q \in Finds : Outcome(q) = "gone" => ~IsValid(req[q].version)

\* What is cached under a virtual offset that is in use is what the writer wrote there.
CacheSound ==
    clean => \A s \in ToSet(cache.active), c \in Chunks :
        count[c] # 0 /\ cache.slot[s].key = count[c] => cache.slot[s].val = disk[c]

\* The cache counts what it holds, holds a key once, and is under its limit unless a
\* single node is over it.
CacheBounded ==
    /\ cache.used = SizeOf(cache, cache.active)
    /\ Cardinality({cache.slot[s].key : s \in ToSet(cache.active)}) = Len(cache.active)
    /\ cache.used <= MaxBytes \/ Len(cache.active) = 1

\* No assertion of the receivers fails: what is read was not cached meanwhile.
ReadersNoFault == clean => failed = {}

\* Every find is answered.
FindAnswered == []<>(\A q \in Finds : req[q].at # "busy")

\* "version validity check must be after the virtual offset translation", or else a find
\* gets a node of another version: so must the finds of AsyncContext.
FindCorrectAlways ==
    \A q \in Finds : Outcome(q) = "success" => req[q].leaf = Leaf(truth[req[q].version])

\* Whatever a find says is true: the value it has is that of its version, and a version it
\* says is gone is gone.
AnswersRight == FindCorrect /\ GoneIsGone

\* The cache holds what the writer wrote, within its limits, and is never given a node it has.
CacheRight == CacheSound /\ CacheBounded /\ ReadersNoFault
=============================================================================
