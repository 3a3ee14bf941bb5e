-------------------------------- MODULE Trie --------------------------------
(***************************************************************************)
(* A trie over its life: upserts, whose reads complete in any order,       *)
(* copies of subtries, finds, reopening and load_all.                      *)
(***************************************************************************)
EXTENDS TrieUpdate

CONSTANTS Batches,      \* batches of updates: sets of [key, op, next]
          Copies,       \* pairs of keys: what copy_trie copies, and where to
          FindKeys,     \* keys looked up by the action Find
          Databases,    \* kinds of databases: [onDisk, canFast, autoExpire]
          MaxPolls,     \* bound on completions inside of an upsert's writes
          MaxVersion    \* bound on the versions made

VARIABLES
    w,          \* the world of TrieUpdate
    root,       \* the root the caller holds: <<>> or <<node>>
    versions,   \* the roots written, and the expire version of each
    op,         \* what the thread is doing: idle, upsert or load
    clean       \* no step has yet been taken that breaks the offsets kept (see CopyTrie)

trieVars == <<w, root, versions, op, clean>>

Version == Len(versions) + 1

Table(v) == Contents(versions[v].root, w.disk)

\* The root has an empty key and the compaction offsets for its value: not an entry.
Entries(v) == {e \in Table(v) : e[1] # <<>>}

Store == INSTANCE TrieStore
             WITH store <- [v \in DOMAIN versions |-> Entries(v)],
                  horizon <- IF versions = <<>> THEN 0 ELSE Last(versions).expire

\* The updates of a batch at a version.
RECURSIVE Stamp(_, _)
Stamp(batch, version) ==
    {[key |-> u.key, value |-> IF u.op \in {"put", "new"} THEN <<version>> ELSE <<>>,
      incarnation |-> u.op = "new", next |-> Stamp(u.next, version),
      version |-> IF u.op = "erase" THEN 0 ELSE version] : u \in batch}

-----------------------------------------------------------------------------
TrieInit ==
    /\ root = <<>> /\ versions = <<>> /\ op = "idle" /\ clean = TRUE
    /\ \E d \in Databases :
        w = [tn |-> (<<>> :> make_tnode({0}, <<>>, 0, <<>>)), reads |-> <<>>,
             disk |-> [o \in {} |-> 0], next |-> [l \in Lists |-> 0],
             landed |-> [l \in Lists |-> 0], sm |-> 0, within |-> FALSE, polls |-> 0,
             polled |-> FALSE, stack |-> <<>>,
             fault |-> {}, onDisk |-> d.onDisk, canFast |-> d.canFast,
             autoExpire |-> d.autoExpire, expire |-> 0, compact |-> [l \in Lists |-> 0]]

\* do_update: compaction offsets and the expire version may advance, and the updates
\* go under one for the root.  upsert: until it polls, or waits for its reads.
BeginUpsert(batch, compact, expire) ==
    LET sentinel == [make_tnode({0}, <<>>, 0, <<>>) EXCEPT !.kids[0].valid = TRUE]
        update == [key |-> <<>>, value |-> <<0>>, incarnation |-> FALSE,
                   next |-> Stamp(batch, Version), version |-> Version]
        call == IF root = <<>>
                THEN [f |-> "create_new_trie", t |-> <<>>, b |-> 0, updates |-> {update},
                      prefix |-> 0]
                ELSE Upsert_(<<>>, 0, root, INVALID_OFFSET, {update}, 0, 0, 0)
    IN  /\ op = "idle" /\ Version <= MaxVersion
        /\ Store!Fits(Store!Current, <<>>, batch)
        /\ w.autoExpire => \A u \in batch : u.next = {}
        /\ w' = Run([w EXCEPT !.tn = (<<>> :> sentinel), !.compact = compact, !.expire = expire,
                              !.polls = MaxPolls, !.stack = <<call>>])
        /\ op' = "upsert"
        /\ clean' = (clean /\ (w.canFast \/ compact = w.compact))
        /\ UNCHANGED <<root, versions>>

Compactions == {[l \in Lists |-> IF l \in ls THEN w.landed[l] ELSE w.compact[l]] :
                    ls \in IF w.onDisk THEN {{}, {"fast"}, Lists} ELSE {{}}}

Expiries == IF w.autoExpire THEN {w.expire, Version - 1, Version} ELSE {w.expire}

\* A write polls, and one of the reads completes inside of it, or none.
PollInWrite ==
    /\ op = "upsert" /\ w.stack # <<>>
    /\ \/ w' = Run([w EXCEPT !.polled = TRUE])
       \/ \E i \in DOMAIN w.reads :
            w' = Run(StartCompletion([w EXCEPT !.polled = TRUE, !.polls = @ - 1], i))
    /\ UNCHANGED <<root, versions, op, clean>>

\* A read completes while upsert waits in flush().
CompleteRead ==
    /\ op = "upsert" /\ w.stack = <<>>
    /\ \E i \in DOMAIN w.reads : w' = Run(StartCompletion(w, i))
    /\ UNCHANGED <<root, versions, op, clean>>

\* write_new_root_node and flush_buffered_writes
WriteRoot(w0, node) ==
    LET written == async_write_node_set_spare(w0, node, TRUE).w
    IN  IF w0.onDisk THEN [written EXCEPT !.landed = written.next] ELSE w0

\* A trie in memory has one version: the nodes of the one before went into it.
NewVersion(node) ==
    /\ root' = <<node>>
    /\ versions' = Append(versions, [root |-> IF w.onDisk THEN Serialized(node) ELSE node,
                                     expire |-> w.expire])

EndUpsert ==
    LET sentinel == w.tn[<<>>]
        node == sentinel.kids[0].ptr[1]     \* there is one: the root has a value
        w1 == Check(Check(w, sentinel.npending = 0, "upsert has not ended"),
                      w.sm = 0 /\ DOMAIN w.tn = {<<>>}, "state machine or tnodes left")
    IN  /\ op = "upsert" /\ w.reads = <<>> /\ w.stack = <<>>
        /\ op' = "idle"
        /\ w' = WriteRoot(w1, node)
        /\ NewVersion(node)
        /\ UNCHANGED clean

-----------------------------------------------------------------------------
(***************************************************************************)
(* copy_trie.cpp                                                           *)
(***************************************************************************)
\* A child of a node made by copy_trie.  create_node_with_two_children records the
\* least offset below the child, and not the child's own; own says which it is.
CopiedChild(w0, node, own) ==
    LET written == async_write_node_set_spare(w0, node, TRUE)
    IN  [w |-> written.w,
         child |-> [NoChild EXCEPT !.valid = TRUE, !.ptr = <<node>>, !.offset = written.off,
                        !.minVersion = calc_min_version(node),
                        !.min = calc_min_offsets(node, IF own THEN written.off ELSE INVALID_OFFSET)]]

create_node_add_new_branch(w0, node, branch, new, version, value) ==
    LET r == CopiedChild(w0, new, TRUE)
        kids == [b \in DOMAIN node.kids |-> [node.kids[b] EXCEPT !.data = {}]]
    IN  [w |-> r.w, node |-> make_node(node.path, value, version, (branch :> r.child) @@ kids)]

create_node_with_two_children(w0, path, branch0, child0, branch1, child1, version, value) ==
    LET r0 == CopiedChild(w0, child0, FALSE)
        r1 == CopiedChild(r0.w, child1, FALSE)
    IN  [w |-> r1.w,
         node |-> make_node(path, value, version, (branch0 :> r0.child) @@ (branch1 :> r1.child))]

RECURSIVE CopyInto(_, _, _, _, _, _)
\* The loop of copy_trie_impl, from a node on: what becomes of the node, and whether
\* it is the one that was made (last) or an inner node of the way to it.
CopyInto(w0, node, src, dest, version, value) ==
    LET common == Len(LongestCommonPrefix({node.path, dest}))
        rest == SubSeq(dest, common + 1, Len(dest))
        made(r) == [w |-> r.w, node |-> r.node, last |-> TRUE]
        b == rest[1]
        r == CopyInto(w0, ChildNode(node, b, w0.disk), src, Tail(rest), version, <<>>)
        again == async_write_node_set_spare(r.w, r.node, TRUE)
        written == IF r.last THEN async_write_node_set_spare(again.w, r.node, TRUE) ELSE again
        entry == [node.kids[b] EXCEPT !.ptr = <<r.node>>, !.offset = written.off,
                      !.min = calc_min_offsets(r.node, INVALID_OFFSET),
                      !.minVersion = calc_min_version(r.node)]
    IN  IF common < Len(node.path)
        THEN made(create_node_with_two_children(w0, SubSeq(node.path, 1, common),
                      b, make_node_from(src, Tail(rest), src.version),
                      node.path[common + 1],
                      make_node_from(node, SubSeq(node.path, common + 2, Len(node.path)),
                                     node.version),
                      version, value))
        ELSE IF rest = <<>>
        THEN made([w |-> w0, node |-> make_node_from(src, node.path, version)])
        ELSE IF b \notin DOMAIN node.kids
        THEN made(create_node_add_new_branch(w0, node, b,
                      make_node_from(src, Tail(rest), src.version), version, value))
        ELSE [w |-> written.w, node |-> [node EXCEPT !.kids[b] = entry], last |-> FALSE]

RECURSIVE TakeChildren(_, _)
\* make_node moved the children in memory out of the node at the key.
TakeChildren(node, key) ==
    LET rest == SubSeq(key, Len(node.path) + 1, Len(key))
    IN  IF rest = <<>>
        THEN [node EXCEPT !.kids = [b \in DOMAIN node.kids |->
                                        [node.kids[b] EXCEPT !.ptr = <<>>]]]
        ELSE [node EXCEPT !.kids[rest[1]].ptr = <<TakeChildren(@[1], Tail(rest))>>]

\* copy_trie_to_dest, into the caller's root, from it or from another version.
CopyTrie(from, src, dest) ==
    LET source == IF from = Len(versions) THEN root[1] ELSE versions[from].root
        found == find_blocking(source, src, w.disk)
        tree == IF from = Len(versions) THEN TakeChildren(found.tree, src) ELSE root[1]
        value == source.value
        r == CopyInto(w, tree, found.found[1], dest, Version, value)
    IN  /\ op = "idle" /\ w.onDisk /\ Version <= MaxVersion
        /\ src \in Store!KeysOf(Entries(from))
        /\ w' = WriteRoot(r.w, r.node)
        /\ NewVersion(r.node)
        /\ clean' = FALSE
        /\ UNCHANGED op

\* copy_trie_impl without a root to copy into: a root with the copy for its only child
CopyTrieToNew(from, src, dest) ==
    LET source == IF from = Len(versions) THEN root[1] ELSE versions[from].root
        copy == make_node_from(find_blocking(source, src, w.disk).found[1], Tail(dest), Version)
        r == CopiedChild(w, copy, TRUE)
        node == make_node(<<>>, source.value, Version, (dest[1] :> r.child))
    IN  /\ op = "idle" /\ w.onDisk /\ Version <= MaxVersion
        /\ src \in Store!KeysOf(Entries(from))
        /\ w' = WriteRoot(r.w, node)
        /\ NewVersion(node)
        /\ clean' = FALSE
        /\ UNCHANGED op

-----------------------------------------------------------------------------
\* find_blocking by a caller: what was read stays in the tree.
Find(key) ==
    /\ op = "idle" /\ root # <<>> /\ Version <= MaxVersion
    /\ root' = <<find_blocking(root[1], key, w.disk).tree>>
    /\ UNCHANGED <<w, versions, op, clean>>

\* The database is closed and opened: the root is read from disk.
Reopen ==
    /\ op = "idle" /\ root # <<>> /\ w.onDisk /\ Version <= MaxVersion
    /\ root' = <<Last(versions).root>>
    /\ UNCHANGED <<w, versions, op, clean>>

NodeAt(node, where) ==
    FoldLeft(LAMBDA n, b : n.kids[b].ptr[1], node, where)

RECURSIVE Attach_(_, _, _)
\* set_next at a place in the tree
Attach_(node, where, child) ==
    IF Len(where) = 1 THEN set_next(node, where[1], child)
    ELSE [node EXCEPT !.kids[where[1]].ptr = <<Attach_(@[1], Tail(where), child)>>]

RECURSIVE process(_, _, _)
\* load_all_impl_::process: read the children that are to be cached and are not.
process(w0, tree, where) ==
    LET node == NodeAt(tree, where)
        Child(a, b) ==
            LET a1 == [a EXCEPT !.sm = @ + Len(node.path) + 1]
                a2 == IF ~cache(a1.sm) THEN a1
                      ELSE IF node.kids[b].ptr = <<>>
                      THEN async_read(a1, Read("load", where \o <<b>>, b, node.kids[b].offset))
                      ELSE process(a1, tree, where \o <<b>>)
            IN  [a2 EXCEPT !.sm = a.sm]
    IN  FoldLeft(Child, w0, ChildrenRange(DOMAIN node.kids))

LoadAll ==
    /\ op = "idle" /\ root # <<>> /\ w.onDisk /\ Version <= MaxVersion
    /\ w' = process(w, root[1], <<>>)
    /\ op' = "load"
    /\ UNCHANGED <<root, versions, clean>>

CompleteLoad ==
    /\ op = "load"
    /\ \E i \in DOMAIN w.reads :
        LET r == w.reads[i]
            tree == Attach_(root[1], r.t, w.disk[r.offset])
            w0 == [Check(w, NodeAt(root[1], Front(r.t)).kids[r.branch].ptr = <<>>,
                           "loaded twice")
                   EXCEPT !.reads = RemoveAt(@, i), !.sm = r.sm]
        IN  /\ root' = <<tree>>
            /\ w' = [process(w0, tree, r.t) EXCEPT !.sm = w.sm]
    /\ UNCHANGED <<versions, op, clean>>

EndLoad ==
    /\ op = "load" /\ w.reads = <<>>
    /\ op' = "idle"
    /\ UNCHANGED <<w, root, versions, clean>>

TrieNext ==
    \/ \E batch \in Batches, compact \in Compactions, expire \in Expiries :
        BeginUpsert(batch, compact, expire)
    \/ PollInWrite
    \/ CompleteRead
    \/ EndUpsert
    \/ \E from \in DOMAIN versions, c \in Copies : CopyTrie(from, c[1], c[2]) \/ CopyTrieToNew(from, c[1], c[2])
    \/ \E key \in FindKeys : Find(key)
    \/ Reopen
    \/ LoadAll
    \/ CompleteLoad
    \/ EndLoad

TrieSpec == TrieInit /\ [][TrieNext]_trieVars

-----------------------------------------------------------------------------
(***************************************************************************)
(* Properties                                                              *)
(***************************************************************************)
\* The trie implements the store: a version is what its batch makes of the version
\* before it, whatever the order of the reads, and never changes afterwards.
RefinesStore == Store!StoreSpec

\* What the current root leads to, when no call is running.
Settled == op = "idle" /\ root # <<>>
Nodes == Below(root[1], w.disk)

\* No assertion of trie.cpp fails: no read of an offset that has not been flushed, the
\* state machine stands at the node that is made, every upsert ends with all of its
\* tnodes done, and nothing older than the expire version is left.
TrieNoFault == clean => w.fault = {}

\* The least offsets a node keeps of a child are those of the subtrie of the child:
\* compaction and the release of chunks rely on them.
MinOffsetsSound ==
    Settled /\ w.onDisk /\ clean =>
        \A x \in Nodes : \A l \in Lists :
            x.entry.min[l] = Min({Infinite} \cup
                {y.entry.offset.pos : y \in {z \in {x} \cup Below(x.node, w.disk) :
                                                 z.entry.offset.list = l}})

\* After an upsert nothing of the trie is behind the compaction offsets: chunks there
\* can be given back.
CompactionComplete ==
    Settled /\ w.onDisk /\ clean =>
        \A x \in Nodes : x.entry.offset.pos >= w.compact[x.entry.offset.list]

\* A node in memory is the one on disk at the offset its parent has.
CacheAgrees ==
    Settled /\ w.onDisk => \A x \in Nodes : Serialized(x.node) = w.disk[x.entry.offset]

\* The data (the hash) a node keeps of a child is that of the child's contents.
DataSound ==
    Settled /\ clean /\ ~w.autoExpire => \A x \in Nodes : x.entry.data = Contents(x.node, w.disk)

\* The trie is in its canonical form: a node without a value has two children or more,
\* so equal contents have equal hashes.
Canonical == Settled => \A x \in Nodes : x.node.value # <<>> \/ Cardinality(DOMAIN x.node.kids) > 1

\* The least version a node keeps of a child is that of its subtrie.
MinVersionSound ==
    Settled => \A x \in Nodes :
        x.entry.minVersion = Min({y.node.version : y \in {x} \cup Below(x.node, w.disk)})

\* A node is at least as new as the nodes below it.
VersionsOrdered == Settled /\ clean => \A x \in Nodes : x.parent.version >= x.node.version

\* find_blocking finds the keys of the version and no others.
FindAgrees ==
    Settled => \A k \in FindKeys :
        LET r == find_blocking(root[1], k, w.disk)
            values == {e[2] : e \in {x \in Entries(Len(versions)) : x[1] = k}}
        IN  values = IF r.result = "success" THEN {r.found[1].value[i] : i \in DOMAIN r.found[1].value}
                     ELSE {}

\* What compaction relies on and what it achieves: the least offsets kept of every subtrie
\* are right, and no node is left behind the compaction offsets.
OffsetsSound == MinOffsetsSound /\ CompactionComplete

\* Whatever a node keeps of a child (its hash, its least version, its place on disk) is true
\* of the subtrie as it is now, and the subtrie has the one form its contents have.
SubtriesDescribed == DataSound /\ MinVersionSound /\ VersionsOrdered /\ CacheAgrees /\ Canonical
=============================================================================
