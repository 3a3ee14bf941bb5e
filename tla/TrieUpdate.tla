----------------------------- MODULE TrieUpdate -----------------------------
(***************************************************************************)
(* trie.cpp: upsert_ and everything below it, as operators on a world w.   *)
(* Nodes of the old trie that are not in memory are read asynchronously; a *)
(* tree of tnodes keeps what is unfinished, and a tnode becomes a node     *)
(* when its last child is done.  A tnode is named by its place: the        *)
(* sentinel is <<>>, the tnode of its child at branch b is t \o <<b>>.     *)
(*                                                                         *)
(*   stack   the calls still to be made by the thread, the next one first  *)
(*   tn      the tnodes: type update, expire or compact                    *)
(*   reads   reads in flight, each with the call its completion makes      *)
(*   disk    the nodes written, by offset                                  *)
(*   next    where the writer of each list stands                          *)
(*   landed  what was flushed: a read behind it gets what the device held  *)
(*   sm      the depth the current StateMachine stands at                  *)
(*   within  a completion is running                                       *)
(*   polls   completions that may still run inside of writes (a bound)     *)
(*   polled  the write on top of the stack has polled                      *)
(*   fault   the assertions that failed                                    *)
(* and the parameters of the upsert: onDisk, canFast (can_write_to_fast),  *)
(* autoExpire, expire (curr_upsert_auto_expire_version) and compact (the   *)
(* compaction offset in each list); sm.compact() is true on disk.          *)
(***************************************************************************)
EXTENDS TrieNode, TLC

CONSTANT CacheDepth      \* StateMachine::cache(): nodes above this depth stay in memory

ASSUME CacheDepthAssumption == CacheDepth \in Nat

cache(depth) == depth < CacheDepth

Check(w, holds, what) == IF holds THEN w ELSE [w EXCEPT !.fault = @ \cup {what}]

Push(w, calls) == [w EXCEPT !.stack = calls \o @]

Concat(seqs) == FoldLeft(LAMBDA a, s : a \o s, <<>>, seqs)

\* sm.down and sm.up
Down(n) == [f |-> "down", n |-> n]
Up(n) == [f |-> "up", n |-> n]
Call(f, t) == [f |-> f, t |-> t]

\* A call for each branch in turn.
ForEach(branches, call(_)) ==
    LET order == ChildrenRange(branches) IN Concat([i \in DOMAIN order |-> call(order[i])])

-----------------------------------------------------------------------------
\* tnodes

make_tnode(mask, path, version, leaf) ==
    [type |-> "update", npending |-> Cardinality(mask), mask |-> mask, path |-> path,
     kids |-> [b \in mask |-> NoChild], version |-> version, leaf |-> leaf,
     node |-> <<>>, cacheNode |-> FALSE, cacheMask |-> {}, toFast |-> FALSE]

\* An expire or compact tnode owns a node of the old trie; the parent's type decides
\* whether what comes of it stays in memory.
OwningTNode(type, node, parent) ==
    LET mask == IF node = <<>> THEN {} ELSE DOMAIN node[1].kids
    IN  [make_tnode(mask, <<>>, 0, <<>>) EXCEPT !.type = type, !.node = node, !.kids = <<>>,
             !.cacheNode = (parent.type = "update" \/ node # <<>>)]

update_after_async_read(tnode, node) ==
    [tnode EXCEPT !.npending = Cardinality(DOMAIN node.kids), !.mask = DOMAIN node.kids,
                  !.node = <<node>>]

AddTNode(w, t, tnode) == [w EXCEPT !.tn = (t :> tnode) @@ @]
DropTNode(w, t) == [w EXCEPT !.tn = Restrict(@, DOMAIN @ \ {t})]

OneDone(w, t) == [w EXCEPT !.tn[t].npending = @ - 1]

\* A branch is gone: of an update tnode also its entry.
CutBranch(w, p, b) ==
    IF w.tn[p].type = "update"
    THEN Check([w EXCEPT !.tn[p].mask = @ \ {b}, !.tn[p].kids[b] = erase(@), !.tn[p].npending = @ - 1],
               EraseAssert(w.tn[p].kids[b]), "erased child has a node")
    ELSE [w EXCEPT !.tn[p].mask = @ \ {b}, !.tn[p].npending = @ - 1]

RECURSIVE Depth(_, _)
\* The nibbles from the root to the place where the node of a tnode is made.
Depth(w, t) == IF t = <<>> THEN 0
               ELSE Len(w.tn[t].path) + (IF Len(t) = 1 THEN 0 ELSE 1 + Depth(w, Front(t)))

\* How far the state machine goes up when a tnode is done.
level_up(w, t) == Len(w.tn[t].path) + (IF Len(t) = 1 THEN 0 ELSE 1)

Read(kind, t, b, offset) == [kind |-> kind, t |-> t, branch |-> b, offset |-> offset,
                             updates |-> {}, prefix |-> 0, sm |-> 0]

\* async_read, with a clone of the state machine
async_read(w, read) ==
    Check([w EXCEPT !.reads = Append(@, [read EXCEPT !.sm = w.sm])],
          read.offset.list \in Lists /\ read.offset.pos < w.landed[read.offset.list],
          "read of a node that has not landed")

behind(min, w) == \E l \in Lists : min[l] < w.compact[l]

\* Mutant: the writer of the slow list does not advance.
WriteInPlace(w, node, write_to_fast) ==
    LET list == IF write_to_fast /\ w.canFast THEN "fast" ELSE "slow"
        off == [list |-> list, pos |-> w.next[list]]
    IN  [w |-> [w EXCEPT !.disk = (off :> Serialized(node)) @@ @,
                         !.next[list] = IF list = "fast" THEN @ + 1 ELSE @],
         off |-> off]

\* async_write_node_set_spare, after its poll: the world, and the offset written to.
async_write_node_set_spare(w, node, write_to_fast) ==
    LET list == IF write_to_fast /\ w.canFast THEN "fast" ELSE "slow"
        off == [list |-> list, pos |-> w.next[list]]
    IN  [w |-> [w EXCEPT !.disk = (off :> Serialized(node)) @@ @, !.next[list] = @ + 1],
         off |-> off]

-----------------------------------------------------------------------------
(***************************************************************************)
(* Making the node of an update tnode.                                     *)
(***************************************************************************)
fillin_entry(w, c) ==
    IF w.tn[c.t].npending > 0 THEN w ELSE Push(w, <<[f |-> "create", t |-> c.t, might |-> TRUE]>>)

\* Mutant: the parent keeps the version it had.
FillInOldVersion(w, t, node) ==
    LET p == Front(t)
        b == Last(t)
    IN  DropTNode(IF node = <<>> THEN CutBranch(w, p, b)
                  ELSE [w EXCEPT !.tn[p].kids[b] = finalize(@, node[1], cache(w.sm)),
                                 !.tn[p].npending = @ - 1], t)

\* The parent's entry gets the node, or loses the branch if there is none.
FillIn(w, t, node) ==
    LET p == Front(t)
        b == Last(t)
        entry == finalize(w.tn[p].kids[b], node[1], cache(w.sm))
    IN  DropTNode(IF node = <<>> THEN CutBranch(w, p, b)
                  ELSE Check([w EXCEPT !.tn[p].version = Max({@, node[1].version}),
                                       !.tn[p].kids[b] = entry, !.tn[p].npending = @ - 1],
                             w.autoExpire => entry.minVersion >= w.expire,
                             "subtrie older than the expire version"), t)

\* create_node_compute_data_possibly_async: a single child that is not in memory is
\* read first.  create_node_from_children_if_any: nothing, a leaf, the single child
\* with a longer path, or a node, whose new children are written before it is made.
create_node_compute_data_possibly_async(w0, c) ==
    LET t == c.t
        w == Check(w0, w0.sm = Depth(w0, t), "state machine is not at the node")
        tnode == w.tn[t]
        n == Cardinality(tnode.mask)
        only == CHOOSE b \in tnode.mask : TRUE
        child == tnode.kids[only]
        new == {b \in DOMAIN tnode.kids : /\ tnode.kids[b].valid
                                          /\ tnode.kids[b].offset = INVALID_OFFSET}
    IN  IF c.might /\ n = 1 /\ child.ptr = <<>>
        THEN async_read(w, Read("single", t, only, child.offset))
        ELSE IF n = 0
        THEN FillIn(w, t, IF tnode.leaf = <<>> THEN <<>>
                          ELSE <<make_node(tnode.path, tnode.leaf, tnode.version, NoChildren)>>)
        ELSE IF n = 1 /\ tnode.leaf = <<>>
        THEN FillIn(w, t, <<make_node_from(child.ptr[1],
                                           tnode.path \o <<only>> \o child.ptr[1].path,
                                           tnode.version)>>)
        ELSE Push(w, ForEach(IF w.onDisk THEN new ELSE {},
                             LAMBDA b : <<[f |-> "write_child", t |-> t, b |-> b]>>)
                     \o <<Call("make", t)>>)

\* Mutant: the least offset leaves out the child's own.
WriteChildBelow(w, c) ==
    LET node == w.tn[c.t].kids[c.b].ptr[1]
        written == async_write_node_set_spare(w, node, TRUE)
    IN  [written.w EXCEPT !.tn[c.t].kids[c.b].offset = written.off,
                          !.tn[c.t].kids[c.b].min = calc_min_offsets(node, INVALID_OFFSET)]

write_child(w, c) ==
    LET node == w.tn[c.t].kids[c.b].ptr[1]
        written == async_write_node_set_spare(w, node, TRUE)
        min == calc_min_offsets(node, written.off)
    IN  Check([written.w EXCEPT !.tn[c.t].kids[c.b].offset = written.off,
                                !.tn[c.t].kids[c.b].min = min],
              ~behind(min, w), "min offset behind the compaction offset")

\* Children that are not to be cached are freed, except a single one.
create_node_with_children(w, c) ==
    LET tnode == w.tn[c.t]
        Kept(child) == ~w.onDisk \/ child.cache \/ Cardinality(tnode.mask) = 1
        kids == [b \in tnode.mask |-> IF Kept(tnode.kids[b]) THEN tnode.kids[b]
                                      ELSE [tnode.kids[b] EXCEPT !.ptr = <<>>]]
    IN  FillIn(Check(w, tnode.mask = {b \in DOMAIN tnode.kids : tnode.kids[b].valid},
                     "mask and children differ"),
               c.t, <<make_node(tnode.path, tnode.leaf, tnode.version, kids)>>)

\* Mutant: the state machine is not taken up with the tnode.
UpwardUpdateStays(w, c) ==
    IF c.t = <<>> THEN w
    ELSE IF w.tn[c.t].npending > 0 THEN w
    ELSE Push(w, <<[f |-> "create", t |-> c.t, might |-> TRUE],
                   Call("upward_update", Front(c.t))>>)

upward_update(w, c) ==
    IF c.t = <<>> THEN w
    ELSE IF w.tn[c.t].npending > 0 THEN w
    ELSE Push(w, <<[f |-> "create", t |-> c.t, might |-> TRUE], Up(level_up(w, c.t)),
                   Call("upward_update", Front(c.t))>>)

-----------------------------------------------------------------------------
(***************************************************************************)
(* A new trie from a list of updates: the local children of                *)
(* create_new_trie_from_requests_ are a tnode without anything pending but *)
(* the calls that fill them.                                               *)
(***************************************************************************)
create_new_trie_from_requests_(w, t, b, requests, path, prefix, leaf, version) ==
    LET new == t \o <<b>>
        NewChild(i) == <<Down(1), [f |-> "create_new_trie", t |-> new, b |-> i,
                                   updates |-> requests.sub[i], prefix |-> prefix + 1], Up(1)>>
    IN  Push(AddTNode(w, new, make_tnode(requests.mask, path, version, leaf)),
             ForEach(requests.mask, NewChild) \o <<Call("fillin_entry", new)>>)

RECURSIVE Diverge(_, _)
\* The prefix at which the keys of several updates part.
Diverge(updates, prefix) ==
    LET requests == split_into_sublists(updates, prefix)
    IN  IF Cardinality(requests.mask) > 1 \/ requests.leaf # {} THEN prefix
        ELSE Diverge(updates, prefix + 1)

create_new_trie_(w0, c) ==
    LET w == [w0 EXCEPT !.tn[c.t].kids[c.b].valid = TRUE]
        u == CHOOSE u \in c.updates : TRUE
        single == Cardinality(c.updates) = 1
        at == IF single THEN Len(u.key) ELSE Diverge(c.updates, c.prefix)
        path == SubSeq(u.key, c.prefix + 1, at)
        w1 == [w EXCEPT !.sm = @ + at - c.prefix, !.stack = <<Up(at - c.prefix)>> \o @]
    IN  IF single
        THEN create_new_trie_from_requests_(w1, c.t, c.b, split_into_sublists(u.next, 0), path, 0,
                                            u.value, u.version)
        ELSE create_new_trie_from_requests_(w1, c.t, c.b, split_into_sublists(c.updates, at), path,
                                            at, <<>>, 0)

-----------------------------------------------------------------------------
(***************************************************************************)
(* Updating the old trie.                                                  *)
(***************************************************************************)
Upsert_(t, b, old, offset, updates, prefix, old_prefix, old_start) ==
    [f |-> "upsert_", t |-> t, b |-> b, old |-> old, offset |-> offset, updates |-> updates,
     prefix |-> prefix, old_prefix |-> old_prefix, old_start |-> old_start]

\* An old child without updates: expired, compacted or kept as it is.
keep_child(w0, c) ==
    LET w == [w0 EXCEPT !.tn[c.t].kids[c.b] = c.child]
        own(type) == Push(AddTNode([w EXCEPT !.tn[c.t].kids[c.b].ptr = <<>>], c.t \o <<c.b>>,
                                   OwningTNode(type, c.child.ptr, w.tn[c.t])),
                          <<[f |-> type, t |-> c.t \o <<c.b>>, offset |-> c.child.offset]>>)
    IN  IF w.onDisk /\ w.autoExpire /\ c.child.minVersion < w.expire THEN own("expire")
        ELSE IF w.onDisk /\ behind(c.min, w) THEN own("compact")
        ELSE OneDone(w, c.t)

dispatch_updates_impl_(w, parent, branch, old, requests, prefix, path, leaf, version) ==
    LET t == parent \o <<branch>>
        mask == DOMAIN old.kids \cup requests.mask
        ForBranch(b) ==
            IF b \in requests.mask /\ b \in DOMAIN old.kids
            THEN <<Down(1), Upsert_(t, b, old.kids[b].ptr, old.kids[b].offset, requests.sub[b],
                                    prefix + 1, 0, 0), Up(1)>>
            ELSE IF b \in requests.mask
            THEN <<Down(1), [f |-> "create_new_trie", t |-> t, b |-> b,
                             updates |-> requests.sub[b], prefix |-> prefix + 1], Up(1)>>
            ELSE LET child == copy_old_child(old, b)
                 IN  <<[f |-> "keep_child", t |-> t, b |-> b, child |-> child, min |-> child.min]>>
    IN  Push(AddTNode(w, t, make_tnode(mask, path, version, leaf)),
             ForEach(mask, ForBranch) \o <<Call("fillin_entry", t)>>)

\* Split old at old_prefix, where its path and the updates part.
mismatch_handler_(w, parent, branch, old, requests, path, old_prefix, prefix) ==
    LET t == parent \o <<branch>>
        nibble == old.path[old_prefix + 1]
        suffix == SubSeq(old.path, old_prefix + 2, Len(old.path))
        mask == {nibble} \cup requests.mask
        ForBranch(b) ==
            IF b \in requests.mask /\ b = nibble
            THEN <<Down(1), Upsert_(t, b, <<old>>, INVALID_OFFSET, requests.sub[b], prefix + 1,
                                    old_prefix + 1, old_prefix + 1), Up(1)>>
            ELSE IF b \in requests.mask
            THEN <<Down(1), [f |-> "create_new_trie", t |-> t, b |-> b,
                             updates |-> requests.sub[b], prefix |-> prefix + 1], Up(1)>>
            ELSE LET node == make_node_from(old, suffix, old.version)
                     child == finalize([NoChild EXCEPT !.valid = TRUE], node,
                                       cache(w.sm + 1 + Len(suffix)))
                 IN  <<[f |-> "keep_child", t |-> t, b |-> b, child |-> child,
                        min |-> calc_min_offsets(node, INVALID_OFFSET)]>>
    IN  Push(AddTNode(w, t, make_tnode(mask, path, 0, <<>>)),
             ForEach(mask, ForBranch) \o <<Call("fillin_entry", t)>>)

\* Mutant: a new incarnation keeps the table of the old one.
UpdateKeepsSubtrie(w, t, b, old, path, u) ==
    IF is_deletion(u) THEN CutBranch(w, t, b)
    ELSE dispatch_updates_impl_(w, t, b, old, split_into_sublists(u.next, 0), 0, path,
                                IF u.value # <<>> THEN u.value ELSE old.value, u.version)

update_value_and_subtrie_(w, t, b, old, path, u) ==
    LET requests == split_into_sublists(u.next, 0)
    IN  IF is_deletion(u) THEN CutBranch(w, t, b)
        ELSE IF u.incarnation
        THEN create_new_trie_from_requests_(w, t, b, requests, path, 0, u.value, u.version)
        ELSE dispatch_updates_impl_(Check(w, u.version >= old.version, "version goes back"),
                                    t, b, old, requests, 0, path,
                                    IF u.value # <<>> THEN u.value ELSE old.value, u.version)

\* One turn of upsert_'s loop along the path of old, which it entered at old_start.
upsert_(w0, c) ==
    LET w == [w0 EXCEPT !.tn[c.t].kids[c.b].valid = TRUE]
        old == c.old[1]
        path == SubSeq(old.path, c.old_start + 1, c.old_prefix)
        u == CHOOSE u \in c.updates : TRUE
        requests == split_into_sublists(c.updates, c.prefix)
        atEnd == c.old_prefix = Len(old.path)
    IN  IF c.old = <<>>
        THEN async_read(w, [Read("upsert", c.t, c.b, c.offset)
                            EXCEPT !.updates = c.updates, !.prefix = c.prefix])
        ELSE IF Cardinality(c.updates) = 1 /\ c.prefix = Len(u.key)
        THEN update_value_and_subtrie_(Check(w, atEnd /\ old.value # <<>>, "no value at the key"),
                                       c.t, c.b, old, path, u)
        ELSE IF atEnd
        THEN dispatch_updates_impl_(Check(w, requests.leaf = {}, "variable length key"),
                                    c.t, c.b, old, requests, c.prefix, path, old.value, old.version)
        ELSE IF requests.mask = {old.path[c.old_prefix + 1]}
        THEN Push(w, <<Down(1), [c EXCEPT !.prefix = @ + 1, !.old_prefix = @ + 1], Up(1)>>)
        ELSE mismatch_handler_(w, c.t, c.b, old, requests, path, c.old_prefix, c.prefix)

-----------------------------------------------------------------------------
(***************************************************************************)
(* Expiry: subtries whose least version is too old are cut.                *)
(***************************************************************************)
\* The child of an owned node gets a tnode, which takes the node if it is in memory.
OwnChild(w, c, type) ==
    LET entry == w.tn[c.t].node[1].kids[c.b]
    IN  Push(AddTNode([w EXCEPT !.tn[c.t].node[1] = move_next(@, c.b)], c.t \o <<c.b>>,
                      OwningTNode(type, entry.ptr, w.tn[c.t])),
             <<[f |-> type, t |-> c.t \o <<c.b>>, offset |-> entry.offset]>>)

expire_child(w, c) ==
    LET entry == w.tn[c.t].node[1].kids[c.b]
    IN  IF entry.minVersion < w.expire THEN OwnChild(w, c, "expire")
        ELSE IF behind(entry.min, w) THEN OwnChild(w, c, "compact")
        ELSE OneDone(w, c.t)

expire_(w, c) ==
    LET node == w.tn[c.t].node[1]
    IN  IF w.tn[c.t].node = <<>> THEN async_read(w, Read("expire", c.t, 0, c.offset))
        ELSE IF node.version < w.expire THEN DropTNode(CutBranch(w, Front(c.t), Last(c.t)), c.t)
        ELSE Push(Check(w, DOMAIN node.kids # {}, "an unexpired leaf to expire"),
                  ForEach(DOMAIN node.kids,
                          LAMBDA b : <<[f |-> "expire_child", t |-> c.t, b |-> b]>>)
                  \o <<Call("try_fillin_expired", c.t)>>)

WriteExpired(w, t, node) == Push(w, <<[f |-> "fillin_expired", t |-> t, node |-> node]>>)

\* Mutant: a node left with one child is not joined with it.
ExpireLeavesOne(w, c) ==
    LET tnode == w.tn[c.t]
        orig == tnode.node[1]
        kids == [b \in tnode.mask |->
                    IF b \in tnode.cacheMask THEN orig.kids[b]
                    ELSE [orig.kids[b] EXCEPT !.ptr = <<>>]]
    IN  IF tnode.npending > 0 THEN w
        ELSE IF tnode.mask = {} THEN DropTNode(CutBranch(w, Front(c.t), Last(c.t)), c.t)
        ELSE WriteExpired(w, c.t, make_node(orig.path, orig.value, orig.version, kids))

\* try_fillin_parent_after_expiration and create_node_with_expired_branches
try_fillin_parent_after_expiration(w, c) ==
    LET tnode == w.tn[c.t]
        orig == tnode.node[1]
        only == CHOOSE b \in tnode.mask : TRUE
        child == orig.kids[only].ptr
        kids == [b \in tnode.mask |->
                    IF b \in tnode.cacheMask THEN orig.kids[b]
                    ELSE [orig.kids[b] EXCEPT !.ptr = <<>>]]
    IN  IF tnode.npending > 0 THEN w
        ELSE IF tnode.mask = {} THEN DropTNode(CutBranch(w, Front(c.t), Last(c.t)), c.t)
        ELSE IF Cardinality(tnode.mask) = 1 /\ orig.value = <<>>
        THEN IF child = <<>>
             THEN async_read(w, Read("expire_single", c.t, only, orig.kids[only].offset))
             ELSE WriteExpired(w, c.t, make_node_from(child[1],
                      orig.path \o <<only>> \o child[1].path, child[1].version))
        ELSE WriteExpired(w, c.t, make_node(orig.path, orig.value, orig.version, kids))

fillin_parent_after_expiration(w, c) ==
    LET p == Front(c.t)
        b == Last(c.t)
        written == async_write_node_set_spare(w, c.node, TRUE)
        min == calc_min_offsets(c.node, written.off)
        minv == calc_min_version(c.node)
        w1 == Check(DropTNode(written.w, c.t), minv >= w.expire,
                    "subtrie older than the expire version")
        w2 == IF w.tn[p].type = "update"
              THEN [w1 EXCEPT !.tn[p].kids[b].offset = written.off,
                              !.tn[p].kids[b].ptr = <<c.node>>,
                              !.tn[p].kids[b].min = min, !.tn[p].kids[b].minVersion = minv]
              ELSE [w1 EXCEPT !.tn[p].cacheMask = IF w.tn[c.t].cacheNode THEN @ \cup {b} ELSE @,
                              !.tn[p].node[1].kids[b].ptr = <<c.node>>,
                              !.tn[p].node[1].kids[b].offset = written.off,
                              !.tn[p].node[1].kids[b].min = min,
                              !.tn[p].node[1].kids[b].minVersion = minv]
    IN  OneDone(w2, p)

-----------------------------------------------------------------------------
(***************************************************************************)
(* Compaction: nodes behind the compaction offsets are written again.      *)
(***************************************************************************)
\* Mutant: a child in memory is not compacted.
CompactOnDiskOnly(w, c) ==
    IF behind(w.tn[c.t].node[1].kids[c.b].min, w) /\ w.tn[c.t].node[1].kids[c.b].ptr = <<>>
    THEN OwnChild(w, c, "compact") ELSE OneDone(w, c.t)

compact_child(w, c) ==
    IF behind(w.tn[c.t].node[1].kids[c.b].min, w) THEN OwnChild(w, c, "compact")
    ELSE OneDone(w, c.t)

compact_(w, c) ==
    LET node == w.tn[c.t].node[1]
        rewrite_to_fast == c.offset = INVALID_OFFSET \/ c.offset.pos >= w.compact[c.offset.list]
    IN  IF w.tn[c.t].node = <<>> THEN async_read(w, Read("compact", c.t, 0, c.offset))
        ELSE Push([w EXCEPT !.tn[c.t].toFast = rewrite_to_fast],
                  ForEach(DOMAIN node.kids,
                          LAMBDA b : <<[f |-> "compact_child", t |-> c.t, b |-> b]>>)
                  \o <<Call("try_fillin_rewritten", c.t)>>)

try_fillin_rewritten(w, c) ==
    IF w.tn[c.t].npending > 0 THEN w ELSE Push(w, <<Call("fillin_rewritten", c.t)>>)

\* try_fillin_parent_with_rewritten_node, when nothing is pending below
fillin_parent_with_rewritten_node(w, c) ==
    LET tnode == w.tn[c.t]
        p == Front(c.t)
        b == Last(c.t)
        minBelow == calc_min_offsets(tnode.node[1], INVALID_OFFSET)
        toFast == tnode.toFast \/ minBelow["fast"] # Infinite
        written == async_write_node_set_spare(w, tnode.node[1], toFast)
        min == [minBelow EXCEPT ![IF toFast THEN "fast" ELSE "slow"] = Min({@, written.off.pos})]
        w1 == Check(DropTNode(written.w, c.t), ~behind(min, w),
                    "min offset behind the compaction offset")
        ptype == w.tn[p].type
        w2 == IF ptype = "update"
              THEN [w1 EXCEPT !.tn[p].kids[b].ptr = tnode.node, !.tn[p].kids[b].min = min,
                              !.tn[p].kids[b].offset = written.off]
              ELSE [w1 EXCEPT !.tn[p].node[1].kids[b].offset = written.off,
                              !.tn[p].node[1].kids[b].min = min,
                              !.tn[p].node[1].kids[b].ptr =
                                  IF tnode.cacheNode \/ ptype = "expire" THEN tnode.node ELSE @,
                              !.tn[p].cacheMask =
                                  IF tnode.cacheNode /\ ptype = "expire" THEN @ \cup {b} ELSE @]
    IN  OneDone(w2, p)

\* The loops at the end of the continuations: finish every tnode with nothing pending.
finish_upward(w, c) ==
    LET tnode == w.tn[c.t]
    IN  IF tnode.npending > 0 THEN w
        ELSE IF tnode.type = "update" THEN Push(w, <<Call("upward_update", c.t)>>)
        ELSE Push(w, <<Call(IF tnode.type = "compact" THEN "try_fillin_rewritten"
                            ELSE "try_fillin_expired", c.t),
                       Call("finish_upward", Front(c.t))>>)

-----------------------------------------------------------------------------
(***************************************************************************)
(* Completions, and the thread.                                            *)
(***************************************************************************)
\* What the receiver of a read does with the node: the world, and the calls.
Continuation(w, r, node) ==
    LET t == r.t
        read == [w EXCEPT !.tn[t] = update_after_async_read(@, node)]
    IN  CASE r.kind = "upsert" ->
                 Push(w, <<Upsert_(t, r.branch, <<node>>, INVALID_OFFSET, r.updates, r.prefix, 0, 0),
                           Up(1), Call("upward_update", t)>>)
          [] r.kind = "single" ->
                 Push([w EXCEPT !.tn[t].kids[r.branch].ptr = <<node>>],
                      <<[f |-> "create", t |-> t, might |-> FALSE], Up(level_up(w, t)),
                        Call("upward_update", Front(t))>>)
          [] r.kind \in {"expire", "compact"} ->
                 Push(read, <<[f |-> r.kind, t |-> t,
                               offset |-> IF r.kind = "compact" THEN r.offset ELSE INVALID_OFFSET],
                              Call("finish_upward", Front(t))>>)
          [] r.kind = "expire_single" ->
                 Push(w, <<[f |-> "fillin_expired", t |-> t,
                            node |-> make_node_from(node,
                                w.tn[t].node[1].path \o <<r.branch>> \o node.path, node.version)],
                           Call("finish_upward", Front(t))>>)

\* node_receiver_t::set_value of the i-th read, with the state machine cloned for it;
\* "resume" gives the thread back to what it was doing.
StartCompletion(w, i) ==
    LET r == w.reads[i]
        w1 == Push(w, <<[f |-> "resume", sm |-> w.sm, within |-> w.within]>>)
    IN  Continuation([w1 EXCEPT !.reads = RemoveAt(@, i), !.sm = r.sm, !.within = TRUE],
                     r, w.disk[r.offset])

\* The next call.
Step(w0) ==
    LET c == Head(w0.stack)
        w == [w0 EXCEPT !.stack = Tail(@), !.polled = FALSE]
    IN  CASE c.f = "down" -> [w EXCEPT !.sm = @ + c.n]
          [] c.f = "up" -> [w EXCEPT !.sm = @ - c.n]
          [] c.f = "resume" -> [w EXCEPT !.sm = c.sm, !.within = c.within]
          [] c.f = "upsert_" -> upsert_(w, c)
          [] c.f = "create_new_trie" -> create_new_trie_(w, c)
          [] c.f = "keep_child" -> keep_child(w, c)
          [] c.f = "fillin_entry" -> fillin_entry(w, c)
          [] c.f = "create" -> create_node_compute_data_possibly_async(w, c)
          [] c.f = "write_child" -> write_child(w, c)
          [] c.f = "make" -> create_node_with_children(w, c)
          [] c.f = "upward_update" -> upward_update(w, c)
          [] c.f = "finish_upward" -> finish_upward(w, c)
          [] c.f = "expire" -> expire_(w, c)
          [] c.f = "expire_child" -> expire_child(w, c)
          [] c.f = "try_fillin_expired" -> try_fillin_parent_after_expiration(w, c)
          [] c.f = "fillin_expired" -> fillin_parent_after_expiration(w, c)
          [] c.f = "compact" -> compact_(w, c)
          [] c.f = "compact_child" -> compact_child(w, c)
          [] c.f = "try_fillin_rewritten" -> try_fillin_rewritten(w, c)
          [] c.f = "fillin_rewritten" -> fillin_parent_with_rewritten_node(w, c)

\* async_write_node begins with poll_nonblocking_if_not_within_completions(1).
AtPoll(w) ==
    /\ Head(w.stack).f \in {"write_child", "fillin_expired", "fillin_rewritten"}
    /\ ~w.within /\ ~w.polled /\ w.polls > 0 /\ w.reads # <<>>

RECURSIVE Run(_)
\* The thread runs until it polls or has nothing left to do.
Run(w) == IF w.stack = <<>> THEN w ELSE IF AtPoll(w) THEN w ELSE Run(Step(w))
=============================================================================
