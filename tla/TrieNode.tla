------------------------------ MODULE TrieNode ------------------------------
(***************************************************************************)
(* Nodes of the trie, the children a node under construction collects      *)
(* (ChildData), lists of updates, and what is computed from them.          *)
(*                                                                         *)
(* Data: a nibble is a branch number, a key or path a sequence of them, a  *)
(* value the version that wrote it.  An offset is a position in the fast   *)
(* or in the slow list: the virtual offset, of which the physical one is   *)
(* an encoding.  A node's data (the Merkle hash that a Compute would give) *)
(* is the set of key suffixes and values below it.                         *)
(***************************************************************************)
EXTENDS Integers, Sequences, FiniteSets, SequencesExt, FiniteSetsExt, Functions

Lists == {"fast", "slow"}

INVALID_OFFSET == [list |-> "none", pos |-> 0]

\* INVALID_COMPACT_VIRTUAL_OFFSET, and the largest version: both are maxima.
Infinite == 1000000

NoMinOffsets == [l \in Lists |-> Infinite]

NoChildren == [b \in {} |-> 0]

-----------------------------------------------------------------------------
(***************************************************************************)
(* ChildData: ptr is <<>> or <<node>>.  A node keeps the same fields for   *)
(* each of its children.                                                   *)
(***************************************************************************)
NoChild == [valid |-> FALSE, ptr |-> <<>>, offset |-> INVALID_OFFSET, data |-> {},
            min |-> NoMinOffsets, minVersion |-> Infinite, cache |-> TRUE]

\* calc_min_offsets: the least offset, in each list, of a node and what is below it.
calc_min_offsets(node, offset) ==
    [l \in Lists |-> Min({Infinite} \cup {node.kids[b].min[l] : b \in DOMAIN node.kids}
                         \cup (IF offset.list = l THEN {offset.pos} ELSE {}))]

\* Mutant: the least version is the node's own.
OwnVersionOnly(node) == node.version

calc_min_version(node) ==
    Min({node.version} \cup {node.kids[b].minVersion : b \in DOMAIN node.kids})

\* Compute: what a node contributes to the data its parent keeps of it.
Compute(node) ==
    {<<node.path \o e[1], e[2]>> :
        e \in {<< <<>>, node.value[i]>> : i \in DOMAIN node.value}
              \cup UNION {{<< <<b>> \o d[1], d[2]>> : d \in node.kids[b].data} :
                          b \in DOMAIN node.kids}}

\* Mutant: the data of the child is not computed anew.
FinalizeStale(child, node, cache) ==
    [child EXCEPT !.ptr = <<node>>, !.cache = cache, !.minVersion = calc_min_version(node)]

finalize(child, node, cache) ==
    [child EXCEPT !.ptr = <<node>>, !.data = Compute(node), !.cache = cache,
                  !.minVersion = calc_min_version(node)]

copy_old_child(old, b) == [old.kids[b] EXCEPT !.valid = TRUE, !.cache = old.kids[b].ptr # <<>>]

\* The assertion of erase: nothing was read or made for the child.
EraseAssert(child) == child.ptr = <<>>

erase(child) == [child EXCEPT !.valid = FALSE]

\* A node made of its children; a child belongs to the node once it is made.
make_node(path, value, version, kids) ==
    [path |-> path, value |-> value, version |-> version, kids |-> kids]

\* make_node from another node, whose children it takes over.
make_node_from(node, path, version) == [node EXCEPT !.path = path, !.version = version]

\* What serialize_node_to_buffer writes and deserialize_node_from_buffer reads: the
\* node without the pointers to its children in memory.
Serialized(node) ==
    [node EXCEPT !.kids = [b \in DOMAIN node.kids |->
        [node.kids[b] EXCEPT !.ptr = <<>>, !.cache = TRUE, !.valid = TRUE]]]

move_next(node, b) == [node EXCEPT !.kids[b].ptr = <<>>]

set_next(node, b, child) == [node EXCEPT !.kids[b].ptr = <<child>>]

\* The children in the order of NodeChildrenRange.
ChildrenRange(branches) == SetToSortSeq(branches, <)

-----------------------------------------------------------------------------
(***************************************************************************)
(* Updates: next holds the updates of the table nested under the key.      *)
(***************************************************************************)
is_deletion(u) == u.value = <<>> /\ u.next = {}

\* Requests: the update whose key ends at the prefix, and the others by their nibble.
split_into_sublists(updates, prefix) ==
    LET longer == {u \in updates : Len(u.key) > prefix}
        mask == {u.key[prefix + 1] : u \in longer}
    IN  [mask |-> mask,
         leaf |-> updates \ longer,
         sub |-> [b \in mask |-> {u \in longer : u.key[prefix + 1] = b}]]

-----------------------------------------------------------------------------
(***************************************************************************)
(* Reading: a child is in memory or on disk.                               *)
(***************************************************************************)
ChildNode(node, b, disk) ==
    IF node.kids[b].ptr # <<>> THEN node.kids[b].ptr[1] ELSE disk[node.kids[b].offset]

RECURSIVE FindPastPath(_, _, _)
\* Mutant: a path that parts from the key in the node is taken for the key.
FindPastPath(node, key, disk) ==
    LET rest == SubSeq(key, Len(node.path) + 1, Len(key))
    IN  IF rest = <<>> THEN [result |-> "success", tree |-> node, found |-> <<node>>]
        ELSE IF rest[1] \notin DOMAIN node.kids
        THEN [result |-> "branch_not_exist", tree |-> node, found |-> <<>>]
        ELSE LET below == FindPastPath(ChildNode(node, rest[1], disk), Tail(rest), disk)
             IN  [below EXCEPT !.tree = set_next(node, rest[1], below.tree)]

RECURSIVE FindFrom(_, _, _)
\* find_blocking from a node, at the start of its path: the way is cached, a node
\* that was read is put into its parent (tree), and found is the node at the key.
FindFrom(node, key, disk) ==
    LET missing(result) == [result |-> result, tree |-> node, found |-> <<>>]
        split == LongestCommonPrefix({node.path, key})
        rest == SubSeq(key, Len(node.path) + 1, Len(key))
    IN  IF Len(split) < Len(node.path)
        THEN missing(IF Len(split) = Len(key) THEN "key_ends_earlier_than_node"
                     ELSE "key_mismatch")
        ELSE IF rest = <<>> THEN [result |-> "success", tree |-> node, found |-> <<node>>]
        ELSE IF rest[1] \notin DOMAIN node.kids THEN missing("branch_not_exist")
        ELSE LET below == FindFrom(ChildNode(node, rest[1], disk), Tail(rest), disk)
             IN  [below EXCEPT !.tree = set_next(node, rest[1], below.tree)]

find_blocking(root, key, disk) == FindFrom(root, key, disk)

RECURSIVE Contents(_, _)
\* The keys and values below a node, as found by walking memory and disk.
Contents(node, disk) ==
    {<<node.path \o e[1], e[2]>> :
        e \in {<< <<>>, node.value[i]>> : i \in DOMAIN node.value}
              \cup UNION {{<< <<b>> \o d[1], d[2]>> : d \in Contents(ChildNode(node, b, disk), disk)} :
                          b \in DOMAIN node.kids}}

RECURSIVE Below(_, _)
\* Every node under a node, with the offset and the record its parent keeps of it.
Below(node, disk) ==
    UNION {LET child == ChildNode(node, b, disk)
           IN  {[node |-> child, entry |-> node.kids[b], parent |-> node]} \cup Below(child, disk) :
           b \in DOMAIN node.kids}
=============================================================================
