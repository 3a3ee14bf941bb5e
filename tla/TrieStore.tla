------------------------------ MODULE TrieStore -----------------------------
(***************************************************************************)
(* What the trie promises: every version is a table from keys to values,   *)
(* made from the table of the version before it by one batch of updates,   *)
(* or by copying what is under one key to another, in one step; or from    *)
(* nothing but such a copy.  A key may have a table of its own under it;   *)
(* keys of the table under k are k followed by more nibbles.  A value is   *)
(* the version that wrote it.                                              *)
(***************************************************************************)
EXTENDS Integers, Sequences, FiniteSets, SequencesExt

CONSTANTS Batches,      \* the batches of updates callers make
          Copies,       \* the copies callers make: pairs of keys
          MaxVersion    \* bound on versions

VARIABLES store,        \* store[v]: the table of version v, a set of <<key, value>>
          horizon       \* what was written before this version may expire

Current == IF store = <<>> THEN {} ELSE Last(store)

KeysOf(table) == {e[1] : e \in table}

Under(table, key) == {e \in table : IsPrefix(key, e[1])}

RECURSIVE ApplyUpdates(_, _, _, _)
\* One update after the other: put a value, put one and begin a new table under the
\* key, only update the table under it, or erase it with the table under it.
ApplyUpdates(table, prefix, updates, version) ==
    IF updates = {} THEN table
    ELSE LET u == CHOOSE u \in updates : TRUE
             key == prefix \o u.key
             at == {e \in table : e[1] = key}
             kept == CASE u.op \in {"erase", "new"} -> table \ Under(table, key)
                       [] u.op = "put" -> table \ at
                       [] u.op = "nest" -> table
             put == IF u.op \in {"put", "new"} THEN kept \cup {<<key, version>>} ELSE kept
         IN  ApplyUpdates(ApplyUpdates(put, key, u.next, version), prefix, updates \ {u}, version)

\* Callers erase, and update under, keys that are there.
RECURSIVE Fits(_, _, _)
Fits(table, prefix, updates) ==
    \A u \in updates :
        /\ u.op \in {"erase", "nest"} => prefix \o u.key \in KeysOf(table)
        /\ Fits(IF u.op = "new" THEN {} ELSE table, prefix \o u.key, u.next)

CopyTable(source, table, src, dest) ==
    (table \ Under(table, dest))
    \cup {<<dest \o SubSeq(e[1], Len(src) + 1, Len(e[1])), e[2]>> : e \in Under(source, src)}

StoreInit == store = <<>> /\ horizon = 0

\* Of what is older than the horizon any part may go, nothing else does.
Apply(batch, expire) ==
    LET new == ApplyUpdates(Current, <<>>, batch, Len(store) + 1)
    IN  /\ Fits(Current, <<>>, batch)
        /\ expire >= horizon
        /\ horizon' = expire
        /\ \E gone \in SUBSET {e \in new : e[2] < expire} : store' = Append(store, new \ gone)

\* table is what is copied into.
Copy(from, src, dest, table) ==
    /\ src \in KeysOf(store[from])
    /\ store' = Append(store, CopyTable(store[from], table, src, dest))
    /\ UNCHANGED horizon

StoreNext ==
    \/ \E batch \in Batches, expire \in 0 .. MaxVersion : Apply(batch, expire)
    \/ \E from \in 1 .. Len(store), c \in Copies, table \in {Current, {}} : Copy(from, c[1], c[2], table)

StoreSpec == StoreInit /\ [][StoreNext]_<<store, horizon>>
=============================================================================
