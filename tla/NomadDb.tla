------------------------------- MODULE NomadDb --------------------------------
(***************************************************************************)
(* The synchronous interfaces of the library, as a program in C, Go or     *)
(* Rust uses them: opening and closing, upserts that return a root, finds  *)
(* from a root or by version, and loading roots.  Handles of a node share  *)
(* it, so that clones and freed ones need no state.  Keys differ in their  *)
(* first nibble: a root has one child for each key.  An upsert takes the   *)
(* children out of the node it starts from; on disk they can be read       *)
(* again, as long as the chunks they are in have not been released.  No    *)
(* upsert of these interfaces records its root (write_root is false).      *)
(*                                                                         *)
(* Programs keep to what the interfaces ask for: versions they pass with a *)
(* root are the root's, nodes are not used after their database is closed, *)
(* and a Go program puts no empty values.  What else they must keep to is  *)
(* spelled out by Misuse.                                                  *)
(***************************************************************************)
EXTENDS Integers, Sequences, FiniteSets

CONSTANTS Keys,
          Files,            \* what other programs may have left on disk
          Updates,          \* lists of updates: functions from some of the keys to a value or NoValue
          UpsertVersions,   \* versions of upserts
          HistoryLength,    \* fixed_history_length
          MaxRoots          \* bound on the roots of an open database

NoValue == "none"           \* a key that is not there, a null node, a deletion
EmptyValue == "empty"       \* a value of no bytes
Gone == "gone"              \* a child that was moved out of the node
NoVersion == -1             \* INVALID_BLOCK_NUM

\* What keys may have: nothing, what programs put and what is on disk
StoredValues ==
    {NoValue} \cup UNION {{ups[k] : k \in DOMAIN ups} : ups \in Updates}
              \cup UNION {UNION {{f.at[v][k] : k \in Keys} : v \in DOMAIN f.at} : f \in Files}

\* Versions are natural numbers, a file has a value or none for every key of a version and a
\* last version if any, and no value is the mark of a child that was moved out.
ASSUME NomadAssumption ==
    /\ UpsertVersions \subseteq Nat /\ HistoryLength \in Nat \ {0} /\ MaxRoots \in Nat
    /\ Gone \notin StoredValues
    /\ \A ups \in Updates : DOMAIN ups \subseteq Keys
    /\ \A f \in Files :
          /\ f = [there |-> f.there, at |-> f.at, stamp |-> f.stamp] /\ f.there \in BOOLEAN
          /\ DOMAIN f.at \subseteq Nat
          /\ f.at \in [DOMAIN f.at -> [Keys -> StoredValues]]
          /\ f.stamp \in [DOMAIN f.at -> [Keys -> Nat]]
          /\ DOMAIN f.at # {} => \E last \in DOMAIN f.at : \A v \in DOMAIN f.at : v <= last

VARIABLES
    binding,      \* the language of the program
    mode,         \* "closed", "memory" or "disk"
    file,         \* whether it is there, what it has at each recorded version, and with which
                  \* versions in the leaves
    unflushed,    \* RWOnDisk::unflushed_version_
    roots,        \* the nodes that upserts and loads returned, oldest first
    aborted,      \* the process was ended by an assertion
    misused       \* ghost: what the interfaces ask for was not kept to

nomadVars == <<binding, mode, file, unflushed, roots, aborted, misused>>

\* A root: its children, what they are on disk, the recorded version whose nodes they are
\* (NoVersion if they were written since the database was opened), their versions, its own; and,
\* as ghosts, what the program put into it and the root it was made from
Root(kids, ondisk, home, stamp, ver, want, from) ==
    [kids |-> kids, ondisk |-> ondisk, home |-> home, stamp |-> stamp, ver |-> ver,
     want |-> want, from |-> from]

AllKeys(x) == [k \in Keys |-> x]

Recorded == DOMAIN file.at
Largest(s) == CHOOSE m \in s : \A n \in s : n <= m

NomadInit ==
    /\ binding \in {"c", "go", "rust"} /\ mode = "closed" /\ file \in Files
    /\ unflushed = NoVersion /\ roots = <<>> /\ aborted = FALSE /\ misused = FALSE

-----------------------------------------------------------------------------
(* Finding *)

\* The nodes of a version are in chunks that release_unreferenced_chunks may have freed once it
\* and all versions before it have left the history, vs.
Released(n, k, vs) == n.kids[k] = Gone /\ n.home[k] # NoVersion /\ \A r \in vs : r > n.home[k]

\* find_blocking, or the worker's find_notify_fiber, below a root
FindBelow(n, k) ==
    IF n.kids[k] # Gone THEN n.kids[k]
    ELSE IF mode = "memory" THEN "abort"
    ELSE IF Released(n, k, Recorded) THEN "unreadable" ELSE n.ondisk[k]

\* What a node's value is to a program: Go cannot tell an empty one from none.
ValueIn(x) == IF binding = "go" /\ x = EmptyValue THEN NoValue ELSE x

\* RWOnDisk::find_fiber_blocking checks the version first; InMemory does not.
VersionHolds(v) == mode = "memory" \/ v = unflushed \/ v \in Recorded

\* Any error is a null node.  Rust has no such function.
nomad_db_find_from_root(i, k) ==
    IF VersionHolds(roots[i].ver) THEN ValueIn(FindBelow(roots[i], k)) ELSE NoValue

\* Db::find by version, on disk
DbFind(k, v) == IF v \in Recorded THEN file.at[v][k] ELSE NoValue

nomad_db_find(k, v) == IF mode = "memory" THEN "not supported" ELSE DbFind(k, v)

\* The Rust binding has no check of the mode.
db_find(k, v) == IF mode = "memory" THEN "abort" ELSE DbFind(k, v)

\* Go uses the C interface.
FindInBinding(k, v) == ValueIn(IF binding = "rust" THEN db_find(k, v) ELSE nomad_db_find(k, v))

-----------------------------------------------------------------------------
(* Upserting *)

\* dispatch_updates_impl_ takes every child out of the old node, by move_next or copy_old_child.
MovedOut(n) == [n EXCEPT !.kids = [k \in Keys |-> IF @[k] = NoValue THEN NoValue ELSE Gone]]

NoRoot == Root(AllKeys(NoValue), AllKeys(NoValue), AllKeys(NoVersion), AllKeys(0), 0, AllKeys(NoValue), 0)

\* What an update carries as its version: C and Go leave 0 in it.
Stamp(v) == IF binding = "rust" THEN v ELSE 0

\* Mutant of OnDiskKid: a child that is not in memory is not taken over.
OnDiskKidInMemory(n, ups, k) ==
    IF k \in DOMAIN ups THEN ups[k] ELSE IF n.kids[k] = Gone THEN NoValue ELSE n.ondisk[k]

\* The child of the new root on disk: updated and written, or taken over where it is
OnDiskKid(n, ups, k) == IF k \in DOMAIN ups THEN ups[k] ELSE n.ondisk[k]

NewRoot(n, i, ups, v) ==
    LET Put(new, old) == [k \in Keys |-> IF k \in DOMAIN ups THEN new[k] ELSE old[k]]
    IN  Root(Put(ups, n.kids), [k \in Keys |-> OnDiskKid(n, ups, k)], Put(AllKeys(NoVersion), n.home),
             Put(AllKeys(Stamp(v)), n.stamp), v, Put(ups, n.want), i)

\* Mutant of VersionOrder: an update may not stay at the version of what it updates.
VersionOrderStrict(old, v) == v > old

\* MONAD_ASSERT(update.version >= old->version), for the root and for every leaf
VersionOrder(old, v) == v >= old

\* Assertions of the update: a child that has to be updated can be read again only on disk, and
\* what is deleted was there.
UpdateAsserts(n, ups, v) ==
    /\ VersionOrder(n.ver, v)
    /\ \A k \in DOMAIN ups :
          /\ n.kids[k] = Gone => mode = "disk"
          /\ ups[k] = NoValue => n.ondisk[k] # NoValue
          /\ ups[k] # NoValue /\ n.ondisk[k] # NoValue => VersionOrder(n.stamp[k], Stamp(v))

\* do_update erases the versions that the new one would make outdated, although it will not be
\* recorded itself; it may not have to erase the last one.
Outdated(v) ==
    IF Recorded = {} THEN {}
    ELSE {r \in Recorded : r <= Largest(Recorded \cup {v}) - HistoryLength}

\* What stays recorded
KeepRecent(v) == IF mode = "memory" THEN Recorded ELSE Recorded \ Outdated(v)

\* The children that an upsert may find released: versions are erased before it reads.
Lost(n, v) == {k \in Keys : Released(n, k, KeepRecent(v))}

\* What a program may not do: go back to a version before the root's, or update what was
\* recorded with a later version than its updates carry; delete what it has not put; upsert
\* twice from a root in memory; pass the last recorded version by the length of the history; or
\* start from a root with children of a version that has left the history, or leaves it now
Misuse(n, i, ups, v) ==
    \/ v < n.ver
    \/ \E k \in DOMAIN ups : ups[k] # NoValue /\ n.want[k] # NoValue /\ Stamp(v) < n.stamp[k]
    \/ \E k \in DOMAIN ups : ups[k] = NoValue /\ n.want[k] = NoValue
    \/ mode = "memory" /\ \E j \in DOMAIN roots : i # 0 /\ roots[j].from = i
    \/ mode = "disk" /\ Recorded # {} /\ v >= Largest(Recorded) + HistoryLength
    \/ Lost(n, v) # {}

\* The file with nothing but the versions vs
Keeping(vs) ==
    [there |-> file.there, at |-> [r \in vs |-> file.at[r]], stamp |-> [r \in vs |-> file.stamp[r]]]

\* Db::upsert from root i, or from none if i is 0.  It may be ended by what it reads in a released
\* chunk, and may also happen not to read there.
DbUpsert(i, ups, v) ==
    LET n == IF i = 0 THEN NoRoot ELSE roots[i]
        taken == IF i = 0 THEN roots ELSE [roots EXCEPT ![i] = MovedOut(n)]
        asserted == UpdateAsserts(n, ups, v) /\ (Recorded # {} => KeepRecent(v) # {})
    IN  /\ mode # "closed" /\ Len(roots) < MaxRoots
        /\ misused' = (misused \/ Misuse(n, i, ups, v))
        /\ \/ asserted /\ aborted' = FALSE /\ roots' = Append(taken, NewRoot(n, i, ups, v))
           \/ (~ asserted \/ Lost(n, v) # {}) /\ aborted' = TRUE /\ roots' = taken
        /\ file' = Keeping(KeepRecent(v))
        /\ unflushed' = IF mode = "disk" THEN v ELSE unflushed
        /\ UNCHANGED <<binding, mode>>

\* The upserts of the three languages; the list of updates may be empty, for which Go returns the
\* root it was given.
nomad_db_upsert(i, ups, v) == binding = "c" /\ DbUpsert(i, ups, v)
db_upsert(i, ups, v) == binding = "rust" /\ DbUpsert(i, ups, v)
DB_Upsert(i, ups, v) == binding = "go" /\ ups # <<>> /\ DbUpsert(i, ups, v)

-----------------------------------------------------------------------------
(* The life of a database *)

nomad_db_open_memory ==
    /\ mode = "closed" /\ mode' = "memory"
    /\ UNCHANGED <<binding, file, unflushed, roots, aborted, misused>>

\* append is not create, so that create makes an empty database of one that is there.  Without
\* it a file that is not there is created, found not to be a pool, and the process aborted; of
\* one that is there set_io erases the versions outside the history.
nomad_db_open_disk(create) ==
    /\ mode = "closed" /\ mode' = "disk"
    /\ file' = [Keeping(IF create THEN {} ELSE KeepRecent(0)) EXCEPT !.there = TRUE]
    /\ misused' = (misused \/ (~ create /\ ~ file.there))
    /\ aborted' = (~ create /\ ~ file.there)
    /\ UNCHANGED <<binding, unflushed, roots>>

\* Nothing that was not recorded outlives the database.
nomad_db_close ==
    /\ mode # "closed" /\ mode' = "closed"
    /\ unflushed' = NoVersion /\ roots' = <<>>
    /\ UNCHANGED <<binding, file, aborted, misused>>

\* It is a null node, which is no root, unless the version is recorded
nomad_db_load_root(v) ==
    /\ mode = "disk" /\ Len(roots) < MaxRoots /\ v \in Recorded
    /\ roots' = Append(roots, Root([k \in Keys |-> IF file.at[v][k] = NoValue THEN NoValue ELSE Gone],
                                   file.at[v], AllKeys(v), file.stamp[v], v, file.at[v], 0))
    /\ UNCHANGED <<binding, mode, file, unflushed, aborted, misused>>

NomadNext ==
    /\ ~ aborted
    /\ \/ nomad_db_open_memory \/ \E create \in BOOLEAN : nomad_db_open_disk(create)
       \/ nomad_db_close
       \/ \E i \in 0 .. Len(roots), ups \in Updates, v \in UpsertVersions :
             nomad_db_upsert(i, ups, v) \/ db_upsert(i, ups, v) \/ DB_Upsert(i, ups, v)
       \/ \E v \in Recorded : nomad_db_load_root(v)

NomadSpec == NomadInit /\ [][NomadNext]_nomadVars

-----------------------------------------------------------------------------
\* A root finds what the program put into it and into the roots it was made from: in memory
\* until something is upserted from it; on disk also afterwards, as long as its version is
\* recorded or the one of the last upsert, unless the node was loaded with a version that has
\* since left the history, with all before it.
FindsOwn ==
    ~ misused /\ mode # "closed" =>
        \A i \in DOMAIN roots, k \in Keys :
            (IF mode = "disk"
             THEN roots[i].ver \in Recorded \cup {unflushed} /\ ~ Released(roots[i], k, Recorded)
             ELSE \A j \in DOMAIN roots : roots[j].from # i)
            => nomad_db_find_from_root(i, k) = ValueIn(roots[i].want[k])

\* The process is aborted only if a version goes back or passes the recorded ones by the length
\* of the history, if a key is updated that was recorded with a later version than the update
\* carries (in C and Go: any but 0), if what is deleted is not there, if the file is not there,
\* if two upserts start from one root in memory, or one from a root that has nodes of a version
\* which has left the history.
AbortsOnMisuse == aborted => misused

\* doc.go: "Disk databases persist the root automatically and support Find() directly."
FoundByVersion ==
    mode = "disk" /\ ~ misused /\ roots # <<>> =>
        LET n == roots[Len(roots)]
        IN  n.ver = unflushed => \A k \in Keys : FindInBinding(k, n.ver) = ValueIn(n.want[k])
=============================================================================
