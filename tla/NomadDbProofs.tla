---------------------------- MODULE NomadDbProofs ----------------------------
(***************************************************************************)
(* Theorems about NomadDb, for every set of keys, files and lists of       *)
(* updates and every length of the history.                                *)
(***************************************************************************)
EXTENDS NomadDb, TLAPS

\* The nodes a program may hold
RootNodes ==
    [kids : [Keys -> StoredValues \cup {Gone}], ondisk : [Keys -> StoredValues \cup {Gone}],
     home : [Keys -> Int], stamp : [Keys -> Nat], ver : Nat, want : [Keys -> StoredValues],
     from : Nat]

NomadTypes ==
    /\ mode \in {"closed", "memory", "disk"}
    /\ roots \in Seq(RootNodes)
    /\ aborted \in BOOLEAN /\ misused \in BOOLEAN

\* Files that record the versions vs
FilesOf(vs) ==
    [there : BOOLEAN, at : [vs -> [Keys -> StoredValues]], stamp : [vs -> [Keys -> Nat]]]

\* The file is one, and if it records versions one of them is the last.
FileSound ==
    /\ \E vs \in SUBSET Nat : file \in FilesOf(vs)
    /\ Recorded # {} => \E m \in Recorded : \A v \in Recorded : v <= m

\* What was put into a root is on disk, and in memory unless it was moved out.
RootsHold ==
    \A i \in DOMAIN roots, k \in Keys :
        /\ roots[i].ondisk[k] = roots[i].want[k]
        /\ roots[i].kids[k] \in {roots[i].want[k], Gone}

\* In memory children are moved out only into a root that knows where it is from.
MovedToHeir ==
    mode = "memory" => \A i \in DOMAIN roots, k \in Keys :
        roots[i].kids[k] = Gone => \E j \in DOMAIN roots : roots[j].from = i

NomadInv ==
    /\ NomadTypes /\ FileSound
    /\ mode = "closed" => roots = <<>>
    /\ ~ misused => RootsHold /\ MovedToHeir
    /\ AbortsOnMisuse

----------------------------------------------------------------------------
\* The largest element of a set that has one
LEMMA LargestIs ==
    ASSUME NEW S \in SUBSET Int, NEW m \in S, \A n \in S : n <= m
    PROVE  Largest(S) = m
<1>1. \A l \in S : (\A n \in S : n <= l) => l = m
  OBVIOUS
<1> QED
  BY <1>1 DEF Largest

\* What the file records: functions from versions to values and to versions of leaves
LEMMA FileFacts ==
    ASSUME FileSound
    PROVE  /\ Recorded \in SUBSET Nat
           /\ file.at \in [Recorded -> [Keys -> StoredValues]]
           /\ file.stamp \in [Recorded -> [Keys -> Nat]]
           /\ file = [there |-> file.there, at |-> file.at, stamp |-> file.stamp]
           /\ file.there \in BOOLEAN
BY DEF FileSound, FilesOf, Recorded

LEMMA NomadInitial == NomadInit => NomadInv
<1> SUFFICES ASSUME NomadInit PROVE NomadInv
  OBVIOUS
<1>1. NomadTypes
  <2>1. roots \in Seq(RootNodes)
    BY DEF NomadInit
  <2>2. mode \in {"closed", "memory", "disk"} /\ aborted \in BOOLEAN /\ misused \in BOOLEAN
    BY Zenon DEF NomadInit
  <2> QED
    BY <2>1, <2>2 DEF NomadTypes
<1>2. FileSound
  <2>1. file \in Files
    BY DEF NomadInit
  <2>2. /\ file = [there |-> file.there, at |-> file.at, stamp |-> file.stamp]
        /\ file.there \in BOOLEAN /\ DOMAIN file.at \subseteq Nat
        /\ file.at \in [DOMAIN file.at -> [Keys -> StoredValues]]
        /\ file.stamp \in [DOMAIN file.at -> [Keys -> Nat]]
        /\ DOMAIN file.at # {} => \E last \in DOMAIN file.at : \A v \in DOMAIN file.at : v <= last
    BY <2>1, NomadAssumption
  <2>3. file \in FilesOf(DOMAIN file.at)
    BY <2>2 DEF FilesOf
  <2> QED
    BY <2>2, <2>3 DEF FileSound, Recorded
<1>3. roots = <<>> /\ aborted = FALSE
  BY DEF NomadInit
<1>4. RootsHold /\ MovedToHeir /\ AbortsOnMisuse
  BY <1>3 DEF RootsHold, MovedToHeir, AbortsOnMisuse
<1> QED
  BY <1>1, <1>2, <1>3, <1>4 DEF NomadInv

----------------------------------------------------------------------------
\* The last recorded version is erased only if the new one passes it by the length
\* of the history.
LEMMA KeepsLast ==
    ASSUME FileSound, Recorded # {}, mode # "memory", NEW v \in Nat, KeepRecent(v) = {}
    PROVE  v >= Largest(Recorded) + HistoryLength
<1>1. PICK m \in Recorded : \A r \in Recorded : r <= m
  BY DEF FileSound
<1>2. Recorded \in SUBSET Nat /\ HistoryLength \in Nat \ {0}
  BY FileFacts, NomadAssumption
<1>3. Largest(Recorded) = m
  BY <1>1, <1>2, LargestIs
<1>4. m \in Outdated(v)
  BY DEF KeepRecent
<1>5. m <= Largest(Recorded \cup {v}) - HistoryLength
  BY <1>4 DEF Outdated
<1>6. CASE v <= m
  <2>1. Largest(Recorded \cup {v}) = m
    BY <1>1, <1>2, <1>6, LargestIs
  <2> QED
    BY <1>2, <1>5, <2>1
<1>7. CASE v > m
  <2>1. Largest(Recorded \cup {v}) = v
    BY <1>1, <1>2, <1>7, LargestIs
  <2> QED
    BY <1>2, <1>3, <1>5, <2>1
<1> QED
  BY <1>2, <1>6, <1>7

\* Erasing what is outdated leaves a file, with its last version if with any.
LEMMA ErasedFileSound ==
    ASSUME FileSound, NEW v \in Nat, NEW there \in BOOLEAN,
           file' = [there |-> there, at |-> [r \in KeepRecent(v) |-> file.at[r]],
                    stamp |-> [r \in KeepRecent(v) |-> file.stamp[r]]]
    PROVE  FileSound'
<1>1. KeepRecent(v) \in SUBSET Recorded /\ Recorded \in SUBSET Nat
  BY FileFacts DEF KeepRecent
<1>3. file' \in FilesOf(KeepRecent(v))
  BY <1>1, FileFacts DEF FilesOf
<1>4. Recorded' = KeepRecent(v)
  BY DEF Recorded
<1>5. ASSUME KeepRecent(v) # {}, mode # "memory"
      PROVE  \E m \in KeepRecent(v) : \A r \in KeepRecent(v) : r <= m
  <2>1. Recorded # {}
    BY <1>1, <1>5
  <2>2. PICK m \in Recorded : \A r \in Recorded : r <= m
    BY <2>1 DEF FileSound
  <2>3. PICK r \in Recorded : r \notin Outdated(v)
    BY <1>1, <1>5 DEF KeepRecent
  <2> DEFINE bound == Largest(Recorded \cup {v}) - HistoryLength
  <2>4. Outdated(v) = {n \in Recorded : n <= bound}
    BY <2>1 DEF Outdated
  <2>5. bound \in Int
    <3>1. CASE v <= m
      <4>1. Largest(Recorded \cup {v}) = m
        BY <1>1, <2>2, <3>1, LargestIs
      <4> QED
        BY <1>1, <4>1, NomadAssumption
    <3>2. CASE v > m
      <4>1. Largest(Recorded \cup {v}) = v
        BY <1>1, <2>2, <3>2, LargestIs
      <4> QED
        BY <4>1, NomadAssumption
    <3> QED
      BY <1>1, <3>1, <3>2
  <2> HIDE DEF bound
  <2>6. m \notin Outdated(v)
    BY <1>1, <2>2, <2>3, <2>4, <2>5
  <2> QED
    BY <1>1, <1>5, <2>2, <2>6 DEF KeepRecent
<1>6. ASSUME KeepRecent(v) # {}, mode = "memory"
      PROVE  \E m \in KeepRecent(v) : \A r \in KeepRecent(v) : r <= m
  BY <1>6 DEF KeepRecent, FileSound
<1> QED
  BY <1>1, <1>3, <1>4, <1>5, <1>6 DEF FileSound

----------------------------------------------------------------------------
\* The node an upsert starts from is one of the program's, or the empty one.
LEMMA OldNode ==
    ASSUME NomadInv, NEW i \in 0 .. Len(roots), NEW n,
           n = IF i = 0 THEN NoRoot ELSE roots[i]
    PROVE  /\ n \in RootNodes
           /\ ~ misused => \A k \in Keys : /\ n.ondisk[k] = n.want[k]
                                           /\ n.kids[k] \in {n.want[k], Gone}
<1>1. roots \in Seq(RootNodes)
  BY DEF NomadInv, NomadTypes
<1>2. CASE i = 0
  <2>1. NoValue \in StoredValues
    BY DEF StoredValues
  <2>2. n = NoRoot
    BY <1>2
  <2> QED
    BY <2>1, <2>2 DEF NoRoot, Root, RootNodes, AllKeys, NoVersion
<1>3. CASE i # 0
  <2>1. i \in DOMAIN roots /\ n = roots[i]
    BY <1>1, <1>3
  <2> QED
    BY <1>1, <2>1 DEF NomadInv, RootsHold
<1> QED
  BY <1>2, <1>3

\* Moving its children out of a node leaves a node with the same promises.
LEMMA MovedOutNode ==
    ASSUME NEW n \in RootNodes
    PROVE  /\ MovedOut(n) \in RootNodes
           /\ MovedOut(n).ondisk = n.ondisk /\ MovedOut(n).want = n.want
           /\ MovedOut(n).from = n.from /\ MovedOut(n).ver = n.ver
           /\ \A k \in Keys : MovedOut(n).kids[k] = IF n.kids[k] = NoValue THEN NoValue ELSE Gone
<1>1. NoValue \in StoredValues
  BY DEF StoredValues
<1> QED
  BY <1>1 DEF MovedOut, RootNodes

\* Updates of a list have stored values.
LEMMA UpdateValues ==
    ASSUME NEW ups \in Updates, NEW k \in DOMAIN ups
    PROVE  ups[k] \in StoredValues /\ ups[k] # Gone /\ k \in Keys
<1>1. ups[k] \in UNION {{u[j] : j \in DOMAIN u} : u \in Updates}
  OBVIOUS
<1> QED
  <2>1. ups[k] \in StoredValues
    BY <1>1 DEF StoredValues
  <2>2. Gone \notin StoredValues /\ DOMAIN ups \subseteq Keys
    BY NomadAssumption
  <2> QED
    BY <2>1, <2>2

\* The new root is a node of the program's.
LEMMA NewRootNode ==
    ASSUME NEW n \in RootNodes, NEW i \in Nat, NEW ups \in Updates, NEW v \in Nat
    PROVE  NewRoot(n, i, ups, v) \in RootNodes /\ NewRoot(n, i, ups, v).from = i
<1> DEFINE Put(new, old) == [k \in Keys |-> IF k \in DOMAIN ups THEN new[k] ELSE old[k]]
           kids == Put(ups, n.kids)
           ondisk == [k \in Keys |-> OnDiskKid(n, ups, k)]
           home == Put(AllKeys(NoVersion), n.home)
           stamp == Put(AllKeys(Stamp(v)), n.stamp)
           puts == Put(ups, n.want)
<1>1. /\ n.kids \in [Keys -> StoredValues \cup {Gone}] /\ n.ondisk \in [Keys -> StoredValues \cup {Gone}]
      /\ n.want \in [Keys -> StoredValues] /\ n.home \in [Keys -> Int] /\ n.stamp \in [Keys -> Nat]
  BY DEF RootNodes
<1>2. kids \in [Keys -> StoredValues \cup {Gone}]
  BY <1>1, UpdateValues
<1>3. ondisk \in [Keys -> StoredValues \cup {Gone}]
  BY <1>1, UpdateValues DEF OnDiskKid
<1>4. puts \in [Keys -> StoredValues]
  BY <1>1, UpdateValues
<1>5. home \in [Keys -> Int]
  BY <1>1 DEF AllKeys, NoVersion
<1>6. stamp \in [Keys -> Nat]
  <2>1. Stamp(v) \in Nat
    BY DEF Stamp
  <2> QED
    BY <1>1, <2>1 DEF AllKeys
<1>7. NewRoot(n, i, ups, v) =
        [kids |-> kids, ondisk |-> ondisk, home |-> home, stamp |-> stamp, ver |-> v,
         want |-> puts, from |-> i]
  BY DEF NewRoot, Root
<1> HIDE DEF kids, ondisk, home, stamp, puts
<1> QED
  BY <1>2, <1>3, <1>4, <1>5, <1>6, <1>7 DEF RootNodes

\* The sequence of roots after an upsert: the old ones, of which one may have been
\* emptied, and the new one.
LEMMA RootsAfter ==
    ASSUME NEW s \in Seq(RootNodes), NEW i \in 0 .. Len(s), NEW old \in RootNodes,
           NEW new \in RootNodes, NEW t,
           t = IF i = 0 THEN s ELSE [s EXCEPT ![i] = old]
    PROVE  /\ t \in Seq(RootNodes) /\ Append(t, new) \in Seq(RootNodes)
           /\ Len(t) = Len(s) /\ DOMAIN t = 1 .. Len(s) /\ DOMAIN s = 1 .. Len(s)
           /\ \A j \in 1 .. Len(s) : t[j] = IF j = i THEN old ELSE s[j]
           /\ DOMAIN Append(t, new) = 1 .. Len(s) + 1
           /\ Append(t, new)[Len(s) + 1] = new
           /\ \A j \in 1 .. Len(s) : Append(t, new)[j] = t[j]
<1>1. CASE i = 0
  BY <1>1
<1>2. CASE i # 0
  BY <1>2
<1> QED
  BY <1>1, <1>2

----------------------------------------------------------------------------
\* An upsert, of whatever interface
LEMMA DbUpsertStep ==
    ASSUME NomadInv, NEW i \in 0 .. Len(roots), NEW ups \in Updates, NEW v \in UpsertVersions,
           DbUpsert(i, ups, v)
    PROVE  NomadInv'
<1> DEFINE n == IF i = 0 THEN NoRoot ELSE roots[i]
           taken == IF i = 0 THEN roots ELSE [roots EXCEPT ![i] = MovedOut(n)]
           new == NewRoot(n, i, ups, v)
           asserted == UpdateAsserts(n, ups, v) /\ (Recorded # {} => KeepRecent(v) # {})
           lost == Lost(n, v) # {}
           passes == mode = "disk" /\ Recorded # {} /\ v >= Largest(Recorded) + HistoryLength
           twice == mode = "memory" /\ \E j \in DOMAIN roots : i # 0 /\ roots[j].from = i
           absent == \E k \in DOMAIN ups : ups[k] = NoValue /\ n.want[k] = NoValue
           older == \E k \in DOMAIN ups :
                       ups[k] # NoValue /\ n.want[k] # NoValue /\ Stamp(v) < n.stamp[k]
<1>1. /\ mode # "closed" /\ mode' = mode
      /\ misused' = (misused \/ Misuse(n, i, ups, v))
      /\ \/ asserted /\ aborted' = FALSE /\ roots' = Append(taken, new)
         \/ (~ asserted \/ lost) /\ aborted' = TRUE /\ roots' = taken
      /\ file' = Keeping(KeepRecent(v))
  BY Zenon DEF DbUpsert
<1>12. Misuse(n, i, ups, v) <=> (v < n.ver \/ older \/ absent \/ twice \/ passes \/ lost)
  BY Zenon DEF Misuse
<1>2. roots \in Seq(RootNodes) /\ v \in Nat /\ mode \in {"closed", "memory", "disk"} /\ i \in Nat
  BY NomadAssumption DEF NomadInv, NomadTypes
<1>3. /\ n \in RootNodes
      /\ ~ misused => \A k \in Keys : n.ondisk[k] = n.want[k] /\ n.kids[k] \in {n.want[k], Gone}
  BY OldNode
<1>4. /\ MovedOut(n) \in RootNodes /\ new \in RootNodes /\ new.from = i
      /\ \A k \in Keys : /\ new.kids[k] = IF k \in DOMAIN ups THEN ups[k] ELSE n.kids[k]
                         /\ new.ondisk[k] = IF k \in DOMAIN ups THEN ups[k] ELSE n.ondisk[k]
                         /\ new.want[k] = IF k \in DOMAIN ups THEN ups[k] ELSE n.want[k]
  <2>1. n \in RootNodes /\ v \in Nat /\ i \in Nat
    BY <1>2, <1>3
  <2> HIDE DEF n
  <2>2. MovedOut(n) \in RootNodes
    BY <2>1, MovedOutNode
  <2>3. new \in RootNodes /\ new.from = i
    BY <2>1, NewRootNode
  <2>4. \A k \in Keys : /\ new.kids[k] = IF k \in DOMAIN ups THEN ups[k] ELSE n.kids[k]
                        /\ new.ondisk[k] = IF k \in DOMAIN ups THEN ups[k] ELSE n.ondisk[k]
                        /\ new.want[k] = IF k \in DOMAIN ups THEN ups[k] ELSE n.want[k]
    BY DEF NewRoot, Root, OnDiskKid
  <2> QED
    BY <2>2, <2>3, <2>4, Zenon
<1>5. /\ taken \in Seq(RootNodes) /\ Append(taken, new) \in Seq(RootNodes)
      /\ DOMAIN taken = 1 .. Len(roots) /\ DOMAIN roots = 1 .. Len(roots)
      /\ \A j \in 1 .. Len(roots) : taken[j] = IF j = i THEN MovedOut(n) ELSE roots[j]
      /\ DOMAIN Append(taken, new) = 1 .. Len(roots) + 1
      /\ Append(taken, new)[Len(roots) + 1] = new
      /\ \A j \in 1 .. Len(roots) : Append(taken, new)[j] = taken[j]
  BY <1>2, <1>4, RootsAfter
<1>6. FileSound'
  <2>1. FileSound /\ file.there \in BOOLEAN
    BY FileFacts DEF NomadInv
  <2>2. file' = [there |-> file.there, at |-> [r \in KeepRecent(v) |-> file.at[r]],
                 stamp |-> [r \in KeepRecent(v) |-> file.stamp[r]]]
    BY <1>1, Zenon DEF Keeping
  <2> QED
    BY <1>2, <2>1, <2>2, ErasedFileSound
<1>7. NomadTypes'
  <2>1. roots' \in Seq(RootNodes)
    BY <1>1, <1>5
  <2>2. misused' \in BOOLEAN /\ aborted' \in BOOLEAN
    BY <1>1, Zenon
  <2> QED
    BY <1>1, <1>2, <2>1, <2>2 DEF NomadTypes
\* Children that are gone in memory have an heir, and then this upsert is a misuse.
<1>8. ASSUME ~ misused', mode = "memory", NEW k \in Keys
      PROVE  n.kids[k] = n.want[k] /\ n.kids[k] # Gone
  <2>1. ~ misused /\ ~ twice
    BY <1>1, <1>12, <1>8
  <2>2. n.want[k] # Gone
    BY <1>3, NomadAssumption DEF RootNodes
  <2>3. CASE i = 0
    BY <2>2, <2>3 DEF NoRoot, Root, AllKeys
  <2>4. CASE i # 0
    <3>1. \A j \in DOMAIN roots : roots[j].from # i
      BY <1>8, <2>1, <2>4
    <3>2. i \in DOMAIN roots /\ n = roots[i]
      BY <1>5, <2>4
    <3>3. n.kids[k] # Gone
      BY <1>8, <2>1, <3>1, <3>2 DEF NomadInv, MovedToHeir
    <3> QED
      BY <1>3, <2>1, <3>3
  <2> QED
    BY <2>3, <2>4
<1>9. ~ misused' => asserted /\ ~ lost
  <2> SUFFICES ASSUME ~ misused' PROVE asserted /\ ~ lost
    OBVIOUS
  <2>1. ~ misused /\ ~ (v < n.ver) /\ ~ older /\ ~ absent /\ ~ passes /\ ~ lost
    BY <1>1, <1>12
  <2>2. VersionOrder(n.ver, v)
    BY <1>2, <1>3, <2>1 DEF VersionOrder, RootNodes
  <2>3. ASSUME NEW k \in DOMAIN ups
        PROVE  /\ n.kids[k] = Gone => mode = "disk"
               /\ ups[k] = NoValue => n.ondisk[k] # NoValue
               /\ ups[k] # NoValue /\ n.ondisk[k] # NoValue => VersionOrder(n.stamp[k], Stamp(v))
    <3>1. k \in Keys
      BY UpdateValues
    <3>2. n.kids[k] = Gone => mode = "disk"
      BY <1>1, <1>2, <1>8, <3>1
    <3>3. ups[k] = NoValue => n.ondisk[k] # NoValue
      BY <1>3, <2>1, <3>1
    <3>4. n.stamp[k] \in Nat /\ Stamp(v) \in Nat
      BY <1>2, <1>3, <3>1 DEF RootNodes, Stamp
    <3>5. ups[k] # NoValue /\ n.ondisk[k] # NoValue => ~ (Stamp(v) < n.stamp[k])
      BY <1>3, <2>1, <3>1
    <3> QED
      BY <3>2, <3>3, <3>4, <3>5 DEF VersionOrder
  <2>4. Recorded # {} => KeepRecent(v) # {}
    <3>1. CASE mode = "memory"
      BY <3>1 DEF KeepRecent
    <3>2. CASE mode = "disk"
      BY <1>2, <2>1, <3>2, KeepsLast DEF NomadInv
    <3> QED
      BY <1>1, <1>2, <3>1, <3>2
  <2>5. UpdateAsserts(n, ups, v)
    BY <2>2, <2>3 DEF UpdateAsserts
  <2> QED
    BY <2>1, <2>4, <2>5
<1>10. AbortsOnMisuse'
  BY <1>1, <1>9 DEF AbortsOnMisuse
<1>11. ASSUME ~ misused' PROVE RootsHold' /\ MovedToHeir'
  <2>1. ~ misused /\ roots' = Append(taken, new)
    BY <1>1, <1>9, <1>11
  <2>2. ASSUME NEW k \in Keys
        PROVE  /\ new.ondisk[k] = new.want[k] /\ new.kids[k] \in {new.want[k], Gone}
               /\ mode = "memory" => new.kids[k] # Gone
    <3>1. /\ new.kids[k] = IF k \in DOMAIN ups THEN ups[k] ELSE n.kids[k]
          /\ new.ondisk[k] = IF k \in DOMAIN ups THEN ups[k] ELSE n.ondisk[k]
          /\ new.want[k] = IF k \in DOMAIN ups THEN ups[k] ELSE n.want[k]
      BY <1>4
    <3>2. new.want[k] # Gone
      BY <1>4, NomadAssumption DEF RootNodes
    <3>3. CASE k \in DOMAIN ups
      BY <3>1, <3>2, <3>3
    <3>4. CASE k \notin DOMAIN ups
      BY <1>3, <1>8, <1>11, <2>1, <3>1, <3>4
    <3> QED
      BY <3>3, <3>4
  <2>3. ASSUME NEW j \in 1 .. Len(roots), NEW k \in Keys
        PROVE  /\ taken[j].ondisk[k] = taken[j].want[k]
               /\ taken[j].kids[k] \in {taken[j].want[k], Gone}
               /\ taken[j].from = roots[j].from
               /\ j # i => taken[j] = roots[j]
    <3>1. CASE j = i
      <4>1. n = roots[j]
        BY <3>1
      <4>2. taken[j] = MovedOut(n)
        BY <1>5, <3>1
      <4>3. /\ MovedOut(n).ondisk = n.ondisk /\ MovedOut(n).want = n.want
            /\ MovedOut(n).from = n.from
            /\ MovedOut(n).kids[k] = IF n.kids[k] = NoValue THEN NoValue ELSE Gone
        BY <1>3, MovedOutNode
      <4>4. n.kids[k] = NoValue => n.want[k] = NoValue
        BY <1>3, <2>1 DEF NoValue, Gone
      <4> QED
        BY <1>3, <2>1, <3>1, <4>1, <4>2, <4>3, <4>4
    <3>2. CASE j # i
      BY <1>5, <2>1, <3>2 DEF NomadInv, RootsHold
    <3> QED
      BY <3>1, <3>2
  <2> HIDE DEF new, taken, n
  <2>4. RootsHold'
    <3> SUFFICES ASSUME NEW j \in DOMAIN roots', NEW k \in Keys
                 PROVE  /\ roots'[j].ondisk[k] = roots'[j].want[k]
                        /\ roots'[j].kids[k] \in {roots'[j].want[k], Gone}
      BY DEF RootsHold
    <3>1. CASE j = Len(roots) + 1
      BY <1>5, <2>1, <2>2, <3>1
    <3>2. CASE j # Len(roots) + 1
      <4>1. j \in 1 .. Len(roots) /\ roots'[j] = taken[j]
        BY <1>2, <1>5, <2>1, <3>2
      <4> QED
        BY <2>3, <4>1
    <3> QED
      BY <3>1, <3>2
  <2>5. MovedToHeir'
    <3> SUFFICES ASSUME mode = "memory", NEW j \in DOMAIN roots', NEW k \in Keys,
                        roots'[j].kids[k] = Gone
                 PROVE  \E h \in DOMAIN roots' : roots'[h].from = j
      BY <1>1 DEF MovedToHeir
    <3>1. j \in 1 .. Len(roots) /\ roots'[j] = taken[j]
      BY <1>2, <1>5, <2>1, <2>2
    <3>2. CASE j = i
      BY <1>2, <1>4, <1>5, <2>1, <3>2
    <3>3. CASE j # i
      <4>1. roots[j].kids[k] = Gone
        BY <2>3, <3>1, <3>3
      <4>2. PICK h \in 1 .. Len(roots) : roots[h].from = j
        BY <1>5, <2>1, <3>1, <4>1 DEF NomadInv, MovedToHeir
      <4>3. roots'[h].from = j
        BY <1>5, <2>1, <2>3, <4>2
      <4> QED
        BY <1>2, <1>5, <2>1, <4>2, <4>3
    <3> QED
      BY <3>2, <3>3
  <2> QED
    BY <2>4, <2>5
<1> QED
  BY <1>1, <1>6, <1>7, <1>10, <1>11 DEF NomadInv

----------------------------------------------------------------------------
\* Opening a database: it holds no roots.
LEMMA OpenStep ==
    ASSUME NomadInv,
           nomad_db_open_memory \/ \E create \in BOOLEAN : nomad_db_open_disk(create)
    PROVE  NomadInv'
<1>1. roots = <<>> /\ roots' = <<>>
  BY DEF NomadInv, nomad_db_open_memory, nomad_db_open_disk
<1>2. RootsHold' /\ MovedToHeir'
  BY <1>1 DEF RootsHold, MovedToHeir
<1>3. mode' \in {"memory", "disk"}
  BY DEF nomad_db_open_memory, nomad_db_open_disk
<1>4. CASE nomad_db_open_memory
  <2>1. UNCHANGED <<file, aborted, misused>>
    BY <1>4 DEF nomad_db_open_memory
  <2>2. NomadTypes' /\ FileSound' /\ AbortsOnMisuse'
    BY <1>1, <1>3, <2>1 DEF NomadInv, NomadTypes, FileSound, Recorded, AbortsOnMisuse
  <2> QED
    BY <1>2, <1>3, <2>2 DEF NomadInv
<1>5. ASSUME NEW create \in BOOLEAN, nomad_db_open_disk(create) PROVE NomadInv'
  <2> DEFINE vs == IF create THEN {} ELSE KeepRecent(0)
  <2>1. /\ file' = [Keeping(vs) EXCEPT !.there = TRUE]
        /\ misused' = (misused \/ (~ create /\ ~ file.there))
        /\ aborted' = (~ create /\ ~ file.there)
    BY <1>5 DEF nomad_db_open_disk
  <2>2. FileSound'
    <3>1. FileSound
      BY DEF NomadInv
    <3>2. file' = [there |-> TRUE, at |-> [r \in vs |-> file.at[r]],
                   stamp |-> [r \in vs |-> file.stamp[r]]]
      <4> HIDE DEF vs
      <4> QED
        BY <2>1 DEF Keeping
    <3>3. CASE create
      <4>1. vs = {}
        BY <3>3
      <4> HIDE DEF vs
      <4>2. file' \in FilesOf({}) /\ Recorded' = {}
        BY <3>2, <4>1 DEF FilesOf, Recorded
      <4> QED
        BY <4>2 DEF FileSound
    <3>4. CASE ~ create
      BY <3>1, <3>2, <3>4, ErasedFileSound
    <3> QED
      BY <3>3, <3>4
  <2>3. misused' \in BOOLEAN /\ aborted' \in BOOLEAN
    BY <2>1, Zenon
  <2>4. NomadTypes'
    BY <1>1, <1>3, <2>3 DEF NomadTypes
  <2>5. AbortsOnMisuse'
    BY <2>1 DEF AbortsOnMisuse
  <2> QED
    BY <1>2, <1>3, <2>2, <2>4, <2>5 DEF NomadInv
<1> QED
  BY <1>4, <1>5

LEMMA CloseStep ==
    ASSUME NomadInv, nomad_db_close
    PROVE  NomadInv'
<1>1. roots' = <<>> /\ mode' = "closed" /\ UNCHANGED <<file, aborted, misused>>
  BY DEF nomad_db_close
<1>2. RootsHold' /\ MovedToHeir' /\ NomadTypes' /\ FileSound' /\ AbortsOnMisuse'
  BY <1>1 DEF NomadInv, RootsHold, MovedToHeir, NomadTypes, FileSound, Recorded, AbortsOnMisuse
<1> QED
  BY <1>1, <1>2 DEF NomadInv

\* A loaded root has everything on disk and nothing in memory.
LEMMA LoadStep ==
    ASSUME NomadInv, NEW v \in Recorded, nomad_db_load_root(v)
    PROVE  NomadInv'
<1> DEFINE kids == [k \in Keys |-> IF file.at[v][k] = NoValue THEN NoValue ELSE Gone]
           new == [kids |-> kids, ondisk |-> file.at[v], home |-> AllKeys(v), stamp |-> file.stamp[v],
                   ver |-> v, want |-> file.at[v], from |-> 0]
<1>1. /\ mode = "disk" /\ roots' = Append(roots, new)
      /\ UNCHANGED <<mode, file, aborted, misused>>
  BY DEF nomad_db_load_root, Root
<1>2. /\ file.at[v] \in [Keys -> StoredValues] /\ v \in Nat /\ NoValue \in StoredValues
      /\ file.stamp[v] \in [Keys -> Nat] /\ AllKeys(v) \in [Keys -> Int]
  <2>1. /\ Recorded \in SUBSET Nat /\ file.at \in [Recorded -> [Keys -> StoredValues]]
        /\ file.stamp \in [Recorded -> [Keys -> Nat]]
    BY FileFacts DEF NomadInv
  <2>2. file.at[v] \in [Keys -> StoredValues] /\ file.stamp[v] \in [Keys -> Nat] /\ v \in Nat
    BY <2>1
  <2>3. AllKeys(v) \in [Keys -> Int]
    BY <2>2 DEF AllKeys
  <2> QED
    BY <2>2, <2>3 DEF StoredValues
<1>3. new \in RootNodes
  BY <1>2 DEF RootNodes
<1>4. roots \in Seq(RootNodes)
  BY DEF NomadInv, NomadTypes
<1>5. /\ roots' \in Seq(RootNodes) /\ DOMAIN roots' = 1 .. Len(roots) + 1
      /\ roots'[Len(roots) + 1] = new
      /\ \A j \in 1 .. Len(roots) : roots'[j] = roots[j] /\ j \in DOMAIN roots
  BY <1>1, <1>3, <1>4
<1>6. \A k \in Keys : new.ondisk[k] = new.want[k] /\ new.kids[k] \in {new.want[k], Gone}
  BY <1>2
<1> HIDE DEF new
<1>7. ~ misused => RootsHold'
  BY <1>4, <1>5, <1>6 DEF NomadInv, RootsHold
<1>8. NomadTypes' /\ FileSound' /\ AbortsOnMisuse' /\ MovedToHeir'
  BY <1>1, <1>5 DEF NomadInv, NomadTypes, FileSound, Recorded, AbortsOnMisuse, MovedToHeir
<1> QED
  BY <1>1, <1>7, <1>8 DEF NomadInv

LEMMA NomadInvNext == NomadInv /\ [NomadNext]_nomadVars => NomadInv'
<1> SUFFICES ASSUME NomadInv, [NomadNext]_nomadVars PROVE NomadInv'
  OBVIOUS
<1>1. CASE nomad_db_open_memory \/ \E create \in BOOLEAN : nomad_db_open_disk(create)
  BY <1>1, OpenStep
<1>2. CASE nomad_db_close
  BY <1>2, CloseStep
<1>3. ASSUME NEW i \in 0 .. Len(roots), NEW ups \in Updates, NEW v \in UpsertVersions,
             nomad_db_upsert(i, ups, v) \/ db_upsert(i, ups, v) \/ DB_Upsert(i, ups, v)
      PROVE  NomadInv'
  BY <1>3, DbUpsertStep DEF nomad_db_upsert, db_upsert, DB_Upsert
<1>4. ASSUME NEW v \in Recorded, nomad_db_load_root(v) PROVE NomadInv'
  BY <1>4, LoadStep
<1>5. CASE UNCHANGED nomadVars
  BY <1>5 DEF nomadVars, NomadInv, NomadTypes, FileSound, Recorded, RootsHold, MovedToHeir,
              AbortsOnMisuse
<1> QED
  BY <1>1, <1>2, <1>3, <1>4, <1>5 DEF NomadNext

\* No assertion of the library, and nothing it reads from a chunk that was released, ends
\* the process of a program that commits none of the misuses AbortsOnMisuse lists, in any
\* language, whatever is on disk and however long the history.
THEOREM AbortsOnMisuseAlways == NomadSpec => []AbortsOnMisuse
<1>1. NomadInit => NomadInv
  BY NomadInitial
<1>2. NomadInv /\ [NomadNext]_nomadVars => NomadInv'
  BY NomadInvNext
<1>3. NomadInv => AbortsOnMisuse
  BY DEF NomadInv
<1> QED
  BY <1>1, <1>2, <1>3, PTL DEF NomadSpec

\* A root finds what was put into it: in memory until something is upserted from it,
\* on disk as long as its version is recorded or the last upsert's and the nodes it shares
\* with recorded versions have not been released, although every upsert takes the
\* children out of the node it starts from.
THEOREM FindsOwnAlways == NomadSpec => []FindsOwn
<1>1. NomadInit => NomadInv
  BY NomadInitial
<1>2. NomadInv /\ [NomadNext]_nomadVars => NomadInv'
  BY NomadInvNext
<1>3. NomadInv => FindsOwn
  <2> SUFFICES ASSUME NomadInv, ~ misused, mode # "closed", NEW i \in DOMAIN roots, NEW k \in Keys,
                      IF mode = "disk"
                      THEN roots[i].ver \in Recorded \cup {unflushed} /\ ~ Released(roots[i], k, Recorded)
                      ELSE \A j \in DOMAIN roots : roots[j].from # i
               PROVE  nomad_db_find_from_root(i, k) = ValueIn(roots[i].want[k])
    BY DEF FindsOwn
  <2>1. mode \in {"memory", "disk"}
    BY DEF NomadInv, NomadTypes
  <2>2. roots[i].ondisk[k] = roots[i].want[k] /\ roots[i].kids[k] \in {roots[i].want[k], Gone}
    BY DEF NomadInv, RootsHold
  <2>3. CASE mode = "disk"
    <3>1. VersionHolds(roots[i].ver)
      BY <2>3 DEF VersionHolds
    <3>2. FindBelow(roots[i], k) = roots[i].want[k]
      BY <2>2, <2>3 DEF FindBelow
    <3> QED
      BY <3>1, <3>2 DEF nomad_db_find_from_root
  <2>4. CASE mode = "memory"
    <3>1. VersionHolds(roots[i].ver)
      BY <2>4 DEF VersionHolds
    <3>2. roots[i].kids[k] # Gone
      BY <2>4 DEF NomadInv, MovedToHeir
    <3>3. FindBelow(roots[i], k) = roots[i].want[k]
      BY <2>2, <3>2 DEF FindBelow
    <3> QED
      BY <3>1, <3>3 DEF nomad_db_find_from_root
  <2> QED
    BY <2>1, <2>3, <2>4
<1> QED
  BY <1>1, <1>2, <1>3, PTL DEF NomadSpec
=============================================================================
