---------------------------- MODULE ReadersProofs ----------------------------
(***************************************************************************)
(* What a find in another process says is true, although the writer frees  *)
(* and reuses chunks under it, for any number of finds, chunks, versions   *)
(* and slots of the ring and the cache.                                    *)
(***************************************************************************)
EXTENDS Readers, FiniteSetTheorems, SequenceTheorems, WellFoundedInduction, NaturalsInduction, TLAPS

-----------------------------------------------------------------------------
(* The state of the writer. *)
Nodes == [kind : {"none", "root", "leaf"}, version : Nat, child : 0 .. NumChunks]

\* A version of the history, its root and its leaf
Live(v) == oldest <= v /\ v <= newest
RootOf(v) == ring[SlotOfVersion(v)]
LeafOf(v) == disk[RootOf(v)].child

\* The chunks with a count up to Done are written and are never written again.
Writing == plan # <<>> /\ plan[1].do = "write"
Done == IF Writing THEN inserted - 1 ELSE inserted

Items == [do : {"erase", "free"}] \cup [do : {"destroy", "push"}, chunk : Chunks]
         \cup [do : {"append"}, node : Nodes] \cup [do : {"write"}, chunk : Chunks, node : Nodes]

WriterTypes ==
    /\ count \in [Chunks -> Nat] /\ freeList \in Seq(Chunks) /\ inserted \in Nat
    /\ disk \in [Chunks -> Nodes] /\ ring \in [0 .. Capacity - 1 -> 0 .. NumChunks]
    /\ newest \in Nat /\ oldest \in Nat \ {0} /\ newest <= MaxVersion
    /\ plan \in Seq(Items) /\ truth \in Seq(Nat) /\ Len(truth) = newest

\* Chunks in use have counts of their own, the free ones have none.
CountsSound ==
    /\ \A c \in Chunks : count[c] <= inserted
    /\ \A c, d \in Chunks : count[c] = count[d] /\ count[c] # 0 => c = d
    /\ \A i \in DOMAIN freeList : count[freeList[i]] = 0
    /\ \A i, j \in DOMAIN freeList : freeList[i] = freeList[j] => i = j

\* A chunk that is written
Written(c) == c \in Chunks /\ 1 <= count[c] /\ count[c] <= Done

\* The nodes of the version are where the ring and its root say.
VersionOk(v) ==
    /\ Written(RootOf(v)) /\ disk[RootOf(v)] = Root(v, LeafOf(v))
    /\ Written(LeafOf(v)) /\ disk[LeafOf(v)] = Leaf(truth[v])

Lower(n) == IF n >= Capacity THEN n - Capacity + 1 ELSE 1

\* A leaf the new version may point to
Kept(k) == Written(k) /\ disk[k] = Leaf(disk[k].version)

LeafItem == [do |-> "append", node |-> Leaf(newest + 1)]
RootItem(k) == [do |-> "append", node |-> Root(newest + 1, k)]

\* What is to be appended from item i on; the leaf kept from the version before is that
\* version's as long as chunks are freed
Appends(i, n) ==
    \/ n = 2 /\ Len(plan) = i + 1 /\ plan[i] = LeafItem /\ plan[i + 1] = RootItem(None)
    \/ n = 1 /\ Len(plan) = i /\ \E k \in Chunks :
          /\ plan[i] = RootItem(k) /\ Kept(k)
          /\ i > 1 => k = LeafOf(newest) /\ oldest <= newest

Room(n) == n <= Len(freeList)
RoomSoon(n) == n <= Len(freeList) + 1
Bounded(n) == newest + 1 <= MaxVersion /\ inserted + n <= 2 * (newest + 1)

ErasePlan == \E n \in 1 .. 2 :
    /\ plan[1] = [do |-> "erase"] /\ plan[2] = [do |-> "free"] /\ Appends(3, n)
    /\ RoomSoon(n) /\ Bounded(n) /\ newest >= Capacity /\ oldest = Lower(newest)

FreePlan == \E n \in 1 .. 2 :
    /\ plan[1] = [do |-> "free"] /\ Appends(2, n)
    /\ (Room(n) \/ (RoomSoon(n) /\ Garbage # {})) /\ Bounded(n) /\ oldest = Lower(newest + 1)

DestroyPlan == \E n \in 1 .. 2, c \in Chunks :
    /\ plan[1] = [do |-> "destroy", chunk |-> c] /\ count[c] = 0
    /\ \A i \in DOMAIN freeList : freeList[i] # c
    /\ plan[2] = [do |-> "free"] /\ Appends(3, n)
    /\ RoomSoon(n) /\ Bounded(n) /\ oldest = Lower(newest + 1)

AppendPlan == \E n \in 1 .. 2 :
    Appends(1, n) /\ Room(n) /\ Bounded(n) /\ oldest = Lower(newest + 1)

LeafPlan == \E c \in Chunks :
    /\ Len(plan) = 2 /\ plan[2] = RootItem(None)
    /\ plan[1] = [do |-> "write", chunk |-> c, node |-> Leaf(newest + 1)]
    /\ count[c] = inserted /\ inserted > 0 /\ Room(1) /\ Bounded(1) /\ oldest = Lower(newest + 1)

RootPlan == \E c, k \in Chunks :
    /\ Len(plan) = 1 /\ Kept(k)
    /\ plan[1] = [do |-> "write", chunk |-> c, node |-> Root(newest + 1, k)]
    /\ count[c] = inserted /\ inserted > 0 /\ Bounded(0) /\ oldest = Lower(newest + 1)

PushPlan == \E c, k \in Chunks :
    /\ Len(plan) = 1 /\ plan[1] = [do |-> "push", chunk |-> c]
    /\ Written(c) /\ disk[c] = Root(newest + 1, k) /\ Kept(k)
    /\ Bounded(0) /\ oldest = Lower(newest + 1)

NoPlan == plan = <<>> /\ inserted <= 2 * newest /\ oldest = Lower(newest)

PlanSound == NoPlan \/ ErasePlan \/ FreePlan \/ DestroyPlan \/ AppendPlan \/ LeafPlan
             \/ RootPlan \/ PushPlan

HistorySound == \A v \in oldest .. newest : VersionOk(v)

WriterInv == WriterTypes /\ CountsSound /\ PlanSound /\ HistorySound

-----------------------------------------------------------------------------
(* The state of the reader. *)

\* What is known for ever of a virtual offset: the node it has as long as it is in use
HoldsAt(n, x) == n \in 1 .. Done /\ \A c \in Chunks : count[c] = n => disk[c] = x
\* and the only chunk that has it, if any
IsOf(n, c) == n \in 1 .. Done /\ \A d \in Chunks : count[d] = n => d = c
InUse(n) == \E c \in Chunks : count[c] = n

Tags == {"virt", "version", "off", "none"}
Keys == (Tags \X Nat) \cup (Tags \X Nat \X Nat)
ReqRec == [at : {"idle", "busy", "done"}, version : Nat, off : 0 .. NumChunks, virt : Nat,
           root : Nodes, rootVirt : Nat, leaf : Nodes, result : {"none", "success", "gone"}]
ReadRec == [key : Keys, off : 0 .. NumChunks, virt : Nat, q : Finds \cup {None}, data : Nodes,
            landed : BOOLEAN]
Completing == {"alive", "retranslate", "insert", "deliver"}
Handling == {"slot", "bound", "translate", "valid", "lookup", "enter", "before", "pread",
             "after", "own", "resume"}
ThreadRec == [at : {"idle"} \cup Completing \cup Handling, q : Finds \cup {None},
              todo : Seq(Finds), read : ReadRec, virt : Nat]
SlotRec == [key : Nat, val : Nodes, size : Nat]

CacheOk(c) ==
    /\ DOMAIN c = {"slot", "active", "free", "used"}
    /\ c.slot \in [1 .. CacheSlots -> SlotRec]
    /\ c.active \in Seq(1 .. CacheSlots) /\ c.free \in Seq(1 .. CacheSlots)
    /\ c.active # <<>> \/ c.free # <<>>

InflightRec == [key : Keys, waiting : Seq(Finds)]

ReaderTypes ==
    /\ protocol \in {"blocking", "owning", "async", "rw"}
    /\ req \in [Finds -> ReqRec] /\ thread \in ThreadRec /\ reads \subseteq ReadRec
    /\ inflights \in Seq(InflightRec)
    /\ CacheOk(cache)
    /\ hint \in [0 .. 2 * MaxVersion -> 0 .. CacheSlots]
    /\ tree \in [1 .. MaxVersion -> Nodes]

\* Every find that is not idle has a version that was there; one that is busy has, if the
\* version still is, no nodes or the version's; one that is done says the truth.
FindOk(f) ==
    /\ f.at = "idle" => f.result = "none"
    /\ f.at # "idle" => f.version \in 1 .. newest
    /\ f.virt <= inserted /\ f.rootVirt <= inserted
    /\ f.at = "busy" =>
          /\ f.result = "none"
          /\ Live(f.version) => /\ f.root \in {Unwritten, disk[RootOf(f.version)]}
                                /\ f.leaf \in {Unwritten, disk[LeafOf(f.version)]}
    /\ f.result = "success" => f.leaf = Leaf(truth[f.version])
    /\ f.result = "gone" => ~Live(f.version)

\* The chunk of the node a find looks for
Target(f) == IF f.root = Unwritten THEN RootOf(f.version) ELSE LeafOf(f.version)

\* The writer's own finds are of versions that are there.
OwnOk(f) == protocol = "rw" => Live(f.version) /\ f.root = disk[RootOf(f.version)]

\* A find that is handled
HandledAt(f, at, data) ==
    /\ at \in {"slot", "bound"} => f.root = Unwritten /\ protocol # "rw"
    /\ at \in {"bound", "translate", "valid", "lookup", "before", "pread"} =>
          (Live(f.version) => f.off = Target(f))
    /\ at \in {"before", "pread", "after"} => f.off # None /\ protocol = "blocking"
    /\ at \in {"valid", "lookup"} => (Live(f.version) => f.virt = count[Target(f)])
    /\ at \in {"translate", "valid", "lookup"} => protocol \in {"owning", "async"}
    /\ at = "lookup" => (protocol = "async" /\ f.root = Unwritten) \/ IsOf(f.virt, f.off)
    /\ at \in {"after", "resume"} => (Live(f.version) => data = disk[Target(f)])
    /\ at = "resume" => protocol # "blocking"
    /\ at = "enter" => (Live(f.version) /\ f.leaf = Unwritten => f.root = disk[RootOf(f.version)])
    /\ at = "enter" /\ protocol = "rw" => f.leaf # Unwritten
    /\ at = "own" => protocol = "rw"

HandledOk(f) == HandledAt(f, thread.at, thread.read.data)

\* A find that waits for the node of a key
WaitsOk(f, key) ==
    /\ key[1] = "virt" => protocol \in {"owning", "async"} /\ (Live(f.version) => count[Target(f)] = key[2])
    /\ key[1] = "version" => protocol = "async" /\ f.version = key[2] /\ f.root = Unwritten
    /\ key[1] = "off" => protocol = "rw" /\ LeafOf(f.version) = key[2]
    /\ key[1] # "none"

\* What a read in flight will bring
ReadOk(r) ==
    /\ r.off # None /\ r.virt <= inserted
    /\ r.q \in Finds /\ req[r.q].at # "idle"
    /\ r.key[1] # "none"
    /\ r.key[1] = "virt" =>
          /\ protocol \in {"owning", "async"} /\ r.virt = r.key[2] /\ IsOf(r.virt, r.off)
          /\ r.landed => HoldsAt(r.virt, r.data)
    /\ r.key[1] = "version" =>
          /\ protocol = "async" /\ req[r.q].version = r.key[2]
          /\ Live(r.key[2]) => /\ r.off = RootOf(r.key[2]) /\ r.virt = count[RootOf(r.key[2])]
                               /\ r.landed => r.data = disk[RootOf(r.key[2])]
    /\ r.key[1] = "off" =>
          /\ protocol = "rw" /\ r.off = r.key[2]
          /\ Live(req[r.q].version) /\ LeafOf(req[r.q].version) = r.key[2]
          /\ r.landed => r.data = disk[r.off]

\* The read that is completed
CompletingOk(r) ==
    /\ thread.todo = <<>> /\ r.landed
    /\ r.key[1] = "version" => r.key[2] \in 1 .. newest
    /\ thread.at = "alive" => r.key[1] = "version"
    /\ thread.at \in {"alive", "deliver"} => ReadOk(r)
    /\ thread.at \in {"retranslate", "insert"} =>
          /\ r.off # None /\ r.key[1] \in {"virt", "version"}
          /\ protocol \in {"owning", "async"}
          /\ HoldsAt(r.virt, r.data) /\ IsOf(r.virt, r.off)
          /\ r.key[1] = "virt" => r.virt = r.key[2]
          /\ r.key[1] = "version" => (Live(r.key[2]) => r.virt = count[RootOf(r.key[2])])
    /\ thread.at = "insert" => (InUse(r.virt) => thread.virt = r.virt)
    /\ thread.at = "deliver" /\ protocol # "rw" => r.key[1] = "version" /\ ~Live(r.key[2])

IsCompleting == thread.at \in Completing
IsHandling == thread.at \in Handling

InFlight(r) == r \in reads \/ (IsCompleting /\ r = thread.read)

ReadsSound ==
    /\ \A r \in reads : ReadOk(r)
    /\ IsCompleting => CompletingOk(thread.read)
    /\ \A r \in reads \cup {thread.read} : InFlight(r) =>
          /\ \E i \in DOMAIN inflights : inflights[i].key = r.key
          /\ protocol = "owning" => r.key = <<"virt", r.virt>>
          /\ protocol = "owning" => \A s \in ToSet(cache.active) : cache.slot[s].key # r.virt
    /\ \A r1, r2 \in reads : r1.key = r2.key => r1 = r2
    /\ IsCompleting => \A r \in reads : r.key # thread.read.key

WaitingSound ==
    \A i \in DOMAIN inflights :
        /\ inflights[i].waiting # <<>>
        /\ \A j \in DOMAIN inflights[i].waiting :
              LET f == req[inflights[i].waiting[j]]
              IN  f.at = "busy" /\ OwnOk(f) /\ WaitsOk(f, inflights[i].key)

ThreadSound ==
    /\ thread.virt <= inserted
    /\ thread.at = "idle" => thread = ThreadIdle
    /\ IsHandling =>
          /\ thread.q \in Finds /\ req[thread.q].at = "busy"
          /\ OwnOk(req[thread.q]) /\ HandledOk(req[thread.q])
    /\ \A i \in DOMAIN thread.todo :
          /\ IsHandling /\ protocol # "blocking"
          /\ LET f == req[thread.todo[i]]
             IN  f.at = "busy" /\ OwnOk(f)
                 /\ (Live(f.version) => thread.read.data = disk[Target(f)])

\* A find is in one place.
OnePlace ==
    /\ \A i \in DOMAIN inflights : \A a \in DOMAIN inflights[i].waiting :
          /\ IsHandling => inflights[i].waiting[a] # thread.q
          /\ \A k \in DOMAIN thread.todo : inflights[i].waiting[a] # thread.todo[k]
          /\ \A j \in DOMAIN inflights : \A b \in DOMAIN inflights[j].waiting :
                inflights[i].waiting[a] = inflights[j].waiting[b] => i = j /\ a = b
    /\ \A k \in DOMAIN thread.todo :
          /\ IsHandling => thread.todo[k] # thread.q
          /\ \A m \in DOMAIN thread.todo : thread.todo[k] = thread.todo[m] => k = m

CacheHolds == \A s \in 1 .. CacheSlots :
    cache.slot[s].key # None => HoldsAt(cache.slot[s].key, cache.slot[s].val)

TreeRight == \A v \in 1 .. MaxVersion :
    tree[v] # Unwritten => v <= newest /\ tree[v] = Leaf(truth[v])

FindsSound == \A q \in Finds : FindOk(req[q])

ReaderInv == ReaderTypes /\ FindsSound /\ ReadsSound /\ WaitingSound /\ ThreadSound /\ OnePlace
             /\ CacheHolds /\ TreeRight /\ failed = {}

ReadersInv == WriterInv /\ (clean => ReaderInv)
-----------------------------------------------------------------------------
LEMMA MinIsLeast ==
    ASSUME NEW S \in SUBSET Nat, S # {}
    PROVE  Min(S) \in S /\ \A m \in S : Min(S) <= m
<1>1. PICK n \in S : \A m \in S : <<m, n>> \notin OpToRel(<, Nat)
  BY WFMin, NatLessThanWellFounded
<1>2. \A m \in S : ~(m < n)
  BY <1>1, Zenon DEF OpToRel
<1>3. \A m \in S : n <= m
  BY <1>2
<1> QED
  BY <1>3 DEF Min

\* Versions that share a slot are a turn of the ring apart.
LEMMA SlotTurn ==
    ASSUME NEW a \in Int, NEW b \in Int, SlotOfVersion(a) = SlotOfVersion(b), a < b
    PROVE  a + Capacity <= b
<1> DEFINE d == Capacity
<1>0. d \in Nat \ {0} /\ a % d = b % d
  BY ReadersAssumption DEF SlotOfVersion
<1> HIDE DEF d
<1>1. a = d * (a \div d) + (a % d) /\ b = d * (b \div d) + (b % d)
  BY <1>0
<1>2. a \div d \in Int /\ b \div d \in Int /\ a % d \in Int
  BY <1>0
<1> DEFINE p == a \div d
           q == b \div d
<1>3. b - a = d * (q - p)
  BY <1>0, <1>1, <1>2
<1> HIDE DEF p, q
<1>4. p \in Int /\ q \in Int
  BY <1>2 DEF p, q
<1>5. q - p >= 1
  BY <1>0, <1>3, <1>4
<1>6. d * (q - p) >= d
  BY <1>0, <1>4, <1>5
<1> QED
  BY <1>0, <1>3, <1>6 DEF d

LEMMA SlotRange ==
    ASSUME NEW v \in Int
    PROVE  SlotOfVersion(v) \in 0 .. Capacity - 1
BY ReadersAssumption DEF SlotOfVersion

LEMMA UnwrittenIsNode == Unwritten \in Nodes
BY ReadersAssumption DEF Unwritten, Nodes, None

\* The initial state
LEMMA WriterInit == ReadersInit => WriterInv
<1> SUFFICES ASSUME ReadersInit PROVE WriterInv
  OBVIOUS
<1>1. /\ count = [c \in Chunks |-> 0] /\ freeList = [i \in Chunks |-> i] /\ inserted = 0
      /\ disk = [c \in Chunks |-> Unwritten]
      /\ ring = [s \in 0 .. Capacity - 1 |-> None] /\ newest = 0 /\ oldest = 1
      /\ plan = <<>> /\ truth = <<>>
  BY DEF ReadersInit
<1>2. freeList \in Seq(Chunks) /\ DOMAIN freeList = Chunks
  <2>1. freeList \in [1 .. NumChunks -> Chunks]
    BY <1>1 DEF Chunks
  <2> QED
    BY <2>1, ReadersAssumption, SeqDef DEF Chunks
<1>3. WriterTypes
  <2>1. plan \in Seq(Items) /\ truth \in Seq(Nat) /\ Len(truth) = 0
    BY <1>1
  <2>2. count \in [Chunks -> Nat] /\ disk \in [Chunks -> Nodes]
    BY <1>1, UnwrittenIsNode
  <2>3. ring \in [0 .. Capacity - 1 -> 0 .. NumChunks]
    BY <1>1, ReadersAssumption DEF None
  <2> QED
    BY <1>1, <1>2, <2>1, <2>2, <2>3, ReadersAssumption DEF WriterTypes
<1>4. CountsSound
  <2>1. \A c \in Chunks : count[c] = 0 /\ freeList[c] = c
    BY <1>1
  <2> QED
    BY <1>1, <1>2, <2>1 DEF CountsSound
<1>5. PlanSound
  BY <1>1, ReadersAssumption DEF PlanSound, NoPlan, Lower
<1>6. HistorySound
  BY <1>1 DEF HistorySound
<1> QED
  BY <1>3, <1>4, <1>5, <1>6 DEF WriterInv

-----------------------------------------------------------------------------
(* What a plan with a given head looks like. *)
LEMMA PlanHead ==
    ASSUME WriterInv, plan # <<>>
    PROVE  /\ Head(plan) = plan[1] /\ Len(plan) >= 1 /\ Len(plan) \in Nat
           /\ plan[1].do = "erase" => ErasePlan
           /\ plan[1].do = "free" => FreePlan
           /\ plan[1].do = "destroy" => DestroyPlan
           /\ plan[1].do = "append" => AppendPlan
           /\ plan[1].do = "write" => LeafPlan \/ RootPlan
           /\ plan[1].do = "push" => PushPlan
<1>1. plan \in Seq(Items) /\ PlanSound
  BY DEF WriterInv, WriterTypes
<1>2. Head(plan) = plan[1] /\ Len(plan) >= 1 /\ Len(plan) \in Nat
  BY <1>1
<1>3. ErasePlan => plan[1].do = "erase"
  BY DEF ErasePlan
<1>4. FreePlan => plan[1].do = "free"
  BY DEF FreePlan
<1>5. DestroyPlan => plan[1].do = "destroy"
  BY DEF DestroyPlan
<1>6. AppendPlan => plan[1].do = "append"
  <2>1. LeafItem.do = "append" /\ \A k : RootItem(k).do = "append"
    BY DEF LeafItem, RootItem
  <2> QED
    BY <2>1 DEF AppendPlan, Appends
<1>7. LeafPlan \/ RootPlan => plan[1].do = "write"
  <2>1. ASSUME LeafPlan PROVE plan[1].do = "write"
    BY <2>1 DEF LeafPlan
  <2>2. ASSUME RootPlan PROVE plan[1].do = "write"
    BY <2>2 DEF RootPlan
  <2> QED
    BY <2>1, <2>2
<1>8. PushPlan => plan[1].do = "push"
  BY DEF PushPlan
<1>9. ErasePlan \/ FreePlan \/ DestroyPlan \/ AppendPlan \/ LeafPlan \/ RootPlan \/ PushPlan
  BY <1>1 DEF PlanSound, NoPlan
<1> QED
  BY <1>2, <1>3, <1>4, <1>5, <1>6, <1>7, <1>8, <1>9

\* What the writer leaves alone: a chunk that is written keeps its node or loses its count,
\* and no other gets a count that was given before.
ChunksSteady ==
    /\ Done' \in Nat /\ Done' >= Done
    /\ \A c \in Chunks : Written(c) => \/ count'[c] = count[c] /\ disk'[c] = disk[c]
                                       \/ count'[c] = 0
    /\ \A c \in Chunks : ~Written(c) => count'[c] = 0 \/ count'[c] > Done

\* The nodes of the versions that stay
VersionSteady(v) ==
    /\ Live(v) /\ RootOf(v)' = RootOf(v)
    /\ disk'[RootOf(v)] = disk[RootOf(v)] /\ count'[RootOf(v)] = count[RootOf(v)]
    /\ disk'[LeafOf(v)] = disk[LeafOf(v)] /\ count'[LeafOf(v)] = count[LeafOf(v)]
VersionsSteady == \A v \in 1 .. newest : Live(v)' => VersionSteady(v)

Steady ==
    /\ ChunksSteady /\ VersionsSteady
    /\ newest' \in Nat /\ newest' >= newest /\ oldest' >= oldest /\ inserted' >= inserted
    /\ \A v \in 1 .. newest : truth'[v] = truth[v]

LEMMA DoneType ==
    ASSUME WriterInv
    PROVE  Done \in Nat /\ Done <= inserted /\ inserted <= Done + 1
<1>1. inserted \in Nat
  BY DEF WriterInv, WriterTypes
<1>2. CASE Writing
  <2>1. plan # <<>> /\ plan[1].do = "write"
    BY <1>2 DEF Writing
  <2>2. inserted > 0
    BY <2>1, PlanHead DEF LeafPlan, RootPlan
  <2> QED
    BY <1>1, <1>2, <2>2 DEF Done
<1>3. CASE ~Writing
  BY <1>1, <1>3 DEF Done
<1> QED
  BY <1>2, <1>3

\* The history of a step that leaves newest and the values alone
LEMMA HistoryKept ==
    ASSUME WriterInv, ChunksSteady, VersionsSteady, newest' = newest, truth' = truth,
           oldest' \in Nat \ {0}
    PROVE  HistorySound'
<1> SUFFICES ASSUME NEW v \in oldest' .. newest' PROVE VersionOk(v)'
  BY DEF HistorySound
<1>1. v \in 1 .. newest /\ Live(v)'
  BY DEF Live, WriterInv, WriterTypes
<1>2. VersionSteady(v)
  BY <1>1 DEF VersionsSteady
<1>3. VersionOk(v)
  BY <1>1, <1>2 DEF VersionSteady, Live, WriterInv, HistorySound, WriterTypes
<1>4. LeafOf(v)' = LeafOf(v)
  BY <1>2 DEF VersionSteady, LeafOf
<1>5. Written(RootOf(v))' /\ Written(LeafOf(v))'
  BY <1>2, <1>3, <1>4, DoneType DEF VersionOk, Written, VersionSteady, ChunksSteady, WriterInv, WriterTypes
<1> QED
  BY <1>2, <1>3, <1>4, <1>5 DEF VersionOk, VersionSteady

-----------------------------------------------------------------------------
LEMMA VersionsOk ==
    ASSUME WriterInv, NEW v \in oldest .. newest
    PROVE  /\ v \in Nat /\ RootOf(v) \in Chunks /\ LeafOf(v) \in Chunks
           /\ Written(RootOf(v)) /\ Written(LeafOf(v)) /\ RootOf(v) # None
           /\ disk[RootOf(v)] = Root(v, LeafOf(v)) /\ disk[LeafOf(v)] = Leaf(truth[v])
           /\ count[RootOf(v)] # 0 /\ count[LeafOf(v)] # 0
BY DEF WriterInv, WriterTypes, HistorySound, VersionOk, Written, Chunks, None

LEMMA ReferencedIs ==
    ASSUME WriterInv, NEW x
    PROVE  x \in Referenced <=> \E v \in oldest .. newest : x = RootOf(v) \/ x = LeafOf(v)
<1>1. newest \in Nat /\ oldest \in Nat \ {0}
  BY DEF WriterInv, WriterTypes
<1>2. ASSUME NEW v \in 1 .. newest PROVE IsValid(v) <=> v \in oldest .. newest
  BY <1>1, VersionsOk DEF IsValid, RootOf
<1>3. x \in Referenced <=> \E v \in 1 .. newest : IsValid(v) /\ (x = RootOf(v) \/ x = LeafOf(v))
  BY DEF Referenced, RootOf, LeafOf
<1> QED
  BY <1>1, <1>2, <1>3

LEMMA EraseStep ==
    ASSUME WriterInv, Erase
    PROVE  WriterInv' /\ Steady
<1>1. /\ plan # <<>> /\ plan[1].do = "erase" /\ plan' = Tail(plan) /\ oldest' = oldest + 1
      /\ ring' = [ring EXCEPT ![SlotOfVersion(oldest)] = None]
      /\ count' = count /\ freeList' = freeList /\ inserted' = inserted /\ disk' = disk
      /\ newest' = newest /\ truth' = truth
  BY PlanHead DEF Erase, Planned
<1>2. ErasePlan
  BY <1>1, PlanHead
<1>3. WriterTypes
  BY DEF WriterInv
<1>4. PICK n \in 1 .. 2 :
          /\ plan[1] = [do |-> "erase"] /\ plan[2] = [do |-> "free"] /\ Appends(3, n)
          /\ RoomSoon(n) /\ Bounded(n) /\ newest >= Capacity /\ oldest = Lower(newest)
  BY <1>2 DEF ErasePlan
<1>5. newest \in Nat /\ oldest \in Nat \ {0} /\ Capacity \in Nat /\ Capacity >= 2
  BY <1>3, ReadersAssumption DEF WriterTypes
<1>6. oldest = newest - Capacity + 1 /\ oldest < newest
  BY <1>4, <1>5 DEF Lower
<1>7. /\ plan' \in Seq(Items) /\ Len(plan') = Len(plan) - 1 /\ Len(plan) \in Nat /\ Len(plan) >= 3
      /\ \A i \in 1 .. Len(plan) - 1 : plan'[i] = plan[i + 1]
  <2>1. plan \in Seq(Items) /\ Len(plan) \in Nat
    BY <1>3 DEF WriterTypes
  <2>2. Len(plan) >= 3
    BY <1>4, <2>1 DEF Appends
  <2> QED
    BY <1>1, <2>1, <2>2
<1>8. plan'[1] = [do |-> "free"] /\ plan' # <<>>
  BY <1>4, <1>7
<1>9. Done = inserted /\ Done' = inserted /\ inserted \in Nat
  BY <1>1, <1>3, <1>8 DEF Done, Writing, WriterTypes
<1>10. \A c : Written(c)' <=> Written(c)
  BY <1>1, <1>9 DEF Written
<1>11. WriterTypes'
  <2>1. ring' \in [0 .. Capacity - 1 -> 0 .. NumChunks]
    <3>1. ring \in [0 .. Capacity - 1 -> 0 .. NumChunks] /\ None \in 0 .. NumChunks
      BY <1>3, ReadersAssumption DEF WriterTypes, None
    <3> QED
      BY <1>1, <3>1
  <2> QED
    BY <1>1, <1>3, <1>5, <1>7, <2>1 DEF WriterTypes
<1>12. CountsSound'
  BY <1>1 DEF WriterInv, CountsSound
<1>13. ChunksSteady
  BY <1>1, <1>9, <1>3 DEF ChunksSteady, Written, WriterTypes
<1>14. ASSUME NEW v \in oldest + 1 .. newest PROVE RootOf(v)' = RootOf(v)
  <2>1. SlotOfVersion(v) # SlotOfVersion(oldest)
    BY <1>5, <1>6, SlotTurn
  <2>2. SlotOfVersion(v) \in 0 .. Capacity - 1
    BY <1>5, SlotRange
  <2> QED
    BY <1>1, <1>3, <2>1, <2>2 DEF RootOf, WriterTypes, SlotOfVersion
<1>15. VersionsSteady
  BY <1>1, <1>5, <1>14 DEF VersionsSteady, VersionSteady, Live
<1>16. HistorySound'
  BY <1>1, <1>5, <1>13, <1>15, HistoryKept
<1>17. Garbage' # {}
  <2> DEFINE c == RootOf(oldest)
  <2>1. oldest \in oldest .. newest
    BY <1>5, <1>6
  <2>2. c \in Chunks /\ count[c] # 0 /\ disk[c] = Root(oldest, LeafOf(oldest))
    BY <2>1, VersionsOk
  <2>3. ASSUME NEW u \in 1 .. newest, IsValid(u)' PROVE c # ring'[SlotOfVersion(u)] /\ c # disk[ring'[SlotOfVersion(u)]].child
    <3>1. u \in oldest + 1 .. newest /\ u \in oldest .. newest /\ u # oldest
      BY <1>1, <1>5, <2>3 DEF IsValid
    <3>2. ring'[SlotOfVersion(u)] = RootOf(u)
      BY <1>14, <3>1 DEF RootOf, SlotOfVersion
    <3>3. disk[RootOf(u)] = Root(u, LeafOf(u)) /\ disk[LeafOf(u)] = Leaf(truth[u])
      BY <3>1, VersionsOk
    <3>4. disk[c].version = oldest /\ disk[c].kind = "root"
      BY <2>2 DEF Root
    <3>5. disk[RootOf(u)].version = u /\ disk[LeafOf(u)].kind = "leaf"
      BY <3>3 DEF Root, Leaf
    <3> HIDE DEF c
    <3> QED
      BY <3>1, <3>2, <3>4, <3>5 DEF LeafOf
  <2>4. c \notin Referenced'
    <3>1. Referenced' = UNION {LET r == ring'[SlotOfVersion(v)] IN {r, disk'[r].child} :
                     v \in {u \in 1 .. newest' : IsValid(u)'}}
      BY DEF Referenced, SlotOfVersion
    <3> HIDE DEF c
    <3> QED
      BY <1>1, <2>3, <3>1
  <2> QED
    BY <1>1, <2>2, <2>4 DEF Garbage
<1>18. Appends(2, n)'
  <2>1. CASE n = 2 /\ Len(plan) = 4 /\ plan[3] = LeafItem /\ plan[4] = RootItem(None)
    <3>1. LeafItem' = LeafItem /\ RootItem(None)' = RootItem(None)
      BY <1>1 DEF LeafItem, RootItem, None
    <3>2. plan'[2] = plan[3] /\ plan'[3] = plan[4] /\ Len(plan') = 3
      BY <1>7, <2>1
    <3> QED
      BY <2>1, <3>1, <3>2 DEF Appends
  <2>2. CASE n = 1 /\ Len(plan) = 3 /\ \E k \in Chunks :
                 plan[3] = RootItem(k) /\ Kept(k) /\ k = LeafOf(newest) /\ oldest <= newest
    <3>1. PICK k \in Chunks : plan[3] = RootItem(k) /\ Kept(k) /\ k = LeafOf(newest)
      BY <2>2
    <3>2. RootItem(k)' = RootItem(k)
      BY <1>1 DEF RootItem
    <3>3. Kept(k)'
      BY <1>1, <1>10, <3>1 DEF Kept
    <3>4. LeafOf(newest)' = LeafOf(newest)
      <4>1. PICK m \in oldest + 1 .. newest : m = newest
        BY <1>5, <1>6
      <4>2. RootOf(newest)' = RootOf(newest)
        BY <1>1, <1>14, <4>1 DEF RootOf, SlotOfVersion
      <4> QED
        BY <1>1, <4>2 DEF LeafOf
    <3>5. plan'[2] = plan[3] /\ Len(plan') = 2
      BY <1>7, <2>2
    <3>6. oldest' <= newest'
      BY <1>1, <1>5, <1>6
    <3> QED
      BY <2>2, <3>1, <3>2, <3>3, <3>4, <3>5, <3>6 DEF Appends
  <2> QED
    BY <1>4, <2>1, <2>2 DEF Appends
<1>19. PlanSound'
  <2>1. RoomSoon(n)' /\ Bounded(n)'
    BY <1>1, <1>4 DEF RoomSoon, Bounded
  <2>2. oldest' = Lower(newest + 1)'
    BY <1>1, <1>5, <1>6 DEF Lower
  <2> QED
    BY <1>8, <1>17, <1>18, <2>1, <2>2 DEF PlanSound, FreePlan
<1> QED
  BY <1>1, <1>5, <1>9, <1>11, <1>12, <1>13, <1>15, <1>16, <1>19 DEF WriterInv, Steady

\* Items that follow are shifted by a step of the plan.
LEMMA AppendsShift ==
    ASSUME WriterInv, NEW i \in 1 .. 3, NEW j \in 1 .. 3, NEW n \in 1 .. 2, Appends(i, n),
           newest' = newest, Len(plan') = Len(plan) - i + j,
           \A m \in i .. Len(plan) : plan'[m - i + j] = plan[m],
           j > 1 => i > 1 /\ LeafOf(newest)' = LeafOf(newest) /\ oldest' = oldest,
           \A k \in Chunks : Kept(k) /\ (i > 1 => k = LeafOf(newest) /\ oldest <= newest) => Kept(k)'
    PROVE  Appends(j, n)'
<1>1. LeafItem' = LeafItem /\ \A k : RootItem(k)' = RootItem(k)
  BY DEF LeafItem, RootItem
<1>2. Len(plan) \in Nat
  BY DEF WriterInv, WriterTypes
<1>3. CASE n = 2 /\ Len(plan) = i + 1 /\ plan[i] = LeafItem /\ plan[i + 1] = RootItem(None)
  <2>0. plan'[i - i + j] = plan[i] /\ plan'[(i + 1) - i + j] = plan[i + 1]
    BY <1>2, <1>3
  <2>1. plan'[j] = plan[i] /\ plan'[j + 1] = plan[i + 1] /\ Len(plan') = j + 1
    <3>1. i - i + j = j /\ (i + 1) - i + j = j + 1
      OBVIOUS
    <3> QED
      BY <1>3, <2>0, <3>1
  <2>2. RootItem(None)' = RootItem(None)
    BY DEF RootItem, None
  <2> QED
    BY <1>1, <1>3, <2>1, <2>2 DEF Appends
<1>4. CASE n = 1 /\ Len(plan) = i /\ \E k \in Chunks :
               plan[i] = RootItem(k) /\ Kept(k) /\ (i > 1 => k = LeafOf(newest) /\ oldest <= newest)
  <2>1. PICK k \in Chunks : plan[i] = RootItem(k) /\ Kept(k) /\ (i > 1 => k = LeafOf(newest) /\ oldest <= newest)
    BY <1>4
  <2>2. plan'[j] = plan[i] /\ Len(plan') = j
    BY <1>2, <1>4
  <2>3. Kept(k)'
    BY <2>1
  <2>4. j > 1 => k = LeafOf(newest)' /\ oldest' <= newest'
    BY <2>1
  <2> QED
    BY <1>1, <1>4, <2>1, <2>2, <2>3, <2>4 DEF Appends
<1> QED
  BY <1>3, <1>4 DEF Appends

LEMMA FreeStep ==
    ASSUME WriterInv, Free
    PROVE  WriterInv' /\ Steady
<1>1. /\ plan # <<>> /\ plan[1].do = "free"
      /\ plan' = (IF Garbage = {} THEN Tail(plan)
                  ELSE <<[do |-> "destroy", chunk |-> Min(Garbage)]>> \o plan)
      /\ count' = IF Garbage = {} THEN count ELSE [count EXCEPT ![Min(Garbage)] = 0]
      /\ freeList' = freeList /\ inserted' = inserted /\ disk' = disk /\ ring' = ring
      /\ newest' = newest /\ oldest' = oldest /\ truth' = truth
  BY PlanHead DEF Free, Planned
<1>2. FreePlan
  BY <1>1, PlanHead
<1>3. WriterTypes
  BY DEF WriterInv
<1>4. PICK n \in 1 .. 2 :
          /\ plan[1] = [do |-> "free"] /\ Appends(2, n)
          /\ (Room(n) \/ (RoomSoon(n) /\ Garbage # {})) /\ Bounded(n) /\ oldest = Lower(newest + 1)
  BY <1>2 DEF FreePlan
<1>5. newest \in Nat /\ oldest \in Nat \ {0} /\ inserted \in Nat
  BY <1>3 DEF WriterTypes
<1>6. plan \in Seq(Items) /\ Len(plan) \in Nat /\ Len(plan) >= 2
  BY <1>3, <1>4 DEF WriterTypes, Appends
<1>7. Done = inserted
  BY <1>1 DEF Done, Writing
<1>8. LeafOf(newest)' = LeafOf(newest)
  BY <1>1 DEF LeafOf, RootOf, SlotOfVersion
<1>9. Bounded(n)' /\ oldest' = Lower(newest + 1)'
  BY <1>1, <1>4 DEF Bounded, Lower
<1>10. CASE Garbage = {}
  <2>1. plan' = Tail(plan) /\ count' = count
    BY <1>1, <1>10
  <2>2. /\ plan' \in Seq(Items) /\ Len(plan') = Len(plan) - 2 + 1
        /\ \A m \in 2 .. Len(plan) : plan'[m - 2 + 1] = plan[m]
    BY <1>6, <2>1
  <2>3. plan'[1].do = "append" /\ plan' # <<>>
    <3>1. LeafItem.do = "append" /\ \A k : RootItem(k).do = "append"
      BY DEF LeafItem, RootItem
    <3>2. plan[2].do = "append"
      BY <1>4, <3>1 DEF Appends
    <3> QED
      BY <1>6, <2>2, <3>2
  <2>4. Done' = Done
    BY <1>1, <1>7, <2>3 DEF Done, Writing
  <2>5. \A c : Written(c)' <=> Written(c)
    BY <2>1, <2>4 DEF Written
  <2>6. ChunksSteady
    BY <1>1, <1>3, <1>7, <2>1, <2>4 DEF ChunksSteady, Written, WriterTypes
  <2>7. VersionsSteady
    BY <1>1, <2>1 DEF VersionsSteady, VersionSteady, Live, RootOf, SlotOfVersion
  <2>8. HistorySound'
    BY <1>1, <1>5, <2>6, <2>7, HistoryKept
  <2>9. \A k : Kept(k)' <=> Kept(k)
    BY <1>1, <2>5 DEF Kept
  <2>10. Appends(1, n)'
    BY <1>1, <1>4, <2>2, <2>9, AppendsShift
  <2>11. Room(n)'
    BY <1>1, <1>4, <1>10 DEF Room
  <2>12. PlanSound'
    BY <1>9, <2>10, <2>11 DEF PlanSound, AppendPlan
  <2>13. WriterTypes'
    BY <1>1, <1>3, <2>1, <2>2 DEF WriterTypes
  <2>14. CountsSound'
    BY <1>1, <2>1 DEF WriterInv, CountsSound
  <2> QED
    BY <1>1, <1>5, <2>6, <2>7, <2>8, <2>12, <2>13, <2>14 DEF WriterInv, Steady
<1>11. CASE Garbage # {}
  <2>1. PICK c : c = Min(Garbage)
    OBVIOUS
  <2>2. c \in Chunks /\ count[c] # 0 /\ c \notin Referenced
    <3>1. Garbage \in SUBSET Nat
      BY ReadersAssumption DEF Garbage, Chunks
    <3>2. c \in Garbage
      BY <1>11, <2>1, <3>1, MinIsLeast
    <3> QED
      BY <3>2 DEF Garbage
  <2>3. /\ plan' = <<[do |-> "destroy", chunk |-> c]>> \o plan
        /\ count' = [count EXCEPT ![c] = 0]
    BY <1>1, <1>11, <2>1
  <2>4. /\ plan' \in Seq(Items) /\ Len(plan') = Len(plan) + 1
        /\ plan'[1] = [do |-> "destroy", chunk |-> c]
        /\ \A m \in 1 .. Len(plan) : plan'[m + 1] = plan[m]
    <3>1. PICK item : item = [do |-> "destroy", chunk |-> c]
      OBVIOUS
    <3>2. item \in Items
      BY <2>2, <3>1 DEF Items
    <3>3. plan' = <<item>> \o plan
      BY <2>3, <3>1
    <3> QED
      BY <1>6, <3>1, <3>2, <3>3
  <2>5. Done' = Done
    BY <1>1, <1>7, <2>4 DEF Done, Writing
  <2>6. \A d \in Chunks : count'[d] = IF d = c THEN 0 ELSE count[d]
    BY <1>3, <2>3 DEF WriterTypes
  <2>7. ChunksSteady
    BY <1>1, <1>3, <1>7, <2>5, <2>6 DEF ChunksSteady, Written, WriterTypes
  <2>8. ASSUME NEW v \in oldest .. newest
        PROVE  RootOf(v) \in Chunks \ {c} /\ LeafOf(v) \in Chunks \ {c}
    BY <2>2, <2>8, VersionsOk, ReferencedIs
  <2>9. VersionsSteady
    <3> SUFFICES ASSUME NEW v \in 1 .. newest, Live(v)' PROVE VersionSteady(v)
      BY DEF VersionsSteady
    <3>1. v \in oldest .. newest /\ Live(v)
      BY <1>1, <1>5 DEF Live
    <3>2. RootOf(v) \in Chunks \ {c} /\ LeafOf(v) \in Chunks \ {c}
      BY <2>8, <3>1
    <3>3. RootOf(v)' = RootOf(v)
      BY <1>1 DEF RootOf, SlotOfVersion
    <3> QED
      BY <1>1, <2>6, <3>1, <3>2, <3>3 DEF VersionSteady
  <2>10. HistorySound'
    BY <1>1, <1>5, <2>7, <2>9, HistoryKept
  <2>11. ASSUME NEW k \in Chunks, Kept(k), k = LeafOf(newest) /\ oldest <= newest PROVE Kept(k)'
    <3>1. newest \in oldest .. newest
      BY <1>5, <2>11
    <3>2. k # c
      BY <2>8, <2>11, <3>1
    <3>3. count'[k] = count[k]
      BY <2>6, <3>2
    <3> QED
      BY <1>1, <2>5, <2>11, <3>3 DEF Kept, Written
  <2>12. Appends(3, n)'
    <3>1. Len(plan') = Len(plan) - 2 + 3 /\ \A m \in 2 .. Len(plan) : plan'[m - 2 + 3] = plan[m]
      BY <1>6, <2>4
    <3> QED
      BY <1>1, <1>4, <1>8, <2>11, <3>1, AppendsShift
  <2>13. RoomSoon(n)'
    <3>1. Len(freeList) \in Nat
      BY <1>3 DEF WriterTypes
    <3> QED
      BY <1>1, <1>4, <3>1 DEF RoomSoon, Room
  <2>14. plan'[2] = [do |-> "free"]
    BY <1>4, <1>6, <2>4
  <2>15. count'[c] = 0 /\ \A i \in DOMAIN freeList : freeList[i] # c
    BY <2>2, <2>6 DEF WriterInv, CountsSound
  <2>16. DestroyPlan'
    BY <1>1, <1>9, <2>2, <2>4, <2>12, <2>13, <2>14, <2>15 DEF DestroyPlan, Chunks
  <2>17. WriterTypes'
    <3>1. count' \in [Chunks -> Nat]
      BY <1>3, <2>3 DEF WriterTypes
    <3> QED
      BY <1>1, <1>3, <2>4, <3>1 DEF WriterTypes
  <2>18. CountsSound'
    <3>1. CountsSound /\ freeList \in Seq(Chunks)
      BY <1>3 DEF WriterInv, WriterTypes
    <3>2. \A i \in DOMAIN freeList : freeList[i] \in Chunks
      BY <3>1
    <3> QED
      BY <1>1, <1>3, <2>6, <3>1, <3>2 DEF CountsSound, WriterTypes
  <2> QED
    BY <1>1, <1>5, <2>7, <2>9, <2>10, <2>16, <2>17, <2>18 DEF WriterInv, Steady, PlanSound
<1> QED
  BY <1>10, <1>11

LEMMA DestroyStep ==
    ASSUME WriterInv, DestroyContents
    PROVE  WriterInv' /\ Steady
<1>1. /\ plan # <<>> /\ plan[1].do = "destroy" /\ plan' = Tail(plan)
      /\ disk' = [disk EXCEPT ![plan[1].chunk] = Unwritten]
      /\ freeList' = Append(freeList, plan[1].chunk)
      /\ count' = count /\ inserted' = inserted /\ ring' = ring
      /\ newest' = newest /\ oldest' = oldest /\ truth' = truth
  BY PlanHead DEF DestroyContents, Planned
<1>2. DestroyPlan
  BY <1>1, PlanHead
<1>3. WriterTypes
  BY DEF WriterInv
<1>4. PICK n \in 1 .. 2, c \in Chunks :
        /\ plan[1] = [do |-> "destroy", chunk |-> c] /\ count[c] = 0
        /\ \A i \in DOMAIN freeList : freeList[i] # c
        /\ plan[2] = [do |-> "free"] /\ Appends(3, n)
        /\ RoomSoon(n) /\ Bounded(n) /\ oldest = Lower(newest + 1)
  BY <1>2 DEF DestroyPlan
<1>5. newest \in Nat /\ oldest \in Nat \ {0} /\ inserted \in Nat
  BY <1>3 DEF WriterTypes
<1>6. plan \in Seq(Items) /\ Len(plan) \in Nat /\ Len(plan) >= 3
  BY <1>3, <1>4 DEF WriterTypes, Appends
<1>7. Done = inserted
  BY <1>1 DEF Done, Writing
<1>8. /\ plan' \in Seq(Items) /\ Len(plan') = Len(plan) - 1
      /\ \A m \in 2 .. Len(plan) : plan'[m - 1] = plan[m]
  BY <1>1, <1>6
<1>9. plan'[1] = [do |-> "free"] /\ plan' # <<>>
  BY <1>4, <1>6, <1>8
<1>10. Done' = Done
  BY <1>1, <1>7, <1>9 DEF Done, Writing
<1>11. plan[1].chunk = c
  BY <1>4
<1>12. /\ disk' \in [Chunks -> Nodes]
       /\ \A d \in Chunks : d # c => disk'[d] = disk[d]
  <2>1. disk' = [disk EXCEPT ![c] = Unwritten] /\ disk \in [Chunks -> Nodes]
    BY <1>1, <1>3, <1>11 DEF WriterTypes
  <2> QED
    BY <2>1, UnwrittenIsNode
<1>13. /\ freeList' \in Seq(Chunks) /\ Len(freeList') = Len(freeList) + 1
       /\ Len(freeList) \in Nat /\ freeList'[Len(freeList) + 1] = c
       /\ \A i \in 1 .. Len(freeList) : freeList'[i] = freeList[i]
  <2>1. freeList' = Append(freeList, c) /\ freeList \in Seq(Chunks)
    BY <1>1, <1>3, <1>11 DEF WriterTypes
  <2> QED
    BY <2>1
<1>14. \A d : Written(d) => disk'[d] = disk[d]
  BY <1>4, <1>12 DEF Written
<1>15. \A d : Written(d)' <=> Written(d)
  BY <1>1, <1>10 DEF Written
<1>16. ChunksSteady
  BY <1>1, <1>3, <1>7, <1>10, <1>14 DEF ChunksSteady, Written, WriterTypes
<1>17. VersionsSteady
  <2> SUFFICES ASSUME NEW v \in 1 .. newest, Live(v)' PROVE VersionSteady(v)
    BY DEF VersionsSteady
  <2>1. v \in oldest .. newest /\ Live(v)
    BY <1>1, <1>5 DEF Live
  <2>2. RootOf(v)' = RootOf(v)
    BY <1>1 DEF RootOf, SlotOfVersion
  <2> QED
    BY <1>1, <1>14, <2>1, <2>2, VersionsOk DEF VersionSteady
<1>18. HistorySound'
  BY <1>1, <1>5, <1>16, <1>17, HistoryKept
<1>19. oldest <= newest => LeafOf(newest)' = LeafOf(newest)
  <2> SUFFICES ASSUME oldest <= newest PROVE LeafOf(newest)' = LeafOf(newest)
    OBVIOUS
  <2>1. newest \in oldest .. newest
    BY <1>5
  <2>2. RootOf(newest)' = RootOf(newest)
    BY <1>1 DEF RootOf, SlotOfVersion
  <2>3. disk'[RootOf(newest)] = disk[RootOf(newest)]
    BY <1>14, <2>1, VersionsOk
  <2> QED
    BY <2>2, <2>3 DEF LeafOf
<1>20. \A k \in Chunks : Kept(k) => Kept(k)'
  BY <1>14, <1>15 DEF Kept
<1>21. Appends(2, n)'
  <2>1. Len(plan') = Len(plan) - 3 + 2 /\ \A m \in 3 .. Len(plan) : plan'[m - 3 + 2] = plan[m]
    BY <1>6, <1>8
  <2>2. CASE oldest <= newest
    BY <1>1, <1>4, <1>19, <1>20, <2>1, <2>2, AppendsShift
  <2>3. CASE ~(oldest <= newest)
    <3>1. n = 2 /\ Len(plan) = 4 /\ plan[3] = LeafItem /\ plan[4] = RootItem(None)
      BY <1>4, <2>3 DEF Appends
    <3>2. plan'[2] = plan[3] /\ plan'[3] = plan[4] /\ Len(plan') = 3
      BY <1>8, <3>1
    <3>3. LeafItem' = LeafItem /\ RootItem(None)' = RootItem(None)
      BY <1>1 DEF LeafItem, RootItem, None
    <3> QED
      BY <3>1, <3>2, <3>3 DEF Appends
  <2> QED
    BY <2>2, <2>3
<1>22. PlanSound'
  <2>1. Room(n)'
    BY <1>4, <1>13 DEF Room, RoomSoon
  <2>2. Bounded(n)' /\ oldest' = Lower(newest + 1)'
    BY <1>1, <1>4 DEF Bounded, Lower
  <2> QED
    BY <1>9, <1>21, <2>1, <2>2 DEF PlanSound, FreePlan
<1>23. WriterTypes'
  BY <1>1, <1>3, <1>8, <1>12, <1>13 DEF WriterTypes
<1>24. CountsSound'
  <2>1. CountsSound
    BY DEF WriterInv
  <2>2. DOMAIN freeList = 1 .. Len(freeList) /\ DOMAIN freeList' = 1 .. Len(freeList) + 1
    BY <1>3, <1>13 DEF WriterTypes
  <2>3. \A i \in DOMAIN freeList' : i = Len(freeList) + 1 \/ (i \in DOMAIN freeList /\ freeList'[i] = freeList[i])
    BY <1>13, <2>2
  <2>4. (\A c_1 \in Chunks : count[c_1] <= inserted)'
    BY <1>1, <2>1 DEF CountsSound
  <2>5. (\A c_1, d \in Chunks : count[c_1] = count[d] /\ count[c_1] # 0 => c_1 = d)'
    BY <1>1, <2>1 DEF CountsSound
  <2>6. \A i \in DOMAIN freeList' : count'[freeList'[i]] = 0
    BY <1>1, <1>4, <1>13, <2>1, <2>3 DEF CountsSound
  <2>7. \A i, j \in DOMAIN freeList' : freeList'[i] = freeList'[j] => i = j
    BY <1>4, <1>13, <2>1, <2>3 DEF CountsSound
  <2> QED
    BY <2>4, <2>5, <2>6, <2>7 DEF CountsSound
<1> QED
  BY <1>1, <1>5, <1>16, <1>17, <1>18, <1>22, <1>23, <1>24 DEF WriterInv, Steady

LEMMA NodesTyped ==
    ASSUME NEW v \in Nat
    PROVE  /\ Leaf(v) \in Nodes /\ Root(v, None) \in Nodes
           /\ \A k \in Chunks : Root(v, k) \in Nodes
BY ReadersAssumption DEF Leaf, Root, Nodes, None, Chunks

LEMMA AppendStep ==
    ASSUME WriterInv, AppendChunk
    PROVE  WriterInv' /\ Steady
<1>1. PICK c : /\ c = Head(freeList) /\ plan # <<>> /\ plan[1].do = "append"
               /\ freeList' = Tail(freeList) /\ inserted' = inserted + 1
               /\ count' = [count EXCEPT ![c] = inserted + 1]
               /\ plan' = <<[do |-> "write", chunk |-> c, node |-> plan[1].node]>> \o Tail(plan)
               /\ disk' = disk /\ ring' = ring
               /\ newest' = newest /\ oldest' = oldest /\ truth' = truth
  BY PlanHead DEF AppendChunk, Planned
<1>2. AppendPlan
  BY <1>1, PlanHead
<1>3. WriterTypes /\ CountsSound
  BY DEF WriterInv
<1>4. PICK n \in 1 .. 2 : Appends(1, n) /\ Room(n) /\ Bounded(n) /\ oldest = Lower(newest + 1)
  BY <1>2 DEF AppendPlan
<1>5. newest \in Nat /\ oldest \in Nat \ {0} /\ inserted \in Nat
  BY <1>3 DEF WriterTypes
<1>0. \/ n = 2 /\ Len(plan) = 2 /\ plan[1] = LeafItem /\ plan[2] = RootItem(None)
      \/ n = 1 /\ Len(plan) = 1 /\ \E k \in Chunks : plan[1] = RootItem(k) /\ Kept(k)
  <2>1. 1 + 1 = 2
    OBVIOUS
  <2> QED
    BY <1>4, <2>1, Zenon DEF Appends
<1>6. plan \in Seq(Items) /\ Len(plan) = n
  BY <1>0, <1>3 DEF WriterTypes
<1>7. freeList \in Seq(Chunks) /\ Len(freeList) \in Nat /\ Len(freeList) >= n
  BY <1>3, <1>4 DEF WriterTypes, Room
<1>8. c = freeList[1] /\ c \in Chunks /\ 1 \in DOMAIN freeList
  BY <1>1, <1>7
<1>9. count[c] = 0
  BY <1>3, <1>8 DEF CountsSound
<1>10. /\ freeList' \in Seq(Chunks) /\ Len(freeList') = Len(freeList) - 1
       /\ \A i \in 1 .. Len(freeList) - 1 : freeList'[i] = freeList[i + 1]
  BY <1>1, <1>7
<1>11. /\ count' \in [Chunks -> Nat]
       /\ \A d \in Chunks : count'[d] = IF d = c THEN inserted + 1 ELSE count[d]
  <2>1. count \in [Chunks -> Nat] /\ inserted + 1 \in Nat
    BY <1>3, <1>5 DEF WriterTypes
  <2>2. count' = [count EXCEPT ![c] = inserted + 1]
    BY <1>1
  <2> QED
    BY <2>1, <2>2
<1>12. Done = inserted
  BY <1>1 DEF Done, Writing
<1>13. plan[1].node \in Nodes
  <2>1. Leaf(newest + 1) \in Nodes /\ Root(newest + 1, None) \in Nodes
        /\ \A k \in Chunks : Root(newest + 1, k) \in Nodes
    BY <1>5, NodesTyped
  <2> QED
    <3>1. LeafItem.node = Leaf(newest + 1) /\ \A k : RootItem(k).node = Root(newest + 1, k)
      BY DEF LeafItem, RootItem
    <3> QED
      BY <1>0, <2>1, <3>1
<1>14. /\ plan' \in Seq(Items) /\ Len(plan') = n
       /\ plan'[1] = [do |-> "write", chunk |-> c, node |-> plan[1].node]
       /\ n = 2 => plan'[2] = plan[2]
  <2>1. PICK item : item = [do |-> "write", chunk |-> c, node |-> plan[1].node]
    OBVIOUS
  <2>2. item \in Items
    BY <1>8, <1>13, <2>1 DEF Items
  <2>3. Tail(plan) \in Seq(Items) /\ Len(Tail(plan)) = n - 1 /\ (n = 2 => Tail(plan)[1] = plan[2])
    BY <1>6
  <2>4. plan' = <<item>> \o Tail(plan)
    BY <1>1, <2>1
  <2> QED
    BY <2>1, <2>2, <2>3, <2>4
<1>15. plan' # <<>> /\ plan'[1].do = "write"
  BY <1>14
<1>16. Done' = inserted
  BY <1>1, <1>5, <1>15 DEF Done, Writing
<1>17. \A d : Written(d) => d # c /\ Written(d)' /\ count'[d] = count[d]
  BY <1>9, <1>11, <1>12, <1>16 DEF Written
<1>18. ChunksSteady
  BY <1>1, <1>3, <1>5, <1>11, <1>12, <1>16, <1>17 DEF ChunksSteady, Written, WriterTypes
<1>19. VersionsSteady
  <2> SUFFICES ASSUME NEW v \in 1 .. newest, Live(v)' PROVE VersionSteady(v)
    BY DEF VersionsSteady
  <2>1. v \in oldest .. newest /\ Live(v)
    BY <1>1, <1>5 DEF Live
  <2>2. RootOf(v)' = RootOf(v)
    BY <1>1 DEF RootOf, SlotOfVersion
  <2> QED
    BY <1>1, <1>17, <2>1, <2>2, VersionsOk DEF VersionSteady
<1>20. HistorySound'
  BY <1>1, <1>5, <1>18, <1>19, HistoryKept
<1>21. WriterTypes'
  BY <1>1, <1>3, <1>5, <1>10, <1>11, <1>14 DEF WriterTypes
<1>22. CountsSound'
  <2>1. \A d \in Chunks : count[d] \in Nat /\ count[d] <= inserted
    BY <1>3 DEF WriterTypes, CountsSound
  <2>2. DOMAIN freeList = 1 .. Len(freeList) /\ DOMAIN freeList' = 1 .. Len(freeList) - 1
    BY <1>7, <1>10
  <2>3. \A i \in DOMAIN freeList' : i + 1 \in DOMAIN freeList /\ freeList'[i] = freeList[i + 1]
    BY <1>7, <1>10, <2>2
  <2>4. \A i \in DOMAIN freeList' : freeList'[i] \in Chunks /\ freeList'[i] # c /\ count[freeList'[i]] = 0
    <3> SUFFICES ASSUME NEW i \in DOMAIN freeList'
                 PROVE  freeList'[i] \in Chunks /\ freeList'[i] # c /\ count[freeList'[i]] = 0
      OBVIOUS
    <3>1. i \in Nat /\ i >= 1
      BY <1>7, <2>2
    <3>2. i + 1 # 1 /\ i + 1 \in DOMAIN freeList /\ freeList'[i] = freeList[i + 1]
      BY <2>3, <3>1
    <3> QED
      BY <1>3, <1>7, <1>8, <3>2 DEF CountsSound
  <2>5. \A i \in DOMAIN freeList' : count'[freeList'[i]] = 0
    BY <1>11, <2>4
  <2>6. \A i, j \in DOMAIN freeList' : freeList'[i] = freeList'[j] => i = j
    <3> SUFFICES ASSUME NEW i \in DOMAIN freeList', NEW j \in DOMAIN freeList', freeList'[i] = freeList'[j]
                 PROVE  i = j
      OBVIOUS
    <3>1. i + 1 = j + 1
      BY <1>3, <2>3 DEF CountsSound
    <3> QED
      BY <1>7, <2>2, <3>1
  <2>7. \A d \in Chunks : count'[d] <= inserted'
    BY <1>1, <1>5, <1>11, <2>1
  <2>8. \A d, e \in Chunks : count'[d] = count'[e] /\ count'[d] # 0 => d = e
    BY <1>3, <1>5, <1>11, <2>1 DEF CountsSound
  <2> QED
    BY <2>5, <2>6, <2>7, <2>8 DEF CountsSound
<1>23. PlanSound'
  <2>1. count'[c] = inserted' /\ inserted' > 0 /\ oldest' = Lower(newest + 1)'
    BY <1>1, <1>4, <1>5, <1>8, <1>11 DEF Lower
  <2>2. Bounded(n - 1)'
    BY <1>1, <1>4, <1>5 DEF Bounded
  <2>3. CASE n = 2 /\ plan[1] = LeafItem /\ plan[2] = RootItem(None)
    <3>1. Room(1)'
      BY <1>7, <1>10, <2>3 DEF Room
    <3>2. plan'[2] = RootItem(None)' /\ plan[1].node = Leaf(newest + 1)' /\ Len(plan') = 2
      <4>1. plan'[2] = plan[2] /\ Len(plan') = 2
        BY <1>14, <2>3
      <4>2. RootItem(None)' = RootItem(None) /\ Leaf(newest + 1)' = Leaf(newest + 1)
        BY <1>1 DEF RootItem, None, Leaf
      <4>3. LeafItem.node = Leaf(newest + 1)
        BY DEF LeafItem
      <4> QED
        BY <2>3, <4>1, <4>2, <4>3
    <3>3. Bounded(1)'
      BY <2>2, <2>3
    <3> QED
      BY <1>1, <1>8, <1>14, <2>1, <3>1, <3>2, <3>3 DEF PlanSound, LeafPlan, Chunks, Leaf, None
  <2>4. CASE n = 1 /\ \E k \in Chunks : plan[1] = RootItem(k) /\ Kept(k)
    <3>1. PICK k \in Chunks : plan[1] = RootItem(k) /\ Kept(k)
      BY <2>4
    <3>2. Kept(k)'
      BY <1>1, <1>17, <3>1 DEF Kept
    <3>3. Len(plan') = 1 /\ plan[1].node = Root(newest + 1, k)
      BY <1>14, <2>4, <3>1 DEF RootItem
    <3>4. Root(newest + 1, k)' = Root(newest + 1, k)
      BY <1>1 DEF Root
    <3>5. Bounded(0)'
      BY <2>2, <2>4
    <3> QED
      BY <1>8, <1>14, <2>1, <3>2, <3>3, <3>4, <3>5 DEF PlanSound, RootPlan
  <2> QED
    BY <1>0, <2>3, <2>4
<1> QED
  BY <1>1, <1>5, <1>18, <1>19, <1>20, <1>21, <1>22, <1>23 DEF WriterInv, Steady

LEMMA WriteStep ==
    ASSUME WriterInv, WriteNode
    PROVE  WriterInv' /\ Steady
<1>1. /\ plan # <<>> /\ plan[1].do = "write"
      /\ disk' = [disk EXCEPT ![plan[1].chunk] = plan[1].node]
      /\ plan' = IF plan[1].node.kind = "root" THEN <<[do |-> "push", chunk |-> plan[1].chunk]>>
                 ELSE [i \in DOMAIN Tail(plan) |->
                        IF plan[1].node.kind = "leaf"
                        THEN [Tail(plan)[i] EXCEPT !.node.child = plan[1].chunk] ELSE Tail(plan)[i]]
      /\ count' = count /\ inserted' = inserted /\ ring' = ring /\ freeList' = freeList
      /\ newest' = newest /\ oldest' = oldest /\ truth' = truth
  BY PlanHead DEF WriteNode, Planned
<1>2. LeafPlan \/ RootPlan
  BY <1>1, PlanHead
<1>3. WriterTypes /\ CountsSound
  BY DEF WriterInv
<1>4. newest \in Nat /\ oldest \in Nat \ {0} /\ inserted \in Nat
  BY <1>3 DEF WriterTypes
<1>5. Done = inserted - 1 /\ Done \in Nat
  BY <1>1, DoneType DEF Done, Writing
<1>6. PICK c \in Chunks, node \in Nodes :
        /\ plan[1] = [do |-> "write", chunk |-> c, node |-> node] /\ count[c] = inserted
        /\ inserted > 0 /\ oldest = Lower(newest + 1)
        /\ \/ /\ node = Leaf(newest + 1) /\ Len(plan) = 2 /\ plan[2] = RootItem(None)
              /\ Room(1) /\ Bounded(1)
           \/ /\ Len(plan) = 1 /\ Bounded(0)
              /\ \E k \in Chunks : Kept(k) /\ node = Root(newest + 1, k)
  <2>1. CASE LeafPlan
    <3>1. PICK c \in Chunks :
            /\ Len(plan) = 2 /\ plan[2] = RootItem(None)
            /\ plan[1] = [do |-> "write", chunk |-> c, node |-> Leaf(newest + 1)]
            /\ count[c] = inserted /\ inserted > 0 /\ Room(1) /\ Bounded(1) /\ oldest = Lower(newest + 1)
      BY <2>1 DEF LeafPlan
    <3>2. PICK node \in Nodes : node = Leaf(newest + 1)
      BY <1>4, NodesTyped
    <3> QED
      BY <3>1, <3>2
  <2>2. CASE RootPlan
    <3>1. PICK c \in Chunks, k \in Chunks :
            /\ Len(plan) = 1 /\ Kept(k)
            /\ plan[1] = [do |-> "write", chunk |-> c, node |-> Root(newest + 1, k)]
            /\ count[c] = inserted /\ inserted > 0 /\ Bounded(0) /\ oldest = Lower(newest + 1)
      BY <2>2 DEF RootPlan
    <3>2. PICK node \in Nodes : node = Root(newest + 1, k)
      BY <1>4, NodesTyped
    <3> QED
      BY <3>1, <3>2
  <2> QED
    BY <1>2, <2>1, <2>2
<1>7. /\ disk' \in [Chunks -> Nodes] /\ disk'[c] = node
      /\ \A d \in Chunks : d # c => disk'[d] = disk[d]
  <2>1. disk' = [disk EXCEPT ![c] = node] /\ disk \in [Chunks -> Nodes]
    BY <1>1, <1>3, <1>6 DEF WriterTypes
  <2> QED
    BY <2>1
<1>8. \A d : Written(d) => d # c /\ disk'[d] = disk[d]
  BY <1>4, <1>5, <1>6, <1>7 DEF Written
<1>9. plan \in Seq(Items)
  BY <1>3 DEF WriterTypes
<1>10. /\ plan' \in Seq(Items)
       /\ \/ /\ node = Leaf(newest + 1) /\ Len(plan) = 2
             /\ Room(1) /\ Bounded(1) /\ Len(plan') = 1 /\ plan'[1] = RootItem(c)
          \/ /\ Bounded(0) /\ Len(plan') = 1 /\ plan'[1] = [do |-> "push", chunk |-> c]
             /\ \E k \in Chunks : Kept(k) /\ node = Root(newest + 1, k)
  <2>1. CASE node = Leaf(newest + 1) /\ Len(plan) = 2 /\ plan[2] = RootItem(None)
             /\ Room(1) /\ Bounded(1)
    <3>1. node.kind = "leaf" /\ plan[1].node = node /\ plan[1].chunk = c
      BY <1>6, <2>1 DEF Leaf
    <3>2. PICK t : t = Tail(plan)
      OBVIOUS
    <3>9. t \in Seq(Items) /\ Len(t) = 1 /\ t[1] = RootItem(None)
      <4>1. Len(plan) = 2 /\ plan[2] = RootItem(None)
        BY <2>1
      <4>2. /\ t \in Seq(Items) /\ Len(t) = Len(plan) - 1
            /\ \A i \in 1 .. Len(plan) - 1 : t[i] = plan[i + 1]
        BY <1>1, <1>9, <3>2, HeadTailProperties
      <4>3. Len(t) = 1 /\ t[1] = plan[1 + 1]
        BY <4>1, <4>2
      <4> QED
        BY <4>1, <4>2, <4>3
    <3>10. DOMAIN t = 1 .. 1
      <4>1. DOMAIN t = 1 .. Len(t)
        BY <3>9, LenProperties
      <4> QED
        BY <3>9, <4>1
    <3>3. plan' = [i \in 1 .. 1 |-> [t[i] EXCEPT !.node.child = c]]
      BY <1>1, <3>1, <3>2, <3>10
    <3>4. plan'[1] = [RootItem(None) EXCEPT !.node.child = c]
      BY <3>9, <3>3
    <3>5. plan'[1] = RootItem(c)
      BY <3>4 DEF RootItem, Root
    <3>6. RootItem(c) \in Items
      <4>1. Root(newest + 1, c) \in Nodes
        BY <1>4, NodesTyped
      <4> QED
        BY <4>1 DEF RootItem, Items
    <3>7. plan' \in [1 .. 1 -> Items]
      <4>1. DOMAIN plan' = 1 .. 1 /\ plan' = [i \in DOMAIN plan' |-> plan'[i]]
        BY <3>3
      <4> QED
        BY <3>5, <3>6, <4>1
    <3>8. plan' \in Seq(Items) /\ Len(plan') = 1
      BY <3>7, SeqDef
    <3> QED
      BY <2>1, <3>5, <3>8
  <2>2. CASE /\ Len(plan) = 1 /\ Bounded(0)
             /\ \E k \in Chunks : Kept(k) /\ node = Root(newest + 1, k)
    <3>1. node.kind = "root" /\ plan[1].node = node /\ plan[1].chunk = c
      BY <1>6, <2>2 DEF Root
    <3>2. plan' = <<[do |-> "push", chunk |-> c]>>
      BY <1>1, <3>1
    <3>3. [do |-> "push", chunk |-> c] \in Items
      BY DEF Items
    <3> QED
      BY <2>2, <3>2, <3>3
  <2> QED
    BY <1>6, <2>1, <2>2
<1>11. plan' # <<>> /\ plan'[1].do # "write"
  BY <1>10 DEF RootItem
<1>12. Done' = inserted
  BY <1>1, <1>11 DEF Done, Writing
<1>13. \A d : Written(d) => Written(d)'
  BY <1>1, <1>3, <1>4, <1>5, <1>12 DEF Written, WriterTypes
<1>14. Written(c)'
  BY <1>1, <1>4, <1>6, <1>12 DEF Written
<1>15. ChunksSteady
  BY <1>1, <1>3, <1>4, <1>5, <1>8, <1>12 DEF ChunksSteady, Written, WriterTypes
<1>16. VersionsSteady
  <2> SUFFICES ASSUME NEW v \in 1 .. newest, Live(v)' PROVE VersionSteady(v)
    BY DEF VersionsSteady
  <2>1. v \in oldest .. newest /\ Live(v)
    BY <1>1, <1>4 DEF Live
  <2>2. RootOf(v)' = RootOf(v)
    BY <1>1 DEF RootOf, SlotOfVersion
  <2> QED
    BY <1>1, <1>8, <2>1, <2>2, VersionsOk DEF VersionSteady
<1>17. HistorySound'
  BY <1>1, <1>4, <1>15, <1>16, HistoryKept
<1>18. WriterTypes'
  BY <1>1, <1>3, <1>7, <1>10 DEF WriterTypes
<1>19. CountsSound'
  BY <1>1, <1>3 DEF CountsSound
<1>20. PlanSound'
  <2>1. oldest' = Lower(newest + 1)' /\ \A n : Bounded(n)' <=> Bounded(n)
    BY <1>1, <1>6 DEF Lower, Bounded
  <2>2. Room(1)' <=> Room(1)
    BY <1>1 DEF Room
  <2>3. CASE /\ node = Leaf(newest + 1) /\ Len(plan) = 2
             /\ Room(1) /\ Bounded(1) /\ Len(plan') = 1 /\ plan'[1] = RootItem(c)
    <3>1. Kept(c)'
      BY <1>7, <1>14, <2>3 DEF Kept, Leaf
    <3>2. RootItem(c)' = RootItem(c)
      BY <1>1 DEF RootItem
    <3>3. Appends(1, 1)'
      BY <2>3, <3>1, <3>2 DEF Appends
    <3> QED
      BY <2>1, <2>2, <2>3, <3>3 DEF PlanSound, AppendPlan
  <2>4. CASE /\ Bounded(0) /\ Len(plan') = 1 /\ plan'[1] = [do |-> "push", chunk |-> c]
             /\ \E k \in Chunks : Kept(k) /\ node = Root(newest + 1, k)
    <3>1. PICK k \in Chunks : Kept(k) /\ node = Root(newest + 1, k)
      BY <2>4
    <3>2. Kept(k)'
      BY <1>8, <1>13, <3>1 DEF Kept
    <3>3. disk'[c] = Root(newest + 1, k)'
      BY <1>1, <1>7, <3>1 DEF Root
    <3> QED
      BY <1>14, <2>1, <2>4, <3>2, <3>3 DEF PlanSound, PushPlan
  <2> QED
    BY <1>10, <2>3, <2>4
<1> QED
  BY <1>1, <1>4, <1>15, <1>16, <1>17, <1>18, <1>19, <1>20 DEF WriterInv, Steady

LEMMA PushStep ==
    ASSUME WriterInv, PushRoot
    PROVE  WriterInv' /\ Steady
<1>1. /\ plan # <<>> /\ plan[1].do = "push"
      /\ ring' = [ring EXCEPT ![SlotOfVersion(newest + 1)] = plan[1].chunk]
      /\ newest' = newest + 1 /\ plan' = <<>>
      /\ truth' = Append(truth, disk[disk[plan[1].chunk].child].version)
      /\ count' = count /\ inserted' = inserted /\ disk' = disk /\ freeList' = freeList
      /\ oldest' = oldest
  BY PlanHead DEF PushRoot, Planned
<1>2. PushPlan
  BY <1>1, PlanHead
<1>3. WriterTypes /\ CountsSound
  BY DEF WriterInv
<1>4. newest \in Nat /\ oldest \in Nat \ {0} /\ inserted \in Nat /\ Capacity \in Nat /\ Capacity >= 2
  BY <1>3, ReadersAssumption DEF WriterTypes
<1>5. PICK c \in Chunks, k \in Chunks :
        /\ Len(plan) = 1 /\ plan[1] = [do |-> "push", chunk |-> c]
        /\ Written(c) /\ disk[c] = Root(newest + 1, k) /\ Kept(k)
        /\ Bounded(0) /\ oldest = Lower(newest + 1)
  BY <1>2 DEF PushPlan
<1>6. Done = inserted /\ Done' = inserted
  BY <1>1 DEF Done, Writing
<1>7. plan[1].chunk = c /\ disk[c].child = k
  BY <1>5 DEF Root
<1>8. PICK value \in Nat : value = disk[k].version
  BY <1>3 DEF WriterTypes, Nodes
<1>9. /\ truth' \in Seq(Nat) /\ Len(truth') = newest + 1 /\ truth'[newest + 1] = value
      /\ \A v \in 1 .. newest : truth'[v] = truth[v]
  <2>1. truth' = Append(truth, value) /\ truth \in Seq(Nat) /\ Len(truth) = newest
    BY <1>1, <1>3, <1>7, <1>8 DEF WriterTypes
  <2> QED
    BY <1>4, <2>1
<1>10. \A d : Written(d)' <=> Written(d)
  BY <1>1, <1>6 DEF Written
<1>11. /\ ring' \in [0 .. Capacity - 1 -> 0 .. NumChunks] /\ RootOf(newest + 1)' = ring'[SlotOfVersion(newest' + 1)]
       /\ ring'[SlotOfVersion(newest + 1)] = c
       /\ \A s \in 0 .. Capacity - 1 : s # SlotOfVersion(newest + 1) => ring'[s] = ring[s]
  <2>1. ring \in [0 .. Capacity - 1 -> 0 .. NumChunks] /\ c \in 0 .. NumChunks
    BY <1>3, ReadersAssumption DEF WriterTypes, Chunks
  <2>2. SlotOfVersion(newest + 1) \in 0 .. Capacity - 1
    BY <1>4, SlotRange
  <2>3. PICK t : t = SlotOfVersion(newest + 1)
    OBVIOUS
  <2>4. ring' = [ring EXCEPT ![t] = c]
    BY <1>1, <1>7, <2>3
  <2>5. RootOf(newest + 1)' = ring'[SlotOfVersion(newest' + 1)]
    BY DEF RootOf, SlotOfVersion
  <2> QED
    BY <2>1, <2>2, <2>3, <2>4, <2>5
<1>12. newest + 1 - oldest < Capacity
  BY <1>4, <1>5 DEF Lower
<1>13. ASSUME NEW v \in oldest .. newest PROVE RootOf(v)' = RootOf(v)
  <2>1. SlotOfVersion(v) # SlotOfVersion(newest + 1)
    BY <1>4, <1>12, SlotTurn
  <2>2. SlotOfVersion(v) \in 0 .. Capacity - 1
    BY <1>4, SlotRange
  <2> QED
    BY <1>11, <2>1, <2>2 DEF RootOf, SlotOfVersion
<1>14. VersionsSteady
  BY <1>1, <1>4, <1>13 DEF VersionsSteady, VersionSteady, Live
<1>15. ChunksSteady
  BY <1>1, <1>3, <1>4, <1>6 DEF ChunksSteady, Written, WriterTypes
<1>16. HistorySound'
  <2> SUFFICES ASSUME NEW v \in oldest' .. newest' PROVE VersionOk(v)'
    BY DEF HistorySound
  <2>1. CASE v = newest + 1
    <3>1. RootOf(v)' = c
      BY <1>11, <2>1 DEF RootOf, SlotOfVersion
    <3>2. LeafOf(v)' = k
      BY <1>1, <1>7, <3>1 DEF LeafOf
    <3>3. disk[k] = Leaf(truth'[v])
      BY <1>5, <1>8, <1>9, <2>1 DEF Kept
    <3> QED
      BY <1>1, <1>5, <1>10, <2>1, <3>1, <3>2, <3>3 DEF VersionOk, Kept
  <2>2. CASE v # newest + 1
    <3>1. v \in oldest .. newest /\ v \in 1 .. newest
      BY <1>1, <1>4, <2>2
    <3>2. VersionOk(v) /\ RootOf(v)' = RootOf(v) /\ truth'[v] = truth[v]
      BY <1>9, <1>13, <3>1 DEF WriterInv, HistorySound
    <3>3. LeafOf(v)' = LeafOf(v)
      BY <1>1, <3>2 DEF LeafOf
    <3> QED
      BY <1>1, <1>10, <3>2, <3>3 DEF VersionOk
  <2> QED
    BY <2>1, <2>2
<1>17. WriterTypes'
  <2>1. newest' <= MaxVersion
    BY <1>1, <1>5 DEF Bounded
  <2> QED
    <3>1. /\ count' \in [Chunks -> Nat] /\ freeList' \in Seq(Chunks) /\ inserted' \in Nat
          /\ disk' \in [Chunks -> Nodes]
      BY <1>1, <1>3 DEF WriterTypes
    <3>2. newest' \in Nat /\ oldest' \in Nat \ {0} /\ truth' \in Seq(Nat) /\ Len(truth') = newest'
      <4>1. newest' = newest + 1 /\ oldest' = oldest
        BY <1>1, Zenon
      <4>2. truth' \in Seq(Nat) /\ Len(truth') = newest + 1
        BY <1>9, Zenon
      <4> QED
        BY <1>4, <4>1, <4>2
    <3>3. plan' \in Seq(Items)
      BY <1>1
    <3>4. ring' \in [0 .. Capacity - 1 -> 0 .. NumChunks]
      BY <1>11
    <3> QED
      BY <2>1, <3>1, <3>2, <3>3, <3>4 DEF WriterTypes
<1>18. CountsSound'
  BY <1>1, <1>3 DEF CountsSound
<1>19. PlanSound'
  BY <1>1, <1>4, <1>5 DEF PlanSound, NoPlan, Bounded, Lower
<1>20. newest' \in Nat /\ newest' >= newest /\ oldest' >= oldest /\ inserted' >= inserted
  <2>1. newest' = newest + 1 /\ oldest' = oldest /\ inserted' = inserted
    BY <1>1, Zenon
  <2> QED
    BY <1>4, <2>1
<1>21. Steady
  BY <1>9, <1>14, <1>15, <1>20, Zenon DEF Steady
<1> QED
  BY <1>16, <1>17, <1>18, <1>19, <1>21, Zenon DEF WriterInv

LEMMA BeginStep ==
    ASSUME WriterInv, NEW newLeaf \in BOOLEAN, BeginUpdate(newLeaf)
    PROVE  WriterInv' /\ Steady
<1> DEFINE v == newest + 1
           kept == disk[ring[SlotOfVersion(newest)]].child
           leaf == IF newLeaf THEN <<[do |-> "append", node |-> Leaf(v)]>> ELSE <<>>
           pre == IF v > Capacity THEN <<[do |-> "erase"], [do |-> "free"]>> ELSE <<>>
           root == [do |-> "append", node |-> Root(v, IF newLeaf THEN None ELSE kept)]
           n == IF newLeaf THEN 2 ELSE 1
           e == IF v > Capacity THEN 2 ELSE 0
<1>1. /\ plan = <<>> /\ newest < MaxVersion /\ (newest = 0 => newLeaf)
      /\ Len(freeList) + (IF v > Capacity THEN 1 ELSE 0) >= n
      /\ plan' = pre \o leaf \o <<root>>
      /\ count' = count /\ inserted' = inserted /\ disk' = disk /\ freeList' = freeList
      /\ oldest' = oldest /\ newest' = newest /\ truth' = truth /\ ring' = ring
  BY DEF BeginUpdate
<1>2. WriterTypes /\ CountsSound
  BY DEF WriterInv
<1>3. newest \in Nat /\ oldest \in Nat \ {0} /\ inserted \in Nat /\ Capacity \in Nat /\ Capacity >= 2
  BY <1>2, ReadersAssumption DEF WriterTypes
<1>4. inserted <= 2 * newest /\ oldest = Lower(newest)
  <2>1. ~(ErasePlan \/ FreePlan \/ DestroyPlan \/ AppendPlan \/ LeafPlan \/ RootPlan \/ PushPlan)
    <3>1. Len(plan) = 0
      BY <1>1
    <3> QED
      BY <3>1 DEF ErasePlan, FreePlan, DestroyPlan, AppendPlan, LeafPlan, RootPlan, PushPlan, Appends
  <2> QED
    BY <2>1 DEF WriterInv, PlanSound, NoPlan
<1>5. ~newLeaf => /\ oldest <= newest /\ kept = LeafOf(newest) /\ kept \in Chunks /\ Kept(kept)
  <2> SUFFICES ASSUME ~newLeaf PROVE oldest <= newest /\ kept = LeafOf(newest) /\ kept \in Chunks /\ Kept(kept)
    OBVIOUS
  <2>1. newest >= 1
    BY <1>1, <1>3
  <2>2. oldest <= newest
    BY <1>3, <1>4, <2>1 DEF Lower
  <2>3. newest \in oldest .. newest
    BY <1>3, <2>2
  <2>4. kept = LeafOf(newest)
    BY DEF LeafOf, RootOf
  <2>5. disk[LeafOf(newest)] = Leaf(truth[newest]) /\ Written(LeafOf(newest)) /\ LeafOf(newest) \in Chunks
    BY <2>3, VersionsOk
  <2>6. Kept(LeafOf(newest))
    BY <2>5 DEF Kept, Leaf
  <2> QED
    BY <2>2, <2>4, <2>5, <2>6
<1>6. root \in Items /\ leaf \in Seq(Items) /\ pre \in Seq(Items)
  <2>1. Leaf(v) \in Nodes /\ Root(v, IF newLeaf THEN None ELSE kept) \in Nodes
    <3>1. v \in Nat
      BY <1>3
    <3> QED
      BY <1>5, <3>1, NodesTyped
  <2>2. root \in Items
    BY <2>1 DEF Items
  <2>3. [do |-> "append", node |-> Leaf(v)] \in Items
    BY <2>1 DEF Items
  <2>4. [do |-> "erase"] \in Items /\ [do |-> "free"] \in Items
    BY DEF Items
  <2> QED
    BY <2>2, <2>3, <2>4
<1>7. /\ Len(pre) = e /\ Len(leaf) = n - 1
      /\ newLeaf => leaf[1] = LeafItem
      /\ v > Capacity => pre[1] = [do |-> "erase"] /\ pre[2] = [do |-> "free"]
      /\ root = RootItem(IF newLeaf THEN None ELSE kept)
  BY DEF LeafItem, RootItem
<1>8. v \in Nat /\ n \in 1 .. 2 /\ e \in {0, 2} /\ (newLeaf => n = 2) /\ (~newLeaf => n = 1)
      /\ (v > Capacity => e = 2) /\ (~(v > Capacity) => e = 0)
  BY <1>3
<1> HIDE DEF pre, leaf, root, kept, n, e
<1>9. /\ plan' \in Seq(Items) /\ Len(plan') = e + n
      /\ \A i \in 1 .. e : plan'[i] = pre[i]
      /\ newLeaf => plan'[e + 1] = LeafItem
      /\ plan'[e + n] = root
  <2>1. PICK s : s = pre \o leaf
    OBVIOUS
  <2>2. s \in Seq(Items) /\ Len(s) = e + n - 1 /\ (\A i \in 1 .. e : s[i] = pre[i])
        /\ (newLeaf => s[e + 1] = leaf[1])
    <3>1. /\ s \in Seq(Items) /\ Len(s) = Len(pre) + Len(leaf)
          /\ \A i \in 1 .. Len(pre) + Len(leaf) :
                s[i] = IF i <= Len(pre) THEN pre[i] ELSE leaf[i - Len(pre)]
      BY <1>6, <2>1, ConcatProperties
    <3>2. Len(pre) = e /\ Len(leaf) = n - 1 /\ e \in {0, 2} /\ n \in 1 .. 2 /\ (newLeaf => n = 2)
      BY <1>7, <1>8
    <3>3. ASSUME newLeaf PROVE s[e + 1] = leaf[1]
      <4>1. PICK i : i = e + 1
        OBVIOUS
      <4>2. i \in 1 .. Len(pre) + Len(leaf) /\ ~(i <= Len(pre)) /\ i - Len(pre) = 1
        BY <3>2, <3>3, <4>1
      <4>3. s[i] = leaf[i - Len(pre)]
        BY <3>1, <4>2
      <4> QED
        BY <4>1, <4>2, <4>3
    <3> QED
      BY <3>1, <3>2, <3>3
  <2>3. plan' = s \o <<root>>
    BY <1>1, <2>1
  <2>4. /\ plan' \in Seq(Items) /\ Len(plan') = Len(s) + 1 /\ plan'[Len(s) + 1] = root
        /\ \A i \in 1 .. Len(s) : plan'[i] = s[i]
    BY <1>6, <2>2, <2>3
  <2> QED
    BY <1>7, <1>8, <2>2, <2>4
<1>10. Appends(e + 1, n)'
  <2>1. CASE newLeaf
    <3>1. n = 2 /\ plan'[e + 1] = LeafItem /\ plan'[e + 1 + 1] = RootItem(None) /\ Len(plan') = e + 1 + 1
      BY <1>7, <1>8, <1>9, <2>1
    <3>2. LeafItem' = LeafItem /\ RootItem(None)' = RootItem(None)
      BY <1>1 DEF LeafItem, RootItem, None
    <3>3. PICK i, m : i = e + 1 /\ m = n
      OBVIOUS
    <3>4. Appends(i, m)'
      BY <3>1, <3>2, <3>3 DEF Appends
    <3> QED
      BY <1>1, <3>3, <3>4 DEF n, e
  <2>2. CASE ~newLeaf
    <3>1. n = 1 /\ plan'[e + 1] = RootItem(kept) /\ Len(plan') = e + 1
      BY <1>7, <1>8, <1>9, <2>2
    <3>2. PICK k \in Chunks : k = kept /\ k = LeafOf(newest) /\ oldest <= newest /\ Kept(k)
      BY <1>5, <2>2
    <3>3. RootItem(k)' = RootItem(k) /\ LeafOf(newest)' = LeafOf(newest)
      BY <1>1 DEF RootItem, LeafOf, RootOf, SlotOfVersion
    <3>4. Kept(k)'
      <4>1. Done' = Done
        <5>1. plan'[1].do # "write"
          <6>1. CASE e = 0
            BY <3>1, <6>1 DEF RootItem
          <6>2. CASE e = 2
            BY <1>7, <1>8, <1>9, <6>2
          <6> QED
            BY <1>8, <6>1, <6>2
        <5> QED
          BY <1>1, <5>1 DEF Done, Writing
      <4> QED
        BY <1>1, <3>2, <4>1 DEF Kept, Written
    <3>5. PICK i, m : i = e + 1 /\ m = n
      OBVIOUS
    <3>6. Appends(i, m)'
      BY <1>1, <3>1, <3>2, <3>3, <3>4, <3>5 DEF Appends
    <3> QED
      BY <1>1, <3>5, <3>6 DEF n, e
  <2> QED
    BY <2>1, <2>2
<1>11. Done' = Done
  <2>1. plan'[1].do # "write"
    <3>1. CASE e = 0 /\ newLeaf
      BY <1>8, <1>9, <3>1 DEF LeafItem
    <3>2. CASE e = 0 /\ ~newLeaf
      BY <1>7, <1>8, <1>9, <3>2 DEF RootItem
    <3>3. CASE e = 2
      BY <1>7, <1>8, <1>9, <3>3
    <3> QED
      BY <1>8, <3>1, <3>2, <3>3
  <2> QED
    BY <1>1, <2>1 DEF Done, Writing
<1>12. ChunksSteady
  BY <1>1, <1>2, <1>11, DoneType DEF ChunksSteady, Written, WriterTypes
<1>13. VersionsSteady
  BY <1>1 DEF VersionsSteady, VersionSteady, Live, RootOf, SlotOfVersion
<1>14. HistorySound'
  BY <1>1, <1>3, <1>12, <1>13, HistoryKept
<1>15. WriterTypes'
  BY <1>1, <1>2, <1>9 DEF WriterTypes
<1>16. CountsSound'
  BY <1>1, <1>2 DEF CountsSound
<1>17. PlanSound'
  <2>1. PICK m \in 1 .. 2 : m = n
    BY <1>8
  <2>2. Bounded(m)'
    BY <1>1, <1>2, <1>3, <1>4, <2>1, ReadersAssumption DEF Bounded, WriterTypes
  <2>3. CASE e = 0
    <3>1. Room(m)' /\ oldest' = Lower(newest + 1)'
      BY <1>1, <1>3, <1>4, <1>8, <2>1, <2>3 DEF Room, Lower
    <3>2. Appends(1, m)'
      BY <1>1, <1>10, <2>1, <2>3 DEF n, e
    <3> QED
      BY <2>2, <3>1, <3>2 DEF PlanSound, AppendPlan
  <2>4. CASE e = 2
    <3>1. RoomSoon(m)' /\ oldest' = Lower(newest)' /\ newest' >= Capacity
      <4>1. Len(freeList) \in Nat /\ v > Capacity
        BY <1>2, <1>8, <2>4 DEF WriterTypes
      <4> QED
        BY <1>1, <1>3, <1>4, <2>1, <4>1 DEF RoomSoon, Lower
    <3>2. Appends(3, m)'
      BY <1>1, <1>10, <2>1, <2>4 DEF n, e
    <3>3. plan'[1] = [do |-> "erase"] /\ plan'[2] = [do |-> "free"]
      BY <1>7, <1>8, <1>9, <2>4
    <3> QED
      BY <2>2, <3>1, <3>2, <3>3 DEF PlanSound, ErasePlan
  <2> QED
    BY <1>8, <2>3, <2>4
<1> QED
  BY <1>1, <1>3, <1>12, <1>13, <1>14, <1>15, <1>16, <1>17 DEF WriterInv, Steady

\* The writer keeps its invariant, and what it has written, as long as it has the count it had.
LEMMA WriterKeeps ==
    ASSUME WriterInv, WriterNext
    PROVE  WriterInv' /\ Steady
BY BeginStep, EraseStep, FreeStep, DestroyStep, AppendStep, WriteStep, PushStep DEF WriterNext

-----------------------------------------------------------------------------
(* What the reader knows stays true while the writer runs. *)
LEMMA VersionStays ==
    ASSUME WriterInv, Steady, NEW v \in 1 .. newest, Live(v)'
    PROVE  /\ Live(v) /\ RootOf(v)' = RootOf(v) /\ LeafOf(v)' = LeafOf(v)
           /\ disk'[RootOf(v)] = disk[RootOf(v)] /\ count'[RootOf(v)] = count[RootOf(v)]
           /\ disk'[LeafOf(v)] = disk[LeafOf(v)] /\ count'[LeafOf(v)] = count[LeafOf(v)]
<1>1. VersionSteady(v)
  BY DEF Steady, VersionsSteady
<1>2. LeafOf(v)' = LeafOf(v)
  BY <1>1 DEF VersionSteady, LeafOf
<1> QED
  BY <1>1, <1>2 DEF VersionSteady

LEMMA GoneStays ==
    ASSUME WriterInv, Steady, NEW v \in 1 .. newest, ~Live(v)
    PROVE  ~Live(v)'
BY DEF Steady, VersionsSteady, VersionSteady

LEMMA ChunkStays ==
    ASSUME WriterInv, WriterInv', Steady, NEW n \in 1 .. Done, NEW c \in Chunks, count'[c] = n
    PROVE  n \in 1 .. Done' /\ count[c] = n /\ disk'[c] = disk[c]
<1>1. Done \in Nat /\ Done' \in Nat /\ Done' >= Done
  BY DoneType DEF Steady, ChunksSteady
<1>2. count[c] \in Nat /\ count'[c] # 0 /\ ~(count'[c] > Done)
  BY <1>1 DEF WriterInv, WriterTypes
<1>3. Written(c)
  BY <1>2 DEF Steady, ChunksSteady
<1> QED
  BY <1>1, <1>2, <1>3 DEF Steady, ChunksSteady

LEMMA KnownStays ==
    ASSUME WriterInv, WriterInv', Steady, NEW n
    PROVE  /\ \A x : HoldsAt(n, x) => HoldsAt(n, x)'
           /\ \A c : IsOf(n, c) => IsOf(n, c)'
           /\ n \in 1 .. Done => (InUse(n)' => InUse(n))
<1>1. Done \in Nat /\ Done' \in Nat /\ Done' >= Done
  BY DoneType DEF Steady, ChunksSteady
<1>2. n \in 1 .. Done => n \in 1 .. Done'
  BY <1>1
<1>3. ASSUME n \in 1 .. Done, NEW c \in Chunks, count'[c] = n
      PROVE  count[c] = n /\ disk'[c] = disk[c]
  BY <1>3, ChunkStays
<1>4. ASSUME NEW x, HoldsAt(n, x) PROVE HoldsAt(n, x)'
  BY <1>2, <1>3, <1>4 DEF HoldsAt, Chunks
<1>5. ASSUME NEW c, IsOf(n, c) PROVE IsOf(n, c)'
  BY <1>2, <1>3, <1>5 DEF IsOf, Chunks
<1>6. ASSUME n \in 1 .. Done, InUse(n)' PROVE InUse(n)
  BY <1>3, <1>6 DEF InUse, Chunks
<1> QED
  BY <1>4, <1>5, <1>6

LEMMA TargetStays ==
    ASSUME WriterInv, Steady, NEW f, f.version \in 1 .. newest, Live(f.version)'
    PROVE  /\ Live(f.version) /\ Target(f)' = Target(f)
           /\ disk'[Target(f)] = disk[Target(f)] /\ count'[Target(f)] = count[Target(f)]
<1>1. PICK v \in 1 .. newest : v = f.version
  OBVIOUS
<1>2. /\ Live(v) /\ RootOf(v)' = RootOf(v) /\ LeafOf(v)' = LeafOf(v)
      /\ disk'[RootOf(v)] = disk[RootOf(v)] /\ count'[RootOf(v)] = count[RootOf(v)]
      /\ disk'[LeafOf(v)] = disk[LeafOf(v)] /\ count'[LeafOf(v)] = count[LeafOf(v)]
  BY <1>1, VersionStays
<1> QED
  BY <1>1, <1>2 DEF Target

LEMMA FindStays ==
    ASSUME WriterInv, WriterInv', Steady, NEW f \in ReqRec, FindOk(f)
    PROVE  FindOk(f)'
<1>1. newest' \in Nat /\ newest' >= newest /\ inserted' >= inserted /\ newest \in Nat
      /\ inserted \in Nat /\ inserted' \in Nat
  BY DEF WriterInv, WriterTypes, Steady
<1>2. f.virt \in Nat /\ f.rootVirt \in Nat /\ f.version \in Nat
  BY DEF ReqRec
<1>3. f.at # "idle" => f.version \in 1 .. newest'
  BY <1>1, <1>2 DEF FindOk
<1>4. f.virt <= inserted' /\ f.rootVirt <= inserted'
  BY <1>1, <1>2 DEF FindOk
<1>5. f.at = "idle" => f.result = "none"
  BY DEF FindOk
<1>6. f.at = "busy" => /\ f.result = "none"
                       /\ Live(f.version)' => /\ f.root \in {Unwritten, disk'[RootOf(f.version)']}
                                              /\ f.leaf \in {Unwritten, disk'[LeafOf(f.version)']}
  <2> SUFFICES ASSUME f.at = "busy", Live(f.version)'
               PROVE  /\ f.root \in {Unwritten, disk'[RootOf(f.version)']}
                      /\ f.leaf \in {Unwritten, disk'[LeafOf(f.version)']}
    BY DEF FindOk
  <2>1. PICK v \in 1 .. newest : v = f.version
    BY DEF FindOk
  <2>2. Live(v) /\ f.root \in {Unwritten, disk[RootOf(v)]} /\ f.leaf \in {Unwritten, disk[LeafOf(v)]}
    BY <2>1, VersionStays DEF FindOk
  <2> QED
    BY <2>1, <2>2, VersionStays
<1>7. f.result = "success" => f.leaf = Leaf(truth'[f.version])
  <2> SUFFICES ASSUME f.result = "success" PROVE f.leaf = Leaf(truth'[f.version])
    OBVIOUS
  <2>1. f.version \in 1 .. newest /\ f.leaf = Leaf(truth[f.version])
    BY DEF FindOk
  <2> QED
    BY <2>1 DEF Steady
<1>8. f.result = "gone" => ~Live(f.version)'
  <2> SUFFICES ASSUME f.result = "gone" PROVE ~Live(f.version)'
    OBVIOUS
  <2>1. PICK v \in 1 .. newest : v = f.version
    BY DEF FindOk
  <2>2. ~Live(v)
    BY <2>1 DEF FindOk
  <2> QED
    BY <2>1, <2>2, GoneStays
<1>9. Leaf(truth[f.version])' = Leaf(truth'[f.version])
  BY DEF Leaf
<1> QED
  BY <1>3, <1>4, <1>5, <1>6, <1>7, <1>8, <1>9 DEF FindOk

\* A step of the writer, if it is not the process that looks up
LEMMA ReadStays ==
    ASSUME WriterInv, WriterInv', Steady, ReaderInv, UNCHANGED local, protocol # "rw",
           NEW r \in ReadRec, ReadOk(r)
    PROVE  ReadOk(r)'
<1>1. protocol' = protocol /\ req' = req
  BY DEF local
<1>2. r.virt \in Nat /\ inserted \in Nat /\ inserted' >= inserted /\ inserted' \in Nat
  BY DEF ReadRec, WriterInv, WriterTypes, Steady
<1>3. r.off # None /\ r.virt <= inserted' /\ r.q \in Finds /\ req'[r.q].at # "idle"
      /\ r.key[1] # "none" /\ r.key[1] # "off"
  BY <1>1, <1>2 DEF ReadOk
<1>4. r.key[1] = "virt" => /\ protocol' \in {"owning", "async"} /\ r.virt = r.key[2]
                           /\ IsOf(r.virt, r.off)' /\ (r.landed => HoldsAt(r.virt, r.data)')
  BY <1>1, KnownStays DEF ReadOk
<1>5. r.key[1] = "version" =>
          /\ protocol' = "async" /\ req'[r.q].version = r.key[2]
          /\ Live(r.key[2])' => /\ r.off = RootOf(r.key[2])' /\ r.virt = count'[RootOf(r.key[2])']
                                /\ r.landed => r.data = disk'[RootOf(r.key[2])']
  <2> SUFFICES ASSUME r.key[1] = "version"
               PROVE  /\ protocol' = "async" /\ req'[r.q].version = r.key[2]
                      /\ Live(r.key[2])' => /\ r.off = RootOf(r.key[2])' /\ r.virt = count'[RootOf(r.key[2])']
                                            /\ r.landed => r.data = disk'[RootOf(r.key[2])']
    OBVIOUS
  <2>1. protocol' = "async" /\ req'[r.q].version = r.key[2] /\ req[r.q].version = r.key[2]
    BY <1>1 DEF ReadOk
  <2>2. PICK v \in 1 .. newest : v = r.key[2]
    BY <1>3, <1>1, <2>1 DEF ReaderInv, FindsSound, FindOk
  <2>3. Live(v) => /\ r.off = RootOf(v) /\ r.virt = count[RootOf(v)]
                   /\ r.landed => r.data = disk[RootOf(v)]
    BY <2>2 DEF ReadOk
  <2> QED
    BY <2>1, <2>2, <2>3, VersionStays
<1> QED
  BY <1>3, <1>4, <1>5 DEF ReadOk

LEMMA InflightType ==
    ASSUME ReaderInv, NEW i \in DOMAIN inflights
    PROVE  /\ inflights[i] \in InflightRec /\ inflights[i].waiting \in Seq(Finds)
           /\ \A j \in DOMAIN inflights[i].waiting : inflights[i].waiting[j] \in Finds
<1>1. inflights \in Seq(InflightRec)
  BY DEF ReaderInv, ReaderTypes
<1>2. inflights[i] \in InflightRec
  BY <1>1
<1>3. inflights[i].waiting \in Seq(Finds)
  BY <1>2 DEF InflightRec
<1> QED
  BY <1>2, <1>3

LEMMA HandledStays ==
    ASSUME WriterInv, WriterInv', Steady, UNCHANGED local, NEW f,
           f.version \in 1 .. newest, HandledOk(f)
    PROVE  HandledOk(f)'
<1>1. protocol' = protocol /\ thread' = thread
  BY DEF local
<1>2. Live(f.version)' => /\ Live(f.version) /\ Target(f)' = Target(f)
                          /\ disk'[Target(f)] = disk[Target(f)] /\ count'[Target(f)] = count[Target(f)]
  BY TargetStays
<1>3. IsOf(f.virt, f.off) => IsOf(f.virt, f.off)'
  BY KnownStays
<1>4. Live(f.version)' => disk'[RootOf(f.version)'] = disk[RootOf(f.version)]
  BY VersionStays
<1> QED
  BY <1>1, <1>2, <1>3, <1>4 DEF HandledOk, HandledAt

LEMMA WaitStays ==
    ASSUME WriterInv, WriterInv', Steady, UNCHANGED local, protocol # "rw", NEW f, NEW key,
           f.version \in 1 .. newest, WaitsOk(f, key)
    PROVE  WaitsOk(f, key)'
<1>1. protocol' = protocol
  BY DEF local
<1>2. Live(f.version)' => /\ Live(f.version) /\ Target(f)' = Target(f)
                          /\ disk'[Target(f)] = disk[Target(f)] /\ count'[Target(f)] = count[Target(f)]
  BY TargetStays
<1> QED
  BY <1>1, <1>2 DEF WaitsOk

LEMMA CompletingStays ==
    ASSUME WriterInv, WriterInv', Steady, ReaderInv, UNCHANGED local, protocol # "rw",
           IsCompleting, CompletingOk(thread.read)
    PROVE  CompletingOk(thread.read)'
<1>1. protocol' = protocol /\ thread' = thread /\ req' = req
  BY DEF local
<1>2. PICK r \in ReadRec : r = thread.read
  BY DEF ReaderInv, ReaderTypes, ThreadRec
<1>3. ReadOk(r) => ReadOk(r)'
  BY ReadStays
<1>4. HoldsAt(r.virt, r.data) /\ IsOf(r.virt, r.off) =>
          HoldsAt(r.virt, r.data)' /\ IsOf(r.virt, r.off)' /\ (InUse(r.virt)' => InUse(r.virt))
  BY KnownStays DEF HoldsAt
<1>5. r.key[1] = "version" => (Live(r.key[2])' => Live(r.key[2]) /\ count'[RootOf(r.key[2])'] = count[RootOf(r.key[2])])
  BY <1>2, VersionStays DEF CompletingOk
<1>6. CompletingOk(r)
  BY <1>2
<1>8. r.key[1] = "version" => r.key[2] \in 1 .. newest'
  <2>1. newest \in Nat /\ newest' \in Nat /\ newest' >= newest
    BY DEF WriterInv, WriterTypes, Steady
  <2> QED
    BY <1>6, <2>1 DEF CompletingOk
<1>7. CompletingOk(r)'
  BY <1>1, <1>3, <1>4, <1>5, <1>6, <1>8 DEF CompletingOk, Completing
<1> QED
  BY <1>1, <1>2, <1>7

\* The find that began a read has the version of the read's key.
LEMMA ReadVersion ==
    ASSUME ReaderInv, NEW r, r.q \in Finds, req[r.q].at # "idle", req[r.q].version = r.key[2]
    PROVE  r.key[2] \in 1 .. newest
BY DEF ReaderInv, FindsSound, FindOk

LEMMA BusyVersion ==
    ASSUME ReaderInv, NEW q \in Finds, req[q].at = "busy"
    PROVE  req[q].version \in 1 .. newest /\ FindOk(req[q]) /\ req[q] \in ReqRec
BY DEF ReaderInv, FindsSound, FindOk, ReaderTypes

\* A step of the writer
LEMMA ReaderUnderWriter ==
    ASSUME WriterInv, WriterInv', Steady, ReaderInv, UNCHANGED local, NoOwnFinds
    PROVE  ReaderInv'
<1>1. /\ protocol' = protocol /\ req' = req /\ thread' = thread /\ reads' = reads
      /\ inflights' = inflights /\ cache' = cache /\ hint' = hint /\ tree' = tree /\ failed' = failed
  BY DEF local
<1>2. ReaderTypes'
  BY <1>1 DEF ReaderInv, ReaderTypes, CacheOk
<1>3. FindsSound'
  <2> SUFFICES ASSUME NEW q \in Finds PROVE FindOk(req[q])'
    BY <1>1 DEF FindsSound
  <2>1. PICK f \in ReqRec : f = req[q]
    BY DEF ReaderInv, ReaderTypes
  <2>2. FindOk(f)'
    BY <2>1, FindStays DEF ReaderInv, FindsSound
  <2> QED
    BY <1>1, <2>1, <2>2
<1>4. CacheHolds'
  BY <1>1, KnownStays DEF ReaderInv, CacheHolds
<1>5. TreeRight'
  <2>1. newest \in Nat /\ newest' \in Nat /\ newest' >= newest
    BY DEF WriterInv, WriterTypes, Steady
  <2> SUFFICES ASSUME NEW v \in 1 .. MaxVersion, tree[v] # Unwritten
               PROVE  v <= newest' /\ tree[v] = Leaf(truth'[v])
    BY <1>1 DEF TreeRight, Leaf
  <2>2. v <= newest /\ tree[v] = Leaf(truth[v])
    BY DEF ReaderInv, TreeRight
  <2>3. v \in 1 .. newest
    BY <2>1, <2>2
  <2>4. truth'[v] = truth[v]
    BY <2>3 DEF Steady
  <2> QED
    BY <2>1, <2>2, <2>3, <2>4
<1>6. OnePlace'
  BY <1>1 DEF ReaderInv, OnePlace, IsHandling
<1>7. failed' = {}
  BY <1>1 DEF ReaderInv
<1>8. IsHandling' = IsHandling /\ IsCompleting' = IsCompleting
  BY <1>1 DEF IsHandling, IsCompleting
<1>9. thread.virt \in Nat /\ thread.virt <= inserted'
  BY DEF ReaderInv, ReaderTypes, ThreadSound, ThreadRec, WriterInv, WriterTypes, Steady
<1>10. CASE protocol = "rw"
  <2>1. thread = ThreadIdle /\ inflights = <<>>
    BY <1>10 DEF NoOwnFinds
  <2>2. thread.at = "idle" /\ thread.todo = <<>> /\ ~IsHandling /\ ~IsCompleting
    BY <2>1 DEF ThreadIdle, IsHandling, IsCompleting, Handling, Completing
  <2>3. reads = {}
    BY <2>1 DEF ReaderInv, ReadsSound, InFlight
  <2>4. ReadsSound'
    BY <1>1, <1>8, <2>2, <2>3 DEF ReadsSound, InFlight
  <2>5. WaitingSound'
    BY <1>1, <2>1 DEF WaitingSound
  <2>6. ThreadSound'
    BY <1>1, <1>8, <1>9, <2>1, <2>2 DEF ThreadSound
  <2> QED
    BY <1>2, <1>3, <1>4, <1>5, <1>6, <1>7, <2>4, <2>5, <2>6 DEF ReaderInv
<1>11. CASE protocol # "rw"
  <2>1. ReadsSound'
    <3>1. \A r \in reads : ReadOk(r)'
      <4> SUFFICES ASSUME NEW r \in reads PROVE ReadOk(r)'
        OBVIOUS
      <4>1. r \in ReadRec /\ ReadOk(r)
        BY DEF ReaderInv, ReaderTypes, ReadsSound
      <4> QED
        BY <1>11, <4>1, ReadStays
    <3>2. IsCompleting => CompletingOk(thread.read)'
      BY <1>11, CompletingStays DEF ReaderInv, ReadsSound
    <3>3. \A r \in reads \cup {thread.read} : InFlight(r)' <=> InFlight(r)
      BY <1>1, <1>8 DEF InFlight
    <3> QED
      BY <1>1, <1>8, <3>1, <3>2, <3>3 DEF ReaderInv, ReadsSound
  <2>2. WaitingSound'
    <3> SUFFICES ASSUME NEW i \in DOMAIN inflights
                 PROVE  /\ inflights[i].waiting # <<>>
                        /\ \A j \in DOMAIN inflights[i].waiting :
                              /\ req[inflights[i].waiting[j]].at = "busy"
                              /\ OwnOk(req[inflights[i].waiting[j]])'
                              /\ WaitsOk(req[inflights[i].waiting[j]], inflights[i].key)'
      BY <1>1 DEF WaitingSound
    <3>1. inflights[i].waiting # <<>>
      BY DEF ReaderInv, WaitingSound
    <3>2. ASSUME NEW j \in DOMAIN inflights[i].waiting
          PROVE  /\ req[inflights[i].waiting[j]].at = "busy"
                 /\ OwnOk(req[inflights[i].waiting[j]])'
                 /\ WaitsOk(req[inflights[i].waiting[j]], inflights[i].key)'
      <4>2. PICK q \in Finds : q = inflights[i].waiting[j]
        BY InflightType
      <4>3. req[q].at = "busy" /\ WaitsOk(req[q], inflights[i].key)
        BY <4>2 DEF ReaderInv, WaitingSound
      <4>4. PICK f, key : f = req[q] /\ key = inflights[i].key
        OBVIOUS
      <4>5. WaitsOk(f, key)'
        BY <1>11, <4>3, <4>4, BusyVersion, WaitStays
      <4>6. OwnOk(f)'
        BY <1>1, <1>11 DEF OwnOk
      <4> QED
        BY <1>1, <4>2, <4>3, <4>4, <4>5, <4>6
    <3> QED
      BY <3>1, <3>2
  <2>3. ThreadSound'
    <3>1. ASSUME IsHandling PROVE HandledOk(req[thread.q])' /\ OwnOk(req[thread.q])'
      <4>1. thread.q \in Finds /\ req[thread.q].at = "busy" /\ HandledOk(req[thread.q])
        BY <3>1 DEF ReaderInv, ThreadSound
      <4>2. PICK f : f = req[thread.q]
        OBVIOUS
      <4>3. HandledOk(f)'
        BY <4>1, <4>2, BusyVersion, HandledStays
      <4>4. OwnOk(f)'
        BY <1>1, <1>11 DEF OwnOk
      <4> QED
        BY <1>1, <4>2, <4>3, <4>4
    <3>2. ASSUME NEW i \in DOMAIN thread.todo
          PROVE  /\ OwnOk(req[thread.todo[i]])'
                 /\ Live(req[thread.todo[i]].version)' =>
                        thread.read.data = disk'[Target(req[thread.todo[i]])']
      <4>1. thread.todo \in Seq(Finds)
        BY DEF ReaderInv, ReaderTypes, ThreadRec
      <4>2. PICK q \in Finds : q = thread.todo[i]
        BY <4>1
      <4>3. req[q].at = "busy" /\ (Live(req[q].version) => thread.read.data = disk[Target(req[q])])
        BY <4>2 DEF ReaderInv, ThreadSound
      <4>4. PICK f : f = req[q]
        OBVIOUS
      <4>5. Live(f.version)' => thread.read.data = disk'[Target(f)']
        BY <4>3, <4>4, BusyVersion, TargetStays
      <4>6. OwnOk(f)'
        BY <1>1, <1>11 DEF OwnOk
      <4>7. f.version = req[thread.todo[i]].version /\ f = req'[thread.todo[i]]
        BY <1>1, <4>2, <4>4
      <4>8. Live(f.version)' <=> Live(req[thread.todo[i]].version)'
        BY <1>1, <4>7
      <4> QED
        BY <1>1, <4>5, <4>6, <4>7, <4>8
    <3> QED
      BY <1>1, <1>8, <1>9, <3>1, <3>2 DEF ReaderInv, ThreadSound
  <2> QED
    BY <1>2, <1>3, <1>4, <1>5, <1>6, <1>7, <2>1, <2>2, <2>3 DEF ReaderInv
<1> QED
  BY <1>10, <1>11

-----------------------------------------------------------------------------
(* Steps of the reader leave what is shared alone. *)
LEMMA SharedSame ==
    ASSUME UNCHANGED shared
    PROVE  /\ count' = count /\ disk' = disk /\ newest' = newest /\ inserted' = inserted
           /\ oldest' = oldest /\ truth' = truth /\ ring' = ring /\ plan' = plan
           /\ freeList' = freeList /\ Done' = Done
           /\ \A v : (Live(v)' <=> Live(v)) /\ RootOf(v)' = RootOf(v) /\ LeafOf(v)' = LeafOf(v)
           /\ \A n, x : HoldsAt(n, x)' <=> HoldsAt(n, x)
           /\ \A n, c : IsOf(n, c)' <=> IsOf(n, c)
           /\ \A n : InUse(n)' <=> InUse(n)
           /\ \A f : Target(f)' = Target(f)
           /\ \A f : FindOk(f)' <=> FindOk(f)
<1>1. /\ count' = count /\ disk' = disk /\ newest' = newest /\ inserted' = inserted
      /\ oldest' = oldest /\ truth' = truth /\ ring' = ring /\ plan' = plan /\ freeList' = freeList
  BY DEF shared
<1>2. Done' = Done
  BY <1>1 DEF Done, Writing
<1>3. \A v : (Live(v)' <=> Live(v)) /\ RootOf(v)' = RootOf(v) /\ LeafOf(v)' = LeafOf(v)
  BY <1>1 DEF Live, RootOf, LeafOf, SlotOfVersion
<1>4. \A n, x : HoldsAt(n, x)' <=> HoldsAt(n, x)
  BY <1>1, <1>2 DEF HoldsAt, Chunks
<1>5. \A n, c : IsOf(n, c)' <=> IsOf(n, c)
  BY <1>1, <1>2 DEF IsOf, Chunks
<1>6. \A n : InUse(n)' <=> InUse(n)
  BY <1>1 DEF InUse, Chunks
<1>7. \A f : Target(f)' = Target(f)
  BY <1>3 DEF Target, Unwritten, None
<1>8. \A f : FindOk(f)' <=> FindOk(f)
  BY <1>1, <1>3 DEF FindOk, Unwritten, None, Leaf
<1> QED
  BY <1>1, <1>2, <1>3, <1>4, <1>5, <1>6, <1>7, <1>8

LEMMA WriterUnchanged ==
    ASSUME WriterInv, UNCHANGED shared
    PROVE  WriterInv'
<1>1. /\ count' = count /\ disk' = disk /\ newest' = newest /\ inserted' = inserted
      /\ oldest' = oldest /\ truth' = truth /\ ring' = ring /\ plan' = plan /\ freeList' = freeList
  BY DEF shared
<1>2. WriterTypes' /\ CountsSound'
  BY <1>1 DEF WriterInv, WriterTypes, CountsSound
<1>3. \A c : Written(c)' <=> Written(c)
  BY SharedSame DEF Written, Chunks
<1>4. HistorySound'
  BY <1>1, <1>3, SharedSame DEF WriterInv, HistorySound, VersionOk, Root, Leaf, None
<1>5. PlanSound'
  <2>1. \A k : Kept(k)' <=> Kept(k)
    BY <1>1, <1>3 DEF Kept, Leaf, None
  <2>2. LeafItem' = LeafItem /\ \A k : RootItem(k)' = RootItem(k)
    BY <1>1 DEF LeafItem, RootItem, Leaf, Root, None
  <2>3. LeafOf(newest)' = LeafOf(newest) /\ Garbage' = Garbage
    <3>1. Referenced' = Referenced
      BY <1>1 DEF Referenced, IsValid, SlotOfVersion, None
    <3> QED
      BY <1>1, <3>1 DEF LeafOf, RootOf, SlotOfVersion, Garbage, Chunks
  <2>4. RootItem(None)' = RootItem(None)
    BY <2>2 DEF None
  <2>5. \A i, n : Appends(i, n)' <=> Appends(i, n)
    BY <1>1, <2>1, <2>2, <2>3, <2>4 DEF Appends, Chunks
  <2>6. \A n : (Room(n)' <=> Room(n)) /\ (RoomSoon(n)' <=> RoomSoon(n)) /\ (Bounded(n)' <=> Bounded(n))
    BY <1>1 DEF Room, RoomSoon, Bounded
  <2>7. Lower(newest)' = Lower(newest) /\ Lower(newest + 1)' = Lower(newest + 1)
    BY <1>1 DEF Lower
  <2>8. CASE NoPlan
    BY <1>1, <2>7, <2>8 DEF NoPlan, PlanSound
  <2>9. CASE ErasePlan
    BY <1>1, <2>5, <2>6, <2>7, <2>9 DEF ErasePlan, PlanSound
  <2>10. CASE FreePlan
    BY <1>1, <2>3, <2>5, <2>6, <2>7, <2>10 DEF FreePlan, PlanSound
  <2>11. CASE DestroyPlan
    BY <1>1, <2>5, <2>6, <2>7, <2>11 DEF DestroyPlan, PlanSound, Chunks
  <2>12. CASE AppendPlan
    BY <1>1, <2>5, <2>6, <2>7, <2>12 DEF AppendPlan, PlanSound
  <2>13. CASE LeafPlan
    BY <1>1, <2>4, <2>6, <2>7, <2>13 DEF LeafPlan, PlanSound, Chunks, Leaf, None
  <2>14. CASE RootPlan
    BY <1>1, <2>1, <2>6, <2>7, <2>14 DEF RootPlan, PlanSound, Chunks, Root
  <2>15. CASE PushPlan
    BY <1>1, <1>3, <2>1, <2>6, <2>7, <2>15 DEF PushPlan, PlanSound, Chunks, Root
  <2> QED
    BY <2>8, <2>9, <2>10, <2>11, <2>12, <2>13, <2>14, <2>15 DEF WriterInv, PlanSound
<1> QED
  BY <1>2, <1>4, <1>5 DEF WriterInv

LEMMA ValidIsLive ==
    ASSUME WriterInv, NEW v \in Nat
    PROVE  IsValid(v) <=> Live(v)
<1>1. newest \in Nat /\ oldest \in Nat
  BY DEF WriterInv, WriterTypes
<1>2. Live(v) => RootOf(v) # None
  BY <1>1, VersionsOk DEF Live
<1> QED
  BY <1>2 DEF IsValid, Live, RootOf

\* Finds that are not idle keep their versions.
ReqKept == \A p \in Finds : req[p].at # "idle" => req'[p].at # "idle" /\ req'[p].version = req[p].version

LEMMA ReadOkKept ==
    ASSUME UNCHANGED shared, protocol' = protocol, ReqKept, NEW r, ReadOk(r)
    PROVE  ReadOk(r)'
<1>1. r.q \in Finds /\ req'[r.q].at # "idle" /\ req'[r.q].version = req[r.q].version
  BY DEF ReadOk, ReqKept
<1>2. PICK v : v = req[r.q].version
  OBVIOUS
<1>3. (Live(v)' <=> Live(v)) /\ LeafOf(v)' = LeafOf(v)
  BY SharedSame
<1>4. (Live(req[r.q].version)' <=> Live(v)') /\ LeafOf(req[r.q].version)' = LeafOf(v)'
  BY <1>1, <1>2 DEF Live, LeafOf, RootOf, SlotOfVersion
<1>5. r.key[1] = "off" => Live(req[r.q].version)' /\ LeafOf(req[r.q].version)' = r.key[2]
  BY <1>2, <1>3, <1>4 DEF ReadOk
<1> QED
  BY <1>1, <1>5, SharedSame DEF ReadOk, None

\* Keys in the cache were there.
CacheStep ==
    /\ CacheOk(cache)' /\ CacheHolds' /\ hint' \in [0 .. 2 * MaxVersion -> 0 .. CacheSlots]
    /\ \A s \in ToSet(cache'.active) : \E t \in ToSet(cache.active) : cache'.slot[s].key = cache.slot[t].key

LEMMA CacheUnchanged ==
    ASSUME ReaderInv, UNCHANGED shared, cache' = cache, hint' = hint
    PROVE  CacheStep
<1>1. CacheHolds'
  BY SharedSame DEF ReaderInv, CacheHolds, None
<1> QED
  BY <1>1 DEF ReaderInv, ReaderTypes, CacheOk, CacheStep

LEMMA ReadsKept ==
    ASSUME ReaderInv, UNCHANGED shared, protocol' = protocol, ReqKept, reads' = reads,
           inflights' = inflights, ~IsCompleting, ~IsCompleting', CacheStep
    PROVE  ReadsSound'
<1>1. \A r \in reads : ReadOk(r)'
  BY ReadOkKept DEF ReaderInv, ReadsSound
<1>2. \A r \in reads : InFlight(r)
  BY DEF InFlight
<1>3. \A r \in reads : /\ \E i \in DOMAIN inflights : inflights[i].key = r.key
                       /\ protocol = "owning" => r.key = <<"virt", r.virt>>
                       /\ protocol = "owning" => \A s \in ToSet(cache.active) : cache.slot[s].key # r.virt
  BY <1>2 DEF ReaderInv, ReadsSound
<1>4. \A r \in reads : protocol = "owning" => \A s \in ToSet(cache'.active) : cache'.slot[s].key # r.virt
  BY <1>3 DEF CacheStep
<1>5. \A r : InFlight(r)' => r \in reads
  BY DEF InFlight
<1>6. \A r1, r2 \in reads : r1.key = r2.key => r1 = r2
  BY DEF ReaderInv, ReadsSound
<1>7. \A r \in reads' \cup {thread'.read} : InFlight(r)' =>
          /\ \E i \in DOMAIN inflights' : inflights'[i].key = r.key
          /\ protocol' = "owning" => r.key = <<"virt", r.virt>>
          /\ protocol' = "owning" => \A s \in ToSet(cache'.active) : cache'.slot[s].key # r.virt
  BY <1>3, <1>4, <1>5
<1> QED
  BY <1>1, <1>6, <1>7 DEF ReadsSound

LEMMA OwnSame ==
    ASSUME UNCHANGED shared, protocol' = protocol, NEW f
    PROVE  OwnOk(f)' <=> OwnOk(f)
BY SharedSame DEF OwnOk

LEMMA WaitsSame ==
    ASSUME UNCHANGED shared, protocol' = protocol, NEW f, NEW key
    PROVE  WaitsOk(f, key)' <=> WaitsOk(f, key)
BY SharedSame DEF WaitsOk, Unwritten, None

LEMMA WaitingKept ==
    ASSUME ReaderInv, UNCHANGED shared, protocol' = protocol, inflights' = inflights,
           \A i \in DOMAIN inflights : \A j \in DOMAIN inflights[i].waiting :
               req'[inflights[i].waiting[j]] = req[inflights[i].waiting[j]]
    PROVE  WaitingSound'
<1> SUFFICES ASSUME NEW i \in DOMAIN inflights, NEW j \in DOMAIN inflights[i].waiting
             PROVE  /\ req'[inflights[i].waiting[j]].at = "busy"
                    /\ OwnOk(req[inflights[i].waiting[j]])'
                    /\ WaitsOk(req[inflights[i].waiting[j]], inflights[i].key)'
  BY DEF ReaderInv, WaitingSound
<1>1. PICK f, key : f = req[inflights[i].waiting[j]] /\ key = inflights[i].key
  OBVIOUS
<1>2. f.at = "busy" /\ OwnOk(f) /\ WaitsOk(f, key) /\ f = req'[inflights[i].waiting[j]]
  BY <1>1 DEF ReaderInv, WaitingSound
<1>3. OwnOk(f)' /\ WaitsOk(f, key)'
  BY <1>2, OwnSame, WaitsSame
<1> QED
  BY <1>1, <1>2, <1>3

LEMMA TreeKept ==
    ASSUME ReaderInv, UNCHANGED shared, tree' = tree
    PROVE  TreeRight'
BY SharedSame DEF ReaderInv, TreeRight, Unwritten, Leaf, None

-----------------------------------------------------------------------------
(* The thread handles a find. *)
LEMMA HandlingFacts ==
    ASSUME ReaderInv, IsHandling
    PROVE  /\ thread.q \in Finds /\ req[thread.q].at = "busy" /\ req[thread.q] \in ReqRec
           /\ req[thread.q].version \in 1 .. newest /\ req[thread.q].version \in Nat
           /\ FindOk(req[thread.q]) /\ OwnOk(req[thread.q]) /\ HandledOk(req[thread.q])
           /\ ~IsCompleting
           /\ \A i \in DOMAIN inflights : \A j \in DOMAIN inflights[i].waiting :
                  inflights[i].waiting[j] # thread.q
           /\ \A i \in DOMAIN thread.todo : thread.todo[i] # thread.q
<1>1. thread.q \in Finds /\ req[thread.q].at = "busy" /\ OwnOk(req[thread.q]) /\ HandledOk(req[thread.q])
  BY DEF ReaderInv, ThreadSound
<1>2. req[thread.q] \in ReqRec /\ req[thread.q].version \in Nat
  BY <1>1 DEF ReaderInv, ReaderTypes, ReqRec
<1>3. req[thread.q].version \in 1 .. newest /\ FindOk(req[thread.q])
  BY <1>1, BusyVersion
<1>4. ~IsCompleting
  BY DEF IsHandling, IsCompleting, Handling, Completing
<1> QED
  BY <1>1, <1>2, <1>3, <1>4 DEF ReaderInv, OnePlace

LEMMA FindsChanged ==
    ASSUME ReaderInv, UNCHANGED shared, NEW q \in Finds, NEW f \in ReqRec, FindOk(f),
           req' = [req EXCEPT ![q] = f]
    PROVE  /\ req' \in [Finds -> ReqRec] /\ FindsSound' /\ req'[q] = f
           /\ \A p \in Finds : p # q => req'[p] = req[p]
<1>1. req \in [Finds -> ReqRec]
  BY DEF ReaderInv, ReaderTypes
<1>2. /\ req' \in [Finds -> ReqRec] /\ req'[q] = f
      /\ \A p \in Finds : p # q => req'[p] = req[p]
  BY <1>1
<1>3. \A p \in Finds : FindOk(req'[p])
  BY <1>2 DEF ReaderInv, FindsSound
<1>4. FindsSound'
  <2> SUFFICES ASSUME NEW p \in Finds PROVE FindOk(req[p])'
    BY DEF FindsSound
  <2>1. PICK g : g = req'[p]
    OBVIOUS
  <2>2. FindOk(g)'
    BY <1>3, <2>1, SharedSame
  <2> QED
    BY <2>1, <2>2
<1> QED
  BY <1>2, <1>4

\* It goes on with the find.
LEMMA StayStep ==
    ASSUME WriterInv, ReaderInv, UNCHANGED <<shared, protocol, reads, inflights, tree, failed>>,
           IsHandling, NEW f \in ReqRec, req' = [req EXCEPT ![thread.q] = f],
           f.at = "busy", f.version = req[thread.q].version, FindOk(f), OwnOk(f), HandledOk(f)',
           thread' \in ThreadRec, IsHandling', thread'.q = thread.q, thread'.todo = thread.todo,
           thread'.virt <= inserted, thread'.read = thread.read \/ thread.todo = <<>>, CacheStep
    PROVE  ReaderInv'
<1>1. /\ protocol' = protocol /\ reads' = reads /\ inflights' = inflights /\ tree' = tree
      /\ failed' = failed /\ UNCHANGED shared
  OBVIOUS
<1>2. /\ req' \in [Finds -> ReqRec] /\ FindsSound' /\ req'[thread.q] = f
      /\ \A p \in Finds : p # thread.q => req'[p] = req[p]
  BY <1>1, HandlingFacts, FindsChanged
<1>3. ReqKept
  BY <1>2, HandlingFacts DEF ReqKept
<1>4. ReaderTypes'
  BY <1>1, <1>2 DEF ReaderInv, ReaderTypes, CacheStep, CacheOk
<1>5. ~IsCompleting'
  BY DEF IsHandling, IsCompleting, Handling, Completing
<1>6. ReadsSound'
  BY <1>1, <1>3, <1>5, HandlingFacts, ReadsKept
<1>7. WaitingSound'
  BY <1>1, <1>2, HandlingFacts, InflightType, WaitingKept
<1>8. \A i \in DOMAIN thread.todo : req'[thread.todo[i]] = req[thread.todo[i]]
  BY <1>2, HandlingFacts DEF ReaderInv, ReaderTypes, ThreadRec
<1>9. ThreadSound'
  <2>1. thread'.at # "idle" /\ thread'.virt <= inserted'
    BY SharedSame DEF IsHandling, Handling
  <2>2. req'[thread'.q] = f /\ OwnOk(f)' /\ thread'.q \in Finds
    BY <1>1, <1>2, OwnSame, HandlingFacts
  <2>3. ASSUME NEW i \in DOMAIN thread.todo
        PROVE  /\ protocol' # "blocking" /\ req'[thread.todo[i]].at = "busy"
               /\ OwnOk(req[thread.todo[i]])'
               /\ Live(req[thread.todo[i]].version)' =>
                      thread'.read.data = disk'[Target(req[thread.todo[i]])']
    <3>1. PICK g : g = req[thread.todo[i]]
      OBVIOUS
    <3>2. /\ protocol # "blocking" /\ g.at = "busy" /\ OwnOk(g)
          /\ Live(g.version) => thread.read.data = disk[Target(g)]
      BY <3>1 DEF ReaderInv, ThreadSound
    <3>3. thread'.read = thread.read
      OBVIOUS
    <3>4. OwnOk(g)' /\ (Live(g.version)' => thread'.read.data = disk'[Target(g)'])
      BY <1>1, <3>2, <3>3, OwnSame, SharedSame
    <3>5. g = req'[thread'.todo[i]]
      BY <1>8, <3>1
    <3> QED
      BY <1>1, <3>2, <3>4, <3>5
  <2> QED
    BY <2>1, <2>2, <2>3 DEF ThreadSound
<1>10. OnePlace'
  BY <1>1 DEF ReaderInv, OnePlace
<1>11. TreeRight' /\ failed' = {} /\ CacheHolds'
  BY <1>1, TreeKept DEF ReaderInv, CacheStep
<1> QED
  BY <1>2, <1>4, <1>6, <1>7, <1>9, <1>10, <1>11 DEF ReaderInv

\* It goes on with the next one.
LEMMA NextThread ==
    ASSUME WriterInv, ReaderInv, UNCHANGED shared, protocol' = protocol, IsHandling,
           \A i \in DOMAIN thread.todo : req'[thread.todo[i]] = req[thread.todo[i]],
           Waits
    PROVE  /\ thread' \in ThreadRec /\ ThreadSound' /\ ~IsCompleting'
           /\ IsHandling' => 1 \in DOMAIN thread.todo /\ thread'.q = thread.todo[1]
           /\ \A i \in DOMAIN thread'.todo : i \in Nat /\ i >= 1 /\ i + 1 \in DOMAIN thread.todo
                                             /\ thread'.todo[i] = thread.todo[i + 1]
<1>1. CASE thread.todo = <<>>
  <2>1. thread' = ThreadIdle
    BY <1>1 DEF Waits
  <2>2. ThreadIdle \in ThreadRec
    <3>1. <<"none", 0>> \in Keys
      BY DEF Keys, Tags
    <3>2. NoRead \in ReadRec
      BY <3>1, UnwrittenIsNode, ReadersAssumption DEF NoRead, ReadRec, None
    <3> QED
      BY <3>2 DEF ThreadIdle, ThreadRec, None
  <2>3. thread'.at = "idle" /\ thread'.todo = <<>> /\ thread'.virt = 0
    BY <2>1 DEF ThreadIdle, None
  <2>4. ~IsHandling' /\ ~IsCompleting'
    BY <2>3 DEF IsHandling, IsCompleting, Handling, Completing
  <2>5. thread'.virt <= inserted'
    BY <2>3, SharedSame DEF WriterInv, WriterTypes
  <2>6. ThreadIdle' = ThreadIdle
    BY DEF ThreadIdle, NoRead, Unwritten, None
  <2>7. ThreadSound'
    BY <2>1, <2>3, <2>4, <2>5, <2>6 DEF ThreadSound
  <2> QED
    BY <2>1, <2>2, <2>3, <2>4, <2>7
<1>2. CASE thread.todo # <<>>
  <2>1. thread' = [thread EXCEPT !.at = "resume", !.q = Head(thread.todo), !.todo = Tail(thread.todo)]
    BY <1>2 DEF Waits
  <2>2. thread \in ThreadRec /\ thread.todo \in Seq(Finds)
    BY DEF ReaderInv, ReaderTypes, ThreadRec
  <2>3. PICK p, t : p = Head(thread.todo) /\ t = Tail(thread.todo)
    OBVIOUS
  <2>4. /\ p = thread.todo[1] /\ 1 \in DOMAIN thread.todo /\ p \in Finds /\ t \in Seq(Finds)
        /\ Len(thread.todo) \in Nat /\ Len(t) = Len(thread.todo) - 1
        /\ \A i \in 1 .. Len(t) : t[i] = thread.todo[i + 1]
    BY <1>2, <2>2, <2>3
  <2>5. /\ thread'.at = "resume" /\ thread'.q = p /\ thread'.todo = t /\ thread'.read = thread.read
        /\ thread'.virt = thread.virt /\ thread' \in ThreadRec
    BY <2>1, <2>2, <2>3, <2>4 DEF ThreadRec, Handling
  <2>6. IsHandling' /\ ~IsCompleting'
    BY <2>5 DEF IsHandling, IsCompleting, Handling, Completing
  <2>7. \A i \in DOMAIN t : i \in Nat /\ i >= 1 /\ i + 1 \in DOMAIN thread.todo /\ t[i] = thread.todo[i + 1]
    BY <2>2, <2>4
  <2>8. ASSUME NEW i \in DOMAIN thread.todo
        PROVE  /\ protocol' # "blocking" /\ req'[thread.todo[i]].at = "busy"
               /\ \A g : g = req'[thread.todo[i]] =>
                     /\ g.at = "busy" /\ OwnOk(g)' /\ thread.todo[i] \in Finds
                     /\ Live(g.version)' => thread'.read.data = disk'[Target(g)']
    <3>1. PICK g : g = req[thread.todo[i]]
      OBVIOUS
    <3>2. /\ protocol # "blocking" /\ g.at = "busy" /\ OwnOk(g)
          /\ Live(g.version) => thread.read.data = disk[Target(g)]
      BY <3>1 DEF ReaderInv, ThreadSound
    <3>3. OwnOk(g)' /\ (Live(g.version)' => thread'.read.data = disk'[Target(g)'])
      BY <2>5, <3>2, OwnSame, SharedSame
    <3>4. g = req'[thread.todo[i]] /\ thread.todo[i] \in Finds
      BY <2>2, <3>1
    <3> QED
      BY <3>2, <3>3, <3>4
  <2>9. ThreadSound'
    <3>1. thread'.virt <= inserted'
      BY <2>5, SharedSame DEF ReaderInv, ThreadSound
    <3>2. PICK f : f = req'[p]
      OBVIOUS
    <3>3. f.at = "busy" /\ OwnOk(f)' /\ (Live(f.version)' => thread'.read.data = disk'[Target(f)'])
          /\ protocol' # "blocking"
      BY <2>4, <2>8, <3>2
    <3>4. HandledOk(f)'
      BY <2>5, <3>3 DEF HandledOk, HandledAt
    <3>5. thread'.q \in Finds /\ req'[thread'.q].at = "busy" /\ OwnOk(req[thread.q])' /\ HandledOk(req[thread.q])'
      BY <2>4, <2>5, <3>2, <3>3, <3>4
    <3>6. ASSUME NEW i \in DOMAIN thread'.todo
          PROVE  /\ IsHandling' /\ protocol' # "blocking" /\ req'[thread'.todo[i]].at = "busy"
                 /\ OwnOk(req[thread.todo[i]])'
                 /\ Live(req[thread.todo[i]].version)' =>
                        thread'.read.data = disk'[Target(req[thread.todo[i]])']
      <4>1. i + 1 \in DOMAIN thread.todo /\ thread'.todo[i] = thread.todo[i + 1]
        BY <2>5, <2>7
      <4>2. PICK j \in DOMAIN thread.todo : thread'.todo[i] = thread.todo[j]
        BY <4>1
      <4>3. PICK g : g = req'[thread'.todo[i]]
        OBVIOUS
      <4>4. /\ g.at = "busy" /\ OwnOk(g)' /\ protocol' # "blocking"
            /\ Live(g.version)' => thread'.read.data = disk'[Target(g)']
        BY <2>8, <4>2, <4>3
      <4> QED
        BY <2>6, <4>3, <4>4
    <3> QED
      BY <2>5, <3>1, <3>5, <3>6 DEF ThreadSound
  <2> QED
    BY <2>4, <2>5, <2>6, <2>7, <2>9
<1> QED
  BY <1>1, <1>2

LEMMA NextPlace ==
    ASSUME ReaderInv, IsHandling, inflights' = inflights,
           IsHandling' => 1 \in DOMAIN thread.todo /\ thread'.q = thread.todo[1],
           \A i \in DOMAIN thread'.todo : i \in Nat /\ i >= 1 /\ i + 1 \in DOMAIN thread.todo
                                          /\ thread'.todo[i] = thread.todo[i + 1]
    PROVE  OnePlace'
<1>1. \A i \in DOMAIN inflights : \A a \in DOMAIN inflights[i].waiting :
          /\ \A k \in DOMAIN thread.todo : inflights[i].waiting[a] # thread.todo[k]
          /\ \A j \in DOMAIN inflights : \A b \in DOMAIN inflights[j].waiting :
                inflights[i].waiting[a] = inflights[j].waiting[b] => i = j /\ a = b
  BY DEF ReaderInv, OnePlace
<1>2. \A k, m \in DOMAIN thread.todo : thread.todo[k] = thread.todo[m] => k = m
  BY DEF ReaderInv, OnePlace
<1>3. ASSUME NEW k \in DOMAIN thread'.todo
      PROVE  /\ IsHandling' => thread'.todo[k] # thread'.q
             /\ \A m \in DOMAIN thread'.todo : thread'.todo[k] = thread'.todo[m] => k = m
  <2>1. IsHandling' => thread'.todo[k] # thread'.q
    <3>1. k + 1 # 1
      OBVIOUS
    <3> QED
      BY <1>2, <3>1
  <2>2. ASSUME NEW m \in DOMAIN thread'.todo, thread'.todo[k] = thread'.todo[m] PROVE k = m
    <3>1. k + 1 = m + 1
      BY <1>2, <2>2
    <3> QED
      BY <3>1
  <2> QED
    BY <2>1, <2>2
<1>4. ASSUME NEW i \in DOMAIN inflights, NEW a \in DOMAIN inflights[i].waiting
      PROVE  /\ IsHandling' => inflights[i].waiting[a] # thread'.q
             /\ \A k \in DOMAIN thread'.todo : inflights[i].waiting[a] # thread'.todo[k]
  BY <1>1
<1> QED
  BY <1>1, <1>3, <1>4 DEF OnePlace

\* The find is answered.
LEMMA FinishStep ==
    ASSUME WriterInv, ReaderInv, UNCHANGED <<shared, protocol, reads, inflights, tree, failed, cache, hint>>,
           IsHandling, NEW result \in {"success", "gone"}, Finished(thread.q, result),
           result = "gone" => ~Live(req[thread.q].version),
           result = "success" => req[thread.q].leaf = Leaf(truth[req[thread.q].version])
    PROVE  ReaderInv'
<1>1. /\ protocol' = protocol /\ reads' = reads /\ inflights' = inflights /\ tree' = tree
      /\ failed' = failed /\ UNCHANGED shared /\ cache' = cache /\ hint' = hint
  OBVIOUS
<1>2. PICK f : f = [req[thread.q] EXCEPT !.result = result, !.at = "done"]
  OBVIOUS
<1>3. req' = [req EXCEPT ![thread.q] = f]
  BY <1>2 DEF Finished
<1>4. /\ f \in ReqRec /\ f.at = "done" /\ f.result = result /\ f.version = req[thread.q].version
      /\ f.leaf = req[thread.q].leaf /\ f.virt = req[thread.q].virt /\ f.rootVirt = req[thread.q].rootVirt
  BY <1>2, HandlingFacts DEF ReqRec
<1>5. FindOk(f)
  BY <1>4, HandlingFacts DEF FindOk
<1>6. /\ req' \in [Finds -> ReqRec] /\ FindsSound' /\ req'[thread.q] = f
      /\ \A p \in Finds : p # thread.q => req'[p] = req[p]
  BY <1>1, <1>3, <1>4, <1>5, HandlingFacts, FindsChanged
<1>7. ReqKept
  BY <1>4, <1>6, HandlingFacts DEF ReqKept
<1>8. CacheStep
  BY <1>1, CacheUnchanged
<1>9. \A i \in DOMAIN thread.todo : req'[thread.todo[i]] = req[thread.todo[i]]
  BY <1>6, HandlingFacts DEF ReaderInv, ReaderTypes, ThreadRec
<1>10. /\ thread' \in ThreadRec /\ ThreadSound' /\ ~IsCompleting'
       /\ IsHandling' => 1 \in DOMAIN thread.todo /\ thread'.q = thread.todo[1]
       /\ \A i \in DOMAIN thread'.todo : i \in Nat /\ i >= 1 /\ i + 1 \in DOMAIN thread.todo
                                         /\ thread'.todo[i] = thread.todo[i + 1]
  <2>1. Waits
    BY DEF Finished, Waits
  <2> QED
    BY <1>1, <1>9, <2>1, NextThread
<1>11. OnePlace'
  BY <1>1, <1>10, NextPlace
<1>12. ReaderTypes'
  BY <1>1, <1>6, <1>8, <1>10 DEF ReaderInv, ReaderTypes, CacheStep, CacheOk
<1>13. ReadsSound'
  BY <1>1, <1>7, <1>8, <1>10, HandlingFacts, ReadsKept
<1>14. WaitingSound'
  BY <1>1, <1>6, HandlingFacts, InflightType, WaitingKept
<1>15. TreeRight' /\ failed' = {} /\ CacheHolds'
  BY <1>1, <1>8, TreeKept DEF ReaderInv, CacheStep
<1> QED
  BY <1>6, <1>10, <1>11, <1>12, <1>13, <1>14, <1>15 DEF ReaderInv

LEMMA HandledSame ==
    ASSUME UNCHANGED shared, protocol' = protocol, NEW f, NEW at, NEW data
    PROVE  HandledAt(f, at, data)' <=> HandledAt(f, at, data)
BY SharedSame DEF HandledAt, Unwritten, None

LEMMA GotoStep ==
    ASSUME WriterInv, ReaderInv, UNCHANGED <<shared, protocol, reads, inflights, tree, failed>>,
           CacheStep, IsHandling, NEW f \in ReqRec, req' = [req EXCEPT ![thread.q] = f],
           f.at = "busy", f.version = req[thread.q].version, FindOk(f), OwnOk(f),
           NEW at \in Handling, Goto(at), HandledAt(f, at, thread.read.data)
    PROVE  ReaderInv'
<1>1. thread \in ThreadRec
  BY DEF ReaderInv, ReaderTypes
<1>2. /\ thread' \in ThreadRec /\ thread'.at = at /\ thread'.q = thread.q /\ thread'.todo = thread.todo
      /\ thread'.read = thread.read /\ thread'.virt = thread.virt
  BY <1>1 DEF Goto, ThreadRec
<1>3. IsHandling'
  BY <1>2 DEF IsHandling
<1>4. PICK data : data = thread.read.data
  OBVIOUS
<1>5. HandledAt(f, at, data)'
  BY <1>4, HandledSame
<1>6. HandledOk(f)'
  BY <1>2, <1>4, <1>5 DEF HandledOk
<1>7. thread'.virt <= inserted
  BY <1>2 DEF ReaderInv, ThreadSound
<1> QED
  BY <1>2, <1>3, <1>6, <1>7, StayStep

LEMMA SetOff ==
    ASSUME ReaderInv, IsHandling, NEW off \in 0 .. NumChunks, NEW f, f = [req[thread.q] EXCEPT !.off = off]
    PROVE  /\ f \in ReqRec /\ f.at = "busy" /\ f.version = req[thread.q].version /\ f.off = off
           /\ f.root = req[thread.q].root /\ f.leaf = req[thread.q].leaf /\ f.virt = req[thread.q].virt
           /\ FindOk(f) /\ OwnOk(f) /\ Target(f) = Target(req[thread.q])
<1>1. /\ f \in ReqRec /\ f.at = "busy" /\ f.version = req[thread.q].version /\ f.off = off
      /\ f.root = req[thread.q].root /\ f.leaf = req[thread.q].leaf /\ f.virt = req[thread.q].virt
      /\ f.rootVirt = req[thread.q].rootVirt /\ f.result = req[thread.q].result
  BY HandlingFacts DEF ReqRec
<1> QED
  BY <1>1, HandlingFacts DEF FindOk, OwnOk, Target

LEMMA SetVirt ==
    ASSUME WriterInv, ReaderInv, IsHandling, NEW virt \in Nat, virt <= inserted, NEW f,
           f = [req[thread.q] EXCEPT !.virt = virt]
    PROVE  /\ f \in ReqRec /\ f.at = "busy" /\ f.version = req[thread.q].version
           /\ f.off = req[thread.q].off /\ f.virt = virt
           /\ f.root = req[thread.q].root /\ f.leaf = req[thread.q].leaf
           /\ FindOk(f) /\ OwnOk(f) /\ Target(f) = Target(req[thread.q])
<1>1. /\ f \in ReqRec /\ f.at = "busy" /\ f.version = req[thread.q].version /\ f.off = req[thread.q].off
      /\ f.root = req[thread.q].root /\ f.leaf = req[thread.q].leaf /\ f.virt = virt
      /\ f.rootVirt = req[thread.q].rootVirt /\ f.result = req[thread.q].result
  BY HandlingFacts DEF ReqRec
<1> QED
  BY <1>1, HandlingFacts DEF FindOk, OwnOk, Target

\* The find as it was
LEMMA SetNothing ==
    ASSUME ReaderInv, IsHandling
    PROVE  req = [req EXCEPT ![thread.q] = req[thread.q]]
BY HandlingFacts DEF ReaderInv, ReaderTypes

LEMMA HandledFacts ==
    ASSUME ReaderInv, NEW at \in Handling, thread.at = at
    PROVE  IsHandling /\ HandledAt(req[thread.q], at, thread.read.data)
BY HandlingFacts DEF IsHandling, HandledOk

LEMMA ReadSlotStep ==
    ASSUME WriterInv, ReaderInv, ReadSlot
    PROVE  ReaderInv'
<1>1. /\ thread.at = "slot" /\ UNCHANGED <<shared, protocol, reads, inflights, tree, failed>>
      /\ cache' = cache /\ hint' = hint /\ Goto("bound")
      /\ req' = [req EXCEPT ![thread.q].off = ring[SlotOfVersion(req[thread.q].version)]]
  BY DEF ReadSlot, At, Q
<1>2. "slot" \in Handling /\ "bound" \in Handling
  BY DEF Handling
<1>3. IsHandling /\ HandledAt(req[thread.q], "slot", thread.read.data)
  BY <1>1, <1>2, HandledFacts
<1>4. PICK off : off = RootOf(req[thread.q].version)
  OBVIOUS
<1>5. off \in 0 .. NumChunks
  <2>1. SlotOfVersion(req[thread.q].version) \in 0 .. Capacity - 1
    BY <1>3, HandlingFacts, SlotRange
  <2>2. ring \in [0 .. Capacity - 1 -> 0 .. NumChunks]
    BY DEF WriterInv, WriterTypes
  <2> QED
    BY <1>4, <2>1, <2>2 DEF RootOf
<1>6. PICK f : f = [req[thread.q] EXCEPT !.off = off]
  OBVIOUS
<1>7. req' = [req EXCEPT ![thread.q] = f]
  BY <1>1, <1>4, <1>6 DEF RootOf
<1>8. /\ f \in ReqRec /\ f.at = "busy" /\ f.version = req[thread.q].version /\ f.off = off
      /\ f.root = req[thread.q].root /\ FindOk(f) /\ OwnOk(f)
  BY <1>3, <1>5, <1>6, SetOff
<1>9. HandledAt(f, "bound", thread.read.data)
  BY <1>3, <1>4, <1>8 DEF HandledAt, Target
<1>10. CacheStep
  BY <1>1, CacheUnchanged
<1> QED
  BY <1>1, <1>2, <1>3, <1>7, <1>8, <1>9, <1>10, GotoStep

LEMMA ReadBoundStep ==
    ASSUME WriterInv, ReaderInv, ReadBound
    PROVE  ReaderInv'
<1>1. PICK off :
      /\ thread.at = "bound" /\ UNCHANGED <<shared, protocol, reads, inflights, tree, failed, cache, hint>>
      /\ off = IF req[thread.q].version >= oldest THEN req[thread.q].off ELSE None
      /\ IF protocol = "blocking" /\ off = None THEN Finished(thread.q, "gone")
         ELSE /\ req' = [req EXCEPT ![thread.q].off = off]
              /\ Goto(IF protocol = "blocking" THEN "before" ELSE "translate")
  BY DEF ReadBound, At, Q
<1>2. "bound" \in Handling /\ "before" \in Handling /\ "translate" \in Handling
  BY DEF Handling
<1>3. IsHandling /\ HandledAt(req[thread.q], "bound", thread.read.data)
  BY <1>1, <1>2, HandledFacts
<1>4. /\ Live(req[thread.q].version) => req[thread.q].off = RootOf(req[thread.q].version)
      /\ req[thread.q].root = Unwritten /\ protocol # "rw"
  BY <1>3 DEF HandledAt, Target
<1>5. Live(req[thread.q].version) => off = RootOf(req[thread.q].version) /\ off # None
  <2>1. newest \in Nat /\ oldest \in Nat /\ req[thread.q].version \in Nat
    BY <1>3, HandlingFacts DEF WriterInv, WriterTypes
  <2> QED
    BY <1>1, <1>4, <2>1, VersionsOk DEF Live
<1>6. off \in 0 .. NumChunks
  BY <1>1, <1>3, HandlingFacts, ReadersAssumption DEF ReqRec, None
<1>7. CASE protocol = "blocking" /\ off = None
  BY <1>1, <1>3, <1>5, <1>7, FinishStep
<1>8. CASE ~(protocol = "blocking" /\ off = None)
  <2>1. PICK f, at : /\ f = [req[thread.q] EXCEPT !.off = off]
                     /\ at = IF protocol = "blocking" THEN "before" ELSE "translate"
    OBVIOUS
  <2>2. req' = [req EXCEPT ![thread.q] = f] /\ Goto(at) /\ at \in Handling
    BY <1>1, <1>2, <1>8, <2>1
  <2>3. /\ f \in ReqRec /\ f.at = "busy" /\ f.version = req[thread.q].version /\ f.off = off
        /\ f.root = req[thread.q].root /\ FindOk(f) /\ OwnOk(f)
    BY <1>3, <1>6, <2>1, SetOff
  <2>4. protocol \in {"blocking", "owning", "async"}
    BY <1>4 DEF ReaderInv, ReaderTypes
  <2>5. HandledAt(f, at, thread.read.data)
    BY <1>4, <1>5, <1>8, <2>1, <2>3, <2>4 DEF HandledAt, Target
  <2>6. CacheStep
    BY <1>1, CacheUnchanged
  <2> QED
    BY <1>1, <1>3, <2>2, <2>3, <2>5, <2>6, GotoStep
<1> QED
  BY <1>7, <1>8

\* The chunk a find of a version that is there looks for
LEMMA TargetFacts ==
    ASSUME WriterInv, NEW f, f.version \in Nat, Live(f.version)
    PROVE  /\ Target(f) \in Chunks /\ Target(f) # None /\ count[Target(f)] # 0
           /\ count[Target(f)] \in 1 .. Done /\ disk[Target(f)] # Unwritten
           /\ IsOf(count[Target(f)], Target(f)) /\ HoldsAt(count[Target(f)], disk[Target(f)])
           /\ disk[Target(f)] \in Nodes
<1>1. PICK v \in oldest .. newest : v = f.version
  BY DEF Live, WriterInv, WriterTypes
<1>2. PICK c \in Chunks : c = Target(f) /\ Written(c)
  BY <1>1, VersionsOk DEF Target
<1>3. c # None /\ count[c] # 0 /\ count[c] \in Nat /\ count[c] \in 1 .. Done
  BY <1>2, DoneType DEF Chunks, None, Written, WriterInv, WriterTypes
<1>4. disk[c] # Unwritten
  <2>1. disk[RootOf(v)].kind = "root" /\ disk[LeafOf(v)].kind = "leaf" /\ Unwritten.kind = "none"
    <3>1. disk[RootOf(v)] = Root(v, LeafOf(v)) /\ disk[LeafOf(v)] = Leaf(truth[v])
      BY VersionsOk
    <3>2. Root(v, LeafOf(v)).kind = "root" /\ Leaf(truth[v]).kind = "leaf" /\ Unwritten.kind = "none"
      BY DEF Root, Leaf, Unwritten
    <3> QED
      BY <3>1, <3>2
  <2> QED
    BY <1>1, <1>2, <2>1 DEF Target
<1>5. IsOf(count[c], c) /\ HoldsAt(count[c], disk[c])
  BY <1>3 DEF IsOf, HoldsAt, WriterInv, CountsSound
<1>6. disk[c] \in Nodes
  BY DEF WriterInv, WriterTypes
<1> QED
  BY <1>2, <1>3, <1>4, <1>5, <1>6

LEMMA VirtualType ==
    ASSUME WriterInv, NEW c \in 0 .. NumChunks
    PROVE  Virtual(c) \in Nat /\ Virtual(c) <= inserted /\ (c # None => c \in Chunks /\ Virtual(c) = count[c])
<1>1. inserted \in Nat
  BY DEF WriterInv, WriterTypes
<1>2. CASE c = None
  BY <1>1, <1>2 DEF Virtual, None
<1>3. CASE c # None
  <2>1. c \in Chunks
    BY <1>3, ReadersAssumption DEF Chunks, None
  <2> QED
    BY <1>3, <2>1 DEF Virtual, WriterInv, WriterTypes, CountsSound
<1> QED
  BY <1>2, <1>3

LEMMA TranslateStep ==
    ASSUME WriterInv, ReaderInv, Translate
    PROVE  ReaderInv'
<1>1. PICK at :
      /\ thread.at = "translate" /\ UNCHANGED <<shared, protocol, reads, inflights, tree, failed, cache, hint>>
      /\ req' = [req EXCEPT ![thread.q].virt = Virtual(req[thread.q].off)]
      /\ at = IF protocol = "async" /\ req[thread.q].root = Unwritten THEN "lookup" ELSE "valid"
      /\ Goto(at)
  BY DEF Translate, At, Q, AtRoot
<1>2. "translate" \in Handling /\ at \in Handling
  BY <1>1 DEF Handling
<1>3. IsHandling /\ HandledAt(req[thread.q], "translate", thread.read.data)
  BY <1>1, <1>2, HandledFacts
<1>4. /\ Live(req[thread.q].version) => req[thread.q].off = Target(req[thread.q])
      /\ protocol \in {"owning", "async"}
  BY <1>3 DEF HandledAt
<1>5. PICK virt : virt = Virtual(req[thread.q].off)
  OBVIOUS
<1>6. virt \in Nat /\ virt <= inserted
  BY <1>3, <1>5, HandlingFacts, VirtualType DEF ReqRec
<1>7. Live(req[thread.q].version) => virt = count[Target(req[thread.q])]
  BY <1>3, <1>4, <1>5, HandlingFacts, TargetFacts DEF Virtual
<1>8. PICK f : f = [req[thread.q] EXCEPT !.virt = virt]
  OBVIOUS
<1>9. req' = [req EXCEPT ![thread.q] = f]
  BY <1>1, <1>5, <1>8
<1>10. /\ f \in ReqRec /\ f.at = "busy" /\ f.version = req[thread.q].version /\ f.off = req[thread.q].off
       /\ f.root = req[thread.q].root /\ FindOk(f) /\ OwnOk(f) /\ f.virt = virt
       /\ Target(f) = Target(req[thread.q])
  BY <1>3, <1>6, <1>8, SetVirt
<1>11. HandledAt(f, at, thread.read.data)
  BY <1>1, <1>4, <1>7, <1>10 DEF HandledAt
<1>12. CacheStep
  BY <1>1, CacheUnchanged
<1> QED
  BY <1>1, <1>2, <1>3, <1>9, <1>10, <1>11, <1>12, GotoStep

LEMMA ValidateStep ==
    ASSUME WriterInv, ReaderInv, Validate
    PROVE  ReaderInv'
<1>1. /\ thread.at = "valid" /\ UNCHANGED <<shared, protocol, reads, inflights, tree, failed, cache, hint>>
      /\ IF IsValid(req[thread.q].version) /\ (protocol = "owning" => req[thread.q].virt # None)
         THEN Goto("lookup") /\ UNCHANGED req
         ELSE Finished(thread.q, "gone")
  BY DEF Validate, At, Q
<1>2. "valid" \in Handling /\ "lookup" \in Handling
  BY DEF Handling
<1>3. IsHandling /\ HandledAt(req[thread.q], "valid", thread.read.data)
  BY <1>1, <1>2, HandledFacts
<1>4. PICK f : f = req[thread.q]
  OBVIOUS
<1>5. /\ Live(f.version) => f.off = Target(f) /\ f.virt = count[Target(f)]
      /\ protocol \in {"owning", "async"}
  BY <1>3, <1>4 DEF HandledAt
<1>6. IsValid(f.version) <=> Live(f.version)
  BY <1>3, <1>4, HandlingFacts, ValidIsLive
<1>7. Live(f.version) => f.virt # None /\ IsOf(f.virt, f.off)
  BY <1>3, <1>4, <1>5, HandlingFacts, TargetFacts DEF None
<1>8. CASE IsValid(f.version) /\ (protocol = "owning" => f.virt # None)
  <2>1. req' = [req EXCEPT ![thread.q] = f] /\ Goto("lookup")
    BY <1>1, <1>3, <1>4, <1>8, SetNothing
  <2>2. HandledAt(f, "lookup", thread.read.data)
    BY <1>5, <1>6, <1>7, <1>8 DEF HandledAt
  <2>3. CacheStep
    BY <1>1, CacheUnchanged
  <2> QED
    BY <1>1, <1>2, <1>3, <1>4, <2>1, <2>2, <2>3, HandlingFacts, GotoStep
<1>9. CASE ~(IsValid(f.version) /\ (protocol = "owning" => f.virt # None))
  BY <1>1, <1>3, <1>4, <1>6, <1>7, <1>9, FinishStep
<1> QED
  BY <1>8, <1>9

\* A find gets the node it looked for.
LEMMA SetNode ==
    ASSUME WriterInv, ReaderInv, IsHandling, protocol # "rw", NEW node \in Nodes, NEW virt \in Nat,
           virt <= inserted, NEW g, g = req[thread.q], Live(g.version) => node = disk[Target(g)],
           NEW root, root = (IF g.root = Unwritten THEN node ELSE g.root),
           NEW leaf, leaf = (IF g.root = Unwritten THEN g.leaf ELSE node),
           NEW f \in ReqRec, f.at = g.at, f.version = g.version, f.virt = g.virt, f.result = g.result,
           f.root = root, f.leaf = leaf, f.rootVirt = virt
    PROVE  f.at = "busy" /\ FindOk(f) /\ OwnOk(f) /\ \A data : HandledAt(f, "enter", data)
<1>1. /\ g \in ReqRec /\ FindOk(g) /\ g.at = "busy" /\ g.version \in 1 .. newest
  BY HandlingFacts
<1>3. f.at = "busy"
  BY <1>1
<1>4. Live(g.version) => node = IF g.root = Unwritten THEN disk[RootOf(g.version)] ELSE disk[LeafOf(g.version)]
  BY DEF Target
<1>5. Live(g.version) => g.root \in {Unwritten, disk[RootOf(g.version)]}
                         /\ g.leaf \in {Unwritten, disk[LeafOf(g.version)]}
  BY <1>1 DEF FindOk
<1>6. FindOk(f)
  BY <1>1, <1>3, <1>4, <1>5 DEF FindOk
<1>7. OwnOk(f)
  BY DEF OwnOk
<1>8. \A data : HandledAt(f, "enter", data)
  BY <1>3, <1>4, <1>5 DEF HandledAt
<1> QED
  BY <1>3, <1>6, <1>7, <1>8

LEMMA GotStep ==
    ASSUME WriterInv, ReaderInv, UNCHANGED <<shared, protocol, reads, inflights, tree, failed>>,
           CacheStep, IsHandling, protocol # "rw", NEW node \in Nodes, NEW virt \in Nat, virt <= inserted,
           Live(req[thread.q].version) => node = disk[Target(req[thread.q])], Got(node, virt)
    PROVE  ReaderInv'
<1>1. PICK g, root, n, leaf :
         /\ g = req[thread.q]
         /\ root = IF g.root = Unwritten THEN node ELSE g.root
         /\ n = IF g.root = Unwritten THEN virt ELSE g.rootVirt
         /\ leaf = IF g.root = Unwritten THEN g.leaf ELSE node
  OBVIOUS
<1>2. n \in Nat /\ n <= inserted /\ g \in ReqRec /\ thread.q \in Finds
  BY <1>1, HandlingFacts DEF ReqRec, FindOk
<1>3. PICK f : f = [g EXCEPT !.root = root, !.rootVirt = n, !.leaf = leaf]
  OBVIOUS
<1>4. req \in [Finds -> ReqRec]
  BY DEF ReaderInv, ReaderTypes
<1>5. req' = [req EXCEPT ![thread.q].root = root, ![thread.q].rootVirt = n, ![thread.q].leaf = leaf]
      /\ Goto("enter")
  BY <1>1, <1>4 DEF Got, AtRoot, Q, ReqRec
<1>6. req' = [req EXCEPT ![thread.q] = f]
  BY <1>1, <1>2, <1>3, <1>4, <1>5 DEF ReqRec
<1>7. root \in Nodes /\ leaf \in Nodes
  BY <1>1, <1>2 DEF ReqRec
<1>8. /\ f \in ReqRec /\ f.at = g.at /\ f.version = g.version /\ f.virt = g.virt /\ f.result = g.result
      /\ f.root = root /\ f.leaf = leaf /\ f.rootVirt = n
  BY <1>2, <1>3, <1>7 DEF ReqRec
<1>9. f.at = "busy" /\ FindOk(f) /\ OwnOk(f) /\ \A data : HandledAt(f, "enter", data)
  BY <1>1, <1>2, <1>8, SetNode
<1>10. "enter" \in Handling
  BY DEF Handling
<1> QED
  BY <1>1, <1>5, <1>6, <1>8, <1>9, <1>10, GotoStep

LEMMA EnterStep ==
    ASSUME WriterInv, ReaderInv, Enter
    PROVE  ReaderInv'
<1>1. PICK r :
      /\ thread.at = "enter" /\ UNCHANGED <<shared, protocol, reads, inflights, tree, failed, cache, hint>>
      /\ r = req[thread.q]
      /\ IF protocol # "rw" /\ ~IsValid(r.version) THEN Finished(thread.q, "gone")
         ELSE IF r.leaf # Unwritten THEN Finished(thread.q, "success")
         ELSE /\ req' = [req EXCEPT ![thread.q].off = r.root.child]
              /\ Goto(IF protocol = "blocking" THEN "before" ELSE "translate")
  BY DEF Enter, At, Q
<1>2. "enter" \in Handling /\ "before" \in Handling /\ "translate" \in Handling
  BY DEF Handling
<1>3. IsHandling /\ HandledAt(req[thread.q], "enter", thread.read.data)
  BY <1>1, <1>2, HandledFacts
<1>4. IsValid(r.version) <=> Live(r.version)
  BY <1>1, <1>3, HandlingFacts, ValidIsLive
<1>5. protocol = "rw" => Live(r.version) /\ r.leaf # Unwritten
  BY <1>1, <1>3, HandlingFacts DEF OwnOk, HandledAt
<1>6. r.version \in Nat /\ FindOk(r) /\ r.at = "busy"
  BY <1>1, <1>3, HandlingFacts
<1>7. CASE protocol # "rw" /\ ~Live(r.version)
  BY <1>1, <1>3, <1>4, <1>7, FinishStep
<1>8. CASE Live(r.version) /\ r.leaf # Unwritten
  <2>1. r.leaf = disk[LeafOf(r.version)]
    BY <1>6, <1>8 DEF FindOk
  <2>2. PICK v \in oldest .. newest : v = r.version
    BY <1>6, <1>8 DEF Live, WriterInv, WriterTypes
  <2>3. r.leaf = Leaf(truth[r.version])
    BY <2>1, <2>2, VersionsOk
  <2> QED
    BY <1>1, <1>3, <1>4, <1>8, <2>3, FinishStep
<1>9. CASE protocol # "rw" /\ Live(r.version) /\ r.leaf = Unwritten
  <2>1. r.root = disk[RootOf(r.version)]
    BY <1>1, <1>3, <1>9 DEF HandledAt
  <2>2. PICK v \in oldest .. newest : v = r.version
    BY <1>6, <1>9 DEF Live, WriterInv, WriterTypes
  <2>3. r.root.child = LeafOf(v) /\ LeafOf(v) \in Chunks
    BY <2>1, <2>2, VersionsOk DEF LeafOf
  <2>4. r.root # Unwritten
    <3>1. disk[RootOf(v)] = Root(v, LeafOf(v))
      BY <2>2, VersionsOk
    <3>2. Root(v, LeafOf(v)).kind = "root" /\ Unwritten.kind = "none"
      BY DEF Root, Unwritten
    <3> QED
      BY <2>1, <2>2, <3>1, <3>2
  <2>5. PICK off \in 0 .. NumChunks : off = LeafOf(v) /\ off # None
    BY <2>3, ReadersAssumption DEF Chunks, None
  <2>6. PICK f, at : /\ f = [req[thread.q] EXCEPT !.off = off]
                     /\ at = IF protocol = "blocking" THEN "before" ELSE "translate"
    OBVIOUS
  <2>7. req' = [req EXCEPT ![thread.q] = f] /\ Goto(at) /\ at \in Handling
    BY <1>1, <1>2, <1>4, <1>9, <2>3, <2>5, <2>6
  <2>8. /\ f \in ReqRec /\ f.at = "busy" /\ f.version = req[thread.q].version /\ f.off = off
        /\ f.root = r.root /\ FindOk(f) /\ OwnOk(f)
    <3>1. IsHandling /\ f = [req[thread.q] EXCEPT !.off = off] /\ r = req[thread.q]
      BY <1>1, <1>3, <2>6
    <3>2. /\ f \in ReqRec /\ f.at = "busy" /\ f.version = req[thread.q].version /\ f.off = off
          /\ f.root = req[thread.q].root /\ FindOk(f) /\ OwnOk(f)
      BY <3>1, SetOff, Zenon
    <3> QED
      BY <3>1, <3>2, Zenon
  <2>9. protocol \in {"blocking", "owning", "async"}
    BY <1>9 DEF ReaderInv, ReaderTypes
  <2>10. Target(f) = off
    BY <1>1, <2>2, <2>4, <2>5, <2>8 DEF Target
  <2>11. HandledAt(f, at, thread.read.data)
    BY <2>5, <2>6, <2>8, <2>9, <2>10 DEF HandledAt
  <2>12. CacheStep
    BY <1>1, CacheUnchanged
  <2> QED
    BY <1>1, <1>3, <2>7, <2>8, <2>11, <2>12, GotoStep
<1> QED
  BY <1>5, <1>7, <1>8, <1>9

LEMMA BeforeStep ==
    ASSUME WriterInv, ReaderInv, BlockingBefore
    PROVE  ReaderInv'
<1>1. PICK f :
      /\ thread.at = "before" /\ UNCHANGED <<shared, protocol, reads, inflights, tree, failed, cache, hint>>
      /\ f = req[thread.q]
      /\ IF IsValid(f.version) THEN Goto("pread") /\ UNCHANGED req ELSE Finished(thread.q, "gone")
  BY DEF BlockingBefore, At, Q
<1>2. "before" \in Handling /\ "pread" \in Handling
  BY DEF Handling
<1>3. IsHandling /\ HandledAt(f, "before", thread.read.data)
  BY <1>1, <1>2, HandledFacts
<1>4. IsValid(f.version) <=> Live(f.version)
  BY <1>1, <1>3, HandlingFacts, ValidIsLive
<1>5. CASE Live(f.version)
  <2>1. req' = [req EXCEPT ![thread.q] = f] /\ Goto("pread")
    BY <1>1, <1>3, <1>4, <1>5, SetNothing
  <2>2. HandledAt(f, "pread", thread.read.data)
    BY <1>3 DEF HandledAt
  <2>3. CacheStep
    BY <1>1, CacheUnchanged
  <2> QED
    BY <1>1, <1>2, <1>3, <2>1, <2>2, <2>3, HandlingFacts, GotoStep
<1>6. CASE ~Live(f.version)
  BY <1>1, <1>3, <1>4, <1>6, FinishStep
<1> QED
  BY <1>5, <1>6

LEMMA BlockingAlone ==
    ASSUME ReaderInv, protocol = "blocking"
    PROVE  thread.todo = <<>>
<1>1. thread.todo \in Seq(Finds) /\ \A i \in DOMAIN thread.todo : FALSE
  BY DEF ReaderInv, ThreadSound, ReaderTypes, ThreadRec
<1>2. Len(thread.todo) \in Nat /\ DOMAIN thread.todo = 1 .. Len(thread.todo)
  BY <1>1, LenProperties
<1>3. Len(thread.todo) = 0
  <2>1. ASSUME Len(thread.todo) # 0 PROVE 1 \in DOMAIN thread.todo
    BY <1>2, <2>1
  <2> QED
    BY <1>1, <2>1
<1> QED
  BY <1>1, <1>3, EmptySeq

LEMMA PreadStep ==
    ASSUME WriterInv, ReaderInv, BlockingPread
    PROVE  ReaderInv'
<1>1. PICK f, data :
      /\ thread.at = "pread" /\ UNCHANGED <<shared, protocol, reads, inflights, tree, failed, cache, hint, req>>
      /\ f = req[thread.q] /\ data = disk[f.off]
      /\ thread' = [thread EXCEPT !.at = "after", !.read.data = data]
  BY DEF BlockingPread, At, Q
<1>2. "pread" \in Handling /\ "after" \in Handling
  BY DEF Handling
<1>3. IsHandling /\ HandledAt(f, "pread", thread.read.data)
  BY <1>1, <1>2, HandledFacts
<1>4. f.off # None /\ protocol = "blocking" /\ (Live(f.version) => f.off = Target(f))
  BY <1>3 DEF HandledAt
<1>5. data \in Nodes
  <2>1. f.off \in Chunks
    BY <1>1, <1>3, <1>4, HandlingFacts, ReadersAssumption DEF ReqRec, Chunks, None
  <2> QED
    BY <1>1, <2>1 DEF WriterInv, WriterTypes
<1>6. thread \in ThreadRec /\ thread.read \in ReadRec
  BY DEF ReaderInv, ReaderTypes, ThreadRec
<1>7. PICK r : r = [thread.read EXCEPT !.data = data]
  OBVIOUS
<1>8. r \in ReadRec /\ r.data = data
  BY <1>5, <1>6, <1>7 DEF ReadRec
<1>9. thread' = [thread EXCEPT !.at = "after", !.read = r]
  BY <1>1, <1>7
<1>10. /\ thread' \in ThreadRec /\ thread'.at = "after" /\ thread'.q = thread.q /\ thread'.todo = thread.todo
       /\ thread'.read = r /\ thread'.virt = thread.virt
  BY <1>2, <1>6, <1>8, <1>9 DEF ThreadRec
<1>11. IsHandling'
  BY <1>2, <1>10 DEF IsHandling
<1>12. HandledAt(f, "after", data)
  BY <1>1, <1>4 DEF HandledAt
<1>13. HandledAt(f, "after", data)'
  BY <1>1, <1>12, HandledSame
<1>14. HandledOk(f)'
  BY <1>8, <1>10, <1>13 DEF HandledOk
<1>15. thread'.virt <= inserted
  BY <1>10 DEF ReaderInv, ThreadSound
<1>16. thread.todo = <<>>
  BY <1>4, BlockingAlone
<1>17. req' = [req EXCEPT ![thread.q] = f]
  BY <1>1, <1>3, SetNothing
<1>18. CacheStep
  BY <1>1, CacheUnchanged
<1> QED
  BY <1>1, <1>3, <1>10, <1>11, <1>14, <1>15, <1>16, <1>17, <1>18, HandlingFacts, StayStep

LEMMA NoReadType == NoRead \in ReadRec
<1>1. <<"none", 0>> \in Keys
  BY DEF Keys, Tags
<1> QED
  BY <1>1, UnwrittenIsNode, ReadersAssumption DEF NoRead, ReadRec, None

LEMMA AfterStep ==
    ASSUME WriterInv, ReaderInv, BlockingAfter
    PROVE  ReaderInv'
<1>1. PICK g, node :
      /\ thread.at = "after" /\ UNCHANGED <<shared, protocol, reads, inflights, tree, failed, cache, hint>>
      /\ g = req[thread.q] /\ node = thread.read.data
      /\ IF ~IsValid(g.version) THEN Finished(thread.q, "gone")
         ELSE /\ req' = [req EXCEPT ![thread.q].root = IF g.root = Unwritten THEN node ELSE @,
                                    ![thread.q].leaf = IF g.root = Unwritten THEN @ ELSE node]
              /\ thread' = [thread EXCEPT !.at = "enter", !.read = NoRead]
  BY DEF BlockingAfter, At, Q, AtRoot
<1>2. "after" \in Handling /\ "enter" \in Handling
  BY DEF Handling
<1>3. IsHandling /\ HandledAt(g, "after", node)
  BY <1>1, <1>2, HandledFacts
<1>4. IsValid(g.version) <=> Live(g.version)
  BY <1>1, <1>3, HandlingFacts, ValidIsLive
<1>5. CASE ~Live(g.version)
  BY <1>1, <1>3, <1>4, <1>5, FinishStep
<1>6. CASE Live(g.version)
  <2>1. protocol = "blocking" /\ node = disk[Target(g)]
    BY <1>3, <1>6 DEF HandledAt
  <2>2. thread \in ThreadRec /\ thread.read \in ReadRec /\ node \in Nodes
    BY <1>1 DEF ReaderInv, ReaderTypes, ThreadRec, ReadRec
  <2>3. g \in ReqRec /\ g.rootVirt \in Nat /\ g.rootVirt <= inserted
    BY <1>1, <1>3, HandlingFacts DEF ReqRec, FindOk
  <2>4. PICK root, leaf, f :
         /\ root = IF g.root = Unwritten THEN node ELSE g.root
         /\ leaf = IF g.root = Unwritten THEN g.leaf ELSE node
         /\ f = [g EXCEPT !.root = root, !.leaf = leaf]
    OBVIOUS
  <2>5. req \in [Finds -> ReqRec] /\ thread.q \in Finds
    BY <1>3, HandlingFacts DEF ReaderInv, ReaderTypes
  <2>51. req' = [req EXCEPT ![thread.q].root = root, ![thread.q].leaf = leaf]
    BY <1>1, <1>4, <1>6, <2>4, <2>5 DEF ReqRec
  <2>6. req' = [req EXCEPT ![thread.q] = f]
    BY <1>1, <2>3, <2>4, <2>5, <2>51 DEF ReqRec
  <2>61. root \in Nodes /\ leaf \in Nodes
    BY <2>2, <2>3, <2>4 DEF ReqRec
  <2>62. /\ f \in ReqRec /\ f.at = g.at /\ f.version = g.version /\ f.virt = g.virt /\ f.result = g.result
        /\ f.root = root /\ f.leaf = leaf /\ f.rootVirt = g.rootVirt
    BY <2>3, <2>4, <2>61 DEF ReqRec
  <2>63. /\ g = req[thread.q] /\ protocol # "rw" /\ root = (IF g.root = Unwritten THEN node ELSE g.root)
         /\ leaf = (IF g.root = Unwritten THEN g.leaf ELSE node)
    BY <1>1, <2>1, <2>4
  <2>64. f.at = "busy" /\ FindOk(f) /\ OwnOk(f) /\ \A data : HandledAt(f, "enter", data)
    BY <1>3, <2>1, <2>2, <2>3, <2>62, <2>63, SetNode
  <2>7. /\ f \in ReqRec /\ f.at = "busy" /\ f.version = req[thread.q].version
        /\ FindOk(f) /\ OwnOk(f) /\ \A data : HandledAt(f, "enter", data)
    BY <2>62, <2>63, <2>64
  <2>8. thread' = [thread EXCEPT !.at = "enter", !.read = NoRead]
    BY <1>1, <1>4, <1>6
  <2>9. /\ thread' \in ThreadRec /\ thread'.at = "enter" /\ thread'.q = thread.q /\ thread'.todo = thread.todo
        /\ thread'.virt = thread.virt
    BY <1>2, <2>2, <2>8, NoReadType DEF ThreadRec
  <2>10. IsHandling'
    BY <1>2, <2>9 DEF IsHandling
  <2>11. PICK data : data = thread'.read.data
    OBVIOUS
  <2>12. HandledAt(f, "enter", data)'
    BY <1>1, <2>7, HandledSame
  <2>13. HandledOk(f)'
    BY <2>9, <2>11, <2>12 DEF HandledOk
  <2>14. thread'.virt <= inserted
    BY <2>9 DEF ReaderInv, ThreadSound
  <2>15. thread.todo = <<>>
    BY <2>1, BlockingAlone
  <2>16. CacheStep
    BY <1>1, CacheUnchanged
  <2> QED
    BY <1>1, <1>3, <2>6, <2>7, <2>9, <2>10, <2>13, <2>14, <2>15, <2>16, StayStep
<1> QED
  BY <1>5, <1>6

\* A find of the writer's own has the root, and looks for the leaf.
LEMMA OwnLeaf ==
    ASSUME WriterInv, protocol = "rw", NEW g, g.version \in Nat, OwnOk(g)
    PROVE  /\ Live(g.version) /\ g.root # Unwritten /\ g.root.child = LeafOf(g.version)
           /\ Target(g) = LeafOf(g.version) /\ LeafOf(g.version) \in Chunks
           /\ disk[LeafOf(g.version)] = Leaf(truth[g.version])
           /\ disk[LeafOf(g.version)] # Unwritten /\ disk[LeafOf(g.version)] \in Nodes
<1>1. Live(g.version) /\ g.root = disk[RootOf(g.version)]
  BY DEF OwnOk
<1>2. PICK v \in oldest .. newest : v = g.version
  BY <1>1 DEF Live, WriterInv, WriterTypes
<1>3. /\ disk[RootOf(v)] = Root(v, LeafOf(v)) /\ disk[LeafOf(v)] = Leaf(truth[v])
      /\ LeafOf(v) \in Chunks
  BY <1>2, VersionsOk
<1>4. /\ Root(v, LeafOf(v)).kind = "root" /\ Unwritten.kind = "none" /\ Leaf(truth[v]).kind = "leaf"
      /\ Root(v, LeafOf(v)).child = LeafOf(v)
  BY DEF Root, Unwritten, Leaf
<1>5. g.root # Unwritten /\ g.root.child = LeafOf(v)
  BY <1>1, <1>2, <1>3, <1>4
<1>6. disk[LeafOf(v)] # Unwritten
  BY <1>3, <1>4
<1>7. disk[LeafOf(v)] \in Nodes
  BY <1>3 DEF WriterInv, WriterTypes
<1> QED
  BY <1>1, <1>2, <1>3, <1>5, <1>6, <1>7 DEF Target

LEMMA OwnGotStep ==
    ASSUME WriterInv, ReaderInv, UNCHANGED <<shared, protocol, reads, inflights, tree, failed, cache, hint>>,
           IsHandling, protocol = "rw", NEW leaf, leaf = disk[LeafOf(req[thread.q].version)],
           req' = [req EXCEPT ![thread.q].leaf = leaf], Goto("enter")
    PROVE  ReaderInv'
<1>1. PICK g : g = req[thread.q]
  OBVIOUS
<1>2. /\ thread.q \in Finds /\ g \in ReqRec /\ g.at = "busy" /\ g.version \in Nat /\ FindOk(g) /\ OwnOk(g)
  BY <1>1, HandlingFacts
<1>3. /\ Live(g.version) /\ leaf = disk[LeafOf(g.version)] /\ leaf # Unwritten /\ leaf \in Nodes
  BY <1>1, <1>2, OwnLeaf
<1>4. PICK f : f = [g EXCEPT !.leaf = leaf]
  OBVIOUS
<1>5. /\ f \in ReqRec /\ f.at = g.at /\ f.version = g.version /\ f.virt = g.virt /\ f.result = g.result
      /\ f.root = g.root /\ f.leaf = leaf /\ f.rootVirt = g.rootVirt
  BY <1>2, <1>3, <1>4 DEF ReqRec
<1>6. req \in [Finds -> ReqRec]
  BY DEF ReaderInv, ReaderTypes
<1>7. req' = [req EXCEPT ![thread.q] = f]
  BY <1>1, <1>4, <1>6
<1>8. FindOk(f) /\ OwnOk(f)
  BY <1>2, <1>3, <1>5 DEF FindOk, OwnOk
<1>9. HandledAt(f, "enter", thread.read.data)
  BY <1>3, <1>5 DEF HandledAt
<1>10. "enter" \in Handling
  BY DEF Handling
<1>11. CacheStep
  BY CacheUnchanged
<1> QED
  BY <1>1, <1>2, <1>5, <1>7, <1>8, <1>9, <1>10, <1>11, GotoStep

LEMMA ResumeStep ==
    ASSUME WriterInv, ReaderInv, Resume
    PROVE  ReaderInv'
<1>1. PICK g, node :
      /\ thread.at = "resume" /\ UNCHANGED <<shared, protocol, reads, inflights, tree, failed, cache, hint>>
      /\ g = req[thread.q] /\ node = thread.read.data
      /\ IF node = Unwritten THEN Finished(thread.q, "gone")
         ELSE IF protocol = "rw" THEN req' = [req EXCEPT ![thread.q].leaf = node] /\ Goto("enter")
         ELSE Got(node, thread.virt)
  BY DEF Resume, At, Q
<1>2. "resume" \in Handling
  BY DEF Handling
<1>3. IsHandling /\ HandledAt(g, "resume", node)
  BY <1>1, <1>2, HandledFacts
<1>4. protocol # "blocking" /\ (Live(g.version) => node = disk[Target(g)])
  BY <1>3 DEF HandledAt
<1>5. g.version \in Nat /\ OwnOk(g)
  BY <1>1, <1>3, HandlingFacts
<1>6. node \in Nodes /\ thread.virt \in Nat /\ thread.virt <= inserted
  BY <1>1 DEF ReaderInv, ReaderTypes, ThreadRec, ReadRec, ThreadSound
<1>7. CASE node = Unwritten
  <2>1. ~Live(g.version)
    BY <1>4, <1>5, <1>7, TargetFacts
  <2> QED
    BY <1>1, <1>3, <1>7, <2>1, FinishStep
<1>8. CASE node # Unwritten /\ protocol = "rw"
  <2>1. Live(g.version) /\ Target(g) = LeafOf(g.version)
    BY <1>5, <1>8, OwnLeaf
  <2>2. node = disk[LeafOf(g.version)]
    BY <1>4, <2>1
  <2>3. req' = [req EXCEPT ![thread.q].leaf = node] /\ Goto("enter")
    BY <1>1, <1>8
  <2> QED
    BY <1>1, <1>3, <1>8, <2>2, <2>3, OwnGotStep
<1>9. CASE node # Unwritten /\ protocol # "rw"
  <2>1. Got(node, thread.virt)
    BY <1>1, <1>9
  <2>2. CacheStep
    BY <1>1, CacheUnchanged
  <2> QED
    BY <1>1, <1>3, <1>4, <1>6, <1>9, <2>1, <2>2, GotStep
<1> QED
  BY <1>7, <1>8, <1>9

-----------------------------------------------------------------------------
(* The cache. *)

\* What RemoveAt leaves
LEMMA RemovedAt ==
    ASSUME NEW S, NEW s \in Seq(S), NEW k \in 1 .. Len(s)
    PROVE  /\ RemoveAt(s, k) \in Seq(S) /\ Len(RemoveAt(s, k)) = Len(s) - 1
           /\ DOMAIN RemoveAt(s, k) = 1 .. Len(s) - 1
           /\ \A i \in 1 .. Len(s) - 1 : (i < k => RemoveAt(s, k)[i] = s[i])
                                        /\ (i >= k => RemoveAt(s, k)[i] = s[i + 1])
<1>0. Len(s) \in Nat /\ k \in Nat /\ 1 <= k /\ k <= Len(s)
  BY LenProperties
<1>1. PICK n \in Nat : n = Len(s)
  BY <1>0
<1>2. PICK a, b : a = SubSeq(s, 1, k - 1) /\ b = SubSeq(s, k + 1, Len(s))
  OBVIOUS
<1>3. a \in Seq(S) /\ Len(a) = k - 1 /\ \A i \in 1 .. k - 1 : a[i] = s[i]
  <2>1. 1 \in 1 .. Len(s) + 1 /\ k - 1 \in 0 .. Len(s)
    BY <1>0
  <2>2. CASE k = 1
    BY <1>0, <1>2, <2>1, <2>2
  <2>3. CASE k > 1
    BY <1>0, <1>2, <2>1, <2>3, SubSeqProperties
  <2> QED
    BY <1>0, <2>2, <2>3
<1>4. b \in Seq(S) /\ Len(b) = n - k /\ \A i \in 1 .. n - k : b[i] = s[k + i]
  <2>1. k + 1 \in Int /\ n \in Int /\ \A i \in k + 1 .. n : s[i] \in S
    BY <1>0, <1>1, ElementOfSeq
  <2>2. /\ b \in Seq(S) /\ Len(b) = IF k + 1 <= n THEN n - (k + 1) + 1 ELSE 0
        /\ \A i \in 1 .. n - (k + 1) + 1 : b[i] = s[(k + 1) + i - 1]
    BY <1>1, <1>2, <2>1, SubSeqProperties
  <2>3. n - (k + 1) + 1 = n - k /\ Len(b) = n - k
    BY <1>0, <1>1, <2>2
  <2>4. ASSUME NEW i \in 1 .. n - k PROVE b[i] = s[k + i]
    <3>1. i \in 1 .. n - (k + 1) + 1 /\ (k + 1) + i - 1 = k + i
      BY <1>0, <2>3
    <3> QED
      BY <2>2, <3>1
  <2> QED
    BY <2>2, <2>3, <2>4
<1>5. RemoveAt(s, k) = a \o b
  BY <1>2 DEF RemoveAt
<1>6. a \o b \in Seq(S) /\ Len(a \o b) = n - 1
      /\ \A i \in 1 .. n - 1 : (a \o b)[i] = IF i <= k - 1 THEN a[i] ELSE b[i - (k - 1)]
  <2>1. /\ a \o b \in Seq(S) /\ Len(a \o b) = Len(a) + Len(b)
        /\ \A i \in 1 .. Len(a) + Len(b) : (a \o b)[i] = IF i <= Len(a) THEN a[i] ELSE b[i - Len(a)]
    BY <1>3, <1>4, ConcatProperties
  <2>2. Len(a) + Len(b) = n - 1 /\ Len(a) = k - 1
    BY <1>0, <1>3, <1>4
  <2> QED
    BY <2>1, <2>2
<1>7. ASSUME NEW i \in 1 .. n - 1
      PROVE  /\ i < k => (a \o b)[i] = s[i]
             /\ i >= k => (a \o b)[i] = s[i + 1]
  <2>1. CASE i < k
    BY <1>0, <1>3, <1>6, <2>1
  <2>2. CASE i >= k
    <3>1. i - (k - 1) \in 1 .. n - k /\ k + (i - (k - 1)) = i + 1
      BY <1>0, <1>1, <2>2
    <3>2. (a \o b)[i] = b[i - (k - 1)]
      BY <1>0, <1>6, <2>2
    <3> QED
      BY <1>0, <1>4, <2>2, <3>1, <3>2
  <2> QED
    BY <1>0, <2>1, <2>2
<1> QED
  BY <1>0, <1>1, <1>5, <1>6, <1>7, LenProperties

\* RemoveFirst keeps a part of the sequence.
LEMMA RemovedKeeps ==
    ASSUME NEW S, NEW s \in Seq(S), NEW e
    PROVE  RemoveFirst(s, e) \in Seq(S) /\ \A i \in DOMAIN RemoveFirst(s, e) :
                \E j \in DOMAIN s : RemoveFirst(s, e)[i] = s[j]
<1> DEFINE I == {i \in 1 .. Len(s) : s[i] = e}
<1>0. Len(s) \in Nat /\ DOMAIN s = 1 .. Len(s) /\ I \in SUBSET Nat
  BY LenProperties
<1>1. CASE I = {}
  <2>1. RemoveFirst(s, e) = s
    BY <1>1 DEF RemoveFirst
  <2> QED
    BY <2>1
<1>2. CASE I # {}
  <2>1. Min(I) \in I /\ SelectInSeq(s, LAMBDA v : v = e) = Min(I)
    BY <1>0, <1>2, MinIsLeast DEF SelectInSeq
  <2>2. RemoveFirst(s, e) = RemoveAt(s, Min(I))
    BY <2>1 DEF RemoveFirst
  <2>3. PICK k \in 1 .. Len(s) : k = Min(I)
    BY <2>1
  <2>4. PICK t : t = RemoveAt(s, k)
    OBVIOUS
  <2>5. /\ t \in Seq(S) /\ DOMAIN t = 1 .. Len(s) - 1
        /\ \A i \in 1 .. Len(s) - 1 : (i < k => t[i] = s[i]) /\ (i >= k => t[i] = s[i + 1])
    BY <2>4, RemovedAt
  <2>6. ASSUME NEW i \in DOMAIN t PROVE \E j \in DOMAIN s : t[i] = s[j]
    <3>1. /\ i \in 1 .. Len(s) - 1 /\ i \in DOMAIN s /\ i + 1 \in DOMAIN s
          /\ (i < k \/ i >= k)
      BY <1>0, <2>5
    <3>2. (i < k => t[i] = s[i]) /\ (i >= k => t[i] = s[i + 1])
      BY <2>5, <3>1
    <3> QED
      BY <3>1, <3>2
  <2> QED
    BY <2>2, <2>3, <2>4, <2>5, <2>6
<1> QED
  BY <1>1, <1>2

Slots == 1 .. CacheSlots

\* map_.find returns a list node in use with the key, or none.
LEMMA MappedIs ==
    ASSUME NEW c, CacheOk(c), NEW key
    PROVE  /\ Mapped(c, key) \in 0 .. CacheSlots
           /\ Mapped(c, key) # None => /\ Mapped(c, key) \in Slots /\ Mapped(c, key) \in ToSet(c.active)
                                       /\ c.slot[Mapped(c, key)].key = key
           /\ Mapped(c, key) = None => \A s \in ToSet(c.active) : c.slot[s].key # key
<1>1. c.active \in Seq(Slots)
  BY DEF CacheOk, Slots
<1>2. \A s \in ToSet(c.active) : s \in Slots
  BY <1>1, ElementOfSeq, LenProperties DEF ToSet
<1>3. CacheSlots \in Nat \ {0}
  BY ReadersAssumption
<1>4. PICK at : at = {s \in ToSet(c.active) : c.slot[s].key = key}
  OBVIOUS
<1>5. Mapped(c, key) = IF at = {} THEN None ELSE CHOOSE s \in at : TRUE
  BY <1>4 DEF Mapped
<1>6. CASE at = {}
  BY <1>3, <1>4, <1>5, <1>6 DEF None
<1>7. CASE at # {}
  <2>1. Mapped(c, key) \in at
    BY <1>5, <1>7
  <2>2. Mapped(c, key) \in Slots /\ Mapped(c, key) \in ToSet(c.active) /\ c.slot[Mapped(c, key)].key = key
    BY <1>2, <1>4, <2>1
  <2> QED
    BY <1>3, <2>2 DEF Slots, None
<1> QED
  BY <1>6, <1>7

LEMMA PushedFront ==
    ASSUME NEW S, NEW t \in Seq(S), NEW s \in S
    PROVE  /\ <<s>> \o RemoveFirst(t, s) \in Seq(S) /\ <<s>> \o RemoveFirst(t, s) # <<>>
           /\ \A x \in ToSet(<<s>> \o RemoveFirst(t, s)) : x = s \/ x \in ToSet(t)
<1>1. PICK u : u = RemoveFirst(t, s)
  OBVIOUS
<1>2. u \in Seq(S) /\ \A i \in DOMAIN u : \E j \in DOMAIN t : u[i] = t[j]
  BY <1>1, RemovedKeeps
<1>3. PICK w : w = <<s>> \o u
  OBVIOUS
<1>4. <<s>> \in Seq(S) /\ Len(<<s>>) = 1 /\ <<s>>[1] = s
  OBVIOUS
<1>5. Len(u) \in Nat /\ DOMAIN u = 1 .. Len(u)
  BY <1>2, LenProperties
<1>6. /\ w \in Seq(S) /\ Len(w) = 1 + Len(u)
      /\ \A i \in 1 .. 1 + Len(u) : w[i] = IF i <= 1 THEN <<s>>[i] ELSE u[i - 1]
  BY <1>2, <1>3, <1>4, ConcatProperties
<1>7. w # <<>> /\ DOMAIN w = 1 .. 1 + Len(u)
  BY <1>5, <1>6, LenProperties, EmptySeq
<1>8. ASSUME NEW i \in DOMAIN w PROVE w[i] = s \/ w[i] \in ToSet(t)
  <2>1. CASE i = 1
    BY <1>4, <1>5, <1>6, <1>7, <2>1
  <2>2. CASE i # 1
    <3>1. i - 1 \in DOMAIN u /\ w[i] = u[i - 1]
      BY <1>5, <1>6, <1>7, <2>2
    <3>2. PICK k \in DOMAIN u : k = i - 1
      BY <3>1
    <3>3. PICK j \in DOMAIN t : u[k] = t[j]
      BY <1>2
    <3>4. w[i] = t[j]
      BY <3>1, <3>2, <3>3
    <3> QED
      BY <3>4 DEF ToSet
  <2> QED
    BY <2>1, <2>2
<1> QED
  BY <1>1, <1>3, <1>6, <1>7, <1>8 DEF ToSet

\* An entry that is used moves, and stays what it is.
LEMMA LruKeeps ==
    ASSUME NEW c, CacheOk(c), NEW s \in ToSet(c.active)
    PROVE  /\ CacheOk(update_lru(c, s)) /\ update_lru(c, s).slot = c.slot
           /\ \A t \in ToSet(update_lru(c, s).active) : t \in ToSet(c.active)
<1>1. c.active \in Seq(Slots)
  BY DEF CacheOk, Slots
<1>2. s \in Slots
  BY <1>1, ElementOfSeq, LenProperties DEF ToSet
<1>3. PICK w : w = <<s>> \o RemoveFirst(c.active, s)
  OBVIOUS
<1>4. w \in Seq(Slots) /\ w # <<>> /\ \A x \in ToSet(w) : x = s \/ x \in ToSet(c.active)
  BY <1>1, <1>2, <1>3, PushedFront
<1>5. PICK d : d = [c EXCEPT !.active = w]
  OBVIOUS
<1>6. d = update_lru(c, s)
  BY <1>3, <1>5 DEF update_lru
<1>7. DOMAIN d = DOMAIN c /\ d.active = w /\ d.slot = c.slot /\ d.free = c.free
  BY <1>5 DEF CacheOk
<1>8. CacheOk(d)
  BY <1>4, <1>7 DEF CacheOk, Slots
<1> QED
  BY <1>4, <1>6, <1>7, <1>8

\* What d may hold that comes from c
CacheFrom(c, d) ==
    /\ CacheOk(d)
    /\ \A s \in Slots : d.slot[s] = c.slot[s] \/ d.slot[s] = EmptySlot
    /\ \A s \in ToSet(d.active) : s \in ToSet(c.active)

LEMMA EvictKeeps ==
    ASSUME NEW c, CacheOk(c)
    PROVE  CacheFrom(c, evict_until_under_limit(c))
<1>1. c.active \in Seq(Slots) /\ c.free \in Seq(Slots) /\ c.slot \in [Slots -> SlotRec]
  BY DEF CacheOk, Slots
<1>2. PICK n \in Nat : n = Len(c.active)
  BY <1>1, LenProperties
<1>3. PICK J : J = {j \in 0 .. n : j = n \/ c.used - SizeOf(c, LastUsed(c, j)) <= MaxBytes}
  OBVIOUS
<1>4. J \in SUBSET Nat /\ n \in J
  BY <1>3
<1>5. PICK k \in 0 .. n : k = Min(J)
  BY <1>3, <1>4, MinIsLeast
<1>6. PICK out : out = LastUsed(c, k)
  OBVIOUS
<1>7. out = SubSeq(c.active, n - k + 1, n)
  BY <1>2, <1>6 DEF LastUsed
<1>8. \A i \in 1 .. n : c.active[i] \in Slots
  BY <1>1, <1>2, ElementOfSeq
<1>9. out \in Seq(Slots) /\ Len(out) = k
  <2>1. \A i \in n - k + 1 .. n : c.active[i] \in Slots
    BY <1>8
  <2>2. out \in Seq(Slots) /\ Len(out) = IF n - k + 1 <= n THEN n - (n - k + 1) + 1 ELSE 0
    BY <1>7, <2>1, SubSeqProperties
  <2> QED
    BY <2>2
<1>10. PICK w : w = SubSeq(c.active, 1, n - k)
  OBVIOUS
<1>11. w \in Seq(Slots) /\ Len(w) = n - k /\ \A i \in 1 .. n - k : w[i] = c.active[i]
  <2>1. \A i \in 1 .. n - k : c.active[i] \in Slots
    BY <1>8
  <2>2. /\ w \in Seq(Slots) /\ Len(w) = IF 1 <= n - k THEN (n - k) - 1 + 1 ELSE 0
        /\ \A i \in 1 .. (n - k) - 1 + 1 : w[i] = c.active[1 + i - 1]
    BY <1>10, <2>1, SubSeqProperties
  <2> QED
    BY <2>2
<1>12. PICK free : free = out \o c.free
  OBVIOUS
<1>13. free \in Seq(Slots) /\ Len(free) = k + Len(c.free)
  BY <1>1, <1>9, <1>12, ConcatProperties
<1>14. PICK slot : slot = [s \in Slots |-> IF s \in ToSet(out) THEN EmptySlot ELSE c.slot[s]]
  OBVIOUS
<1>15. EmptySlot \in SlotRec
  BY UnwrittenIsNode DEF EmptySlot, SlotRec, None
<1>16. slot \in [Slots -> SlotRec]
  BY <1>1, <1>14, <1>15
<1>17. PICK d : d = evict_until_under_limit(c)
  OBVIOUS
<1>18. /\ DOMAIN d = {"slot", "active", "free", "used"}
       /\ d.slot = slot /\ d.active = w /\ d.free = free
  BY <1>2, <1>3, <1>5, <1>6, <1>10, <1>12, <1>14, <1>17 DEF evict_until_under_limit, Slots
<1>19. w # <<>> \/ free # <<>>
  <2>1. CASE n = 0
    <3>1. c.active = <<>>
      BY <1>1, <1>2, <2>1, EmptySeq
    <3>2. Len(c.free) # 0 /\ Len(c.free) \in Nat
      BY <1>1, <3>1, EmptySeq, LenProperties DEF CacheOk
    <3> QED
      BY <1>13, <3>2, EmptySeq
  <2>2. CASE n # 0
    <3>1. Len(c.free) \in Nat
      BY <1>1, LenProperties
    <3>2. Len(w) # 0 \/ Len(free) # 0
      BY <1>11, <1>13, <2>2, <3>1
    <3> QED
      BY <1>11, <1>13, <3>2, EmptySeq
  <2> QED
    BY <2>1, <2>2
<1>20. CacheOk(d)
  BY <1>11, <1>13, <1>16, <1>18, <1>19 DEF CacheOk, Slots
<1>21. \A s \in Slots : d.slot[s] = c.slot[s] \/ d.slot[s] = EmptySlot
  BY <1>14, <1>18
<1>22. \A i \in DOMAIN w : i \in DOMAIN c.active /\ w[i] = c.active[i]
  BY <1>1, <1>2, <1>11, LenProperties
<1>23. \A s \in ToSet(d.active) : s \in ToSet(c.active)
  BY <1>18, <1>22 DEF ToSet
<1> QED
  BY <1>17, <1>20, <1>21, <1>23 DEF CacheFrom

\* What d may hold after a node was inserted into c
InsertedInto(c, key, node, d) ==
    /\ CacheOk(d)
    /\ \A s \in Slots : \/ d.slot[s] = c.slot[s] \/ d.slot[s] = EmptySlot
                        \/ d.slot[s].key = key /\ d.slot[s].val = node
    /\ \A s \in ToSet(d.active) : \/ d.slot[s].key \in {None, key}
                                  \/ s \in ToSet(c.active) /\ d.slot[s].key = c.slot[s].key

\* What d holds after a node was put into a list node of c
PutInto(c, key, node, d) ==
    /\ CacheOk(d)
    /\ \E t \in Slots : /\ \A s \in Slots \ {t} : d.slot[s] = c.slot[s]
                        /\ d.slot[t].key = key /\ d.slot[t].val = node
                        /\ \A s \in ToSet(d.active) : s = t \/ s \in ToSet(c.active)

LEMMA LruInserts ==
    ASSUME NEW c, CacheOk(c), NEW key \in Nat, NEW node \in Nodes
    PROVE  PutInto(c, key, node, LruInsert(c, key, node))
<1>1. c.active \in Seq(Slots) /\ c.free \in Seq(Slots) /\ c.slot \in [Slots -> SlotRec]
  BY DEF CacheOk, Slots
<1>2. PICK at : at = Mapped(c, key)
  OBVIOUS
<1>3. at # None => at \in Slots
  BY <1>2, MappedIs
<1>4. PICK t : t = IF at # None THEN at ELSE IF c.free # <<>> THEN Head(c.free) ELSE Last(c.active)
  OBVIOUS
<1>5. t \in Slots
  <2>1. c.free # <<>> => Head(c.free) \in Slots
    BY <1>1, HeadTailProperties
  <2>2. c.free = <<>> => Last(c.active) \in Slots
    <3>1. ASSUME c.free = <<>> PROVE c.active[Len(c.active)] \in Slots
      <4>1. c.active # <<>>
        BY <3>1 DEF CacheOk
      <4>2. Len(c.active) \in 1 .. Len(c.active)
        BY <1>1, <4>1, EmptySeq, LenProperties
      <4> QED
        BY <1>1, <4>2, ElementOfSeq
    <3> QED
      BY <3>1 DEF Last
  <2> QED
    BY <1>3, <1>4, <2>1, <2>2
<1>6. PICK x : x = [key |-> key, val |-> node, size |-> MemSize(node)]
  OBVIOUS
<1>7. x \in SlotRec /\ x.key = key /\ x.val = node
  BY <1>6 DEF SlotRec, MemSize
<1>8. PICK w : w = <<t>> \o RemoveFirst(c.active, t)
  OBVIOUS
<1>9. w \in Seq(Slots) /\ w # <<>> /\ \A s \in ToSet(w) : s = t \/ s \in ToSet(c.active)
  BY <1>1, <1>5, <1>8, PushedFront
<1>10. PICK free : free = IF at = None /\ c.free # <<>> THEN Tail(c.free) ELSE c.free
  OBVIOUS
<1>11. free \in Seq(Slots)
  BY <1>1, <1>10, HeadTailProperties
<1>12. PICK used : used = c.used - (IF at = None /\ c.free # <<>> THEN 0 ELSE c.slot[t].size)
  OBVIOUS
<1>13. PICK slot : slot = [c.slot EXCEPT ![t] = x]
  OBVIOUS
<1>14. slot \in [Slots -> SlotRec] /\ slot[t] = x /\ \A s \in Slots \ {t} : slot[s] = c.slot[s]
  BY <1>1, <1>5, <1>7, <1>13
<1>15. PICK d : d = LruInsert(c, key, node)
  OBVIOUS
<1>16. d = [c EXCEPT !.slot[t] = x, !.active = w, !.free = free, !.used = used]
  BY <1>2, <1>4, <1>6, <1>8, <1>10, <1>12, <1>15 DEF LruInsert, CacheOk
<1>17. DOMAIN d = DOMAIN c /\ d.slot = slot /\ d.active = w /\ d.free = free
  BY <1>13, <1>16 DEF CacheOk
<1>18. CacheOk(d)
  BY <1>9, <1>11, <1>14, <1>17 DEF CacheOk, Slots
<1>19. /\ \A s \in Slots \ {t} : d.slot[s] = c.slot[s]
       /\ d.slot[t].key = key /\ d.slot[t].val = node
       /\ \A s \in ToSet(d.active) : s = t \/ s \in ToSet(c.active)
  BY <1>7, <1>9, <1>14, <1>17
<1> QED
  BY <1>5, <1>15, <1>18, <1>19 DEF PutInto

LEMMA InsertKeeps ==
    ASSUME NEW c, CacheOk(c), NEW key \in Nat, NEW node \in Nodes
    PROVE  InsertedInto(c, key, node, CacheInsert(c, key, node))
<1>1. PICK b : b = [c EXCEPT !.used = @ + MemSize(node)]
  OBVIOUS
<1>2. DOMAIN b = DOMAIN c /\ b.slot = c.slot /\ b.active = c.active /\ b.free = c.free
  BY <1>1 DEF CacheOk
<1>3. CacheOk(b)
  BY <1>2 DEF CacheOk
<1>4. PICK e : e = evict_until_under_limit(b)
  OBVIOUS
<1>5. CacheFrom(b, e)
  BY <1>3, <1>4, EvictKeeps
<1>6. /\ CacheOk(e) /\ \A s \in Slots : e.slot[s] = c.slot[s] \/ e.slot[s] = EmptySlot
      /\ \A s \in ToSet(e.active) : s \in ToSet(c.active)
  BY <1>2, <1>5 DEF CacheFrom
<1>7. PICK d : d = LruInsert(e, key, node)
  OBVIOUS
<1>8. d = CacheInsert(c, key, node)
  BY <1>1, <1>4, <1>7 DEF CacheInsert
<1>9. CacheOk(d) /\ \E t \in Slots :
         /\ \A s \in Slots \ {t} : d.slot[s] = e.slot[s]
         /\ d.slot[t].key = key /\ d.slot[t].val = node
         /\ \A s \in ToSet(d.active) : s = t \/ s \in ToSet(e.active)
  <2>1. PutInto(e, key, node, LruInsert(e, key, node))
    BY <1>6, LruInserts
  <2>2. PutInto(e, key, node, d)
    BY <1>7, <2>1
  <2> QED
    BY <2>2 DEF PutInto
<1>10. PICK t \in Slots :
         /\ \A s \in Slots \ {t} : d.slot[s] = e.slot[s]
         /\ d.slot[t].key = key /\ d.slot[t].val = node
         /\ \A s \in ToSet(d.active) : s = t \/ s \in ToSet(e.active)
  BY <1>9
<1>11. ASSUME NEW s \in Slots
       PROVE  \/ d.slot[s] = c.slot[s] \/ d.slot[s] = EmptySlot
              \/ d.slot[s].key = key /\ d.slot[s].val = node
  BY <1>6, <1>10
<1>12. ASSUME NEW s \in ToSet(d.active)
       PROVE  \/ d.slot[s].key \in {None, key}
              \/ s \in ToSet(c.active) /\ d.slot[s].key = c.slot[s].key
  <2>1. CASE s = t
    BY <1>10, <2>1
  <2>2. CASE s # t
    <3>1. d.active \in Seq(Slots)
      BY <1>9 DEF CacheOk, Slots
    <3>2. s \in Slots
      BY <3>1, ElementOfSeq, LenProperties DEF ToSet
    <3>3. d.slot[s] = e.slot[s] /\ s \in ToSet(c.active)
      BY <1>6, <1>10, <2>2, <3>2
    <3>4. EmptySlot.key = None
      BY DEF EmptySlot
    <3>5. e.slot[s] = c.slot[s] \/ e.slot[s] = EmptySlot
      BY <1>6, <3>2
    <3> QED
      BY <3>3, <3>4, <3>5
  <2> QED
    BY <2>1, <2>2
<1> QED
  BY <1>8, <1>9, <1>11, <1>12 DEF InsertedInto

LEMMA InsertedBound ==
    ASSUME WriterInv
    PROVE  inserted \in Nat /\ MaxVersion \in Nat /\ inserted <= 2 * MaxVersion
<1>1. inserted \in Nat /\ newest \in Nat /\ newest <= MaxVersion /\ MaxVersion \in Nat
  BY ReadersAssumption DEF WriterInv, WriterTypes
<1>2. NoPlan \/ \E n \in Nat : Bounded(n)
  <2>1. 0 \in Nat /\ \A n \in 1 .. 2 : n \in Nat
    OBVIOUS
  <2>2. ErasePlan \/ FreePlan \/ DestroyPlan \/ AppendPlan => \E n \in Nat : Bounded(n)
    BY <2>1, Zenon DEF ErasePlan, FreePlan, DestroyPlan, AppendPlan
  <2>3. LeafPlan => Bounded(1)
    BY DEF LeafPlan
  <2>4. RootPlan => Bounded(0)
    BY DEF RootPlan
  <2>5. PushPlan => Bounded(0)
    BY DEF PushPlan
  <2>6. 1 \in Nat
    OBVIOUS
  <2> QED
    BY <2>1, <2>2, <2>3, <2>4, <2>5, <2>6 DEF WriterInv, PlanSound
<1>3. CASE NoPlan
  BY <1>1, <1>3 DEF NoPlan
<1>4. ASSUME NEW n \in Nat, Bounded(n) PROVE inserted <= 2 * MaxVersion
  <2>1. newest + 1 <= MaxVersion /\ inserted + n <= 2 * (newest + 1)
    BY <1>4 DEF Bounded
  <2> QED
    BY <1>1, <2>1
<1> QED
  BY <1>1, <1>2, <1>3, <1>4

\* An entry with the virtual offset a find looks up is the node it looks for.
LEMMA EntryFacts ==
    ASSUME WriterInv, ReaderInv, IsHandling, HandledAt(req[thread.q], "lookup", thread.read.data),
           NEW s \in Slots, cache.slot[s].key = req[thread.q].virt
    PROVE  /\ cache.slot[s].val \in Nodes
           /\ Live(req[thread.q].version) => cache.slot[s].val = disk[Target(req[thread.q])]
<1>1. PICK g, x : g = req[thread.q] /\ x = cache.slot[s]
  OBVIOUS
<1>2. cache.slot \in [Slots -> SlotRec]
  BY DEF ReaderInv, ReaderTypes, CacheOk, Slots
<1>3. x \in SlotRec
  BY <1>1, <1>2
<1>4. x.val \in Nodes /\ x.key = g.virt
  BY <1>1, <1>3 DEF SlotRec
<1>5. x.key # None => HoldsAt(x.key, x.val)
  BY <1>1 DEF ReaderInv, CacheHolds, Slots
<1>6. g.version \in Nat
  BY <1>1, HandlingFacts
<1>7. ASSUME Live(g.version) PROVE x.val = disk[Target(g)]
  <2>1. Target(g) \in Chunks /\ count[Target(g)] # 0
    BY <1>6, <1>7, TargetFacts
  <2>2. g.virt = count[Target(g)]
    BY <1>1, <1>7 DEF HandledAt
  <2>3. HoldsAt(x.key, x.val)
    BY <1>4, <1>5, <2>1, <2>2 DEF None
  <2>4. PICK c \in Chunks : c = Target(g)
    BY <2>1
  <2>5. count[c] = x.key
    BY <1>4, <2>2, <2>4
  <2> QED
    BY <2>3, <2>4, <2>5 DEF HoldsAt
<1> QED
  BY <1>1, <1>4, <1>7

\* The find gets the node from an entry.
LEMMA EntryStep ==
    ASSUME WriterInv, ReaderInv, UNCHANGED <<shared, protocol, reads, inflights, tree, failed>>,
           CacheStep, IsHandling, HandledAt(req[thread.q], "lookup", thread.read.data),
           NEW s \in Slots, cache.slot[s].key = req[thread.q].virt,
           Got(cache.slot[s].val, req[thread.q].virt)
    PROVE  ReaderInv'
<1>1. protocol # "rw"
  BY DEF HandledAt
<1>2. PICK node, n : node = cache.slot[s].val /\ n = req[thread.q].virt
  OBVIOUS
<1>3. n \in Nat /\ n <= inserted
  BY <1>2, HandlingFacts DEF ReqRec, FindOk
<1>4. node \in Nodes /\ (Live(req[thread.q].version) => node = disk[Target(req[thread.q])])
  BY <1>2, EntryFacts
<1>5. Got(node, n)
  BY <1>2
<1> QED
  BY <1>1, <1>3, <1>4, <1>5, GotStep

LEMMA HintedIs ==
    ASSUME WriterInv, ReaderInv, IsHandling
    PROVE  /\ req[thread.q].rootVirt \in 0 .. 2 * MaxVersion
           /\ hint[req[thread.q].rootVirt] \in 0 .. CacheSlots
<1>1. req[thread.q].rootVirt \in Nat /\ req[thread.q].rootVirt <= inserted
  BY HandlingFacts DEF ReqRec, FindOk
<1>2. req[thread.q].rootVirt \in 0 .. 2 * MaxVersion
  BY <1>1, InsertedBound
<1>3. hint \in [0 .. 2 * MaxVersion -> 0 .. CacheSlots]
  BY DEF ReaderInv, ReaderTypes
<1> QED
  BY <1>2, <1>3

LEMMA LruStep ==
    ASSUME WriterInv, ReaderInv, UNCHANGED shared, NEW s \in ToSet(cache.active),
           cache' = update_lru(cache, s), hint' \in [0 .. 2 * MaxVersion -> 0 .. CacheSlots]
    PROVE  CacheStep
<1>1. CacheOk(cache)
  BY DEF ReaderInv, ReaderTypes
<1>2. PICK d : d = update_lru(cache, s)
  OBVIOUS
<1>3. CacheOk(d) /\ d.slot = cache.slot /\ \A t \in ToSet(d.active) : t \in ToSet(cache.active)
  BY <1>1, <1>2, LruKeeps
<1>4. cache' = d
  BY <1>2
<1>5. CacheOk(cache)'
  BY <1>3, <1>4 DEF CacheOk
<1>6. ASSUME NEW t \in 1 .. CacheSlots, cache'.slot[t].key # None
      PROVE  HoldsAt(cache.slot[t].key, cache.slot[t].val)'
  <2>1. PICK n, x : n = cache.slot[t].key /\ x = cache.slot[t].val
    OBVIOUS
  <2>2. HoldsAt(n, x)
    BY <1>3, <1>4, <1>6, <2>1 DEF ReaderInv, CacheHolds
  <2>3. HoldsAt(n, x)'
    BY <2>2, SharedSame
  <2>4. cache'.slot[t].key = n /\ cache'.slot[t].val = x
    BY <1>3, <1>4, <2>1
  <2> QED
    BY <2>3, <2>4
<1>7. CacheHolds'
  BY <1>6 DEF CacheHolds
<1>8. \A t \in ToSet(cache'.active) : \E u \in ToSet(cache.active) : cache'.slot[t].key = cache.slot[u].key
  BY <1>3, <1>4
<1> QED
  BY <1>5, <1>7, <1>8 DEF CacheStep

LEMMA LookupHitStep ==
    ASSUME WriterInv, ReaderInv, UNCHANGED <<shared, protocol, reads, inflights, tree, failed>>,
           IsHandling, HandledAt(req[thread.q], "lookup", thread.read.data),
           NEW s, s = Mapped(cache, req[thread.q].virt), s # None,
           Got(cache.slot[s].val, req[thread.q].virt), cache' = update_lru(cache, s),
           hint' = IF protocol = "async" /\ ~AtRoot THEN [hint EXCEPT ![req[thread.q].rootVirt] = s] ELSE hint
    PROVE  ReaderInv'
<1>1. CacheOk(cache) /\ hint \in [0 .. 2 * MaxVersion -> 0 .. CacheSlots]
  BY DEF ReaderInv, ReaderTypes
<1>2. s \in Slots /\ s \in ToSet(cache.active) /\ cache.slot[s].key = req[thread.q].virt /\ s \in 0 .. CacheSlots
  BY <1>1, MappedIs
<1>3. hint' \in [0 .. 2 * MaxVersion -> 0 .. CacheSlots]
  BY <1>1, <1>2
<1>4. CacheStep
  BY <1>2, <1>3, LruStep
<1> QED
  BY <1>2, <1>4, EntryStep

LEMMA LookupGoneStep ==
    ASSUME WriterInv, ReaderInv, UNCHANGED <<shared, protocol, reads, inflights, tree, failed, cache, hint>>,
           IsHandling, HandledAt(req[thread.q], "lookup", thread.read.data),
           req[thread.q].off = None, Finished(thread.q, "gone")
    PROVE  ReaderInv'
<1>1. req[thread.q].version \in Nat
  BY HandlingFacts
<1>2. Live(req[thread.q].version) => req[thread.q].off = Target(req[thread.q])
  BY DEF HandledAt
<1>3. ~Live(req[thread.q].version)
  BY <1>1, <1>2, TargetFacts
<1> QED
  BY <1>3, FinishStep

LEMMA OwnTreeStep ==
    ASSUME WriterInv, ReaderInv, UNCHANGED <<shared, protocol, reads, inflights, tree, failed, cache, hint>>,
           thread.at = "own", NEW v, v = req[thread.q].version, tree[v] # Unwritten,
           req' = [req EXCEPT ![thread.q].leaf = tree[v]], Goto("enter")
    PROVE  ReaderInv'
<1>1. "own" \in Handling
  BY DEF Handling
<1>2. IsHandling /\ HandledAt(req[thread.q], "own", thread.read.data)
  BY <1>1, HandledFacts
<1>3. protocol = "rw"
  BY <1>2 DEF HandledAt
<1>4. v \in 1 .. newest /\ v \in Nat /\ OwnOk(req[thread.q])
  BY <1>2, HandlingFacts
<1>5. v \in 1 .. MaxVersion
  <2>1. newest \in Nat /\ newest <= MaxVersion /\ MaxVersion \in Nat
    BY ReadersAssumption DEF WriterInv, WriterTypes
  <2> QED
    BY <1>4, <2>1
<1>6. tree[v] = Leaf(truth[v])
  BY <1>5 DEF ReaderInv, TreeRight
<1>7. disk[LeafOf(v)] = Leaf(truth[v])
  BY <1>3, <1>4, OwnLeaf
<1>8. PICK leaf : leaf = tree[v]
  OBVIOUS
<1>9. leaf = disk[LeafOf(req[thread.q].version)] /\ req' = [req EXCEPT ![thread.q].leaf = leaf]
  BY <1>6, <1>7, <1>8
<1> QED
  BY <1>2, <1>3, <1>9, OwnGotStep

-----------------------------------------------------------------------------
(* A find joins a read in flight, or begins one. *)

\* The find waits at a0 of entry i0; the others wait as before.
JoinedAt(key, i0, a0) ==
    /\ inflights' \in Seq(InflightRec)
    /\ i0 \in DOMAIN inflights' /\ a0 \in DOMAIN inflights'[i0].waiting
    /\ inflights'[i0].waiting[a0] = thread.q /\ inflights'[i0].key = key
    /\ \A i \in DOMAIN inflights : i \in DOMAIN inflights' /\ inflights'[i].key = inflights[i].key
    /\ \A i \in DOMAIN inflights' : \A a \in DOMAIN inflights'[i].waiting :
          \/ i = i0 /\ a = a0
          \/ /\ i \in DOMAIN inflights /\ a \in DOMAIN inflights[i].waiting
             /\ inflights'[i].waiting[a] = inflights[i].waiting[a] /\ inflights'[i].key = inflights[i].key
    /\ \A i \in DOMAIN inflights' : inflights'[i].waiting # <<>>

LEMMA JoinOld ==
    ASSUME ReaderInv, IsHandling, NEW m \in DOMAIN inflights, NEW key, inflights[m].key = key,
           inflights' = [inflights EXCEPT ![m].waiting = Append(@, thread.q)]
    PROVE  \E i0, a0 : JoinedAt(key, i0, a0)
<1>1. inflights \in Seq(InflightRec) /\ thread.q \in Finds
  BY HandlingFacts DEF ReaderInv, ReaderTypes
<1>2. inflights[m] \in InflightRec /\ inflights[m].waiting \in Seq(Finds)
  BY InflightType
<1>3. PICK w, u : w = inflights[m].waiting /\ u = Append(w, thread.q)
  OBVIOUS
<1>4. /\ u \in Seq(Finds) /\ Len(u) = Len(w) + 1 /\ u[Len(w) + 1] = thread.q
      /\ \A a \in 1 .. Len(w) : u[a] = w[a]
  BY <1>1, <1>2, <1>3, AppendProperties
<1>5. /\ Len(w) \in Nat /\ DOMAIN w = 1 .. Len(w) /\ DOMAIN u = 1 .. Len(w) + 1 /\ u # <<>>
  BY <1>2, <1>3, <1>4, LenProperties, EmptySeq
<1>6. PICK x : x = [inflights[m] EXCEPT !.waiting = u]
  OBVIOUS
<1>7. x \in InflightRec /\ x.key = key /\ x.waiting = u
  BY <1>2, <1>4, <1>6 DEF InflightRec
<1>8. inflights' = [inflights EXCEPT ![m] = x]
  <2>1. inflights' = [inflights EXCEPT ![m] = [inflights[m] EXCEPT !.waiting = Append(inflights[m].waiting, thread.q)]]
    OBVIOUS
  <2> QED
    BY <1>3, <1>6, <2>1
<1>9. /\ inflights' \in Seq(InflightRec) /\ DOMAIN inflights' = DOMAIN inflights
      /\ inflights'[m] = x /\ \A i \in DOMAIN inflights : i # m => inflights'[i] = inflights[i]
  <2>1. DOMAIN inflights = 1 .. Len(inflights) /\ Len(inflights) \in Nat
    BY <1>1, LenProperties
  <2>2. inflights \in [1 .. Len(inflights) -> InflightRec]
    BY <1>1
  <2>3. /\ inflights' \in [1 .. Len(inflights) -> InflightRec] /\ inflights'[m] = x
        /\ \A i \in 1 .. Len(inflights) : i # m => inflights'[i] = inflights[i]
    BY <1>7, <1>8, <2>1, <2>2
  <2>4. inflights' \in Seq(InflightRec) /\ DOMAIN inflights' = 1 .. Len(inflights)
    <3>1. PICK n \in Nat : n = Len(inflights)
      BY <2>1
    <3>2. inflights' \in [1 .. n -> InflightRec]
      BY <2>3, <3>1
    <3>3. inflights' \in UNION {[1 .. k -> InflightRec] : k \in Nat}
      BY <3>2, Zenon
    <3>4. Seq(InflightRec) = UNION {[1 .. k -> InflightRec] : k \in Nat}
      BY SeqDef, Zenon
    <3>5. DOMAIN inflights' = 1 .. n
      BY <3>2
    <3> QED
      BY <3>1, <3>3, <3>4, <3>5, Zenon
  <2> QED
    BY <2>1, <2>3, <2>4
<1>10. \A i \in DOMAIN inflights : inflights'[i].key = inflights[i].key
  BY <1>7, <1>9
<1>11. \A i \in DOMAIN inflights : inflights'[i].waiting # <<>>
  BY <1>5, <1>7, <1>9 DEF ReaderInv, WaitingSound
<1>12. ASSUME NEW i \in DOMAIN inflights, NEW a \in DOMAIN inflights'[i].waiting
       PROVE  \/ i = m /\ a = Len(w) + 1
              \/ /\ i \in DOMAIN inflights /\ a \in DOMAIN inflights[i].waiting
                 /\ inflights'[i].waiting[a] = inflights[i].waiting[a] /\ inflights'[i].key = inflights[i].key
  <2>1. CASE i # m
    BY <1>9, <2>1
  <2>2. CASE i = m
    <3>1. a \in 1 .. Len(w) + 1
      BY <1>5, <1>7, <1>9, <2>2
    <3>2. CASE a = Len(w) + 1
      BY <2>2, <3>2
    <3>3. CASE a # Len(w) + 1
      <4>1. a \in 1 .. Len(w)
        BY <1>5, <3>1, <3>3
      <4>2. a \in DOMAIN w /\ u[a] = w[a]
        BY <1>4, <1>5, <4>1
      <4> QED
        BY <1>3, <1>7, <1>9, <1>10, <2>2, <4>2
    <3> QED
      BY <3>2, <3>3
  <2> QED
    BY <2>1, <2>2
<1>13. /\ Len(w) + 1 \in DOMAIN inflights'[m].waiting /\ inflights'[m].waiting[Len(w) + 1] = thread.q
       /\ inflights'[m].key = key
  <2>1. inflights'[m].waiting = u /\ inflights'[m].key = key
    BY <1>7, <1>9
  <2>2. Len(w) + 1 \in DOMAIN u
    BY <1>5
  <2> QED
    BY <1>4, <2>1, <2>2
<1>14. PICK a0 : a0 = Len(w) + 1
  OBVIOUS
<1>15. \A i \in DOMAIN inflights' : \A a \in DOMAIN inflights'[i].waiting :
          \/ i = m /\ a = a0
          \/ /\ i \in DOMAIN inflights /\ a \in DOMAIN inflights[i].waiting
             /\ inflights'[i].waiting[a] = inflights[i].waiting[a] /\ inflights'[i].key = inflights[i].key
  BY <1>9, <1>12, <1>14
<1>16. /\ a0 \in DOMAIN inflights'[m].waiting /\ inflights'[m].waiting[a0] = thread.q
       /\ inflights'[m].key = key /\ m \in DOMAIN inflights'
  BY <1>9, <1>13, <1>14
<1>17. /\ \A i \in DOMAIN inflights : i \in DOMAIN inflights' /\ inflights'[i].key = inflights[i].key
       /\ \A i \in DOMAIN inflights' : inflights'[i].waiting # <<>>
       /\ inflights' \in Seq(InflightRec)
  BY <1>9, <1>10, <1>11
<1>18. JoinedAt(key, m, a0)
  BY <1>15, <1>16, <1>17 DEF JoinedAt
<1> QED
  BY <1>18

LEMMA JoinNew ==
    ASSUME ReaderInv, IsHandling, NEW key \in Keys,
           inflights' = Append(inflights, [key |-> key, waiting |-> <<thread.q>>])
    PROVE  \E i0, a0 : JoinedAt(key, i0, a0)
<1>1. inflights \in Seq(InflightRec) /\ thread.q \in Finds
  BY HandlingFacts DEF ReaderInv, ReaderTypes
<1>2. PICK u : u = <<thread.q>>
  OBVIOUS
<1>3. u \in Seq(Finds) /\ Len(u) = 1 /\ u[1] = thread.q /\ DOMAIN u = {1} /\ u # <<>>
  BY <1>1, <1>2
<1>4. PICK x : x = [key |-> key, waiting |-> u]
  OBVIOUS
<1>5. x \in InflightRec /\ x.key = key /\ x.waiting = u
  BY <1>3, <1>4 DEF InflightRec
<1>6. PICK n \in Nat : n = Len(inflights) /\ DOMAIN inflights = 1 .. n
  BY <1>1, LenProperties
<1>7. /\ inflights' \in Seq(InflightRec) /\ Len(inflights') = n + 1 /\ inflights'[n + 1] = x
      /\ \A i \in 1 .. n : inflights'[i] = inflights[i]
  BY <1>1, <1>2, <1>4, <1>5, <1>6, AppendProperties
<1>8. DOMAIN inflights' = 1 .. n + 1
  BY <1>7, LenProperties
<1>9. \A i \in DOMAIN inflights : i \in DOMAIN inflights' /\ inflights'[i] = inflights[i]
  BY <1>6, <1>7, <1>8
<1>10. \A i \in DOMAIN inflights' : i \in DOMAIN inflights \/ i = n + 1
  BY <1>6, <1>8
<1>11. PICK i0 : i0 = n + 1
  OBVIOUS
<1>12. i0 \in DOMAIN inflights' /\ inflights'[i0] = x
  BY <1>7, <1>8, <1>11
<1>13. \A i \in DOMAIN inflights : inflights[i].waiting # <<>>
  BY DEF ReaderInv, WaitingSound
<1>14. \A i \in DOMAIN inflights' : inflights'[i].waiting # <<>>
  BY <1>3, <1>5, <1>9, <1>10, <1>11, <1>12, <1>13
<1>15. ASSUME NEW i \in DOMAIN inflights', NEW a \in DOMAIN inflights'[i].waiting
       PROVE  \/ i = i0 /\ a = 1
              \/ /\ i \in DOMAIN inflights /\ a \in DOMAIN inflights[i].waiting
                 /\ inflights'[i].waiting[a] = inflights[i].waiting[a] /\ inflights'[i].key = inflights[i].key
  <2>1. CASE i = i0
    <3>1. a \in {1}
      BY <1>3, <1>5, <1>12, <2>1
    <3> QED
      BY <2>1, <3>1
  <2>2. CASE i \in DOMAIN inflights
    BY <1>9, <2>2
  <2> QED
    BY <1>10, <1>11, <2>1, <2>2
<1>16. JoinedAt(key, i0, 1)
  <2>1. 1 \in DOMAIN inflights'[i0].waiting /\ inflights'[i0].waiting[1] = thread.q /\ inflights'[i0].key = key
    BY <1>3, <1>5, <1>12
  <2> QED
    BY <1>7, <1>9, <1>12, <1>14, <1>15, <2>1 DEF JoinedAt
<1> QED
  BY <1>16

LEMMA JoinWaiting ==
    ASSUME ReaderInv, IsHandling, UNCHANGED shared, protocol' = protocol, req' = req, NEW key, NEW i0, NEW a0,
           JoinedAt(key, i0, a0), WaitsOk(req[thread.q], key)
    PROVE  WaitingSound'
<1> SUFFICES ASSUME NEW i \in DOMAIN inflights', NEW j \in DOMAIN inflights'[i].waiting
             PROVE  /\ req'[inflights'[i].waiting[j]].at = "busy"
                    /\ OwnOk(req[inflights[i].waiting[j]])'
                    /\ WaitsOk(req[inflights[i].waiting[j]], inflights[i].key)'
  BY DEF WaitingSound, JoinedAt
<1>1. PICK f, k : f = req[inflights'[i].waiting[j]] /\ k = inflights'[i].key
  OBVIOUS
<1>2. f.at = "busy" /\ OwnOk(f) /\ WaitsOk(f, k)
  <2>1. CASE i = i0 /\ j = a0
    BY <1>1, <2>1, HandlingFacts DEF JoinedAt
  <2>2. CASE /\ i \in DOMAIN inflights /\ j \in DOMAIN inflights[i].waiting
             /\ inflights'[i].waiting[j] = inflights[i].waiting[j] /\ inflights'[i].key = inflights[i].key
    BY <1>1, <2>2 DEF ReaderInv, WaitingSound
  <2> QED
    BY <2>1, <2>2 DEF JoinedAt
<1>3. OwnOk(f)' /\ WaitsOk(f, k)'
  BY <1>2, OwnSame, WaitsSame
<1> QED
  BY <1>1, <1>2, <1>3

LEMMA JoinPlace ==
    ASSUME ReaderInv, IsHandling, NEW key, NEW i0, NEW a0, JoinedAt(key, i0, a0),
           IsHandling' => 1 \in DOMAIN thread.todo /\ thread'.q = thread.todo[1],
           \A i \in DOMAIN thread'.todo : i \in Nat /\ i >= 1 /\ i + 1 \in DOMAIN thread.todo
                                          /\ thread'.todo[i] = thread.todo[i + 1]
    PROVE  OnePlace'
<1>1. \A i \in DOMAIN inflights : \A a \in DOMAIN inflights[i].waiting :
          /\ \A k \in DOMAIN thread.todo : inflights[i].waiting[a] # thread.todo[k]
          /\ \A j \in DOMAIN inflights : \A b \in DOMAIN inflights[j].waiting :
                inflights[i].waiting[a] = inflights[j].waiting[b] => i = j /\ a = b
  BY DEF ReaderInv, OnePlace
<1>2. \A k, m \in DOMAIN thread.todo : thread.todo[k] = thread.todo[m] => k = m
  BY DEF ReaderInv, OnePlace
<1>3. ASSUME NEW k \in DOMAIN thread'.todo
      PROVE  /\ IsHandling' => thread'.todo[k] # thread'.q
             /\ \A m \in DOMAIN thread'.todo : thread'.todo[k] = thread'.todo[m] => k = m
  <2>1. IsHandling' => thread'.todo[k] # thread'.q
    <3>1. k + 1 # 1
      OBVIOUS
    <3> QED
      BY <1>2, <3>1
  <2>2. ASSUME NEW m \in DOMAIN thread'.todo, thread'.todo[k] = thread'.todo[m] PROVE k = m
    <3>1. k + 1 = m + 1
      BY <1>2, <2>2
    <3> QED
      BY <3>1
  <2> QED
    BY <2>1, <2>2
<1>4. /\ \A i \in DOMAIN inflights : \A j \in DOMAIN inflights[i].waiting : inflights[i].waiting[j] # thread.q
      /\ \A i \in DOMAIN thread.todo : thread.todo[i] # thread.q
  BY HandlingFacts
<1>5. ASSUME NEW i \in DOMAIN inflights', NEW a \in DOMAIN inflights'[i].waiting, NEW k \in DOMAIN thread.todo
      PROVE  inflights'[i].waiting[a] # thread.todo[k]
  BY <1>1, <1>4, <1>5 DEF JoinedAt
<1>6. ASSUME NEW i \in DOMAIN inflights', NEW a \in DOMAIN inflights'[i].waiting,
             NEW j \in DOMAIN inflights', NEW b \in DOMAIN inflights'[j].waiting,
             inflights'[i].waiting[a] = inflights'[j].waiting[b]
      PROVE  i = j /\ a = b
  BY <1>1, <1>4, <1>6 DEF JoinedAt
<1>7. ASSUME NEW i \in DOMAIN inflights', NEW a \in DOMAIN inflights'[i].waiting
      PROVE  /\ IsHandling' => inflights'[i].waiting[a] # thread'.q
             /\ \A k \in DOMAIN thread'.todo : inflights'[i].waiting[a] # thread'.todo[k]
  BY <1>5
<1> QED
  BY <1>3, <1>6, <1>7 DEF OnePlace

LEMMA JoinReads ==
    ASSUME ReaderInv, UNCHANGED shared, protocol' = protocol, req' = req, cache' = cache,
           ~IsCompleting, ~IsCompleting', NEW key, NEW i0, NEW a0, JoinedAt(key, i0, a0),
           NEW r, ReadOk(r), r.key = key,
           protocol = "owning" => /\ key = <<"virt", r.virt>>
                                  /\ \A s \in ToSet(cache.active) : cache.slot[s].key # r.virt,
           \/ reads' = reads
           \/ reads' = reads \cup {r} /\ \A i \in DOMAIN inflights : inflights[i].key # key
    PROVE  ReadsSound'
<1>1. ReqKept
  BY DEF ReqKept
<1>2. \A x \in reads' : ReadOk(x)'
  BY <1>1, ReadOkKept DEF ReaderInv, ReadsSound
<1>3. \A x \in reads : InFlight(x)
  BY DEF InFlight
<1>4. \A x \in reads : /\ \E i \in DOMAIN inflights : inflights[i].key = x.key
                       /\ protocol = "owning" => x.key = <<"virt", x.virt>>
                       /\ protocol = "owning" => \A s \in ToSet(cache.active) : cache.slot[s].key # x.virt
  BY <1>3 DEF ReaderInv, ReadsSound
<1>5. \A x \in reads : \E i \in DOMAIN inflights' : inflights'[i].key = x.key
  BY <1>4 DEF JoinedAt
<1>6. \E i \in DOMAIN inflights' : inflights'[i].key = r.key
  BY DEF JoinedAt
<1>7. \A x : InFlight(x)' => x \in reads'
  BY DEF InFlight
<1>8. \A x \in reads' \cup {thread'.read} : InFlight(x)' =>
          /\ \E i \in DOMAIN inflights' : inflights'[i].key = x.key
          /\ protocol' = "owning" => x.key = <<"virt", x.virt>>
          /\ protocol' = "owning" => \A s \in ToSet(cache'.active) : cache'.slot[s].key # x.virt
  <2> SUFFICES ASSUME NEW x \in reads'
               PROVE  /\ \E i \in DOMAIN inflights' : inflights'[i].key = x.key
                      /\ protocol' = "owning" => x.key = <<"virt", x.virt>>
                      /\ protocol' = "owning" => \A s \in ToSet(cache'.active) : cache'.slot[s].key # x.virt
    BY <1>7
  <2>1. CASE x \in reads
    BY <1>4, <1>5, <2>1
  <2>2. CASE x = r
    BY <1>6, <2>2
  <2> QED
    BY <2>1, <2>2
<1>9. \A r1, r2 \in reads' : r1.key = r2.key => r1 = r2
  <2>1. \A r1, r2 \in reads : r1.key = r2.key => r1 = r2
    BY DEF ReaderInv, ReadsSound
  <2>2. CASE reads' = reads
    BY <2>1, <2>2
  <2>3. CASE reads' = reads \cup {r} /\ \A i \in DOMAIN inflights : inflights[i].key # key
    <3>1. \A x \in reads : x.key # r.key
      BY <1>4, <2>3
    <3> QED
      BY <2>1, <2>3, <3>1
  <2> QED
    BY <2>2, <2>3
<1> QED
  BY <1>2, <1>8, <1>9 DEF ReadsSound

LEMMA JoinStep ==
    ASSUME WriterInv, ReaderInv, UNCHANGED <<shared, protocol, req, tree, failed, cache, hint>>,
           IsHandling, NEW key \in Keys, key = InflightKey, NEW off \in Chunks, JoinOrRead(off),
           WaitsOk(req[thread.q], key),
           NEW r, r = [key |-> key, off |-> off, virt |-> req[thread.q].virt, q |-> thread.q,
                       data |-> Unwritten, landed |-> FALSE],
           ReadOk(r),
           protocol = "owning" => /\ key = <<"virt", r.virt>>
                                  /\ \A s \in ToSet(cache.active) : cache.slot[s].key # r.virt
    PROVE  ReaderInv'
<1>1. /\ protocol' = protocol /\ req' = req /\ tree' = tree
      /\ failed' = failed /\ UNCHANGED shared /\ cache' = cache /\ hint' = hint
  OBVIOUS
<1>2. PICK joined : joined = {i \in DOMAIN inflights : inflights[i].key = key}
  OBVIOUS
<1>3. /\ inflights' = IF joined # {}
                      THEN [inflights EXCEPT ![Min(joined)].waiting = Append(@, thread.q)]
                      ELSE Append(inflights, [key |-> key, waiting |-> <<thread.q>>])
      /\ reads' = IF joined # {} THEN reads ELSE reads \cup {r}
      /\ Waits
  BY <1>2 DEF JoinOrRead, Q
<1>4. \E i0, a0 : JoinedAt(key, i0, a0)
  <2>1. CASE joined # {}
    <3>1. inflights \in Seq(InflightRec)
      BY DEF ReaderInv, ReaderTypes
    <3>2. joined \in SUBSET Nat
      BY <1>2, <3>1, LenProperties
    <3>3. PICK m \in joined : m = Min(joined)
      BY <2>1, <3>2, MinIsLeast
    <3>4. m \in DOMAIN inflights /\ inflights[m].key = key
      BY <1>2
    <3>5. inflights' = [inflights EXCEPT ![m].waiting = Append(@, thread.q)]
      BY <1>3, <2>1, <3>3
    <3> QED
      BY <3>4, <3>5, JoinOld
  <2>2. CASE joined = {}
    BY <1>3, <2>2, JoinNew
  <2> QED
    BY <2>1, <2>2
<1>5. PICK i0, a0 : JoinedAt(key, i0, a0)
  BY <1>4
<1>6. \/ reads' = reads
      \/ reads' = reads \cup {r} /\ \A i \in DOMAIN inflights : inflights[i].key # key
  BY <1>2, <1>3
<1>7. /\ thread' \in ThreadRec /\ ThreadSound' /\ ~IsCompleting'
      /\ IsHandling' => 1 \in DOMAIN thread.todo /\ thread'.q = thread.todo[1]
      /\ \A i \in DOMAIN thread'.todo : i \in Nat /\ i >= 1 /\ i + 1 \in DOMAIN thread.todo
                                        /\ thread'.todo[i] = thread.todo[i + 1]
  BY <1>1, <1>3, NextThread
<1>8. OnePlace'
  BY <1>5, <1>7, JoinPlace
<1>9. WaitingSound'
  BY <1>1, <1>5, JoinWaiting
<1>10. ReadsSound'
  <2>1. r.key = key
    OBVIOUS
  <2> QED
    BY <1>1, <1>5, <1>6, <1>7, <2>1, HandlingFacts, JoinReads
<1>11. r \in ReadRec
  <2>1. thread.q \in Finds /\ req[thread.q].virt \in Nat
    BY HandlingFacts DEF ReqRec
  <2>2. off \in 0 .. NumChunks
    BY ReadersAssumption DEF Chunks
  <2> QED
    BY <2>1, <2>2, UnwrittenIsNode DEF ReadRec
<1>12. reads' \subseteq ReadRec /\ inflights' \in Seq(InflightRec)
  BY <1>5, <1>6, <1>11 DEF ReaderInv, ReaderTypes, JoinedAt
<1>13. ReaderTypes'
  BY <1>1, <1>7, <1>12 DEF ReaderInv, ReaderTypes, CacheOk
<1>14. FindsSound'
  BY <1>1, SharedSame DEF ReaderInv, FindsSound
<1>15. CacheStep
  BY <1>1, CacheUnchanged
<1>16. TreeRight' /\ failed' = {} /\ CacheHolds'
  BY <1>1, <1>15, TreeKept DEF ReaderInv, CacheStep
<1> QED
  BY <1>7, <1>8, <1>9, <1>10, <1>13, <1>14, <1>16 DEF ReaderInv

\* What a find that looks a node up waits for, and the read it would begin
LEMMA LookupKey ==
    ASSUME WriterInv, ReaderInv, IsHandling, HandledAt(req[thread.q], "lookup", thread.read.data),
           NEW f, f = req[thread.q], f.off # None, NEW key, key = InflightKey,
           NEW r, r.key = key, r.off = f.off, r.virt = f.virt, r.q = thread.q, r.landed = FALSE
    PROVE  /\ key \in Keys /\ f.off \in Chunks /\ WaitsOk(f, key) /\ ReadOk(r)
           /\ protocol = "owning" => key = <<"virt", r.virt>>
<1>1. /\ thread.q \in Finds /\ f \in ReqRec /\ f.at = "busy" /\ FindOk(f) /\ req[thread.q].at # "idle"
      /\ f.version \in Nat
  BY HandlingFacts
<1>2. f.off \in Chunks /\ f.virt \in Nat /\ f.rootVirt \in Nat /\ f.virt <= inserted
  BY <1>1, ReadersAssumption DEF ReqRec, Chunks, None, FindOk
<1>3. /\ Live(f.version) => f.off = Target(f) /\ f.virt = count[Target(f)]
      /\ protocol \in {"owning", "async"}
      /\ (protocol = "async" /\ f.root = Unwritten) \/ IsOf(f.virt, f.off)
  BY DEF HandledAt
<1>4. "virt" \in Tags /\ "version" \in Tags
  BY DEF Tags
<1>5. CASE protocol = "owning"
  <2>1. key = <<"virt", f.virt>>
    BY <1>5 DEF InflightKey, Q
  <2>2. key \in Keys /\ key[1] = "virt" /\ key[2] = f.virt
    BY <1>2, <1>4, <2>1 DEF Keys
  <2>3. WaitsOk(f, key)
    BY <1>3, <2>2 DEF WaitsOk
  <2>4. IsOf(f.virt, f.off)
    BY <1>3, <1>5
  <2>5. ReadOk(r)
    BY <1>1, <1>2, <1>5, <2>2, <2>4 DEF ReadOk
  <2> QED
    BY <1>2, <2>1, <2>2, <2>3, <2>5
<1>6. CASE protocol = "async" /\ f.root = Unwritten
  <2>1. key = <<"version", f.version>>
    BY <1>6 DEF InflightKey, AtRoot, Q
  <2>2. key \in Keys /\ key[1] = "version" /\ key[2] = f.version
    BY <1>1, <1>4, <2>1 DEF Keys
  <2>3. WaitsOk(f, key)
    BY <1>6, <2>2 DEF WaitsOk
  <2>4. Live(f.version) => f.off = RootOf(f.version) /\ f.virt = count[RootOf(f.version)]
    BY <1>3, <1>6 DEF Target
  <2>5. ReadOk(r)
    BY <1>1, <1>2, <1>6, <2>2, <2>4 DEF ReadOk
  <2> QED
    BY <1>2, <1>6, <2>2, <2>3, <2>5
<1>7. CASE protocol = "async" /\ f.root # Unwritten
  <2>1. key = <<"virt", f.virt, f.rootVirt>>
    BY <1>7 DEF InflightKey, AtRoot, Q
  <2>2. key \in Keys /\ key[1] = "virt" /\ key[2] = f.virt
    BY <1>2, <1>4, <2>1 DEF Keys
  <2>3. WaitsOk(f, key)
    BY <1>3, <2>2 DEF WaitsOk
  <2>4. IsOf(f.virt, f.off)
    BY <1>3, <1>7
  <2>5. ReadOk(r)
    BY <1>1, <1>2, <1>7, <2>2, <2>4 DEF ReadOk
  <2> QED
    BY <1>2, <1>7, <2>2, <2>3, <2>5
<1> QED
  BY <1>3, <1>5, <1>6, <1>7

LEMMA LookupStep ==
    ASSUME WriterInv, ReaderInv, Lookup
    PROVE  ReaderInv'
<1>1. PICK f, hinted, s :
      /\ f = req[thread.q]
      /\ hinted = IF AtRoot \/ protocol = "owning" THEN None ELSE hint[f.rootVirt]
      /\ s = Mapped(cache, f.virt)
  OBVIOUS
<1>2. thread.at = "lookup" /\ UNCHANGED <<shared, protocol, tree, failed>>
  BY DEF Lookup, At
<1>3. \/ /\ hinted # None /\ cache.slot[hinted].key = f.virt
         /\ Got(cache.slot[hinted].val, f.virt)
         /\ UNCHANGED <<reads, inflights, cache, hint>>
      \/ /\ s # None /\ Got(cache.slot[s].val, f.virt) /\ cache' = update_lru(cache, s)
         /\ hint' = IF protocol = "async" /\ ~AtRoot THEN [hint EXCEPT ![f.rootVirt] = s] ELSE hint
         /\ UNCHANGED <<reads, inflights>>
      \/ s = None /\ f.off = None /\ Finished(thread.q, "gone") /\ UNCHANGED <<reads, inflights, cache, hint>>
      \/ s = None /\ f.off # None /\ JoinOrRead(f.off) /\ UNCHANGED <<req, cache, hint>>
  BY <1>1 DEF Lookup, Q
<1>4. "lookup" \in Handling
  BY DEF Handling
<1>5. IsHandling /\ HandledAt(req[thread.q], "lookup", thread.read.data)
  BY <1>2, <1>4, HandledFacts
<1>6. CASE /\ hinted # None /\ cache.slot[hinted].key = f.virt
           /\ Got(cache.slot[hinted].val, f.virt)
           /\ UNCHANGED <<reads, inflights, cache, hint>>
  <2>1. hinted \in Slots
    <3>1. hint[req[thread.q].rootVirt] \in 0 .. CacheSlots
      BY <1>5, HintedIs, Zenon
    <3>2. hinted = hint[req[thread.q].rootVirt]
      BY <1>1, <1>6
    <3>3. hinted \in 0 .. CacheSlots /\ hinted # 0 /\ CacheSlots \in Nat
      BY <1>6, <3>1, <3>2, ReadersAssumption DEF None
    <3> QED
      BY <3>3 DEF Slots
  <2>2. CacheStep
    BY <1>2, <1>6, CacheUnchanged
  <2> QED
    BY <1>1, <1>2, <1>5, <1>6, <2>1, <2>2, EntryStep
<1>7. CASE /\ s # None /\ Got(cache.slot[s].val, f.virt) /\ cache' = update_lru(cache, s)
           /\ hint' = IF protocol = "async" /\ ~AtRoot THEN [hint EXCEPT ![f.rootVirt] = s] ELSE hint
           /\ UNCHANGED <<reads, inflights>>
  BY <1>1, <1>2, <1>5, <1>7, LookupHitStep
<1>8. CASE s = None /\ f.off = None /\ Finished(thread.q, "gone") /\ UNCHANGED <<reads, inflights, cache, hint>>
  BY <1>1, <1>2, <1>5, <1>8, LookupGoneStep
<1>9. CASE s = None /\ f.off # None /\ JoinOrRead(f.off) /\ UNCHANGED <<req, cache, hint>>
  <2>1. PICK key, r : /\ key = InflightKey
                      /\ r = [key |-> key, off |-> f.off, virt |-> req[thread.q].virt, q |-> thread.q,
                              data |-> Unwritten, landed |-> FALSE]
    OBVIOUS
  <2>2. r.key = key /\ r.off = f.off /\ r.virt = f.virt /\ r.q = thread.q /\ r.landed = FALSE
    BY <1>1, <2>1
  <2>3. /\ key \in Keys /\ f.off \in Chunks /\ WaitsOk(f, key) /\ ReadOk(r)
        /\ protocol = "owning" => key = <<"virt", r.virt>>
    <3>1. f = req[thread.q] /\ key = InflightKey /\ f.off # None
      BY <1>1, <1>9, <2>1
    <3> QED
      BY <1>5, <2>2, <3>1, LookupKey
  <2>4. CacheOk(cache)
    BY DEF ReaderInv, ReaderTypes
  <2>5. \A t \in ToSet(cache.active) : cache.slot[t].key # r.virt
    <3>1. PICK n : n = r.virt
      OBVIOUS
    <3>2. Mapped(cache, n) = None
      BY <1>1, <1>9, <2>2, <3>1
    <3>3. \A t \in ToSet(cache.active) : cache.slot[t].key # n
      BY <2>4, <3>2, MappedIs
    <3> QED
      BY <3>1, <3>3
  <2>6. UNCHANGED <<shared, protocol, req, tree, failed, cache, hint>>
    BY <1>2, <1>9
  <2> QED
    BY <1>1, <1>5, <1>9, <2>1, <2>3, <2>5, <2>6, JoinStep
<1> QED
  BY <1>3, <1>6, <1>7, <1>8, <1>9

LEMMA FindOwnStep ==
    ASSUME WriterInv, ReaderInv, FindOwn
    PROVE  ReaderInv'
<1>1. PICK f, v : f = req[thread.q] /\ v = f.version
  OBVIOUS
<1>2. /\ thread.at = "own" /\ UNCHANGED <<shared, protocol, tree, failed, cache, hint>>
      /\ IF tree[v] # Unwritten
         THEN req' = [req EXCEPT ![thread.q].leaf = tree[v]] /\ Goto("enter") /\ UNCHANGED <<reads, inflights>>
         ELSE JoinOrRead(f.root.child) /\ UNCHANGED req
  BY <1>1 DEF FindOwn, At, Q
<1>3. CASE tree[v] # Unwritten
  BY <1>1, <1>2, <1>3, OwnTreeStep
<1>4. CASE tree[v] = Unwritten
  <2>1. "own" \in Handling
    BY DEF Handling
  <2>2. IsHandling /\ HandledAt(req[thread.q], "own", thread.read.data)
    BY <1>2, <2>1, HandledFacts
  <2>3. protocol = "rw"
    BY <2>2 DEF HandledAt
  <2>4. /\ thread.q \in Finds /\ f \in ReqRec /\ f.at = "busy" /\ OwnOk(f) /\ FindOk(f)
        /\ f.version \in Nat
    BY <1>1, <2>2, HandlingFacts
  <2>5. f.root.child = LeafOf(f.version) /\ LeafOf(f.version) \in Chunks /\ Live(f.version)
    BY <2>3, <2>4, OwnLeaf
  <2>6. PICK off \in Chunks : off = f.root.child
    BY <2>5
  <2>7. PICK key, r : /\ key = InflightKey
                      /\ r = [key |-> key, off |-> off, virt |-> req[thread.q].virt, q |-> thread.q,
                              data |-> Unwritten, landed |-> FALSE]
    OBVIOUS
  <2>8. r.key = key /\ r.off = off /\ r.virt = f.virt /\ r.q = thread.q /\ r.landed = FALSE
    BY <1>1, <2>7
  <2>9. key = <<"off", off>>
    BY <1>1, <2>3, <2>6, <2>7 DEF InflightKey, Q
  <2>10. off \in Nat /\ off # None /\ f.virt <= inserted
    BY <2>4, ReadersAssumption DEF Chunks, None, FindOk
  <2>11. key \in Keys /\ key[1] = "off" /\ key[2] = off
    BY <2>9, <2>10 DEF Keys, Tags
  <2>12. WaitsOk(f, key)
    BY <2>3, <2>5, <2>6, <2>11 DEF WaitsOk
  <2>13. ReadOk(r)
    BY <1>1, <2>3, <2>4, <2>5, <2>6, <2>8, <2>10, <2>11 DEF ReadOk
  <2>14. JoinOrRead(off) /\ UNCHANGED <<shared, protocol, req, tree, failed, cache, hint>>
    BY <1>2, <1>4, <2>6
  <2> QED
    BY <1>1, <2>2, <2>3, <2>7, <2>11, <2>12, <2>13, <2>14, JoinStep
<1> QED
  BY <1>3, <1>4

-----------------------------------------------------------------------------
(* A find begins. *)
LEMMA BeginFindStep ==
    ASSUME WriterInv, ReaderInv, NEW q \in Finds, NEW v \in 1 .. MaxVersion, BeginFind(q, v)
    PROVE  ReaderInv'
<1>1. PICK root :
      /\ thread.at = "idle" /\ UNCHANGED <<shared, protocol, reads, inflights, cache, hint, tree, failed>>
      /\ req[q].at = "idle" /\ v \in 1 .. newest
      /\ protocol = "rw" => IsValid(v)
      /\ root = IF protocol = "rw" THEN disk[RootOf(v)] ELSE Unwritten
      /\ req' = [req EXCEPT ![q] = [ReqIdle EXCEPT !.at = "busy", !.version = v, !.root = root]]
      /\ thread' = [thread EXCEPT !.at = IF protocol = "rw" THEN "own" ELSE "slot", !.q = q]
  BY DEF BeginFind, At, RootOf
<1>2. /\ protocol' = protocol /\ reads' = reads /\ inflights' = inflights /\ tree' = tree
      /\ failed' = failed /\ UNCHANGED shared /\ cache' = cache /\ hint' = hint
  BY <1>1
<1>3. PICK f : f = [ReqIdle EXCEPT !.at = "busy", !.version = v, !.root = root]
  OBVIOUS
<1>4. v \in Nat /\ root \in Nodes /\ (protocol = "rw" => Live(v) /\ root = disk[RootOf(v)])
  <2>1. v \in Nat
    BY ReadersAssumption
  <2>2. CASE protocol = "rw"
    <3>1. IsValid(v) /\ root = disk[RootOf(v)]
      BY <1>1, <2>2
    <3>2. Live(v)
      BY <2>1, <3>1, ValidIsLive
    <3>3. v \in oldest .. newest
      BY <2>1, <3>2 DEF Live, WriterInv, WriterTypes
    <3>4. RootOf(v) \in Chunks
      BY <3>3, VersionsOk
    <3>5. disk[RootOf(v)] \in Nodes
      BY <3>4 DEF WriterInv, WriterTypes
    <3> QED
      BY <2>1, <3>1, <3>2, <3>5
  <2>3. CASE protocol # "rw"
    BY <1>1, <2>1, <2>3, UnwrittenIsNode
  <2> QED
    BY <2>2, <2>3
<1>5. /\ f \in ReqRec /\ f.at = "busy" /\ f.version = v /\ f.virt = 0 /\ f.rootVirt = 0 /\ f.result = "none"
      /\ f.root = root /\ f.leaf = Unwritten
  <2>1. f = [at |-> "busy", version |-> v, off |-> 0, virt |-> 0, root |-> root, rootVirt |-> 0,
             leaf |-> Unwritten, result |-> "none"]
    BY <1>3 DEF ReqIdle, None
  <2>2. 0 \in 0 .. NumChunks /\ 0 \in Nat /\ Unwritten \in Nodes
    BY UnwrittenIsNode, ReadersAssumption
  <2>3. f \in ReqRec
    BY <1>4, <2>1, <2>2 DEF ReqRec
  <2> QED
    BY <2>1, <2>3
<1>6. inserted \in Nat
  BY DEF WriterInv, WriterTypes
<1>7. FindOk(f)
  BY <1>1, <1>4, <1>5, <1>6 DEF FindOk
<1>8. OwnOk(f)
  BY <1>4, <1>5 DEF OwnOk
<1>9. req' = [req EXCEPT ![q] = f]
  BY <1>1, <1>3
<1>10. /\ req' \in [Finds -> ReqRec] /\ FindsSound' /\ req'[q] = f
       /\ \A p \in Finds : p # q => req'[p] = req[p]
  BY <1>2, <1>5, <1>7, <1>9, FindsChanged
<1>11. ReqKept
  BY <1>1, <1>10 DEF ReqKept
<1>12. thread = ThreadIdle
  BY <1>1 DEF ReaderInv, ThreadSound
<1>13. PICK at \in {"own", "slot"} : at = IF protocol = "rw" THEN "own" ELSE "slot"
  OBVIOUS
<1>14. thread' = [thread EXCEPT !.at = at, !.q = q] /\ thread \in ThreadRec
  BY <1>1, <1>13 DEF ReaderInv, ReaderTypes
<1>15. at \in Handling
  BY DEF Handling
<1>16. /\ thread' \in ThreadRec /\ thread'.at = at /\ thread'.q = q /\ thread'.todo = <<>> /\ thread'.virt = 0
       /\ thread'.read = thread.read
  BY <1>12, <1>14, <1>15 DEF ThreadRec, ThreadIdle, None
<1>17. IsHandling' /\ ~IsCompleting' /\ ~IsCompleting /\ thread'.at # "idle"
  BY <1>1, <1>13, <1>15, <1>16 DEF IsHandling, IsCompleting, Completing
<1>18. HandledAt(f, at, thread.read.data)
  BY <1>1, <1>5, <1>13 DEF HandledAt
<1>19. HandledOk(f)'
  BY <1>2, <1>16, <1>18, HandledSame DEF HandledOk
<1>20. OwnOk(f)'
  BY <1>2, <1>8, OwnSame
<1>21. ThreadSound'
  <2>1. thread'.virt <= inserted'
    BY <1>2, <1>6, <1>16, SharedSame
  <2>2. DOMAIN thread'.todo = {}
    BY <1>16
  <2> QED
    BY <1>5, <1>10, <1>16, <1>17, <1>19, <1>20, <2>1, <2>2 DEF ThreadSound
<1>22. CacheStep
  BY <1>2, CacheUnchanged
<1>23. \A i \in DOMAIN inflights : \A j \in DOMAIN inflights[i].waiting :
           /\ inflights[i].waiting[j] \in Finds /\ inflights[i].waiting[j] # q
  BY <1>1, InflightType DEF ReaderInv, WaitingSound
<1>24. WaitingSound'
  BY <1>2, <1>10, <1>23, WaitingKept
<1>25. ReadsSound'
  BY <1>2, <1>11, <1>17, <1>22, ReadsKept
<1>26. OnePlace'
  <2>1. DOMAIN thread'.todo = {}
    BY <1>16
  <2>2. \A i \in DOMAIN inflights : \A a \in DOMAIN inflights[i].waiting :
           \A j \in DOMAIN inflights : \A b \in DOMAIN inflights[j].waiting :
                inflights[i].waiting[a] = inflights[j].waiting[b] => i = j /\ a = b
    BY DEF ReaderInv, OnePlace
  <2> QED
    BY <1>2, <1>16, <1>23, <2>1, <2>2 DEF OnePlace
<1>27. ReaderTypes'
  BY <1>2, <1>10, <1>16 DEF ReaderInv, ReaderTypes, CacheOk
<1>28. TreeRight' /\ failed' = {} /\ CacheHolds'
  BY <1>2, <1>22, TreeKept DEF ReaderInv, CacheStep
<1> QED
  BY <1>10, <1>21, <1>24, <1>25, <1>26, <1>27, <1>28 DEF ReaderInv

-----------------------------------------------------------------------------
(* Reads land and are completed. *)

\* What stays if no find and no entry changes
LEMMA RestKept ==
    ASSUME WriterInv, ReaderInv, UNCHANGED <<shared, protocol, req, inflights, cache, hint, tree, failed>>
    PROVE  /\ FindsSound' /\ WaitingSound' /\ CacheHolds' /\ TreeRight' /\ failed' = {} /\ CacheStep /\ ReqKept
<1>1. /\ protocol' = protocol /\ req' = req /\ inflights' = inflights /\ tree' = tree
      /\ failed' = failed /\ UNCHANGED shared /\ cache' = cache /\ hint' = hint
  OBVIOUS
<1>2. FindsSound'
  BY <1>1, SharedSame DEF ReaderInv, FindsSound
<1>3. CacheStep
  BY <1>1, CacheUnchanged
<1>4. WaitingSound'
  BY <1>1, WaitingKept
<1>5. ReqKept
  BY <1>1 DEF ReqKept
<1> QED
  BY <1>1, <1>2, <1>3, <1>4, <1>5, TreeKept DEF ReaderInv, CacheStep

LEMMA ThreadKept ==
    ASSUME ReaderInv, UNCHANGED shared, protocol' = protocol, req' = req, thread' = thread
    PROVE  ThreadSound'
<1>0. IsHandling' <=> IsHandling
  BY DEF IsHandling
<1>1. IsHandling => thread.q \in Finds /\ req[thread.q].at = "busy" /\ OwnOk(req[thread.q])' /\ HandledOk(req[thread.q])'
  <2>1. PICK f : f = req[thread.q]
    OBVIOUS
  <2>2. IsHandling => thread.q \in Finds /\ f.at = "busy" /\ OwnOk(f) /\ HandledAt(f, thread.at, thread.read.data)
    BY <2>1 DEF ReaderInv, ThreadSound, HandledOk
  <2>3. IsHandling => OwnOk(f)' /\ HandledAt(f, thread.at, thread.read.data)'
    BY <2>2, OwnSame, HandledSame
  <2> QED
    BY <2>1, <2>2, <2>3 DEF HandledOk
<1>2. ASSUME NEW i \in DOMAIN thread.todo
      PROVE  /\ IsHandling /\ protocol # "blocking" /\ req[thread.todo[i]].at = "busy"
             /\ OwnOk(req[thread.todo[i]])'
             /\ (Live(req[thread.todo[i]].version) => thread.read.data = disk[Target(req[thread.todo[i]])])'
  <2>1. PICK f : f = req[thread.todo[i]]
    OBVIOUS
  <2>2. /\ IsHandling /\ protocol # "blocking" /\ f.at = "busy" /\ OwnOk(f)
        /\ (Live(f.version) => thread.read.data = disk[Target(f)])
    BY <2>1 DEF ReaderInv, ThreadSound
  <2>3. OwnOk(f)' /\ (Live(f.version) => thread.read.data = disk[Target(f)])'
    BY <2>2, OwnSame, SharedSame
  <2> QED
    BY <2>1, <2>2, <2>3
<1>3. thread'.virt <= inserted' /\ (thread'.at = "idle" => thread' = ThreadIdle)
  BY SharedSame DEF ReaderInv, ThreadSound
<1> QED
  BY <1>0, <1>1, <1>2, <1>3 DEF ThreadSound

LEMMA DeviceReadStep ==
    ASSUME WriterInv, ReaderInv, DeviceRead
    PROVE  ReaderInv'
<1>1. PICK r \in reads : /\ ~r.landed
        /\ reads' = (reads \ {r}) \cup {[r EXCEPT !.landed = TRUE, !.data = disk[r.off]]}
        /\ UNCHANGED <<shared, protocol, req, thread, inflights, cache, hint, tree, failed>>
  BY DEF DeviceRead
<1>2. /\ protocol' = protocol /\ req' = req /\ inflights' = inflights /\ tree' = tree
      /\ failed' = failed /\ UNCHANGED shared /\ cache' = cache /\ hint' = hint /\ thread' = thread
  BY <1>1
<1>3. FindsSound' /\ WaitingSound' /\ CacheHolds' /\ TreeRight' /\ failed' = {} /\ CacheStep /\ ReqKept
  BY <1>2, RestKept
<1>4. r \in ReadRec /\ ReadOk(r)
  BY DEF ReaderInv, ReaderTypes, ReadsSound
<1>5. PICK data : data = disk[r.off]
  OBVIOUS
<1>6. r.off \in Chunks /\ data \in Nodes
  <2>1. r.off \in Chunks
    BY <1>4, ReadersAssumption DEF ReadOk, ReadRec, Chunks, None
  <2> QED
    BY <1>5, <2>1 DEF WriterInv, WriterTypes
<1>7. PICK x : x = [r EXCEPT !.landed = TRUE, !.data = data]
  OBVIOUS
<1>8. /\ x \in ReadRec /\ x.key = r.key /\ x.off = r.off /\ x.virt = r.virt /\ x.q = r.q
      /\ x.landed = TRUE /\ x.data = data
  BY <1>4, <1>6, <1>7 DEF ReadRec
<1>9. reads' = (reads \ {r}) \cup {x}
  BY <1>1, <1>5, <1>7
<1>10. ReadOk(x)
  <2>1. r.key[1] = "virt" => HoldsAt(r.virt, data)
    BY <1>4, <1>5 DEF ReadOk, IsOf, HoldsAt
  <2>2. r.key[1] = "version" /\ Live(r.key[2]) => data = disk[RootOf(r.key[2])]
    BY <1>4, <1>5 DEF ReadOk
  <2> QED
    BY <1>4, <1>5, <1>8, <2>1, <2>2 DEF ReadOk
<1>11. \A y \in reads' : ReadOk(y)'
  <2>1. \A y \in reads' : ReadOk(y)
    BY <1>9, <1>10 DEF ReaderInv, ReadsSound
  <2> QED
    BY <1>2, <1>3, <2>1, ReadOkKept
<1>12. /\ IsCompleting' <=> IsCompleting
       /\ IsHandling' <=> IsHandling
  BY <1>2 DEF IsCompleting, IsHandling
<1>13. IsCompleting' => CompletingOk(thread.read)'
  BY <1>2, <1>3, <1>12, SharedSame, ReadOkKept DEF ReaderInv, ReadsSound, CompletingOk
<1>14. \A y \in reads \cup {thread.read} : InFlight(y) =>
          /\ \E i \in DOMAIN inflights : inflights[i].key = y.key
          /\ protocol = "owning" => y.key = <<"virt", y.virt>>
          /\ protocol = "owning" => \A s \in ToSet(cache.active) : cache.slot[s].key # y.virt
  BY DEF ReaderInv, ReadsSound
<1>15. InFlight(r)
  BY DEF InFlight
<1>16. /\ \E i \in DOMAIN inflights : inflights[i].key = x.key
       /\ protocol = "owning" => x.key = <<"virt", x.virt>>
       /\ protocol = "owning" => \A s \in ToSet(cache.active) : cache.slot[s].key # x.virt
  BY <1>8, <1>14, <1>15
<1>17. \A y \in reads' \cup {thread.read} : InFlight(y)' => y = x \/ (y \in reads \cup {thread.read} /\ InFlight(y))
  BY <1>2, <1>9, <1>12 DEF InFlight
<1>18. \A y \in reads' \cup {thread'.read} : InFlight(y)' =>
          /\ \E i \in DOMAIN inflights' : inflights'[i].key = y.key
          /\ protocol' = "owning" => y.key = <<"virt", y.virt>>
          /\ protocol' = "owning" => \A s \in ToSet(cache'.active) : cache'.slot[s].key # y.virt
  BY <1>2, <1>14, <1>16, <1>17
<1>19. \A r1, r2 \in reads' : r1.key = r2.key => r1 = r2
  <2>1. \A r1, r2 \in reads : r1.key = r2.key => r1 = r2
    BY DEF ReaderInv, ReadsSound
  <2> QED
    BY <1>8, <1>9, <2>1
<1>20. IsCompleting' => \A y \in reads' : y.key # thread'.read.key
  BY <1>2, <1>8, <1>9, <1>12 DEF ReaderInv, ReadsSound
<1>21. ReadsSound'
  BY <1>11, <1>13, <1>18, <1>19, <1>20 DEF ReadsSound
<1>22. ReaderTypes'
  BY <1>2, <1>8, <1>9 DEF ReaderInv, ReaderTypes, CacheOk
<1>23. OnePlace'
  BY <1>2, <1>12 DEF ReaderInv, OnePlace
<1>24. ThreadSound'
  BY <1>2, ThreadKept
<1> QED
  BY <1>3, <1>21, <1>22, <1>23, <1>24 DEF ReaderInv

\* The thread goes on with the read it completes, or takes one out of the reads in flight.
LEMMA CompletingStep ==
    ASSUME WriterInv, ReaderInv, UNCHANGED <<shared, protocol, req, inflights, cache, hint, tree, failed>>,
           reads' \subseteq reads, NEW r, InFlight(r), thread' \in ThreadRec, thread'.read = r,
           IsCompleting', thread'.todo = <<>>, thread'.virt <= inserted, CompletingOk(r)',
           \A x \in reads' : x.key # r.key
    PROVE  ReaderInv'
<1>1. /\ protocol' = protocol /\ req' = req /\ inflights' = inflights /\ tree' = tree
      /\ failed' = failed /\ UNCHANGED shared /\ cache' = cache /\ hint' = hint
  OBVIOUS
<1>2. FindsSound' /\ WaitingSound' /\ CacheHolds' /\ TreeRight' /\ failed' = {} /\ CacheStep /\ ReqKept
  BY RestKept
<1>3. \A x \in reads' : ReadOk(x)'
  BY <1>1, <1>2, ReadOkKept DEF ReaderInv, ReadsSound
<1>4. \A y \in reads \cup {thread.read} : InFlight(y) =>
          /\ \E i \in DOMAIN inflights : inflights[i].key = y.key
          /\ protocol = "owning" => y.key = <<"virt", y.virt>>
          /\ protocol = "owning" => \A s \in ToSet(cache.active) : cache.slot[s].key # y.virt
  BY DEF ReaderInv, ReadsSound
<1>5. \A y : InFlight(y)' => y \in reads \cup {thread.read} /\ InFlight(y)
  BY DEF InFlight
<1>6. \A y \in reads' \cup {thread'.read} : InFlight(y)' =>
          /\ \E i \in DOMAIN inflights' : inflights'[i].key = y.key
          /\ protocol' = "owning" => y.key = <<"virt", y.virt>>
          /\ protocol' = "owning" => \A s \in ToSet(cache'.active) : cache'.slot[s].key # y.virt
  BY <1>1, <1>4, <1>5
<1>7. \A r1, r2 \in reads' : r1.key = r2.key => r1 = r2
  BY DEF ReaderInv, ReadsSound
<1>8. CompletingOk(thread.read)'
  OBVIOUS
<1>9. ReadsSound'
  BY <1>3, <1>6, <1>7, <1>8 DEF ReadsSound
<1>10. ~IsHandling' /\ thread'.at # "idle" /\ DOMAIN thread'.todo = {}
  BY DEF IsHandling, IsCompleting, Handling, Completing
<1>11. thread'.virt <= inserted'
  BY <1>1, SharedSame
<1>12. ThreadSound'
  BY <1>10, <1>11 DEF ThreadSound
<1>13. \A i \in DOMAIN inflights : \A a \in DOMAIN inflights[i].waiting :
         \A j \in DOMAIN inflights : \A b \in DOMAIN inflights[j].waiting :
                inflights[i].waiting[a] = inflights[j].waiting[b] => i = j /\ a = b
  BY DEF ReaderInv, OnePlace
<1>14. OnePlace'
  BY <1>1, <1>10, <1>13 DEF OnePlace
<1>15. ReaderTypes'
  BY <1>1 DEF ReaderInv, ReaderTypes, CacheOk
<1> QED
  BY <1>2, <1>9, <1>12, <1>14, <1>15 DEF ReaderInv

LEMMA KeyTag ==
    ASSUME NEW key \in Keys
    PROVE  key[1] \in Tags
BY DEF Keys

LEMMA BeginCompleteStep ==
    ASSUME WriterInv, ReaderInv, BeginComplete
    PROVE  ReaderInv'
<1>1. PICK r \in reads :
        /\ r.landed /\ reads' = reads \ {r} /\ thread.at = "idle"
        /\ thread' = [thread EXCEPT !.read = r,
                          !.at = CASE r.key[1] = "version" -> "alive"
                                   [] r.key[1] = "off" -> "deliver"
                                   [] OTHER -> "retranslate"]
        /\ UNCHANGED <<shared, protocol, req, inflights, cache, hint, tree, failed>>
  BY DEF BeginComplete, At
<1>2. UNCHANGED shared /\ protocol' = protocol /\ req' = req
  BY <1>1
<1>3. r \in ReadRec /\ ReadOk(r)
  BY DEF ReaderInv, ReaderTypes, ReadsSound
<1>4. r.key[1] \in {"version", "off", "virt"}
  BY <1>3, KeyTag DEF ReadRec, Tags, ReadOk
<1>5. PICK at \in {"alive", "deliver", "retranslate"} :
        /\ at = "alive" <=> r.key[1] = "version"
        /\ at = "deliver" <=> r.key[1] = "off"
        /\ at = "retranslate" <=> r.key[1] = "virt"
        /\ thread' = [thread EXCEPT !.read = r, !.at = at]
  BY <1>1, <1>4
<1>6. thread = ThreadIdle /\ thread \in ThreadRec
  BY <1>1 DEF ReaderInv, ThreadSound, ReaderTypes
<1>7. /\ thread' \in ThreadRec /\ thread'.read = r /\ thread'.at = at /\ thread'.todo = <<>> /\ thread'.virt = 0
  BY <1>3, <1>5, <1>6 DEF ThreadRec, ThreadIdle, None, Completing
<1>8. IsCompleting'
  BY <1>7 DEF IsCompleting, Completing
<1>9. thread'.virt <= inserted
  BY <1>7 DEF WriterInv, WriterTypes
<1>10. InFlight(r)
  BY DEF InFlight
<1>11. \A x \in reads' : x.key # r.key
  BY <1>1 DEF ReaderInv, ReadsSound
<1>12. ReadOk(r)'
  BY <1>2, <1>3, ReadOkKept DEF ReqKept
<1>13. r.key[1] = "version" => r.key[2] \in 1 .. newest
  BY <1>3, ReadVersion DEF ReadOk
<1>14. r.key[1] = "virt" => /\ r.off # None /\ protocol \in {"owning", "async"}
                            /\ HoldsAt(r.virt, r.data)' /\ IsOf(r.virt, r.off)' /\ r.virt = r.key[2]
  BY <1>1, <1>2, <1>3, SharedSame DEF ReadOk
<1>15. r.key[1] = "off" => protocol = "rw"
  BY <1>3 DEF ReadOk
<1>16. newest' = newest
  BY <1>2, SharedSame
<1>17. CompletingOk(r)'
  BY <1>1, <1>2, <1>4, <1>5, <1>7, <1>12, <1>13, <1>14, <1>15, <1>16 DEF CompletingOk
<1>18. reads' \subseteq reads
  BY <1>1
<1> QED
  BY <1>1, <1>7, <1>8, <1>9, <1>10, <1>11, <1>17, <1>18, CompletingStep

\* The thread completes a read.
LEMMA CompletingFacts ==
    ASSUME ReaderInv, IsCompleting
    PROVE  /\ CompletingOk(thread.read) /\ thread.read \in ReadRec /\ thread \in ThreadRec
           /\ thread.todo = <<>> /\ InFlight(thread.read)
           /\ \A x \in reads : x.key # thread.read.key
BY DEF ReaderInv, ReadsSound, ReaderTypes, ThreadRec, CompletingOk, InFlight

LEMMA RetranslateStep ==
    ASSUME WriterInv, ReaderInv, Retranslate
    PROVE  ReaderInv'
<1>1. /\ thread.at = "retranslate"
      /\ thread' = [thread EXCEPT !.at = "insert", !.virt = Virtual(thread.read.off)]
      /\ UNCHANGED <<shared, protocol, req, reads, inflights, cache, hint, tree, failed>>
  BY DEF Retranslate, At
<1>2. IsCompleting
  BY <1>1 DEF IsCompleting, Completing
<1>3. PICK r : r = thread.read
  OBVIOUS
<1>4. /\ CompletingOk(r) /\ r \in ReadRec /\ thread \in ThreadRec /\ thread.todo = <<>> /\ InFlight(r)
      /\ \A x \in reads : x.key # r.key
  BY <1>2, <1>3, CompletingFacts
<1>5. PICK n : n = Virtual(r.off)
  OBVIOUS
<1>6. /\ r.landed /\ r.off # None /\ r.key[1] \in {"virt", "version"} /\ protocol \in {"owning", "async"}
      /\ HoldsAt(r.virt, r.data) /\ IsOf(r.virt, r.off) /\ (r.key[1] = "virt" => r.virt = r.key[2])
      /\ r.key[1] = "version" => (Live(r.key[2]) => r.virt = count[RootOf(r.key[2])])
      /\ r.key[1] = "version" => r.key[2] \in 1 .. newest
  BY <1>1, <1>4 DEF CompletingOk
<1>7. r.off \in 0 .. NumChunks
  BY <1>4 DEF ReadRec
<1>8. n \in Nat /\ n <= inserted /\ r.off \in Chunks /\ n = count[r.off]
  BY <1>5, <1>6, <1>7, VirtualType
<1>9. InUse(r.virt) => n = r.virt
  BY <1>6, <1>8 DEF InUse, IsOf
<1>10. /\ thread' \in ThreadRec /\ thread'.read = r /\ thread'.at = "insert" /\ thread'.todo = <<>> /\ thread'.virt = n
  BY <1>1, <1>3, <1>4, <1>5, <1>8 DEF ThreadRec, Completing
<1>11. IsCompleting'
  BY <1>10 DEF IsCompleting, Completing
<1>12. UNCHANGED shared /\ protocol' = protocol
  BY <1>1
<1>13. /\ HoldsAt(r.virt, r.data)' /\ IsOf(r.virt, r.off)' /\ (InUse(r.virt)' => n = r.virt)
       /\ r.key[1] = "version" => (Live(r.key[2])' => r.virt = count'[RootOf(r.key[2])'])
       /\ newest' = newest
  BY <1>6, <1>9, <1>12, SharedSame
<1>14. CompletingOk(r)'
  BY <1>6, <1>10, <1>12, <1>13 DEF CompletingOk
<1>15. reads' \subseteq reads /\ \A x \in reads' : x.key # r.key
  BY <1>1, <1>4
<1> QED
  BY <1>1, <1>4, <1>8, <1>10, <1>11, <1>14, <1>15, CompletingStep

LEMMA StillValidStep ==
    ASSUME WriterInv, ReaderInv, StillValid
    PROVE  ReaderInv'
<1>1. /\ thread.at = "alive"
      /\ thread' = [thread EXCEPT !.at = IF IsValid(req[thread.read.q].version)
                                         THEN "retranslate" ELSE "deliver", !.virt = None]
      /\ UNCHANGED <<shared, protocol, req, reads, inflights, cache, hint, tree, failed>>
  BY DEF StillValid, At
<1>2. IsCompleting
  BY <1>1 DEF IsCompleting, Completing
<1>3. PICK r : r = thread.read
  OBVIOUS
<1>4. /\ CompletingOk(r) /\ r \in ReadRec /\ thread \in ThreadRec /\ thread.todo = <<>> /\ InFlight(r)
      /\ \A x \in reads : x.key # r.key
  BY <1>2, <1>3, CompletingFacts
<1>5. r.landed /\ r.key[1] = "version" /\ r.key[2] \in 1 .. newest /\ ReadOk(r)
  BY <1>1, <1>4 DEF CompletingOk
<1>6. PICK v \in 1 .. newest : v = r.key[2]
  BY <1>5
<1>7. /\ protocol = "async" /\ req[r.q].version = v /\ r.off # None
      /\ Live(v) => r.off = RootOf(v) /\ r.virt = count[RootOf(v)] /\ r.data = disk[RootOf(v)]
  BY <1>5, <1>6 DEF ReadOk
<1>8. v \in Nat
  BY DEF WriterInv, WriterTypes
<1>9. IsValid(v) <=> Live(v)
  BY <1>8, ValidIsLive
<1>10. PICK at \in {"retranslate", "deliver"} :
         /\ at = "retranslate" <=> Live(v)
         /\ thread' = [thread EXCEPT !.at = at, !.virt = None]
  BY <1>1, <1>3, <1>7, <1>9
<1>11. /\ thread' \in ThreadRec /\ thread'.read = r /\ thread'.at = at /\ thread'.todo = <<>> /\ thread'.virt = 0
  BY <1>3, <1>4, <1>10 DEF ThreadRec, Completing, None
<1>12. IsCompleting' /\ thread'.virt <= inserted
  BY <1>11 DEF IsCompleting, Completing, WriterInv, WriterTypes
<1>13. UNCHANGED shared /\ protocol' = protocol /\ req' = req
  BY <1>1
<1>14. ReadOk(r)'
  BY <1>5, <1>13, ReadOkKept DEF ReqKept
<1>15. (Live(v)' <=> Live(v)) /\ newest' = newest /\ count' = count /\ RootOf(v)' = RootOf(v)
  BY <1>13, SharedSame
<1>16. CASE Live(v)
  <2>1. PICK g : g = [version |-> v, root |-> Unwritten]
    OBVIOUS
  <2>2. Target(g) = RootOf(v) /\ g.version = v
    BY <2>1 DEF Target
  <2>3. HoldsAt(r.virt, r.data) /\ IsOf(r.virt, r.off)
    BY <1>7, <1>8, <1>16, <2>2, TargetFacts
  <2>4. HoldsAt(r.virt, r.data)' /\ IsOf(r.virt, r.off)'
    BY <1>13, <2>3, SharedSame
  <2>5. thread'.at = "retranslate"
    BY <1>10, <1>11, <1>16
  <2>6. Live(r.key[2])' => r.virt = count'[RootOf(r.key[2])']
    BY <1>6, <1>7, <1>15, <1>16
  <2>7. CompletingOk(r)'
    BY <1>5, <1>7, <1>11, <1>13, <1>15, <2>4, <2>5, <2>6 DEF CompletingOk
  <2> QED
    BY <1>1, <1>4, <1>11, <1>12, <2>7, CompletingStep
<1>17. CASE ~Live(v)
  <2>1. thread'.at = "deliver"
    BY <1>10, <1>11, <1>17
  <2>2. ~Live(r.key[2])'
    BY <1>6, <1>15, <1>17
  <2>3. CompletingOk(r)'
    BY <1>5, <1>11, <1>14, <1>15, <2>1, <2>2 DEF CompletingOk
  <2> QED
    BY <1>1, <1>4, <1>11, <1>12, <2>3, CompletingStep
<1> QED
  BY <1>16, <1>17

\* The inflights without entry i
LEMMA RestIs ==
    ASSUME ReaderInv, NEW i \in DOMAIN inflights, NEW t, t = RemoveAt(inflights, i)
    PROVE  /\ t \in Seq(InflightRec)
           /\ \A m \in DOMAIN inflights : m # i => \E j \in DOMAIN t : t[j] = inflights[m]
           /\ \A j1, j2 \in DOMAIN t : \E m1, m2 \in DOMAIN inflights :
                 /\ m1 # i /\ m2 # i /\ t[j1] = inflights[m1] /\ t[j2] = inflights[m2]
                 /\ m1 = m2 => j1 = j2
<1>1. inflights \in Seq(InflightRec)
  BY DEF ReaderInv, ReaderTypes
<1>2. PICK n \in Nat : n = Len(inflights) /\ DOMAIN inflights = 1 .. n
  BY <1>1, LenProperties
<1>3. i \in 1 .. Len(inflights) /\ i \in Nat
  BY <1>2
<1>4. /\ t \in Seq(InflightRec) /\ DOMAIN t = 1 .. n - 1
      /\ \A j \in 1 .. n - 1 : (j < i => t[j] = inflights[j]) /\ (j >= i => t[j] = inflights[j + 1])
  BY <1>1, <1>2, <1>3, RemovedAt
<1>5. ASSUME NEW m \in DOMAIN inflights, m # i PROVE \E j \in DOMAIN t : t[j] = inflights[m]
  <2>1. CASE m < i
    <3>1. m \in 1 .. n - 1
      BY <1>2, <1>3, <2>1
    <3> QED
      BY <1>4, <2>1, <3>1
  <2>2. CASE m > i
    <3>1. PICK j \in 1 .. n - 1 : j + 1 = m /\ j >= i
      <4>1. m - 1 \in 1 .. n - 1 /\ (m - 1) + 1 = m /\ m - 1 >= i
        BY <1>2, <1>3, <2>2
      <4> QED
        BY <4>1
    <3>2. t[j] = inflights[j + 1]
      BY <1>4, <3>1
    <3> QED
      BY <1>4, <3>1, <3>2
  <2> QED
    BY <1>2, <1>3, <1>5, <2>1, <2>2
<1>6. ASSUME NEW j \in DOMAIN t
      PROVE  \E m \in DOMAIN inflights : m # i /\ t[j] = inflights[m] /\ m = IF j < i THEN j ELSE j + 1
  <2>1. j \in 1 .. n - 1
    BY <1>4
  <2>2. CASE j < i
    BY <1>2, <1>3, <1>4, <2>1, <2>2
  <2>3. CASE j >= i
    <3>1. j + 1 \in DOMAIN inflights /\ j + 1 # i /\ t[j] = inflights[j + 1]
      BY <1>2, <1>3, <1>4, <2>1, <2>3
    <3> QED
      BY <1>3, <2>1, <2>3, <3>1
  <2> QED
    BY <1>3, <2>1, <2>2, <2>3
<1>7. ASSUME NEW j1 \in DOMAIN t, NEW j2 \in DOMAIN t
      PROVE  \E m1, m2 \in DOMAIN inflights :
                 /\ m1 # i /\ m2 # i /\ t[j1] = inflights[m1] /\ t[j2] = inflights[m2]
                 /\ m1 = m2 => j1 = j2
  <2>1. PICK m1 \in DOMAIN inflights : m1 # i /\ t[j1] = inflights[m1] /\ m1 = IF j1 < i THEN j1 ELSE j1 + 1
    BY <1>6
  <2>2. PICK m2 \in DOMAIN inflights : m2 # i /\ t[j2] = inflights[m2] /\ m2 = IF j2 < i THEN j2 ELSE j2 + 1
    BY <1>6
  <2>3. j1 \in 1 .. n - 1 /\ j2 \in 1 .. n - 1
    BY <1>4
  <2>4. m1 = m2 => j1 = j2
    BY <1>2, <1>3, <2>1, <2>2, <2>3
  <2> QED
    BY <2>1, <2>2, <2>4
<1> QED
  BY <1>4, <1>5, <1>7

\* The finds that waited are resumed with the node, which is the one they look for.
LEMMA NotifyStep ==
    ASSUME WriterInv, ReaderInv, UNCHANGED <<shared, protocol, req, reads>>, IsCompleting,
           NEW node \in Nodes, NEW virt \in Nat, virt <= inserted, protocol # "blocking",
           NotifyFinds(node, virt),
           \A f \in ReqRec : f.at = "busy" /\ WaitsOk(f, thread.read.key) /\ OwnOk(f) /\ Live(f.version)
                                => node = disk[Target(f)],
           CacheOk(cache)', CacheHolds', hint' \in [0 .. 2 * MaxVersion -> 0 .. CacheSlots],
           tree' \in [1 .. MaxVersion -> Nodes], TreeRight', failed' = {},
           protocol = "owning" => \A r \in reads : \A s \in ToSet(cache'.active) : cache'.slot[s].key # r.virt
    PROVE  ReaderInv'
<1>1. /\ protocol' = protocol /\ req' = req /\ reads' = reads /\ UNCHANGED shared
  OBVIOUS
<1>2. PICK key : key = thread.read.key
  OBVIOUS
<1>3. /\ thread.read \in ReadRec /\ thread \in ThreadRec /\ \A x \in reads : x.key # key
  BY <1>2, CompletingFacts
<1>4. \E i \in DOMAIN inflights : inflights[i].key = key
  <2>1. InFlight(thread.read)
    BY CompletingFacts
  <2> QED
    BY <1>2, <2>1 DEF ReaderInv, ReadsSound
<1>5. PICK i : i = CHOOSE j \in DOMAIN inflights : inflights[j].key = key
  OBVIOUS
<1>6. i \in DOMAIN inflights /\ inflights[i].key = key
  BY <1>4, <1>5
<1>7. PICK w, t, r : /\ w = inflights[i].waiting /\ t = RemoveAt(inflights, i)
                     /\ r = [thread.read EXCEPT !.data = node]
  OBVIOUS
<1>8. Pending.waiting = w /\ Pending.rest = t
  BY <1>2, <1>5, <1>7 DEF Pending
<1>9. /\ inflights' = t
      /\ thread' = [thread EXCEPT !.at = "resume", !.q = Head(w), !.todo = Tail(w), !.read = r, !.virt = virt]
  BY <1>7, <1>8 DEF NotifyFinds
<1>10. w \in Seq(Finds) /\ w # <<>>
  BY <1>6, <1>7, InflightType DEF ReaderInv, WaitingSound
<1>11. PICK n \in Nat : n = Len(w) /\ DOMAIN w = 1 .. n /\ n >= 1
  BY <1>10, LenProperties, EmptySeq
<1>12. PICK q, todo : q = Head(w) /\ todo = Tail(w)
  OBVIOUS
<1>13. q \in Finds /\ q = w[1]
  BY <1>10, <1>11, <1>12, ElementOfSeq
<1>14. /\ todo \in Seq(Finds) /\ DOMAIN todo = 1 .. n - 1
       /\ \A k \in 1 .. n - 1 : k + 1 \in DOMAIN w /\ todo[k] = w[k + 1]
  <2>1. /\ todo \in Seq(Finds) /\ Len(todo) = n - 1 /\ \A k \in 1 .. Len(w) - 1 : todo[k] = w[k + 1]
    BY <1>10, <1>11, <1>12, HeadTailProperties
  <2>2. DOMAIN todo = 1 .. n - 1
    BY <2>1, LenProperties
  <2> QED
    BY <1>11, <2>1, <2>2
<1>15. r \in ReadRec /\ r.data = node
  BY <1>3, <1>7 DEF ReadRec
<1>16. "resume" \in Handling /\ "resume" \notin Completing
  BY DEF Handling, Completing
<1>17. /\ thread' \in ThreadRec /\ thread'.at = "resume" /\ thread'.q = q /\ thread'.todo = todo
       /\ thread'.read = r /\ thread'.virt = virt
  BY <1>3, <1>9, <1>12, <1>13, <1>14, <1>15, <1>16 DEF ThreadRec
<1>18. IsHandling' /\ ~IsCompleting'
  BY <1>16, <1>17 DEF IsHandling, IsCompleting
<1>19. ASSUME NEW k \in DOMAIN w
       PROVE  /\ w[k] \in Finds /\ req[w[k]].at = "busy" /\ OwnOk(req[w[k]])'
              /\ (Live(req[w[k]].version) => node = disk[Target(req[w[k]])])
  <2>1. PICK f : f = req[w[k]]
    OBVIOUS
  <2>2. w[k] \in Finds
    BY <1>10, <1>11, ElementOfSeq
  <2>3. f \in ReqRec
    BY <2>1, <2>2 DEF ReaderInv, ReaderTypes
  <2>4. f.at = "busy" /\ OwnOk(f) /\ WaitsOk(f, key)
    BY <1>6, <1>7, <2>1 DEF ReaderInv, WaitingSound
  <2>5. Live(f.version) => node = disk[Target(f)]
    BY <1>2, <2>3, <2>4
  <2>6. OwnOk(f)'
    BY <1>1, <2>4, OwnSame
  <2> QED
    BY <1>1, <2>1, <2>2, <2>4, <2>5, <2>6
<1>20. ThreadSound'
  <2>1. PICK f : f = req[q]
    OBVIOUS
  <2>2. f.at = "busy" /\ OwnOk(f)' /\ (Live(f.version) => node = disk[Target(f)])
    BY <1>1, <1>11, <1>13, <1>19, <2>1
  <2>3. HandledAt(f, "resume", node)
    BY <2>2 DEF HandledAt
  <2>4. HandledAt(f, "resume", node)'
    BY <1>1, <2>3, HandledSame
  <2>5. HandledOk(f)'
    BY <1>15, <1>17, <2>4 DEF HandledOk
  <2>6. ASSUME NEW k \in DOMAIN todo
        PROVE  /\ req[todo[k]].at = "busy" /\ OwnOk(req[todo[k]])'
               /\ (Live(req[todo[k]].version) => node = disk[Target(req[todo[k]])])'
    <3>1. PICK m \in DOMAIN w : todo[k] = w[m]
      BY <1>14
    <3>2. PICK g : g = req[w[m]]
      OBVIOUS
    <3>3. g.at = "busy" /\ OwnOk(g)' /\ (Live(g.version) => node = disk[Target(g)])
      BY <1>1, <1>19, <3>2
    <3>4. (Live(g.version) => node = disk[Target(g)])'
      BY <1>1, <3>3, SharedSame
    <3> QED
      BY <1>1, <3>1, <3>2, <3>3, <3>4
  <2>7. thread'.virt <= inserted' /\ thread'.at # "idle"
    BY <1>1, <1>17, SharedSame
  <2> QED
    BY <1>1, <1>13, <1>15, <1>17, <1>18, <2>1, <2>2, <2>5, <2>6, <2>7 DEF ThreadSound
<1>21. /\ t \in Seq(InflightRec)
       /\ \A m \in DOMAIN inflights : m # i => \E j \in DOMAIN t : t[j] = inflights[m]
       /\ \A j1, j2 \in DOMAIN t : \E m1, m2 \in DOMAIN inflights :
             /\ m1 # i /\ m2 # i /\ t[j1] = inflights[m1] /\ t[j2] = inflights[m2]
             /\ m1 = m2 => j1 = j2
  BY <1>6, <1>7, RestIs
<1>22. \A j \in DOMAIN t : \E m \in DOMAIN inflights : m # i /\ t[j] = inflights[m]
  BY <1>21
<1>23. WaitingSound'
  <2> SUFFICES ASSUME NEW j \in DOMAIN t
               PROVE  /\ t[j].waiting # <<>>
                      /\ \A a \in DOMAIN t[j].waiting :
                            /\ req[t[j].waiting[a]].at = "busy" /\ OwnOk(req[t[j].waiting[a]])'
                            /\ WaitsOk(req[t[j].waiting[a]], t[j].key)'
    BY <1>1, <1>9 DEF WaitingSound
  <2>1. PICK m \in DOMAIN inflights : t[j] = inflights[m]
    BY <1>22
  <2>2. t[j].waiting # <<>>
    BY <2>1 DEF ReaderInv, WaitingSound
  <2>3. ASSUME NEW a \in DOMAIN t[j].waiting
        PROVE  /\ req[t[j].waiting[a]].at = "busy" /\ OwnOk(req[t[j].waiting[a]])'
               /\ WaitsOk(req[t[j].waiting[a]], t[j].key)'
    <3>1. PICK f, k : f = req[inflights[m].waiting[a]] /\ k = inflights[m].key
      OBVIOUS
    <3>2. a \in DOMAIN inflights[m].waiting
      BY <2>1, <2>3
    <3>3. f.at = "busy" /\ OwnOk(f) /\ WaitsOk(f, k)
      BY <3>1, <3>2 DEF ReaderInv, WaitingSound
    <3>4. OwnOk(f)' /\ WaitsOk(f, k)'
      BY <1>1, <3>3, OwnSame, WaitsSame
    <3> QED
      BY <1>1, <2>1, <3>1, <3>3, <3>4
  <2> QED
    BY <2>2, <2>3
<1>24. OnePlace'
  <2>1. \A m1 \in DOMAIN inflights : \A a \in DOMAIN inflights[m1].waiting :
          \A m2 \in DOMAIN inflights : \A b \in DOMAIN inflights[m2].waiting :
                inflights[m1].waiting[a] = inflights[m2].waiting[b] => m1 = m2 /\ a = b
    BY DEF ReaderInv, OnePlace
  <2>2. \A m \in DOMAIN inflights : \A a \in DOMAIN inflights[m].waiting : \A b \in DOMAIN w :
                inflights[m].waiting[a] = w[b] => m = i /\ a = b
    BY <1>6, <1>7, <2>1
  <2>3. \A a, b \in DOMAIN w : w[a] = w[b] => a = b
    BY <1>6, <1>7, <2>2
  <2>4. ASSUME NEW j \in DOMAIN t, NEW a \in DOMAIN t[j].waiting
        PROVE  /\ t[j].waiting[a] # q
               /\ \A k \in DOMAIN todo : t[j].waiting[a] # todo[k]
    <3>1. PICK m \in DOMAIN inflights : m # i /\ t[j] = inflights[m]
      BY <1>22
    <3>2. \A b \in DOMAIN w : t[j].waiting[a] # w[b]
      BY <2>2, <2>4, <3>1
    <3>3. 1 \in DOMAIN w
      BY <1>11
    <3> QED
      BY <1>13, <1>14, <3>2, <3>3
  <2>5. ASSUME NEW j1 \in DOMAIN t, NEW a \in DOMAIN t[j1].waiting,
               NEW j2 \in DOMAIN t, NEW b \in DOMAIN t[j2].waiting, t[j1].waiting[a] = t[j2].waiting[b]
        PROVE  j1 = j2 /\ a = b
    <3>1. PICK m1, m2 \in DOMAIN inflights :
             /\ t[j1] = inflights[m1] /\ t[j2] = inflights[m2] /\ (m1 = m2 => j1 = j2)
      BY <1>21
    <3> QED
      BY <2>1, <2>5, <3>1
  <2>6. ASSUME NEW k \in DOMAIN todo
        PROVE  todo[k] # q /\ \A m \in DOMAIN todo : todo[k] = todo[m] => k = m
    <3>1. k \in 1 .. n - 1 /\ k + 1 \in DOMAIN w /\ todo[k] = w[k + 1] /\ k + 1 # 1 /\ 1 \in DOMAIN w
      BY <1>11, <1>14
    <3>2. todo[k] # q
      BY <1>13, <2>3, <3>1
    <3>3. ASSUME NEW m \in DOMAIN todo, todo[k] = todo[m] PROVE k = m
      <4>1. m \in 1 .. n - 1 /\ m + 1 \in DOMAIN w /\ todo[m] = w[m + 1]
        BY <1>14
      <4>2. k + 1 = m + 1
        BY <2>3, <3>1, <3>3, <4>1
      <4> QED
        BY <3>1, <4>1, <4>2
    <3> QED
      BY <3>2, <3>3
  <2> QED
    <3>1. inflights' = t /\ thread'.q = q /\ thread'.todo = todo
      BY <1>9, <1>17
    <3>2. \A j \in DOMAIN t : \A a \in DOMAIN t[j].waiting :
              /\ t[j].waiting[a] # q
              /\ \A k \in DOMAIN todo : t[j].waiting[a] # todo[k]
              /\ \A m \in DOMAIN t : \A b \in DOMAIN t[m].waiting :
                    t[j].waiting[a] = t[m].waiting[b] => j = m /\ a = b
      BY <2>4, <2>5
    <3> QED
      BY <2>6, <3>1, <3>2 DEF OnePlace
<1>25. ReadsSound'
  <2>1. ReqKept
    BY <1>1 DEF ReqKept
  <2>2. \A x \in reads : ReadOk(x)'
    BY <1>1, <2>1, ReadOkKept DEF ReaderInv, ReadsSound
  <2>3. \A x \in reads : InFlight(x)
    BY DEF InFlight
  <2>4. \A x \in reads : /\ \E j \in DOMAIN inflights : inflights[j].key = x.key
                         /\ protocol = "owning" => x.key = <<"virt", x.virt>>
    BY <2>3 DEF ReaderInv, ReadsSound
  <2>5. ASSUME NEW x \in reads PROVE \E j \in DOMAIN t : t[j].key = x.key
    <3>1. PICK m \in DOMAIN inflights : inflights[m].key = x.key
      BY <2>4
    <3>2. m # i
      BY <1>3, <1>6, <3>1
    <3>3. PICK j \in DOMAIN t : t[j] = inflights[m]
      BY <1>21, <3>2
    <3> QED
      BY <3>1, <3>3
  <2>6. \A x : InFlight(x)' => x \in reads
    BY <1>1, <1>18 DEF InFlight
  <2>7. \A r1, r2 \in reads : r1.key = r2.key => r1 = r2
    BY DEF ReaderInv, ReadsSound
  <2>8. \A x \in reads' \cup {thread'.read} : InFlight(x)' =>
          /\ \E j \in DOMAIN inflights' : inflights'[j].key = x.key
          /\ protocol' = "owning" => x.key = <<"virt", x.virt>>
          /\ protocol' = "owning" => \A s \in ToSet(cache'.active) : cache'.slot[s].key # x.virt
    BY <1>1, <1>9, <2>4, <2>5, <2>6
  <2> QED
    BY <1>1, <1>18, <2>2, <2>7, <2>8 DEF ReadsSound
<1>26. FindsSound'
  BY <1>1, SharedSame DEF ReaderInv, FindsSound
<1>27. ReaderTypes'
  BY <1>1, <1>9, <1>17, <1>21 DEF ReaderInv, ReaderTypes
<1> QED
  BY <1>20, <1>23, <1>24, <1>25, <1>26, <1>27 DEF ReaderInv

LEMMA ReaderPreds ==
    ASSUME WriterInv, ReaderInv, NEW f \in ReqRec, NEW n, NEW x, HoldsAt(n, x), Live(f.version), count[Target(f)] = n
    PROVE  x = disk[Target(f)]
<1>1. f.version \in Nat
  BY DEF ReqRec
<1>2. PICK c \in Chunks : c = Target(f)
  BY <1>1, TargetFacts
<1> QED
  BY <1>2 DEF HoldsAt

\* What was read is cached and given to the finds that wait for it.
LEMMA InsertSameStep ==
    ASSUME WriterInv, ReaderInv, UNCHANGED <<shared, protocol, req, reads, tree, failed>>,
           thread.at = "insert", NEW r, r = thread.read, thread.virt = r.virt,
           cache' = CacheInsert(cache, r.virt, r.data), NotifyFinds(r.data, r.virt),
           hint' \in [0 .. 2 * MaxVersion -> 0 .. CacheSlots]
    PROVE  ReaderInv'
<1>1. IsCompleting
  BY DEF IsCompleting, Completing
<1>2. CompletingOk(r) /\ r \in ReadRec
  BY <1>1, CompletingFacts
<1>3. /\ r.key[1] \in {"virt", "version"} /\ protocol \in {"owning", "async"}
      /\ HoldsAt(r.virt, r.data) /\ (r.key[1] = "virt" => r.virt = r.key[2])
      /\ r.key[1] = "version" => (Live(r.key[2]) => r.virt = count[RootOf(r.key[2])])
  BY <1>2 DEF CompletingOk
<1>4. r.virt \in Nat /\ r.data \in Nodes /\ r.virt <= inserted
  BY <1>2 DEF ReadRec, ReaderInv, ThreadSound
<1>5. ASSUME NEW f \in ReqRec, WaitsOk(f, r.key), Live(f.version)
      PROVE  r.data = disk[Target(f)]
  <2>1. CASE r.key[1] = "virt"
    <3>1. count[Target(f)] = r.virt
      BY <1>3, <1>5, <2>1 DEF WaitsOk
    <3> QED
      BY <1>3, <1>5, <3>1, ReaderPreds
  <2>2. CASE r.key[1] = "version"
    <3>1. f.version = r.key[2] /\ f.root = Unwritten
      BY <1>5, <2>2 DEF WaitsOk
    <3>2. count[Target(f)] = r.virt
      BY <1>3, <1>5, <2>2, <3>1 DEF Target
    <3> QED
      BY <1>3, <1>5, <3>2, ReaderPreds
  <2> QED
    BY <1>3, <2>1, <2>2
<1>6. CacheOk(cache)
  BY DEF ReaderInv, ReaderTypes
<1>7. PICK d : d = CacheInsert(cache, r.virt, r.data)
  OBVIOUS
<1>8. InsertedInto(cache, r.virt, r.data, d)
  BY <1>4, <1>6, <1>7, InsertKeeps
<1>9. cache' = d /\ UNCHANGED shared
  BY <1>7
<1>10. CacheOk(cache)'
  BY <1>8, <1>9 DEF InsertedInto, CacheOk
<1>11. CacheHolds'
  <2> SUFFICES ASSUME NEW s \in Slots, d.slot[s].key # None
               PROVE  HoldsAt(d.slot[s].key, d.slot[s].val)'
    BY <1>9 DEF CacheHolds, Slots
  <2>1. PICK k, v : k = d.slot[s].key /\ v = d.slot[s].val
    OBVIOUS
  <2>2. EmptySlot.key = None
    BY DEF EmptySlot
  <2>3. \/ d.slot[s] = cache.slot[s] \/ d.slot[s] = EmptySlot
        \/ d.slot[s].key = r.virt /\ d.slot[s].val = r.data
    BY <1>8 DEF InsertedInto
  <2>4. HoldsAt(k, v)
    BY <1>3, <2>1, <2>2, <2>3 DEF ReaderInv, CacheHolds, Slots
  <2>5. HoldsAt(k, v)'
    BY <1>9, <2>4, SharedSame
  <2> QED
    BY <2>1, <2>5
<1>12. protocol = "owning" => \A x \in reads : \A s \in ToSet(cache'.active) : cache'.slot[s].key # x.virt
  <2> SUFFICES ASSUME protocol = "owning", NEW x \in reads, NEW s \in ToSet(d.active)
               PROVE  d.slot[s].key # x.virt
    BY <1>9
  <2>1. /\ x.key # r.key /\ InFlight(r) /\ InFlight(x)
    BY <1>1, CompletingFacts DEF InFlight
  <2>2. /\ x.key = <<"virt", x.virt>> /\ r.key = <<"virt", r.virt>>
        /\ \A u \in ToSet(cache.active) : cache.slot[u].key # x.virt
    BY <2>1 DEF ReaderInv, ReadsSound
  <2>3. x.virt # r.virt
    BY <2>1, <2>2
  <2>4. x.virt # None
    <3>1. x.key[1] = "virt"
      BY <2>2
    <3>2. IsOf(x.virt, x.off)
      BY <3>1 DEF ReaderInv, ReadsSound, ReadOk
    <3> QED
      BY <3>2, DoneType DEF IsOf, None
  <2>5. \/ d.slot[s].key \in {None, r.virt}
        \/ s \in ToSet(cache.active) /\ d.slot[s].key = cache.slot[s].key
    BY <1>8 DEF InsertedInto
  <2> QED
    BY <2>2, <2>3, <2>4, <2>5
<1>13. TreeRight' /\ failed' = {} /\ tree' \in [1 .. MaxVersion -> Nodes]
  BY <1>9, TreeKept DEF ReaderInv, ReaderTypes
<1>14. protocol # "blocking"
  BY <1>3
<1> QED
  BY <1>1, <1>4, <1>5, <1>10, <1>11, <1>12, <1>13, <1>14, NotifyStep

\* What was read is of no use: its chunk was freed.
LEMMA NotifyNoneStep ==
    ASSUME WriterInv, ReaderInv, UNCHANGED <<shared, protocol, req, reads, tree, failed, cache, hint>>,
           IsCompleting, protocol # "blocking", NotifyFinds(Unwritten, None),
           \A f \in ReqRec : WaitsOk(f, thread.read.key) => ~Live(f.version)
    PROVE  ReaderInv'
<1>1. UNCHANGED shared /\ cache' = cache /\ hint' = hint /\ tree' = tree /\ failed' = failed
  OBVIOUS
<1>2. CacheStep
  BY <1>1, CacheUnchanged
<1>3. CacheOk(cache)' /\ CacheHolds' /\ hint' \in [0 .. 2 * MaxVersion -> 0 .. CacheSlots]
  BY <1>2 DEF CacheStep
<1>4. \A x \in reads : protocol = "owning" => \A s \in ToSet(cache.active) : cache.slot[s].key # x.virt
  BY DEF ReaderInv, ReadsSound, InFlight
<1>5. TreeRight' /\ failed' = {} /\ tree' \in [1 .. MaxVersion -> Nodes]
  BY <1>1, TreeKept DEF ReaderInv, ReaderTypes
<1>6. Unwritten \in Nodes /\ None \in Nat /\ None <= inserted
  BY UnwrittenIsNode DEF WriterInv, WriterTypes, None
<1> QED
  BY <1>1, <1>3, <1>4, <1>5, <1>6, NotifyStep

LEMMA InsertStep ==
    ASSUME WriterInv, ReaderInv, Insert, clean'
    PROVE  ReaderInv'
<1>1. PICK r, virt, isRoot, same, s, fresh :
      /\ r = thread.read /\ virt = thread.virt /\ isRoot = (r.key[1] = "version") /\ same = (virt = r.virt)
      /\ s = Mapped(cache', virt)
      /\ fresh = IF virt = None THEN hint ELSE [hint EXCEPT ![virt] = None]
  OBVIOUS
<1>2. /\ thread.at = "insert" /\ UNCHANGED <<shared, protocol, req, reads, tree>>
      /\ (r.key[1] = "version" => virt = r.virt)
  BY <1>1 DEF Insert, At
<1>3. IF r.key[1] = "version" \/ virt = r.virt
      THEN /\ cache' = CacheInsert(cache, virt, r.data)
           /\ hint' = IF Len(r.key) = 3 THEN [fresh EXCEPT ![r.key[3]] = s] ELSE fresh
           /\ NotifyFinds(r.data, virt)
      ELSE NotifyFinds(Unwritten, None) /\ UNCHANGED <<cache, hint>>
  BY <1>1 DEF Insert
<1>4. failed' = failed
               \cup (IF r.key[1] = "version" /\ virt = None THEN {"inserted an invalid offset"} ELSE {})
               \cup (IF protocol = "owning" /\ virt = r.virt /\ Mapped(cache, r.virt) # None
                     THEN {"cached already"} ELSE {})
  BY <1>1 DEF Insert
<1>5. IsCompleting
  BY <1>2 DEF IsCompleting, Completing
<1>6. CompletingOk(r) /\ r \in ReadRec /\ InFlight(r)
  BY <1>1, <1>5, CompletingFacts
<1>7. /\ r.key[1] \in {"virt", "version"} /\ protocol \in {"owning", "async"}
      /\ HoldsAt(r.virt, r.data) /\ (r.key[1] = "virt" => r.virt = r.key[2])
      /\ InUse(r.virt) => virt = r.virt
  BY <1>1, <1>2, <1>6 DEF CompletingOk
<1>8. r.virt # None /\ r.virt \in Nat
  BY <1>7, DoneType DEF HoldsAt, None
<1>9. failed' = failed
  <2>1. ~(r.key[1] = "version" /\ virt = None)
    BY <1>2, <1>8
  <2>2. ASSUME protocol = "owning", Mapped(cache, r.virt) # None PROVE FALSE
    <3>1. \A u \in ToSet(cache.active) : cache.slot[u].key # r.virt
      BY <1>1, <1>6, <2>2 DEF ReaderInv, ReadsSound
    <3>2. CacheOk(cache)
      BY DEF ReaderInv, ReaderTypes
    <3>3. PICK u : u = Mapped(cache, r.virt)
      OBVIOUS
    <3>4. u \in ToSet(cache.active) /\ cache.slot[u].key = r.virt
      BY <2>2, <3>2, <3>3, MappedIs
    <3> QED
      BY <3>1, <3>4
  <2> QED
    BY <1>4, <2>1, <2>2
<1>10. CASE virt = r.virt
  <2>1. cache' = CacheInsert(cache, r.virt, r.data) /\ NotifyFinds(r.data, r.virt)
    BY <1>3, <1>10
  <2>2. CacheOk(cache')
    <3>1. CacheOk(cache) /\ r.data \in Nodes
      BY <1>6 DEF ReaderInv, ReaderTypes, ReadRec
    <3>2. InsertedInto(cache, r.virt, r.data, CacheInsert(cache, r.virt, r.data))
      BY <1>8, <3>1, InsertKeeps
    <3> QED
      BY <2>1, <3>2 DEF InsertedInto
  <2>3. s \in 0 .. CacheSlots
    BY <1>1, <2>2, MappedIs
  <2>4. hint \in [0 .. 2 * MaxVersion -> 0 .. CacheSlots] /\ None \in 0 .. CacheSlots
    BY ReadersAssumption DEF ReaderInv, ReaderTypes, None
  <2>5. fresh \in [0 .. 2 * MaxVersion -> 0 .. CacheSlots]
    BY <1>1, <2>4
  <2>6. hint' \in [0 .. 2 * MaxVersion -> 0 .. CacheSlots]
    BY <1>3, <1>10, <2>3, <2>5
  <2> QED
    BY <1>1, <1>2, <1>9, <1>10, <2>1, <2>6, InsertSameStep
<1>11. CASE virt # r.virt
  <2>1. NotifyFinds(Unwritten, None) /\ cache' = cache /\ hint' = hint /\ r.key[1] = "virt"
    BY <1>2, <1>3, <1>7, <1>11
  <2>2. ASSUME NEW f \in ReqRec, WaitsOk(f, thread.read.key) PROVE ~Live(f.version)
    <3>1. Live(f.version) => count[Target(f)] = r.virt
      BY <1>1, <1>7, <2>1, <2>2 DEF WaitsOk
    <3>2. f.version \in Nat
      BY DEF ReqRec
    <3>3. Live(f.version) => InUse(r.virt)
      BY <3>1, <3>2, TargetFacts DEF InUse
    <3> QED
      BY <1>7, <1>11, <3>3
  <2> QED
    BY <1>2, <1>5, <1>7, <1>9, <2>1, <2>2, NotifyNoneStep
<1> QED
  BY <1>10, <1>11

LEMMA DeliverStep ==
    ASSUME WriterInv, ReaderInv, Deliver
    PROVE  ReaderInv'
<1>1. PICK r, v, leaf :
      /\ r = thread.read /\ v = req[r.q].version
      /\ leaf = IF tree[v] = Unwritten THEN r.data ELSE tree[v]
  OBVIOUS
<1>2. /\ thread.at = "deliver" /\ UNCHANGED <<shared, protocol, req, reads, cache, hint, failed>>
      /\ IF protocol = "rw"
         THEN NotifyFinds(leaf, None) /\ tree' = [tree EXCEPT ![v] = leaf]
         ELSE NotifyFinds(Unwritten, None) /\ UNCHANGED tree
  BY <1>1 DEF Deliver, At
<1>3. IsCompleting
  BY <1>2 DEF IsCompleting, Completing
<1>4. CompletingOk(r) /\ r \in ReadRec
  BY <1>1, <1>3, CompletingFacts
<1>5. ReadOk(r) /\ r.landed /\ (protocol # "rw" => r.key[1] = "version" /\ ~Live(r.key[2]))
  BY <1>2, <1>4 DEF CompletingOk
<1>6. CASE protocol # "rw"
  <2>1. r.key[1] = "version" /\ ~Live(r.key[2]) /\ protocol = "async"
    BY <1>5, <1>6 DEF ReadOk
  <2>2. \A f \in ReqRec : WaitsOk(f, thread.read.key) => ~Live(f.version)
    BY <1>1, <2>1 DEF WaitsOk
  <2> QED
    BY <1>2, <1>3, <1>6, <2>1, <2>2, NotifyNoneStep
<1>7. CASE protocol = "rw"
  <2>1. r.key[1] = "off"
    <3>1. r.key[1] \in Tags
      BY <1>4, KeyTag DEF ReadRec
    <3> QED
      BY <1>5, <1>7, <3>1 DEF ReadOk, Tags
  <2>2. /\ r.off = r.key[2] /\ Live(v) /\ LeafOf(v) = r.key[2] /\ r.data = disk[r.off]
        /\ r.q \in Finds /\ req[r.q].at # "idle"
    BY <1>1, <1>5, <2>1 DEF ReadOk
  <2>3. v \in 1 .. newest
    BY <1>1, <2>2 DEF ReaderInv, FindsSound, FindOk
  <2>4. v \in Nat /\ v \in oldest .. newest /\ v \in 1 .. MaxVersion
    <3>1. newest \in Nat /\ oldest \in Nat /\ newest <= MaxVersion /\ MaxVersion \in Nat
      BY ReadersAssumption DEF WriterInv, WriterTypes
    <3>2. v \in Nat /\ v <= newest /\ v >= 1
      BY <2>3, <3>1
    <3>3. oldest <= v
      BY <2>2 DEF Live
    <3> QED
      BY <3>1, <3>2, <3>3
  <2>5. r.data = Leaf(truth[v]) /\ LeafOf(v) \in Chunks
    BY <2>2, <2>4, VersionsOk
  <2>6. leaf = Leaf(truth[v])
    BY <1>1, <2>4, <2>5 DEF ReaderInv, TreeRight
  <2>7. leaf \in Nodes /\ leaf = disk[LeafOf(v)]
    <3>1. disk[LeafOf(v)] \in Nodes
      BY <2>5 DEF WriterInv, WriterTypes
    <3> QED
      BY <2>2, <2>5, <2>6, <3>1
  <2>8. tree \in [1 .. MaxVersion -> Nodes] /\ tree' = [tree EXCEPT ![v] = leaf]
    BY <1>2, <1>7 DEF ReaderInv, ReaderTypes
  <2>9. tree' \in [1 .. MaxVersion -> Nodes]
    BY <2>7, <2>8
  <2>10. UNCHANGED shared /\ truth' = truth /\ newest' = newest
    BY <1>2, SharedSame
  <2>11. TreeRight'
    <3> SUFFICES ASSUME NEW u \in 1 .. MaxVersion, tree'[u] # Unwritten
                 PROVE  u <= newest' /\ tree'[u] = Leaf(truth'[u])
      BY DEF TreeRight
    <3>1. CASE u = v
      BY <2>3, <2>4, <2>6, <2>8, <2>10, <3>1
    <3>2. CASE u # v
      BY <2>8, <2>10, <3>2 DEF ReaderInv, TreeRight
    <3> QED
      BY <3>1, <3>2
  <2>12. ASSUME NEW f \in ReqRec, WaitsOk(f, thread.read.key), OwnOk(f) PROVE leaf = disk[Target(f)]
    <3>1. f.version \in Nat
      BY DEF ReqRec
    <3>2. LeafOf(f.version) = r.key[2]
      BY <1>1, <2>1, <2>12 DEF WaitsOk
    <3>3. Target(f) = LeafOf(f.version)
      BY <1>7, <2>12, <3>1, OwnLeaf
    <3> QED
      BY <2>2, <2>7, <3>2, <3>3
  <2>13. CacheStep
    BY <1>2, CacheUnchanged
  <2>14. CacheOk(cache)' /\ CacheHolds' /\ hint' \in [0 .. 2 * MaxVersion -> 0 .. CacheSlots]
    BY <2>13 DEF CacheStep
  <2>15. failed' = {}
    BY <1>2 DEF ReaderInv
  <2>16. None \in Nat /\ None <= inserted
    BY DEF WriterInv, WriterTypes, None
  <2> QED
    BY <1>2, <1>3, <1>7, <2>7, <2>9, <2>11, <2>12, <2>14, <2>15, <2>16, NotifyStep
<1> QED
  BY <1>6, <1>7

-----------------------------------------------------------------------------
(* The invariant. *)
LEMMA ReaderInit ==
    ASSUME ReadersInit
    PROVE  ReaderInv
<1>1. WriterInv
  BY WriterInit
<1>2. /\ protocol \in Protocols /\ req = [q \in Finds |-> ReqIdle] /\ thread = ThreadIdle
      /\ reads = {} /\ inflights = <<>> /\ cache = EmptyCache
      /\ hint = [v \in 0 .. 2 * MaxVersion |-> None]
      /\ tree = [v \in 1 .. MaxVersion |-> Unwritten] /\ failed = {} /\ inserted = 0
  BY DEF ReadersInit
<1>3. 0 \in 0 .. NumChunks /\ 0 \in 0 .. CacheSlots /\ CacheSlots \in Nat \ {0}
  BY ReadersAssumption
<1>4. ReqIdle \in ReqRec /\ ReqIdle.at = "idle" /\ ReqIdle.result = "none" /\ ReqIdle.virt = 0 /\ ReqIdle.rootVirt = 0
  BY <1>3, UnwrittenIsNode DEF ReqIdle, ReqRec, None
<1>5. ThreadIdle \in ThreadRec /\ ThreadIdle.at = "idle" /\ ThreadIdle.todo = <<>> /\ ThreadIdle.virt = 0
  BY NoReadType DEF ThreadIdle, ThreadRec, None
<1>6. CacheOk(EmptyCache) /\ \A s \in 1 .. CacheSlots : EmptyCache.slot[s].key = None
  <2>1. EmptySlot \in SlotRec /\ EmptySlot.key = None
    BY UnwrittenIsNode DEF EmptySlot, SlotRec, None
  <2>2. PICK free : free = [s \in 1 .. CacheSlots |-> s]
    OBVIOUS
  <2>3. free \in Seq(1 .. CacheSlots) /\ free # <<>>
    <3>1. PICK n \in Nat : n = CacheSlots /\ n # 0
      BY <1>3
    <3>2. free \in [1 .. n -> 1 .. CacheSlots] /\ DOMAIN free = 1 .. n
      BY <2>2, <3>1
    <3>3. free \in UNION {[1 .. k -> 1 .. CacheSlots] : k \in Nat}
      BY <3>2, Zenon
    <3>4. Seq(1 .. CacheSlots) = UNION {[1 .. k -> 1 .. CacheSlots] : k \in Nat}
      BY SeqDef, Zenon
    <3>5. 1 \in DOMAIN free
      BY <3>1, <3>2
    <3> QED
      BY <3>3, <3>4, <3>5
  <2>4. PICK slot : slot = [s \in 1 .. CacheSlots |-> EmptySlot]
    OBVIOUS
  <2>5. slot \in [1 .. CacheSlots -> SlotRec] /\ \A s \in 1 .. CacheSlots : slot[s].key = None
    BY <2>1, <2>4
  <2>6. EmptyCache = [slot |-> slot, active |-> <<>>, free |-> free, used |-> 0]
    BY <2>2, <2>4 DEF EmptyCache
  <2> QED
    BY <2>3, <2>5, <2>6 DEF CacheOk
<1>7. ReaderTypes
  <2>1. protocol \in {"blocking", "owning", "async", "rw"}
    BY <1>2, ReadersAssumption
  <2>2. req \in [Finds -> ReqRec] /\ thread \in ThreadRec /\ reads \subseteq ReadRec /\ inflights \in Seq(InflightRec)
    BY <1>2, <1>4, <1>5
  <2>3. hint \in [0 .. 2 * MaxVersion -> 0 .. CacheSlots] /\ tree \in [1 .. MaxVersion -> Nodes]
    BY <1>2, <1>3, UnwrittenIsNode DEF None
  <2> QED
    BY <1>2, <1>6, <2>1, <2>2, <2>3 DEF ReaderTypes
<1>8. FindsSound
  <2>1. FindOk(ReqIdle)
    BY <1>2, <1>4 DEF FindOk
  <2> QED
    BY <1>2, <2>1 DEF FindsSound
<1>9. ~IsCompleting /\ ~IsHandling
  BY <1>2, <1>5 DEF IsCompleting, IsHandling, Completing, Handling
<1>10. ReadsSound
  BY <1>2, <1>9 DEF ReadsSound, InFlight
<1>11. DOMAIN inflights = {} /\ DOMAIN thread.todo = {}
  BY <1>2, <1>5
<1>12. WaitingSound /\ OnePlace
  BY <1>11 DEF WaitingSound, OnePlace
<1>13. ThreadSound
  BY <1>2, <1>5, <1>9, <1>11 DEF ThreadSound
<1>14. CacheHolds /\ TreeRight
  BY <1>2, <1>6 DEF CacheHolds, TreeRight
<1> QED
  BY <1>2, <1>7, <1>8, <1>10, <1>12, <1>13, <1>14 DEF ReaderInv

LEMMA ReaderUnchanged ==
    ASSUME WriterInv, ReaderInv, UNCHANGED readersVars
    PROVE  ReaderInv'
<1>1. /\ protocol' = protocol /\ req' = req /\ inflights' = inflights /\ tree' = tree /\ reads' = reads
      /\ failed' = failed /\ UNCHANGED shared /\ cache' = cache /\ hint' = hint /\ thread' = thread
  BY DEF readersVars, local
<1>2. FindsSound' /\ WaitingSound' /\ CacheHolds' /\ TreeRight' /\ failed' = {} /\ CacheStep /\ ReqKept
  BY <1>1, RestKept
<1>3. (IsCompleting' <=> IsCompleting) /\ (IsHandling' <=> IsHandling)
  BY <1>1 DEF IsCompleting, IsHandling
<1>4. OnePlace'
  BY <1>1, <1>3 DEF ReaderInv, OnePlace
<1>5. ReaderTypes'
  BY <1>1 DEF ReaderInv, ReaderTypes, CacheOk
<1>6. ThreadSound'
  BY <1>1, ThreadKept
<1>7. ReadsSound'
  <2>1. \A x \in reads : ReadOk(x)'
    BY <1>1, <1>2, ReadOkKept DEF ReaderInv, ReadsSound
  <2>2. IsCompleting => CompletingOk(thread.read)'
    BY <1>1, <1>2, <1>3, SharedSame, ReadOkKept DEF ReaderInv, ReadsSound, CompletingOk
  <2>3. \A y : InFlight(y)' <=> InFlight(y)
    BY <1>1, <1>3 DEF InFlight
  <2> QED
    BY <1>1, <1>3, <2>1, <2>2, <2>3 DEF ReaderInv, ReadsSound
<1> QED
  BY <1>2, <1>4, <1>5, <1>6, <1>7 DEF ReaderInv

LEMMA ReaderKeeps ==
    ASSUME WriterInv, ReaderInv, ReaderStep, clean'
    PROVE  ReaderInv'
<1>1. CASE ReadSlot
  BY <1>1, ReadSlotStep
<1>2. CASE ReadBound
  BY <1>2, ReadBoundStep
<1>3. CASE Translate
  BY <1>3, TranslateStep
<1>4. CASE Validate
  BY <1>4, ValidateStep
<1>5. CASE Lookup
  BY <1>5, LookupStep
<1>6. CASE Enter
  BY <1>6, EnterStep
<1>7. CASE BlockingBefore
  BY <1>7, BeforeStep
<1>8. CASE BlockingPread
  BY <1>8, PreadStep
<1>9. CASE BlockingAfter
  BY <1>9, AfterStep
<1>10. CASE FindOwn
  BY <1>10, FindOwnStep
<1>11. CASE BeginComplete
  BY <1>11, BeginCompleteStep
<1>12. CASE StillValid
  BY <1>12, StillValidStep
<1>13. CASE Retranslate
  BY <1>13, RetranslateStep
<1>14. CASE Insert
  BY <1>14, InsertStep
<1>15. CASE Deliver
  BY <1>15, DeliverStep
<1>16. CASE Resume
  BY <1>16, ResumeStep
<1> QED
  BY <1>1, <1>2, <1>3, <1>4, <1>5, <1>6, <1>7, <1>8, <1>9, <1>10, <1>11, <1>12, <1>13, <1>14,
     <1>15, <1>16 DEF ReaderStep

\* The reader changes nothing that is shared, and a root cached too late stays cached.
LEMMA ReaderLeaves ==
    ASSUME ReaderStep
    PROVE  UNCHANGED shared /\ (clean' => clean)
<1>1. CASE ReadSlot
  <2>1. UNCHANGED shared
    BY <1>1 DEF ReadSlot, At
  <2>2. clean' = clean
    BY <1>1 DEF ReadSlot
  <2> QED
    BY <2>1, <2>2, Zenon
<1>2. CASE ReadBound
  <2>1. UNCHANGED shared
    BY <1>2 DEF ReadBound, At
  <2>2. clean' = clean
    BY <1>2 DEF ReadBound
  <2> QED
    BY <2>1, <2>2, Zenon
<1>3. CASE Translate
  <2>1. UNCHANGED shared
    BY <1>3 DEF Translate, At
  <2>2. clean' = clean
    BY <1>3 DEF Translate
  <2> QED
    BY <2>1, <2>2, Zenon
<1>4. CASE Validate
  <2>1. UNCHANGED shared
    BY <1>4 DEF Validate, At
  <2>2. clean' = clean
    BY <1>4 DEF Validate
  <2> QED
    BY <2>1, <2>2, Zenon
<1>5. CASE Lookup
  <2>1. UNCHANGED shared
    BY <1>5 DEF Lookup, At
  <2>2. clean' = clean
    BY <1>5 DEF Lookup
  <2> QED
    BY <2>1, <2>2, Zenon
<1>6. CASE Enter
  <2>1. UNCHANGED shared
    BY <1>6 DEF Enter, At
  <2>2. clean' = clean
    BY <1>6 DEF Enter
  <2> QED
    BY <2>1, <2>2, Zenon
<1>7. CASE BlockingBefore
  <2>1. UNCHANGED shared
    BY <1>7 DEF BlockingBefore, At
  <2>2. clean' = clean
    BY <1>7 DEF BlockingBefore
  <2> QED
    BY <2>1, <2>2, Zenon
<1>8. CASE BlockingPread
  <2>1. UNCHANGED shared
    BY <1>8 DEF BlockingPread, At
  <2>2. clean' = clean
    BY <1>8 DEF BlockingPread
  <2> QED
    BY <2>1, <2>2, Zenon
<1>9. CASE BlockingAfter
  <2>1. UNCHANGED shared
    BY <1>9 DEF BlockingAfter, At
  <2>2. clean' = clean
    BY <1>9 DEF BlockingAfter
  <2> QED
    BY <2>1, <2>2, Zenon
<1>10. CASE FindOwn
  <2>1. UNCHANGED shared
    BY <1>10 DEF FindOwn, At
  <2>2. clean' = clean
    BY <1>10 DEF FindOwn
  <2> QED
    BY <2>1, <2>2, Zenon
<1>11. CASE BeginComplete
  <2>1. UNCHANGED shared
    BY <1>11 DEF BeginComplete, At
  <2>2. clean' = clean
    BY <1>11 DEF BeginComplete
  <2> QED
    BY <2>1, <2>2, Zenon
<1>12. CASE StillValid
  <2>1. UNCHANGED shared
    BY <1>12 DEF StillValid, At
  <2>2. clean' = clean
    BY <1>12 DEF StillValid
  <2> QED
    BY <2>1, <2>2, Zenon
<1>13. CASE Retranslate
  <2>1. UNCHANGED shared
    BY <1>13 DEF Retranslate, At
  <2>2. clean' = clean
    BY <1>13 DEF Retranslate
  <2> QED
    BY <2>1, <2>2, Zenon
<1>14. CASE Insert
  <2>1. UNCHANGED shared
    BY <1>14 DEF Insert, At
  <2>2. clean' = (clean /\ (thread.read.key[1] = "version" => thread.virt = thread.read.virt))
    BY <1>14 DEF Insert
  <2> QED
    BY <2>1, <2>2, Zenon
<1>15. CASE Deliver
  <2>1. UNCHANGED shared
    BY <1>15 DEF Deliver, At
  <2>2. clean' = clean
    BY <1>15 DEF Deliver
  <2> QED
    BY <2>1, <2>2, Zenon
<1>16. CASE Resume
  <2>1. UNCHANGED shared
    BY <1>16 DEF Resume, At
  <2>2. clean' = clean
    BY <1>16 DEF Resume
  <2> QED
    BY <2>1, <2>2, Zenon
<1> QED
  BY <1>1, <1>2, <1>3, <1>4, <1>5, <1>6, <1>7, <1>8, <1>9, <1>10, <1>11, <1>12, <1>13,
     <1>14, <1>15, <1>16, Zenon DEF ReaderStep

LEMMA WriterAlone ==
    ASSUME WriterNext
    PROVE  UNCHANGED local /\ NoOwnFinds
BY DEF WriterNext, BeginUpdate, Erase, Free, DestroyContents, AppendChunk, WriteNode, PushRoot, Planned

\* The invariant holds of every state.
LEMMA ReadersInvariant == ReadersSpec => []ReadersInv
<1>1. ReadersInit => ReadersInv
  BY WriterInit, ReaderInit DEF ReadersInv
<1>2. ReadersInv /\ [ReadersNext]_readersVars => ReadersInv'
  <2> SUFFICES ASSUME ReadersInv, [ReadersNext]_readersVars PROVE ReadersInv'
    OBVIOUS
  <2>0. WriterInv
    BY DEF ReadersInv
  <2>1. CASE WriterNext
    <3>1. WriterInv' /\ Steady
      BY <2>0, <2>1, WriterKeeps
    <3>2. UNCHANGED local /\ NoOwnFinds
      BY <2>1, WriterAlone
    <3>3. clean' = clean
      BY <3>2 DEF local
    <3>4. ASSUME clean PROVE ReaderInv'
      <4>1. ReaderInv
        BY <3>4 DEF ReadersInv
      <4> QED
        BY <2>0, <3>1, <3>2, <4>1, ReaderUnderWriter
    <3> QED
      BY <3>1, <3>3, <3>4 DEF ReadersInv
  <2>2. ASSUME NEW q \in Finds, NEW v \in 1 .. MaxVersion, BeginFind(q, v) PROVE ReadersInv'
    <3>1. UNCHANGED shared /\ clean' = clean
      BY <2>2 DEF BeginFind, At
    <3>2. WriterInv'
      BY <2>0, <3>1, WriterUnchanged
    <3>3. ASSUME clean PROVE ReaderInv'
      <4>1. ReaderInv
        BY <3>3 DEF ReadersInv
      <4> QED
        BY <2>0, <2>2, <4>1, BeginFindStep
    <3> QED
      BY <3>1, <3>2, <3>3 DEF ReadersInv
  <2>3. CASE ReaderStep
    <3>1. UNCHANGED shared /\ (clean' => clean)
      BY <2>3, ReaderLeaves
    <3>2. WriterInv'
      BY <2>0, <3>1, WriterUnchanged
    <3>3. ASSUME clean' PROVE ReaderInv'
      <4>1. ReaderInv
        BY <3>1, <3>3 DEF ReadersInv
      <4> QED
        BY <2>0, <2>3, <3>3, <4>1, ReaderKeeps
    <3> QED
      BY <3>2, <3>3 DEF ReadersInv
  <2>4. CASE DeviceRead
    <3>1. UNCHANGED shared /\ clean' = clean
      BY <2>4 DEF DeviceRead
    <3>2. WriterInv'
      BY <2>0, <3>1, WriterUnchanged
    <3>3. ASSUME clean PROVE ReaderInv'
      <4>1. ReaderInv
        BY <3>3 DEF ReadersInv
      <4> QED
        BY <2>0, <2>4, <4>1, DeviceReadStep
    <3> QED
      BY <3>1, <3>2, <3>3 DEF ReadersInv
  <2>5. CASE UNCHANGED readersVars
    <3>1. UNCHANGED shared /\ clean' = clean
      BY <2>5 DEF readersVars, local
    <3>2. WriterInv'
      BY <2>0, <3>1, WriterUnchanged
    <3>3. ASSUME clean PROVE ReaderInv'
      <4>1. ReaderInv
        BY <3>3 DEF ReadersInv
      <4> QED
        BY <2>0, <2>5, <4>1, ReaderUnchanged
    <3> QED
      BY <3>1, <3>2, <3>3 DEF ReadersInv
  <2> QED
    BY <2>1, <2>2, <2>3, <2>4, <2>5 DEF ReadersNext
<1> QED
  BY <1>1, <1>2, PTL DEF ReadersSpec

\* A find that succeeds has the value of its version, and one that says its version is gone is
\* right, for all four protocols, while the writer frees and writes chunks between any two
\* steps of a find, unless a root was cached after its version was gone.
THEOREM AnswersRightAlways == ReadersSpec => []AnswersRight
<1>1. ReadersInv => AnswersRight
  <2> SUFFICES ASSUME WriterInv, ReaderInv, clean PROVE AnswersRight
    BY DEF ReadersInv, AnswersRight, FindCorrect, GoneIsGone
  <2>1. ASSUME NEW q \in Finds
        PROVE  /\ req[q].result = "success" => req[q].leaf = Leaf(truth[req[q].version])
               /\ req[q].result = "gone" => ~IsValid(req[q].version)
    <3>1. FindOk(req[q]) /\ req[q].version \in Nat
      BY DEF ReaderInv, FindsSound, ReaderTypes, ReqRec
    <3>2. IsValid(req[q].version) <=> Live(req[q].version)
      BY <3>1, ValidIsLive
    <3> QED
      BY <3>1, <3>2 DEF FindOk
  <2> QED
    BY <2>1 DEF AnswersRight, FindCorrect, GoneIsGone, Outcome
<1> QED
  BY <1>1, ReadersInvariant, PTL

\* What is cached under a virtual offset in use is what the writer wrote there, and no
\* assertion of the receivers fails: what was read was not cached meanwhile.
THEOREM CacheSoundAlways == ReadersSpec => [](CacheSound /\ ReadersNoFault)
<1>1. ReadersInv => CacheSound /\ ReadersNoFault
  <2> SUFFICES ASSUME WriterInv, ReaderInv, clean PROVE CacheSound /\ failed = {}
    BY DEF ReadersInv, CacheSound, ReadersNoFault
  <2>1. ASSUME NEW s \in ToSet(cache.active), NEW c \in Chunks, count[c] # 0, cache.slot[s].key = count[c]
        PROVE  cache.slot[s].val = disk[c]
    <3>1. cache.active \in Seq(Slots)
      BY DEF ReaderInv, ReaderTypes, CacheOk, Slots
    <3>2. s \in Slots
      BY <3>1, ElementOfSeq, LenProperties DEF ToSet
    <3>3. HoldsAt(count[c], cache.slot[s].val)
      BY <2>1, <3>2 DEF ReaderInv, CacheHolds, Slots, None
    <3> QED
      BY <3>3 DEF HoldsAt
  <2> QED
    BY <2>1 DEF CacheSound, ReaderInv
<1> QED
  BY <1>1, ReadersInvariant, PTL
=============================================================================
