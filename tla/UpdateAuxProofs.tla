-------------------------- MODULE UpdateAuxProofs --------------------------
(***************************************************************************)
(* Theorems about UpdateAux, for every value of the constants.             *)
(*                                                                         *)
(* The first is CleanCopy: whatever the operations, and however often the  *)
(* process dies, set_io finds a clean copy to heal the other from.  The    *)
(* others are about what the two copies record when no process dies.       *)
(***************************************************************************)
EXTENDS UpdateAux, TLAPS

\* The bits the proof is about keep their types.
BitTypes ==
    /\ dirty \in [0 .. 1 -> BOOLEAN]
    /\ magic \in [0 .. 1 -> BOOLEAN]
    /\ side \in 0 .. 1

\* The copies are changed one after the other: the one whose turn it is may be
\* dirty, and only inside a primitive.
OneAtATime ==
    /\ ~dirty[1 - side]
    /\ dirty[side] => todo # <<>> /\ Head(todo).op \in PrimOps

BothMagic == magic[0] /\ magic[1]

\* The inductive invariant behind CleanCopy, by the phase the process is in
DirtyInv ==
    /\ BitTypes
    /\ CleanCopy
    /\ pc = "attach" /\ BothMagic => ~dirty[0] /\ ~dirty[1]
    /\ pc = "creating" => OneAtATime
    /\ pc = "open" /\ BothMagic => OneAtATime

----------------------------------------------------------------------------

\* The bits of a process that neither touches them nor is inside a primitive
BitsKept == UNCHANGED <<dirty, magic, side>>

\* A step of an open database outside the primitives leaves the bits alone: what
\* it appends to the program cannot find a copy dirty.
LEMMA OutsidePrimitives ==
    ASSUME DirtyInv, pc = "open", pc' = "open", BitsKept,
           todo = <<>> \/ Head(todo).op \notin PrimOps
    PROVE  DirtyInv'
<1>1. BitTypes' /\ CleanCopy'
  BY DEF DirtyInv, BitTypes, CleanCopy, BitsKept
<1>2. BothMagic => ~dirty[side] /\ ~dirty[1 - side]
  BY DEF DirtyInv, OneAtATime
<1>3. BothMagic' => OneAtATime'
  BY <1>2 DEF BothMagic, OneAtATime, BitsKept
<1> QED
  BY <1>1, <1>3 DEF DirtyInv

\* The process is gone: at most one copy is left dirty.
LEMMA ProcessGone ==
    ASSUME DirtyInv, Exit, UNCHANGED <<dirty, magic>>
    PROVE  DirtyInv'
<1>1. BitTypes'
  BY DEF DirtyInv, BitTypes, Exit
<1>2. CleanCopy'
  BY DEF DirtyInv, CleanCopy
<1> QED
  BY <1>1, <1>2 DEF DirtyInv, Exit

\* A failed assertion ends the process.
LEMMA AbortStep ==
    ASSUME DirtyInv, NEW why, Abort(why)
    PROVE  DirtyInv'
BY ProcessGone DEF Abort

\* A point of an open database where the code reads and decides what comes next
LEMMA ContinueStep ==
    ASSUME DirtyInv, NEW program, Continue(program), pc = "open",
           Head(todo).op \notin PrimOps
    PROVE  DirtyInv'
BY OutsidePrimitives DEF Continue, volatile, BitsKept

\* set_io copies one copy of the metadata over the other.
LEMMA DbCopyStep ==
    ASSUME DirtyInv, pc \in {"heal_magic", "heal_dirty"}, NEW dst \in 0 .. 1,
           DbCopyOnto(dst)
    PROVE  DirtyInv'
<1>1. CASE dirty[1 - dst]
  BY <1>1, AbortStep DEF DbCopyOnto
<1>2. CASE ~dirty[1 - dst]
  <2>1. /\ dirty' = [dirty EXCEPT ![dst] = ~@]
        /\ magic' = magic \/ magic' = [magic EXCEPT ![dst] = magic[1 - dst]]
        /\ pc' = pc /\ side' = side
    BY <1>2 DEF DbCopyOnto, volatile
  <2>2. BitTypes'
    BY <2>1 DEF DirtyInv, BitTypes
  <2>3. ~dirty'[1 - dst]
    BY <1>2, <2>1 DEF DirtyInv, BitTypes
  <2>4. CleanCopy'
    BY <2>3 DEF CleanCopy
  <2> QED
    BY <2>1, <2>2, <2>4 DEF DirtyInv
<1> QED
  BY <1>1, <1>2

\* Every copy is clean to begin with.
LEMMA DirtyInvInit ==
    ASSUME Init PROVE DirtyInv
BY DEF Init, DirtyInv, BitTypes, CleanCopy

\* A primitive marks a copy dirty, changes it and marks it clean again, and only
\* then turns to the other copy.
LEMMA PrimitiveStep ==
    ASSUME DirtyInv, HoldDirty \/ RunPrim
    PROVE  DirtyInv'
<1>1. /\ pc \in {"creating", "open"} /\ todo # <<>> /\ Head(todo).op \in PrimOps
      /\ magic' = magic /\ BitTypes
  BY DEF HoldDirty, RunPrim, InPrim, item, Abort, DirtyInv
<1>2. CASE HoldDirty
  <2>1. /\ dirty' = [dirty EXCEPT ![side] = TRUE]
        /\ pc' = pc /\ side' = side /\ todo' = todo
    BY <1>2 DEF HoldDirty, volatile
  <2>2. BitTypes'
    BY <1>1, <2>1 DEF BitTypes
  <2>3. pc = "creating" \/ BothMagic => ~dirty'[1 - side]
    BY <1>1, <2>1 DEF DirtyInv, OneAtATime, BitTypes
  <2>4. pc = "creating" \/ BothMagic => OneAtATime'
    BY <1>1, <2>1, <2>3 DEF OneAtATime
  <2>5. CleanCopy'
    BY <1>1, <2>2, <2>3 DEF CleanCopy, BothMagic, BitTypes
  <2> QED
    BY <1>1, <2>1, <2>2, <2>4, <2>5 DEF DirtyInv, BothMagic
<1>3. CASE RunPrim /\ PrimAssert(item, copies[side])
  <2>1. /\ dirty' = [dirty EXCEPT ![side] = FALSE]
        /\ pc' = pc /\ side' = 1 - side
    BY <1>3 DEF RunPrim
  <2>2. BitTypes'
    BY <1>1, <2>1 DEF BitTypes
  <2>3. pc = "creating" \/ BothMagic => ~dirty'[1 - side]
    BY <1>1, <2>1 DEF DirtyInv, OneAtATime, BitTypes
  <2>4. ~dirty'[side]
    BY <1>1, <2>1 DEF BitTypes
  <2>5. 1 - (1 - side) = side
    BY <1>1 DEF BitTypes
  <2>6. pc = "creating" \/ BothMagic => OneAtATime'
    BY <2>1, <2>3, <2>4, <2>5 DEF OneAtATime
  <2>7. CleanCopy'
    BY <1>1, <2>4 DEF CleanCopy, BitTypes
  <2> QED
    BY <1>1, <2>1, <2>2, <2>6, <2>7 DEF DirtyInv, BothMagic
<1>4. CASE RunPrim /\ ~PrimAssert(item, copies[side])
  BY <1>4, AbortStep DEF RunPrim
<1> QED
  BY <1>2, <1>3, <1>4

\* The phases of set_io
LEMMA SetIoStep ==
    ASSUME DirtyInv, HealMagic \/ HealDirty \/ UseTorn \/ Attach \/ WriteMagic
    PROVE  DirtyInv'
<1>1. CASE HealMagic
  <2>1. CASE ~magic[0] /\ magic[1]
    BY <1>1, <2>1, DbCopyStep DEF HealMagic
  <2>2. CASE ~(~magic[0] /\ magic[1])
    BY <1>1, <2>2 DEF HealMagic, GoTo, DirtyInv, BitTypes, CleanCopy
  <2> QED
    BY <2>1, <2>2
<1>2. CASE HealDirty
  <2>1. CASE BothMagic /\ dirty[0]
    BY <1>2, <2>1, DbCopyStep DEF HealDirty, BothMagic
  <2>2. CASE BothMagic /\ ~dirty[0] /\ dirty[1]
    BY <1>2, <2>2, DbCopyStep DEF HealDirty, BothMagic
  <2>3. CASE ~BothMagic \/ (~dirty[0] /\ ~dirty[1])
    <3>1. GoTo("attach")
      BY <1>2, <2>3 DEF HealDirty, BothMagic
    <3> QED
      BY <2>3, <3>1 DEF GoTo, DirtyInv, BitTypes, CleanCopy, BothMagic
  <2> QED
    BY <2>1, <2>2, <2>3
<1>3. CASE Attach
  <2>1. CASE ~magic[0] /\ \E c \in Chunks : disk[c] # <<>>
    BY <1>3, <2>1, AbortStep DEF Attach
  <2>2. CASE ~(~magic[0] /\ \E c \in Chunks : disk[c] # <<>>)
    <3>1. /\ magic' = magic /\ side' = side /\ pc = "attach"
          /\ pc' = IF magic[0] THEN "open" ELSE "creating"
          /\ (dirty' = dirty /\ magic[0]) \/ dirty' = [i \in 0 .. 1 |-> FALSE]
      BY <1>3, <2>2 DEF Attach
    <3>2. BitTypes'
      BY <3>1 DEF DirtyInv, BitTypes
    <3>3. BothMagic \/ ~magic[0] => ~dirty'[0] /\ ~dirty'[1]
      BY <3>1 DEF DirtyInv, BothMagic
    <3>4. BothMagic \/ ~magic[0] => OneAtATime'
      BY <3>1, <3>2, <3>3 DEF OneAtATime, BitTypes
    <3> QED
      BY <3>1, <3>2, <3>3, <3>4 DEF DirtyInv, CleanCopy, BothMagic
  <2> QED
    BY <2>1, <2>2
<1>4. CASE WriteMagic
  <2>1. /\ dirty' = dirty /\ side' = side /\ pc = "creating"
        /\ pc' \in {"creating", "open"} /\ Head(todo).op = "magic"
        /\ magic' = [magic EXCEPT ![item.i] = TRUE]
    BY <1>4 DEF WriteMagic, item
  <2>2. BitTypes'
    BY <2>1 DEF DirtyInv, BitTypes
  <2>3. ~dirty[side] /\ ~dirty[1 - side]
    BY <2>1 DEF DirtyInv, OneAtATime, PrimOps
  <2>4. OneAtATime'
    BY <2>1, <2>3 DEF OneAtATime
  <2>5. CleanCopy'
    BY <2>1, <2>2, <2>3 DEF CleanCopy, BitTypes
  <2> QED
    BY <2>1, <2>2, <2>4, <2>5 DEF DirtyInv
<1>5. CASE UseTorn
  BY <1>5, AbortStep DEF UseTorn
<1> QED
  BY <1>1, <1>2, <1>3, <1>4, <1>5

\* An item of an open database that is no primitive, and either leaves the bits
\* alone or ends the process
LEMMA ItemStep ==
    ASSUME DirtyInv, NEW op, op \notin PrimOps, Doing(op),
           \/ \E program : Continue(program)
           \/ \E why : Abort(why)
           \/ pc' = pc /\ BitsKept
    PROVE  DirtyInv'
<1>1. pc = "open" /\ Head(todo).op \notin PrimOps
  BY DEF Doing, item
<1>2. CASE \E program : Continue(program)
  BY <1>1, <1>2, ContinueStep
<1>3. CASE \E why : Abort(why)
  BY <1>3, AbortStep
<1>4. CASE pc' = pc /\ BitsKept
  BY <1>1, <1>4, OutsidePrimitives
<1> QED
  BY <1>2, <1>3, <1>4

\* The items of opening a database and rewinding it
LEMMA OpeningStep ==
    ASSUME DirtyInv, MatchOffsets \/ ShortenTo \/ RewindOnOpen \/ PastRoot \/ FreeWip
    PROVE  DirtyInv'
<1>1. CASE MatchOffsets
  BY <1>1, ItemStep DEF MatchOffsets, PrimOps
<1>2. CASE ShortenTo
  BY <1>2, ItemStep DEF ShortenTo, PrimOps
<1>3. CASE RewindOnOpen
  BY <1>3, ItemStep DEF RewindOnOpen, Reading, PrimOps
<1>4. CASE FreeWip
  BY <1>4, ItemStep DEF FreeWip, PrimOps
<1>5. CASE PastRoot
  BY <1>5, ItemStep DEF PastRoot, PrimOps
<1> QED
  BY <1>1, <1>2, <1>3, <1>4, <1>5

\* The items that erase versions and free chunks
LEMMA HistoryStep ==
    ASSUME DirtyInv,
           \/ EraseUpTo \/ ReleaseUnreferencedChunks \/ FreeCompacted
           \/ AdjustHistoryLength \/ ShortenHistory \/ EraseOutdated \/ ErasedOutdated
           \/ HistoryRangeFails
    PROVE  DirtyInv'
<1>1. CASE EraseUpTo
  BY <1>1, ItemStep DEF EraseUpTo, Reading, PrimOps
<1>2. CASE ReleaseUnreferencedChunks
  BY <1>2, ItemStep DEF ReleaseUnreferencedChunks, Reading, PrimOps
<1>3. CASE FreeCompacted
  BY <1>3, ItemStep DEF FreeCompacted, PrimOps
<1>4. CASE AdjustHistoryLength
  BY <1>4, ItemStep DEF AdjustHistoryLength, Reading, PrimOps
<1>5. CASE ShortenHistory
  BY <1>5, ItemStep DEF ShortenHistory, Reading, PrimOps
<1>6. CASE EraseOutdated
  BY <1>6, ItemStep DEF EraseOutdated, Reading, PrimOps
<1>7. CASE ErasedOutdated
  BY <1>7, ItemStep DEF ErasedOutdated, Reading, PrimOps
<1>8. CASE HistoryRangeFails
  BY <1>8, AbortStep DEF HistoryRangeFails
<1> QED
  BY <1>1, <1>2, <1>3, <1>4, <1>5, <1>6, <1>7, <1>8

\* The items of an upsert
LEMMA UpsertStep ==
    ASSUME DirtyInv,
           \/ AdvanceCompactOffsets \/ WriteNodes \/ Flush
           \/ AdvanceDbOffsets \/ UpdateRoot \/ LowerBoundIs
    PROVE  DirtyInv'
<1>1. CASE AdvanceCompactOffsets
  BY <1>1, ItemStep DEF AdvanceCompactOffsets, Reading, PrimOps, BitsKept
<1>2. CASE WriteNodes
  BY <1>2, ItemStep DEF WriteNodes, Reading, PrimOps, BitsKept
<1>3. CASE Flush
  BY <1>3, ItemStep DEF Flush, PrimOps, BitsKept
<1>4. CASE AdvanceDbOffsets
  BY <1>4, ItemStep DEF AdvanceDbOffsets, PrimOps
<1>5. CASE UpdateRoot
  BY <1>5, ItemStep DEF UpdateRoot, PrimOps
<1>6. CASE LowerBoundIs
  BY <1>6, ItemStep DEF LowerBoundIs, Reading, PrimOps
<1> QED
  BY <1>1, <1>2, <1>3, <1>4, <1>5, <1>6

\* The items that touch the data in the chunks
LEMMA ChunkStep ==
    ASSUME DirtyInv, Destroy \/ Trim \/ ResetNodeWriters
    PROVE  DirtyInv'
<1>1. CASE Destroy
  BY <1>1, ItemStep DEF Destroy, PrimOps, BitsKept, volatile
<1>2. CASE Trim
  BY <1>2, ItemStep DEF Trim, PrimOps, BitsKept, volatile
<1>3. CASE ResetNodeWriters
  BY <1>3, ItemStep DEF ResetNodeWriters, PrimOps, BitsKept
<1> QED
  BY <1>1, <1>2, <1>3

\* What callers do between two operations
LEMMA CallStep ==
    ASSUME DirtyInv, Call
    PROVE  DirtyInv'
<1>1. CASE pc = "open" /\ todo = <<>> /\ pc' = pc /\ BitsKept
  BY <1>1, OutsidePrimitives
<1>2. ASSUME NEW v, NEW w, NEW target, Upsert(v, w, target)
      PROVE  DirtyInv'
  BY <1>1, <1>2 DEF Upsert, BitsKept
<1>3. ASSUME NEW src, NEW dest, MoveTrieVersionForward(src, dest)
      PROVE  DirtyInv'
  BY <1>1, <1>3 DEF MoveTrieVersionForward, BitsKept, volatile
<1>4. ASSUME NEW m, NEW v, UpdateLatest(m, v)
      PROVE  DirtyInv'
  BY <1>1, <1>4 DEF UpdateLatest, BitsKept, volatile
<1>5. ASSUME NEW h, NEW then, Open(h, then)
      PROVE  DirtyInv'
  BY <1>5 DEF Open, DirtyInv, BitTypes, CleanCopy
<1>6. CASE ZapFront
  BY <1>6 DEF ZapFront, DirtyInv, BitTypes, CleanCopy, volatile
<1>7. CASE Close
  BY <1>7, ProcessGone DEF Close
<1> QED
  BY <1>2, <1>3, <1>4, <1>5, <1>6, <1>7 DEF Call

\* The process dies.  If it was healing a copy, that copy may carry the magic
\* string from now on, but the one it was healed from is clean.
LEMMA CrashStep ==
    ASSUME DirtyInv, Crash
    PROVE  DirtyInv'
<1>1. Exit /\ dirty' = dirty
  BY DEF Crash
<1>2. CASE magic' = magic
  BY <1>1, <1>2, ProcessGone
<1>3. ASSUME NEW dst \in HealTargets, magic' = [magic EXCEPT ![dst] = TRUE]
      PROVE  DirtyInv'
  <2>1. dst \in 0 .. 1 /\ ~dirty[1 - dst]
    BY <1>3 DEF HealTargets
  <2>2. BitTypes'
    BY <1>1, <1>3, <2>1 DEF DirtyInv, BitTypes, Exit
  <2>3. CleanCopy'
    BY <1>1, <2>1 DEF CleanCopy
  <2> QED
    BY <1>1, <2>2, <2>3 DEF DirtyInv, Exit
<1> QED
  BY <1>2, <1>3 DEF Crash

\* Every step keeps the inductive invariant.
LEMMA DirtyInvNext ==
    ASSUME DirtyInv, [Next]_vars
    PROVE  DirtyInv'
<1>1. CASE Call
  BY <1>1, CallStep
<1>2. CASE Lookup
  BY <1>2, SetIoStep, OpeningStep, HistoryStep, UpsertStep DEF Lookup
<1>3. CASE Store
  BY <1>3, PrimitiveStep, SetIoStep, ChunkStep DEF Store
<1>4. CASE Crash
  BY <1>4, CrashStep
<1>5. CASE UNCHANGED vars
  BY <1>5 DEF vars, DirtyInv, BitTypes, CleanCopy, OneAtATime, BothMagic
<1> QED
  BY <1>1, <1>2, <1>3, <1>4, <1>5 DEF Next

\* However operations, failed assertions, sudden exits and lost magic strings
\* follow each other, and however large the pool and the ring: once both copies
\* carry the magic string, set_io never finds both dirty (db_copy's assertion on
\* its source, update_aux.cpp's "Replace the dirty copy with the non-dirty copy").
THEOREM CleanCopyAlways == Spec => []CleanCopy
<1>1. Init => DirtyInv
  BY DirtyInvInit
<1>2. DirtyInv /\ [Next]_vars => DirtyInv'
  BY DirtyInvNext
<1>3. DirtyInv => CleanCopy
  BY DEF DirtyInv
<1> QED
  BY <1>1, <1>2, <1>3, PTL DEF Spec

----------------------------------------------------------------------------
(* The two copies record the same outside the ring. *)

CopyFields == {"lb", "next", "slots", "hist", "latest", "expire", "wip", "info", "lists",
               "freecap"}

\* What two copies record besides the ring of roots is the same.
SameOutsideRing(b, d) ==
    /\ b.hist = d.hist /\ b.latest = d.latest /\ b.expire = d.expire /\ b.wip = d.wip
    /\ b.info = d.info /\ b.lists = d.lists /\ b.freecap = d.freecap

\* A copy d records outside the ring what primitive p makes of copy b.
MadeOf(d, p, b) ==
    /\ d.hist = IF p.op = "hist" THEN p.n ELSE b.hist
    /\ d.latest = IF p.op = "latest" THEN [b.latest EXCEPT ![p.mark] = p.v] ELSE b.latest
    /\ d.expire = IF p.op = "expire" THEN p.v ELSE b.expire
    /\ d.wip = IF p.op = "wip" THEN p.wip ELSE b.wip
    /\ d.freecap = IF p.op = "freecap" THEN b.freecap + p.n ELSE b.freecap
    /\ d.info = IF p.op = "link" THEN AppendChunk(b, p.list, p.c).info
                ELSE IF p.op = "unlink" THEN RemoveChunk(b, p.c).info ELSE b.info
    /\ d.lists = IF p.op = "link" THEN AppendChunk(b, p.list, p.c).lists
                 ELSE IF p.op = "unlink" THEN RemoveChunk(b, p.c).lists ELSE b.lists

\* A primitive runs on the first copy and then on the second: in between, the first one has
\* what it made, and its assertion, if it is not about the ring, holds of the second one too.
InStep ==
    /\ side = 0 => SameOutsideRing(copies[0], copies[1])
    /\ side = 1 =>
          /\ todo # <<>> /\ Head(todo).op \in PrimOps /\ pc \in {"creating", "open"}
          /\ MadeOf(copies[0], Head(todo), copies[1])
          /\ Head(todo).op \notin {"fast_forward", "rewind"} => PrimAssert(Head(todo), copies[1])

\* The inductive invariant: the copies are in step while a database is made and while one is
\* open, and agree when the process is gone, unless the first one is to be healed.
StepInv ==
    /\ DOMAIN copies = 0 .. 1 /\ DOMAIN magic = 0 .. 1 /\ side \in 0 .. 1
    /\ \A i \in 0 .. 1 : DOMAIN copies[i] = CopyFields
    /\ pc \in {"creating", "open"} => InStep
    /\ pc \notin {"creating", "open"} => side = 0 /\ (magic[0] => SameOutsideRing(copies[0], copies[1]))

NoExits == crashes \in Nat /\ (crashes = 0 => StepInv)

\* A primitive leaves alone what it is not about.
LEMMA RingOperators ==
    ASSUME NEW b, DOMAIN b = CopyFields, NEW v, NEW o, NEW f
    PROVE  /\ DOMAIN Push(b, o) = CopyFields /\ SameOutsideRing(Push(b, o), b)
           /\ DOMAIN Assign(b, v, o) = CopyFields /\ SameOutsideRing(Assign(b, v, o), b)
           /\ DOMAIN ResetAll(b, v) = CopyFields /\ SameOutsideRing(ResetAll(b, v), b)
           /\ DOMAIN RewindRing(b, v) = CopyFields /\ SameOutsideRing(RewindRing(b, v), b)
           /\ DOMAIN FastForward(b, v) = CopyFields /\ SameOutsideRing(FastForward(b, v), b)
           /\ DOMAIN UpdateRootOffset(b, v, o, f) = CopyFields
           /\ SameOutsideRing(UpdateRootOffset(b, v, o, f), b)
<1>1. ASSUME NEW d, DOMAIN d = CopyFields, NEW low
      PROVE  DOMAIN UpdateLowerBound(d, low) = CopyFields /\ SameOutsideRing(UpdateLowerBound(d, low), d)
  BY <1>1 DEF UpdateLowerBound, SameOutsideRing, CopyFields
<1>2. ASSUME NEW d, DOMAIN d = CopyFields, NEW l, NEW n, NEW s
      PROVE  /\ DOMAIN [d EXCEPT !.slots = s] = CopyFields
             /\ SameOutsideRing([d EXCEPT !.slots = s], d)
             /\ DOMAIN [d EXCEPT !.slots = s, !.next = n] = CopyFields
             /\ SameOutsideRing([d EXCEPT !.slots = s, !.next = n], d)
             /\ DOMAIN [d EXCEPT !.lb = l, !.next = n] = CopyFields
             /\ SameOutsideRing([d EXCEPT !.lb = l, !.next = n], d)
             /\ DOMAIN [d EXCEPT !.lb = l, !.next = n, !.slots = s] = CopyFields
             /\ SameOutsideRing([d EXCEPT !.lb = l, !.next = n, !.slots = s], d)
  BY <1>2 DEF SameOutsideRing, CopyFields
<1>3. ASSUME NEW c, NEW d, NEW e, SameOutsideRing(c, d), SameOutsideRing(d, e)
      PROVE  SameOutsideRing(c, e)
  BY <1>3 DEF SameOutsideRing
<1>4. DOMAIN Push(b, o) = CopyFields /\ SameOutsideRing(Push(b, o), b)
  <2> DEFINE e == [b EXCEPT !.slots = [@ EXCEPT ![SlotOf(b.next)] = o], !.next = b.next + 1]
  <2>1. DOMAIN e = CopyFields /\ SameOutsideRing(e, b)
    BY DEF SameOutsideRing, CopyFields
  <2>2. Push(b, o) = IF o = INVALID_OFFSET THEN e ELSE UpdateLowerBound(e, INVALID_BLOCK_NUM)
    BY DEF Push
  <2> HIDE DEF e
  <2> QED
    BY <1>1, <1>3, <2>1, <2>2
<1>5. ASSUME NEW d, DOMAIN d = CopyFields
      PROVE  DOMAIN Assign(d, v, o) = CopyFields /\ SameOutsideRing(Assign(d, v, o), d)
  <2> DEFINE e == [d EXCEPT !.slots = [@ EXCEPT ![SlotOf(v)] = o]]
  <2>1. DOMAIN e = CopyFields /\ SameOutsideRing(e, d)
    BY <1>5 DEF SameOutsideRing, CopyFields
  <2> HIDE DEF e
  <2>2. ASSUME NEW low
        PROVE  DOMAIN UpdateLowerBound(e, low) = CopyFields /\ SameOutsideRing(UpdateLowerBound(e, low), d)
    BY <1>1, <1>3, <2>1
  <2>3. Assign(d, v, o) = UpdateLowerBound(e, IF o = INVALID_OFFSET THEN INVALID_BLOCK_NUM ELSE v)
    BY DEF Assign, e
  <2> QED
    BY <2>2, <2>3
<1>6. ASSUME NEW d, DOMAIN d = CopyFields, NEW w
      PROVE  DOMAIN ResetAll(d, w) = CopyFields /\ SameOutsideRing(ResetAll(d, w), d)
  BY <1>2, <1>6 DEF ResetAll
<1>7. DOMAIN RewindRing(b, v) = CopyFields /\ SameOutsideRing(RewindRing(b, v), b)
  <2> DEFINE e == [b EXCEPT !.slots = Cleared(@, v + 1 .. MaxVersion(b))]
             erased == UpdateLowerBound(e, INVALID_BLOCK_NUM)
             g == [erased EXCEPT !.lb = IF v < @ THEN v ELSE @, !.next = v + 1]
  <2>1. RewindRing(b, v) = UpdateLowerBound(g, INVALID_BLOCK_NUM)
    BY DEF RewindRing
  <2>2. DOMAIN e = CopyFields /\ SameOutsideRing(e, b)
    BY DEF SameOutsideRing, CopyFields
  <2> HIDE DEF e
  <2>3. DOMAIN erased = CopyFields /\ SameOutsideRing(erased, b)
    BY <1>1, <1>3, <2>2
  <2> HIDE DEF erased
  <2>4. DOMAIN g = CopyFields /\ SameOutsideRing(g, erased)
    BY <2>3 DEF SameOutsideRing, CopyFields
  <2> HIDE DEF g
  <2>5. SameOutsideRing(g, b)
    BY <1>3, <2>3, <2>4
  <2> QED
    BY <1>1, <1>3, <2>1, <2>4, <2>5
<1>8. DOMAIN FastForward(b, v) = CopyFields /\ SameOutsideRing(FastForward(b, v), b)
  BY <1>2, <1>6 DEF FastForward
<1>9. DOMAIN UpdateRootOffset(b, v, o, f) = CopyFields /\ SameOutsideRing(UpdateRootOffset(b, v, o, f), b)
  BY <1>3, <1>5, <1>6 DEF UpdateRootOffset
<1> QED
  BY <1>4, <1>5, <1>6, <1>7, <1>8, <1>9

LEMMA ListOperators ==
    ASSUME NEW b, DOMAIN b = CopyFields, NEW l, NEW c
    PROVE  /\ DOMAIN AppendChunk(b, l, c) = CopyFields /\ DOMAIN RemoveChunk(b, c) = CopyFields
           /\ \A d \in {AppendChunk(b, l, c), RemoveChunk(b, c)} :
                 /\ d.hist = b.hist /\ d.latest = b.latest /\ d.expire = b.expire
                 /\ d.wip = b.wip /\ d.freecap = b.freecap
<1>1. /\ DOMAIN AppendChunk(b, l, c) = CopyFields
      /\ AppendChunk(b, l, c).hist = b.hist /\ AppendChunk(b, l, c).latest = b.latest
      /\ AppendChunk(b, l, c).expire = b.expire /\ AppendChunk(b, l, c).wip = b.wip
      /\ AppendChunk(b, l, c).freecap = b.freecap
  BY DEF AppendChunk, CopyFields
<1>2. /\ DOMAIN RemoveChunk(b, c) = CopyFields
      /\ RemoveChunk(b, c).hist = b.hist /\ RemoveChunk(b, c).latest = b.latest
      /\ RemoveChunk(b, c).expire = b.expire /\ RemoveChunk(b, c).wip = b.wip
      /\ RemoveChunk(b, c).freecap = b.freecap
  BY DEF RemoveChunk, CopyFields
<1> QED
  BY <1>1, <1>2

LEMMA ApplyMakes ==
    ASSUME NEW p, p.op \in PrimOps, NEW c \in 0 .. 1, DOMAIN copies[c] = CopyFields
    PROVE  DOMAIN Apply(p, copies, c) = CopyFields /\ MadeOf(Apply(p, copies, c), p, copies[c])
<1> DEFINE b == copies[c]
           d == Apply(p, copies, c)
<1>0. DOMAIN b = CopyFields
  OBVIOUS
<1>1. CASE p.op = "push"
  <2>1. d = Push(b, p.o)
    BY <1>1 DEF Apply
  <2> QED
    BY <1>0, <1>1, <2>1, RingOperators DEF MadeOf, SameOutsideRing
<1>2. CASE p.op = "assign"
  <2>1. PICK f : d = UpdateRootOffset(b, p.v, p.o, f)
    BY <1>2 DEF Apply
  <2> QED
    BY <1>0, <1>2, <2>1, RingOperators DEF MadeOf, SameOutsideRing
<1>3. CASE p.op = "fast_forward"
  <2>1. d = FastForward(b, p.v)
    BY <1>3 DEF Apply
  <2> QED
    BY <1>0, <1>3, <2>1, RingOperators DEF MadeOf, SameOutsideRing
<1>4. CASE p.op = "reset"
  <2>1. d = ResetAll(b, 0)
    BY <1>4 DEF Apply
  <2> QED
    BY <1>0, <1>4, <2>1, RingOperators DEF MadeOf, SameOutsideRing
<1>5. CASE p.op = "rewind"
  <2>1. d = RewindRing(b, p.v)
    BY <1>5 DEF Apply
  <2> QED
    BY <1>0, <1>5, <2>1, RingOperators DEF MadeOf, SameOutsideRing
<1>6. CASE p.op = "link"
  <2>1. d = AppendChunk(b, p.list, p.c)
    BY <1>6 DEF Apply
  <2> QED
    BY <1>0, <1>6, <2>1, ListOperators DEF MadeOf
<1>7. CASE p.op = "unlink"
  <2>1. d = RemoveChunk(b, p.c)
    BY <1>7 DEF Apply
  <2> QED
    BY <1>0, <1>7, <2>1, ListOperators DEF MadeOf
<1>8. CASE p.op = "hist"
  <2>1. d = [b EXCEPT !.hist = p.n]
    BY <1>8 DEF Apply
  <2> QED
    BY <1>0, <1>8, <2>1 DEF MadeOf, CopyFields
<1>9. CASE p.op = "latest"
  <2>1. d = [b EXCEPT !.latest = [b.latest EXCEPT ![p.mark] = p.v]]
    BY <1>9 DEF Apply
  <2> QED
    BY <1>0, <1>9, <2>1 DEF MadeOf, CopyFields
<1>10. CASE p.op = "expire"
  <2>1. d = [b EXCEPT !.expire = p.v]
    BY <1>10 DEF Apply
  <2> QED
    BY <1>0, <1>10, <2>1 DEF MadeOf, CopyFields
<1>11. CASE p.op = "wip"
  <2>1. d = [b EXCEPT !.wip = p.wip]
    BY <1>11 DEF Apply
  <2> QED
    BY <1>0, <1>11, <2>1 DEF MadeOf, CopyFields
<1>12. CASE p.op = "freecap"
  <2>1. d = [b EXCEPT !.freecap = b.freecap + p.n]
    BY <1>12 DEF Apply
  <2> QED
    BY <1>0, <1>12, <2>1 DEF MadeOf, CopyFields
<1> QED
  BY <1>1, <1>2, <1>3, <1>4, <1>5, <1>6, <1>7, <1>8, <1>9, <1>10, <1>11, <1>12 DEF PrimOps

\* What a primitive makes of copies that agree agrees.
LEMMA MadeOfSame ==
    ASSUME NEW p, NEW b, NEW c, NEW d, SameOutsideRing(b, c), MadeOf(d, p, b),
           DOMAIN b = CopyFields, DOMAIN c = CopyFields
    PROVE  MadeOf(d, p, c)
<1>1. /\ AppendChunk(b, p.list, p.c).info = AppendChunk(c, p.list, p.c).info
      /\ AppendChunk(b, p.list, p.c).lists = AppendChunk(c, p.list, p.c).lists
  BY DEF AppendChunk, SameOutsideRing, CopyFields
<1>2. /\ RemoveChunk(b, p.c).info = RemoveChunk(c, p.c).info
      /\ RemoveChunk(b, p.c).lists = RemoveChunk(c, p.c).lists
  BY DEF RemoveChunk, SameOutsideRing, CopyFields
<1> QED
  BY <1>1, <1>2 DEF MadeOf, SameOutsideRing

LEMMA MadeTwice ==
    ASSUME NEW p, NEW b, NEW c, NEW d, MadeOf(c, p, b), MadeOf(d, p, b)
    PROVE  SameOutsideRing(c, d)
BY DEF MadeOf, SameOutsideRing

\* The assertions that are not about the ring hold of both copies or of neither.
LEMMA AssertSame ==
    ASSUME NEW p, p.op \notin {"fast_forward", "rewind"}, NEW b, NEW c, SameOutsideRing(b, c),
           PrimAssert(p, b)
    PROVE  PrimAssert(p, c)
BY DEF PrimAssert, SameOutsideRing, AppendAssert, RemoveAssert

\* A step outside the primitives, which leaves the copies alone or ends the process
Quiet ==
    /\ pc = "open" /\ (todo = <<>> \/ Head(todo).op \notin PrimOps)
    /\ UNCHANGED <<copies, magic, crashes>>
    /\ (pc' = "open" /\ side' = side) \/ Exit

LEMMA ItemQuiet ==
    ASSUME NEW op, op \notin PrimOps, Doing(op),
           \/ \E program : Continue(program)
           \/ \E why : Abort(why)
           \/ UNCHANGED <<pc, copies, magic, side, crashes>>
    PROVE  Quiet
<1>1. pc = "open" /\ Head(todo).op \notin PrimOps
  BY DEF Doing, item
<1>2. CASE UNCHANGED <<pc, copies, magic, side, crashes>>
  BY <1>1, <1>2 DEF Quiet
<1>3. CASE \E program : Continue(program)
  BY <1>1, <1>3 DEF Continue, volatile, ghosts, Quiet
<1>4. CASE \E why : Abort(why)
  BY <1>1, <1>4 DEF Abort, Quiet
<1> QED
  BY <1>2, <1>3, <1>4

\* Items that read the metadata and decide what comes next
LEMMA LookupQuiet ==
    ASSUME \/ MatchOffsets \/ ShortenTo \/ RewindOnOpen \/ PastRoot \/ FreeWip \/ EraseUpTo
           \/ ReleaseUnreferencedChunks \/ FreeCompacted \/ AdjustHistoryLength
           \/ ShortenHistory \/ EraseOutdated \/ ErasedOutdated \/ HistoryRangeFails
    PROVE  Quiet
<1>1. CASE MatchOffsets
  BY <1>1, ItemQuiet DEF MatchOffsets, PrimOps
<1>2. CASE ShortenTo
  BY <1>2, ItemQuiet DEF ShortenTo, PrimOps
<1>3. CASE RewindOnOpen
  BY <1>3, ItemQuiet DEF RewindOnOpen, Reading, PrimOps
<1>4. CASE FreeWip
  BY <1>4, ItemQuiet DEF FreeWip, PrimOps
<1>5. CASE EraseUpTo
  BY <1>5, ItemQuiet DEF EraseUpTo, Reading, PrimOps
<1>6. CASE ReleaseUnreferencedChunks
  BY <1>6, ItemQuiet DEF ReleaseUnreferencedChunks, Reading, PrimOps
<1>7. CASE FreeCompacted
  BY <1>7, ItemQuiet DEF FreeCompacted, PrimOps
<1>8. CASE AdjustHistoryLength
  BY <1>8, ItemQuiet DEF AdjustHistoryLength, Reading, PrimOps
<1>9. CASE ShortenHistory
  BY <1>9, ItemQuiet DEF ShortenHistory, Reading, PrimOps
<1>10. CASE EraseOutdated
  BY <1>10, ItemQuiet DEF EraseOutdated, Reading, PrimOps
<1>11. CASE ErasedOutdated
  BY <1>11, ItemQuiet DEF ErasedOutdated, Reading, PrimOps
<1>12. CASE HistoryRangeFails
  <2>1. PICK op \in RangeReaders : Doing(op)
    BY <1>12 DEF HistoryRangeFails
  <2>2. op \notin PrimOps
    BY <2>1 DEF RangeReaders, PrimOps
  <2>3. \E why : Abort(why)
    BY <1>12 DEF HistoryRangeFails
  <2> QED
    BY <2>1, <2>2, <2>3, ItemQuiet
<1>13. CASE PastRoot
  BY <1>13, ItemQuiet DEF PastRoot, PrimOps
<1> QED
  BY <1>1, <1>2, <1>3, <1>4, <1>5, <1>6, <1>7, <1>8, <1>9, <1>10, <1>11, <1>12, <1>13

\* The items of an upsert, and those that touch the data in the chunks
LEMMA WriteQuiet ==
    ASSUME \/ AdvanceCompactOffsets \/ WriteNodes \/ Flush \/ AdvanceDbOffsets \/ UpdateRoot
           \/ LowerBoundIs \/ Destroy \/ Trim \/ ResetNodeWriters
    PROVE  Quiet
<1>1. CASE AdvanceCompactOffsets
  BY <1>1, ItemQuiet DEF AdvanceCompactOffsets, Reading, PrimOps, ghosts
<1>2. CASE WriteNodes
  BY <1>2, ItemQuiet DEF WriteNodes, Reading, PrimOps, ghosts
<1>3. CASE Flush
  BY <1>3, ItemQuiet DEF Flush, PrimOps, ghosts
<1>4. CASE AdvanceDbOffsets
  BY <1>4, ItemQuiet DEF AdvanceDbOffsets, PrimOps
<1>5. CASE UpdateRoot
  BY <1>5, ItemQuiet DEF UpdateRoot, PrimOps
<1>6. CASE LowerBoundIs
  BY <1>6, ItemQuiet DEF LowerBoundIs, Reading, PrimOps
<1>7. CASE Destroy
  BY <1>7, ItemQuiet DEF Destroy, PrimOps, volatile, ghosts
<1>8. CASE Trim
  BY <1>8, ItemQuiet DEF Trim, PrimOps, volatile, ghosts
<1>9. CASE ResetNodeWriters
  BY <1>9, ItemQuiet DEF ResetNodeWriters, PrimOps, ghosts
<1> QED
  BY <1>1, <1>2, <1>3, <1>4, <1>5, <1>6, <1>7, <1>8, <1>9

\* What callers do between two operations
LEMMA CallQuiet ==
    ASSUME \/ \E v, w, target : Upsert(v, w, target)
           \/ \E src, dest : MoveTrieVersionForward(src, dest)
           \/ \E m, v : UpdateLatest(m, v)
           \/ Close
    PROVE  Quiet
BY DEF Upsert, MoveTrieVersionForward, UpdateLatest, Close, volatile, ghosts, Quiet

\* The process ends in a state in which the copies agree.
LEMMA GoneStep ==
    ASSUME StepInv, Exit, UNCHANGED <<copies, magic>>, side = 0
    PROVE  StepInv'
BY DEF StepInv, InStep, Exit

\* Nothing happens to the copies.
LEMMA QuietStep ==
    ASSUME StepInv, Quiet
    PROVE  StepInv'
BY DEF StepInv, InStep, Quiet, Exit

\* A primitive on one copy
LEMMA RunPrimStep ==
    ASSUME StepInv, RunPrim
    PROVE  StepInv'
<1> DEFINE p == Head(todo)
<1>1. pc \in {"creating", "open"} /\ todo # <<>> /\ p.op \in PrimOps /\ side \in 0 .. 1 /\ InStep
  BY DEF RunPrim, InPrim, item, StepInv
<1>2. CASE ~PrimAssert(p, copies[side])
  <2>1. Exit /\ UNCHANGED <<copies, magic>>
    BY <1>2 DEF RunPrim, item, Abort
  <2>2. SameOutsideRing(copies[0], copies[1])
    <3>1. CASE side = 0
      BY <1>1, <3>1 DEF InStep
    <3>2. CASE side = 1
      <4>1. MadeOf(copies[0], p, copies[1]) /\ p.op \in {"fast_forward", "rewind"}
        BY <1>1, <1>2, <3>2 DEF InStep
      <4> QED
        BY <4>1 DEF MadeOf, SameOutsideRing
    <3> QED
      BY <1>1, <3>1, <3>2
  <2> QED
    BY <2>1, <2>2 DEF StepInv, Exit
<1>3. CASE PrimAssert(p, copies[side])
  <2>1. /\ copies' = [copies EXCEPT ![side] = Apply(p, copies, side)]
        /\ side' = 1 - side /\ pc' = pc /\ magic' = magic
        /\ todo' = IF side = 1 THEN Tail(todo) ELSE todo
    BY <1>3 DEF RunPrim, item
  <2>2. DOMAIN copies[0] = CopyFields /\ DOMAIN copies[1] = CopyFields /\ DOMAIN copies = 0 .. 1
    BY DEF StepInv
  <2>3. /\ DOMAIN Apply(p, copies, side) = CopyFields
        /\ MadeOf(Apply(p, copies, side), p, copies[side])
    BY <1>1, <2>2, ApplyMakes
  <2>4. /\ DOMAIN copies' = 0 .. 1 /\ \A i \in 0 .. 1 : DOMAIN copies'[i] = CopyFields
        /\ side' \in 0 .. 1
    BY <1>1, <2>1, <2>2, <2>3
  <2>5. InStep'
    <3>1. CASE side = 0
      <4>1. copies'[0] = Apply(p, copies, 0) /\ copies'[1] = copies[1] /\ side' = 1 /\ todo' = todo
        BY <2>1, <2>2, <3>1
      <4>2. SameOutsideRing(copies[0], copies[1])
        BY <1>1, <3>1 DEF InStep
      <4>3. MadeOf(copies'[0], p, copies[1])
        BY <2>2, <2>3, <3>1, <4>1, <4>2, MadeOfSame
      <4>4. p.op \notin {"fast_forward", "rewind"} => PrimAssert(p, copies[1])
        BY <1>3, <3>1, <4>2, AssertSame
      <4> QED
        BY <1>1, <2>1, <4>1, <4>3, <4>4 DEF InStep
    <3>2. CASE side = 1
      <4>1. copies'[0] = copies[0] /\ copies'[1] = Apply(p, copies, 1) /\ side' = 0
        BY <2>1, <2>2, <3>2
      <4>2. MadeOf(copies[0], p, copies[1])
        BY <1>1, <3>2 DEF InStep
      <4>3. SameOutsideRing(copies'[0], copies'[1])
        BY <2>3, <3>2, <4>1, <4>2, MadeTwice
      <4> QED
        BY <4>1, <4>3 DEF InStep
    <3> QED
      BY <1>1, <3>1, <3>2
  <2> QED
    BY <1>1, <2>1, <2>4, <2>5 DEF StepInv
<1> QED
  BY <1>2, <1>3

LEMMA HoldDirtyStep ==
    ASSUME StepInv, HoldDirty
    PROVE  StepInv'
BY DEF StepInv, InStep, HoldDirty, volatile

\* db_copy makes the copies agree.
LEMMA HealStep ==
    ASSUME StepInv, pc \in {"heal_magic", "heal_dirty"}, NEW dst \in 0 .. 1, DbCopyOnto(dst),
           dst = 0 \/ magic[0]
    PROVE  StepInv'
<1>1. CASE dirty[1 - dst]
  <2>1. Exit /\ UNCHANGED <<copies, magic>> /\ side = 0
    BY <1>1 DEF DbCopyOnto, Abort, StepInv
  <2> QED
    BY <2>1, GoneStep
<1>2. CASE ~dirty[1 - dst]
  <2>1. pc' = pc /\ side' = side
    BY <1>2 DEF DbCopyOnto, volatile
  <2>2. CASE ~dirty[dst]
    BY <1>2, <2>1, <2>2 DEF DbCopyOnto, StepInv
  <2>3. CASE dirty[dst]
    <3>1. /\ copies' = [copies EXCEPT ![dst] = DbCopy(@, copies[1 - dst])]
          /\ magic' = [magic EXCEPT ![dst] = magic[1 - dst]]
      BY <1>2, <2>3 DEF DbCopyOnto
    <3>2. /\ DOMAIN copies = 0 .. 1 /\ DOMAIN magic = 0 .. 1 /\ side = 0
          /\ DOMAIN copies[0] = CopyFields /\ DOMAIN copies[1] = CopyFields
      BY DEF StepInv
    <3>3. CASE dst = 0
      <4>1. copies'[0] = [copies[1] EXCEPT !.slots = copies[0].slots] /\ copies'[1] = copies[1]
        BY <3>1, <3>2, <3>3 DEF DbCopy
      <4>2. DOMAIN copies'[0] = CopyFields /\ SameOutsideRing(copies'[0], copies'[1])
        BY <3>2, <4>1 DEF SameOutsideRing, CopyFields
      <4>3. \A i \in 0 .. 1 : DOMAIN copies'[i] = CopyFields
        BY <3>2, <4>1, <4>2
      <4> QED
        BY <2>1, <3>1, <3>2, <4>2, <4>3 DEF StepInv
    <3>4. CASE dst = 1
      <4>1. copies'[1] = [copies[0] EXCEPT !.slots = copies[1].slots] /\ copies'[0] = copies[0]
        BY <3>1, <3>2, <3>4 DEF DbCopy
      <4>2. DOMAIN copies'[1] = CopyFields /\ SameOutsideRing(copies'[0], copies'[1])
        BY <3>2, <4>1 DEF SameOutsideRing, CopyFields
      <4>3. \A i \in 0 .. 1 : DOMAIN copies'[i] = CopyFields
        BY <3>2, <4>1, <4>2
      <4> QED
        BY <2>1, <3>1, <3>2, <4>2, <4>3 DEF StepInv
    <3> QED
      BY <3>3, <3>4
  <2> QED
    BY <2>2, <2>3
<1> QED
  BY <1>1, <1>2

LEMMA NewCopyFields == DOMAIN EmptyCopy = CopyFields /\ DOMAIN NewCopy = CopyFields
<1>1. DOMAIN EmptyCopy = CopyFields
  BY DEF EmptyCopy, CopyFields
<1>2. ASSUME NEW i, NEW l PROVE DOMAIN [EmptyCopy EXCEPT !.info = i, !.lists = l] = CopyFields
  BY <1>1 DEF CopyFields
<1> QED
  BY <1>1, <1>2 DEF NewCopy

\* The phases of set_io
LEMMA SetIoKeeps ==
    ASSUME StepInv, HealMagic \/ HealDirty \/ UseTorn \/ Attach \/ WriteMagic
    PROVE  StepInv'
<1>1. CASE HealMagic
  <2>1. CASE ~magic[0] /\ magic[1]
    BY <1>1, <2>1, HealStep DEF HealMagic
  <2>2. CASE ~(~magic[0] /\ magic[1])
    BY <1>1, <2>2 DEF HealMagic, GoTo, StepInv
  <2> QED
    BY <2>1, <2>2
<1>2. CASE HealDirty
  <2>1. CASE BothMagic /\ dirty[0]
    BY <1>2, <2>1, HealStep DEF HealDirty, BothMagic
  <2>2. CASE BothMagic /\ ~dirty[0] /\ dirty[1]
    BY <1>2, <2>2, HealStep DEF HealDirty, BothMagic
  <2>3. CASE ~BothMagic \/ (~dirty[0] /\ ~dirty[1])
    BY <1>2, <2>3 DEF HealDirty, GoTo, StepInv, BothMagic
  <2> QED
    BY <2>1, <2>2, <2>3
<1>3. CASE UseTorn
  BY <1>3, GoneStep DEF UseTorn, Abort, StepInv
<1>4. CASE Attach
  <2>0. pc = "attach" /\ side = 0
    BY <1>4 DEF Attach, StepInv
  <2>1. CASE ~magic[0] /\ \E c \in Chunks : disk[c] # <<>>
    BY <1>4, <2>0, <2>1, GoneStep DEF Attach, Abort
  <2>2. CASE magic[0]
    <3>1. UNCHANGED <<copies, magic, side>> /\ pc' = "open"
      BY <1>4, <2>2 DEF Attach
    <3> QED
      BY <2>0, <2>2, <3>1 DEF StepInv, InStep
  <2>3. CASE ~magic[0] /\ ~\E c \in Chunks : disk[c] # <<>>
    <3>1. UNCHANGED <<magic, side>> /\ pc' = "creating" /\ copies' = [i \in 0 .. 1 |-> NewCopy]
      BY <1>4, <2>3 DEF Attach
    <3>2. SameOutsideRing(copies'[0], copies'[1])
      BY <3>1 DEF SameOutsideRing
    <3> QED
      BY <2>0, <3>1, <3>2, NewCopyFields DEF StepInv, InStep
  <2> QED
    BY <2>1, <2>2, <2>3
<1>5. CASE WriteMagic
  <2>1. /\ UNCHANGED <<copies, side>> /\ pc = "creating" /\ pc' \in {"creating", "open"}
        /\ Head(todo).op \notin PrimOps
        /\ magic' = [magic EXCEPT ![item.i] = TRUE]
    BY <1>5 DEF WriteMagic, item, PrimOps
  <2> QED
    BY <2>1 DEF StepInv, InStep
<1> QED
  BY <1>1, <1>2, <1>3, <1>4, <1>5

\* A database is opened, or the first copy is wiped.
LEMMA OpenStep ==
    ASSUME StepInv, (\E h, then : Open(h, then)) \/ ZapFront
    PROVE  StepInv'
<1>1. CASE \E h, then : Open(h, then)
  BY <1>1 DEF Open, StepInv
<1>2. CASE ZapFront
  <2>1. /\ copies' = [copies EXCEPT ![0] = [EmptyCopy EXCEPT !.slots = front.slots]]
        /\ magic' = [magic EXCEPT ![0] = FALSE] /\ UNCHANGED <<pc, side>> /\ pc = "closed"
    BY <1>2 DEF ZapFront, volatile
  <2>2. DOMAIN [EmptyCopy EXCEPT !.slots = front.slots] = CopyFields
    BY NewCopyFields
  <2> QED
    BY <2>1, <2>2 DEF StepInv
<1> QED
  BY <1>1, <1>2

\* A step that is not quiet is of a primitive, of set_io, of a call to it, or a sudden exit.
LoudStep ==
    \/ HoldDirty \/ RunPrim \/ HealMagic \/ HealDirty \/ UseTorn \/ Attach \/ WriteMagic
    \/ (\E h, then : Open(h, then)) \/ ZapFront

LEMMA LoudOrQuiet ==
    ASSUME Call \/ Lookup \/ Store
    PROVE  Quiet \/ LoudStep
<1>1. CASE Call
  BY <1>1, CallQuiet DEF Call, LoudStep
<1>2. CASE Lookup
  BY <1>2, LookupQuiet, WriteQuiet DEF Lookup, LoudStep
<1>3. CASE Store
  BY <1>3, WriteQuiet DEF Store, LoudStep
<1> QED
  BY <1>1, <1>2, <1>3

\* Only a sudden exit is counted.
LEMMA ExitsCounted ==
    ASSUME Quiet \/ LoudStep
    PROVE  crashes' = crashes
BY DEF Quiet, LoudStep, HoldDirty, RunPrim, HealMagic, HealDirty, UseTorn, Attach, WriteMagic, Open,
       ZapFront, DbCopyOnto, GoTo, Abort, ghosts

LEMMA NoExitsInvariant == Spec => []NoExits
<1>1. Init => NoExits
  <2> SUFFICES ASSUME Init PROVE NoExits
    OBVIOUS
  <2>1. /\ copies = [i \in 0 .. 1 |-> EmptyCopy] /\ magic = [i \in 0 .. 1 |-> FALSE]
        /\ pc = "closed" /\ side = 0 /\ crashes = 0
    BY DEF Init
  <2> QED
    BY <2>1, NewCopyFields DEF NoExits, StepInv
<1>2. NoExits /\ [Next]_vars => NoExits'
  <2> SUFFICES ASSUME NoExits, [Next]_vars PROVE NoExits'
    OBVIOUS
  <2>1. CASE Call \/ Lookup \/ Store
    <3>1. crashes' = crashes
      BY <2>1, LoudOrQuiet, ExitsCounted
    <3>2. ASSUME StepInv PROVE StepInv'
      BY <2>1, <3>2, LoudOrQuiet, QuietStep, OpenStep, SetIoKeeps, HoldDirtyStep, RunPrimStep
         DEF LoudStep
    <3> QED
      BY <3>1, <3>2 DEF NoExits
  <2>2. CASE Crash
    <3>1. crashes' = crashes + 1
      BY <2>2 DEF Crash
    <3> QED
      BY <3>1 DEF NoExits
  <2>3. CASE UNCHANGED vars
    BY <2>3 DEF vars, NoExits, StepInv, InStep
  <2> QED
    BY <2>1, <2>2, <2>3 DEF Next
<1> QED
  BY <1>1, <1>2, PTL DEF Spec

\* As long as no process died suddenly, both copies have the same chunk lists, the same insertion
\* counts, free capacity, history length, marks and offsets of the writers between any two
\* operations, whatever assertions failed and however often the first copy was wiped.
AgreeOutsideRing ==
    crashes = 0 /\ pc = "open" /\ todo = <<>> => SameOutsideRing(copies[0], copies[1])

\* The part of CopiesAgree that holds for all operations and histories
THEOREM AgreeOutsideRingAlways == Spec => []AgreeOutsideRing
<1>1. NoExits => AgreeOutsideRing
  BY DEF NoExits, StepInv, InStep, AgreeOutsideRing
<1> QED
  BY <1>1, NoExitsInvariant, PTL

----------------------------------------------------------------------------
(* The two copies are equal, unless the only version was erased. *)

\* update_root_offset takes the root of the only version away.  It resets the ring, of which it
\* asks the first copy; when it turns to the second, the first has been reset.
ErasesLast ==
    /\ InPrim /\ item.op = "assign" /\ item.o = INVALID_OFFSET /\ side = 0
    /\ LET b == Assign(front, item.v, item.o)
       IN  item.v = MaxVersion(b) /\ item.v = MinValidVersion(b)

\* A copy is a record.
IsCopy(b) == b = [f \in CopyFields |-> b[f]]

\* What primitive p makes of copy b if it asks b itself whether the ring is now empty
Made(p, b) ==
    CASE p.op = "push" -> Push(b, p.o)
      [] p.op = "assign" -> UpdateRootOffset(b, p.v, p.o, Assign(b, p.v, p.o))
      [] p.op = "fast_forward" -> FastForward(b, p.v)
      [] p.op = "reset" -> ResetAll(b, 0)
      [] p.op = "rewind" -> RewindRing(b, p.v)
      [] p.op = "hist" -> [b EXCEPT !.hist = p.n]
      [] p.op = "latest" -> [b EXCEPT !.latest[p.mark] = p.v]
      [] p.op = "expire" -> [b EXCEPT !.expire = p.v]
      [] p.op = "wip" -> [b EXCEPT !.wip = p.wip]
      [] p.op = "link" -> AppendChunk(b, p.list, p.c)
      [] p.op = "unlink" -> RemoveChunk(b, p.c)
      [] p.op = "freecap" -> [b EXCEPT !.freecap = @ + p.n]

NotLast(p, b) ==
    p.op = "assign" /\ p.o = INVALID_OFFSET =>
        ~(p.v = MaxVersion(Assign(b, p.v, p.o)) /\ p.v = MinValidVersion(Assign(b, p.v, p.o)))

EqualInStep ==
    /\ side = 0 => copies[0] = copies[1]
    /\ side = 1 =>
          /\ todo # <<>> /\ Head(todo).op \in PrimOps /\ pc \in {"creating", "open"}
          /\ copies[0] = Made(Head(todo), copies[1]) /\ PrimAssert(Head(todo), copies[1])
          /\ NotLast(Head(todo), copies[1])

EqualInv ==
    /\ DOMAIN copies = 0 .. 1 /\ DOMAIN magic = 0 .. 1 /\ side \in 0 .. 1
    /\ \A i \in 0 .. 1 : IsCopy(copies[i])
    /\ pc \in {"creating", "open"} => EqualInStep
    /\ pc \notin {"creating", "open"} =>
          /\ side = 0 /\ (magic[0] => copies[0] = copies[1])
          /\ copies[0].slots = copies[1].slots

EqualNoExits == crashes \in Nat /\ (crashes = 0 => EqualInv)

LEMMA ExceptIsCopy ==
    ASSUME NEW b, IsCopy(b), NEW u, NEW v, NEW w
    PROVE  /\ IsCopy([b EXCEPT !.lb = u]) /\ IsCopy([b EXCEPT !.slots = u])
           /\ IsCopy([b EXCEPT !.slots = u, !.next = v])
           /\ IsCopy([b EXCEPT !.lb = u, !.next = v])
           /\ IsCopy([b EXCEPT !.lb = u, !.next = v, !.slots = w])
           /\ IsCopy([b EXCEPT !.hist = u]) /\ IsCopy([b EXCEPT !.latest = u])
           /\ IsCopy([b EXCEPT !.expire = u]) /\ IsCopy([b EXCEPT !.wip = u])
           /\ IsCopy([b EXCEPT !.freecap = u])
           /\ IsCopy([b EXCEPT !.lists = u]) /\ IsCopy([b EXCEPT !.lists = u, !.info = v])
           /\ IsCopy([b EXCEPT !.info = u, !.lists = v])
<1>1. DOMAIN b = CopyFields
  BY DEF IsCopy
<1> QED
  BY <1>1 DEF IsCopy, CopyFields

LEMMA MadeIsCopy ==
    ASSUME NEW b, IsCopy(b), NEW p, p.op \in PrimOps
    PROVE  IsCopy(Made(p, b))
<1>1. ASSUME NEW d, IsCopy(d), NEW low PROVE IsCopy(UpdateLowerBound(d, low))
  BY <1>1, ExceptIsCopy DEF UpdateLowerBound
<1>2. ASSUME NEW d, IsCopy(d), NEW v PROVE IsCopy(ResetAll(d, v))
  BY <1>2, ExceptIsCopy DEF ResetAll
<1>3. ASSUME NEW v, NEW o PROVE IsCopy(Assign(b, v, o))
  <2> DEFINE e == [b EXCEPT !.slots = [@ EXCEPT ![SlotOf(v)] = o]]
  <2>1. IsCopy(e)
    BY ExceptIsCopy
  <2>2. Assign(b, v, o) = UpdateLowerBound(e, IF o = INVALID_OFFSET THEN INVALID_BLOCK_NUM ELSE v)
    BY DEF Assign
  <2> HIDE DEF e
  <2> QED
    BY <1>1, <2>1, <2>2
<1>4. CASE p.op = "push"
  <2> DEFINE o == p.o
             e == [b EXCEPT !.slots = [@ EXCEPT ![SlotOf(b.next)] = o], !.next = b.next + 1]
  <2>1. IsCopy(e)
    BY ExceptIsCopy
  <2>2. Made(p, b) = IF o = INVALID_OFFSET THEN e ELSE UpdateLowerBound(e, INVALID_BLOCK_NUM)
    BY <1>4 DEF Made, Push
  <2> HIDE DEF e
  <2> QED
    BY <1>1, <2>1, <2>2
<1>5. CASE p.op = "assign"
  <2> DEFINE a == Assign(b, p.v, p.o)
  <2>1. Made(p, b) = ResetAll(a, 0) \/ Made(p, b) = a
    BY <1>5 DEF Made, UpdateRootOffset
  <2>2. IsCopy(a)
    BY <1>3
  <2> HIDE DEF a
  <2> QED
    BY <1>2, <2>1, <2>2
<1>6. CASE p.op = "fast_forward"
  <2>1. Made(p, b) = FastForward(b, p.v)
    BY <1>6 DEF Made
  <2>2. IsCopy(ResetAll(b, p.v)) /\ IsCopy([b EXCEPT !.slots = Cleared(@, b.next .. p.v - 1), !.next = p.v])
    BY <1>2, ExceptIsCopy
  <2> QED
    BY <2>1, <2>2 DEF FastForward
<1>7. CASE p.op = "reset"
  BY <1>2, <1>7 DEF Made
<1>8. CASE p.op = "rewind"
  <2> DEFINE v == p.v
             e == [b EXCEPT !.slots = Cleared(@, v + 1 .. MaxVersion(b))]
             erased == UpdateLowerBound(e, INVALID_BLOCK_NUM)
             g == [erased EXCEPT !.lb = IF v < @ THEN v ELSE @, !.next = v + 1]
  <2>1. Made(p, b) = UpdateLowerBound(g, INVALID_BLOCK_NUM)
    BY <1>8 DEF Made, RewindRing
  <2>2. IsCopy(e)
    BY ExceptIsCopy
  <2> HIDE DEF e
  <2>3. IsCopy(erased)
    BY <1>1, <2>2
  <2> HIDE DEF erased
  <2>4. IsCopy(g)
    BY <2>3, ExceptIsCopy
  <2> HIDE DEF g
  <2> QED
    BY <1>1, <2>1, <2>4
<1>9. CASE p.op = "link"
  <2>1. Made(p, b) = AppendChunk(b, p.list, p.c)
    BY <1>9 DEF Made
  <2> DEFINE t == p.list
             c == p.c
             tail == b.lists[t].end
             link == [prev |-> tail, next |-> INVALID_CHUNK_ID, list |-> t,
                      count |-> IF tail = INVALID_CHUNK_ID THEN 0 ELSE b.info[tail].count + 1]
  <2>2. CASE tail = INVALID_CHUNK_ID
    <3> DEFINE l == [b.lists EXCEPT ![t] = [begin |-> c, end |-> c]]
               i == [b.info EXCEPT ![c] = link]
    <3>1. AppendChunk(b, t, c) = [b EXCEPT !.lists = l, !.info = i]
      BY <2>2 DEF AppendChunk
    <3> HIDE DEF l, i
    <3>2. IsCopy([b EXCEPT !.lists = l, !.info = i])
      BY ExceptIsCopy
    <3> QED
      BY <2>1, <3>1, <3>2, Zenon
  <2>3. CASE tail # INVALID_CHUNK_ID
    <3> DEFINE l == [b.lists EXCEPT ![t].end = c]
               i == [b.info EXCEPT ![tail].next = c, ![c] = link]
    <3>1. AppendChunk(b, t, c) = [b EXCEPT !.lists = l, !.info = i]
      BY <2>3 DEF AppendChunk
    <3> HIDE DEF l, i
    <3>2. IsCopy([b EXCEPT !.lists = l, !.info = i])
      BY ExceptIsCopy
    <3> QED
      BY <2>1, <3>1, <3>2, Zenon
  <2> QED
    BY <2>2, <2>3
<1>10. CASE p.op = "unlink"
  <2>1. Made(p, b) = RemoveChunk(b, p.c)
    BY <1>10 DEF Made
  <2> DEFINE c == p.c
             r == b.info[c]
             no == INVALID_CHUNK_ID
             l0 == [b.lists EXCEPT ![r.list] = [begin |-> no, end |-> no]]
             l1 == [b.lists EXCEPT ![r.list].begin = r.next]
             i1 == [b.info EXCEPT ![r.next].prev = no]
             l2 == [b.lists EXCEPT ![r.list].end = r.prev]
             i2 == [b.info EXCEPT ![r.prev].next = no]
  <2>2. RemoveChunk(b, c) \in {b, [b EXCEPT !.lists = l0], [b EXCEPT !.info = i1, !.lists = l1],
                               [b EXCEPT !.info = i2, !.lists = l2]}
    BY DEF RemoveChunk
  <2> HIDE DEF l0, l1, i1, l2, i2
  <2>3. /\ IsCopy([b EXCEPT !.lists = l0]) /\ IsCopy([b EXCEPT !.info = i1, !.lists = l1])
        /\ IsCopy([b EXCEPT !.info = i2, !.lists = l2])
    BY ExceptIsCopy
  <2> QED
    BY <2>1, <2>2, <2>3, Zenon
<1>11. CASE p.op \in {"hist", "latest", "expire", "wip", "freecap"}
  <2>1. CASE p.op = "hist"
    BY <2>1, ExceptIsCopy DEF Made
  <2>2. CASE p.op = "latest"
    <3> DEFINE u == [b.latest EXCEPT ![p.mark] = p.v]
    <3>1. Made(p, b) = [b EXCEPT !.latest = u]
      BY <2>2 DEF Made
    <3> HIDE DEF u
    <3>2. IsCopy([b EXCEPT !.latest = u])
      BY ExceptIsCopy
    <3> QED
      BY <3>1, <3>2, Zenon
  <2>3. CASE p.op = "expire"
    BY <2>3, ExceptIsCopy DEF Made
  <2>4. CASE p.op = "wip"
    BY <2>4, ExceptIsCopy DEF Made
  <2>5. CASE p.op = "freecap"
    <3> DEFINE u == b.freecap + p.n
    <3>1. Made(p, b) = [b EXCEPT !.freecap = u]
      BY <2>5 DEF Made
    <3> HIDE DEF u
    <3>2. IsCopy([b EXCEPT !.freecap = u])
      BY ExceptIsCopy
    <3> QED
      BY <3>1, <3>2, Zenon
  <2> QED
    BY <1>11, <2>1, <2>2, <2>3, <2>4, <2>5
<1> QED
  BY <1>4, <1>5, <1>6, <1>7, <1>8, <1>9, <1>10, <1>11 DEF PrimOps

\* What a primitive makes of the first copy
LEMMA ApplyFirst ==
    ASSUME NEW p, p.op \in PrimOps
    PROVE  Apply(p, copies, 0) = Made(p, copies[0])
BY DEF Apply, Made, PrimOps

\* and of the second, when it has run on the first
LEMMA ApplySecond ==
    ASSUME NEW p, p.op \in PrimOps, copies[0] = Made(p, copies[1]), NotLast(p, copies[1])
    PROVE  Apply(p, copies, 1) = Made(p, copies[1])
<1>1. CASE p.op # "assign"
  BY <1>1 DEF Apply, Made, PrimOps
<1>2. CASE p.op = "assign"
  <2> DEFINE b == copies[1]
             a == Assign(b, p.v, p.o)
  <2>1. Apply(p, copies, 1) = UpdateRootOffset(b, p.v, p.o, copies[0])
    BY <1>2 DEF Apply
  <2>2. Made(p, b) = UpdateRootOffset(b, p.v, p.o, a)
    BY <1>2 DEF Made
  <2>3. UpdateRootOffset(b, p.v, p.o, a) = a
    BY <1>2 DEF UpdateRootOffset, NotLast
  <2> QED
    BY <2>1, <2>2, <2>3
<1> QED
  BY <1>1, <1>2

\* The same of equal copies
LEMMA EqualGone ==
    ASSUME EqualInv, Exit, UNCHANGED <<copies, magic>>, side = 0
    PROVE  EqualInv'
BY DEF EqualInv, EqualInStep, Exit

LEMMA EqualQuiet ==
    ASSUME EqualInv, Quiet
    PROVE  EqualInv'
BY DEF EqualInv, EqualInStep, Quiet, Exit

LEMMA EqualHoldDirty ==
    ASSUME EqualInv, HoldDirty
    PROVE  EqualInv'
BY DEF EqualInv, EqualInStep, HoldDirty, volatile

\* A primitive on one copy.  The assertion it makes on the second one holds, because it held on
\* the first.
LEMMA EqualRunPrim ==
    ASSUME EqualInv, RunPrim, ~ErasesLast
    PROVE  EqualInv'
<1> DEFINE p == Head(todo)
<1>1. pc \in {"creating", "open"} /\ todo # <<>> /\ p.op \in PrimOps /\ side \in 0 .. 1 /\ EqualInStep
  BY DEF RunPrim, InPrim, item, EqualInv
<1>2. CASE ~PrimAssert(p, copies[side])
  <2>1. Exit /\ UNCHANGED <<copies, magic>>
    BY <1>2 DEF RunPrim, item, Abort
  <2>2. side = 0
    BY <1>1, <1>2 DEF EqualInStep
  <2> QED
    BY <2>1, <2>2, EqualGone
<1>3. CASE PrimAssert(p, copies[side])
  <2>1. /\ copies' = [copies EXCEPT ![side] = Apply(p, copies, side)]
        /\ side' = 1 - side /\ pc' = pc /\ magic' = magic
        /\ todo' = IF side = 1 THEN Tail(todo) ELSE todo
    BY <1>3 DEF RunPrim, item
  <2>2. DOMAIN copies = 0 .. 1 /\ IsCopy(copies[0]) /\ IsCopy(copies[1]) /\ DOMAIN magic = 0 .. 1
    BY DEF EqualInv
  <2>3. CASE side = 0
    <3>1. copies'[0] = Made(p, copies[0]) /\ copies'[1] = copies[1] /\ side' = 1 /\ todo' = todo
      BY <1>1, <2>1, <2>2, <2>3, ApplyFirst
    <3>2. copies[0] = copies[1]
      BY <1>1, <2>3 DEF EqualInStep
    <3>3. NotLast(p, copies[0])
      BY <1>1, <2>3 DEF NotLast, ErasesLast, InPrim, item, front
    <3>4. \A i \in 0 .. 1 : IsCopy(copies'[i])
      BY <1>1, <2>2, <3>1, MadeIsCopy
    <3>5. DOMAIN copies' = 0 .. 1
      BY <2>1, <2>2
    <3>6. EqualInStep'
      BY <1>1, <1>3, <2>1, <2>3, <3>1, <3>2, <3>3 DEF EqualInStep
    <3> QED
      BY <1>1, <2>1, <2>2, <3>1, <3>4, <3>5, <3>6 DEF EqualInv
  <2>4. CASE side = 1
    <3>1. copies[0] = Made(p, copies[1]) /\ NotLast(p, copies[1])
      BY <1>1, <2>4 DEF EqualInStep
    <3>2. copies'[0] = copies[0] /\ copies'[1] = Made(p, copies[1]) /\ side' = 0
      BY <1>1, <2>1, <2>2, <2>4, <3>1, ApplySecond
    <3>3. \A i \in 0 .. 1 : IsCopy(copies'[i])
      BY <2>2, <3>1, <3>2
    <3>4. DOMAIN copies' = 0 .. 1
      BY <2>1, <2>2
    <3>5. EqualInStep'
      BY <3>1, <3>2 DEF EqualInStep
    <3> QED
      BY <1>1, <2>1, <2>2, <3>2, <3>3, <3>4, <3>5 DEF EqualInv
  <2> QED
    BY <1>1, <2>3, <2>4
<1> QED
  BY <1>2, <1>3

\* db_copy leaves the ring's storage out, which is the same in both copies.
LEMMA EqualHeal ==
    ASSUME EqualInv, pc \in {"heal_magic", "heal_dirty"}, NEW dst \in 0 .. 1, DbCopyOnto(dst),
           dst = 0 \/ magic[0]
    PROVE  EqualInv'
<1>1. CASE dirty[1 - dst]
  <2>1. Exit /\ UNCHANGED <<copies, magic>> /\ side = 0
    BY <1>1 DEF DbCopyOnto, Abort, EqualInv
  <2> QED
    BY <2>1, EqualGone
<1>2. CASE ~dirty[1 - dst]
  <2>1. pc' = pc /\ side' = side
    BY <1>2 DEF DbCopyOnto, volatile
  <2>2. CASE ~dirty[dst]
    BY <1>2, <2>1, <2>2 DEF DbCopyOnto, EqualInv
  <2>3. CASE dirty[dst]
    <3>1. /\ copies' = [copies EXCEPT ![dst] = DbCopy(@, copies[1 - dst])]
          /\ magic' = [magic EXCEPT ![dst] = magic[1 - dst]]
      BY <1>2, <2>3 DEF DbCopyOnto
    <3>2. /\ DOMAIN copies = 0 .. 1 /\ DOMAIN magic = 0 .. 1 /\ side = 0
          /\ IsCopy(copies[0]) /\ IsCopy(copies[1]) /\ copies[0].slots = copies[1].slots
      BY DEF EqualInv
    <3>3. ASSUME NEW b, NEW d, IsCopy(b), b.slots = d.slots
          PROVE  DbCopy(d, b) = b
      BY <3>3 DEF DbCopy, IsCopy, CopyFields
    <3>4. copies'[dst] = copies[1 - dst] /\ copies'[1 - dst] = copies[1 - dst]
      <4>1. DbCopy(copies[dst], copies[1 - dst]) = copies[1 - dst]
        BY <3>2, <3>3
      <4> QED
        BY <3>1, <3>2, <4>1
    <3>5. copies'[0] = copies'[1] /\ \A i \in 0 .. 1 : IsCopy(copies'[i])
      BY <3>2, <3>4
    <3>6. DOMAIN copies' = 0 .. 1 /\ DOMAIN magic' = 0 .. 1
      BY <3>1, <3>2
    <3> QED
      BY <2>1, <3>2, <3>5, <3>6 DEF EqualInv
  <2> QED
    BY <2>2, <2>3
<1> QED
  BY <1>1, <1>2

LEMMA NewIsCopy == IsCopy(EmptyCopy) /\ IsCopy(NewCopy)
<1>1. IsCopy(EmptyCopy)
  BY DEF EmptyCopy, IsCopy, CopyFields
<1>2. ASSUME NEW i, NEW l PROVE IsCopy([EmptyCopy EXCEPT !.info = i, !.lists = l])
  BY <1>1, ExceptIsCopy
<1> QED
  BY <1>1, <1>2 DEF NewCopy

\* The phases of set_io
LEMMA EqualSetIo ==
    ASSUME EqualInv, HealMagic \/ HealDirty \/ UseTorn \/ Attach \/ WriteMagic
    PROVE  EqualInv'
<1>1. CASE HealMagic
  <2>1. CASE ~magic[0] /\ magic[1]
    BY <1>1, <2>1, EqualHeal DEF HealMagic
  <2>2. CASE ~(~magic[0] /\ magic[1])
    BY <1>1, <2>2 DEF HealMagic, GoTo, EqualInv
  <2> QED
    BY <2>1, <2>2
<1>2. CASE HealDirty
  <2>1. CASE BothMagic /\ dirty[0]
    BY <1>2, <2>1, EqualHeal DEF HealDirty, BothMagic
  <2>2. CASE BothMagic /\ ~dirty[0] /\ dirty[1]
    BY <1>2, <2>2, EqualHeal DEF HealDirty, BothMagic
  <2>3. CASE ~BothMagic \/ (~dirty[0] /\ ~dirty[1])
    BY <1>2, <2>3 DEF HealDirty, GoTo, EqualInv, BothMagic
  <2> QED
    BY <2>1, <2>2, <2>3
<1>3. CASE UseTorn
  BY <1>3, EqualGone DEF UseTorn, Abort, EqualInv
<1>4. CASE Attach
  <2>0. pc = "attach" /\ side = 0
    BY <1>4 DEF Attach, EqualInv
  <2>1. CASE ~magic[0] /\ \E c \in Chunks : disk[c] # <<>>
    BY <1>4, <2>0, <2>1, EqualGone DEF Attach, Abort
  <2>2. CASE magic[0]
    <3>1. UNCHANGED <<copies, magic, side>> /\ pc' = "open"
      BY <1>4, <2>2 DEF Attach
    <3> QED
      BY <2>0, <2>2, <3>1 DEF EqualInv, EqualInStep
  <2>3. CASE ~magic[0] /\ ~\E c \in Chunks : disk[c] # <<>>
    <3>1. UNCHANGED <<magic, side>> /\ pc' = "creating" /\ copies' = [i \in 0 .. 1 |-> NewCopy]
      BY <1>4, <2>3 DEF Attach
    <3>2. copies'[0] = copies'[1] /\ \A i \in 0 .. 1 : IsCopy(copies'[i])
      BY <3>1, NewIsCopy
    <3> QED
      BY <2>0, <3>1, <3>2, NewIsCopy DEF EqualInv, EqualInStep
  <2> QED
    BY <2>1, <2>2, <2>3
<1>5. CASE WriteMagic
  <2>1. /\ UNCHANGED <<copies, side>> /\ pc = "creating" /\ pc' \in {"creating", "open"}
        /\ Head(todo).op \notin PrimOps
        /\ magic' = [magic EXCEPT ![item.i] = TRUE]
    BY <1>5 DEF WriteMagic, item, PrimOps
  <2> QED
    BY <2>1 DEF EqualInv, EqualInStep
<1> QED
  BY <1>1, <1>2, <1>3, <1>4, <1>5

\* A database is opened, or the first copy is wiped.
LEMMA EqualOpen ==
    ASSUME EqualInv, (\E h, then : Open(h, then)) \/ ZapFront
    PROVE  EqualInv'
<1>1. CASE \E h, then : Open(h, then)
  BY <1>1 DEF Open, EqualInv
<1>2. CASE ZapFront
  <2>1. /\ copies' = [copies EXCEPT ![0] = [EmptyCopy EXCEPT !.slots = front.slots]]
        /\ magic' = [magic EXCEPT ![0] = FALSE] /\ UNCHANGED <<pc, side>> /\ pc = "closed"
    BY <1>2 DEF ZapFront, volatile
  <2>2. ASSUME NEW u PROVE IsCopy([EmptyCopy EXCEPT !.slots = u]) /\ [EmptyCopy EXCEPT !.slots = u].slots = u
    BY NewIsCopy, NewCopyFields, ExceptIsCopy DEF CopyFields
  <2>3. /\ copies'[0] = [EmptyCopy EXCEPT !.slots = copies[0].slots] /\ copies'[1] = copies[1]
        /\ DOMAIN copies' = 0 .. 1 /\ DOMAIN magic' = 0 .. 1 /\ ~magic'[0]
    BY <2>1 DEF EqualInv, front
  <2>4. copies'[0].slots = copies'[1].slots /\ IsCopy(copies'[0]) /\ IsCopy(copies'[1])
    <3>1. copies[0].slots = copies[1].slots /\ IsCopy(copies[1])
      BY <2>1 DEF EqualInv
    <3> QED
      BY <2>2, <2>3, <3>1
  <2> QED
    BY <2>1, <2>3, <2>4 DEF EqualInv
<1> QED
  BY <1>1, <1>2


LEMMA EqualInvariant == Spec /\ []~ErasesLast => []EqualNoExits
<1>1. Init => EqualNoExits
  <2> SUFFICES ASSUME Init PROVE EqualNoExits
    OBVIOUS
  <2>1. /\ copies = [i \in 0 .. 1 |-> EmptyCopy] /\ magic = [i \in 0 .. 1 |-> FALSE]
        /\ pc = "closed" /\ side = 0 /\ crashes = 0
    BY DEF Init
  <2>2. copies[0].slots = copies[1].slots /\ \A i \in 0 .. 1 : IsCopy(copies[i])
    BY <2>1, NewIsCopy
  <2> QED
    BY <2>1, <2>2 DEF EqualNoExits, EqualInv
<1>2. EqualNoExits /\ ~ErasesLast /\ [Next]_vars => EqualNoExits'
  <2> SUFFICES ASSUME EqualNoExits, ~ErasesLast, [Next]_vars PROVE EqualNoExits'
    OBVIOUS
  <2>1. CASE Call \/ Lookup \/ Store
    <3>1. crashes' = crashes
      BY <2>1, LoudOrQuiet, ExitsCounted
    <3>2. ASSUME EqualInv PROVE EqualInv'
      BY <2>1, <3>2, LoudOrQuiet, EqualQuiet, EqualOpen, EqualSetIo, EqualHoldDirty, EqualRunPrim
         DEF LoudStep
    <3> QED
      BY <3>1, <3>2 DEF EqualNoExits
  <2>2. CASE Crash
    <3>1. crashes' = crashes + 1
      BY <2>2 DEF Crash
    <3> QED
      BY <3>1 DEF EqualNoExits
  <2>3. CASE UNCHANGED vars
    BY <2>3 DEF vars, EqualNoExits, EqualInv, EqualInStep
  <2> QED
    BY <2>1, <2>2, <2>3 DEF Next
<1> QED
  BY <1>1, <1>2, PTL DEF Spec

\* The first part of CopiesAgree: as long as no process died suddenly and the only version was
\* never taken away, the backup is equal to the first copy between any two operations.
CopiesEqual == crashes = 0 /\ pc = "open" /\ todo = <<>> => copies[1] = copies[0]

\* update_root_offset and the other updates of the metadata make the same of both copies,
\* although each is made on one copy and then on the other, and set_io heals what a failed
\* assertion or a wiped front copy leaves, although db_copy leaves the ring's storage out.
THEOREM CopiesEqualAlways == Spec /\ []~ErasesLast => []CopiesEqual
<1>1. EqualNoExits => CopiesEqual
  BY DEF EqualNoExits, EqualInv, EqualInStep, CopiesEqual
<1> QED
  BY <1>1, EqualInvariant, PTL
============================================================================
