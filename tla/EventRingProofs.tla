--------------------------- MODULE EventRingProofs ---------------------------
(***************************************************************************)
(* Theorems about EventRing, for every number of recorders and iterators   *)
(* and all sizes of the ring.                                              *)
(***************************************************************************)
EXTENDS EventRing, TLAPS, FiniteSetTheorems

----------------------------------------------------------------------------
RecPlaces == {"idle", "bytes", "invalidate", "window", "slide", "fill", "payload", "commit"}
IterPlaces == {"idle", "offset", "tag", "reload", "check", "memcpy", "recheck", "got", "sync"}

RecStates == [at : RecPlaces, seqno : Nat, begin : Nat, start : Int]
Descriptors == [seqno : Nat, offset : Nat, tag : Int]
IterStates ==
    [at : IterPlaces, last : Nat, seqno : Nat, event : [offset : Nat, tag : Int],
     bytes : SUBSET Int, result : {"none", "not_ready", "gap", "success"},
     op : {"next", "copy", "early"}]

RingTypes ==
    /\ lastSeqno \in Nat /\ nextByte \in Nat /\ windowStart \in Int
    /\ desc \in [0 .. DescCapacity - 1 -> Descriptors]
    /\ payload \in [0 .. PayloadBuf - 1 -> Int]
    /\ rec \in [Recorders -> RecStates]
    /\ iter \in [Readers -> IterStates]

\* A recorder has a sequence number, bytes, the slot's descriptor to itself, and a
\* window that makes room for its payload.
Active(w) == rec[w].at # "idle"
HasBytes(w) == rec[w].at \notin {"idle", "bytes"}
OwnsSlot(w) == rec[w].at \in {"window", "slide", "fill", "payload", "commit"}
Passed(w) == rec[w].at \in {"fill", "payload", "commit"}

\* The numbers of events being recorded are those of the last turn of the ring.
Numbered ==
    \A w \in Recorders : Active(w) =>
        1 <= rec[w].seqno /\ rec[w].seqno <= lastSeqno /\ lastSeqno < rec[w].seqno + DescCapacity

Distinct ==
    \A w, x \in Recorders : w # x /\ Active(w) /\ Active(x) => rec[w].seqno # rec[x].seqno

\* A descriptor with a number is whole, in its slot, and no longer being recorded.
DescSound ==
    \A s \in 0 .. DescCapacity - 1 : desc[s].seqno # 0 =>
        /\ desc[s].seqno <= lastSeqno /\ Slot(desc[s].seqno) = s
        /\ desc[s].tag = desc[s].seqno
        /\ \A w \in Recorders : Active(w) => rec[w].seqno # desc[s].seqno

\* A recorder's slot has no number until the event is committed, and has what was
\* stored in it.
RecorderSlot ==
    \A w \in Recorders :
        /\ OwnsSlot(w) => desc[Slot(rec[w].seqno)].seqno = 0
        /\ rec[w].at \in {"payload", "commit"} => desc[Slot(rec[w].seqno)].offset = rec[w].begin
        /\ rec[w].at = "commit" => desc[Slot(rec[w].seqno)].tag = rec[w].seqno

RecInv == Numbered /\ Distinct /\ DescSound /\ RecorderSlot

\* A copy of an event that was complete: as long as the slot has its number, what was
\* copied is what the slot has; once it has not, the event is overwritten for good.
Copying(r) == iter[r].at \in {"offset", "tag", "reload"} /\ iter[r].op # "early"

CopySound(r) ==
    LET q == iter[r].seqno
        d == desc[Slot(q)]
    IN  /\ 1 <= q /\ q <= lastSeqno
        /\ \A w \in Recorders : Active(w) => rec[w].seqno # q
        /\ iter[r].op = "next" => q = iter[r].last + 1
        /\ d.seqno # q => lastSeqno >= q + DescCapacity
        /\ d.seqno = q =>
             /\ iter[r].at \in {"tag", "reload"} => iter[r].event.offset = d.offset
             /\ iter[r].at = "reload" => iter[r].event.tag = d.tag

CopiesSound == \A r \in Readers : Copying(r) => CopySound(r)

CopyInv == CopiesSound /\ CopyIntact /\ GapIsReal

----------------------------------------------------------------------------
\* Numbers with the same remainder are a whole divisor apart.
LEMMA SameRemainder ==
    ASSUME NEW d \in Nat \ {0}, NEW a \in Int, NEW b \in Int, a % d = b % d, a < b
    PROVE  a + d <= b
<1>1. a = d * (a \div d) + (a % d) /\ b = d * (b \div d) + (b % d)
  OBVIOUS
<1>2. a \div d \in Int /\ b \div d \in Int /\ a % d \in Int
  OBVIOUS
<1> DEFINE p == a \div d
           q == b \div d
<1>3. b - a = d * (q - p)
  BY <1>1, <1>2
<1> HIDE DEF p, q
<1>4. p \in Int /\ q \in Int
  BY <1>2 DEF p, q
<1>5. q - p >= 1
  BY <1>3, <1>4
<1>6. d * (q - p) >= d
  BY <1>4, <1>5
<1> QED
  BY <1>3, <1>6

LEMMA SlotRange ==
    ASSUME NEW seqno \in Int
    PROVE  Slot(seqno) \in 0 .. DescCapacity - 1
BY EventRingAssumption DEF Slot

\* Different numbers that share a slot are a turn of the ring apart.
LEMMA SlotTurn ==
    ASSUME NEW a \in Int, NEW b \in Int, Slot(a) = Slot(b), a < b
    PROVE  a + DescCapacity <= b
<1> DEFINE u == a - 1
           v == b - 1
<1>1. u % DescCapacity = v % DescCapacity
  BY DEF Slot
<1>2. u \in Int /\ v \in Int /\ u < v /\ DescCapacity \in Nat \ {0}
  BY EventRingAssumption
<1> HIDE DEF u, v
<1>3. u + DescCapacity <= v
  BY <1>1, <1>2, SameRemainder
<1> QED
  BY <1>2, <1>3 DEF u, v

\* Rounding up gives the next multiple: beyond any multiple below, by the alignment.
LEMMA RoundUpIs ==
    ASSUME NEW n \in Nat, NEW align \in Nat \ {0}
    PROVE  /\ RoundUp(n, align) \in Nat /\ RoundUp(n, align) >= n
           /\ RoundUp(n, align) <= n + align - 1
           /\ \E k \in Int : RoundUp(n, align) = k * align
<1> DEFINE k == (n + align - 1) \div align
           m == (n + align - 1) % align
<1>1. k \in Int /\ m \in 0 .. align - 1 /\ n + align - 1 = align * k + m
  OBVIOUS
<1>2. RoundUp(n, align) = k * align
  BY DEF RoundUp
<1> HIDE DEF k, m
<1>3. k * align \in Int /\ k * align >= n /\ k * align <= n + align - 1
  BY <1>1
<1> QED
  BY <1>1, <1>2, <1>3

LEMMA NextMultiple ==
    ASSUME NEW align \in Nat \ {0}, NEW k \in Int, NEW m \in Int, m * align < k * align
    PROVE  m * align + align <= k * align
<1>1. m < k
  OBVIOUS
<1>2. m + 1 <= k
  BY <1>1
<1>3. (m + 1) * align <= k * align
  BY <1>2
<1> QED
  BY <1>3

----------------------------------------------------------------------------
\* Types

LEMMA RingTypesInit == EventRingInit => RingTypes
<1> SUFFICES ASSUME EventRingInit PROVE RingTypes
  OBVIOUS
<1>1. lastSeqno \in Nat /\ nextByte \in Nat /\ windowStart \in Int
  BY DEF EventRingInit
<1>2. desc \in [0 .. DescCapacity - 1 -> Descriptors] /\ payload \in [0 .. PayloadBuf - 1 -> Int]
  BY DEF EventRingInit, Descriptors, Old
<1>3. rec \in [Recorders -> RecStates]
  BY DEF EventRingInit, RecStates, RecPlaces, RecIdle
<1>4. IterIdle(0, "none") \in IterStates
  BY DEF IterStates, IterPlaces, IterIdle, NoEvent
<1>5. iter \in [Readers -> IterStates]
  BY <1>4 DEF EventRingInit
<1> QED
  BY <1>1, <1>2, <1>3, <1>5 DEF RingTypes

\* The new state of a recorder and of a descriptor; the others stay as they are.
RecBecomes(w, at, seqno, begin, start) ==
    /\ rec' \in [Recorders -> RecStates]
    /\ rec'[w].at = at /\ rec'[w].seqno = seqno /\ rec'[w].begin = begin /\ rec'[w].start = start
    /\ \A x \in Recorders : x # w => rec'[x] = rec[x]

DescBecomes(s, seqno, offset, tag) ==
    /\ s \in 0 .. DescCapacity - 1
    /\ desc' \in [0 .. DescCapacity - 1 -> Descriptors]
    /\ desc'[s].seqno = seqno /\ desc'[s].offset = offset /\ desc'[s].tag = tag
    /\ \A t \in 0 .. DescCapacity - 1 : t # s => desc'[t] = desc[t]

LEMMA RecFields ==
    ASSUME RingTypes, NEW w \in Recorders
    PROVE  /\ rec[w].at \in RecPlaces /\ rec[w].seqno \in Nat /\ rec[w].begin \in Nat
           /\ rec[w].start \in Int
           /\ Slot(rec[w].seqno) \in 0 .. DescCapacity - 1
<1>1. rec[w] \in RecStates
  BY DEF RingTypes
<1>2. rec[w].seqno \in Int
  BY <1>1 DEF RecStates
<1>3. Slot(rec[w].seqno) \in 0 .. DescCapacity - 1
  BY <1>2, SlotRange
<1> QED
  BY <1>1, <1>3 DEF RecStates

LEMMA ReserveSeqnoFacts ==
    ASSUME RingTypes, NEW w \in Recorders, ReserveSeqno(w)
    PROVE  /\ RingTypes' /\ rec[w].at = "idle" /\ NotLapped
           /\ lastSeqno' = lastSeqno + 1
           /\ RecBecomes(w, "bytes", lastSeqno + 1, rec[w].begin, rec[w].start)
           /\ UNCHANGED <<nextByte, windowStart, desc, payload, iter>>
<1>1. RecBecomes(w, "bytes", lastSeqno + 1, rec[w].begin, rec[w].start)
  <2>1. rec' = [rec EXCEPT ![w].at = "bytes", ![w].seqno = lastSeqno + 1]
    BY DEF ReserveSeqno
  <2>2. rec \in [Recorders -> RecStates] /\ lastSeqno + 1 \in Nat
    BY DEF RingTypes
  <2> QED
    BY <2>1, <2>2 DEF RecStates, RecPlaces, RecBecomes
<1> QED
  BY <1>1 DEF ReserveSeqno, RingTypes, RecBecomes

LEMMA ReserveBytesFacts ==
    ASSUME RingTypes, NEW w \in Recorders, ReserveBytes(w)
    PROVE  /\ RingTypes' /\ rec[w].at = "bytes"
           /\ nextByte' = nextByte + PayloadSize
           /\ RecBecomes(w, "invalidate", rec[w].seqno, nextByte, rec[w].start)
           /\ UNCHANGED <<lastSeqno, windowStart, desc, payload, iter>>
<1>1. RecBecomes(w, "invalidate", rec[w].seqno, nextByte, rec[w].start)
  BY DEF RingTypes, RecStates, RecPlaces, ReserveBytes, RecBecomes
<1>2. /\ rec[w].at = "bytes" /\ nextByte' = nextByte + PayloadSize
      /\ UNCHANGED <<lastSeqno, windowStart, desc, payload, iter>>
  BY DEF ReserveBytes
<1>3. nextByte' \in Nat
  BY <1>2, EventRingAssumption DEF RingTypes
<1>4. RingTypes'
  BY <1>1, <1>2, <1>3 DEF RingTypes, RecBecomes
<1> QED
  BY <1>1, <1>2, <1>4

LEMMA InvalidateFacts ==
    ASSUME RingTypes, NEW w \in Recorders, Invalidate(w), NEW s, s = Slot(rec[w].seqno)
    PROVE  /\ RingTypes' /\ rec[w].at = "invalidate" /\ s \in 0 .. DescCapacity - 1
           /\ RecBecomes(w, "window", rec[w].seqno, rec[w].begin, rec[w].start)
           /\ DescBecomes(s, 0, desc[s].offset, desc[s].tag)
           /\ UNCHANGED <<lastSeqno, nextByte, windowStart, payload, iter>>
<1>0. s \in 0 .. DescCapacity - 1
  BY RecFields
<1>1. RecBecomes(w, "window", rec[w].seqno, rec[w].begin, rec[w].start)
  BY DEF RingTypes, RecStates, RecPlaces, Invalidate, RecordStep, RecBecomes
<1>2. DescBecomes(s, 0, desc[s].offset, desc[s].tag)
  BY <1>0 DEF RingTypes, RecStates, Descriptors, Invalidate, DescBecomes
<1> QED
  BY <1>0, <1>1, <1>2 DEF Invalidate, RingTypes, RecBecomes, DescBecomes

LEMMA LoadWindowFacts ==
    ASSUME RingTypes, NEW w \in Recorders, LoadWindow(w)
    PROVE  /\ RingTypes' /\ rec[w].at = "window"
           /\ \/ /\ UintSub(PayloadEnd(w), windowStart) > SlidingWindow
                 /\ RecBecomes(w, "slide", rec[w].seqno, rec[w].begin, windowStart)
              \/ /\ ~ (UintSub(PayloadEnd(w), windowStart) > SlidingWindow)
                 /\ RecBecomes(w, "fill", rec[w].seqno, rec[w].begin, rec[w].start)
           /\ UNCHANGED <<lastSeqno, nextByte, windowStart, desc, payload, iter>>
<1>1. \/ /\ UintSub(PayloadEnd(w), windowStart) > SlidingWindow
         /\ RecBecomes(w, "slide", rec[w].seqno, rec[w].begin, windowStart)
      \/ /\ ~ (UintSub(PayloadEnd(w), windowStart) > SlidingWindow)
         /\ RecBecomes(w, "fill", rec[w].seqno, rec[w].begin, rec[w].start)
  BY DEF RingTypes, RecStates, RecPlaces, LoadWindow, RecBecomes
<1> QED
  BY <1>1 DEF LoadWindow, RingTypes, ringShared, RecBecomes

LEMMA SlideWindowFacts ==
    ASSUME RingTypes, NEW w \in Recorders, SlideWindow(w)
    PROVE  /\ RingTypes' /\ rec[w].at = "slide"
           /\ RecBecomes(w, "fill", rec[w].seqno, rec[w].begin, 0)
           /\ windowStart' = IF windowStart = rec[w].start
                             THEN UintSub(RoundUp(PayloadEnd(w), WindowIncr), SlidingWindow)
                             ELSE windowStart
           /\ UNCHANGED <<lastSeqno, nextByte, desc, payload, iter>>
<1>1. RecBecomes(w, "fill", rec[w].seqno, rec[w].begin, 0)
  <2> DEFINE new == [rec[w] EXCEPT !.at = "fill", !.start = 0]
  <2>1. rec' = [rec EXCEPT ![w] = new]
    BY DEF SlideWindow
  <2>2. rec \in [Recorders -> RecStates] /\ 0 \in Int
    BY DEF RingTypes
  <2>3. new \in RecStates
    BY <2>2 DEF RecStates, RecPlaces
  <2>4. new.at = "fill" /\ new.seqno = rec[w].seqno /\ new.begin = rec[w].begin /\ new.start = 0
    BY <2>2 DEF RecStates
  <2> HIDE DEF new
  <2> QED
    BY <2>1, <2>2, <2>3, <2>4 DEF RecBecomes
<1>3. PayloadEnd(w) \in Nat /\ SlidingWindow \in Int
  BY RecFields, EventRingAssumption DEF PayloadEnd, SlidingWindow
<1>4. UintSub(RoundUp(PayloadEnd(w), WindowIncr), SlidingWindow) \in Int
  <2>1. RoundUp(PayloadEnd(w), WindowIncr) \in Int /\ Word \in Int
    BY <1>3, RoundUpIs, EventRingAssumption
  <2> QED
    BY <1>3, <2>1 DEF UintSub
<1> QED
  BY <1>1, <1>4 DEF SlideWindow, RingTypes, RecBecomes

LEMMA FillDescriptorFacts ==
    ASSUME RingTypes, NEW w \in Recorders, FillDescriptor(w), NEW s, s = Slot(rec[w].seqno)
    PROVE  /\ RingTypes' /\ rec[w].at = "fill" /\ s \in 0 .. DescCapacity - 1
           /\ RecBecomes(w, "payload", rec[w].seqno, rec[w].begin, rec[w].start)
           /\ DescBecomes(s, desc[s].seqno, rec[w].begin, desc[s].tag)
           /\ UNCHANGED <<lastSeqno, nextByte, windowStart, payload, iter>>
<1>0. s \in 0 .. DescCapacity - 1
  BY RecFields
<1>1. RecBecomes(w, "payload", rec[w].seqno, rec[w].begin, rec[w].start)
  BY DEF RingTypes, RecStates, RecPlaces, FillDescriptor, RecordStep, RecBecomes
<1>2. DescBecomes(s, desc[s].seqno, rec[w].begin, desc[s].tag)
  BY <1>0 DEF RingTypes, RecStates, Descriptors, FillDescriptor, DescBecomes
<1> QED
  BY <1>0, <1>1, <1>2 DEF FillDescriptor, RingTypes, RecBecomes, DescBecomes

LEMMA WritePayloadFacts ==
    ASSUME RingTypes, NEW w \in Recorders, WritePayload(w), NEW s, s = Slot(rec[w].seqno)
    PROVE  /\ RingTypes' /\ rec[w].at = "payload" /\ s \in 0 .. DescCapacity - 1
           /\ RecBecomes(w, "commit", rec[w].seqno, rec[w].begin, rec[w].start)
           /\ DescBecomes(s, desc[s].seqno, desc[s].offset, rec[w].seqno)
           /\ \A b \in 0 .. PayloadBuf - 1 :
                payload'[b] = IF \E i \in rec[w].begin .. PayloadEnd(w) - 1 : b = i % PayloadBuf
                              THEN rec[w].seqno ELSE payload[b]
           /\ UNCHANGED <<lastSeqno, nextByte, windowStart, iter>>
<1>0. s \in 0 .. DescCapacity - 1
  BY RecFields
<1>1. RecBecomes(w, "commit", rec[w].seqno, rec[w].begin, rec[w].start)
  BY DEF RingTypes, RecStates, RecPlaces, WritePayload, RecordStep, RecBecomes
<1>2. DescBecomes(s, desc[s].seqno, desc[s].offset, rec[w].seqno)
  <2>1. desc' = [desc EXCEPT ![s].tag = rec[w].seqno] /\ rec[w].seqno \in Int
    BY RecFields DEF WritePayload
  <2>2. desc \in [0 .. DescCapacity - 1 -> Descriptors]
    BY DEF RingTypes
  <2> QED
    BY <1>0, <2>1, <2>2 DEF Descriptors, DescBecomes
<1>5. DOMAIN payload = 0 .. PayloadBuf - 1
  BY DEF RingTypes
<1>6. \A b \in 0 .. PayloadBuf - 1 :
        payload'[b] = IF \E i \in rec[w].begin .. PayloadEnd(w) - 1 : b = i % PayloadBuf
                      THEN rec[w].seqno ELSE payload[b]
  BY <1>5, Zenon DEF WritePayload
<1>7. payload' \in [0 .. PayloadBuf - 1 -> Int]
  <2>1. payload' = [b \in 0 .. PayloadBuf - 1 |-> payload'[b]]
    BY <1>5, Zenon DEF WritePayload
  <2>2. \A b \in 0 .. PayloadBuf - 1 : payload'[b] \in Int
    BY <1>6, RecFields DEF RingTypes
  <2> QED
    BY <2>1, <2>2
<1> QED
  BY <1>0, <1>1, <1>2, <1>6, <1>7 DEF WritePayload, RingTypes, RecBecomes, DescBecomes

LEMMA CommitFacts ==
    ASSUME RingTypes, NEW w \in Recorders, Commit(w), NEW s, s = Slot(rec[w].seqno)
    PROVE  /\ RingTypes' /\ rec[w].at = "commit" /\ s \in 0 .. DescCapacity - 1
           /\ RecBecomes(w, "idle", 0, 0, 0)
           /\ DescBecomes(s, rec[w].seqno, desc[s].offset, desc[s].tag)
           /\ UNCHANGED <<lastSeqno, nextByte, windowStart, payload, iter>>
<1>0. s \in 0 .. DescCapacity - 1
  BY RecFields
<1>1. RecBecomes(w, "idle", 0, 0, 0)
  BY DEF RingTypes, RecStates, RecPlaces, Commit, RecIdle, RecBecomes
<1>2. DescBecomes(s, rec[w].seqno, desc[s].offset, desc[s].tag)
  BY <1>0 DEF RingTypes, RecStates, Descriptors, Commit, DescBecomes
<1> QED
  BY <1>0, <1>1, <1>2 DEF Commit, RingTypes, RecBecomes, DescBecomes

----------------------------------------------------------------------------
\* The new state of an iterator
IterBecomes(r, new) ==
    /\ new \in IterStates
    /\ iter' \in [Readers -> IterStates]
    /\ iter'[r] = new
    /\ \A x \in Readers : x # r => iter'[x] = iter[x]

\* What an iterator step changes: the iterator
OnlyIter(r, new) == IterBecomes(r, new) /\ UNCHANGED <<ringShared, rec>>

LEMMA IterUpdate ==
    ASSUME RingTypes, NEW r \in Readers, NEW new \in IterStates, iter' = [iter EXCEPT ![r] = new]
    PROVE  IterBecomes(r, new)
BY DEF RingTypes, IterBecomes

LEMMA IterFields ==
    ASSUME RingTypes, NEW r \in Readers
    PROVE  /\ iter[r] \in IterStates
           /\ iter[r].last \in Nat /\ iter[r].seqno \in Nat
           /\ iter[r].event \in [offset : Nat, tag : Int]
           /\ Slot(iter[r].seqno) \in 0 .. DescCapacity - 1
           /\ desc[Slot(iter[r].seqno)] \in Descriptors
<1>1. iter[r] \in IterStates
  BY DEF RingTypes
<1>2. iter[r].seqno \in Int
  BY <1>1 DEF IterStates
<1>3. Slot(iter[r].seqno) \in 0 .. DescCapacity - 1
  BY <1>2, SlotRange
<1> QED
  BY <1>1, <1>3 DEF IterStates, RingTypes

\* An iterator between two calls
LEMMA IdleFacts ==
    ASSUME NEW last \in Nat, NEW result \in {"none", "not_ready", "gap", "success"}
    PROVE  /\ IterIdle(last, result) \in IterStates
           /\ IterIdle(last, result).at = "idle" /\ IterIdle(last, result).last = last
           /\ IterIdle(last, result).result = result
BY DEF IterIdle, IterStates, IterPlaces, NoEvent

LEMMA AnswerFacts ==
    ASSUME RingTypes, NEW r \in Readers, NEW result \in {"none", "not_ready", "gap", "success"},
           Answer(r, result)
    PROVE  IterBecomes(r, IterIdle(iter[r].last, result))
BY IterFields, IdleFacts, IterUpdate DEF Answer

LEMMA TryNextFacts ==
    ASSUME RingTypes, NEW r \in Readers, TryNext(r), NEW s, s = Slot(iter[r].last + 1)
    PROVE  /\ iter[r].at = "idle" /\ s \in 0 .. DescCapacity - 1
           /\ \/ /\ desc[s].seqno = iter[r].last + 1
                 /\ OnlyIter(r, [iter[r] EXCEPT !.at = "offset", !.seqno = iter[r].last + 1, !.op = "next"])
              \/ OnlyIter(r, IterIdle(iter[r].last, "not_ready"))
              \/ /\ desc[s].seqno # iter[r].last + 1
                 /\ ~ (desc[s].seqno < iter[r].last) /\ desc[s].seqno # 0
                 /\ OnlyIter(r, IterIdle(iter[r].last, "gap"))
<1>1. iter[r].last \in Nat /\ iter[r] \in IterStates
  BY IterFields
<1>2. s \in 0 .. DescCapacity - 1
  BY <1>1, SlotRange
<1>3. UNCHANGED <<ringShared, rec>> /\ iter[r].at = "idle"
  BY DEF TryNext
<1>4. CASE desc[s].seqno = iter[r].last + 1
  <2> DEFINE new == [iter[r] EXCEPT !.at = "offset", !.seqno = iter[r].last + 1, !.op = "next"]
  <2>1. iter' = [iter EXCEPT ![r] = new]
    BY <1>4 DEF TryNext
  <2>2. new \in IterStates
    <3> DEFINE n == iter[r].last + 1
    <3>1. n \in Nat
      BY <1>1
    <3> HIDE DEF n
    <3>2. [iter[r] EXCEPT !.at = "offset", !.seqno = n, !.op = "next"] \in IterStates
      BY <1>1, <3>1 DEF IterStates, IterPlaces
    <3> QED
      BY <3>2 DEF n
  <2> HIDE DEF new
  <2>3. OnlyIter(r, new)
    BY <1>3, <2>1, <2>2, IterUpdate DEF OnlyIter
  <2> QED
    BY <1>2, <1>3, <1>4, <2>3 DEF new
<1>5. CASE desc[s].seqno # iter[r].last + 1
  <2>1. Answer(r, IF desc[s].seqno < iter[r].last \/ desc[s].seqno = 0 THEN "not_ready" ELSE "gap")
    BY <1>5 DEF TryNext
  <2>2. CASE desc[s].seqno < iter[r].last \/ desc[s].seqno = 0
    <3>1. Answer(r, "not_ready")
      BY <2>1, <2>2
    <3> QED
      BY <1>2, <1>3, <3>1, AnswerFacts DEF OnlyIter
  <2>3. CASE ~ (desc[s].seqno < iter[r].last \/ desc[s].seqno = 0)
    <3>1. Answer(r, "gap")
      BY <2>1, <2>3
    <3> QED
      BY <1>2, <1>3, <1>5, <2>3, <3>1, AnswerFacts DEF OnlyIter
  <2> QED
    BY <2>2, <2>3
<1> QED
  BY <1>4, <1>5

LEMMA RingTryCopyFacts ==
    ASSUME RingTypes, NEW r \in Readers, RingTryCopy(r)
    PROVE  \E op \in {"copy", "early"} :
             /\ lastSeqno > 0 /\ (op = "copy" => desc[Slot(lastSeqno)].seqno = lastSeqno)
             /\ OnlyIter(r, [iter[r] EXCEPT !.at = "offset", !.seqno = lastSeqno,
                                            !.result = "none", !.op = op])
<1> DEFINE op == IF desc[Slot(lastSeqno)].seqno = lastSeqno THEN "copy" ELSE "early"
           new == [iter[r] EXCEPT !.at = "offset", !.seqno = lastSeqno, !.result = "none", !.op = op]
<1>1. iter' = [iter EXCEPT ![r] = new] /\ UNCHANGED <<ringShared, rec>> /\ lastSeqno > 0
  BY DEF RingTryCopy
<1>2. op \in {"copy", "early"} /\ (op = "copy" => desc[Slot(lastSeqno)].seqno = lastSeqno)
  OBVIOUS
<1> HIDE DEF op
<1>3. new \in IterStates
  <2>1. iter[r] \in IterStates
    BY IterFields
  <2>2. lastSeqno \in Nat
    BY DEF RingTypes
  <2> QED
    BY <1>2, <2>1, <2>2 DEF IterStates, IterPlaces
<1>4. OnlyIter(r, new)
  <2> HIDE DEF new
  <2> QED
    BY <1>1, <1>3, IterUpdate DEF OnlyIter
<1> QED
  BY <1>1, <1>2, <1>4

LEMMA CopyOffsetFacts ==
    ASSUME RingTypes, NEW r \in Readers, CopyOffset(r)
    PROVE  /\ iter[r].at = "offset"
           /\ OnlyIter(r, [iter[r] EXCEPT !.at = "tag",
                !.event = [offset |-> desc[Slot(iter[r].seqno)].offset, tag |-> 0]])
<1> DEFINE event == [offset |-> desc[Slot(iter[r].seqno)].offset, tag |-> 0]
           new == [iter[r] EXCEPT !.at = "tag", !.event = event]
<1>0. [NoEvent EXCEPT !.offset = desc[Slot(iter[r].seqno)].offset] = event
  BY DEF NoEvent
<1> HIDE DEF event
<1>1. iter' = [iter EXCEPT ![r] = new] /\ UNCHANGED <<ringShared, rec>> /\ iter[r].at = "offset"
  BY <1>0 DEF CopyOffset
<1>2. event \in [offset : Nat, tag : Int]
  BY IterFields DEF event, Descriptors
<1>3. new \in IterStates
  BY <1>2, IterFields DEF IterStates, IterPlaces
<1>4. OnlyIter(r, new)
  <2> HIDE DEF new
  <2> QED
    BY <1>1, <1>3, IterUpdate DEF OnlyIter
<1> QED
  BY <1>1, <1>4 DEF event

LEMMA CopyTagFacts ==
    ASSUME RingTypes, NEW r \in Readers, CopyTag(r)
    PROVE  /\ iter[r].at = "tag"
           /\ OnlyIter(r, [iter[r] EXCEPT !.at = "reload",
                !.event = [offset |-> iter[r].event.offset, tag |-> desc[Slot(iter[r].seqno)].tag]])
<1> DEFINE event == [offset |-> iter[r].event.offset, tag |-> desc[Slot(iter[r].seqno)].tag]
           new == [iter[r] EXCEPT !.at = "reload", !.event = event]
<1>0. [iter[r].event EXCEPT !.tag = desc[Slot(iter[r].seqno)].tag] = event
  BY IterFields
<1> HIDE DEF event
<1>1. iter' = [iter EXCEPT ![r] = new] /\ UNCHANGED <<ringShared, rec>> /\ iter[r].at = "tag"
  <2>1. iter' = [iter EXCEPT ![r] =
                   [iter[r] EXCEPT !.at = "reload",
                      !.event = [iter[r].event EXCEPT !.tag = desc[Slot(iter[r].seqno)].tag]]]
    BY Zenon DEF CopyTag
  <2> QED
    BY <1>0, <2>1 DEF CopyTag
<1>2. event \in [offset : Nat, tag : Int]
  BY IterFields DEF event, Descriptors
<1>3. new \in IterStates
  BY <1>2, IterFields DEF IterStates, IterPlaces
<1>4. OnlyIter(r, new)
  <2> HIDE DEF new
  <2> QED
    BY <1>1, <1>3, IterUpdate DEF OnlyIter
<1> QED
  BY <1>1, <1>4 DEF event

LEMMA ReloadFacts ==
    ASSUME RingTypes, NEW r \in Readers, Reload(r), NEW s, s = Slot(iter[r].seqno)
    PROVE  /\ iter[r].at = "reload"
           /\ \/ /\ desc[s].seqno = iter[r].seqno
                 /\ \E last \in Nat :
                      OnlyIter(r, [iter[r] EXCEPT !.at = "check", !.result = "success", !.last = last])
              \/ /\ desc[s].seqno # iter[r].seqno /\ iter[r].op = "next"
                 /\ OnlyIter(r, IterIdle(iter[r].last, "gap"))
              \/ OnlyIter(r, IterIdle(iter[r].last, "none"))
<1>1. UNCHANGED <<ringShared, rec>> /\ iter[r].at = "reload"
  BY DEF Reload
<1>2. CASE desc[s].seqno = iter[r].seqno
  <2> DEFINE last == IF iter[r].op = "next" THEN iter[r].last + 1 ELSE iter[r].last
             new == [iter[r] EXCEPT !.at = "check", !.result = "success", !.last = last]
  <2>1. iter' = [iter EXCEPT ![r] = new]
    BY <1>2 DEF Reload
  <2>2. last \in Nat
    BY IterFields
  <2> HIDE DEF last
  <2>3. new \in IterStates
    BY <2>2, IterFields DEF IterStates, IterPlaces
  <2>4. OnlyIter(r, new)
    <3> HIDE DEF new
    <3> QED
      BY <1>1, <2>1, <2>3, IterUpdate DEF OnlyIter
  <2> QED
    BY <1>1, <1>2, <2>2, <2>4
<1>3. CASE desc[s].seqno # iter[r].seqno
  <2>1. Answer(r, IF iter[r].op = "next" THEN "gap" ELSE "none")
    BY <1>3 DEF Reload
  <2>2. CASE iter[r].op = "next"
    <3>1. Answer(r, "gap")
      BY <2>1, <2>2
    <3> QED
      BY <1>1, <1>3, <2>2, <3>1, AnswerFacts DEF OnlyIter
  <2>3. CASE iter[r].op # "next"
    <3>1. Answer(r, "none")
      BY <2>1, <2>3
    <3> QED
      BY <1>1, <3>1, AnswerFacts DEF OnlyIter
  <2> QED
    BY <2>2, <2>3
<1> QED
  BY <1>2, <1>3

\* The window is looked at before and after the payload is copied.
LEMMA PayloadCheckFacts ==
    ASSUME RingTypes, NEW r \in Readers, PayloadCheck(r)
    PROVE  /\ iter[r].at = "check"
           /\ \/ OnlyIter(r, [iter[r] EXCEPT !.at = "memcpy"])
              \/ OnlyIter(r, IterIdle(iter[r].last, "none"))
<1> DEFINE new == [iter[r] EXCEPT !.at = "memcpy"]
<1>1. iter' = [iter EXCEPT ![r] = new] \/ Answer(r, "none")
  BY DEF PayloadCheck, IterStep
<1>2. UNCHANGED <<ringShared, rec>> /\ iter[r].at = "check"
  BY DEF PayloadCheck
<1>3. new \in IterStates
  BY IterFields DEF IterStates, IterPlaces
<1> HIDE DEF new
<1>4. OnlyIter(r, new) \/ OnlyIter(r, IterIdle(iter[r].last, "none"))
  BY <1>1, <1>2, <1>3, IterUpdate, AnswerFacts DEF OnlyIter
<1> QED
  BY <1>2, <1>4 DEF new

LEMMA PayloadRecheckFacts ==
    ASSUME RingTypes, NEW r \in Readers, PayloadRecheck(r)
    PROVE  /\ iter[r].at = "recheck"
           /\ \/ /\ iter[r].event.offset >= windowStart
                 /\ OnlyIter(r, [iter[r] EXCEPT !.at = "got"])
              \/ OnlyIter(r, IterIdle(iter[r].last, "none"))
<1> DEFINE new == [iter[r] EXCEPT !.at = "got"]
<1>1. \/ iter[r].event.offset >= windowStart /\ iter' = [iter EXCEPT ![r] = new]
      \/ Answer(r, "none")
  BY DEF PayloadRecheck, IterStep
<1>2. UNCHANGED <<ringShared, rec>> /\ iter[r].at = "recheck"
  BY DEF PayloadRecheck
<1>3. new \in IterStates
  BY IterFields DEF IterStates, IterPlaces
<1> HIDE DEF new
<1>4. \/ iter[r].event.offset >= windowStart /\ OnlyIter(r, new)
      \/ OnlyIter(r, IterIdle(iter[r].last, "none"))
  BY <1>1, <1>2, <1>3, IterUpdate, AnswerFacts DEF OnlyIter
<1> QED
  BY <1>2, <1>4 DEF new

LEMMA PayloadMemcpyFacts ==
    ASSUME RingTypes, NEW r \in Readers, PayloadMemcpy(r), NEW o, o = iter[r].event.offset
    PROVE  /\ iter[r].at = "memcpy"
           /\ OnlyIter(r, [iter[r] EXCEPT !.at = "recheck",
                !.bytes = {payload[i % PayloadBuf] : i \in o .. o + PayloadSize - 1}])
<1> DEFINE bytes == {payload[i % PayloadBuf] : i \in o .. o + PayloadSize - 1}
           new == [iter[r] EXCEPT !.at = "recheck", !.bytes = bytes]
<1>1. iter' = [iter EXCEPT ![r] = new] /\ UNCHANGED <<ringShared, rec>> /\ iter[r].at = "memcpy"
  BY DEF PayloadMemcpy
<1>2. bytes \in SUBSET Int
  <2>1. o \in Nat /\ PayloadSize \in Nat /\ PayloadBuf \in Nat \ {0}
    BY IterFields, EventRingAssumption
  <2>2. ASSUME NEW i \in o .. o + PayloadSize - 1 PROVE payload[i % PayloadBuf] \in Int
    <3>1. i % PayloadBuf \in 0 .. PayloadBuf - 1
      BY <2>1
    <3> QED
      BY <3>1 DEF RingTypes
  <2> QED
    BY <2>2
<1> HIDE DEF bytes
<1>3. new \in IterStates
  BY <1>2, IterFields DEF IterStates, IterPlaces
<1>4. OnlyIter(r, new)
  <2> HIDE DEF new
  <2> QED
    BY <1>1, <1>3, IterUpdate DEF OnlyIter
<1> QED
  BY <1>1, <1>4 DEF bytes

\* Between calls, or while sync_wait looks for an event, there is nothing to be wrong but
\* the result, which is the one before or none.
LEMMA RestingFacts ==
    ASSUME RingTypes, NEW r \in Readers, DropEvent(r) \/ Reset(r) \/ SyncWait(r)
    PROVE  \E new \in IterStates :
             /\ OnlyIter(r, new) /\ new.at \in {"idle", "sync"}
             /\ new.result = "none" \/ (new.result = iter[r].result /\ new.last = iter[r].last)
<1>0. iter[r] \in IterStates /\ iter[r].last \in Nat /\ iter[r].seqno \in Nat
  BY IterFields
<1>1. CASE DropEvent(r)
  <2>1. OnlyIter(r, IterIdle(iter[r].last, "none"))
    BY <1>1, AnswerFacts DEF DropEvent, OnlyIter
  <2> QED
    BY <1>0, <2>1, IdleFacts
<1>2. CASE Reset(r)
  <2> DEFINE new == [iter[r] EXCEPT !.at = "sync", !.seqno = lastSeqno]
  <2>1. new \in IterStates
    BY <1>0 DEF IterStates, IterPlaces, RingTypes
  <2>2. iter' = [iter EXCEPT ![r] = new] /\ UNCHANGED <<ringShared, rec>>
    BY <1>2 DEF Reset
  <2>3. new.at = "sync" /\ new.result = iter[r].result /\ new.last = iter[r].last
    BY <1>0 DEF IterStates
  <2> HIDE DEF new
  <2>4. OnlyIter(r, new)
    BY <2>1, <2>2, IterUpdate DEF OnlyIter
  <2> QED
    BY <2>1, <2>3, <2>4
<1>3. CASE SyncWait(r) /\ (iter[r].seqno = 0 \/ desc[Slot(iter[r].seqno)].seqno = iter[r].seqno)
  <2> DEFINE last == IF iter[r].seqno > 0 THEN iter[r].seqno - 1 ELSE 0
  <2>1. last \in Nat
    BY <1>0
  <2>2. iter' = [iter EXCEPT ![r] = IterIdle(last, "none")] /\ UNCHANGED <<ringShared, rec>>
    BY <1>3 DEF SyncWait
  <2> HIDE DEF last
  <2>3. IterIdle(last, "none") \in IterStates
    BY <2>1, IdleFacts
  <2>4. OnlyIter(r, IterIdle(last, "none"))
    BY <2>2, <2>3, IterUpdate DEF OnlyIter
  <2> QED
    BY <2>1, <2>4, IdleFacts
<1>4. CASE SyncWait(r) /\ ~ (iter[r].seqno = 0 \/ desc[Slot(iter[r].seqno)].seqno = iter[r].seqno)
  <2> DEFINE new == [iter[r] EXCEPT !.seqno = iter[r].seqno - 1]
  <2>1. new \in IterStates
    BY <1>0, <1>4 DEF IterStates
  <2>2. iter' = [iter EXCEPT ![r] = new] /\ UNCHANGED <<ringShared, rec>> /\ iter[r].at = "sync"
    BY <1>4 DEF SyncWait
  <2>3. new.at = iter[r].at /\ new.result = iter[r].result /\ new.last = iter[r].last
    BY <1>0 DEF IterStates
  <2> HIDE DEF new
  <2>4. OnlyIter(r, new)
    BY <2>1, <2>2, IterUpdate DEF OnlyIter
  <2> QED
    BY <2>1, <2>2, <2>3, <2>4
<1> QED
  BY <1>1, <1>2, <1>3, <1>4

----------------------------------------------------------------------------
\* Numbers, descriptors and copies of them

\* Two recorders never write to the same slot.
LEMMA SlotsApart ==
    ASSUME RingTypes, Numbered, Distinct, NEW w \in Recorders, NEW x \in Recorders,
           w # x, Active(w), Active(x)
    PROVE  Slot(rec[w].seqno) # Slot(rec[x].seqno)
<1> DEFINE a == rec[w].seqno
           b == rec[x].seqno
<1>1. a \in Int /\ b \in Int /\ a # b /\ a <= lastSeqno /\ b <= lastSeqno
      /\ lastSeqno < a + DescCapacity /\ lastSeqno < b + DescCapacity
  BY RecFields DEF Numbered, Distinct
<1>2. lastSeqno \in Int /\ DescCapacity \in Int
  BY EventRingAssumption DEF RingTypes
<1> HIDE DEF a, b
<1>3. ASSUME Slot(a) = Slot(b) PROVE FALSE
  <2>1. CASE a < b
    BY <1>1, <1>2, <1>3, <2>1, SlotTurn
  <2>2. CASE b < a
    BY <1>1, <1>2, <1>3, <2>2, SlotTurn
  <2> QED
    BY <1>1, <2>1, <2>2
<1> QED
  BY <1>3 DEF a, b

\* A committed event whose slot is being written again is a turn of the ring old.
LEMMA Overwritten ==
    ASSUME RingTypes, Numbered, NEW w \in Recorders, Active(w),
           NEW q \in Nat, q <= lastSeqno, q # rec[w].seqno, Slot(q) = Slot(rec[w].seqno)
    PROVE  lastSeqno >= q + DescCapacity
<1> DEFINE a == rec[w].seqno
<1>1. a \in Int /\ a <= lastSeqno /\ lastSeqno < a + DescCapacity
  BY RecFields DEF Numbered
<1>2. lastSeqno \in Int /\ DescCapacity \in Int
  BY EventRingAssumption DEF RingTypes
<1> HIDE DEF a
<1>3. Slot(q) = Slot(a) /\ q # a
  BY DEF a
<1>4. CASE a < q
  BY <1>1, <1>2, <1>3, <1>4, SlotTurn
<1>5. CASE q < a
  BY <1>1, <1>2, <1>3, <1>5, SlotTurn
<1> QED
  BY <1>1, <1>3, <1>4, <1>5

LEMMA RecInvInit == EventRingInit => RecInv /\ CopyInv
<1> SUFFICES ASSUME EventRingInit PROVE RecInv /\ CopyInv
  OBVIOUS
<1>1. \A w \in Recorders : rec[w].at = "idle"
  BY DEF EventRingInit, RecIdle
<1>2. \A s \in 0 .. DescCapacity - 1 : desc[s].seqno = 0
  BY DEF EventRingInit
<1>3. \A r \in Readers : iter[r].at = "idle" /\ iter[r].result = "none"
  BY DEF EventRingInit, IterIdle
<1>4. RecInv
  BY <1>1, <1>2 DEF RecInv, Numbered, Distinct, DescSound, RecorderSlot, Active, OwnsSlot
<1>5. CopyInv
  BY <1>3 DEF CopyInv, CopiesSound, Copying, CopyIntact, HasEvent, GapIsReal
<1> QED
  BY <1>4, <1>5

LEMMA ReserveSeqnoNumbers ==
    ASSUME RingTypes, RecInv, CopyInv, NEW w \in Recorders, ReserveSeqno(w)
    PROVE  RecInv' /\ CopyInv'
<1>1. /\ RingTypes' /\ rec[w].at = "idle" /\ NotLapped
      /\ lastSeqno' = lastSeqno + 1
      /\ RecBecomes(w, "bytes", lastSeqno + 1, rec[w].begin, rec[w].start)
      /\ UNCHANGED <<nextByte, windowStart, desc, payload, iter>>
  BY ReserveSeqnoFacts
<1>2. lastSeqno \in Nat /\ DescCapacity \in Nat \ {0}
  BY EventRingAssumption DEF RingTypes
<1>3. Numbered'
  BY <1>1, <1>2, RecFields DEF RecInv, Numbered, Active, NotLapped, RecBecomes
<1>4. Distinct'
  BY <1>1, <1>2, RecFields DEF RecInv, Numbered, Distinct, Active, RecBecomes
<1>5. DescSound'
  <2> SUFFICES ASSUME NEW s \in 0 .. DescCapacity - 1, desc[s].seqno # 0
               PROVE  /\ desc[s].seqno <= lastSeqno + 1 /\ Slot(desc[s].seqno) = s
                      /\ desc[s].tag = desc[s].seqno
                      /\ \A x \in Recorders : Active(x)' => rec'[x].seqno # desc[s].seqno
    BY <1>1 DEF DescSound, Slot
  <2>1. desc[s].seqno \in Nat
    BY DEF RingTypes, Descriptors
  <2>2. /\ desc[s].seqno <= lastSeqno /\ Slot(desc[s].seqno) = s /\ desc[s].tag = desc[s].seqno
        /\ \A x \in Recorders : Active(x) => rec[x].seqno # desc[s].seqno
    BY DEF RecInv, DescSound
  <2> QED
    BY <1>1, <1>2, <2>1, <2>2 DEF Active, RecBecomes
<1>6. RecorderSlot'
  BY <1>1 DEF RecInv, RecorderSlot, OwnsSlot, RecBecomes, Slot
<1>7. CopiesSound'
  <2> SUFFICES ASSUME NEW r \in Readers, Copying(r) PROVE CopySound(r)'
    BY <1>1 DEF CopiesSound, Copying
  <2>1. CopySound(r) /\ iter[r].seqno \in Nat
    BY IterFields DEF CopyInv, CopiesSound
  <2>2. \A x \in Recorders : Active(x)' => rec'[x].seqno # iter[r].seqno
    BY <1>1, <1>2, <2>1 DEF CopySound, Active, RecBecomes
  <2> QED
    BY <1>1, <1>2, <2>1, <2>2 DEF CopySound, Slot
<1>8. CopyIntact' /\ GapIsReal'
  BY <1>1, <1>2, IterFields DEF CopyInv, CopyIntact, HasEvent, GapIsReal
<1> QED
  BY <1>3, <1>4, <1>5, <1>6, <1>7, <1>8 DEF RecInv, CopyInv

\* A step that leaves the numbers and the descriptors alone
LEMMA SameNumbers ==
    ASSUME RingTypes, RecInv, CopyInv, NEW w \in Recorders, Active(w),
           NEW at, NEW begin, NEW start, RecBecomes(w, at, rec[w].seqno, begin, start),
           at \in {"invalidate", "slide", "fill"}, at # "invalidate" => OwnsSlot(w),
           UNCHANGED <<lastSeqno, desc, iter>>
    PROVE  RecInv' /\ CopyInv'
<1>1. \A x \in Recorders : rec'[x].seqno = rec[x].seqno /\ (Active(x)' <=> Active(x))
  BY DEF Active, RecBecomes
<1>2. Numbered' /\ Distinct'
  BY <1>1 DEF RecInv, Numbered, Distinct
<1>3. DescSound'
  BY <1>1 DEF RecInv, DescSound, Slot
<1>4. RecorderSlot'
  <2> SUFFICES ASSUME NEW x \in Recorders
               PROVE  /\ OwnsSlot(x)' => desc[Slot(rec[x].seqno)].seqno = 0
                      /\ rec'[x].at \in {"payload", "commit"} =>
                           desc[Slot(rec[x].seqno)].offset = rec'[x].begin
                      /\ rec'[x].at = "commit" => desc[Slot(rec[x].seqno)].tag = rec[x].seqno
    BY <1>1 DEF RecorderSlot, Slot
  <2>1. CASE x = w
    BY <2>1 DEF RecInv, RecorderSlot, OwnsSlot, RecBecomes
  <2>2. CASE x # w
    BY <2>2 DEF RecInv, RecorderSlot, OwnsSlot, RecBecomes
  <2> QED
    BY <2>1, <2>2
<1>5. CopyInv'
  BY <1>1 DEF CopyInv, CopiesSound, Copying, CopySound, Slot, CopyIntact, HasEvent, GapIsReal
<1> QED
  BY <1>2, <1>3, <1>4, <1>5 DEF RecInv

\* A step that writes to the recorder's slot, whose number is or becomes 0
LEMMA SlotRewritten ==
    ASSUME RingTypes, RecInv, CopyInv, NEW w \in Recorders, Active(w),
           NEW s, s = Slot(rec[w].seqno), NEW at \in {"window", "payload", "commit"},
           NEW begin, NEW start, RecBecomes(w, at, rec[w].seqno, begin, start),
           NEW offset, NEW tag, DescBecomes(s, 0, offset, tag),
           at # "window" => offset = begin, at = "commit" => tag = rec[w].seqno,
           UNCHANGED <<lastSeqno, iter>>
    PROVE  RecInv' /\ CopyInv'
<1>1. \A x \in Recorders : rec'[x].seqno = rec[x].seqno /\ (Active(x)' <=> Active(x))
  BY DEF Active, RecBecomes
<1>2. Numbered' /\ Distinct'
  BY <1>1 DEF RecInv, Numbered, Distinct
<1>3. DescSound'
  <2> SUFFICES ASSUME NEW t \in 0 .. DescCapacity - 1, desc'[t].seqno # 0
               PROVE  /\ desc'[t].seqno <= lastSeqno /\ Slot(desc'[t].seqno) = t
                      /\ desc'[t].tag = desc'[t].seqno
                      /\ \A x \in Recorders : Active(x) => rec[x].seqno # desc'[t].seqno
    BY <1>1 DEF DescSound, Slot
  <2>1. desc'[t] = desc[t]
    BY DEF DescBecomes
  <2> QED
    BY <2>1 DEF RecInv, DescSound
<1>4. RecorderSlot'
  <2> SUFFICES ASSUME NEW x \in Recorders
               PROVE  /\ OwnsSlot(x)' => desc'[Slot(rec[x].seqno)].seqno = 0
                      /\ rec'[x].at \in {"payload", "commit"} =>
                           desc'[Slot(rec[x].seqno)].offset = rec'[x].begin
                      /\ rec'[x].at = "commit" => desc'[Slot(rec[x].seqno)].tag = rec[x].seqno
    BY <1>1 DEF RecorderSlot, Slot
  <2>1. CASE x = w
    BY <2>1 DEF OwnsSlot, RecBecomes, DescBecomes
  <2>2. CASE x # w /\ ~ Active(x)
    BY <2>2 DEF Active, OwnsSlot, RecBecomes
  <2>3. CASE x # w /\ Active(x)
    <3>1. Slot(rec[x].seqno) # s /\ Slot(rec[x].seqno) \in 0 .. DescCapacity - 1
      BY <2>3, SlotsApart, RecFields DEF RecInv
    <3>2. desc'[Slot(rec[x].seqno)] = desc[Slot(rec[x].seqno)]
      BY <3>1 DEF DescBecomes
    <3> QED
      BY <2>3, <3>2 DEF RecInv, RecorderSlot, OwnsSlot, RecBecomes
  <2> QED
    BY <2>1, <2>2, <2>3
<1>5. CopiesSound'
  <2> SUFFICES ASSUME NEW r \in Readers, Copying(r) PROVE CopySound(r)'
    BY DEF CopiesSound, Copying
  <2>0. CopySound(r) /\ iter[r].seqno \in Nat /\ Slot(iter[r].seqno) \in 0 .. DescCapacity - 1
    BY IterFields DEF CopyInv, CopiesSound
  <2>1. CASE Slot(iter[r].seqno) # s
    <3>1. desc'[Slot(iter[r].seqno)] = desc[Slot(iter[r].seqno)]
      BY <2>0, <2>1 DEF DescBecomes
    <3> QED
      BY <1>1, <2>0, <3>1 DEF CopySound, Slot
  <2>2. CASE Slot(iter[r].seqno) = s
    <3>1. desc'[Slot(iter[r].seqno)].seqno = 0
      BY <2>2 DEF DescBecomes
    <3>2. lastSeqno >= iter[r].seqno + DescCapacity
      BY <2>0, <2>2, Overwritten DEF CopySound, RecInv
    <3> QED
      BY <1>1, <2>0, <3>1, <3>2 DEF CopySound, Slot
  <2> QED
    BY <2>1, <2>2
<1>6. CopyIntact' /\ GapIsReal'
  BY DEF CopyInv, CopyIntact, HasEvent, GapIsReal
<1> QED
  BY <1>2, <1>3, <1>4, <1>5, <1>6 DEF RecInv, CopyInv

\* Once its number is stored, the descriptor is whole.
LEMMA CommitNumbers ==
    ASSUME RingTypes, RecInv, CopyInv, NEW w \in Recorders, Commit(w)
    PROVE  RecInv' /\ CopyInv'
<1> DEFINE s == Slot(rec[w].seqno)
           n == rec[w].seqno
<1>1. /\ RingTypes' /\ rec[w].at = "commit" /\ s \in 0 .. DescCapacity - 1
      /\ RecBecomes(w, "idle", 0, 0, 0)
      /\ DescBecomes(s, rec[w].seqno, desc[s].offset, desc[s].tag)
      /\ UNCHANGED <<lastSeqno, nextByte, windowStart, payload, iter>>
  BY CommitFacts
<1>2. Active(w) /\ OwnsSlot(w)
  BY <1>1 DEF Active, OwnsSlot
<1>3. n \in Nat /\ 1 <= n /\ n <= lastSeqno
  BY <1>2, RecFields DEF RecInv, Numbered
<1>4. \A x \in Recorders : Active(x)' => x # w /\ rec'[x] = rec[x] /\ Active(x)
  BY <1>1 DEF Active, RecBecomes
<1>5. Numbered' /\ Distinct'
  BY <1>1, <1>4 DEF RecInv, Numbered, Distinct
<1>6. desc[s].seqno = 0 /\ desc[s].tag = n
  BY <1>1, <1>2 DEF RecInv, RecorderSlot
<1>7. DescSound'
  <2> SUFFICES ASSUME NEW t \in 0 .. DescCapacity - 1, desc'[t].seqno # 0
               PROVE  /\ desc'[t].seqno <= lastSeqno /\ Slot(desc'[t].seqno) = t
                      /\ desc'[t].tag = desc'[t].seqno
                      /\ \A x \in Recorders : Active(x)' => rec'[x].seqno # desc'[t].seqno
    BY <1>1 DEF DescSound, Slot
  <2>1. CASE t = s
    <3>1. desc'[t].seqno = n /\ desc'[t].tag = n
      BY <1>1, <1>6, <2>1 DEF DescBecomes
    <3>2. \A x \in Recorders : Active(x)' => rec'[x].seqno # n
      BY <1>2, <1>4 DEF RecInv, Distinct
    <3> QED
      BY <1>3, <2>1, <3>1, <3>2
  <2>2. CASE t # s
    <3>1. desc'[t] = desc[t]
      BY <1>1, <2>2 DEF DescBecomes
    <3> QED
      BY <1>4, <3>1 DEF RecInv, DescSound
  <2> QED
    BY <2>1, <2>2
<1>8. RecorderSlot'
  <2> SUFFICES ASSUME NEW x \in Recorders, Active(x)'
               PROVE  /\ OwnsSlot(x)' => desc'[Slot(rec[x].seqno)].seqno = 0
                      /\ rec'[x].at \in {"payload", "commit"} =>
                           desc'[Slot(rec[x].seqno)].offset = rec'[x].begin
                      /\ rec'[x].at = "commit" => desc'[Slot(rec[x].seqno)].tag = rec[x].seqno
    BY <1>4 DEF RecorderSlot, Slot, Active, OwnsSlot
  <2>1. x # w /\ rec'[x] = rec[x] /\ Active(x)
    BY <1>4
  <2>2. Slot(rec[x].seqno) # s /\ Slot(rec[x].seqno) \in 0 .. DescCapacity - 1
    BY <1>2, <2>1, SlotsApart, RecFields DEF RecInv
  <2>3. desc'[Slot(rec[x].seqno)] = desc[Slot(rec[x].seqno)]
    BY <1>1, <2>2 DEF DescBecomes
  <2> QED
    BY <2>1, <2>3 DEF RecInv, RecorderSlot, OwnsSlot
<1>9. CopiesSound'
  <2> SUFFICES ASSUME NEW r \in Readers, Copying(r) PROVE CopySound(r)'
    BY <1>1 DEF CopiesSound, Copying
  <2>0. CopySound(r) /\ iter[r].seqno \in Nat /\ Slot(iter[r].seqno) \in 0 .. DescCapacity - 1
    BY IterFields DEF CopyInv, CopiesSound
  <2>1. CASE Slot(iter[r].seqno) # s
    <3>1. desc'[Slot(iter[r].seqno)] = desc[Slot(iter[r].seqno)]
      BY <1>1, <2>0, <2>1 DEF DescBecomes
    <3> QED
      BY <1>1, <1>4, <2>0, <3>1 DEF CopySound, Slot
  <2>2. CASE Slot(iter[r].seqno) = s
    <3>1. iter[r].seqno # n
      BY <1>2, <2>0 DEF CopySound
    <3>2. desc'[Slot(iter[r].seqno)].seqno = n
      BY <1>1, <2>2 DEF DescBecomes
    <3>3. lastSeqno >= iter[r].seqno + DescCapacity
      BY <1>2, <2>0, <2>2, <3>1, Overwritten DEF CopySound, RecInv
    <3> QED
      BY <1>1, <1>4, <2>0, <3>1, <3>2, <3>3 DEF CopySound, Slot
  <2> QED
    BY <2>1, <2>2
<1>10. CopyIntact' /\ GapIsReal'
  BY <1>1 DEF CopyInv, CopyIntact, HasEvent, GapIsReal
<1> QED
  BY <1>5, <1>7, <1>8, <1>9, <1>10 DEF RecInv, CopyInv

\* No step of a recorder disturbs the numbers, the descriptors or the copies of them.
LEMMA RecordNumbers ==
    ASSUME RingTypes, RecInv, CopyInv, NEW w \in Recorders, ReserveSeqno(w) \/ Record(w)
    PROVE  RingTypes' /\ RecInv' /\ CopyInv'
<1> DEFINE s == Slot(rec[w].seqno)
<1>1. CASE ReserveSeqno(w)
  BY <1>1, ReserveSeqnoFacts, ReserveSeqnoNumbers
<1>2. CASE ReserveBytes(w)
  BY <1>2, ReserveBytesFacts, SameNumbers DEF Active
<1>3. CASE Invalidate(w)
  <2>1. /\ RingTypes' /\ Active(w)
        /\ RecBecomes(w, "window", rec[w].seqno, rec[w].begin, rec[w].start)
        /\ DescBecomes(s, 0, desc[s].offset, desc[s].tag)
        /\ UNCHANGED <<lastSeqno, iter>>
    BY <1>3, InvalidateFacts DEF Active
  <2> QED
    BY <2>1, SlotRewritten
<1>4. CASE LoadWindow(w)
  BY <1>4, LoadWindowFacts, SameNumbers DEF Active, OwnsSlot
<1>5. CASE SlideWindow(w)
  BY <1>5, SlideWindowFacts, SameNumbers DEF Active, OwnsSlot
<1>6. CASE FillDescriptor(w)
  <2>1. desc[s].seqno = 0
    BY <1>6, FillDescriptorFacts DEF RecInv, RecorderSlot, OwnsSlot
  <2> QED
    BY <1>6, <2>1, FillDescriptorFacts, SlotRewritten DEF Active
<1>7. CASE WritePayload(w)
  <2>1. desc[s].seqno = 0 /\ desc[s].offset = rec[w].begin
    BY <1>7, WritePayloadFacts DEF RecInv, RecorderSlot, OwnsSlot
  <2> QED
    BY <1>7, <2>1, WritePayloadFacts, SlotRewritten DEF Active
<1>8. CASE Commit(w)
  BY <1>8, CommitFacts, CommitNumbers
<1> QED
  BY <1>1, <1>2, <1>3, <1>4, <1>5, <1>6, <1>7, <1>8 DEF Record

\* What an iterator does leaves the ring as it is, and the other iterators.
LEMMA OthersCopies ==
    ASSUME RingTypes, RecInv, CopyInv, NEW r \in Readers, NEW new, OnlyIter(r, new),
           Copying(r)' => CopySound(r)',
           HasEvent(r)' /\ iter'[r].op # "early" => iter'[r].event.tag = iter'[r].seqno,
           iter'[r].result = "gap" => lastSeqno > iter'[r].last + DescCapacity
    PROVE  RingTypes' /\ RecInv' /\ CopyInv'
<1>1. UNCHANGED <<lastSeqno, nextByte, windowStart, desc, payload, rec>>
  BY DEF OnlyIter, ringShared
<1>2. \A x \in Readers : x # r => iter'[x] = iter[x]
  BY DEF OnlyIter, IterBecomes
<1>3. RingTypes'
  BY <1>1 DEF RingTypes, OnlyIter, IterBecomes
<1>4. RecInv'
  BY <1>1 DEF RecInv, Numbered, Distinct, DescSound, RecorderSlot, Active, OwnsSlot, Slot
<1>5. CopiesSound'
  <2> SUFFICES ASSUME NEW x \in Readers, Copying(x)' PROVE CopySound(x)'
    BY DEF CopiesSound
  <2>1. CASE x = r
    BY <2>1
  <2>2. CASE x # r
    <3>1. CopySound(x)
      BY <1>2, <2>2 DEF CopyInv, CopiesSound, Copying
    <3> QED
      BY <1>1, <1>2, <2>2, <3>1 DEF CopySound, Active, Slot
  <2> QED
    BY <2>1, <2>2
<1>6. CopyIntact' /\ GapIsReal'
  BY <1>1, <1>2 DEF CopyInv, CopyIntact, GapIsReal, HasEvent
<1> QED
  BY <1>3, <1>4, <1>5, <1>6 DEF CopyInv

\* An iterator at rest has nothing that could be wrong but a gap.
LEMMA RestingCopies ==
    ASSUME RingTypes, RecInv, CopyInv, NEW r \in Readers, NEW new, OnlyIter(r, new),
           new.at \in {"idle", "sync"},
           new.result = "gap" => lastSeqno > new.last + DescCapacity
    PROVE  RingTypes' /\ RecInv' /\ CopyInv'
<1>1. iter'[r] = new
  BY DEF OnlyIter, IterBecomes
<1>2. ~ Copying(r)' /\ ~ HasEvent(r)'
  BY <1>1 DEF Copying, HasEvent
<1> QED
  BY <1>1, <1>2, OthersCopies

\* What is told of an event's number in its slot: it is complete.
LEMMA CompleteEvent ==
    ASSUME RingTypes, RecInv, NEW q \in Nat, q # 0, desc[Slot(q)].seqno = q
    PROVE  /\ q <= lastSeqno /\ desc[Slot(q)].tag = q
           /\ \A w \in Recorders : Active(w) => rec[w].seqno # q
<1>1. Slot(q) \in 0 .. DescCapacity - 1
  BY SlotRange
<1> QED
  BY <1>1 DEF RecInv, DescSound

LEMMA TryNextCopies ==
    ASSUME RingTypes, RecInv, CopyInv, NEW r \in Readers, TryNext(r)
    PROVE  RingTypes' /\ RecInv' /\ CopyInv'
<1> DEFINE n == iter[r].last + 1
           s == Slot(n)
           new == [iter[r] EXCEPT !.at = "offset", !.seqno = n, !.op = "next"]
<1>0. iter[r] \in IterStates /\ iter[r].last \in Nat /\ n \in Nat /\ n # 0
  BY IterFields
<1>1. /\ s \in 0 .. DescCapacity - 1
      /\ \/ desc[s].seqno = n /\ OnlyIter(r, new)
         \/ OnlyIter(r, IterIdle(iter[r].last, "not_ready"))
         \/ /\ desc[s].seqno # n /\ ~ (desc[s].seqno < iter[r].last) /\ desc[s].seqno # 0
            /\ OnlyIter(r, IterIdle(iter[r].last, "gap"))
  BY TryNextFacts
<1>2. CASE desc[s].seqno = n /\ OnlyIter(r, new)
  <2>0. /\ new.at = "offset" /\ new.seqno = n /\ new.op = "next"
        /\ new.last = iter[r].last /\ new.result = iter[r].result
    BY <1>0 DEF IterStates
  <2>1. iter'[r] = new /\ UNCHANGED <<lastSeqno, nextByte, windowStart, desc, payload, rec>>
    BY <1>2 DEF OnlyIter, IterBecomes, ringShared
  <2>2. n <= lastSeqno /\ \A w \in Recorders : Active(w) => rec[w].seqno # n
    BY <1>0, <1>2, CompleteEvent
  <2> HIDE DEF new
  <2>3. iter'[r].seqno = n /\ iter'[r].last = iter[r].last /\ iter'[r].at = "offset"
        /\ iter'[r].op = "next" /\ iter'[r].result = iter[r].result
    BY <2>0, <2>1
  <2>4. CopySound(r)'
    <3>1. desc'[Slot(iter'[r].seqno)].seqno = iter'[r].seqno
      BY <1>2, <2>1, <2>3 DEF Slot
    <3>2. 1 <= iter'[r].seqno /\ iter'[r].seqno <= lastSeqno'
      BY <1>0, <2>1, <2>2, <2>3
    <3>3. \A w \in Recorders : Active(w)' => rec'[w].seqno # iter'[r].seqno
      BY <2>1, <2>2, <2>3 DEF Active
    <3>4. iter'[r].seqno = iter'[r].last + 1 /\ iter'[r].at \notin {"tag", "reload"}
      BY <2>3
    <3> QED
      BY <3>1, <3>2, <3>3, <3>4 DEF CopySound, Slot
  <2>5. ~ HasEvent(r)'
    BY <2>3 DEF HasEvent
  <2>6. iter'[r].result = "gap" => lastSeqno > iter'[r].last + DescCapacity
    BY <2>3 DEF CopyInv, GapIsReal
  <2> QED
    BY <1>2, <2>4, <2>5, <2>6, OthersCopies
<1>3. CASE OnlyIter(r, IterIdle(iter[r].last, "not_ready"))
  BY <1>0, <1>3, IdleFacts, RestingCopies
<1>4. CASE /\ desc[s].seqno # n /\ ~ (desc[s].seqno < iter[r].last) /\ desc[s].seqno # 0
           /\ OnlyIter(r, IterIdle(iter[r].last, "gap"))
  <2> DEFINE c == desc[s].seqno
  <2>1. c \in Nat /\ c <= lastSeqno /\ Slot(c) = Slot(n)
    BY <1>1, <1>4 DEF RingTypes, Descriptors, RecInv, DescSound
  <2>2. c # n /\ ~ (c < iter[r].last)
    BY <1>4
  <2>3. lastSeqno > iter[r].last + DescCapacity
    <3> HIDE DEF c
    <3>1. lastSeqno \in Nat /\ DescCapacity \in Nat \ {0, 1}
      BY EventRingAssumption DEF RingTypes
    <3>2. CASE c < n
      <4> HIDE DEF n
      <4>1. c + DescCapacity <= n
        BY <1>0, <2>1, <3>2, SlotTurn
      <4> QED
        BY <1>0, <2>1, <2>2, <3>1, <4>1 DEF n
    <3>3. CASE n < c
      <4> HIDE DEF n
      <4>1. n + DescCapacity <= c
        BY <1>0, <2>1, <3>3, SlotTurn
      <4> QED
        BY <1>0, <2>1, <2>2, <3>1, <4>1 DEF n
    <3> QED
      BY <1>0, <2>1, <2>2, <3>2, <3>3
  <2> QED
    BY <1>0, <1>4, <2>3, IdleFacts, RestingCopies
<1> QED
  BY <1>1, <1>2, <1>3, <1>4

LEMMA RingTryCopyCopies ==
    ASSUME RingTypes, RecInv, CopyInv, NEW r \in Readers, RingTryCopy(r)
    PROVE  RingTypes' /\ RecInv' /\ CopyInv'
<1>0. iter[r] \in IterStates /\ lastSeqno \in Nat
  BY IterFields DEF RingTypes
<1>1. PICK op \in {"copy", "early"} :
        /\ lastSeqno > 0 /\ (op = "copy" => desc[Slot(lastSeqno)].seqno = lastSeqno)
        /\ OnlyIter(r, [iter[r] EXCEPT !.at = "offset", !.seqno = lastSeqno,
                                       !.result = "none", !.op = op])
  BY RingTryCopyFacts
<1> DEFINE new == [iter[r] EXCEPT !.at = "offset", !.seqno = lastSeqno, !.result = "none", !.op = op]
<1>2. new.at = "offset" /\ new.seqno = lastSeqno /\ new.result = "none" /\ new.op = op
  BY <1>0 DEF IterStates
<1>3. iter'[r] = new /\ UNCHANGED <<lastSeqno, nextByte, windowStart, desc, payload, rec>>
  BY <1>1 DEF OnlyIter, IterBecomes, ringShared
<1>4. OnlyIter(r, new)
  BY <1>1
<1> HIDE DEF new
<1>5. iter'[r].at = "offset" /\ iter'[r].seqno = lastSeqno /\ iter'[r].result = "none"
      /\ iter'[r].op = op
  BY <1>2, <1>3
<1>6. ASSUME Copying(r)' PROVE CopySound(r)'
  <2>1. op = "copy"
    BY <1>5, <1>6 DEF Copying
  <2>2. desc'[Slot(iter'[r].seqno)].seqno = iter'[r].seqno
    BY <1>1, <1>3, <1>5, <2>1 DEF Slot
  <2>3. \A w \in Recorders : Active(w)' => rec'[w].seqno # iter'[r].seqno
    BY <1>0, <1>1, <1>3, <1>5, <2>1, CompleteEvent DEF Active
  <2>4. 1 <= iter'[r].seqno /\ iter'[r].seqno <= lastSeqno'
    BY <1>0, <1>1, <1>3, <1>5
  <2>5. iter'[r].op # "next" /\ iter'[r].at \notin {"tag", "reload"}
    BY <1>5, <2>1
  <2> QED
    BY <2>2, <2>3, <2>4, <2>5 DEF CopySound, Slot
<1>7. ~ HasEvent(r)'
  BY <1>5 DEF HasEvent
<1> QED
  BY <1>4, <1>5, <1>6, <1>7, OthersCopies

\* A field copied while the number stands is the event's.
LEMMA CopyOffsetCopies ==
    ASSUME RingTypes, RecInv, CopyInv, NEW r \in Readers, CopyOffset(r)
    PROVE  RingTypes' /\ RecInv' /\ CopyInv'
<1> DEFINE event == [offset |-> desc[Slot(iter[r].seqno)].offset, tag |-> 0]
           new == [iter[r] EXCEPT !.at = "tag", !.event = event]
<1>0. iter[r] \in IterStates
  BY IterFields
<1>1. iter[r].at = "offset" /\ OnlyIter(r, new)
  BY CopyOffsetFacts
<1>2. event.offset = desc[Slot(iter[r].seqno)].offset
  OBVIOUS
<1> HIDE DEF event
<1>3. new.at = "tag" /\ new.event = event /\ new.seqno = iter[r].seqno /\ new.op = iter[r].op
      /\ new.last = iter[r].last /\ new.result = iter[r].result
  BY <1>0 DEF IterStates
<1> HIDE DEF new
<1>4. iter'[r] = new /\ UNCHANGED <<lastSeqno, nextByte, windowStart, desc, payload, rec>>
  BY <1>1 DEF OnlyIter, IterBecomes, ringShared
<1>5. ASSUME Copying(r)' PROVE CopySound(r)'
  <2>1. CopySound(r)
    BY <1>1, <1>3, <1>4, <1>5 DEF Copying, CopyInv, CopiesSound
  <2> QED
    BY <1>1, <1>2, <1>3, <1>4, <2>1 DEF CopySound, Active, Slot
<1>6. ~ HasEvent(r)'
  BY <1>3, <1>4 DEF HasEvent
<1>7. iter'[r].result = "gap" => lastSeqno > iter'[r].last + DescCapacity
  BY <1>3, <1>4 DEF CopyInv, GapIsReal
<1> QED
  BY <1>1, <1>5, <1>6, <1>7, OthersCopies

LEMMA CopyTagCopies ==
    ASSUME RingTypes, RecInv, CopyInv, NEW r \in Readers, CopyTag(r)
    PROVE  RingTypes' /\ RecInv' /\ CopyInv'
<1> DEFINE event == [offset |-> iter[r].event.offset, tag |-> desc[Slot(iter[r].seqno)].tag]
           new == [iter[r] EXCEPT !.at = "reload", !.event = event]
<1>0. iter[r] \in IterStates
  BY IterFields
<1>1. iter[r].at = "tag" /\ OnlyIter(r, new)
  BY CopyTagFacts
<1>2. event.offset = iter[r].event.offset /\ event.tag = desc[Slot(iter[r].seqno)].tag
  OBVIOUS
<1> HIDE DEF event
<1>3. new.at = "reload" /\ new.event = event /\ new.seqno = iter[r].seqno /\ new.op = iter[r].op
      /\ new.last = iter[r].last /\ new.result = iter[r].result
  BY <1>0 DEF IterStates
<1> HIDE DEF new
<1>4. iter'[r] = new /\ UNCHANGED <<lastSeqno, nextByte, windowStart, desc, payload, rec>>
  BY <1>1 DEF OnlyIter, IterBecomes, ringShared
<1>5. ASSUME Copying(r)' PROVE CopySound(r)'
  <2>1. CopySound(r)
    BY <1>1, <1>3, <1>4, <1>5 DEF Copying, CopyInv, CopiesSound
  <2> QED
    BY <1>1, <1>2, <1>3, <1>4, <2>1 DEF CopySound, Active, Slot
<1>6. ~ HasEvent(r)'
  BY <1>3, <1>4 DEF HasEvent
<1>7. iter'[r].result = "gap" => lastSeqno > iter'[r].last + DescCapacity
  BY <1>3, <1>4 DEF CopyInv, GapIsReal
<1> QED
  BY <1>1, <1>5, <1>6, <1>7, OthersCopies

\* If the number still stands after the copy, the copy is whole; if not, try_next has
\* missed the event.
LEMMA ReloadCopies ==
    ASSUME RingTypes, RecInv, CopyInv, NEW r \in Readers, Reload(r)
    PROVE  RingTypes' /\ RecInv' /\ CopyInv'
<1> DEFINE s == Slot(iter[r].seqno)
<1>0. iter[r] \in IterStates /\ iter[r].last \in Nat /\ iter[r].seqno \in Nat
  BY IterFields
<1>1. /\ iter[r].at = "reload"
      /\ \/ /\ desc[s].seqno = iter[r].seqno
            /\ \E last \in Nat :
                 OnlyIter(r, [iter[r] EXCEPT !.at = "check", !.result = "success", !.last = last])
         \/ /\ desc[s].seqno # iter[r].seqno /\ iter[r].op = "next"
            /\ OnlyIter(r, IterIdle(iter[r].last, "gap"))
         \/ OnlyIter(r, IterIdle(iter[r].last, "none"))
  BY ReloadFacts
<1>2. ASSUME desc[s].seqno = iter[r].seqno, NEW last \in Nat,
             OnlyIter(r, [iter[r] EXCEPT !.at = "check", !.result = "success", !.last = last])
      PROVE  RingTypes' /\ RecInv' /\ CopyInv'
  <2> DEFINE new == [iter[r] EXCEPT !.at = "check", !.result = "success", !.last = last]
  <2>1. new.at = "check" /\ new.event = iter[r].event /\ new.seqno = iter[r].seqno
        /\ new.op = iter[r].op /\ new.result = "success"
    BY <1>0 DEF IterStates
  <2>2. OnlyIter(r, new) /\ iter'[r] = new
    BY <1>2 DEF OnlyIter, IterBecomes
  <2> HIDE DEF new
  <2>3. iter[r].op # "early" => iter[r].event.tag = iter[r].seqno
    <3> SUFFICES ASSUME iter[r].op # "early" PROVE iter[r].event.tag = iter[r].seqno
      OBVIOUS
    <3>1. CopySound(r)
      BY <1>1 DEF Copying, CopyInv, CopiesSound
    <3>2. iter[r].at = "reload" /\ desc[s].seqno = iter[r].seqno
      BY <1>1, <1>2
    <3>3. iter[r].event.tag = desc[s].tag /\ iter[r].seqno # 0
      BY <1>0, <3>1, <3>2 DEF CopySound
    <3>4. desc[s].tag = iter[r].seqno
      BY <1>0, <3>2, <3>3, CompleteEvent
    <3> QED
      BY <3>3, <3>4
  <2>4. ~ Copying(r)'
    BY <2>1, <2>2 DEF Copying
  <2> QED
    BY <2>1, <2>2, <2>3, <2>4, OthersCopies
<1>3. ASSUME desc[s].seqno # iter[r].seqno, iter[r].op = "next",
             OnlyIter(r, IterIdle(iter[r].last, "gap"))
      PROVE  RingTypes' /\ RecInv' /\ CopyInv'
  <2>1. CopySound(r)
    BY <1>1, <1>3 DEF Copying, CopyInv, CopiesSound
  <2>2. lastSeqno >= iter[r].seqno + DescCapacity /\ iter[r].seqno = iter[r].last + 1
    BY <1>3, <2>1 DEF CopySound
  <2>3. iter[r] \in IterStates /\ lastSeqno \in Nat
    BY <1>0 DEF RingTypes
  <2>4. iter[r].last \in Nat
    BY <2>3 DEF IterStates
  <2>5. DescCapacity \in Nat
    BY EventRingAssumption
  <2>6. lastSeqno > iter[r].last + DescCapacity
    BY <2>2, <2>3, <2>4, <2>5
  <2> QED
    BY <1>0, <1>3, <2>6, IdleFacts, RestingCopies
<1>4. CASE OnlyIter(r, IterIdle(iter[r].last, "none"))
  BY <1>0, <1>4, IdleFacts, RestingCopies
<1> QED
  BY <1>1, <1>2, <1>3, <1>4

\* An iterator that goes on with the event it has
LEMMA EventKept ==
    ASSUME RingTypes, RecInv, CopyInv, NEW r \in Readers, NEW new, OnlyIter(r, new), HasEvent(r),
           new.at \in {"memcpy", "recheck", "got"}, new.event = iter[r].event,
           new.seqno = iter[r].seqno, new.op = iter[r].op, new.last = iter[r].last,
           new.result = iter[r].result
    PROVE  RingTypes' /\ RecInv' /\ CopyInv'
<1>1. iter'[r] = new
  BY DEF OnlyIter, IterBecomes
<1>2. ~ Copying(r)'
  BY <1>1 DEF Copying
<1>3. iter'[r].op # "early" => iter'[r].event.tag = iter'[r].seqno
  BY <1>1 DEF CopyInv, CopyIntact
<1>4. iter'[r].result = "gap" => lastSeqno > iter'[r].last + DescCapacity
  BY <1>1 DEF CopyInv, GapIsReal
<1> QED
  BY <1>2, <1>3, <1>4, OthersCopies

\* The fields of an iterator that goes on
LEMMA GoesOn ==
    ASSUME RingTypes, NEW r \in Readers, NEW at,
           NEW new, new = [iter[r] EXCEPT !.at = at]
    PROVE  /\ new.at = at /\ new.event = iter[r].event /\ new.bytes = iter[r].bytes
           /\ new.seqno = iter[r].seqno /\ new.op = iter[r].op /\ new.last = iter[r].last
           /\ new.result = iter[r].result
<1>1. iter[r] \in IterStates
  BY IterFields
<1> QED
  BY <1>1 DEF IterStates

\* No step of an iterator disturbs what the iterators know of the descriptors.
LEMMA IterateCopies ==
    ASSUME RingTypes, RecInv, CopyInv, NEW r \in Readers,
           TryNext(r) \/ RingTryCopy(r) \/ Reset(r) \/ Iterate(r)
    PROVE  RingTypes' /\ RecInv' /\ CopyInv'
<1>0. iter[r].last \in Nat
  BY IterFields
<1>1. CASE OnlyIter(r, IterIdle(iter[r].last, "none"))
  BY <1>0, <1>1, IdleFacts, RestingCopies
<1>2. CASE PayloadCheck(r)
  <2> DEFINE new == [iter[r] EXCEPT !.at = "memcpy"]
  <2>1. iter[r].at = "check" /\ (OnlyIter(r, new) \/ OnlyIter(r, IterIdle(iter[r].last, "none")))
    BY <1>2, PayloadCheckFacts
  <2>2. new.at = "memcpy" /\ new.event = iter[r].event /\ new.seqno = iter[r].seqno
        /\ new.op = iter[r].op /\ new.last = iter[r].last /\ new.result = iter[r].result
    BY GoesOn
  <2> HIDE DEF new
  <2>3. HasEvent(r)
    BY <2>1 DEF HasEvent
  <2> QED
    BY <1>1, <2>1, <2>2, <2>3, EventKept
<1>3. CASE PayloadRecheck(r)
  <2> DEFINE new == [iter[r] EXCEPT !.at = "got"]
  <2>1. iter[r].at = "recheck" /\ (OnlyIter(r, new) \/ OnlyIter(r, IterIdle(iter[r].last, "none")))
    BY <1>3, PayloadRecheckFacts
  <2>2. new.at = "got" /\ new.event = iter[r].event /\ new.seqno = iter[r].seqno
        /\ new.op = iter[r].op /\ new.last = iter[r].last /\ new.result = iter[r].result
    BY GoesOn
  <2> HIDE DEF new
  <2>3. HasEvent(r)
    BY <2>1 DEF HasEvent
  <2> QED
    BY <1>1, <2>1, <2>2, <2>3, EventKept
<1>4. CASE PayloadMemcpy(r)
  <2> DEFINE o == iter[r].event.offset
             bytes == {payload[i % PayloadBuf] : i \in o .. o + PayloadSize - 1}
             new == [iter[r] EXCEPT !.at = "recheck", !.bytes = bytes]
  <2>1. iter[r].at = "memcpy" /\ OnlyIter(r, new)
    BY <1>4, PayloadMemcpyFacts
  <2> HIDE DEF bytes
  <2>2. new.at = "recheck" /\ new.event = iter[r].event /\ new.seqno = iter[r].seqno
        /\ new.op = iter[r].op /\ new.last = iter[r].last /\ new.result = iter[r].result
    <3>1. iter[r] \in IterStates
      BY IterFields
    <3> QED
      BY <3>1 DEF IterStates
  <2> HIDE DEF new
  <2>3. HasEvent(r)
    BY <2>1 DEF HasEvent
  <2> QED
    BY <2>1, <2>2, <2>3, EventKept
<1>5. CASE DropEvent(r) \/ Reset(r) \/ SyncWait(r)
  <2>1. PICK new \in IterStates :
          /\ OnlyIter(r, new) /\ new.at \in {"idle", "sync"}
          /\ new.result = "none" \/ (new.result = iter[r].result /\ new.last = iter[r].last)
    BY <1>5, RestingFacts
  <2>2. new.result = "gap" => lastSeqno > new.last + DescCapacity
    BY <2>1 DEF CopyInv, GapIsReal
  <2> QED
    BY <2>1, <2>2, RestingCopies
<1>6. CASE TryNext(r)
  BY <1>6, TryNextCopies
<1>7. CASE RingTryCopy(r)
  BY <1>7, RingTryCopyCopies
<1>8. CASE CopyOffset(r)
  BY <1>8, CopyOffsetCopies
<1>9. CASE CopyTag(r)
  BY <1>9, CopyTagCopies
<1>10. CASE Reload(r)
  BY <1>10, ReloadCopies
<1> QED
  BY <1>2, <1>3, <1>4, <1>5, <1>6, <1>7, <1>8, <1>9, <1>10 DEF Iterate

----------------------------------------------------------------------------
\* Bytes of the payload buffer

\* Every number given out has bytes or is about to take them.
Bytes == {w \in Recorders : rec[w].at = "bytes"}
BytesCounted == nextByte = PayloadSize * (lastSeqno - Cardinality(Bytes))

\* A recorder's bytes are taken, and not long after those of the numbers before its own.
Begins ==
    \A w \in Recorders : HasBytes(w) =>
        /\ PayloadEnd(w) <= nextByte
        /\ rec[w].begin >= PayloadSize * (rec[w].seqno - Cardinality(Recorders))

ByteInv == BytesCounted /\ Begins

LEMMA BytesAre == IsFiniteSet(Bytes) /\ Cardinality(Bytes) \in Nat
                  /\ Cardinality(Bytes) <= Cardinality(Recorders) /\ Cardinality(Recorders) \in Nat
<1>1. IsFiniteSet(Recorders) /\ Bytes \subseteq Recorders
  BY EventRingAssumption DEF Bytes
<1> QED
  BY <1>1, FS_Subset, FS_CardinalityType

LEMMA Times ==
    ASSUME NEW s \in Nat, NEW a \in Int, NEW b \in Int, a <= b
    PROVE  s * a <= s * b /\ s * a \in Int /\ s * b \in Int
OBVIOUS

\* What can have been taken since a recorder took its bytes, its own included
Lag == (DescCapacity + Cardinality(Recorders) - 1) * PayloadSize

LEMMA TakenSince ==
    ASSUME RingTypes, Numbered, ByteInv, NEW w \in Recorders, HasBytes(w)
    PROVE  nextByte <= rec[w].begin + Lag /\ Lag \in Int
<1> DEFINE a == lastSeqno - Cardinality(Bytes)
           b == rec[w].seqno - Cardinality(Recorders)
           c == DescCapacity + Cardinality(Recorders) - 1
<1>1. rec[w].seqno \in Nat /\ rec[w].begin \in Nat /\ lastSeqno < rec[w].seqno + DescCapacity
  BY RecFields DEF Numbered, Active, HasBytes
<1>2. a \in Int /\ b \in Int /\ c \in Int /\ a <= b + c /\ PayloadSize \in Nat /\ PayloadBuf \in Nat
  <2> DEFINE n == Cardinality(Recorders)
             m == Cardinality(Bytes)
  <2>1. n \in Nat /\ m \in Nat
    BY BytesAre
  <2>2. DescCapacity \in Nat /\ lastSeqno \in Nat /\ PayloadSize \in Nat /\ PayloadBuf \in Nat
    BY EventRingAssumption DEF RingTypes
  <2> HIDE DEF n, m
  <2>3. lastSeqno - m <= rec[w].seqno - n + (DescCapacity + n - 1)
    BY <1>1, <2>1, <2>2
  <2> QED
    BY <1>1, <2>1, <2>2, <2>3 DEF n, m
<1>3. nextByte = PayloadSize * a /\ rec[w].begin >= PayloadSize * b
  BY DEF ByteInv, BytesCounted, Begins
<1>4. c * PayloadSize = Lag
  BY DEF Lag
<1> HIDE DEF a, b, c
<1>5. PayloadSize * a <= PayloadSize * (b + c)
  BY <1>2, Times
<1>6. PayloadSize * (b + c) = PayloadSize * b + c * PayloadSize
  BY <1>2
<1>7. PayloadSize * a \in Int /\ PayloadSize * b \in Int /\ c * PayloadSize \in Int
  BY <1>2
<1> QED
  BY <1>1, <1>2, <1>3, <1>4, <1>5, <1>6, <1>7

\* It fits the buffer.
LEMMA StillFits ==
    ASSUME RingTypes, Numbered, ByteInv, NEW w \in Recorders, HasBytes(w)
    PROVE  nextByte <= rec[w].begin + PayloadBuf
<1>1. Lag <= PayloadBuf /\ PayloadBuf \in Nat
  BY EventRingAssumption DEF Lag
<1>2. rec[w].begin \in Nat /\ nextByte \in Nat
  BY RecFields DEF RingTypes
<1> QED
  BY <1>1, <1>2, TakenSince

LEMMA ByteInvInit == EventRingInit => ByteInv
<1> SUFFICES ASSUME EventRingInit PROVE ByteInv
  OBVIOUS
<1>1. \A w \in Recorders : rec[w].at = "idle"
  BY DEF EventRingInit, RecIdle
<1>2. Bytes = {}
  BY <1>1 DEF Bytes
<1>3. Cardinality(Bytes) = 0
  BY <1>2, FS_EmptySet
<1>4. BytesCounted
  BY <1>3, EventRingAssumption DEF BytesCounted, EventRingInit
<1>5. Begins
  BY <1>1 DEF Begins, HasBytes
<1> QED
  BY <1>4, <1>5 DEF ByteInv

\* A step that takes no number and no bytes
LEMMA SameBytes ==
    ASSUME RingTypes, ByteInv, NEW w \in Recorders, NEW at, NEW start, NEW seqno, NEW begin,
           RecBecomes(w, at, seqno, begin, start), at # "bytes", HasBytes(w),
           at # "idle" => seqno = rec[w].seqno /\ begin = rec[w].begin,
           UNCHANGED <<lastSeqno, nextByte>>
    PROVE  ByteInv'
<1>1. Bytes' = Bytes
  BY DEF Bytes, HasBytes, RecBecomes
<1>2. BytesCounted'
  BY <1>1 DEF ByteInv, BytesCounted
<1>3. Begins'
  <2> SUFFICES ASSUME NEW x \in Recorders, HasBytes(x)'
               PROVE  /\ rec'[x].begin + PayloadSize <= nextByte
                      /\ rec'[x].begin >= PayloadSize * (rec'[x].seqno - Cardinality(Recorders))
    BY DEF Begins, PayloadEnd
  <2>1. HasBytes(x) /\ rec'[x].begin = rec[x].begin /\ rec'[x].seqno = rec[x].seqno
    BY DEF HasBytes, RecBecomes
  <2> QED
    BY <2>1 DEF ByteInv, Begins, PayloadEnd
<1> QED
  BY <1>2, <1>3 DEF ByteInv

LEMMA ReserveSeqnoBytes ==
    ASSUME RingTypes, ByteInv, NEW w \in Recorders, ReserveSeqno(w)
    PROVE  ByteInv'
<1>1. /\ rec[w].at = "idle" /\ lastSeqno' = lastSeqno + 1
      /\ RecBecomes(w, "bytes", lastSeqno + 1, rec[w].begin, rec[w].start)
      /\ UNCHANGED <<nextByte, windowStart, desc, payload, iter>>
  BY ReserveSeqnoFacts
<1>2. Bytes' = Bytes \cup {w} /\ w \notin Bytes
  BY <1>1 DEF Bytes, RecBecomes
<1>3. Cardinality(Bytes') = Cardinality(Bytes) + 1
  BY <1>2, BytesAre, FS_AddElement
<1>4. lastSeqno' - Cardinality(Bytes') = lastSeqno - Cardinality(Bytes)
  BY <1>1, <1>3, BytesAre DEF RingTypes
<1>5. BytesCounted'
  BY <1>1, <1>4 DEF ByteInv, BytesCounted
<1>6. \A x \in Recorders : HasBytes(x)' => HasBytes(x) /\ rec'[x] = rec[x]
  BY <1>1 DEF HasBytes, RecBecomes
<1>7. Begins'
  BY <1>1, <1>6 DEF ByteInv, Begins, PayloadEnd
<1> QED
  BY <1>5, <1>7 DEF ByteInv

LEMMA ReserveBytesBytes ==
    ASSUME RingTypes, Numbered, ByteInv, NEW w \in Recorders, ReserveBytes(w)
    PROVE  ByteInv'
<1>1. /\ rec[w].at = "bytes" /\ nextByte' = nextByte + PayloadSize
      /\ RecBecomes(w, "invalidate", rec[w].seqno, nextByte, rec[w].start)
      /\ UNCHANGED <<lastSeqno, windowStart, desc, payload, iter>>
  BY ReserveBytesFacts
<1>2. Bytes' = Bytes \ {w} /\ w \in Bytes
  BY <1>1 DEF Bytes, RecBecomes
<1>3. Cardinality(Bytes') = Cardinality(Bytes) - 1
  BY <1>2, BytesAre, FS_RemoveElement
<1>0. PayloadSize \in Nat /\ lastSeqno \in Nat /\ nextByte \in Nat
  BY EventRingAssumption DEF RingTypes
<1>4. BytesCounted'
  <2> DEFINE a == lastSeqno - Cardinality(Bytes)
  <2>1. lastSeqno' - Cardinality(Bytes') = a + 1 /\ a \in Int
    BY <1>0, <1>1, <1>3, BytesAre
  <2>2. nextByte = PayloadSize * a
    BY DEF ByteInv, BytesCounted
  <2> HIDE DEF a
  <2>3. PayloadSize * (a + 1) = PayloadSize * a + PayloadSize
    BY <1>0, <2>1
  <2>4. nextByte' = PayloadSize * (lastSeqno' - Cardinality(Bytes'))
    BY <1>1, <2>1, <2>2, <2>3
  <2> QED
    BY <2>4 DEF BytesCounted
<1>5. nextByte >= PayloadSize * (rec[w].seqno - Cardinality(Recorders))
  <2> DEFINE a == lastSeqno - Cardinality(Bytes)
             b == rec[w].seqno - Cardinality(Recorders)
  <2>1. a \in Int /\ b \in Int /\ b <= a
    BY <1>0, <1>1, BytesAre, RecFields DEF Numbered, Active
  <2>2. nextByte = PayloadSize * a
    BY DEF ByteInv, BytesCounted
  <2> HIDE DEF a, b
  <2>3. PayloadSize * b <= PayloadSize * a /\ PayloadSize * b \in Int /\ PayloadSize * a \in Int
    BY <1>0, <2>1, Times
  <2> QED
    BY <2>2, <2>3 DEF b
<1>6. Begins'
  <2> SUFFICES ASSUME NEW x \in Recorders, HasBytes(x)'
               PROVE  /\ rec'[x].begin + PayloadSize <= nextByte'
                      /\ rec'[x].begin >= PayloadSize * (rec'[x].seqno - Cardinality(Recorders))
    BY DEF Begins, PayloadEnd
  <2>1. CASE x = w
    BY <1>0, <1>1, <1>5, <2>1 DEF RecBecomes
  <2>2. CASE x # w
    <3>1. HasBytes(x) /\ rec'[x] = rec[x] /\ rec[x].begin \in Nat
      BY <1>1, <2>2, RecFields DEF HasBytes, RecBecomes
    <3>2. rec[x].begin + PayloadSize <= nextByte
          /\ rec[x].begin >= PayloadSize * (rec[x].seqno - Cardinality(Recorders))
      BY <3>1 DEF ByteInv, Begins, PayloadEnd
    <3> QED
      BY <1>0, <1>1, <3>1, <3>2
  <2> QED
    BY <2>1, <2>2
<1> QED
  BY <1>4, <1>6 DEF ByteInv

LEMMA RecordBytes ==
    ASSUME RingTypes, Numbered, ByteInv, NEW w \in Recorders, ReserveSeqno(w) \/ Record(w)
    PROVE  ByteInv'
<1>1. CASE ReserveSeqno(w)
  BY <1>1, ReserveSeqnoBytes
<1>2. CASE ReserveBytes(w)
  BY <1>2, ReserveBytesBytes
<1>3. CASE Invalidate(w)
  BY <1>3, InvalidateFacts, SameBytes DEF HasBytes
<1>4. CASE LoadWindow(w)
  BY <1>4, LoadWindowFacts, SameBytes DEF HasBytes
<1>5. CASE SlideWindow(w)
  BY <1>5, SlideWindowFacts, SameBytes DEF HasBytes
<1>6. CASE FillDescriptor(w)
  BY <1>6, FillDescriptorFacts, SameBytes DEF HasBytes
<1>7. CASE WritePayload(w)
  BY <1>7, WritePayloadFacts, SameBytes DEF HasBytes
<1>8. CASE Commit(w)
  BY <1>8, CommitFacts, SameBytes DEF HasBytes
<1> QED
  BY <1>1, <1>2, <1>3, <1>4, <1>5, <1>6, <1>7, <1>8 DEF Record

----------------------------------------------------------------------------
\* The window: the bytes from windowStart up to WindowTop + WindowIncr are those that
\* may be written.

WindowTop == windowStart + SlidingWindow

\* A recorder that will find that it must move the window, and will move it unless
\* another does
Blocked(w) ==
    \/ rec[w].at \in {"invalidate", "window"} /\ PayloadEnd(w) > WindowTop
    \/ rec[w].at = "slide" /\ rec[w].start = windowStart

BlockedOnes == {w \in Recorders : Blocked(w)}

\* How far beyond the window bytes are taken: the first window need not end at a
\* multiple of WindowIncr, the later ones do.
Aligned == \E m \in Int : WindowTop = m * WindowIncr
Reach == IF Aligned THEN 2 * WindowIncr ELSE WindowIncr

\* Whoever is not held up by the window can take bytes once more.
Windowed ==
    nextByte + PayloadSize * (Cardinality(Recorders) - Cardinality(BlockedOnes)) <= WindowTop + Reach

Slides ==
    \A w \in Recorders : rec[w].at = "slide" =>
        /\ PayloadEnd(w) > rec[w].start + SlidingWindow
        /\ 0 <= rec[w].start /\ rec[w].start <= windowStart

\* The window begins less than two increments and the buffer's size before the bytes taken.
Behind ==
    /\ 0 <= windowStart
    /\ windowStart = 0 \/ windowStart + PayloadBuf <= nextByte + 2 * WindowIncr - 1

\* A recorder that has the window it needs, or whose attempt to move it will fail, has
\* its bytes inside it.
Covered ==
    \A w \in Recorders : Passed(w) \/ (rec[w].at = "slide" /\ rec[w].start # windowStart) =>
        PayloadEnd(w) <= windowStart + PayloadBuf

WindowInv == Windowed /\ Slides /\ Covered /\ Behind

LEMMA BlockedAre ==
    /\ IsFiniteSet(BlockedOnes) /\ Cardinality(BlockedOnes) \in Nat
    /\ Cardinality(BlockedOnes) <= Cardinality(Recorders) /\ Cardinality(Recorders) \in Nat
<1>1. IsFiniteSet(Recorders) /\ BlockedOnes \subseteq Recorders
  BY EventRingAssumption DEF BlockedOnes
<1> QED
  BY <1>1, FS_Subset, FS_CardinalityType

LEMMA WindowSizes ==
    ASSUME RingTypes
    PROVE  /\ WindowTop \in Int /\ SlidingWindow \in Int /\ WindowTop + WindowIncr = windowStart + PayloadBuf
           /\ WindowIncr \in Nat \ {0} /\ PayloadBuf \in Nat \ {0} /\ PayloadSize \in Nat
           /\ windowStart \in Int /\ nextByte \in Nat
           /\ Reach \in Nat /\ Reach >= WindowIncr /\ WindowTop = windowStart + SlidingWindow
BY EventRingAssumption DEF RingTypes, WindowTop, SlidingWindow, Reach

\* What all recorders could take together is no more than WindowIncr.
LEMMA AllTake ==
    ASSUME NEW k \in Nat, k <= Cardinality(Recorders)
    PROVE  /\ PayloadSize * (Cardinality(Recorders) - k) \in Nat
           /\ PayloadSize * (Cardinality(Recorders) - k) <= WindowIncr
<1> DEFINE n == Cardinality(Recorders)
<1>1. n \in Nat /\ n * PayloadSize <= WindowIncr /\ PayloadSize \in Nat /\ WindowIncr \in Nat /\ k <= n
  BY EventRingAssumption, FS_CardinalityType
<1> HIDE DEF n
<1>2. n - k \in Nat /\ n - k <= n
  BY <1>1
<1> DEFINE d == n - k
<1> HIDE DEF d
<1>3. d \in Nat /\ d <= n
  BY <1>2 DEF d
<1>4. PayloadSize * d <= PayloadSize * n /\ PayloadSize * d \in Nat
  BY <1>1, <1>3, Times
<1>5. PayloadSize * n <= WindowIncr
  BY <1>1
<1>6. PayloadSize * d <= WindowIncr
  BY <1>1, <1>4, <1>5
<1> QED
  BY <1>4, <1>6 DEF d, n

LEMMA TakenReach ==
    ASSUME RingTypes, Windowed
    PROVE  nextByte <= WindowTop + Reach
<1> DEFINE p == PayloadSize * (Cardinality(Recorders) - Cardinality(BlockedOnes))
<1>1. p \in Nat
  BY BlockedAre, AllTake
<1>2. nextByte + p <= WindowTop + Reach
  BY DEF Windowed
<1> HIDE DEF p
<1> QED
  BY <1>1, <1>2, WindowSizes

LEMMA WindowInvInit == EventRingInit => WindowInv
<1> SUFFICES ASSUME EventRingInit PROVE WindowInv
  OBVIOUS
<1>1. \A w \in Recorders : rec[w].at = "idle"
  BY DEF EventRingInit, RecIdle
<1>2. Slides /\ Covered /\ Behind
  BY <1>1 DEF Slides, Covered, Passed, Behind, EventRingInit
<1>3. Windowed
  <2> DEFINE p == PayloadSize * (Cardinality(Recorders) - Cardinality(BlockedOnes))
  <2>1. p \in Nat /\ p <= WindowIncr
    BY BlockedAre, AllTake
  <2>2. nextByte = 0 /\ WindowTop >= 0 /\ WindowTop \in Int
    BY EventRingAssumption DEF EventRingInit, WindowTop, SlidingWindow
  <2>3. Reach \in Nat /\ Reach >= WindowIncr /\ WindowIncr \in Nat
    BY WindowSizes, RingTypesInit
  <2> HIDE DEF p
  <2>4. nextByte + p <= WindowTop + Reach
    BY <2>1, <2>2, <2>3
  <2> QED
    BY <2>4 DEF Windowed, p
<1> QED
  BY <1>2, <1>3 DEF WindowInv

\* A step that neither takes bytes nor moves the window, and does not change whether
\* its recorder is held up.
LEMMA SameWindow ==
    ASSUME RingTypes, WindowInv, NEW w \in Recorders, NEW at, NEW seqno, NEW begin, NEW start,
           RecBecomes(w, at, seqno, begin, start),
           UNCHANGED <<nextByte, windowStart>>,
           Blocked(w)' <=> Blocked(w),
           at = "slide" => begin + PayloadSize > start + SlidingWindow /\ 0 <= start /\ start <= windowStart,
           Passed(w)' \/ (at = "slide" /\ start # windowStart) =>
             begin + PayloadSize <= windowStart + PayloadBuf
    PROVE  WindowInv'
<1>1. \A x \in Recorders : x # w => rec'[x] = rec[x]
  BY DEF RecBecomes
<1>2. rec'[w].at = at /\ rec'[w].begin = begin /\ rec'[w].start = start
  BY DEF RecBecomes
<1>3. WindowTop' = WindowTop
  BY DEF WindowTop, SlidingWindow
<1>4. \A x \in Recorders : x # w => (Blocked(x)' <=> Blocked(x))
  BY <1>1, <1>3 DEF Blocked, PayloadEnd
<1>5. BlockedOnes' = BlockedOnes
  BY <1>4 DEF BlockedOnes
<1>6. Reach' = Reach
  BY <1>3 DEF Reach, Aligned
<1>7. Windowed'
  BY <1>3, <1>5, <1>6 DEF WindowInv, Windowed
<1>8. Slides'
  BY <1>1, <1>2 DEF WindowInv, Slides, PayloadEnd, SlidingWindow
<1>9. Covered'
  BY <1>1, <1>2 DEF WindowInv, Covered, Passed, PayloadEnd
<1>10. Behind'
  BY DEF WindowInv, Behind
<1> QED
  BY <1>7, <1>8, <1>9, <1>10 DEF WindowInv

LEMMA ReserveBytesWindow ==
    ASSUME RingTypes, WindowInv, NEW w \in Recorders, ReserveBytes(w)
    PROVE  WindowInv'
<1>1. /\ rec[w].at = "bytes" /\ nextByte' = nextByte + PayloadSize
      /\ RecBecomes(w, "invalidate", rec[w].seqno, nextByte, rec[w].start)
      /\ UNCHANGED <<lastSeqno, windowStart, desc, payload, iter>>
  BY ReserveBytesFacts
<1>2. \A x \in Recorders : x # w => rec'[x] = rec[x]
  BY <1>1 DEF RecBecomes
<1>3. rec'[w].at = "invalidate" /\ PayloadEnd(w)' = nextByte'
  BY <1>1 DEF RecBecomes, PayloadEnd
<1>4. WindowTop' = WindowTop
  BY <1>1 DEF WindowTop, SlidingWindow
<1>5. Reach' = Reach
  BY <1>4 DEF Reach, Aligned
<1>6. Slides'
  BY <1>1, <1>2, <1>3 DEF WindowInv, Slides, PayloadEnd, SlidingWindow
<1>7. Covered'
  BY <1>1, <1>2, <1>3 DEF WindowInv, Covered, Passed, PayloadEnd
<1>8. Windowed'
  <2> DEFINE n == Cardinality(Recorders)
             k == Cardinality(BlockedOnes)
             k2 == Cardinality(BlockedOnes')
  <2>1. n \in Nat /\ k \in Nat /\ k <= n
    BY BlockedAre
  <2>2. nextByte + PayloadSize * (n - k) <= WindowTop + Reach
    BY DEF WindowInv, Windowed
  <2>3. \A x \in Recorders : x # w => (Blocked(x)' <=> Blocked(x))
    BY <1>1, <1>2, <1>4 DEF Blocked, PayloadEnd
  <2>4. ~ Blocked(w)
    BY <1>1 DEF Blocked
  <2>5. CASE nextByte' > WindowTop
    <3>1. Blocked(w)'
      BY <1>3, <1>4, <2>5 DEF Blocked
    <3>2. BlockedOnes' = BlockedOnes \cup {w} /\ w \notin BlockedOnes
      BY <2>3, <2>4, <3>1 DEF BlockedOnes
    <3>3. k2 = k + 1
      BY <3>2, BlockedAre, FS_AddElement
    <3> HIDE DEF n, k, k2
    <3>4. PayloadSize * (n - k2) = PayloadSize * (n - k) - PayloadSize
      BY <2>1, <3>3, EventRingAssumption
    <3> DEFINE p == PayloadSize * (n - k)
    <3>5. p \in Int
      BY <2>1, EventRingAssumption
    <3> HIDE DEF p
    <3>6. nextByte' + (p - PayloadSize) <= WindowTop + Reach
      BY <1>1, <2>2, <3>5, WindowSizes DEF p
    <3> QED
      BY <1>4, <1>5, <3>4, <3>6 DEF Windowed, n, k2, p
  <2>6. CASE ~ (nextByte' > WindowTop)
    <3> DEFINE p == PayloadSize * (n - k2)
    <3>1. BlockedOnes' \subseteq Recorders
      BY DEF BlockedOnes
    <3>2. k2 \in Nat /\ k2 <= n
      BY <3>1, EventRingAssumption, FS_Subset, FS_CardinalityType
    <3>3. p \in Nat /\ p <= WindowIncr
      BY <3>2, AllTake
    <3> HIDE DEF p
    <3>4. nextByte' \in Nat
      BY <1>1, WindowSizes
    <3>5. nextByte' + p <= WindowTop + Reach
      BY <2>6, <3>3, <3>4, WindowSizes
    <3> QED
      BY <1>4, <1>5, <3>5 DEF Windowed, p
  <2> QED
    BY <2>5, <2>6
<1>9. Behind'
  <2>1. windowStart' = windowStart /\ nextByte' >= nextByte /\ nextByte' \in Nat
    BY <1>1, WindowSizes
  <2>2. 0 <= windowStart /\ (windowStart = 0 \/ windowStart + PayloadBuf <= nextByte + 2 * WindowIncr - 1)
    BY DEF WindowInv, Behind
  <2> QED
    BY <2>1, <2>2, WindowSizes DEF Behind
<1> QED
  BY <1>6, <1>7, <1>8, <1>9 DEF WindowInv

\* Moving the window leaves room for all bytes taken, whoever moved it.
LEMMA SlideWindowWindow ==
    ASSUME RingTypes, ByteInv, WindowInv, NEW w \in Recorders, SlideWindow(w),
           windowStart = rec[w].start
    PROVE  WindowInv' /\ windowStart' > windowStart
<1> DEFINE e == PayloadEnd(w)
           top == RoundUp(e, WindowIncr)
<1>1. /\ rec[w].at = "slide"
      /\ RecBecomes(w, "fill", rec[w].seqno, rec[w].begin, 0)
      /\ windowStart' = top - SlidingWindow
      /\ UNCHANGED <<lastSeqno, nextByte, desc, payload, iter>>
  <2>1. /\ rec[w].at = "slide"
        /\ RecBecomes(w, "fill", rec[w].seqno, rec[w].begin, 0)
        /\ windowStart' = UintSub(top, SlidingWindow)
        /\ UNCHANGED <<lastSeqno, nextByte, desc, payload, iter>>
    BY SlideWindowFacts
  <2>2. e \in Nat /\ e > SlidingWindow
    BY <2>1, RecFields, WindowSizes DEF PayloadEnd, WindowInv, Slides
  <2>3. top \in Nat /\ top >= e
    BY <2>2, RoundUpIs, WindowSizes
  <2> HIDE DEF top, e
  <2>4. UintSub(top, SlidingWindow) = top - SlidingWindow
    BY <2>2, <2>3, WindowSizes DEF UintSub
  <2> QED
    BY <2>1, <2>4
<1>2. e \in Nat /\ e > WindowTop /\ e <= nextByte
  BY <1>1, RecFields, WindowSizes DEF PayloadEnd, WindowInv, Slides, ByteInv, Begins, HasBytes
<1>3. top \in Nat /\ top >= e /\ top <= e + WindowIncr - 1 /\ \E k \in Int : top = k * WindowIncr
  BY <1>2, RoundUpIs, WindowSizes
<1>4. \A x \in Recorders : x # w => rec'[x] = rec[x]
  BY <1>1 DEF RecBecomes
<1>5. rec'[w].at = "fill" /\ rec'[w].begin = rec[w].begin
  BY <1>1 DEF RecBecomes
<1> HIDE DEF top, e
<1>6. WindowTop' = top
  BY <1>1, <1>3, WindowSizes DEF WindowTop, SlidingWindow
<1>7. windowStart' > windowStart
  BY <1>1, <1>2, <1>3, WindowSizes
<1>8. nextByte <= top + WindowIncr
  <2>1. CASE Aligned
    <3>1. PICK m \in Int : WindowTop = m * WindowIncr
      BY <2>1 DEF Aligned
    <3>2. PICK k \in Int : top = k * WindowIncr
      BY <1>3
    <3>3. m * WindowIncr < k * WindowIncr
      BY <1>2, <1>3, <3>1, <3>2, WindowSizes
    <3>4. WindowTop + WindowIncr <= top
      BY <3>1, <3>2, <3>3, NextMultiple, WindowSizes
    <3>5. Reach = 2 * WindowIncr
      BY <2>1 DEF Reach
    <3>6. nextByte <= WindowTop + Reach
      BY TakenReach DEF WindowInv
    <3> QED
      BY <1>3, <3>4, <3>5, <3>6, WindowSizes
  <2>2. CASE ~ Aligned
    <3>1. Reach = WindowIncr
      BY <2>2 DEF Reach
    <3>2. nextByte <= WindowTop + Reach
      BY TakenReach DEF WindowInv
    <3> QED
      BY <1>2, <1>3, <3>1, <3>2, WindowSizes
  <2> QED
    BY <2>1, <2>2
<1>9. Windowed'
  <2> DEFINE p == PayloadSize * (Cardinality(Recorders) - Cardinality(BlockedOnes'))
  <2>1. BlockedOnes' \subseteq Recorders
    BY DEF BlockedOnes
  <2>2. Cardinality(BlockedOnes') \in Nat /\ Cardinality(BlockedOnes') <= Cardinality(Recorders)
    BY <2>1, EventRingAssumption, FS_Subset, FS_CardinalityType
  <2>3. p \in Nat /\ p <= WindowIncr
    BY <2>2, AllTake
  <2>4. Reach' = 2 * WindowIncr
    BY <1>3, <1>6 DEF Reach, Aligned
  <2> HIDE DEF p
  <2>5. nextByte + p <= top + 2 * WindowIncr
    BY <1>3, <1>8, <2>3, WindowSizes
  <2> QED
    BY <1>1, <1>6, <2>4, <2>5 DEF Windowed, p
<1>10. Slides'
  <2> SUFFICES ASSUME NEW x \in Recorders, rec'[x].at = "slide"
               PROVE  rec'[x].begin + PayloadSize > rec'[x].start + SlidingWindow
                      /\ 0 <= rec'[x].start /\ rec'[x].start <= windowStart'
    BY DEF Slides, PayloadEnd, SlidingWindow
  <2>1. rec'[x] = rec[x] /\ rec[x].at = "slide" /\ rec[x].start \in Int
    BY <1>4, <1>5, RecFields
  <2>2. /\ rec[x].begin + PayloadSize > rec[x].start + SlidingWindow
        /\ 0 <= rec[x].start /\ rec[x].start <= windowStart
    BY <2>1 DEF WindowInv, Slides, PayloadEnd
  <2>3. windowStart' \in Int
    BY <1>1, <1>3, WindowSizes
  <2> QED
    BY <1>7, <2>1, <2>2, <2>3, WindowSizes
<1>11. Covered'
  <2> SUFFICES ASSUME NEW x \in Recorders, HasBytes(x), rec'[x].begin = rec[x].begin
               PROVE  rec'[x].begin + PayloadSize <= windowStart' + PayloadBuf
    <3>1. \A x \in Recorders : Passed(x)' \/ rec'[x].at = "slide" =>
            HasBytes(x) /\ rec'[x].begin = rec[x].begin
      BY <1>1, <1>4, <1>5 DEF Passed, HasBytes
    <3> QED
      BY <3>1 DEF Covered, PayloadEnd
  <2>1. rec[x].begin + PayloadSize <= nextByte /\ rec[x].begin \in Nat
    BY RecFields DEF ByteInv, Begins, PayloadEnd
  <2>2. windowStart' + PayloadBuf = top + WindowIncr
    BY <1>1, <1>3, EventRingAssumption DEF SlidingWindow
  <2> QED
    BY <1>3, <1>8, <2>1, <2>2, WindowSizes
<1>12. Behind'
  <2>1. 0 <= windowStart
    BY DEF WindowInv, Behind
  <2>2. windowStart' + PayloadBuf = top + WindowIncr
    BY <1>1, <1>3, EventRingAssumption DEF SlidingWindow
  <2>3. 0 <= windowStart'
    BY <1>1, <1>3, <1>7, <2>1, WindowSizes
  <2>4. windowStart' + PayloadBuf <= nextByte' + 2 * WindowIncr - 1
    BY <1>1, <1>2, <1>3, <2>2, WindowSizes
  <2> QED
    BY <2>3, <2>4 DEF Behind
<1> QED
  BY <1>7, <1>9, <1>10, <1>11, <1>12 DEF WindowInv

\* The window is not moved past the bytes of a recorder that has not read it, if no recorder
\* lags that far behind: the difference does not wrap.
LEMMA NoWrap ==
    ASSUME RingTypes, Numbered, ByteInv, WindowInv, LagBounded, NEW w \in Recorders, HasBytes(w)
    PROVE  UintSub(PayloadEnd(w), windowStart) = PayloadEnd(w) - windowStart
<1> DEFINE e == PayloadEnd(w)
<1>1. nextByte <= rec[w].begin + Lag /\ Lag \in Int /\ rec[w].begin \in Nat
  BY TakenSince, RecFields
<1>2. Lag + 2 * WindowIncr <= PayloadBuf + 1 + PayloadSize
  <2> DEFINE n == Cardinality(Recorders)
  <2>1. n \in Nat /\ DescCapacity \in Nat /\ PayloadSize \in Nat
    BY EventRingAssumption, FS_CardinalityType
  <2>2. Lag = (DescCapacity + n - 1) * PayloadSize
        /\ (DescCapacity + n - 2) * PayloadSize + 2 * WindowIncr <= PayloadBuf + 1
    BY DEF Lag, LagBounded
  <2> HIDE DEF n
  <2>3. (DescCapacity + n - 1) * PayloadSize = (DescCapacity + n - 2) * PayloadSize + PayloadSize
    BY <2>1
  <2> DEFINE x == (DescCapacity + n - 2) * PayloadSize
  <2>4. x \in Int
    BY <2>1
  <2>5. Lag = x + PayloadSize /\ x + 2 * WindowIncr <= PayloadBuf + 1
    BY <2>2, <2>3
  <2> HIDE DEF x
  <2> QED
    BY <2>1, <2>4, <2>5, WindowSizes
<1>3. e = rec[w].begin + PayloadSize
  BY DEF PayloadEnd
<1>4. 0 <= windowStart /\ (windowStart = 0 \/ windowStart + PayloadBuf <= nextByte + 2 * WindowIncr - 1)
  BY DEF WindowInv, Behind
<1> HIDE DEF e
<1>5. e \in Nat /\ windowStart <= e
  BY <1>1, <1>2, <1>3, <1>4, WindowSizes
<1> QED
  BY <1>5 DEF UintSub, e

LEMMA RecordWindow ==
    ASSUME RingTypes, Numbered, ByteInv, WindowInv, LagBounded, NEW w \in Recorders, ReserveSeqno(w) \/ Record(w)
    PROVE  WindowInv' /\ windowStart' >= windowStart /\ windowStart' \in Int
<1>0. windowStart \in Int /\ rec[w].begin \in Nat
  BY RecFields DEF RingTypes
<1>1. CASE ReserveSeqno(w)
  <2>1. /\ rec[w].at = "idle"
        /\ RecBecomes(w, "bytes", lastSeqno + 1, rec[w].begin, rec[w].start)
        /\ UNCHANGED <<nextByte, windowStart>>
    BY <1>1, ReserveSeqnoFacts
  <2>2. ~ Blocked(w) /\ ~ Blocked(w)' /\ ~ Passed(w)'
    BY <2>1 DEF Blocked, Passed, RecBecomes
  <2>3. WindowInv'
    BY <2>1, <2>2, SameWindow
  <2> QED
    BY <1>0, <2>1, <2>3
<1>2. CASE ReserveBytes(w)
  BY <1>0, <1>2, ReserveBytesFacts, ReserveBytesWindow
<1>3. CASE Invalidate(w)
  <2>1. /\ rec[w].at = "invalidate"
        /\ RecBecomes(w, "window", rec[w].seqno, rec[w].begin, rec[w].start)
        /\ UNCHANGED <<nextByte, windowStart>>
    BY <1>3, InvalidateFacts
  <2>2. Blocked(w)' <=> Blocked(w)
    BY <2>1 DEF Blocked, RecBecomes, PayloadEnd, WindowTop, SlidingWindow
  <2>3. ~ Passed(w)'
    BY <2>1 DEF Passed, RecBecomes
  <2>4. WindowInv'
    BY <2>1, <2>2, <2>3, SameWindow
  <2> QED
    BY <1>0, <2>1, <2>4
<1>4. CASE LoadWindow(w)
  <2>1. /\ rec[w].at = "window"
        /\ \/ /\ PayloadEnd(w) - windowStart > SlidingWindow
              /\ RecBecomes(w, "slide", rec[w].seqno, rec[w].begin, windowStart)
           \/ /\ ~ (PayloadEnd(w) - windowStart > SlidingWindow)
              /\ RecBecomes(w, "fill", rec[w].seqno, rec[w].begin, rec[w].start)
        /\ UNCHANGED <<nextByte, windowStart>>
    <3>1. rec[w].at = "window"
      BY <1>4, LoadWindowFacts
    <3>2. UintSub(PayloadEnd(w), windowStart) = PayloadEnd(w) - windowStart
      BY <3>1, NoWrap DEF HasBytes
    <3> QED
      BY <1>4, <3>1, <3>2, LoadWindowFacts
  <2>2. PayloadEnd(w) \in Nat /\ PayloadEnd(w) = rec[w].begin + PayloadSize
    BY <1>0, EventRingAssumption DEF PayloadEnd
  <2>3. CASE /\ PayloadEnd(w) - windowStart > SlidingWindow
             /\ RecBecomes(w, "slide", rec[w].seqno, rec[w].begin, windowStart)
    <3>1. PayloadEnd(w) > windowStart + SlidingWindow
      BY <2>2, <2>3, WindowSizes
    <3>2. Blocked(w) /\ Blocked(w)' /\ ~ Passed(w)'
      BY <2>1, <2>3, <3>1 DEF Blocked, Passed, RecBecomes, WindowTop
    <3>3. 0 <= windowStart
      BY DEF WindowInv, Behind
    <3>4. WindowInv'
      BY <1>0, <2>1, <2>2, <2>3, <3>1, <3>2, <3>3, SameWindow
    <3> QED
      BY <1>0, <2>1, <3>4
  <2>4. CASE /\ ~ (PayloadEnd(w) - windowStart > SlidingWindow)
             /\ RecBecomes(w, "fill", rec[w].seqno, rec[w].begin, rec[w].start)
    <3>1. ~ (PayloadEnd(w) > WindowTop) /\ PayloadEnd(w) <= windowStart + PayloadBuf
      BY <2>2, <2>4, WindowSizes
    <3>2. ~ Blocked(w) /\ ~ Blocked(w)'
      BY <2>1, <2>4, <3>1 DEF Blocked, RecBecomes
    <3>3. WindowInv'
      BY <2>1, <2>2, <2>4, <3>1, <3>2, SameWindow
    <3> QED
      BY <1>0, <2>1, <3>3
  <2> QED
    BY <2>1, <2>3, <2>4
<1>5. CASE SlideWindow(w) /\ windowStart = rec[w].start
  <2>1. WindowInv' /\ windowStart' > windowStart
    BY <1>5, SlideWindowWindow
  <2>2. windowStart' \in Int
    BY <1>5, SlideWindowFacts DEF RingTypes
  <2> QED
    BY <1>0, <2>1, <2>2
<1>6. CASE SlideWindow(w) /\ windowStart # rec[w].start
  <2>1. /\ rec[w].at = "slide"
        /\ RecBecomes(w, "fill", rec[w].seqno, rec[w].begin, 0)
        /\ UNCHANGED <<nextByte, windowStart>>
    BY <1>6, SlideWindowFacts
  <2>2. rec[w].begin + PayloadSize <= windowStart + PayloadBuf
    BY <1>6, <2>1 DEF WindowInv, Covered, PayloadEnd
  <2>3. ~ Blocked(w) /\ ~ Blocked(w)'
    BY <1>6, <2>1 DEF Blocked, RecBecomes
  <2>4. WindowInv'
    BY <2>1, <2>2, <2>3, SameWindow
  <2> QED
    BY <1>0, <2>1, <2>4
<1>7. CASE FillDescriptor(w) \/ WritePayload(w)
  <2>1. PICK at \in {"payload", "commit"} :
          /\ rec[w].at \in {"fill", "payload"}
          /\ RecBecomes(w, at, rec[w].seqno, rec[w].begin, rec[w].start)
          /\ UNCHANGED <<nextByte, windowStart>>
    BY <1>7, FillDescriptorFacts, WritePayloadFacts
  <2>2. rec[w].begin + PayloadSize <= windowStart + PayloadBuf
    BY <2>1 DEF WindowInv, Covered, Passed, PayloadEnd
  <2>3. ~ Blocked(w) /\ ~ Blocked(w)'
    BY <2>1 DEF Blocked, RecBecomes
  <2>4. WindowInv'
    BY <2>1, <2>2, <2>3, SameWindow
  <2> QED
    BY <1>0, <2>1, <2>4
<1>8. CASE Commit(w)
  <2>1. /\ rec[w].at = "commit" /\ RecBecomes(w, "idle", 0, 0, 0)
        /\ UNCHANGED <<nextByte, windowStart>>
    BY <1>8, CommitFacts
  <2>2. ~ Blocked(w) /\ ~ Blocked(w)' /\ ~ Passed(w)'
    BY <2>1 DEF Blocked, Passed, RecBecomes
  <2>3. WindowInv'
    BY <2>1, <2>2, SameWindow
  <2> QED
    BY <1>0, <2>1, <2>3
<1> QED
  BY <1>1, <1>2, <1>3, <1>4, <1>5, <1>6, <1>7, <1>8 DEF Record

----------------------------------------------------------------------------
\* Payloads

\* The bytes at offset o and those of a recorder do not overlap.
Apart(o, w) == PayloadEnd(w) <= o \/ o + PayloadSize <= rec[w].begin

\* What the window contains of the event's bytes is its payload.
Own(q, o) == windowStart <= o => \A i \in o .. o + PayloadSize - 1 : payload[i % PayloadBuf] = q

\* Nobody is going to write to the event's bytes while the window contains them.
Kept(q, o) ==
    /\ o + PayloadSize <= nextByte
    /\ Own(q, o)
    /\ \A w \in Recorders : HasBytes(w) => Apart(o, w)

RecordersApart ==
    \A w, x \in Recorders : w # x /\ HasBytes(w) /\ HasBytes(x) => Apart(rec[x].begin, w)

EventsKept == \A s \in 0 .. DescCapacity - 1 : desc[s].seqno # 0 => Kept(desc[s].seqno, desc[s].offset)

Written == \A w \in Recorders : rec[w].at = "commit" => Own(rec[w].seqno, rec[w].begin)

\* An iterator that has an event: before its payload is copied, and after
EventsFound ==
    \A r \in Readers : iter[r].at \in {"check", "memcpy"} /\ iter[r].op # "early" =>
        Kept(iter[r].seqno, iter[r].event.offset)

PayloadsRead ==
    \A r \in Readers : iter[r].at = "recheck" /\ iter[r].op # "early" =>
        windowStart > iter[r].event.offset \/ iter[r].bytes \subseteq {iter[r].seqno}

PayInv ==
    RecordersApart /\ EventsKept /\ Written /\ EventsFound /\ PayloadsRead /\ PayloadIntact

LEMMA PayInvInit == EventRingInit => PayInv
<1> SUFFICES ASSUME EventRingInit PROVE PayInv
  OBVIOUS
<1>1. \A w \in Recorders : rec[w].at = "idle"
  BY DEF EventRingInit, RecIdle
<1>2. \A s \in 0 .. DescCapacity - 1 : desc[s].seqno = 0
  BY DEF EventRingInit
<1>3. \A r \in Readers : iter[r].at = "idle"
  BY DEF EventRingInit, IterIdle
<1>4. RecordersApart /\ Written
  BY <1>1 DEF RecordersApart, Written, HasBytes
<1>5. EventsKept
  BY <1>2 DEF EventsKept
<1>6. EventsFound /\ PayloadsRead /\ PayloadIntact
  BY <1>3 DEF EventsFound, PayloadsRead, PayloadIntact
<1> QED
  BY <1>4, <1>5, <1>6 DEF PayInv

\* A recorder step that writes no payload: bytes it takes are new, and the window moves
\* only forwards.
NoPayload(w) ==
    /\ \A x \in Recorders : x # w => rec'[x] = rec[x]
    /\ HasBytes(w)' => rec'[w].begin >= nextByte \/ (HasBytes(w) /\ rec'[w].begin = rec[w].begin)
    /\ nextByte' >= nextByte /\ nextByte' \in Nat
    /\ windowStart' >= windowStart /\ windowStart' \in Int
    /\ payload' = payload

LEMMA KeptOn ==
    ASSUME RingTypes, RingTypes', NEW w \in Recorders, NoPayload(w), NEW q, NEW o \in Nat, Kept(q, o)
    PROVE  Kept(q, o)'
<1>0. nextByte \in Nat /\ windowStart \in Int /\ PayloadSize \in Nat
  BY EventRingAssumption DEF RingTypes
<1>1. o + PayloadSize <= nextByte'
  BY <1>0 DEF NoPayload, Kept
<1>2. Own(q, o)'
  BY <1>0 DEF NoPayload, Kept, Own
<1>3. ASSUME NEW x \in Recorders, HasBytes(x)' PROVE Apart(o, x)'
  <2>1. CASE HasBytes(x) /\ rec'[x].begin = rec[x].begin
    BY <2>1 DEF Kept, Apart, PayloadEnd
  <2>2. CASE rec'[x].begin >= nextByte
    <3>1. rec'[x].begin \in Nat
      BY DEF RingTypes, RecStates
    <3> QED
      BY <1>0, <2>2, <3>1 DEF Kept, Apart
  <2>3. x # w => rec'[x] = rec[x] /\ HasBytes(x)
    BY <1>3 DEF NoPayload, HasBytes
  <2> QED
    BY <1>3, <2>1, <2>2, <2>3 DEF NoPayload
<1> QED
  BY <1>1, <1>2, <1>3 DEF Kept

\* Whatever the descriptors and the iterators refer to
LEMMA EventsKeptFrom ==
    ASSUME \A s \in 0 .. DescCapacity - 1 : \A q, o :
             q = desc'[s].seqno /\ o = desc'[s].offset /\ q # 0 => Kept(q, o)'
    PROVE  EventsKept'
BY DEF EventsKept, Kept, Own, Apart, PayloadEnd

LEMMA NoPayloadPay ==
    ASSUME RingTypes, RingTypes', ByteInv, PayInv, NEW w \in Recorders, NoPayload(w), iter' = iter,
           rec'[w].at # "commit",
           \A s \in 0 .. DescCapacity - 1 : \A q, o :
             q = desc'[s].seqno /\ o = desc'[s].offset /\ q # 0 => desc'[s] = desc[s] \/ Kept(q, o)'
    PROVE  PayInv'
<1>0. nextByte \in Nat /\ windowStart \in Int /\ PayloadSize \in Nat
  BY EventRingAssumption DEF RingTypes
<1>1. RecordersApart'
  <2> SUFFICES ASSUME NEW x \in Recorders, NEW y \in Recorders, x # y, HasBytes(x)', HasBytes(y)'
               PROVE  \/ rec'[x].begin + PayloadSize <= rec'[y].begin
                      \/ rec'[y].begin + PayloadSize <= rec'[x].begin
    BY DEF RecordersApart, Apart, PayloadEnd
  <2>1. \A z \in Recorders : /\ rec'[z].begin \in Nat /\ rec[z].begin \in Nat
                             /\ HasBytes(z) => rec[z].begin + PayloadSize <= nextByte
    BY DEF RingTypes, RecStates, ByteInv, Begins, PayloadEnd
  <2>2. \A z \in Recorders : z # w /\ HasBytes(z)' => HasBytes(z) /\ rec'[z].begin = rec[z].begin
    BY DEF NoPayload, HasBytes
  <2>3. \A u, v \in Recorders : u # v /\ HasBytes(u) /\ HasBytes(v) =>
          rec[u].begin + PayloadSize <= rec[v].begin \/ rec[v].begin + PayloadSize <= rec[u].begin
    BY DEF PayInv, RecordersApart, Apart, PayloadEnd
  <2>4. HasBytes(w)' => rec'[w].begin >= nextByte \/ (HasBytes(w) /\ rec'[w].begin = rec[w].begin)
    BY DEF NoPayload
  <2>5. CASE x = w
    BY <1>0, <2>1, <2>2, <2>3, <2>4, <2>5
  <2>6. CASE y = w
    BY <1>0, <2>1, <2>2, <2>3, <2>4, <2>6
  <2>7. CASE x # w /\ y # w
    BY <2>2, <2>3, <2>7
  <2> QED
    BY <2>5, <2>6, <2>7
<1>2. EventsKept'
  <2> SUFFICES ASSUME NEW s \in 0 .. DescCapacity - 1, NEW q, NEW o, q # 0,
                      q = desc'[s].seqno, o = desc'[s].offset, desc'[s] = desc[s]
               PROVE  Kept(q, o)'
    BY EventsKeptFrom
  <2>1. o \in Nat
    BY DEF RingTypes, Descriptors
  <2>2. Kept(q, o)
    BY DEF PayInv, EventsKept
  <2> QED
    BY <2>1, <2>2, KeptOn
<1>3. Written'
  <2> SUFFICES ASSUME NEW x \in Recorders, rec'[x].at = "commit", NEW q, NEW o,
                      q = rec'[x].seqno, o = rec'[x].begin
               PROVE  Own(q, o)'
    BY DEF Written, Own
  <2>1. rec'[x] = rec[x]
    BY DEF NoPayload
  <2>2. Own(q, o) /\ o \in Nat
    BY <2>1, RecFields DEF PayInv, Written
  <2> QED
    BY <1>0, <2>2 DEF Own, NoPayload
<1>4. EventsFound'
  <2> SUFFICES ASSUME NEW r \in Readers, iter[r].at \in {"check", "memcpy"}, iter[r].op # "early",
                      NEW q, NEW o, q = iter[r].seqno, o = iter[r].event.offset
               PROVE  Kept(q, o)'
    BY DEF EventsFound, Kept, Own, Apart, PayloadEnd
  <2>1. Kept(q, o) /\ o \in Nat
    BY IterFields DEF PayInv, EventsFound
  <2> QED
    BY <2>1, KeptOn
<1>5. PayloadsRead'
  <2> SUFFICES ASSUME NEW r \in Readers, iter[r].at = "recheck", iter[r].op # "early"
               PROVE  windowStart' > iter[r].event.offset \/ iter[r].bytes \subseteq {iter[r].seqno}
    BY DEF PayloadsRead
  <2>1. windowStart > iter[r].event.offset \/ iter[r].bytes \subseteq {iter[r].seqno}
    BY DEF PayInv, PayloadsRead
  <2>2. iter[r].event.offset \in Nat
    BY IterFields
  <2> QED
    BY <1>0, <2>1, <2>2 DEF NoPayload
<1>6. PayloadIntact'
  BY DEF PayInv, PayloadIntact
<1> QED
  BY <1>1, <1>2, <1>3, <1>4, <1>5, <1>6 DEF PayInv

\* Bytes of the buffer that the window contains and are not the recorder's own are not
\* written: the buffer is large enough for the window and the events being recorded.
LEMMA WriteKeeps ==
    ASSUME RingTypes, Numbered, ByteInv, WindowInv, NEW w \in Recorders, WritePayload(w),
           NEW q, NEW o \in Nat, o + PayloadSize <= nextByte, Own(q, o), Apart(o, w)
    PROVE  Own(q, o)'
<1> DEFINE b == rec[w].begin
<1>0. PayloadSize \in Nat /\ PayloadBuf \in Nat \ {0} /\ nextByte \in Nat /\ windowStart \in Int
      /\ b \in Nat
  BY EventRingAssumption, RecFields DEF RingTypes
<1>1. /\ rec[w].at = "payload"
      /\ \A c \in 0 .. PayloadBuf - 1 :
           payload'[c] = IF \E i \in b .. PayloadEnd(w) - 1 : c = i % PayloadBuf
                         THEN rec[w].seqno ELSE payload[c]
      /\ windowStart' = windowStart
  BY WritePayloadFacts
<1>9. PayloadEnd(w) = b + PayloadSize
  BY DEF PayloadEnd
<1>2. HasBytes(w) /\ Passed(w)
  BY <1>1 DEF HasBytes, Passed
<1>3. nextByte <= b + PayloadBuf /\ b + PayloadSize <= windowStart + PayloadBuf
  BY <1>2, StillFits DEF WindowInv, Covered, PayloadEnd
<1>4. b + PayloadSize <= o \/ o + PayloadSize <= b
  BY DEF Apart, PayloadEnd
<1> HIDE DEF b
<1> SUFFICES ASSUME windowStart <= o, NEW i \in o .. o + PayloadSize - 1
             PROVE  payload'[i % PayloadBuf] = q
  BY <1>1 DEF Own
<1>5. i \in Int /\ o <= i /\ i < o + PayloadSize
  BY <1>0
<1>6. payload[i % PayloadBuf] = q
  BY DEF Own
<1>7. ASSUME NEW j \in b .. b + PayloadSize - 1, i % PayloadBuf = j % PayloadBuf PROVE FALSE
  <2>1. j \in Int /\ b <= j /\ j < b + PayloadSize
    BY <1>0
  <2>2. i # j
    BY <1>0, <1>4, <1>5, <2>1
  <2>3. CASE i < j
    <3>1. i + PayloadBuf <= j
      BY <1>0, <1>5, <1>7, <2>1, <2>3, SameRemainder
    <3> QED
      BY <1>0, <1>3, <1>5, <2>1, <3>1
  <2>4. CASE j < i
    <3>1. j + PayloadBuf <= i
      BY <1>0, <1>5, <1>7, <2>1, <2>4, SameRemainder
    <3> QED
      BY <1>0, <1>3, <1>5, <2>1, <3>1
  <2> QED
    BY <1>5, <2>1, <2>2, <2>3, <2>4
<1>8. i % PayloadBuf \in 0 .. PayloadBuf - 1
  BY <1>0, <1>5
<1> DEFINE c == i % PayloadBuf
<1>10. ~ \E j \in b .. PayloadEnd(w) - 1 : c = j % PayloadBuf
  <2> SUFFICES ASSUME NEW j \in b .. PayloadEnd(w) - 1, c = j % PayloadBuf PROVE FALSE
    OBVIOUS
  <2>1. j \in b .. b + PayloadSize - 1
    BY <1>0, <1>9
  <2> QED
    BY <1>7, <2>1
<1> HIDE DEF c
<1>11. payload'[c] = payload[c]
  BY <1>1, <1>8, <1>10 DEF c
<1> QED
  BY <1>6, <1>11 DEF c

LEMMA WritePayloadPay ==
    ASSUME RingTypes, RecInv, ByteInv, WindowInv, PayInv, NEW w \in Recorders, WritePayload(w)
    PROVE  PayInv'
<1> DEFINE b == rec[w].begin
<1>0. PayloadSize \in Nat /\ PayloadBuf \in Nat \ {0} /\ b \in Nat
  BY EventRingAssumption, RecFields DEF RingTypes
<1>1. /\ rec[w].at = "payload"
      /\ RecBecomes(w, "commit", rec[w].seqno, b, rec[w].start)
      /\ \A c \in 0 .. PayloadBuf - 1 :
           payload'[c] = IF \E i \in b .. PayloadEnd(w) - 1 : c = i % PayloadBuf
                         THEN rec[w].seqno ELSE payload[c]
      /\ UNCHANGED <<lastSeqno, nextByte, windowStart, iter>>
  BY WritePayloadFacts
<1>11. PayloadEnd(w) = b + PayloadSize
  BY DEF PayloadEnd
<1>2. HasBytes(w)
  BY <1>1 DEF HasBytes
<1>3. \A x \in Recorders : rec'[x].begin = rec[x].begin /\ rec'[x].seqno = rec[x].seqno
                           /\ (HasBytes(x)' <=> HasBytes(x))
  BY <1>1 DEF RecBecomes, HasBytes
<1>4. Numbered
  BY DEF RecInv
<1>5. ASSUME NEW q, NEW o \in Nat, Kept(q, o) PROVE Kept(q, o)'
  <2>1. Own(q, o)'
    BY <1>2, <1>4, <1>5, WriteKeeps DEF Kept
  <2> QED
    BY <1>1, <1>3, <1>5, <2>1 DEF Kept, Apart, PayloadEnd
<1>6. RecordersApart'
  BY <1>3 DEF PayInv, RecordersApart, Apart, PayloadEnd
<1>7. EventsKept'
  <2> DEFINE s == Slot(rec[w].seqno)
  <2>1. /\ s \in 0 .. DescCapacity - 1
        /\ DescBecomes(s, desc[s].seqno, desc[s].offset, rec[w].seqno)
    BY WritePayloadFacts
  <2>2. \A t \in 0 .. DescCapacity - 1 :
          desc'[t].seqno = desc[t].seqno /\ desc'[t].offset = desc[t].offset
    BY <2>1 DEF DescBecomes
  <2> SUFFICES ASSUME NEW t \in 0 .. DescCapacity - 1, NEW q, NEW o, q # 0,
                      q = desc'[t].seqno, o = desc'[t].offset
               PROVE  Kept(q, o)'
    BY EventsKeptFrom
  <2>3. o \in Nat
    BY <2>2 DEF RingTypes, Descriptors
  <2>4. Kept(q, o)
    BY <2>2 DEF PayInv, EventsKept
  <2> QED
    BY <1>5, <2>3, <2>4
<1>8. Written'
  <2> SUFFICES ASSUME NEW x \in Recorders, rec'[x].at = "commit", NEW q, NEW o,
                      q = rec[x].seqno, o = rec[x].begin
               PROVE  Own(q, o)'
    BY <1>3 DEF Written, Own
  <2>1. CASE x = w
    <3>1. ASSUME NEW i \in o .. o + PayloadSize - 1 PROVE payload'[i % PayloadBuf] = q
      <4>1. i % PayloadBuf \in 0 .. PayloadBuf - 1
        BY <1>0, <2>1
      <4> DEFINE c == i % PayloadBuf
      <4>2. \E j \in b .. PayloadEnd(w) - 1 : c = j % PayloadBuf
        <5>1. i \in b .. PayloadEnd(w) - 1
          BY <1>0, <1>11, <2>1
        <5> QED
          BY <5>1, Zenon
      <4> HIDE DEF c
      <4>3. payload'[c] = q
        BY <1>1, <2>1, <4>1, <4>2 DEF c
      <4> QED
        BY <4>3 DEF c
    <3> QED
      BY <3>1 DEF Own
  <2>2. CASE x # w
    <3>1. rec[x].at = "commit" /\ HasBytes(x)
      BY <1>1, <2>2 DEF RecBecomes, HasBytes
    <3>2. Own(q, o) /\ o \in Nat
      BY <3>1, RecFields DEF PayInv, Written
    <3>3. Apart(o, w)
      BY <1>2, <2>2, <3>1 DEF PayInv, RecordersApart
    <3>4. o + PayloadSize <= nextByte
      BY <3>1 DEF ByteInv, Begins, PayloadEnd
    <3> QED
      BY <1>4, <3>2, <3>3, <3>4, WriteKeeps
  <2> QED
    BY <2>1, <2>2
<1>9. EventsFound'
  <2> SUFFICES ASSUME NEW r \in Readers, iter[r].at \in {"check", "memcpy"}, iter[r].op # "early",
                      NEW q, NEW o, q = iter[r].seqno, o = iter[r].event.offset
               PROVE  Kept(q, o)'
    BY <1>1 DEF EventsFound, Kept, Own, Apart, PayloadEnd
  <2>1. Kept(q, o) /\ o \in Nat
    BY IterFields DEF PayInv, EventsFound
  <2> QED
    BY <1>5, <2>1
<1>10. PayloadsRead' /\ PayloadIntact'
  BY <1>1 DEF PayInv, PayloadsRead, PayloadIntact
<1> QED
  BY <1>6, <1>7, <1>8, <1>9, <1>10 DEF PayInv

\* A committed event has its payload, and nobody else has its bytes.
LEMMA CommitPay ==
    ASSUME RingTypes, RecInv, ByteInv, WindowInv, PayInv, NEW w \in Recorders, Commit(w)
    PROVE  PayInv'
<1> DEFINE s == Slot(rec[w].seqno)
<1>1. /\ RingTypes' /\ rec[w].at = "commit" /\ s \in 0 .. DescCapacity - 1
      /\ RecBecomes(w, "idle", 0, 0, 0)
      /\ DescBecomes(s, rec[w].seqno, desc[s].offset, desc[s].tag)
      /\ UNCHANGED <<lastSeqno, nextByte, windowStart, payload, iter>>
  BY CommitFacts
<1>2. HasBytes(w) /\ desc[s].offset = rec[w].begin /\ ~ HasBytes(w)'
  BY <1>1 DEF HasBytes, RecInv, RecorderSlot, RecBecomes
<1>3. NoPayload(w) /\ rec'[w].at # "commit"
  BY <1>1, <1>2 DEF NoPayload, RecBecomes, RingTypes
<1>4. ASSUME NEW t \in 0 .. DescCapacity - 1, NEW q, NEW o,
             q = desc'[t].seqno, o = desc'[t].offset, q # 0, desc'[t] # desc[t]
      PROVE  Kept(q, o)'
  <2>1. t = s /\ q = rec[w].seqno /\ o = rec[w].begin
    BY <1>1, <1>2, <1>4 DEF DescBecomes
  <2>2. Own(q, o) /\ o + PayloadSize <= nextByte
    BY <1>1, <1>2, <2>1 DEF PayInv, Written, ByteInv, Begins, PayloadEnd
  <2>3. \A x \in Recorders : HasBytes(x)' => x # w /\ HasBytes(x) /\ rec'[x] = rec[x]
    BY <1>1, <1>2 DEF RecBecomes, HasBytes
  <2>4. \A x \in Recorders : HasBytes(x)' => Apart(o, x)'
    BY <1>2, <2>1, <2>3 DEF PayInv, RecordersApart, Apart, PayloadEnd
  <2> QED
    BY <1>1, <2>2, <2>4 DEF Kept, Own
<1> QED
  BY <1>1, <1>3, <1>4, NoPayloadPay

LEMMA RecordPay ==
    ASSUME RingTypes, RecInv, ByteInv, WindowInv, PayInv, LagBounded, NEW w \in Recorders,
           ReserveSeqno(w) \/ Record(w)
    PROVE  PayInv'
<1> DEFINE s == Slot(rec[w].seqno)
<1>0. windowStart \in Int /\ nextByte \in Nat /\ PayloadSize \in Nat
  BY EventRingAssumption DEF RingTypes
<1>1. windowStart' >= windowStart
  BY RecordWindow DEF RecInv
<1>2. CASE ReserveSeqno(w) \/ LoadWindow(w) \/ SlideWindow(w)
  <2>1. /\ RingTypes' /\ UNCHANGED <<nextByte, desc, payload, iter>>
        /\ \A x \in Recorders : x # w => rec'[x] = rec[x]
        /\ rec'[w].at \in {"bytes", "slide", "fill"} /\ rec'[w].begin = rec[w].begin
        /\ rec'[w].at # "bytes" => rec[w].at \in {"window", "slide"}
    BY <1>2, ReserveSeqnoFacts, LoadWindowFacts, SlideWindowFacts DEF RecBecomes
  <2>2. NoPayload(w)
    BY <1>0, <1>1, <2>1 DEF NoPayload, HasBytes, RingTypes
  <2> QED
    BY <2>1, <2>2, NoPayloadPay
<1>3. CASE ReserveBytes(w)
  <2>1. /\ RingTypes' /\ nextByte' = nextByte + PayloadSize /\ UNCHANGED <<desc, payload, iter>>
        /\ \A x \in Recorders : x # w => rec'[x] = rec[x]
        /\ rec'[w].at = "invalidate" /\ rec'[w].begin = nextByte
    BY <1>3, ReserveBytesFacts DEF RecBecomes
  <2>2. NoPayload(w)
    BY <1>0, <1>1, <2>1 DEF NoPayload, HasBytes, RingTypes
  <2> QED
    BY <2>1, <2>2, NoPayloadPay
<1>4. CASE Invalidate(w) \/ FillDescriptor(w)
  <2>1. /\ RingTypes' /\ UNCHANGED <<nextByte, payload, iter>>
        /\ \A x \in Recorders : x # w => rec'[x] = rec[x]
        /\ rec'[w].at \in {"window", "payload"} /\ rec'[w].begin = rec[w].begin
        /\ rec[w].at \in {"invalidate", "fill"}
    BY <1>4, InvalidateFacts, FillDescriptorFacts DEF RecBecomes
  <2>2. NoPayload(w)
    BY <1>0, <1>1, <2>1 DEF NoPayload, HasBytes, RingTypes
  <2>3. /\ s \in 0 .. DescCapacity - 1
        /\ \/ DescBecomes(s, 0, desc[s].offset, desc[s].tag)
           \/ rec[w].at = "fill" /\ DescBecomes(s, desc[s].seqno, rec[w].begin, desc[s].tag)
    BY <1>4, InvalidateFacts, FillDescriptorFacts
  <2>4. rec[w].at = "fill" => desc[s].seqno = 0
    BY DEF RecInv, RecorderSlot, OwnsSlot
  <2>5. \A t \in 0 .. DescCapacity - 1 : desc'[t].seqno # 0 => desc'[t] = desc[t]
    BY <2>3, <2>4 DEF DescBecomes
  <2> QED
    BY <2>1, <2>2, <2>5, NoPayloadPay
<1>5. CASE WritePayload(w)
  BY <1>5, WritePayloadPay
<1>6. CASE Commit(w)
  BY <1>6, CommitPay
<1> QED
  BY <1>2, <1>3, <1>4, <1>5, <1>6 DEF Record

\* Iterators leave the ring as it is; so only the iterator itself is to be looked at.
LEMMA OthersPay ==
    ASSUME RingTypes, PayInv, NEW r \in Readers, NEW new, OnlyIter(r, new),
           \A q, o : /\ new.at \in {"check", "memcpy"} /\ new.op # "early"
                     /\ q = new.seqno /\ o = new.event.offset
                     => Kept(q, o),
           new.at = "recheck" /\ new.op # "early" =>
             windowStart > new.event.offset \/ new.bytes \subseteq {new.seqno},
           new.at = "got" /\ new.op # "early" => new.bytes \subseteq {new.event.tag}
    PROVE  PayInv'
<1>1. UNCHANGED <<lastSeqno, nextByte, windowStart, desc, payload, rec>>
  BY DEF OnlyIter, ringShared
<1>2. iter'[r] = new /\ \A x \in Readers : x # r => iter'[x] = iter[x]
  BY DEF OnlyIter, IterBecomes
<1>3. RecordersApart' /\ EventsKept' /\ Written'
  BY <1>1 DEF PayInv, RecordersApart, EventsKept, Written, Kept, Own, Apart, PayloadEnd, HasBytes
<1>4. EventsFound'
  <2> SUFFICES ASSUME NEW x \in Readers, iter'[x].at \in {"check", "memcpy"}, iter'[x].op # "early",
                      NEW q, NEW o, q = iter'[x].seqno, o = iter'[x].event.offset
               PROVE  Kept(q, o)
    BY <1>1 DEF EventsFound, Kept, Own, Apart, PayloadEnd, HasBytes
  <2>1. CASE x = r
    BY <1>2, <2>1
  <2>2. CASE x # r
    BY <1>2, <2>2 DEF PayInv, EventsFound
  <2> QED
    BY <2>1, <2>2
<1>5. PayloadsRead'
  BY <1>1, <1>2 DEF PayInv, PayloadsRead
<1>6. PayloadIntact'
  BY <1>2 DEF PayInv, PayloadIntact
<1> QED
  BY <1>3, <1>4, <1>5, <1>6 DEF PayInv

\* The event was in its slot when its number was read again, so its bytes are kept.
LEMMA ReloadPay ==
    ASSUME RingTypes, RecInv, CopyInv, PayInv, NEW r \in Readers, Reload(r)
    PROVE  PayInv'
<1> DEFINE s == Slot(iter[r].seqno)
<1>0. iter[r] \in IterStates /\ iter[r].last \in Nat /\ iter[r].seqno \in Nat
      /\ s \in 0 .. DescCapacity - 1
  BY IterFields
<1>1. /\ iter[r].at = "reload"
      /\ \/ /\ desc[s].seqno = iter[r].seqno
            /\ \E last \in Nat :
                 OnlyIter(r, [iter[r] EXCEPT !.at = "check", !.result = "success", !.last = last])
         \/ OnlyIter(r, IterIdle(iter[r].last, "gap"))
         \/ OnlyIter(r, IterIdle(iter[r].last, "none"))
  BY ReloadFacts
<1>2. ASSUME desc[s].seqno = iter[r].seqno, NEW last \in Nat,
             OnlyIter(r, [iter[r] EXCEPT !.at = "check", !.result = "success", !.last = last])
      PROVE  PayInv'
  <2> DEFINE new == [iter[r] EXCEPT !.at = "check", !.result = "success", !.last = last]
  <2>1. new.at = "check" /\ new.event = iter[r].event /\ new.seqno = iter[r].seqno
        /\ new.op = iter[r].op
    BY <1>0 DEF IterStates
  <2>2. OnlyIter(r, new)
    BY <1>2
  <2> HIDE DEF new
  <2>3. iter[r].at = "reload" /\ desc[s].seqno = iter[r].seqno
    BY <1>1, <1>2
  <2>4. ASSUME NEW q, NEW o, new.op # "early", q = new.seqno, o = new.event.offset
        PROVE  Kept(q, o)
    <3>1. CopySound(r)
      BY <2>1, <2>3, <2>4 DEF Copying, CopyInv, CopiesSound
    <3>2. iter[r].event.offset = desc[s].offset /\ iter[r].seqno # 0
      BY <1>0, <2>3, <3>1 DEF CopySound
    <3>3. q = desc[s].seqno /\ o = desc[s].offset /\ q # 0
      BY <2>1, <2>3, <2>4, <3>2
    <3> QED
      BY <1>0, <3>3 DEF PayInv, EventsKept
  <2> QED
    BY <2>1, <2>2, <2>4, OthersPay
<1>3. CASE OnlyIter(r, IterIdle(iter[r].last, "gap"))
  BY <1>0, <1>3, IdleFacts, OthersPay
<1>4. CASE OnlyIter(r, IterIdle(iter[r].last, "none"))
  BY <1>0, <1>4, IdleFacts, OthersPay
<1> QED
  BY <1>1, <1>2, <1>3, <1>4

LEMMA MemcpyPay ==
    ASSUME RingTypes, PayInv, NEW r \in Readers, PayloadMemcpy(r)
    PROVE  PayInv'
<1> DEFINE o == iter[r].event.offset
           bytes == {payload[i % PayloadBuf] : i \in o .. o + PayloadSize - 1}
           new == [iter[r] EXCEPT !.at = "recheck", !.bytes = bytes]
<1>0. iter[r] \in IterStates /\ o \in Nat /\ windowStart \in Int
  BY IterFields DEF RingTypes
<1>1. iter[r].at = "memcpy" /\ OnlyIter(r, new)
  BY PayloadMemcpyFacts
<1>2. iter[r].op # "early" => windowStart > o \/ bytes \subseteq {iter[r].seqno}
  <2> SUFFICES ASSUME iter[r].op # "early", ~ (windowStart > o) PROVE bytes \subseteq {iter[r].seqno}
    OBVIOUS
  <2>1. Own(iter[r].seqno, o)
    BY <1>1 DEF PayInv, EventsFound, Kept
  <2>2. windowStart <= o
    BY <1>0
  <2>3. \A i \in o .. o + PayloadSize - 1 : payload[i % PayloadBuf] = iter[r].seqno
    BY <2>1, <2>2 DEF Own
  <2> QED
    BY <2>3
<1> HIDE DEF bytes
<1>3. new.at = "recheck" /\ new.event = iter[r].event /\ new.seqno = iter[r].seqno
      /\ new.op = iter[r].op /\ new.bytes = bytes
  BY <1>0 DEF IterStates
<1> HIDE DEF new
<1> QED
  BY <1>1, <1>2, <1>3, OthersPay

LEMMA IteratePay ==
    ASSUME RingTypes, RecInv, CopyInv, PayInv, NEW r \in Readers,
           TryNext(r) \/ RingTryCopy(r) \/ Reset(r) \/ Iterate(r)
    PROVE  PayInv'
<1>0. iter[r] \in IterStates /\ iter[r].last \in Nat
  BY IterFields
<1>1. ASSUME NEW new, OnlyIter(r, new), new.at \in {"idle", "sync", "offset", "tag", "reload"}
      PROVE  PayInv'
  BY <1>1, OthersPay
<1>2. CASE OnlyIter(r, IterIdle(iter[r].last, "none"))
  BY <1>0, <1>1, <1>2, IdleFacts
<1>3. CASE TryNext(r)
  <2> DEFINE new == [iter[r] EXCEPT !.at = "offset", !.seqno = iter[r].last + 1, !.op = "next"]
  <2>1. OnlyIter(r, new) \/ \E result \in {"not_ready", "gap"} : OnlyIter(r, IterIdle(iter[r].last, result))
    BY <1>3, TryNextFacts
  <2>2. new.at = "offset"
    BY <1>0 DEF IterStates
  <2> HIDE DEF new
  <2> QED
    BY <1>0, <1>1, <2>1, <2>2, IdleFacts
<1>4. CASE RingTryCopy(r)
  <2>1. PICK op \in {"copy", "early"} :
          OnlyIter(r, [iter[r] EXCEPT !.at = "offset", !.seqno = lastSeqno, !.result = "none", !.op = op])
    BY <1>4, RingTryCopyFacts
  <2> DEFINE new == [iter[r] EXCEPT !.at = "offset", !.seqno = lastSeqno, !.result = "none", !.op = op]
  <2>2. new.at = "offset"
    BY <1>0 DEF IterStates
  <2>3. OnlyIter(r, new)
    BY <2>1
  <2> HIDE DEF new
  <2> QED
    BY <1>1, <2>2, <2>3
<1>5. CASE CopyOffset(r)
  <2> DEFINE new == [iter[r] EXCEPT !.at = "tag",
                       !.event = [offset |-> desc[Slot(iter[r].seqno)].offset, tag |-> 0]]
  <2>1. OnlyIter(r, new)
    BY <1>5, CopyOffsetFacts
  <2>2. new.at = "tag"
    BY <1>0 DEF IterStates
  <2> HIDE DEF new
  <2> QED
    BY <1>1, <2>1, <2>2
<1>6. CASE CopyTag(r)
  <2> DEFINE new == [iter[r] EXCEPT !.at = "reload",
                       !.event = [offset |-> iter[r].event.offset,
                                  tag |-> desc[Slot(iter[r].seqno)].tag]]
  <2>1. OnlyIter(r, new)
    BY <1>6, CopyTagFacts
  <2>2. new.at = "reload"
    BY <1>0 DEF IterStates
  <2> HIDE DEF new
  <2> QED
    BY <1>1, <2>1, <2>2
<1>7. CASE Reload(r)
  BY <1>7, ReloadPay
<1>8. CASE PayloadCheck(r)
  <2> DEFINE new == [iter[r] EXCEPT !.at = "memcpy"]
  <2>1. iter[r].at = "check" /\ (OnlyIter(r, new) \/ OnlyIter(r, IterIdle(iter[r].last, "none")))
    BY <1>8, PayloadCheckFacts
  <2>2. new.at = "memcpy" /\ new.event = iter[r].event /\ new.seqno = iter[r].seqno
        /\ new.op = iter[r].op
    BY GoesOn
  <2> HIDE DEF new
  <2>3. \A q, o : iter[r].op # "early" /\ q = iter[r].seqno /\ o = iter[r].event.offset => Kept(q, o)
    BY <2>1 DEF PayInv, EventsFound
  <2> QED
    BY <1>2, <2>1, <2>2, <2>3, OthersPay
<1>9. CASE PayloadMemcpy(r)
  BY <1>9, MemcpyPay
<1>10. CASE PayloadRecheck(r)
  <2> DEFINE new == [iter[r] EXCEPT !.at = "got"]
  <2>1. /\ iter[r].at = "recheck"
        /\ \/ iter[r].event.offset >= windowStart /\ OnlyIter(r, new)
           \/ OnlyIter(r, IterIdle(iter[r].last, "none"))
    BY <1>10, PayloadRecheckFacts
  <2>2. new.at = "got" /\ new.event = iter[r].event /\ new.bytes = iter[r].bytes
        /\ new.op = iter[r].op
    BY GoesOn
  <2> HIDE DEF new
  <2>3. iter[r].event.offset \in Nat /\ windowStart \in Int
    BY IterFields DEF RingTypes
  <2>4. iter[r].op # "early" => iter[r].event.tag = iter[r].seqno
    BY <2>1 DEF CopyInv, CopyIntact, HasEvent
  <2>5. iter[r].op # "early" /\ iter[r].event.offset >= windowStart =>
          iter[r].bytes \subseteq {iter[r].event.tag}
    BY <2>1, <2>3, <2>4 DEF PayInv, PayloadsRead
  <2> QED
    BY <1>2, <2>1, <2>2, <2>5, OthersPay
<1>11. CASE DropEvent(r) \/ Reset(r) \/ SyncWait(r)
  <2>1. PICK new \in IterStates : OnlyIter(r, new) /\ new.at \in {"idle", "sync"}
    BY <1>11, RestingFacts
  <2> QED
    BY <1>1, <2>1
<1> QED
  BY <1>3, <1>4, <1>5, <1>6, <1>7, <1>8, <1>9, <1>10, <1>11 DEF Iterate

----------------------------------------------------------------------------
\* Payloads need a recorder that does not lag too far behind; the rest does not.
RingInv == RingTypes /\ RecInv /\ CopyInv /\ ByteInv /\ (LagBounded => WindowInv /\ PayInv)

LEMMA RingInvNext == RingInv /\ [EventRingNext]_ringVars => RingInv'
<1> SUFFICES ASSUME RingInv, [EventRingNext]_ringVars PROVE RingInv'
  OBVIOUS
<1> USE DEF RingInv
<1>1. ASSUME NEW w \in Recorders, ReserveSeqno(w) \/ Record(w) PROVE RingInv'
  <2>1. RingTypes' /\ RecInv' /\ CopyInv'
    BY <1>1, RecordNumbers
  <2>2. ByteInv'
    BY <1>1, RecordBytes DEF RecInv
  <2>3. ASSUME LagBounded PROVE WindowInv' /\ PayInv'
    <3>1. WindowInv /\ PayInv /\ Numbered
      BY <2>3 DEF RecInv
    <3>2. WindowInv'
      BY <1>1, <2>3, <3>1, RecordWindow
    <3>3. PayInv'
      BY <1>1, <2>3, <3>1, RecordPay
    <3> QED
      BY <3>2, <3>3
  <2>4. LagBounded' <=> LagBounded
    BY DEF LagBounded
  <2> QED
    BY <2>1, <2>2, <2>3, <2>4
<1>2. ASSUME NEW r \in Readers, TryNext(r) \/ RingTryCopy(r) \/ Reset(r) \/ Iterate(r)
      PROVE  RingInv'
  <2>1. RingTypes' /\ RecInv' /\ CopyInv'
    BY <1>2, IterateCopies
  <2>2. UNCHANGED <<lastSeqno, nextByte, windowStart, desc, payload, rec>>
    BY <1>2 DEF TryNext, RingTryCopy, Reset, Iterate, CopyOffset, CopyTag, Reload, PayloadCheck,
                PayloadMemcpy, PayloadRecheck, DropEvent, SyncWait, ringShared
  <2>3. ByteInv'
    BY <2>2 DEF ByteInv, BytesCounted, Bytes, Begins, HasBytes, PayloadEnd
  <2>4. ASSUME LagBounded PROVE WindowInv' /\ PayInv'
    <3>1. WindowInv /\ PayInv
      BY <2>4
    <3>2. WindowInv'
      BY <2>2, <3>1 DEF WindowInv, Windowed, WindowTop, SlidingWindow, Reach, Aligned, BlockedOnes,
                        Blocked, Slides, Covered, Behind, Passed, PayloadEnd
    <3>3. PayInv'
      BY <1>2, <3>1, IteratePay
    <3> QED
      BY <3>2, <3>3
  <2> QED
    BY <2>1, <2>3, <2>4 DEF LagBounded
<1>3. CASE UNCHANGED ringVars
  <2>1. UNCHANGED <<lastSeqno, nextByte, windowStart, desc, payload, rec, iter>>
    BY <1>3 DEF ringVars, ringShared
  <2>2. RingTypes'
    BY <2>1 DEF RingTypes
  <2>3. RecInv' /\ CopyInv'
    BY <2>1 DEF RecInv, Numbered, Distinct, DescSound, RecorderSlot, Active, OwnsSlot, Slot,
                CopyInv, CopiesSound, Copying, CopySound, CopyIntact, HasEvent, GapIsReal
  <2>4. ByteInv'
    BY <2>1 DEF ByteInv, BytesCounted, Bytes, Begins, HasBytes, PayloadEnd
  <2>5. ASSUME LagBounded PROVE WindowInv' /\ PayInv'
    <3>1. WindowInv /\ PayInv
      BY <2>5
    <3>2. WindowInv'
      BY <2>1, <3>1 DEF WindowInv, Windowed, WindowTop, SlidingWindow, Reach, Aligned, BlockedOnes,
                        Blocked, Slides, Covered, Behind, Passed, PayloadEnd
    <3>3. PayInv'
      BY <2>1, <3>1 DEF PayInv, RecordersApart, EventsKept, Written, Kept, Own, Apart, PayloadEnd,
                        HasBytes, EventsFound, PayloadsRead, PayloadIntact
    <3> QED
      BY <3>2, <3>3
  <2> QED
    BY <2>2, <2>3, <2>4, <2>5 DEF LagBounded
<1> QED
  BY <1>1, <1>2, <1>3 DEF EventRingNext

\* Whatever an iterator is told is true: the descriptor it copied is the event's, although
\* recorders overwrite it without waiting, and the event it is told to have missed is
\* overwritten; and if no recorder lags behind by more than LagBounded says, so that the
\* unsigned difference in monad_event_recorder_reserve never wraps, the payload it read is the
\* event's too.
THEOREM IteratorsRightAlways == EventRingSpec => []IteratorsRight
<1>1. EventRingInit => RingInv
  BY RingTypesInit, RecInvInit, ByteInvInit, WindowInvInit, PayInvInit DEF RingInv
<1>2. RingInv => IteratorsRight
  BY DEF RingInv, CopyInv, PayInv, IteratorsRight
<1> QED
  BY <1>1, <1>2, RingInvNext, PTL DEF EventRingSpec
=============================================================================
