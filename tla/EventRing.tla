------------------------------ MODULE EventRing ------------------------------
(***************************************************************************)
(* The event ring of category/core/event: recorders on several threads     *)
(* write descriptors and payloads into shared memory without a lock, and   *)
(* iterators in other processes read them, with sequence numbers to detect *)
(* what was overwritten meanwhile.  One access to shared memory is one     *)
(* step; on x86-64, which the code is built for, they happen in program    *)
(* order.                                                                  *)
(*                                                                         *)
(* A recorder is assumed not to be suspended for a whole turn of the       *)
(* descriptor array (at least 2^16 events), the payloads of such a turn to *)
(* fit the payload buffer (at least 2^27 bytes), and events being recorded *)
(* at once to be no larger together than WindowIncr (2^24 bytes).          *)
(***************************************************************************)
EXTENDS Integers, FiniteSets

CONSTANTS Recorders,    \* threads that record events
          Readers,      \* iterators
          DescCapacity, \* descriptors in the ring
          PayloadBuf,   \* bytes in the payload buffer
          WindowIncr,   \* MONAD_EVENT_WINDOW_INCR
          Word,         \* 2^64
          PayloadSize,  \* bytes of an event's payload
          MaxEvents     \* bound on the events recorded

ASSUME EventRingAssumption ==
    /\ DescCapacity \in Nat \ {0, 1} /\ PayloadBuf \in Nat /\ WindowIncr \in Nat \ {0}
    /\ WindowIncr < PayloadBuf /\ PayloadSize \in Nat /\ MaxEvents \in Nat
    /\ IsFiniteSet(Recorders)
    /\ Cardinality(Recorders) * PayloadSize <= WindowIncr
    /\ (DescCapacity + Cardinality(Recorders) - 1) * PayloadSize <= PayloadBuf
    \* Nothing is counted as far as 2^64.
    /\ Word \in Nat /\ MaxEvents * PayloadSize + 2 * PayloadBuf < Word

VARIABLES
    lastSeqno,    \* control.last_seqno
    nextByte,     \* control.next_payload_byte
    windowStart,  \* control.buffer_window_start
    desc,         \* the descriptors: sequence number, payload offset and the rest
    payload,      \* the payload buffer: the event each byte belongs to
    rec,          \* what each recorder is doing
    iter          \* what each iterator is doing

ringShared == <<lastSeqno, nextByte, windowStart, desc, payload>>
ringVars == <<ringShared, rec, iter>>

\* The memory may have been used by another ring (Old), but init_file clears the
\* sequence numbers.
Old == 0 - 1

NoEvent == [offset |-> 0, tag |-> 0]

\* Between two calls: start is what LoadWindow read, op the function called.
RecIdle == [at |-> "idle", seqno |-> 0, begin |-> 0, start |-> 0]

IterIdle(last, result) ==
    [at |-> "idle", last |-> last, seqno |-> 0, event |-> NoEvent, bytes |-> {},
     result |-> result, op |-> "next"]

EventRingInit ==
    /\ lastSeqno = 0 /\ nextByte = 0 /\ windowStart = 0
    /\ desc = [i \in 0 .. DescCapacity - 1 |-> [seqno |-> 0, offset |-> 0, tag |-> Old]]
    /\ payload = [i \in 0 .. PayloadBuf - 1 |-> Old]
    /\ rec = [w \in Recorders |-> RecIdle]
    /\ iter = [r \in Readers |-> IterIdle(0, "none")]

\* The slot of a sequence number
Slot(seqno) == (seqno - 1) % DescCapacity

SlidingWindow == PayloadBuf - WindowIncr

\* The difference of two uint64_t
UintSub(a, b) == IF b <= a THEN a - b ELSE a - b + Word

RoundUp(n, align) == ((n + align - 1) \div align) * align

----------------------------------------------------------------------------
\* Recording: monad_event_recorder_reserve, the caller's copy of the payload, and
\* monad_event_recorder_commit

RecordStep(w, at) == rec' = [rec EXCEPT ![w].at = at]

\* No recorder is a whole turn behind.
NotLapped == \A w \in Recorders : rec[w].at # "idle" => lastSeqno + 1 < rec[w].seqno + DescCapacity

\* last_seqno is advanced.
ReserveSeqno(w) ==
    /\ rec[w].at = "idle" /\ lastSeqno < MaxEvents /\ NotLapped
    /\ lastSeqno' = lastSeqno + 1
    /\ rec' = [rec EXCEPT ![w].at = "bytes", ![w].seqno = lastSeqno + 1]
    /\ UNCHANGED <<nextByte, windowStart, desc, payload, iter>>

ReserveBytes(w) ==
    /\ rec[w].at = "bytes"
    /\ nextByte' = nextByte + PayloadSize
    /\ rec' = [rec EXCEPT ![w].at = "invalidate", ![w].begin = nextByte]
    /\ UNCHANGED <<lastSeqno, windowStart, desc, payload, iter>>

\* Mutant of Invalidate: the old sequence number stays until the new one is stored.
InvalidateNever(w) ==
    /\ rec[w].at = "invalidate" /\ RecordStep(w, "window")
    /\ UNCHANGED <<ringShared, iter>>

\* The slot's sequence number becomes 0, so that a reader detects the change.
Invalidate(w) ==
    /\ rec[w].at = "invalidate" /\ RecordStep(w, "window")
    /\ desc' = [desc EXCEPT ![Slot(rec[w].seqno)].seqno = 0]
    /\ UNCHANGED <<lastSeqno, nextByte, windowStart, payload, iter>>

PayloadEnd(w) == rec[w].begin + PayloadSize

\* A window that others have moved past the end of the payload makes the difference wrap.
LoadWindow(w) ==
    /\ rec[w].at = "window"
    /\ rec' = IF UintSub(PayloadEnd(w), windowStart) > SlidingWindow
              THEN [rec EXCEPT ![w].start = windowStart, ![w].at = "slide"]
              ELSE [rec EXCEPT ![w].at = "fill"]
    /\ UNCHANGED <<ringShared, iter>>

\* Mutant of SlideWindow: the exchange expects the start of the payload instead of the window's.
SlideWindowNever(w) ==
    /\ rec[w].at = "slide" /\ rec' = [rec EXCEPT ![w].at = "fill", ![w].start = 0]
    /\ windowStart' = IF windowStart = rec[w].begin
                      THEN UintSub(RoundUp(PayloadEnd(w), WindowIncr), SlidingWindow) ELSE windowStart
    /\ UNCHANGED <<lastSeqno, nextByte, desc, payload, iter>>

\* One attempt to move the window: another recorder may have moved it.  After a difference that
\* wrapped, the window moves back.
SlideWindow(w) ==
    /\ rec[w].at = "slide" /\ rec' = [rec EXCEPT ![w].at = "fill", ![w].start = 0]
    /\ windowStart' = IF windowStart = rec[w].start
                      THEN UintSub(RoundUp(PayloadEnd(w), WindowIncr), SlidingWindow) ELSE windowStart
    /\ UNCHANGED <<lastSeqno, nextByte, desc, payload, iter>>

\* The fields reserve fills in
FillDescriptor(w) ==
    /\ rec[w].at = "fill" /\ RecordStep(w, "payload")
    /\ desc' = [desc EXCEPT ![Slot(rec[w].seqno)].offset = rec[w].begin]
    /\ UNCHANGED <<lastSeqno, nextByte, windowStart, payload, iter>>

\* The caller's fields and the payload
WritePayload(w) ==
    /\ rec[w].at = "payload" /\ RecordStep(w, "commit")
    /\ desc' = [desc EXCEPT ![Slot(rec[w].seqno)].tag = rec[w].seqno]
    /\ payload' = [b \in DOMAIN payload |->
                     IF \E i \in rec[w].begin .. PayloadEnd(w) - 1 : b = i % PayloadBuf
                     THEN rec[w].seqno ELSE payload[b]]
    /\ UNCHANGED <<lastSeqno, nextByte, windowStart, iter>>

\* Mutant of Commit: the sequence number is one behind.
CommitLast(w) ==
    /\ rec[w].at = "commit" /\ rec' = [rec EXCEPT ![w] = RecIdle]
    /\ desc' = [desc EXCEPT ![Slot(rec[w].seqno)].seqno = rec[w].seqno - 1]
    /\ UNCHANGED <<lastSeqno, nextByte, windowStart, payload, iter>>

Commit(w) ==
    /\ rec[w].at = "commit" /\ rec' = [rec EXCEPT ![w] = RecIdle]
    /\ desc' = [desc EXCEPT ![Slot(rec[w].seqno)].seqno = rec[w].seqno]
    /\ UNCHANGED <<lastSeqno, nextByte, windowStart, payload, iter>>

----------------------------------------------------------------------------
\* Reading

IterStep(r, at) == iter' = [iter EXCEPT ![r].at = at]

Answer(r, result) == iter' = [iter EXCEPT ![r] = IterIdle(iter[r].last, result)]

\* Mutant of TryNext: a slot not yet written again counts as a gap.
TryNextEager(r) ==
    LET next == iter[r].last + 1
        seqno == desc[Slot(next)].seqno
    IN  /\ iter[r].at = "idle"
        /\ IF seqno = next
           THEN iter' = [iter EXCEPT ![r].at = "offset", ![r].seqno = next, ![r].op = "next"]
           ELSE Answer(r, IF seqno = 0 THEN "not_ready" ELSE "gap")
        /\ UNCHANGED <<ringShared, rec>>

\* monad_event_iterator_try_copy reads the sequence number of the next slot.
TryNext(r) ==
    LET next == iter[r].last + 1
        seqno == desc[Slot(next)].seqno
    IN  /\ iter[r].at = "idle"
        /\ IF seqno = next
           THEN iter' = [iter EXCEPT ![r].at = "offset", ![r].seqno = next, ![r].op = "next"]
           ELSE Answer(r, IF seqno < iter[r].last \/ seqno = 0 THEN "not_ready" ELSE "gap")
        /\ UNCHANGED <<ringShared, rec>>

\* monad_event_ring_try_copy of any event: it copies before it reads the number.
\* op: whether the event was complete when the copy began.
RingTryCopy(r) ==
    /\ iter[r].at = "idle" /\ lastSeqno > 0
    /\ iter' = [iter EXCEPT ![r].at = "offset", ![r].seqno = lastSeqno, ![r].result = "none",
                  ![r].op = IF desc[Slot(lastSeqno)].seqno = lastSeqno THEN "copy" ELSE "early"]
    /\ UNCHANGED <<ringShared, rec>>

\* The descriptor is copied field by field.
CopyOffset(r) ==
    /\ iter[r].at = "offset"
    /\ iter' = [iter EXCEPT ![r].at = "tag",
                            ![r].event = [NoEvent EXCEPT !.offset = desc[Slot(iter[r].seqno)].offset]]
    /\ UNCHANGED <<ringShared, rec>>

CopyTag(r) ==
    /\ iter[r].at = "tag"
    /\ iter' = [iter EXCEPT ![r].at = "reload",
                            ![r].event.tag = desc[Slot(iter[r].seqno)].tag]
    /\ UNCHANGED <<ringShared, rec>>

\* The sequence number is read again; if it is the same the copy is good, and
\* try_next moves on.
Reload(r) ==
    /\ iter[r].at = "reload"
    /\ IF desc[Slot(iter[r].seqno)].seqno = iter[r].seqno
       THEN iter' = [iter EXCEPT ![r].at = "check", ![r].result = "success",
                       ![r].last = IF iter[r].op = "next" THEN @ + 1 ELSE @]
       ELSE Answer(r, IF iter[r].op = "next" THEN "gap" ELSE "none")
    /\ UNCHANGED <<ringShared, rec>>

\* monad_event_ring_payload_memcpy: the window is read before and after the copy.
PayloadCheck(r) ==
    /\ iter[r].at = "check"
    /\ IF iter[r].event.offset >= windowStart THEN IterStep(r, "memcpy") ELSE Answer(r, "none")
    /\ UNCHANGED <<ringShared, rec>>

PayloadMemcpy(r) ==
    /\ iter[r].at = "memcpy"
    /\ iter' = [iter EXCEPT ![r].at = "recheck",
                  ![r].bytes = {payload[i % PayloadBuf] :
                     i \in iter[r].event.offset .. iter[r].event.offset + PayloadSize - 1}]
    /\ UNCHANGED <<ringShared, rec>>

PayloadRecheck(r) ==
    /\ iter[r].at = "recheck"
    /\ IF iter[r].event.offset >= windowStart THEN IterStep(r, "got") ELSE Answer(r, "none")
    /\ UNCHANGED <<ringShared, rec>>

\* The reader is done with the event.
DropEvent(r) ==
    /\ iter[r].at = "got"
    /\ Answer(r, "none")
    /\ UNCHANGED <<ringShared, rec>>

\* monad_event_iterator_reset: sync_wait looks for the last complete event,
\* downwards from last_seqno.
Reset(r) ==
    /\ iter[r].at = "idle"
    /\ iter' = [iter EXCEPT ![r].at = "sync", ![r].seqno = lastSeqno]
    /\ UNCHANGED <<ringShared, rec>>

SyncWait(r) ==
    LET seqno == iter[r].seqno
    IN  /\ iter[r].at = "sync"
        /\ IF seqno = 0 \/ desc[Slot(seqno)].seqno = seqno
           THEN iter' = [iter EXCEPT ![r] = IterIdle(IF seqno > 0 THEN seqno - 1 ELSE 0, "none")]
           ELSE iter' = [iter EXCEPT ![r].seqno = @ - 1]
        /\ UNCHANGED <<ringShared, rec>>

----------------------------------------------------------------------------
Record(w) ==
    \/ ReserveBytes(w) \/ Invalidate(w) \/ LoadWindow(w) \/ SlideWindow(w)
    \/ FillDescriptor(w) \/ WritePayload(w) \/ Commit(w)

Iterate(r) ==
    \/ CopyOffset(r) \/ CopyTag(r) \/ Reload(r)
    \/ PayloadCheck(r) \/ PayloadMemcpy(r) \/ PayloadRecheck(r) \/ DropEvent(r) \/ SyncWait(r)

EventRingNext ==
    \/ \E w \in Recorders : ReserveSeqno(w) \/ Record(w)
    \/ \E r \in Readers : TryNext(r) \/ RingTryCopy(r) \/ Reset(r) \/ Iterate(r)

\* A recorder that has begun an event ends it, and a reader keeps calling try_next,
\* whatever else it calls in between.
EventRingFair ==
    /\ \A w \in Recorders : WF_ringVars(Record(w))
    /\ \A r \in Readers : WF_ringVars(Iterate(r)) /\ SF_ringVars(TryNext(r))

EventRingSpec == EventRingInit /\ [][EventRingNext]_ringVars /\ EventRingFair

----------------------------------------------------------------------------
\* Properties

HasEvent(r) == iter[r].at \in {"check", "memcpy", "recheck", "got"}

\* A copy that try_next reports as a success is of the event with that number, all
\* of it, although recorders may overwrite the slot during the copy; so is one of
\* monad_event_ring_try_copy, if the event was complete when it began.
CopyIntact ==
    \A r \in Readers : HasEvent(r) /\ iter[r].op # "early" => iter[r].event.tag = iter[r].seqno

\* The payload that memcpy returns is the event's own: what the window still
\* contains is not overwritten, although one attempt to move it may fail
\* ("returns nullptr if the event payload has been overwritten", event_ring.h).
PayloadIntact ==
    \A r \in Readers : iter[r].at = "got" /\ iter[r].op # "early" =>
      iter[r].bytes \subseteq {iter[r].event.tag}

\* An iterator is told of a gap only if the event it asked for is overwritten.
GapIsReal ==
    \A r \in Readers : iter[r].result = "gap" => lastSeqno > iter[r].last + DescCapacity

\* An iterator that keeps asking gets the next event until it has them all, or is told of a
\* gap.
EventDelivered ==
    \A r \in Readers : []<>(iter[r].last = lastSeqno \/ iter[r].result = "gap")

\* monad_event_ring_try_copy returns true only if the event's contents were copied.
RingTryCopyIntact == \A r \in Readers : HasEvent(r) => iter[r].event.tag = iter[r].seqno

\* What other recorders take of the payload buffer while one has its bytes and has not yet read
\* the window is less than the window by an increment, so that they do not move it past these
\* bytes.
LagBounded ==
    (DescCapacity + Cardinality(Recorders) - 2) * PayloadSize + 2 * WindowIncr <= PayloadBuf + 1

\* Whatever an iterator is told is true: events and payloads are whole and their own, and
\* what it is told to have missed is overwritten.  Payloads are so only if no recorder falls
\* behind by nearly the whole window before it reads where the window is.
IteratorsRight == CopyIntact /\ GapIsReal /\ (LagBounded => PayloadIntact)
=============================================================================
