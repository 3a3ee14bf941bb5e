------------------------------- MODULE AsyncIO -------------------------------
(***************************************************************************)
(* The i/o of one thread: io_uring behind a fixed number of registered     *)
(* buffers, completions that run user code, and initiations that are put   *)
(* off while completions run.                                              *)
(*                                                                         *)
(* What the thread is doing is a stack of frames, the innermost last,      *)
(* because nearly every function may poll, and a poll runs receivers that  *)
(* call the same functions again.  The kernel is external: an operation in *)
(* flight completes at some poll.  Rings never fill up.                    *)
(***************************************************************************)
EXTENDS Integers, Sequences, FiniteSets, SequencesExt

CONSTANTS Reads,        \* read operations: numbers from 1
          WriteBufs,    \* registered write buffers
          CqHalf,       \* half of the completion queue
          IoModes       \* configurations:
                        \*   segregated: a ring of their own for writes
                        \*   eager: eager_completions_
                        \*   limit: concurrent_read_io_limit_, 0 for none
                        \*   bufs: registered read buffers
                        \*   long: the reads larger than a buffer, scatter reads
                        \*   retries: bound on reads that come back with EAGAIN

ASSUME AsyncIOAssumption ==
    /\ Reads \subseteq Nat \ {0} /\ IsFiniteSet(Reads) /\ WriteBufs \in Nat /\ CqHalf \in Nat
    /\ IoModes \subseteq [segregated : BOOLEAN, eager : BOOLEAN, limit : Nat, bufs : Nat \ {0},
                          long : SUBSET Reads, retries : Nat]

VARIABLES
    ioMode,
    rdAt,       \* where a read is: none, begun, deferred, pending, flight, landed, done
    rdBuf,      \* the reads that hold a buffer
    rdFree,     \* rd_pool_, wr_pool_: free buffers
    wrFree,
    rdPending,  \* concurrent_read_ios_pending_
    inflightWr, \* records_.inflight_wr
    wrLanded,   \* of these, taken from the ring and not processed
    deferred,   \* pending_initiations
    within,     \* within_completions_count
    stack,
    polled,     \* what the last poll_uring_ returned
    retries,
    ioFailed    \* assertions that failed

ioVars == <<ioMode, rdAt, rdBuf, rdFree, wrFree, rdPending, inflightWr, wrLanded, deferred,
            within, stack, polled, retries, ioFailed>>

WriteCqe == 0
NoCqe == -1

PollFrame(blocking, mask) ==
    [k |-> "poll", at |-> "enter", blocking |-> blocking, mask |-> mask, todo |-> <<>>, n |-> 0]
InitFrame(r, never) == [k |-> "init", at |-> IF never THEN "buffer" ELSE "defer", r |-> r]
GetBufFrame(write, r) == [k |-> "getbuf", at |-> "enter", write |-> write, r |-> r]
PendingFrame(last) == [k |-> "pending", last |-> last, broke |-> FALSE]
WaitFrame == [k |-> "wait", at |-> "check"]

top == Last(stack)
Running(k, at) == top.k = k /\ top.at = at
Return == stack' = Front(stack)
Goto_(at) == stack' = [stack EXCEPT ![Len(stack)].at = at]
Call_(at, frame) == stack' = Append([stack EXCEPT ![Len(stack)].at = at], frame)
Become(frame) == stack' = Append(Front(stack), frame)

\* The bottom frame, and how many write buffers are with the writers: the others are in flight.
AsyncIOInit(bottom, held) ==
    /\ ioMode \in IoModes
    /\ rdAt = [r \in Reads |-> "none"] /\ rdBuf = {}
    /\ inflightWr = WriteBufs - held
    /\ rdFree = ioMode.bufs /\ wrFree = 0
    /\ rdPending = <<>> /\ wrLanded = 0
    /\ deferred = <<>> /\ within = 0 /\ stack = <<bottom>> /\ polled = 0
    /\ retries = 0 /\ ioFailed = {}

\* records_.inflight_rd, inflight_rd_scatter
ShortInFlight(at) == Cardinality({r \in Reads \ ioMode.long : at[r] \in {"flight", "landed"}})
LongInFlight == Cardinality({r \in ioMode.long : rdAt[r] \in {"flight", "landed"}})

io_in_flight ==
    ShortInFlight(rdAt) + Len(rdPending) + LongInFlight + inflightWr
    + IF deferred # <<>> /\ within = 0 THEN 1 ELSE 0

-----------------------------------------------------------------------------
(***************************************************************************)
(* Initiating a read.  An initiation within completions is put off; the    *)
(* first one outside them runs what was put off before.                    *)
(***************************************************************************)
\* do_possibly_deferred_initiate_, if_within_completions_add_to_pending_initiations
Defer ==
    /\ Running("init", "defer")
    /\ IF within > 0
       THEN /\ deferred' = Append(deferred, top.r)
            /\ rdAt' = [rdAt EXCEPT ![top.r] = "deferred"]
            /\ Return
            /\ UNCHANGED within
       ELSE /\ IF deferred = <<>> THEN Goto_("buffer") /\ UNCHANGED within
               ELSE Call_("buffer", PendingFrame(Last(deferred))) /\ within' = within + 1
            /\ UNCHANGED <<deferred, rdAt>>
    /\ UNCHANGED <<ioMode, rdBuf, rdFree, wrFree, rdPending, inflightWr, wrLanded, polled,
                   retries, ioFailed>>

\* Mutant: a retry gets another buffer.
HasBufferNever(r) == r \in ioMode.long

\* A retry has its buffer; a scatter read brings its own.
HasBuffer(r) == r \in ioMode.long \cup rdBuf

\* read_single_buffer_sender::operator()
NeedBuffer ==
    /\ Running("init", "buffer")
    /\ IF HasBuffer(top.r) THEN Goto_("limit") /\ UNCHANGED <<rdBuf, rdFree>>
       ELSE IF rdFree > 0
       THEN /\ rdFree' = rdFree - 1 /\ rdBuf' = rdBuf \cup {top.r}
            /\ Goto_("limit")
       ELSE Call_("limit", GetBufFrame(FALSE, top.r)) /\ UNCHANGED <<rdBuf, rdFree>>
    /\ UNCHANGED <<ioMode, rdAt, wrFree, rdPending, inflightWr, wrLanded, deferred, within,
                   polled, retries, ioFailed>>

\* submit_read_request: over the limit it waits for a completion.
CheckLimit ==
    /\ Running("init", "limit")
    /\ IF top.r \notin ioMode.long /\ ioMode.limit > 0 /\ ShortInFlight(rdAt) >= ioMode.limit
       THEN /\ rdPending' = Append(rdPending, top.r)
            /\ rdAt' = [rdAt EXCEPT ![top.r] = "pending"]
            /\ Return
       ELSE Goto_("submit") /\ UNCHANGED <<rdPending, rdAt>>
    /\ UNCHANGED <<ioMode, rdBuf, rdFree, wrFree, inflightWr, wrLanded, deferred, within,
                   polled, retries, ioFailed>>

\* poll_uring_while_submission_queue_full_, while the completion queue may be half full.
MakeRoom ==
    /\ Running("init", "submit") \/ (Running("init", "again") /\ polled > 0)
    /\ Cardinality({r \in Reads : rdAt[r] = "flight"})
       + (IF ioMode.segregated THEN 0 ELSE inflightWr - wrLanded)
           > IF ioMode.eager THEN 0 ELSE CqHalf
    /\ Call_("again", PollFrame(FALSE, 0))
    /\ UNCHANGED <<ioMode, rdAt, rdBuf, rdFree, wrFree, rdPending, inflightWr, wrLanded,
                   deferred, within, polled, retries, ioFailed>>

\* submit_request_, account_read_
Submit ==
    /\ top.k = "init" /\ top.at \in {"submit", "again"}
    /\ rdAt' = [rdAt EXCEPT ![top.r] = "flight"]
    /\ Return
    /\ UNCHANGED <<ioMode, rdBuf, rdFree, wrFree, rdPending, inflightWr, wrLanded, deferred,
                   within, polled, retries, ioFailed>>

\* within_completions_reached_zero: up to the one that was last when it began.
InitiatePending ==
    /\ top.k = "pending"
    /\ IF deferred = <<>> \/ top.broke
       THEN Return /\ within' = within - 1 /\ UNCHANGED deferred
       ELSE /\ stack' = Append([stack EXCEPT ![Len(stack)].broke = Head(deferred) = top.last],
                               InitFrame(Head(deferred), TRUE))
            /\ deferred' = Tail(deferred)
            /\ UNCHANGED within
    /\ UNCHANGED <<ioMode, rdAt, rdBuf, rdFree, wrFree, rdPending, inflightWr, wrLanded,
                   polled, retries, ioFailed>>

-----------------------------------------------------------------------------
(***************************************************************************)
(* poll_uring_                                                             *)
(***************************************************************************)
\* dequeue_concurrent_read_ios_pending
DequeuePending(at) ==
    LET room == ioMode.limit - ShortInFlight(at)
        n == IF room <= 0 THEN 0 ELSE IF room < Len(rdPending) THEN room ELSE Len(rdPending)
        out == ToSet(SubSeq(rdPending, 1, n))
    IN  /\ rdAt' = [r \in Reads |-> IF r \in out THEN "flight" ELSE at[r]]
        /\ rdPending' = SubSeq(rdPending, n + 1, Len(rdPending))

PollEnter ==
    /\ Running("poll", "enter")
    /\ within' = within + 1
    /\ DequeuePending(rdAt)
    /\ Goto_("get")
    /\ UNCHANGED <<ioMode, rdBuf, rdFree, wrFree, inflightWr, wrLanded, deferred, polled,
                   retries, ioFailed>>

\* get_cqe: what it may return.  The write ring is looked at first, and alone if reads are
\* masked; only if nothing is being written does a poll sleep until something completes.
Cqes ==
    LET writes == IF inflightWr > wrLanded THEN {WriteCqe} ELSE {}
        lookAtWrites == ioMode.segregated /\ inflightWr > 0 /\ top.mask # 2
        onlyWrites == lookAtWrites /\ top.mask = 1
        other == {r \in Reads : rdAt[r] = "flight"}
                 \cup IF ioMode.segregated THEN {} ELSE writes
        sleeps == top.blocking /\ deferred = <<>> /\ (onlyWrites \/ inflightWr = 0)
    IN  (IF lookAtWrites THEN writes ELSE {})
        \cup (IF onlyWrites THEN {} ELSE other)
        \cup (IF sleeps THEN {} ELSE {NoCqe})

\* One completion is taken from a ring; eager completions are all taken before any runs.
PollGet(c) ==
    /\ Running("poll", "get")
    /\ c \in Cqes \ {NoCqe}
    /\ stack' = [stack EXCEPT ![Len(stack)].todo = Append(@, c),
                              ![Len(stack)].blocking = FALSE,
                              ![Len(stack)].at = IF ioMode.eager THEN "get" ELSE "process"]
    /\ rdAt' = IF c = WriteCqe THEN rdAt ELSE [rdAt EXCEPT ![c] = "landed"]
    /\ wrLanded' = wrLanded + IF c = WriteCqe THEN 1 ELSE 0
    /\ UNCHANGED <<ioMode, rdBuf, rdFree, wrFree, rdPending, inflightWr, deferred, within,
                   polled, retries, ioFailed>>

PollGetNone ==
    /\ Running("poll", "get")
    /\ NoCqe \in Cqes
    /\ Goto_("process")
    /\ UNCHANGED <<ioMode, rdAt, rdBuf, rdFree, wrFree, rdPending, inflightWr, wrLanded,
                   deferred, within, polled, retries, ioFailed>>

\* process_cqe: the rest of what was taken.
Processed == [top EXCEPT !.todo = Tail(@), !.n = @ + 1]
Processing == Running("poll", "process") /\ top.todo # <<>>

\* write_operation_io_receiver::set_value gives the buffer back.
ProcessWrite ==
    /\ Processing /\ Head(top.todo) = WriteCqe
    /\ inflightWr' = inflightWr - 1 /\ wrLanded' = wrLanded - 1 /\ wrFree' = wrFree + 1
    /\ Become(Processed)
    /\ UNCHANGED <<ioMode, rdAt, rdBuf, rdFree, rdPending, deferred, within, polled, retries,
                   ioFailed>>

\* EAGAIN: reinitiate, which is put off, with its buffer.
ProcessRetry ==
    LET r == Head(top.todo)
    IN  /\ Processing /\ r # WriteCqe /\ retries < ioMode.retries
        /\ rdAt' = [rdAt EXCEPT ![r] = "deferred"]
        /\ deferred' = Append(deferred, r)
        /\ retries' = retries + 1
        /\ Become(Processed)
        /\ UNCHANGED <<ioMode, rdBuf, rdFree, wrFree, rdPending, inflightWr, wrLanded, within,
                       polled, ioFailed>>

\* The receiver gets the data, gives the buffer back and goes on.
ProcessRead ==
    LET r == Head(top.todo)
    IN  /\ Processing /\ r # WriteCqe
        /\ IF r \in ioMode.long
           THEN rdAt' = [rdAt EXCEPT ![r] = "done"] /\ UNCHANGED <<rdPending, rdBuf, rdFree>>
           ELSE /\ DequeuePending([rdAt EXCEPT ![r] = "done"])
                /\ rdBuf' = rdBuf \ {r} /\ rdFree' = rdFree + 1
        /\ stack' = Append(Append(Front(stack), Processed), [k |-> "receiver", at |-> "run", r |-> r])
        /\ UNCHANGED <<ioMode, wrFree, inflightWr, wrLanded, deferred, within, polled, retries,
                       ioFailed>>

\* Mutant: what was put off is not initiated.
LeaveCompletionsForgets == Return /\ within' = within - 1

\* ~within_completions_holder: a frame returns; the outermost runs what was put off.
LeaveCompletions ==
    IF within = 1 /\ deferred # <<>>
    THEN Become(PendingFrame(Last(deferred))) /\ UNCHANGED within
    ELSE Return /\ within' = within - 1

PollExit ==
    /\ Running("poll", "process") /\ top.todo = <<>>
    /\ polled' = top.n
    /\ LeaveCompletions
    /\ UNCHANGED <<ioMode, rdAt, rdBuf, rdFree, wrFree, rdPending, inflightWr, wrLanded,
                   deferred, retries, ioFailed>>

-----------------------------------------------------------------------------
(***************************************************************************)
(* poll_uring_while_no_io_buffers_ and wait_until_done                     *)
(***************************************************************************)
GetBufEnter ==
    /\ Running("getbuf", "enter")
    /\ within' = within + 1
    /\ Goto_("poll")
    /\ UNCHANGED <<ioMode, rdAt, rdBuf, rdFree, wrFree, rdPending, inflightWr, wrLanded,
                   deferred, polled, retries, ioFailed>>

GetBufPoll ==
    /\ Running("getbuf", "poll")
    /\ Call_("alloc", PollFrame(TRUE, IF top.write THEN 1 ELSE 2))
    /\ ioFailed' = ioFailed \cup IF io_in_flight = 0 THEN {"no i/o buffers remaining"} ELSE {}
    /\ UNCHANGED <<ioMode, rdAt, rdBuf, rdFree, wrFree, rdPending, inflightWr, wrLanded,
                   deferred, within, polled, retries>>

GetBufAlloc ==
    /\ Running("getbuf", "alloc")
    /\ IF top.write /\ wrFree > 0
       THEN LeaveCompletions /\ wrFree' = wrFree - 1 /\ UNCHANGED <<rdFree, rdBuf>>
       ELSE IF ~top.write /\ rdFree > 0
       THEN /\ LeaveCompletions
            /\ rdFree' = rdFree - 1 /\ rdBuf' = rdBuf \cup {top.r}
            /\ UNCHANGED wrFree
       ELSE Goto_("poll") /\ UNCHANGED <<wrFree, rdFree, rdBuf, within>>
    /\ UNCHANGED <<ioMode, rdAt, rdPending, inflightWr, wrLanded, deferred, polled, retries,
                   ioFailed>>

\* poll_blocking until nothing is in flight
WaitCheck ==
    /\ Running("wait", "check")
    /\ IF io_in_flight > 0 THEN Call_("more", PollFrame(TRUE, 0)) ELSE Return
    /\ UNCHANGED <<ioMode, rdAt, rdBuf, rdFree, wrFree, rdPending, inflightWr, wrLanded,
                   deferred, within, polled, retries, ioFailed>>

WaitMore ==
    /\ Running("wait", "more")
    /\ IF polled > 0 THEN Call_("more", PollFrame(FALSE, 0)) ELSE Goto_("check")
    /\ UNCHANGED <<ioMode, rdAt, rdBuf, rdFree, wrFree, rdPending, inflightWr, wrLanded,
                   deferred, within, polled, retries, ioFailed>>

IoQuiet ==
    \/ Defer \/ NeedBuffer \/ CheckLimit \/ MakeRoom \/ Submit \/ InitiatePending
    \/ PollEnter \/ PollGetNone \/ ProcessWrite \/ ProcessRetry \/ ProcessRead \/ PollExit
    \/ GetBufEnter \/ GetBufPoll \/ GetBufAlloc \/ WaitCheck \/ WaitMore

\* A completion arrives.
Complete_ == \E c \in Reads \cup {WriteCqe} : PollGet(c)

AsyncIONext == ioFailed = {} /\ (IoQuiet \/ Complete_)

-----------------------------------------------------------------------------
(***************************************************************************)
(* Properties                                                              *)
(***************************************************************************)
\* The read buffers are in the pool or with a read that is on its way, no one has two,
\* and no read in flight is without: across retries, the limit and nested polls.
ReadBuffersConserved ==
    /\ rdFree + Cardinality(rdBuf) = ioMode.bufs
    /\ \A r \in Reads \ ioMode.long :
        /\ rdAt[r] \in {"pending", "flight", "landed"} => r \in rdBuf
        /\ rdAt[r] = "done" => r \notin rdBuf

\* Every read that is begun completes, put off or over the limit as it may be, if
\* completions are processed one by one: one that was taken from the ring and waits for
\* its turn may hold the buffer that its turn waits for.
ReadsComplete == []<>((\A r \in Reads : rdAt[r] \in {"none", "done"}) \/ ioMode.eager)
=============================================================================
