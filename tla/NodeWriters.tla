----------------------------- MODULE NodeWriters -----------------------------
(***************************************************************************)
(* How nodes get to the disk: the fast and the slow node writer, each a    *)
(* write buffer at the end of its list of chunks, and async_write_node,    *)
(* which replaces a writer when the node does not fit.  Replacing needs a  *)
(* write buffer, waiting for one polls, and what completes may write nodes *)
(* itself: the functions detect that they were entered again.              *)
(*                                                                         *)
(* A unit is a disk page; a node's bytes are the units <<node, 1>>, ...    *)
(***************************************************************************)
EXTENDS AsyncIO

CONSTANTS NumWChunks,   \* chunks of the pool
          ChunkUnits,   \* chunk_capacity
          BufUnits,     \* WRITE_BUFFER_SIZE
          Sizes,        \* sizes of nodes
          RootSizes,    \* sizes of the root
          MaxWNodes     \* bound on nodes written before the root

ASSUME NodeWritersAssumption ==
    /\ NumWChunks \in Nat /\ BufUnits \in Nat \ {0} /\ ChunkUnits % BufUnits = 0
    /\ Sizes \cup RootSizes \subseteq 1 .. ChunkUnits /\ MaxWNodes \in Nat /\ NumWChunks >= 2
    /\ WriteBufs >= 2          \* each of the two writers holds one

VARIABLES
    writer,     \* node_writer_fast, node_writer_slow
    nextId,     \* identities of writers: addresses of their connected operations
    wfree,      \* the free list; chunks are taken from its end
    wlist,      \* the chunks of the fast and of the slow list
    appendAt,   \* write_fd: where a chunk is appended to
    image,      \* the chunks when all writes in flight have landed
    nodeAt,     \* of the nodes written: chunk, offset and size
    nodes,      \* nodes begun
    reentrancy, \* reentrancy_detection
    flushed,    \* the root was written and flushed
    deep,       \* a replacement was entered within one that was entered again
    overrun     \* a node larger than a buffer went on in a writer that others had used

nwVars == <<writer, nextId, wfree, wlist, appendAt, image, nodeAt, nodes, reentrancy, flushed,
            deep, overrun>>

Writers == {"fast", "slow"}
Pad == <<0, 0>>
NoChunk == 0

NewWriter(id, chunk, off, size) ==
    [id |-> id, chunk |-> chunk, off |-> off, size |-> size, bytes |-> <<>>]

WriteFrame(list, n, size) ==
    [k |-> "write", at |-> "poll", list |-> list, n |-> n, size |-> size, done |-> 0,
     loc |-> <<0, 0>>, old |-> 0, idx |-> 0, next |-> <<0, 0, 0>>, my |-> 0]

\* The fast writer has come to the last buffer of its chunk, and the slow one begins its chunk.
NodeWritersInit ==
    /\ AsyncIOInit([k |-> "main", at |-> "run"], 2)
    /\ writer = [l \in Writers |-> IF l = "fast" THEN NewWriter(1, 1, ChunkUnits - BufUnits, BufUnits)
                                   ELSE NewWriter(2, 2, 0, BufUnits)]
    /\ nextId = 3
    /\ wfree = [i \in 1 .. NumWChunks - 2 |-> i + 2]
    /\ wlist = [l \in Writers |-> IF l = "fast" THEN <<1>> ELSE <<2>>]
    /\ appendAt = [c \in 1 .. NumWChunks |-> IF c = 1 THEN ChunkUnits - BufUnits ELSE 0]
    /\ image = [c \in 1 .. NumWChunks |-> [u \in 1 .. ChunkUnits |-> Pad]]
    /\ nodeAt = <<>> /\ nodes = 0
    /\ reentrancy = [count |-> 0, max |-> 0]
    /\ flushed = FALSE /\ deep = FALSE /\ overrun = FALSE

-----------------------------------------------------------------------------
\* Bytes from to to of a node.
Units(n, from, to) == [i \in 1 .. to - from + 1 |-> <<n, from + i - 1>>]

Remaining(w) == w.size - Len(w.bytes)
Append_(w, units) == [w EXCEPT !.bytes = @ \o units]
Pads(k) == [i \in 1 .. k |-> Pad]

\* Where the write frame stands after a step.
Now(frame) == stack' = Append(Front(stack), frame)
Current == writer[top.list]
AtWrite(at) == Running("write", at) /\ UNCHANGED <<ioMode, rdAt, rdBuf, rdFree, rdPending,
                   wrLanded, deferred, within, polled, retries>>

\* make_connected: a write buffer, at once or after polling; then the frame goes on.
TakeBuffer(frame) ==
    IF wrFree > 0 THEN Now(frame) /\ wrFree' = wrFree - 1
    ELSE stack' = Append(Append(Front(stack), frame), GetBufFrame(TRUE, 0)) /\ UNCHANGED wrFree

\* submit_write_request: the buffer of the writer is on its way to where its chunk ends,
\* and the next writer takes its place.  failed are the assertions made before.
Replace_(list, next, failed) ==
    LET w == writer[list]
        end == appendAt[w.chunk]
    IN  /\ appendAt' = [appendAt EXCEPT ![w.chunk] = @ + Len(w.bytes)]
        /\ image' = [image EXCEPT ![w.chunk] = [u \in 1 .. ChunkUnits |->
                         IF u > end /\ u <= end + Len(w.bytes) THEN w.bytes[u - end] ELSE @[u]]]
        /\ ioFailed' = ioFailed \cup failed
               \cup (IF end # w.off THEN {"not where we are supposed to be appending"} ELSE {})
        /\ inflightWr' = inflightWr + 1
        /\ writer' = [writer EXCEPT ![list] = NewWriter(nextId, next[1], next[2], next[3])]
        /\ nextId' = nextId + 1

TakeChunk(list, idx) ==
    /\ wfree' = Remove(wfree, idx)
    /\ wlist' = [wlist EXCEPT ![list] = Append(@, idx)]

\* The end of replace_node_writer: a chunk is taken if the next writer begins one.
ReplaceInList(list, next, failed) ==
    /\ Replace_(list, next, failed)
    /\ IF next[1] # writer[list].chunk THEN TakeChunk(list, next[1])
       ELSE UNCHANGED <<wfree, wlist>>

\* free_list_end, and the assertion that there is one
FreeListEnd == IF wfree = <<>> THEN NoChunk ELSE Last(wfree)
OutOfBlocks(chunk) == IF chunk = NoChunk THEN {"out of free blocks"} ELSE {}

\* async_write_node asserts that the buffer it initiates is full.
NotFull(w) == IF Len(w.bytes) # w.size THEN {"written buffer bytes"} ELSE {}

\* Mutant: the buffer is lost.
UndoLeaks(frame) ==
    /\ Now(frame)
    /\ UNCHANGED <<wrFree, appendAt, image, ioFailed, inflightWr, writer, nextId, wfree, wlist>>

\* The replacement is undone: the buffer goes back and the frame goes on.
Undo(frame) ==
    /\ Now(frame)
    /\ wrFree' = wrFree + 1
    /\ UNCHANGED <<appendAt, image, ioFailed, inflightWr, writer, nextId, wfree, wlist>>

\* poll_nonblocking_if_not_within_completions
WritePoll ==
    /\ Running("write", "poll")
    /\ IF within = 0 THEN Call_("choose", PollFrame(FALSE, 0)) ELSE Goto_("choose")
    /\ UNCHANGED <<ioMode, rdAt, rdBuf, rdFree, wrFree, rdPending, inflightWr, wrLanded,
                   deferred, within, polled, retries, ioFailed, nwVars>>

\* The node fits into the buffer.
WriteFits ==
    /\ AtWrite("choose") /\ top.size <= Remaining(Current)
    /\ nodeAt' = nodeAt \o <<[n |-> top.n, chunk |-> Current.chunk, off |-> Current.off + Len(Current.bytes),
                              size |-> top.size]>>
    /\ writer' = [writer EXCEPT ![top.list] = Append_(@, Units(top.n, 1, top.size))]
    /\ Return
    /\ UNCHANGED <<wrFree, ioFailed, inflightWr, nextId, wfree, wlist, appendAt, image, nodes, reentrancy, flushed, deep, overrun>>

ChunkRemaining == ChunkUnits - Current.off - Len(Current.bytes)

\* Mutant: the outermost entry does not begin anew.
DeepestEver(my) == IF my > reentrancy.max THEN my ELSE reentrancy.max

\* reentrancy_detection.max_count at an entry at depth my
DeepestSoFar(my) ==
    IF my = 0 THEN 0 ELSE IF my > reentrancy.max THEN my ELSE reentrancy.max

\* replace_node_writer_to_start_at_new_chunk, up to where it waits for a buffer
WriteNewChunk ==
    LET my == reentrancy.count
    IN  /\ AtWrite("choose") /\ top.size > Remaining(Current) /\ top.size > ChunkRemaining
        /\ writer' = [writer EXCEPT ![top.list] = Append_(@, Pads(Remaining(Current)))]
        /\ reentrancy' = [count |-> my + 1, max |-> DeepestSoFar(my)]
        /\ deep' = (deep \/ reentrancy'.max > 1)
        /\ TakeBuffer([top EXCEPT !.at = "newchunk", !.idx = FreeListEnd, !.my = my])
        /\ ioFailed' = ioFailed \cup OutOfBlocks(FreeListEnd)
        /\ UNCHANGED <<inflightWr, nextId, wfree, wlist, appendAt, image, nodeAt, nodes, flushed,
                       overrun>>

\* Mutant: that it was entered again is not looked at.
Reentered_Never == FALSE

\* The deepest succeeds, the others try again.
Reentered == top.my # reentrancy.max

WriteNewChunkReady ==
    /\ AtWrite("newchunk")
    /\ reentrancy' = [reentrancy EXCEPT !.count = @ - 1]
    /\ IF Reentered THEN Undo([top EXCEPT !.at = "poll"])
       ELSE /\ TakeChunk(top.list, top.idx)
            /\ Replace_(top.list, <<top.idx, 0, BufUnits>>, NotFull(Current))
            /\ Now([top EXCEPT !.at = "rest", !.loc = <<top.idx, 0>>])
            /\ UNCHANGED wrFree
    /\ UNCHANGED <<nodeAt, nodes, flushed, deep, overrun>>

\* replace_node_writer for w, up to where it waits for a buffer: where the next one is
NextWriter(w) ==
    LET off == w.off + Len(w.bytes)
        full == off = ChunkUnits
        size == IF ChunkUnits - (off % ChunkUnits) < BufUnits
                THEN ChunkUnits - (off % ChunkUnits) ELSE BufUnits
    IN  <<IF full THEN FreeListEnd ELSE w.chunk, off % ChunkUnits, size>>

\* The node goes on in the next buffer: fill this one.
WriteSplit ==
    LET k == Remaining(Current)
        w == Append_(Current, Units(top.n, 1, k))
    IN  /\ AtWrite("choose") /\ top.size > Remaining(Current) /\ top.size <= ChunkRemaining
        /\ writer' = [writer EXCEPT ![top.list] = w]
        /\ TakeBuffer([top EXCEPT !.at = "split", !.done = k, !.old = Current.id,
                                  !.loc = <<Current.chunk, Current.off + Len(Current.bytes)>>,
                                  !.next = NextWriter(w)])
        /\ ioFailed' = ioFailed \cup OutOfBlocks(NextWriter(w)[1])
        /\ UNCHANGED <<inflightWr, nextId, wfree, wlist, appendAt, image, nodeAt, nodes,
                       reentrancy, flushed, deep, overrun>>

\* Mutant: the writer is taken to be the one it was.
SameWriterAlways == TRUE

SameWriter == Current.id = top.old

WriteSplitReady ==
    /\ AtWrite("split")
    /\ IF SameWriter
       THEN /\ ReplaceInList(top.list, top.next, NotFull(Current))
            /\ Now([top EXCEPT !.at = "rest"])
            /\ UNCHANGED wrFree
       ELSE Undo([top EXCEPT !.at = "poll", !.done = 0])
    /\ UNCHANGED <<nodeAt, nodes, reentrancy, flushed, deep, overrun>>

\* The rest is put at the beginning of the buffer, whatever else is there by now.
PutRest(w, units) ==
    [w EXCEPT !.bytes = [i \in 1 .. Len(w.bytes) + Len(units) |->
        IF i <= Len(units) THEN units[i] ELSE IF i <= Len(w.bytes) THEN w.bytes[i] ELSE Pad]]

WriteRest ==
    LET left == top.size - top.done
        k == IF left < Remaining(Current) THEN left ELSE Remaining(Current)
        w == PutRest(Current, Units(top.n, top.done + 1, top.done + k))
    IN  /\ AtWrite("rest")
        /\ IF left = 0
           THEN /\ nodeAt' = nodeAt \o <<[n |-> top.n, chunk |-> top.loc[1], off |-> top.loc[2],
                                          size |-> top.size]>>
                /\ Return
                /\ UNCHANGED <<writer, overrun, wrFree, ioFailed>>
           ELSE /\ writer' = [writer EXCEPT ![top.list] = w]
                /\ overrun' = (overrun \/ Current.bytes # <<>>)
                /\ IF k < left /\ Remaining(w) = 0
                   THEN TakeBuffer([top EXCEPT !.at = "next", !.done = @ + k, !.old = Current.id,
                                               !.next = NextWriter(w)])
                        /\ ioFailed' = ioFailed \cup OutOfBlocks(NextWriter(w)[1])
                   ELSE Now([top EXCEPT !.done = @ + k]) /\ UNCHANGED <<wrFree, ioFailed>>
                /\ UNCHANGED nodeAt
        /\ UNCHANGED <<inflightWr, nextId, wfree, wlist, appendAt, image, nodes, reentrancy,
                       flushed, deep>>

\* A node that fills the buffer too: if the writer was replaced meanwhile, go on with it.
WriteNext ==
    /\ AtWrite("next")
    /\ IF SameWriter
       THEN /\ ReplaceInList(top.list, top.next, {})
            /\ Now([top EXCEPT !.at = "rest"])
            /\ UNCHANGED wrFree
       ELSE Undo([top EXCEPT !.at = "rest"])
    /\ UNCHANGED <<nodeAt, nodes, reentrancy, flushed, deep, overrun>>

-----------------------------------------------------------------------------
(***************************************************************************)
(* flush_buffered_writes                                                   *)
(***************************************************************************)
FlushFrame(list) == [k |-> "flush", at |-> "begin", list |-> list, old |-> 0, next |-> <<0, 0, 0>>]
AtFlush(at) == Running("flush", at) /\ UNCHANGED <<ioMode, rdAt, rdBuf, rdFree, rdPending,
                   wrLanded, deferred, within, polled, retries>>

\* Mutant: only the fast writer is flushed.
FlushedFrame(list) == WaitFrame

\* After the fast writer the slow one if there is something in it; then wait.
AfterFlush(list) ==
    IF list = "fast" /\ writer["slow"].bytes # <<>> THEN FlushFrame("slow") ELSE WaitFrame

FlushBegin ==
    /\ AtFlush("begin")
    /\ TakeBuffer([top EXCEPT !.at = "ready", !.old = Current.id, !.next = NextWriter(Current)])
    /\ ioFailed' = ioFailed \cup OutOfBlocks(NextWriter(Current)[1])
    /\ UNCHANGED <<inflightWr, nwVars>>

FlushReady ==
    /\ AtFlush("ready")
    /\ IF ~SameWriter THEN Undo([top EXCEPT !.at = "begin"])
       ELSE /\ ReplaceInList(top.list, top.next, {})
            /\ Become(AfterFlush(top.list))
            /\ UNCHANGED wrFree
    /\ UNCHANGED <<nodeAt, nodes, reentrancy, flushed, deep, overrun>>

-----------------------------------------------------------------------------
(***************************************************************************)
(* Those who read and write: an upsert, and the receivers of its reads.    *)
(***************************************************************************)
BeginRead(r, at) ==
    /\ rdAt[r] = "none"
    /\ rdAt' = [rdAt EXCEPT ![r] = "begun"]
    /\ Call_(at, InitFrame(r, FALSE))
    /\ UNCHANGED <<ioMode, rdBuf, rdFree, wrFree, rdPending, inflightWr, wrLanded, deferred,
                   within, polled, retries, ioFailed, nwVars>>

BeginWrite(list, size, at) ==
    /\ nodes' = nodes + 1
    /\ Call_(at, WriteFrame(list, nodes + 1, size))
    /\ UNCHANGED <<ioMode, rdAt, rdBuf, rdFree, wrFree, rdPending, inflightWr, wrLanded, deferred,
                   within, polled, retries, ioFailed, writer, nextId, wfree, wlist, appendAt,
                   image, nodeAt, reentrancy, flushed, deep, overrun>>

\* A receiver writes a node, reads another one, or does nothing, and returns.
ReceiverReturn ==
    /\ top.k = "receiver"
    /\ Return
    /\ UNCHANGED <<ioMode, rdAt, rdBuf, rdFree, wrFree, rdPending, inflightWr, wrLanded, deferred,
                   within, polled, retries, ioFailed, nwVars>>

UserStep ==
    \/ /\ Running("main", "run")
       /\ \/ \E r \in Reads : BeginRead(r, "run")
          \/ \E list \in Writers, size \in Sizes :
                nodes < MaxWNodes /\ BeginWrite(list, size, "run")
    \/ /\ Running("receiver", "run")
       /\ \/ \E r \in Reads : BeginRead(r, "end")
          \/ \E list \in Writers, size \in Sizes :
                nodes < MaxWNodes /\ BeginWrite(list, size, "end")
    \/ ReceiverReturn

\* The end of an upsert: wait for the reads, write the root, flush.
MainWait ==
    /\ Running("main", "run")
    /\ Call_("root", WaitFrame)
    /\ UNCHANGED <<ioMode, rdAt, rdBuf, rdFree, wrFree, rdPending, inflightWr, wrLanded, deferred,
                   within, polled, retries, ioFailed, nwVars>>

MainRoot ==
    /\ Running("main", "root")
    /\ \E size \in RootSizes : BeginWrite("fast", size, "flush")

MainFlush ==
    /\ Running("main", "flush")
    /\ Call_("flushed", FlushFrame("fast"))
    /\ UNCHANGED <<ioMode, rdAt, rdBuf, rdFree, wrFree, rdPending, inflightWr, wrLanded, deferred,
                   within, polled, retries, ioFailed, nwVars>>

MainFlushed ==
    /\ Running("main", "flushed")
    /\ flushed' = TRUE
    /\ Goto_("end")
    /\ UNCHANGED <<ioMode, rdAt, rdBuf, rdFree, wrFree, rdPending, inflightWr, wrLanded, deferred,
                   within, polled, retries, ioFailed, writer, nextId, wfree, wlist, appendAt,
                   image, nodeAt, nodes, reentrancy, deep, overrun>>

WriteStep ==
    \/ WritePoll \/ WriteFits \/ WriteNewChunk \/ WriteNewChunkReady
    \/ WriteSplit \/ WriteSplitReady \/ WriteRest \/ WriteNext
    \/ FlushBegin \/ FlushReady

NodeWritersNext ==
    \/ AsyncIONext /\ UNCHANGED nwVars
    \/ ioFailed = {} /\ (WriteStep \/ UserStep \/ MainWait \/ MainRoot \/ MainFlush \/ MainFlushed)

nodeWriterVars == <<ioVars, nwVars>>

\* The thread goes on, an upsert comes to its end, receivers return, retries end, and what
\* is in flight completes if it is polled for again and again.
NodeWritersFair ==
    /\ WF_nodeWriterVars(NodeWritersNext)
    /\ SF_nodeWriterVars(Complete_ /\ UNCHANGED nwVars)

NodeWritersSpec == NodeWritersInit /\ [][NodeWritersNext]_nodeWriterVars /\ NodeWritersFair

-----------------------------------------------------------------------------
(***************************************************************************)
(* Properties                                                              *)
(***************************************************************************)
\* What a page holds, or will when buffers and writes in flight are there.
UnitAt(chunk, u) ==
    LET in == {l \in Writers : /\ writer[l].chunk = chunk
                               /\ u > writer[l].off /\ u <= writer[l].off + Len(writer[l].bytes)}
    IN  IF in = {} THEN image[chunk][u]
        ELSE LET l == CHOOSE l \in in : TRUE IN writer[l].bytes[u - writer[l].off]

\* A node async_write_node has returned an offset for is there, whole and contiguous,
\* however the writers were replaced while it waited.
NodesIntact ==
    ~overrun => \A i \in DOMAIN nodeAt :
        LET x == nodeAt[i]
        IN  \A j \in 1 .. x.size : UnitAt(x.chunk, x.off + j) = <<x.n, j>>

\* The same of nodes that do not fit a buffer: "detect when reentrancy occurs, and if so
\* undo this operation and tell the caller to retry".
LargeNodesIntact ==
    \A i \in DOMAIN nodeAt :
        LET x == nodeAt[i]
        IN  \A j \in 1 .. x.size : UnitAt(x.chunk, x.off + j) = <<x.n, j>>

\* A chunk is in one list, and only the last chunk of a list is written.
WriterChunks ==
    /\ Len(wfree) + Len(wlist["fast"]) + Len(wlist["slow"]) = NumWChunks
    /\ ToSet(wlist["fast"]) \cap ToSet(wlist["slow"]) = {}
    /\ \A l \in Writers : writer[l].chunk = Last(wlist[l])

\* When flush_buffered_writes has returned, the root may be published: every node written
\* is on the disk.
FlushedIsDurable ==
    flushed => /\ inflightWr = 0
               /\ \A l \in Writers : writer[l].bytes = <<>>
               /\ \A n \in 1 .. nodes : \E i \in DOMAIN nodeAt : nodeAt[i].n = n

\* No assertion of the i/o and of the writers fails.
WritersNoFault == ioFailed = {}

\* Write buffers are in the pool, in flight, with the two writers or with a frame that
\* has got one, also if it was entered again meanwhile.
WriteBuffersConserved ==
    wrFree + inflightWr + 2
    + Cardinality({i \in DOMAIN stack :
          /\ stack[i].k \in {"write", "flush"}
          /\ stack[i].at \in {"newchunk", "split", "next", "ready"}
          /\ i = Len(stack) \/ stack[i + 1].k # "getbuf"}) = WriteBufs

\* "all less deep reentrancies must retry": a node that is being written gets written, if
\* completions are processed one by one and no retry was itself interrupted by another.
WriteReturns ==
    []<>(\/ \A n \in 1 .. nodes : \E i \in DOMAIN nodeAt : nodeAt[i].n = n
         \/ deep \/ ioMode.eager)

\* "The deepest-most reentrancy must succeed": so that every write returns.
WriteReturnsAlways == []<>(\A n \in 1 .. nodes : \E i \in DOMAIN nodeAt : nodeAt[i].n = n)

\* No buffer is lost or used twice, whatever was interrupted, put off or undone.
BuffersConserved == ReadBuffersConserved /\ WriteBuffersConserved

\* Nodes are where their parents will say they are, written by the one writer of a list.
NodesPlaced == NodesIntact /\ WriterChunks /\ WritersNoFault
=============================================================================
