---------------------------- MODULE FifoManager ----------------------------
(***************************************************************************)
(* The asynchronous channel of the Rust binding (FifoManager in            *)
(* bridge_fifo.cpp, AsyncFifo in async_fifo.rs): clients submit find and   *)
(* traverse requests to a queue, worker fibers take them and post results  *)
(* to three other queues, which clients poll.  One thread starts, stops    *)
(* and drops the channel.  The queues are linearizable (ck_fifo_mpmc), so  *)
(* that one enqueue or dequeue is one step.  A batch call is its single    *)
(* calls one after the other.  Every allocation may fail.                  *)
(***************************************************************************)
EXTENDS Integers, Sequences, FiniteSets

CONSTANTS RequestIds,     \* the requests clients make, named by their user_data
          MaxFibers,    \* largest num_workers (bound)
          MaxNodes,     \* largest number of values under a prefix (bound)
          MaxFailures,  \* bound on failed allocations
          MaxStarts     \* bound on calls of start

ASSUME FifoAssumption ==
    /\ MaxFibers \in Nat \ {0} /\ MaxNodes \in Nat
    /\ MaxFailures \in Nat /\ MaxStarts \in Nat

Fibers == 1 .. MaxFibers

VARIABLES
    running,      \* running_
    numWorkers,   \* num_workers_
    ctl,          \* what the thread that starts and stops is doing
    pills,        \* shutdown requests stop() has still to send
    dropping,     \* stop() was called by Drop
    fiber,        \* where each worker fiber is, and what it holds
    requests, completions, traverses, larges,   \* the four queues
    submitted,    \* requests submitted so far
    got,          \* what clients have polled, by request
    lost,         \* what failed allocations dropped, by request
    failures, starts

queues == <<requests, completions, traverses, larges>>
control == <<running, numWorkers, ctl, pills, dropping, starts>>
fifoVars == <<control, fiber, queues, submitted, got, lost, failures>>

Zero == [r \in RequestIds |-> 0]

\* A worker that holds no request
Idle(at) == [at |-> at, req |-> 0, left |-> 0, large |-> FALSE]

FifoInit ==
    /\ running = FALSE /\ numWorkers = 0 /\ ctl = "idle" /\ pills = 0 /\ dropping = FALSE
    /\ fiber = [f \in Fibers |-> Idle("none")]
    /\ requests = <<>> /\ completions = <<>> /\ traverses = <<>> /\ larges = <<>>
    /\ submitted = {} /\ failures = 0 /\ starts = 0
    /\ got = [answer |-> Zero, flag |-> Zero, large |-> Zero, data |-> {}]
    /\ lost = [answer |-> Zero, large |-> Zero]

Bump(f, r) == [f EXCEPT ![r] = @ + 1]

----------------------------------------------------------------------------
\* Large values: a node is a header and the value, here in words of 4 bytes.

\* offsetof(LargeValueNode, data) and sizeof(LargeValueNode) in C++: the array
\* begins where len ends, before the padding.
DataOffset == 44
NodeSize == 48

\* size_of::<LargeValueNode>() in Rust
RustNodeSize == 48

\* The value of a request: two words
Value(r) == <<<<r, 1>>, <<r, 2>>>>

\* post_large_value: NodeSize + len bytes are allocated, the value is copied to
\* data, and the rest is not initialized.
LargeNode(r) ==
    [r |-> r, len |-> Len(Value(r)),
     words |-> [i \in 1 .. NodeSize \div 4 + Len(Value(r)) |->
                  IF i - DataOffset \div 4 \in DOMAIN Value(r)
                  THEN Value(r)[i - DataOffset \div 4] ELSE "other"]]

\* poll_large_value reads len bytes behind the node.
ReadLarge(n) == SubSeq(n.words, RustNodeSize \div 4 + 1, RustNodeSize \div 4 + n.len)

----------------------------------------------------------------------------
\* Clients

\* An allocation fails.
Fails == failures < MaxFailures /\ failures' = failures + 1

\* The node submit_find_value, submit_find_node or submit_traverse fills in
NewRequest(r, type) == [type |-> type, r |-> r]

\* They hand it to submit(), which drops it when there is no memory for the queue
\* entry.
Submit(r, type) ==
    /\ ~dropping /\ r \notin submitted
    /\ submitted' = submitted \cup {r}
    /\ \/ /\ requests' = Append(requests, NewRequest(r, type))
          /\ UNCHANGED <<lost, failures>>
       \/ Fails /\ lost' = [lost EXCEPT !.answer = Bump(@, r)] /\ UNCHANGED requests
    /\ UNCHANGED <<control, fiber, completions, traverses, larges, got>>

\* What a client learns from a completion that it polls
Learn(c) ==
    [got EXCEPT !.answer = IF c.status = "more" THEN @ ELSE Bump(@, c.r),
                !.flag = IF c.large THEN Bump(@, c.r) ELSE @]

PollCompletion ==
    /\ ~dropping /\ completions # <<>>
    /\ got' = Learn(Head(completions))
    /\ completions' = Tail(completions)
    /\ UNCHANGED <<control, fiber, requests, traverses, larges, submitted, lost, failures>>

PollTraverse ==
    /\ ~dropping /\ traverses # <<>>
    /\ got' = Learn(Head(traverses))
    /\ traverses' = Tail(traverses)
    /\ UNCHANGED <<control, fiber, requests, completions, larges, submitted, lost, failures>>

PollLargeValue ==
    /\ ~dropping /\ larges # <<>>
    /\ got' = [got EXCEPT !.large = Bump(@, Head(larges).r),
                          !.data = @ \cup {<<Head(larges).r, ReadLarge(Head(larges))>>}]
    /\ larges' = Tail(larges)
    /\ UNCHANGED <<control, fiber, requests, completions, traverses, submitted, lost,
                   failures>>

----------------------------------------------------------------------------
\* Starting and stopping

\* Mutant of Start: no worker when none is asked for
StartUnclamped(n) ==
    /\ ctl = "idle" /\ ~dropping /\ ~running /\ starts < MaxStarts
    /\ running' = TRUE /\ numWorkers' = n /\ starts' = starts + 1
    /\ fiber' = [f \in Fibers |-> IF f <= n THEN Idle("loop") ELSE Idle("none")]
    /\ UNCHANGED <<ctl, pills, dropping, queues, submitted, got, lost, failures>>

\* start(n): a pool with at least one worker fiber.  The queues are those of the
\* workers before.
Start(n) ==
    LET workers == IF n = 0 THEN 1 ELSE n
    IN  /\ ctl = "idle" /\ ~dropping /\ ~running /\ starts < MaxStarts
        /\ running' = TRUE /\ numWorkers' = workers /\ starts' = starts + 1
        /\ fiber' = [f \in Fibers |-> IF f <= workers THEN Idle("loop")
                                      ELSE Idle("none")]
        /\ UNCHANGED <<ctl, pills, dropping, queues, submitted, got, lost, failures>>

\* stop(), called by a client or by Drop: one shutdown request for every worker
Stop(drop) ==
    /\ ctl = "idle" /\ running /\ ~dropping
    /\ running' = FALSE /\ ctl' = "pills" /\ pills' = numWorkers /\ dropping' = drop
    /\ UNCHANGED <<numWorkers, starts, fiber, queues, submitted, got, lost, failures>>

SendPill ==
    /\ ctl = "pills" /\ pills > 0
    /\ pills' = pills - 1
    /\ \/ requests' = Append(requests, [type |-> "shutdown"]) /\ UNCHANGED failures
       \/ Fails /\ UNCHANGED requests
    /\ UNCHANGED <<running, numWorkers, ctl, dropping, starts, fiber, completions, traverses,
                   larges, submitted, got, lost>>

\* pool_.reset() returns when every fiber has left its task.
JoinWorkers ==
    /\ ctl = "pills" /\ pills = 0
    /\ \A f \in Fibers : fiber[f].at = "none"
    /\ numWorkers' = 0 /\ ctl' = IF dropping THEN "destroyed" ELSE "idle"
    /\ UNCHANGED <<running, pills, dropping, starts, fiber, queues, submitted, got, lost,
                   failures>>

\* Drop of a channel that is not running
Drop ==
    /\ ctl = "idle" /\ ~running /\ ~dropping
    /\ dropping' = TRUE /\ ctl' = "destroyed"
    /\ UNCHANGED <<running, numWorkers, pills, starts, fiber, queues, submitted, got, lost,
                   failures>>

----------------------------------------------------------------------------
\* Worker fibers

FiberTo(f, at) == fiber' = [fiber EXCEPT ![f].at = at]

Release(f, at) == fiber' = [fiber EXCEPT ![f] = Idle(at)]

\* Mutant of Looping: a worker leaves for a shutdown request only.
LoopingForever(f) == fiber[f].at = "loop"

\* The condition of the worker's loop
Looping(f) == fiber[f].at = "loop" /\ running

\* A worker reads running_: it goes on to the queue, or its task ends.
ReadRunning(f) ==
    /\ fiber[f].at = "loop"
    /\ FiberTo(f, IF Looping(f) THEN "dequeue" ELSE "none")
    /\ UNCHANGED <<control, queues, submitted, got, lost, failures>>

\* An empty queue: yield, and look at running_ again.
Yield(f) ==
    /\ fiber[f].at = "dequeue" /\ requests = <<>>
    /\ FiberTo(f, "loop")
    /\ UNCHANGED <<control, queues, submitted, got, lost, failures>>

Took(req) == [at |-> req.type, req |-> req.r, left |-> 0, large |-> FALSE]

\* Mutant of Dequeue: running_ is looked at after the request was taken.
DequeueFirst(f) ==
    /\ fiber[f].at = "dequeue" /\ requests # <<>>
    /\ requests' = Tail(requests)
    /\ LET req == Head(requests)
       IN  IF ~running \/ req.type = "shutdown" THEN FiberTo(f, "none")
           ELSE fiber' = [fiber EXCEPT ![f] = Took(req)]
    /\ UNCHANGED <<control, completions, traverses, larges, submitted, got, lost, failures>>

\* A worker takes a request.
Dequeue(f) ==
    /\ fiber[f].at = "dequeue" /\ requests # <<>>
    /\ requests' = Tail(requests)
    /\ LET req == Head(requests)
       IN  IF req.type = "shutdown" THEN FiberTo(f, "none")
           ELSE fiber' = [fiber EXCEPT ![f] = Took(req)]
    /\ UNCHANGED <<control, completions, traverses, larges, submitted, got, lost, failures>>

\* Mutant of Find: a large value is only flagged.
FindFlagOnly(f) ==
    /\ fiber[f].at = "find"
    /\ \E large \in BOOLEAN :
         fiber' = [fiber EXCEPT ![f].at = "answer", ![f].large = large]
    /\ UNCHANGED <<control, queues, submitted, got, lost, failures>>

\* process_find up to the result: an error, nothing, a small value or a large one
Find(f) ==
    /\ fiber[f].at = "find"
    /\ \E large \in BOOLEAN :
         fiber' = [fiber EXCEPT ![f].at = IF large THEN "large" ELSE "answer",
                                ![f].large = large]
    /\ UNCHANGED <<control, queues, submitted, got, lost, failures>>

\* process_traverse up to the first value: an error or a prefix without a node
\* gives no values.  traverse_limit goes to Db::traverse as its limit on
\* concurrent reads.
Traverse(f) ==
    /\ fiber[f].at = "traverse"
    /\ \E n \in 0 .. MaxNodes : fiber' = [fiber EXCEPT ![f].at = "nodes", ![f].left = n]
    /\ UNCHANGED <<control, queues, submitted, got, lost, failures>>

\* send_node
SendNode(f) ==
    /\ fiber[f].at = "nodes" /\ fiber[f].left > 0
    /\ \E large \in BOOLEAN :
         fiber' = [fiber EXCEPT ![f].at = IF large THEN "large" ELSE "more",
                                ![f].large = large]
    /\ UNCHANGED <<control, queues, submitted, got, lost, failures>>

\* post_large_value, before the completion that announces the value
PostLargeValue(f) ==
    /\ fiber[f].at = "large"
    /\ FiberTo(f, IF fiber[f].left > 0 THEN "more" ELSE "answer")
    /\ \/ larges' = Append(larges, LargeNode(fiber[f].req)) /\ UNCHANGED <<lost, failures>>
       \/ /\ Fails /\ UNCHANGED larges
          /\ lost' = [lost EXCEPT !.large = Bump(@, fiber[f].req)]
    /\ UNCHANGED <<control, requests, completions, traverses, submitted, got>>

Result(f, status) == [r |-> fiber[f].req, status |-> status, large |-> fiber[f].large]

\* Mutant of PostCompletion: the worker leaves after one request.
PostCompletionLast(f) ==
    /\ fiber[f].at = "answer"
    /\ Release(f, "none")
    /\ \/ completions' = Append(completions, Result(f, "found")) /\ UNCHANGED <<lost, failures>>
       \/ /\ Fails /\ UNCHANGED completions
          /\ lost' = [lost EXCEPT !.answer = Bump(@, fiber[f].req)]
    /\ UNCHANGED <<control, requests, traverses, larges, submitted, got>>

\* post_completion, and back to the loop
PostCompletion(f) ==
    /\ fiber[f].at = "answer"
    /\ Release(f, "loop")
    /\ \/ completions' = Append(completions, Result(f, "found")) /\ UNCHANGED <<lost, failures>>
       \/ /\ Fails /\ UNCHANGED completions
          /\ lost' = [lost EXCEPT !.answer = Bump(@, fiber[f].req)]
    /\ UNCHANGED <<control, requests, traverses, larges, submitted, got>>

\* Mutant of PostMore: the end is posted before the last value.
PostMoreAfterEnd(f) ==
    /\ fiber[f].at = "more"
    /\ fiber' = [fiber EXCEPT ![f] = IF @.left = 1 THEN Idle("loop")
                                     ELSE [@ EXCEPT !.at = "nodes", !.left = @ - 1]]
    /\ traverses' = traverses \o (IF fiber[f].left = 1 THEN <<Result(f, "end")>> ELSE <<>>)
                      \o <<Result(f, "more")>>
    /\ UNCHANGED <<control, requests, completions, larges, submitted, got, lost, failures>>

\* post_traverse of one value
PostMore(f) ==
    /\ fiber[f].at = "more"
    /\ fiber' = [fiber EXCEPT ![f].at = "nodes", ![f].left = @ - 1, ![f].large = FALSE]
    /\ \/ traverses' = Append(traverses, Result(f, "more")) /\ UNCHANGED failures
       \/ Fails /\ UNCHANGED traverses
    /\ UNCHANGED <<control, requests, completions, larges, submitted, got, lost>>

\* post_traverse of the end, and back to the loop
PostEnd(f) ==
    /\ fiber[f].at = "nodes" /\ fiber[f].left = 0
    /\ Release(f, "loop")
    /\ \/ traverses' = Append(traverses, Result(f, "end")) /\ UNCHANGED <<lost, failures>>
       \/ /\ Fails /\ UNCHANGED traverses
          /\ lost' = [lost EXCEPT !.answer = Bump(@, fiber[f].req)]
    /\ UNCHANGED <<control, requests, completions, larges, submitted, got>>

----------------------------------------------------------------------------
Client ==
    \/ \E r \in RequestIds, type \in {"find", "traverse"} : Submit(r, type)
    \/ PollCompletion \/ PollTraverse \/ PollLargeValue

Stopping == SendPill \/ JoinWorkers

Controller ==
    \/ \E n \in 0 .. MaxFibers : Start(n)
    \/ \E drop \in BOOLEAN : Stop(drop)
    \/ Stopping \/ Drop

Worker(f) ==
    \/ ReadRunning(f) \/ Yield(f) \/ Dequeue(f) \/ Find(f) \/ Traverse(f) \/ SendNode(f)
    \/ PostLargeValue(f) \/ PostCompletion(f) \/ PostMore(f) \/ PostEnd(f)

FifoNext == Client \/ Controller \/ \E f \in Fibers : Worker(f)

FifoSpec == FifoInit /\ [][FifoNext]_fifoVars

\* The scheduler of the pool runs every fiber that can run, and the thread that
\* called stop() goes on.  Clients need not poll.
FifoFairSpec == FifoSpec /\ WF_fifoVars(Stopping) /\ \A f \in Fibers : WF_fifoVars(Worker(f))

----------------------------------------------------------------------------
\* Properties

Places == {"none", "loop", "dequeue", "find", "traverse", "nodes", "large", "more", "answer"}

Statuses == {"found", "more", "end"}

\* Every variable keeps its type, and a channel that runs was given a worker.
FifoTypeOK ==
    /\ running \in BOOLEAN /\ dropping \in BOOLEAN
    /\ ctl \in {"idle", "pills", "destroyed"}
    /\ numWorkers \in 0 .. MaxFibers /\ pills \in 0 .. numWorkers
    /\ running => numWorkers > 0
    /\ \A f \in Fibers : fiber[f].at \in Places /\ fiber[f].left \in 0 .. MaxNodes
    /\ \A q \in {completions, traverses} : \A i \in DOMAIN q : q[i].status \in Statuses
    /\ submitted \subseteq RequestIds

\* How often a queue holds an entry of request r that satisfies P
In(queue, r, P(_)) == Cardinality({i \in DOMAIN queue : queue[i].r = r /\ P(queue[i])})

IsAnswer(c) == c.status # "more"

Waiting(r) ==
    Cardinality({i \in DOMAIN requests : requests[i].type # "shutdown" /\ requests[i].r = r})

Held(r) == Cardinality({f \in Fibers : fiber[f].at \notin {"none", "loop", "dequeue"}
                                      /\ fiber[f].req = r})

Answers(r) == In(completions, r, IsAnswer) + In(traverses, r, IsAnswer) + got.answer[r]

\* A request that was submitted waits, is held by a worker, has one answer (a
\* completion or the end of a traversal) or was dropped for want of memory:
\* exactly one of these, whatever stop() and the shutdown requests do.
NothingLost ==
    \A r \in submitted : Waiting(r) + Held(r) + Answers(r) + lost.answer[r] = 1

\* Nothing of a traversal follows its end: a client that polls the end has every
\* result.
EndIsLast ==
    /\ \A i, j \in DOMAIN traverses :
         i < j /\ traverses[i].status = "end" => traverses[j].r # traverses[i].r
    /\ \A i \in DOMAIN traverses : got.answer[traverses[i].r] = 0

IsFlagged(c) == c.large

\* A client that is told of a large value finds it in the large value queue, or
\* it was dropped for want of memory: it never has to wait for it.
LargeValueFirst ==
    \A r \in RequestIds :
      In(completions, r, IsFlagged) + In(traverses, r, IsFlagged) + got.flag[r]
        <= Cardinality({i \in DOMAIN larges : larges[i].r = r}) + got.large[r] + lost.large[r]

\* stop() returns, even if no shutdown request could be allocated.
StopReturns == []<>(ctl # "pills")

\* If the channel goes on running, every request is answered or dropped for want of memory.
Answered == []<>(running => \A r \in submitted : Answers(r) + lost.answer[r] > 0)

\* A channel that runs has a worker.
AtLeastOneWorker == running => \E f \in Fibers : fiber[f].at # "none"

\* A large value that a client polls is the value of its request.
LargeValueIntact == \A d \in got.data : d[2] = Value(d[1])

\* The queues hold what they are for, and a client that polls in the order it is told to misses nothing: the end of a traversal is
\* its last result, and a large value is there before it is announced.
AnswersInOrder == FifoTypeOK /\ EndIsLast /\ LargeValueFirst
=============================================================================
