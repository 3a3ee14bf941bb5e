------------------------------ MODULE DbWorker ------------------------------
(***************************************************************************)
(* OnDiskWithWorkerThreadImpl in db.cpp: callers put requests into a queue *)
(* and wait on a future; one worker thread takes them, keeps each promise  *)
(* until its future is gone, and sleeps when there has been nothing to do. *)
(* The loops of the writable and the read-only database have this shape.   *)
(*                                                                         *)
(* A call that finds its version gone returns before it makes a request    *)
(* and is left out.  The queue keeps no order between callers, and each    *)
(* has one request at a time, so that it is a set.                         *)
(***************************************************************************)
EXTENDS Integers, Sequences, FiniteSets, SequencesExt

CONSTANTS Clients,    \* fibers or threads that call the database
          Kinds,      \* the kinds of requests they make
          MaxIdle,    \* turns without work before the worker sleeps
          MaxCalls    \* bound on the calls of one client

\* The kinds of requests the two loops know
AllKinds == {"find", "upsert", "load_root", "copy", "prefetch", "traverse", "move"}

ASSUME WorkerAssumption ==
    Kinds \subseteq AllKinds /\ MaxIdle \in Nat /\ MaxCalls \in Nat

\* The deque that keeps the promise of a request: those with a root as their
\* answer share one.
DequeOf(kind) == IF kind \in {"load_root", "copy"} THEN "upsert" ELSE kind

Deques == {DequeOf(k) : k \in AllKinds}

\* A call of a client: the n-th one, with its request's kind
Requests == [c : Clients, n : 1 .. MaxCalls, kind : Kinds]

VARIABLES
    client,     \* what each client is doing
    call,       \* the call each client is in, or was in last
    comms,      \* comms_
    promises,   \* the deques of promises
    inflight,   \* finds that wait for a read
    fulfilled,  \* calls whose promise has its value
    wpc,        \* where the worker thread is
    nothing,    \* did_nothing
    idle,       \* did_nothing_count
    sleeping,   \* sleeping, as the clients see it
    notified,   \* the condition variable was notified
    done,       \* done
    owner       \* the thread that makes and destroys the database

clients == <<client, call>>
work == <<promises, inflight, fulfilled>>
worker == <<wpc, nothing, idle>>
signals == <<sleeping, notified, done>>
vars == <<clients, comms, work, worker, signals, owner>>

NoCall == [n |-> 0]

Init ==
    /\ client = [c \in Clients |-> "idle"] /\ call = [c \in Clients |-> NoCall]
    /\ comms = {} /\ promises = [d \in Deques |-> <<>>]
    /\ inflight = {} /\ fulfilled = {}
    /\ wpc = "start" /\ nothing = TRUE /\ idle = 0
    /\ sleeping = FALSE /\ notified = FALSE /\ done = FALSE
    /\ owner = "constructing"

\* lock_ is held from one step to the next only by a worker about to sleep.
LockFree == wpc \notin {"sleep", "parking"}

\* cond_.notify_one(): without effect when nobody waits
Notified == notified \/ wpc = "asleep"

\* The future of call q has not been destroyed: future_has_been_destroyed() is
\* false.
Alive(q) == client[q.c] # "idle" /\ call[q.c] = q

----------------------------------------------------------------------------
\* Clients: the *_fiber_blocking functions

\* The promise and its future are made, and the request is queued.  Every function
\* of the two databases has these four steps.
Call(c, kind) ==
    /\ owner = "open" /\ client[c] = "idle" /\ call[c].n < MaxCalls
    /\ LET q == [c |-> c, n |-> call[c].n + 1, kind |-> kind]
       IN  call' = [call EXCEPT ![c] = q] /\ comms' = comms \cup {q}
    /\ client' = [client EXCEPT ![c] = "queued"]
    /\ UNCHANGED <<work, worker, signals, owner>>

ReadSleeping(c) ==
    /\ client[c] = "queued"
    /\ client' = [client EXCEPT ![c] = IF sleeping THEN "notify" ELSE "waiting"]
    /\ UNCHANGED <<call, comms, work, worker, signals, owner>>

Notify(c) ==
    /\ client[c] = "notify" /\ LockFree
    /\ notified' = Notified
    /\ client' = [client EXCEPT ![c] = "waiting"]
    /\ UNCHANGED <<call, comms, work, worker, sleeping, done, owner>>

\* fut.get() returns, and the future is destroyed.
Get(c) ==
    /\ client[c] = "waiting" /\ call[c] \in fulfilled
    /\ client' = [client EXCEPT ![c] = "idle"]
    /\ UNCHANGED <<call, comms, work, worker, signals, owner>>

----------------------------------------------------------------------------
\* The thread that makes and destroys the database.  It destroys it when nobody
\* is in a call.

Constructed ==
    /\ owner = "constructing" /\ wpc # "start" /\ LockFree
    /\ owner' = "open"
    /\ UNCHANGED <<clients, comms, work, worker, signals>>

\* Mutant of Destroy: the worker is woken but not told.
DestroyUntold ==
    /\ owner = "open" /\ LockFree /\ \A c \in Clients : client[c] = "idle"
    /\ notified' = Notified
    /\ owner' = "joining"
    /\ UNCHANGED <<clients, comms, work, worker, sleeping, done>>

Destroy ==
    /\ owner = "open" /\ LockFree /\ \A c \in Clients : client[c] = "idle"
    /\ done' = TRUE /\ notified' = Notified
    /\ owner' = "joining"
    /\ UNCHANGED <<clients, comms, work, worker, sleeping>>

Join ==
    /\ owner = "joining" /\ wpc = "gone"
    /\ owner' = "destroyed"
    /\ UNCHANGED <<clients, comms, work, worker, signals>>

----------------------------------------------------------------------------
\* The worker thread: rwdb_run and rodb_run

GoTo(place) == wpc' = place

Build ==
    /\ wpc = "start" /\ GoTo("top")
    /\ UNCHANGED <<clients, comms, work, nothing, idle, signals, owner>>

\* The worker takes a request and keeps its promise.  A find may wait for a
\* read; any other request is done at once, and may meanwhile poll the reads of
\* finds.
Take(q) ==
    /\ wpc = "top" /\ ~done /\ q \in comms
    /\ comms' = comms \ {q}
    /\ promises' = [promises EXCEPT ![DequeOf(q.kind)] = Append(@, q)]
    /\ \/ /\ q.kind = "find"
          /\ inflight' = inflight \cup {q} /\ UNCHANGED fulfilled
       \/ \E read \in SUBSET (IF q.kind = "find" THEN {} ELSE inflight) :
            /\ inflight' = inflight \ read
            /\ fulfilled' = fulfilled \cup read \cup {q}
    /\ nothing' = FALSE /\ GoTo("poll")
    /\ UNCHANGED <<clients, idle, signals, owner>>

TakeNothing ==
    /\ wpc = "top" /\ ~done /\ comms = {}
    /\ nothing' = TRUE /\ GoTo("poll")
    /\ UNCHANGED <<clients, comms, work, idle, signals, owner>>

\* poll_nonblocking: a read ends, with any of the finds that wait for it.  Other
\* fibers of the thread may have something to do (ready).
Poll(read) ==
    /\ wpc = "poll" /\ read \subseteq inflight
    /\ inflight' = inflight \ read /\ fulfilled' = fulfilled \cup read
    /\ \E ready \in BOOLEAN : nothing' = (nothing /\ ~ready /\ inflight' = {})
    /\ GoTo("pop")
    /\ UNCHANGED <<clients, comms, promises, idle, signals, owner>>

\* Mutant of Popped: a promise whose future is gone takes the others with it.
PoppedAll(s) == IF s # <<>> /\ ~Alive(Head(s)) THEN <<>> ELSE s

\* A deque without the promises at its front whose futures are gone
Popped(s) ==
    LET first == SelectInSeq(s, Alive)
    IN  IF first = 0 THEN <<>> ELSE SubSeq(s, first, Len(s))

\* Mutant of Turn: promises that are still held are not counted as work.
TurnHeedless ==
    /\ wpc = "pop"
    /\ promises' = [d \in Deques |-> Popped(promises[d])]
    /\ idle' = IF nothing THEN idle + 1 ELSE 0
    /\ GoTo(IF idle' > MaxIdle THEN "drowsy" ELSE "top")
    /\ UNCHANGED <<clients, comms, inflight, fulfilled, nothing, signals, owner>>

\* Mutant of Turn: the count of idle turns is never looked at.
TurnRestless ==
    /\ wpc = "pop"
    /\ promises' = [d \in Deques |-> Popped(promises[d])]
    /\ nothing' = (nothing /\ \A d \in Deques : promises'[d] = <<>>)
    /\ idle' = IF nothing' THEN idle + 1 ELSE 0
    /\ GoTo("top")
    /\ UNCHANGED <<clients, comms, inflight, fulfilled, signals, owner>>

\* The end of a turn: promises are dropped, and turns without work are counted.
\* A future that goes away between two of the loops is met in the next turn.
Turn ==
    /\ wpc = "pop"
    /\ promises' = [d \in Deques |-> Popped(promises[d])]
    /\ nothing' = (nothing /\ \A d \in Deques : promises'[d] = <<>>)
    /\ idle' = IF nothing' THEN idle + 1 ELSE 0
    /\ GoTo(IF idle' > MaxIdle THEN "drowsy" ELSE "top")
    /\ UNCHANGED <<clients, comms, inflight, fulfilled, signals, owner>>

\* The worker takes lock_ and stores sleeping.  A release store need not be seen
\* by others before the loads that follow it.  The count goes on; one more idle
\* turn and the worker sleeps again.
Doze ==
    /\ wpc = "drowsy"
    /\ GoTo("sleep") /\ sleeping' \in BOOLEAN /\ idle' = MaxIdle
    /\ UNCHANGED <<clients, comms, work, nothing, notified, done, owner>>

\* The condition of wait_for
HasWork == done \/ comms # {}

Awake == GoTo("top") /\ sleeping' = FALSE

\* wait_for looks at its condition.
Sleep ==
    /\ wpc = "sleep"
    /\ IF HasWork THEN Awake ELSE GoTo("parking") /\ UNCHANGED sleeping
    /\ UNCHANGED <<clients, comms, work, nothing, idle, notified, done, owner>>

\* It waits: lock_ is released, and what the worker stored before is seen.
Park ==
    /\ wpc = "parking"
    /\ GoTo("asleep") /\ sleeping' = TRUE
    /\ UNCHANGED <<clients, comms, work, nothing, idle, notified, done, owner>>

WakeUp ==
    /\ wpc = "asleep" /\ notified
    /\ notified' = FALSE
    /\ IF HasWork THEN Awake ELSE UNCHANGED <<wpc, sleeping>>
    /\ UNCHANGED <<clients, comms, work, nothing, idle, done, owner>>

\* Mutant of Pulse: the worker sleeps until it is notified.
PulseNever ==
    /\ wpc = "asleep" /\ notified /\ HasWork
    /\ Awake /\ notified' = FALSE
    /\ UNCHANGED <<clients, comms, work, nothing, idle, done, owner>>

\* One second has passed.
Pulse ==
    /\ wpc = "asleep"
    /\ Awake /\ notified' = FALSE
    /\ UNCHANGED <<clients, comms, work, nothing, idle, done, owner>>

\* The loop ends, and the worker goes away with its promises.
End ==
    /\ wpc = "top" /\ done
    /\ GoTo("gone")
    /\ UNCHANGED <<clients, comms, work, nothing, idle, signals, owner>>

----------------------------------------------------------------------------
ClientStep(c) == ReadSleeping(c) \/ Notify(c) \/ Get(c)

OwnerStep == Constructed \/ Join

\* A turn of rwdb_run; rodb_run has the same steps with fewer kinds of requests.
WorkerStep ==
    \/ Build \/ (\E q \in comms : Take(q)) \/ TakeNothing
    \/ (\E read \in SUBSET inflight : Poll(read))
    \/ Turn \/ Doze \/ Sleep \/ Park \/ WakeUp \/ Pulse \/ End

Next ==
    \/ \E c \in Clients : (\E kind \in Kinds : Call(c, kind)) \/ ClientStep(c)
    \/ OwnerStep \/ Destroy
    \/ WorkerStep

Spec == Init /\ [][Next]_vars

\* The read that the find of client c waits for ends.
Read(c) == \E read \in SUBSET inflight : call[c] \in read /\ Poll(read)

\* Threads that can go on do (the worker is asleep for a second at most), and
\* the device completes every read.  Nobody needs to call or to destroy.
FairSpec ==
    /\ Spec
    /\ WF_vars(WorkerStep) /\ WF_vars(OwnerStep)
    /\ \A c \in Clients : WF_vars(ClientStep(c)) /\ SF_vars(Read(c))

----------------------------------------------------------------------------
\* Properties

\* Every variable keeps its type.
TypeOK ==
    /\ client \in [Clients -> {"idle", "queued", "notify", "waiting"}]
    /\ \A c \in Clients : call[c] = NoCall \/ call[c] \in Requests
    /\ comms \subseteq Requests /\ inflight \subseteq Requests
    /\ promises \in [Deques -> Seq(Requests)] /\ fulfilled \subseteq Requests
    /\ wpc \in {"start", "top", "poll", "pop", "drowsy", "sleep", "parking", "asleep",
             "gone"}
    /\ nothing \in BOOLEAN /\ idle \in 0 .. MaxIdle + 1
    /\ sleeping \in BOOLEAN /\ notified \in BOOLEAN /\ done \in BOOLEAN
    /\ owner \in {"constructing", "open", "joining", "destroyed"}

\* A promise that a read in flight will fulfil is still in its deque: the worker
\* never drops it before its future is gone, in whatever order futures go away.
PromiseKept == \A q \in inflight : \E i \in DOMAIN promises["find"] : promises["find"][i] = q

\* The worker does not sleep while a find waits for a read, which only the worker
\* can complete, or while somebody holds the future of a promise it keeps.
NoSleepOnWork ==
    wpc = "asleep" =>
      inflight = {} /\ \A d \in Deques : \A i \in DOMAIN promises[d] : ~Alive(promises[d][i])

\* Every call returns, although the worker may miss the request it goes to sleep on.
CallsReturn == []<>(\A c \in Clients : client[c] = "idle")

\* The destructor returns.
DestructorReturns == []<>(owner # "joining")

\* The worker's state is of its types, and it sleeps on no work.
WorkerSound == TypeOK /\ NoSleepOnWork

\* Nobody waits for the worker for ever: neither a caller nor the destructor.
EveryoneReturns == CallsReturn /\ DestructorReturns
=============================================================================
