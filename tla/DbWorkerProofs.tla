--------------------------- MODULE DbWorkerProofs ---------------------------
(***************************************************************************)
(* Theorems about DbWorker, for every number of clients and calls.         *)
(***************************************************************************)
EXTENDS DbWorker, TLAPS, WellFoundedInduction, SequenceTheorems

\* What the proof needs of the types
KeptTypes ==
    /\ comms \subseteq Requests /\ inflight \subseteq Requests
    /\ fulfilled \subseteq Requests
    /\ promises \in [Deques -> Seq(Requests)]
    /\ client \in [Clients -> {"idle", "queued", "notify", "waiting"}]
    /\ call \in [Clients -> Requests \cup {NoCall}]

\* A request that is queued or waits for a read has a future, and no value yet.
Unanswered ==
    \A q \in comms \cup inflight : Alive(q) /\ q \notin fulfilled

\* No call has a value before it is made.
NotYetMade == \A q \in fulfilled : call[q.c].n >= q.n

KeptInv ==
    KeptTypes /\ Unanswered /\ NotYetMade /\ comms \cap inflight = {} /\ PromiseKept

----------------------------------------------------------------------------
\* The least element of a set of natural numbers is its Min.
LEMMA MinIsLeast ==
    ASSUME NEW S \in SUBSET Nat, S # {}
    PROVE  Min(S) \in S /\ \A m \in S : Min(S) <= m
<1>1. PICK n \in S : \A m \in S : <<m, n>> \notin OpToRel(<, Nat)
  BY WFMin, NatLessThanWellFounded
<1>2. \A m \in S : ~(m < n)
  BY <1>1, Zenon DEF OpToRel
<1>3. \A m \in S : n <= m
  BY <1>2
<1> QED
  BY <1>3 DEF Min

\* Popping keeps every promise whose future is alive.
LEMMA PoppedKeeps ==
    ASSUME NEW s \in Seq(Requests)
    PROVE  /\ Popped(s) \in Seq(Requests)
           /\ \A i \in DOMAIN s : Alive(s[i]) =>
                \E j \in DOMAIN Popped(s) : Popped(s)[j] = s[i]
<1> DEFINE I == {i \in 1 .. Len(s) : Alive(s[i])}
<1>1. CASE I = {}
  <2>1. Popped(s) = <<>>
    BY <1>1 DEF Popped, SelectInSeq
  <2> QED
    BY <1>1, <2>1
<1>2. CASE I # {}
  <2> DEFINE first == Min(I)
  <2>1. I \in SUBSET Nat /\ Len(s) \in Nat
    OBVIOUS
  <2>2. first \in I /\ \A m \in I : first <= m
    BY <1>2, <2>1, MinIsLeast
  <2>3. SelectInSeq(s, Alive) = first
    BY <1>2 DEF SelectInSeq
  <2> HIDE DEF first
  <2>4. first \in 1 .. Len(s)
    BY <2>2
  <2>5. Popped(s) = SubSeq(s, first, Len(s))
    BY <2>3, <2>4 DEF Popped
  <2>6. /\ Popped(s) \in Seq(Requests)
        /\ Len(Popped(s)) = Len(s) - first + 1
        /\ \A i \in 1 .. Len(s) - first + 1 : Popped(s)[i] = s[first + i - 1]
    BY <2>1, <2>4, <2>5, SubSeqProperties
  <2>7. ASSUME NEW i \in DOMAIN s, Alive(s[i])
        PROVE  \E j \in DOMAIN Popped(s) : Popped(s)[j] = s[i]
    <3>1. i \in 1 .. Len(s) /\ first <= i
      BY <2>2, <2>7
    <3>2. i - first + 1 \in 1 .. Len(s) - first + 1 /\ first + (i - first + 1) - 1 = i
      BY <2>1, <2>4, <3>1
    <3> QED
      BY <2>6, <3>2
  <2> QED
    BY <2>6, <2>7
<1> QED
  BY <1>1, <1>2

----------------------------------------------------------------------------
\* What keeps the deques, the queue and the answers keeps the invariant, if the
\* clients whose futures matter stay where they are.
LEMMA Untouched ==
    ASSUME KeptInv, UNCHANGED <<comms, work, call>>,
           client' \in [Clients -> {"idle", "queued", "notify", "waiting"}],
           \A c \in Clients : client'[c] = "idle" =>
             client[c] = "idle" \/ call[c] \in fulfilled
    PROVE  KeptInv'
<1>1. KeptTypes' /\ NotYetMade' /\ (comms \cap inflight)' = {} /\ PromiseKept'
  BY DEF KeptInv, KeptTypes, NotYetMade, PromiseKept, work
<1>2. ASSUME NEW q \in comms \cup inflight
      PROVE  client'[q.c] # "idle" /\ call'[q.c] = q /\ q \notin fulfilled'
  <2>1. client[q.c] # "idle" /\ call[q.c] = q /\ q \notin fulfilled /\ q.c \in Clients
    BY DEF KeptInv, KeptTypes, Unanswered, Alive, Requests
  <2> QED
    BY <2>1 DEF work
<1>3. Unanswered'
  BY <1>2 DEF Unanswered, Alive, work
<1> QED
  BY <1>1, <1>3 DEF KeptInv

LEMMA KeptInit == Init => KeptInv
<1> SUFFICES ASSUME Init PROVE KeptInv
  OBVIOUS
<1>1. KeptTypes
  BY DEF Init, KeptTypes
<1>2. Unanswered /\ NotYetMade /\ comms \cap inflight = {} /\ PromiseKept
  BY DEF Init, Unanswered, NotYetMade, PromiseKept
<1> QED
  BY <1>1, <1>2 DEF KeptInv

\* A new call has a future and no value, and nobody is waiting for another one
\* of its client.
LEMMA CallStep ==
    ASSUME KeptInv, NEW c \in Clients, NEW kind \in Kinds, Call(c, kind)
    PROVE  KeptInv'
<1> DEFINE q == [c |-> c, n |-> call[c].n + 1, kind |-> kind]
<1>1. /\ client[c] = "idle" /\ call[c].n < MaxCalls
      /\ call' = [call EXCEPT ![c] = q] /\ comms' = comms \cup {q}
      /\ client' = [client EXCEPT ![c] = "queued"]
      /\ UNCHANGED <<promises, inflight, fulfilled>>
  BY DEF Call, work
<1>2. call[c].n \in Nat /\ q \in Requests
  <2>1. call[c] \in Requests \cup {NoCall}
    BY DEF KeptInv, KeptTypes
  <2>2. call[c].n \in Nat
    BY <2>1, WorkerAssumption DEF Requests, NoCall
  <2>3. call[c].n + 1 \in 1 .. MaxCalls
    BY <1>1, <2>2, WorkerAssumption
  <2> QED
    BY <2>2, <2>3 DEF Requests
<1>3. q.c = c /\ q.n = call[c].n + 1
  OBVIOUS
<1> HIDE DEF q
<1>4. KeptTypes'
  BY <1>1, <1>2 DEF KeptInv, KeptTypes
<1>5. PromiseKept'
  BY <1>1 DEF KeptInv, PromiseKept
<1>6. ASSUME NEW r \in comms \cup inflight
      PROVE  r.c \in Clients /\ r.c # c /\ r # q
  BY <1>1, <1>3 DEF KeptInv, KeptTypes, Unanswered, Alive, Requests
<1>7. (comms \cap inflight)' = {}
  BY <1>1, <1>6 DEF KeptInv
<1>8. q \notin fulfilled
  BY <1>2, <1>3 DEF KeptInv, NotYetMade
<1>9. Unanswered'
  <2>1. ASSUME NEW r \in comms \cup inflight
        PROVE  client'[r.c] # "idle" /\ call'[r.c] = r /\ r \notin fulfilled'
    BY <1>1, <1>6 DEF KeptInv, KeptTypes, Unanswered, Alive
  <2>2. client'[q.c] # "idle" /\ call'[q.c] = q /\ q \notin fulfilled'
    BY <1>1, <1>3, <1>8 DEF KeptInv, KeptTypes
  <2> QED
    BY <1>1, <2>1, <2>2 DEF Unanswered, Alive
<1>10. NotYetMade'
  <2> SUFFICES ASSUME NEW r \in fulfilled
               PROVE  call'[r.c].n >= r.n
    BY <1>1 DEF NotYetMade
  <2>1. r.c \in Clients /\ call[r.c].n >= r.n
    BY DEF KeptInv, KeptTypes, NotYetMade, Requests
  <2>2. CASE r.c = c
    <3>1. call'[c] = q
      BY <1>1 DEF KeptInv, KeptTypes
    <3>2. r.n \in Int
      BY DEF KeptInv, KeptTypes, Requests
    <3> QED
      BY <1>2, <1>3, <2>1, <2>2, <3>1, <3>2
  <2>3. CASE r.c # c
    BY <1>1, <2>1, <2>3 DEF KeptInv, KeptTypes
  <2> QED
    BY <2>2, <2>3
<1> QED
  BY <1>4, <1>5, <1>7, <1>9, <1>10 DEF KeptInv

\* Answering a request that has a future keeps what is known of the answers.
LEMMA AnswerStep ==
    ASSUME KeptInv, NEW done1 \in SUBSET (comms \cup inflight), UNCHANGED <<client, call>>,
           fulfilled' = fulfilled \cup done1
    PROVE  NotYetMade' /\ fulfilled' \subseteq Requests
<1>1. ASSUME NEW q \in done1
      PROVE  call[q.c].n >= q.n /\ q \in Requests
  <2>1. q \in Requests /\ call[q.c] = q
    BY DEF KeptInv, KeptTypes, Unanswered, Alive
  <2>2. q.n \in Int
    BY <2>1 DEF Requests
  <2> QED
    BY <2>1, <2>2
<1> QED
  BY <1>1 DEF KeptInv, KeptTypes, NotYetMade

\* A request leaves the queue with its promise in the deque, before it waits for
\* a read.
LEMMA TakeStep ==
    ASSUME KeptInv, NEW q \in comms, Take(q)
    PROVE  KeptInv'
<1>1. PICK read \in SUBSET inflight, new \in SUBSET {q} :
        /\ new = {} \/ q.kind = "find"
        /\ inflight' = (inflight \ read) \cup new
        /\ fulfilled' = fulfilled \cup (read \cup ({q} \ new))
  <2>1. CASE q.kind = "find" /\ inflight' = inflight \cup {q} /\ UNCHANGED fulfilled
    <3>1. inflight' = (inflight \ {}) \cup {q} /\ fulfilled' = fulfilled \cup ({} \cup ({q} \ {q}))
      BY <2>1
    <3> QED
      BY <2>1, <3>1
  <2>2. CASE \E read \in SUBSET (IF q.kind = "find" THEN {} ELSE inflight) :
               inflight' = inflight \ read /\ fulfilled' = fulfilled \cup read \cup {q}
    <3>1. PICK read \in SUBSET (IF q.kind = "find" THEN {} ELSE inflight) :
            inflight' = inflight \ read /\ fulfilled' = fulfilled \cup read \cup {q}
      BY <2>2
    <3>2. read \in SUBSET inflight
      BY <3>1
    <3>3. inflight' = (inflight \ read) \cup {} /\ fulfilled' = fulfilled \cup (read \cup ({q} \ {}))
      BY <3>1
    <3> QED
      BY <3>2, <3>3
  <2> QED
    BY <2>1, <2>2 DEF Take
<1>2. /\ comms' = comms \ {q}
      /\ promises' = [promises EXCEPT ![DequeOf(q.kind)] = Append(@, q)]
      /\ UNCHANGED <<client, call>>
  BY DEF Take, clients
<1>3. q \in Requests /\ q \notin inflight /\ q.kind \in AllKinds
  BY WorkerAssumption DEF KeptInv, KeptTypes, Requests
<1>4. DequeOf(q.kind) \in Deques
  BY <1>3 DEF Deques
<1>5. promises[DequeOf(q.kind)] \in Seq(Requests) /\ promises["find"] \in Seq(Requests)
  BY <1>4 DEF KeptInv, KeptTypes, Deques, DequeOf, AllKinds
<1>6. KeptTypes' /\ NotYetMade'
  <2>1. NotYetMade' /\ fulfilled' \subseteq Requests
    BY <1>1, <1>2, AnswerStep
  <2>2. Append(promises[DequeOf(q.kind)], q) \in Seq(Requests)
    BY <1>3, <1>5
  <2>3. promises' \in [Deques -> Seq(Requests)]
    BY <1>2, <1>4, <2>2 DEF KeptInv, KeptTypes
  <2> QED
    BY <1>1, <1>2, <1>3, <2>1, <2>3 DEF KeptInv, KeptTypes
<1>7. Unanswered' /\ (comms \cap inflight)' = {}
  BY <1>1, <1>2, <1>3 DEF KeptInv, Unanswered, Alive
<1>8. PromiseKept'
  <2>1. ASSUME NEW i \in DOMAIN promises["find"]
        PROVE  i \in DOMAIN promises'["find"] /\ promises'["find"][i] = promises["find"][i]
    BY <1>2, <1>3, <1>4, <1>5 DEF KeptInv, KeptTypes
  <2>2. ASSUME NEW r \in inflight
        PROVE  \E i \in DOMAIN promises'["find"] : promises'["find"][i] = r
    BY <2>1 DEF KeptInv, PromiseKept
  <2>3. ASSUME q.kind = "find"
        PROVE  \E i \in DOMAIN promises'["find"] : promises'["find"][i] = q
    <3>1. promises'["find"] = Append(promises["find"], q)
      BY <1>2, <1>4, <2>3 DEF KeptInv, KeptTypes, DequeOf
    <3>2. Len(promises["find"]) + 1 \in DOMAIN promises'["find"]
      BY <1>3, <1>5, <3>1
    <3> QED
      BY <1>3, <1>5, <3>1, <3>2
  <2> QED
    BY <1>1, <2>2, <2>3 DEF PromiseKept
<1> QED
  BY <1>6, <1>7, <1>8 DEF KeptInv

LEMMA PollStep ==
    ASSUME KeptInv, NEW read \in SUBSET inflight, Poll(read)
    PROVE  KeptInv'
<1>1. /\ inflight' = inflight \ read /\ fulfilled' = fulfilled \cup read
      /\ UNCHANGED <<client, call, comms, promises>>
  BY DEF Poll, clients
<1>2. NotYetMade' /\ fulfilled' \subseteq Requests
  BY <1>1, AnswerStep
<1>3. KeptTypes'
  BY <1>1, <1>2 DEF KeptInv, KeptTypes
<1>4. Unanswered' /\ (comms \cap inflight)' = {}
  BY <1>1 DEF KeptInv, Unanswered, Alive
<1>5. PromiseKept'
  BY <1>1 DEF KeptInv, PromiseKept
<1> QED
  BY <1>2, <1>3, <1>4, <1>5 DEF KeptInv

\* The end of a turn drops promises, but none with a future.
LEMMA TurnStep ==
    ASSUME KeptInv, Turn
    PROVE  KeptInv'
<1>1. /\ promises' = [d \in Deques |-> Popped(promises[d])]
      /\ UNCHANGED <<client, call, comms, inflight, fulfilled>>
  BY DEF Turn, clients
<1>2. promises \in [Deques -> Seq(Requests)]
  BY DEF KeptInv, KeptTypes
<1>3. "find" \in Deques
  BY DEF Deques, AllKinds, DequeOf
<1>4. promises' \in [Deques -> Seq(Requests)]
  <2>1. ASSUME NEW d \in Deques PROVE Popped(promises[d]) \in Seq(Requests)
    BY <1>2, PoppedKeeps
  <2> QED
    BY <1>1, <2>1
<1>5. PromiseKept'
  <2> SUFFICES ASSUME NEW q \in inflight
               PROVE  \E i \in DOMAIN promises'["find"] : promises'["find"][i] = q
    BY <1>1 DEF PromiseKept
  <2>1. PICK i \in DOMAIN promises["find"] : promises["find"][i] = q
    BY DEF KeptInv, PromiseKept
  <2>2. Alive(promises["find"][i])
    BY <2>1 DEF KeptInv, Unanswered
  <2>3. promises["find"] \in Seq(Requests)
    BY <1>2, <1>3
  <2>4. \E j \in DOMAIN Popped(promises["find"]) : Popped(promises["find"])[j] = promises["find"][i]
    BY <2>2, <2>3, PoppedKeeps
  <2> QED
    BY <1>1, <1>3, <2>1, <2>4
<1>6. KeptTypes' /\ Unanswered' /\ NotYetMade' /\ (comms \cap inflight)' = {}
  BY <1>1, <1>4 DEF KeptInv, KeptTypes, Unanswered, NotYetMade, Alive
<1> QED
  BY <1>5, <1>6 DEF KeptInv

----------------------------------------------------------------------------
LEMMA KeptNext == KeptInv /\ [Next]_vars => KeptInv'
<1> SUFFICES ASSUME KeptInv, [Next]_vars PROVE KeptInv'
  OBVIOUS
<1>0. client \in [Clients -> {"idle", "queued", "notify", "waiting"}]
  BY DEF KeptInv, KeptTypes
<1>1. ASSUME NEW c \in Clients, NEW kind \in Kinds, Call(c, kind) PROVE KeptInv'
  BY <1>1, CallStep
<1>2. ASSUME NEW c \in Clients, ClientStep(c) PROVE KeptInv'
  <2>1. UNCHANGED <<comms, work, call>>
    BY <1>2 DEF ClientStep, ReadSleeping, Notify, Get
  <2>2. client' \in [Clients -> {"idle", "queued", "notify", "waiting"}]
    BY <1>0, <1>2 DEF ClientStep, ReadSleeping, Notify, Get
  <2>3. \A d \in Clients : client'[d] = "idle" => client[d] = "idle" \/ call[d] \in fulfilled
    BY <1>0, <1>2 DEF ClientStep, ReadSleeping, Notify, Get
  <2> QED
    BY <2>1, <2>2, <2>3, Untouched
<1>3. ASSUME NEW q \in comms, Take(q) PROVE KeptInv'
  BY <1>3, TakeStep
<1>4. ASSUME NEW read \in SUBSET inflight, Poll(read) PROVE KeptInv'
  BY <1>4, PollStep
<1>5. CASE Turn
  BY <1>5, TurnStep
<1>6. CASE \/ OwnerStep \/ Destroy \/ Build \/ TakeNothing \/ Doze \/ Sleep \/ Park
           \/ WakeUp \/ Pulse \/ End \/ UNCHANGED vars
  <2>1. UNCHANGED <<client, call, comms, work>>
    BY <1>6 DEF OwnerStep, Constructed, Join, Destroy, Build, TakeNothing, Doze, Sleep,
                Park, WakeUp, Pulse, End, vars, clients
  <2> QED
    BY <1>0, <2>1, Untouched
<1> QED
  BY <1>1, <1>2, <1>3, <1>4, <1>5, <1>6 DEF Next, WorkerStep

\* Whatever the number of clients and calls, the worker never drops the promise
\* of a find that waits for a read (the pop_front loops of rwdb_run and rodb_run).
THEOREM PromiseKeptAlways == Spec => []PromiseKept
<1>1. Init => KeptInv
  BY KeptInit
<1>2. KeptInv /\ [Next]_vars => KeptInv'
  BY KeptNext
<1>3. KeptInv => PromiseKept
  BY DEF KeptInv
<1> QED
  BY <1>1, <1>2, <1>3, PTL DEF Spec

----------------------------------------------------------------------------
\* The places of the worker from the end of an idle turn until it is awake
Resting == {"drowsy", "sleep", "parking", "asleep"}

\* Before the deques are popped, did_nothing says that no find waits for a read.
NothingIsNothing == wpc = "pop" /\ nothing => inflight = {}

\* A worker that goes to sleep has answered every find and dropped every promise.
RestsOnNothing == wpc \in Resting => inflight = {} /\ \A d \in Deques : promises[d] = <<>>

\* The count of idle turns passes its bound only on the way to sleep.
IdleBounded == idle \in 0 .. MaxIdle + 1 /\ (wpc # "drowsy" => idle <= MaxIdle)

\* The types of the worker, of the signals and of the owner
WorkerTypes ==
    /\ wpc \in {"start", "top", "poll", "pop", "drowsy", "sleep", "parking", "asleep", "gone"}
    /\ nothing \in BOOLEAN
    /\ sleeping \in BOOLEAN /\ notified \in BOOLEAN /\ done \in BOOLEAN
    /\ owner \in {"constructing", "open", "joining", "destroyed"}

RestInv == WorkerTypes /\ IdleBounded /\ NothingIsNothing /\ RestsOnNothing

LEMMA RestInit == Init => RestInv
<1> SUFFICES ASSUME Init PROVE RestInv
  OBVIOUS
<1>1. WorkerTypes
  BY DEF Init, WorkerTypes
<1>2. IdleBounded /\ NothingIsNothing /\ RestsOnNothing
  BY WorkerAssumption DEF Init, IdleBounded, NothingIsNothing, RestsOnNothing, Resting
<1> QED
  BY <1>1, <1>2 DEF RestInv

\* Clients and the owner leave the worker, its deques and its reads alone.
LEMMA OthersRest ==
    ASSUME RestInv, UNCHANGED <<work, worker>>,
           sleeping' \in BOOLEAN, notified' \in BOOLEAN, done' \in BOOLEAN,
           owner' \in {"constructing", "open", "joining", "destroyed"}
    PROVE  RestInv'
BY DEF RestInv, WorkerTypes, IdleBounded, NothingIsNothing, RestsOnNothing, work, worker

\* Polling, the worker learns whether reads are left.
LEMMA PollRests ==
    ASSUME RestInv, NEW read \in SUBSET inflight, Poll(read)
    PROVE  RestInv'
<1>1. wpc' = "pop" /\ UNCHANGED <<idle, sleeping, notified, done, owner>> /\ wpc = "poll"
  BY DEF Poll, GoTo, signals
<1>2. PICK ready \in BOOLEAN : nothing' = (nothing /\ ~ready /\ inflight' = {})
  BY DEF Poll
<1>3. WorkerTypes' /\ IdleBounded'
  BY <1>1, <1>2 DEF RestInv, WorkerTypes, IdleBounded
<1>4. NothingIsNothing' /\ RestsOnNothing'
  BY <1>1, <1>2 DEF NothingIsNothing, RestsOnNothing, Resting
<1> QED
  BY <1>3, <1>4 DEF RestInv

\* The count is raised only by a turn that found nothing to do, and the deques
\* empty after it: no other turn leads to sleep.
LEMMA TurnRests ==
    ASSUME RestInv, Turn
    PROVE  RestInv'
<1>1. /\ wpc = "pop"
      /\ nothing' = (nothing /\ \A d \in Deques : promises'[d] = <<>>)
      /\ idle' = IF nothing' THEN idle + 1 ELSE 0
      /\ wpc' = IF idle' > MaxIdle THEN "drowsy" ELSE "top"
      /\ UNCHANGED <<inflight, sleeping, notified, done, owner>>
  BY DEF Turn, GoTo, signals
<1>2. idle \in Nat /\ idle <= MaxIdle /\ MaxIdle \in Nat
  BY <1>1, WorkerAssumption DEF RestInv, IdleBounded
<1>3. nothing' \in BOOLEAN
  BY <1>1
<1>4. WorkerTypes' /\ IdleBounded'
  BY <1>1, <1>2, <1>3 DEF RestInv, WorkerTypes, IdleBounded
<1>5. NothingIsNothing'
  BY <1>1 DEF NothingIsNothing
<1>6. RestsOnNothing'
  <2> SUFFICES ASSUME wpc' \in Resting
               PROVE  inflight' = {} /\ \A d \in Deques : promises'[d] = <<>>
    BY DEF RestsOnNothing
  <2>1. idle' > MaxIdle
    BY <1>1 DEF Resting
  <2>2. nothing'
    BY <1>1, <1>2, <2>1
  <2>3. nothing /\ \A d \in Deques : promises'[d] = <<>>
    BY <1>1, <2>2
  <2> QED
    BY <1>1, <2>3 DEF RestInv, NothingIsNothing
<1> QED
  BY <1>4, <1>5, <1>6 DEF RestInv

LEMMA RestNext == RestInv /\ [Next]_vars => RestInv'
<1> SUFFICES ASSUME RestInv, [Next]_vars PROVE RestInv'
  OBVIOUS
<1> USE DEF RestInv
<1>0. WorkerTypes
  OBVIOUS
<1>1. ASSUME NEW c \in Clients, NEW kind \in Kinds, Call(c, kind) PROVE RestInv'
  BY <1>0, <1>1, OthersRest DEF Call, signals, WorkerTypes
<1>2. ASSUME NEW c \in Clients, ClientStep(c) PROVE RestInv'
  BY <1>0, <1>2, OthersRest
  DEF ClientStep, ReadSleeping, Notify, Get, signals, WorkerTypes, Notified
<1>3. CASE OwnerStep \/ Destroy \/ UNCHANGED vars
  BY <1>0, <1>3, OthersRest
  DEF OwnerStep, Constructed, Join, Destroy, vars, signals, WorkerTypes, Notified
<1>4. ASSUME NEW q \in comms, Take(q) PROVE RestInv'
  BY <1>4 DEF Take, GoTo, signals, WorkerTypes, IdleBounded, NothingIsNothing,
              RestsOnNothing, Resting
<1>5. ASSUME NEW read \in SUBSET inflight, Poll(read) PROVE RestInv'
  BY <1>5, PollRests
<1>6. CASE Turn
  BY <1>6, TurnRests
<1>7. CASE Build \/ TakeNothing \/ End
  BY <1>7 DEF Build, TakeNothing, End, GoTo, signals, work, WorkerTypes, IdleBounded,
              NothingIsNothing, RestsOnNothing, Resting
<1>8. CASE Doze
  BY <1>8, WorkerAssumption
  DEF Doze, GoTo, work, WorkerTypes, IdleBounded, NothingIsNothing, RestsOnNothing, Resting
<1>9. CASE Sleep \/ Park \/ WakeUp \/ Pulse
  BY <1>9 DEF Sleep, Park, WakeUp, Pulse, Awake, GoTo, work, WorkerTypes, IdleBounded,
              NothingIsNothing, RestsOnNothing, Resting
<1> QED
  BY <1>1, <1>2, <1>3, <1>4, <1>5, <1>6, <1>7, <1>8, <1>9 DEF Next, WorkerStep

\* The worker thread of Db never sleeps on work: asleep in wait_for, it has no find
\* that waits for a read and no promise somebody waits on, whatever the clients do
\* and however long it may idle before it sleeps; and no variable leaves its type.
THEOREM WorkerSoundAlways == Spec => []WorkerSound
<1>1. Init => KeptInv /\ RestInv
  BY KeptInit, RestInit
<1>2. KeptInv /\ RestInv /\ [Next]_vars => (KeptInv /\ RestInv)'
  BY KeptNext, RestNext
<1>3. KeptInv /\ RestInv => WorkerSound
  <2> SUFFICES ASSUME KeptInv, RestInv PROVE TypeOK /\ NoSleepOnWork
    BY DEF WorkerSound
  <2>1. \A c \in Clients : call[c] = NoCall \/ call[c] \in Requests
    BY DEF KeptInv, KeptTypes
  <2>2. TypeOK
    BY <2>1 DEF KeptInv, KeptTypes, RestInv, WorkerTypes, IdleBounded, TypeOK
  <2>3. NoSleepOnWork
    BY DEF RestInv, RestsOnNothing, Resting, NoSleepOnWork
  <2> QED
    BY <2>2, <2>3
<1> QED
  BY <1>1, <1>2, <1>3, PTL DEF Spec
=============================================================================
