------------------------- MODULE FifoManagerProofs -------------------------
(***************************************************************************)
(* Theorems about FifoManager, for any number of requests, worker fibers,  *)
(* values under a prefix, failed allocations and restarts.                 *)
(***************************************************************************)
EXTENDS FifoManager, TLAPS, FiniteSetTheorems

----------------------------------------------------------------------------
Busy == {"find", "traverse", "nodes", "large", "more", "answer"}

FiberStates ==
    [at : Places, req : RequestIds \cup {0}, left : 0 .. MaxNodes, large : BOOLEAN]
Works == [type : {"find", "traverse"}, r : RequestIds]
Pills == [type : {"shutdown"}]
Results == [r : RequestIds, status : Statuses, large : BOOLEAN]
LargeNodes == {LargeNode(r) : r \in RequestIds}
Counts == [RequestIds -> Nat]

FifoTypes ==
    /\ running \in BOOLEAN /\ dropping \in BOOLEAN
    /\ ctl \in {"idle", "pills", "destroyed"}
    /\ numWorkers \in 0 .. MaxFibers /\ pills \in 0 .. numWorkers
    /\ fiber \in [Fibers -> FiberStates]
    /\ requests \in Seq(Works \cup Pills)
    /\ completions \in Seq(Results) /\ traverses \in Seq(Results)
    /\ larges \in Seq(LargeNodes)
    /\ submitted \subseteq RequestIds
    /\ got \in [answer : Counts, flag : Counts, large : Counts,
                data : SUBSET {<<r, ReadLarge(LargeNode(r))>> : r \in RequestIds}]
    /\ lost \in [answer : Counts, large : Counts]
    /\ failures \in Nat

\* A channel that runs has workers, and one that stands still has none: start() never
\* replaces a fiber that holds a request.
ControlInv ==
    /\ running => numWorkers > 0 /\ ctl = "idle"
    /\ ctl # "pills" => pills = 0
    /\ ~running /\ ctl = "idle" => \A f \in Fibers : fiber[f].at = "none"

\* What a fiber holds at each place of its task
FiberInv ==
    \A f \in Fibers :
        /\ fiber[f].at \in Busy => fiber[f].req \in RequestIds
        /\ fiber[f].at = "more" => fiber[f].left > 0
        /\ fiber[f].at \in {"find", "traverse", "nodes"} => ~fiber[f].large

\* Every request is in one place.
Total(r) == Waiting(r) + Held(r) + Answers(r) + lost.answer[r]
CountInv == \A r \in RequestIds : Total(r) = IF r \in submitted THEN 1 ELSE 0

\* A request with a result in the queue of traversals is a traversal, which is not
\* waiting or answered, and whose worker is past the search for the prefix.
Traversing(f) ==
    fiber[f].at \in {"nodes", "more"} \/ (fiber[f].at = "large" /\ fiber[f].left > 0)
OfTraversal(c) ==
    /\ c.status # "found" /\ c.r \in submitted /\ got.answer[c.r] = 0
    /\ \A j \in DOMAIN requests : requests[j].type # "shutdown" => requests[j].r # c.r
    /\ \A j \in DOMAIN completions : completions[j].r # c.r
    /\ \A f \in Fibers : fiber[f].at \in Busy /\ fiber[f].req = c.r => Traversing(f)
TraverseInv == \A i \in DOMAIN traverses : OfTraversal(traverses[i])
CompletionInv == \A i \in DOMAIN completions : completions[i].status = "found"
EndInv ==
    \A i, j \in DOMAIN traverses :
         i < j /\ traverses[i].status = "end" => traverses[j].r # traverses[i].r

\* Workers that posted a large value and have still to announce it
Announcing(r) ==
    {f \in Fibers : fiber[f].at \in {"more", "answer"} /\ fiber[f].large /\ fiber[f].req = r}
LargeInv ==
    \A r \in RequestIds :
      In(completions, r, IsFlagged) + In(traverses, r, IsFlagged) + got.flag[r]
          + Cardinality(Announcing(r))
        <= Cardinality({i \in DOMAIN larges : larges[i].r = r}) + got.large[r] + lost.large[r]

FifoInv ==
    FifoTypes /\ ControlInv /\ FiberInv /\ CountInv /\ TraverseInv /\ CompletionInv /\ EndInv
    /\ LargeInv

----------------------------------------------------------------------------
\* Counting

One(b) == IF b THEN 1 ELSE 0

\* How many entries of a queue are in a set
Count(q, G) == Cardinality({i \in DOMAIN q : q[i] \in G})

\* Two subsets of a finite set that differ at most in one element: their sizes.
LEMMA CardChange ==
    ASSUME NEW T, IsFiniteSet(T), NEW S \in SUBSET T, NEW S2 \in SUBSET T, NEW x \in T,
           \A y \in T \ {x} : y \in S <=> y \in S2
    PROVE  /\ Cardinality(S) \in Nat /\ Cardinality(S2) \in Nat
           /\ Cardinality(S2) + One(x \in S) = Cardinality(S) + One(x \in S2)
<1>1. IsFiniteSet(S) /\ IsFiniteSet(S2) /\ Cardinality(S) \in Nat /\ Cardinality(S2) \in Nat
  BY FS_Subset, FS_CardinalityType
<1>2. CASE x \in S2
  <2>1. S2 = S \cup {x}
    BY <1>2
  <2>2. Cardinality(S2) = IF x \in S THEN Cardinality(S) ELSE Cardinality(S) + 1
    BY <1>1, <2>1, FS_AddElement
  <2> QED
    BY <1>1, <1>2, <2>2 DEF One
<1>3. CASE x \notin S2
  <2>1. S2 = S \ {x}
    BY <1>3
  <2>2. Cardinality(S2) = IF x \in S THEN Cardinality(S) - 1 ELSE Cardinality(S)
    BY <1>1, <2>1, FS_RemoveElement
  <2> QED
    BY <1>1, <1>3, <2>2 DEF One
<1> QED
  BY <1>2, <1>3

LEMMA CountIs ==
    ASSUME NEW A, NEW q \in Seq(A), NEW G
    PROVE  /\ IsFiniteSet({i \in DOMAIN q : q[i] \in G}) /\ Count(q, G) \in Nat
           /\ (\E i \in DOMAIN q : q[i] \in G) => Count(q, G) >= 1
<1> DEFINE S == {i \in DOMAIN q : q[i] \in G}
<1>1. DOMAIN q = 1 .. Len(q) /\ Len(q) \in Nat
  OBVIOUS
<1>2. IsFiniteSet(1 .. Len(q))
  BY <1>1, FS_Interval
<1>3. IsFiniteSet(S) /\ Cardinality(S) \in Nat
  BY <1>1, <1>2, FS_Subset, FS_CardinalityType
<1>4. ASSUME NEW i \in DOMAIN q, q[i] \in G PROVE Cardinality(S) >= 1
  <2>1. S # {}
    BY <1>4
  <2>2. Cardinality(S) # 0
    BY <1>3, <2>1, FS_EmptySet
  <2> QED
    BY <1>3, <2>2
<1> QED
  BY <1>3, <1>4 DEF Count

LEMMA CountEmpty ==
    ASSUME NEW G PROVE Count(<<>>, G) = 0
<1>1. {i \in DOMAIN << >> : << >>[i] \in G} = {}
  OBVIOUS
<1> QED
  BY <1>1, FS_EmptySet DEF Count

LEMMA CountAppend ==
    ASSUME NEW A, NEW q \in Seq(A), NEW e \in A, NEW G
    PROVE  Count(Append(q, e), G) = Count(q, G) + One(e \in G)
<1> DEFINE n == Len(q) + 1
           T == 1 .. n
           S == {i \in DOMAIN q : q[i] \in G}
           S2 == {i \in DOMAIN Append(q, e) : Append(q, e)[i] \in G}
<1>1. Len(q) \in Nat /\ DOMAIN q = 1 .. Len(q) /\ DOMAIN Append(q, e) = 1 .. n
  OBVIOUS
<1>2. Append(q, e)[n] = e /\ \A i \in 1 .. Len(q) : Append(q, e)[i] = q[i]
  OBVIOUS
<1>3. IsFiniteSet(T)
  BY <1>1, FS_Interval
<1>4. S \in SUBSET T /\ S2 \in SUBSET T /\ n \in T
  BY <1>1
<1>5. \A y \in T \ {n} : y \in S <=> y \in S2
  <2>1. \A y \in T \ {n} : y \in 1 .. Len(q)
    BY <1>1
  <2> QED
    BY <2>1, <1>1, <1>2
<1>6. n \notin S /\ (n \in S2 <=> e \in G)
  BY <1>1, <1>2
<1> HIDE DEF n, T, S, S2
<1>7. /\ Cardinality(S) \in Nat /\ Cardinality(S2) \in Nat
      /\ Cardinality(S2) + One(n \in S) = Cardinality(S) + One(n \in S2)
  BY <1>3, <1>4, <1>5, CardChange
<1>8. One(n \in S) = 0 /\ One(n \in S2) = One(e \in G) /\ One(e \in G) \in Nat
  BY <1>6 DEF One
<1>9. Cardinality(S2) = Cardinality(S) + One(e \in G)
  BY <1>7, <1>8
<1> QED
  BY <1>9 DEF Count, S, S2

LEMMA CountTail ==
    ASSUME NEW A, NEW q \in Seq(A), q # <<>>, NEW G
    PROVE  Count(q, G) = Count(Tail(q), G) + One(Head(q) \in G)
<1> DEFINE S == {i \in DOMAIN q : q[i] \in G}
           P == {i \in DOMAIN Tail(q) : Tail(q)[i] \in G}
           h == [i \in P |-> i + 1]
<1>1. /\ Len(q) \in Nat \ {0} /\ DOMAIN q = 1 .. Len(q) /\ Tail(q) \in Seq(A)
      /\ Len(Tail(q)) = Len(q) - 1 /\ DOMAIN Tail(q) = 1 .. Len(q) - 1 /\ Head(q) = q[1]
  OBVIOUS
<1>2. \A i \in 1 .. Len(q) - 1 : Tail(q)[i] = q[i + 1]
  OBVIOUS
<1>3. IsFiniteSet(P) /\ IsFiniteSet(S)
  BY <1>1, CountIs
<1>4. \A i \in S \ {1} : i - 1 \in P /\ i = (i - 1) + 1
  <2> SUFFICES ASSUME NEW i \in S \ {1} PROVE i - 1 \in P /\ i = (i - 1) + 1
    OBVIOUS
  <2>1. i \in 2 .. Len(q) /\ q[i] \in G
    BY <1>1
  <2>2. i - 1 \in 1 .. Len(q) - 1 /\ (i - 1) + 1 = i
    BY <1>1, <2>1
  <2>3. Tail(q)[i - 1] = q[i]
    BY <1>2, <2>2
  <2> QED
    BY <1>1, <2>1, <2>2, <2>3
<1>5. \A i \in P : i + 1 \in S \ {1}
  <2> SUFFICES ASSUME NEW i \in P PROVE i + 1 \in S \ {1}
    OBVIOUS
  <2>1. i \in 1 .. Len(q) - 1 /\ Tail(q)[i] = q[i + 1] /\ q[i + 1] \in G
    BY <1>1, <1>2
  <2> QED
    BY <1>1, <2>1
<1>6. h \in Bijection(P, S \ {1})
  <2>1. h \in [P -> S \ {1}]
    BY <1>5
  <2>2. \A i, j \in P : h[i] = h[j] => i = j
    BY <1>1
  <2>3. \A i \in S \ {1} : \E j \in P : h[j] = i
    <3> TAKE i \in S \ {1}
    <3>1. i - 1 \in P /\ h[i - 1] = i
      BY <1>4
    <3> QED
      BY <3>1
  <2>4. DOMAIN h = P
    OBVIOUS
  <2> HIDE DEF S, P, h
  <2> QED
    BY <2>1, <2>2, <2>3, <2>4 DEF Bijection, Injection, Surjection, IsInjective
<1>7. Cardinality(S \ {1}) = Cardinality(P)
  <2>1. ExistsBijection(P, S \ {1})
    BY <1>6 DEF ExistsBijection
  <2> HIDE DEF S, P, h
  <2> QED
    BY <1>3, <2>1, FS_Bijection
<1>8. 1 \in S <=> Head(q) \in G
  BY <1>1
<1> HIDE DEF S, P, h
<1>9. Cardinality(S \ {1}) = IF 1 \in S THEN Cardinality(S) - 1 ELSE Cardinality(S)
  BY <1>3, FS_RemoveElement
<1>10. Cardinality(S) \in Nat
  BY <1>3, FS_CardinalityType
<1>11. Cardinality(S) = Cardinality(P) + One(Head(q) \in G)
  BY <1>7, <1>8, <1>9, <1>10 DEF One
<1> QED
  BY <1>11 DEF Count, S, P

----------------------------------------------------------------------------
\* The counts of the properties, as counts of entries in a set

WorkOf(r) == {m \in Works : m.r = r}
AnswerOf(r) == {c \in Results : c.r = r /\ c.status # "more"}
FlagOf(r) == {c \in Results : c.r = r /\ c.large}
LargeOf(r) == {n \in LargeNodes : n.r = r}

LEMMA WorkCount ==
    ASSUME NEW q \in Seq(Works \cup Pills), NEW r
    PROVE  Cardinality({i \in DOMAIN q : q[i].type # "shutdown" /\ q[i].r = r})
             = Count(q, WorkOf(r))
<1>1. \A i \in DOMAIN q : q[i] \in Works \cup Pills
  OBVIOUS
<1>2. \A m \in Works \cup Pills : (m.type # "shutdown" /\ m.r = r) <=> m \in WorkOf(r)
  BY DEF Works, Pills, WorkOf
<1>3. {i \in DOMAIN q : q[i].type # "shutdown" /\ q[i].r = r}
        = {i \in DOMAIN q : q[i] \in WorkOf(r)}
  BY <1>1, <1>2
<1> QED
  BY <1>3 DEF Count

LEMMA AnswerCount ==
    ASSUME NEW q \in Seq(Results), NEW r
    PROVE  In(q, r, IsAnswer) = Count(q, AnswerOf(r))
<1>1. \A i \in DOMAIN q : q[i] \in Results
  OBVIOUS
<1>2. {i \in DOMAIN q : q[i].r = r /\ IsAnswer(q[i])} = {i \in DOMAIN q : q[i] \in AnswerOf(r)}
  BY <1>1 DEF AnswerOf, IsAnswer
<1> QED
  BY <1>2 DEF Count, In

LEMMA FlagCount ==
    ASSUME NEW q \in Seq(Results), NEW r
    PROVE  In(q, r, IsFlagged) = Count(q, FlagOf(r))
<1>1. \A i \in DOMAIN q : q[i] \in Results
  OBVIOUS
<1>2. {i \in DOMAIN q : q[i].r = r /\ IsFlagged(q[i])} = {i \in DOMAIN q : q[i] \in FlagOf(r)}
  BY <1>1 DEF FlagOf, IsFlagged
<1> QED
  BY <1>2 DEF Count, In

LEMMA LargeCount ==
    ASSUME NEW q \in Seq(LargeNodes), NEW r
    PROVE  Cardinality({i \in DOMAIN q : q[i].r = r}) = Count(q, LargeOf(r))
<1>1. \A i \in DOMAIN q : q[i] \in LargeNodes
  OBVIOUS
<1>2. {i \in DOMAIN q : q[i].r = r} = {i \in DOMAIN q : q[i] \in LargeOf(r)}
  BY <1>1 DEF LargeOf
<1> QED
  BY <1>2 DEF Count

\* What a request, a result or a large value adds to a count
LEMMA WorkIs ==
    ASSUME NEW r \in RequestIds, NEW type \in {"find", "traverse"}, NEW s
    PROVE  /\ NewRequest(r, type) \in Works
           /\ NewRequest(r, type) \in WorkOf(s) <=> r = s
  BY DEF NewRequest, Works, WorkOf

LEMMA PillIs ==
    /\ [type |-> "shutdown"] \in Pills
    /\ \A s : [type |-> "shutdown"] \notin WorkOf(s)
  BY DEF Pills, Works, WorkOf

LEMMA LargeNodeIs ==
    ASSUME NEW r \in RequestIds, NEW s
    PROVE  /\ LargeNode(r) \in LargeNodes /\ LargeNode(r).r = r
           /\ LargeNode(r) \in LargeOf(s) <=> r = s
  BY DEF LargeNodes, LargeNode, LargeOf

LEMMA LargeNodesAre ==
    ASSUME NEW n \in LargeNodes
    PROVE  n.r \in RequestIds /\ n = LargeNode(n.r)
<1>1. PICK r \in RequestIds : n = LargeNode(r)
  BY DEF LargeNodes
<1>2. n.r = r
  BY <1>1 DEF LargeNode
<1> QED
  BY <1>1, <1>2

LEMMA FibersFinite == IsFiniteSet(Fibers)
  BY FifoAssumption, FS_Interval DEF Fibers

\* The fibers that hold a request
Holders(r) == {f \in Fibers : fiber[f].at \in Busy /\ fiber[f].req = r}

LEMMA HeldIs ==
    ASSUME FifoTypes, NEW r
    PROVE  /\ Held(r) = Cardinality(Holders(r)) /\ Holders(r) \in SUBSET Fibers
           /\ Held(r) \in Nat
<1>1. \A f \in Fibers : fiber[f].at \in Busy <=> fiber[f].at \notin {"none", "loop", "dequeue"}
  BY DEF FifoTypes, FiberStates, Busy, Places
<1>2. Holders(r) = {f \in Fibers : fiber[f].at \notin {"none", "loop", "dequeue"}
                                   /\ fiber[f].req = r}
  BY <1>1 DEF Holders
<1>3. Holders(r) \in SUBSET Fibers
  BY DEF Holders
<1>4. Cardinality(Holders(r)) \in Nat
  BY <1>3, FibersFinite, FS_Subset, FS_CardinalityType
<1> QED
  BY <1>2, <1>3, <1>4 DEF Held

LEMMA HeldIsNext ==
    ASSUME FifoTypes', NEW r
    PROVE  /\ Held(r)' = Cardinality(Holders(r)') /\ Holders(r)' \in SUBSET Fibers
           /\ Held(r)' \in Nat
<1>1. \A f \in Fibers : fiber'[f].at \in Busy <=> fiber'[f].at \notin {"none", "loop", "dequeue"}
  BY DEF FifoTypes, FiberStates, Busy, Places
<1>2. Holders(r)' = {f \in Fibers : fiber'[f].at \notin {"none", "loop", "dequeue"}
                                    /\ fiber'[f].req = r}
  BY <1>1 DEF Holders
<1>3. Holders(r)' \in SUBSET Fibers
  BY DEF Holders
<1>4. Cardinality(Holders(r)') \in Nat
  BY <1>3, FibersFinite, FS_Subset, FS_CardinalityType
<1> QED
  BY <1>2, <1>3, <1>4 DEF Held

\* A step of one fiber changes what that fiber holds.
LEMMA HeldChange ==
    ASSUME FifoTypes, FifoTypes', NEW f \in Fibers, NEW r,
           \A g \in Fibers \ {f} : fiber'[g] = fiber[g]
    PROVE  Held(r)' + One(fiber[f].at \in Busy /\ fiber[f].req = r)
             = Held(r) + One(fiber'[f].at \in Busy /\ fiber'[f].req = r)
<1>1. Holders(r) \in SUBSET Fibers /\ Holders(r)' \in SUBSET Fibers
  BY HeldIs, HeldIsNext
<1>2. \A y \in Fibers \ {f} : y \in Holders(r) <=> y \in Holders(r)'
  BY DEF Holders
<1>3. Cardinality(Holders(r)') + One(f \in Holders(r))
        = Cardinality(Holders(r)) + One(f \in Holders(r)')
  BY <1>1, <1>2, FibersFinite, CardChange
<1>4. /\ f \in Holders(r) <=> fiber[f].at \in Busy /\ fiber[f].req = r
      /\ f \in Holders(r)' <=> fiber'[f].at \in Busy /\ fiber'[f].req = r
  BY DEF Holders
<1>5. Held(r) = Cardinality(Holders(r)) /\ Held(r)' = Cardinality(Holders(r)')
  BY HeldIs, HeldIsNext
<1> QED
  BY <1>3, <1>4, <1>5 DEF One

----------------------------------------------------------------------------
\* Types

LEMMA InitTypes == FifoInit => FifoTypes
<1> SUFFICES ASSUME FifoInit PROVE FifoTypes
  OBVIOUS
<1>1. Zero \in Counts
  BY DEF Zero, Counts
<1>2. Idle("none") \in FiberStates
  BY FifoAssumption DEF Idle, FiberStates, Places
<1>3. fiber \in [Fibers -> FiberStates]
  BY <1>2 DEF FifoInit
<1>4. /\ got \in [answer : Counts, flag : Counts, large : Counts,
                  data : SUBSET {<<r, ReadLarge(LargeNode(r))>> : r \in RequestIds}]
      /\ lost \in [answer : Counts, large : Counts]
  BY <1>1 DEF FifoInit
<1>5. /\ requests \in Seq(Works \cup Pills) /\ completions \in Seq(Results)
      /\ traverses \in Seq(Results) /\ larges \in Seq(LargeNodes)
  BY DEF FifoInit
<1>6. running \in BOOLEAN /\ dropping \in BOOLEAN /\ ctl \in {"idle", "pills", "destroyed"}
  BY DEF FifoInit
<1>7. 0 \in 0 .. MaxFibers /\ 0 \in 0 .. 0 /\ 0 \in Nat
  BY FifoAssumption
<1>8. numWorkers \in 0 .. MaxFibers /\ pills \in 0 .. numWorkers /\ failures \in Nat
  BY <1>7 DEF FifoInit
<1>9. submitted \subseteq RequestIds
  BY DEF FifoInit
<1> QED
  BY <1>3, <1>4, <1>5, <1>6, <1>8, <1>9 DEF FifoTypes

LEMMA BumpIs ==
    ASSUME NEW k \in Counts, NEW r \in RequestIds
    PROVE  /\ Bump(k, r) \in Counts
           /\ \A s \in RequestIds : Bump(k, r)[s] = k[s] + One(s = r)
<1>1. Bump(k, r) = [k EXCEPT ![r] = @ + 1]
  BY DEF Bump
<1>2. k \in [RequestIds -> Nat]
  BY DEF Counts
<1>3. k[r] + 1 \in Nat
  BY <1>2
<1>4. Bump(k, r) \in [RequestIds -> Nat]
  BY <1>1, <1>2, <1>3
<1>5. \A s \in RequestIds : Bump(k, r)[s] = k[s] + One(s = r)
  BY <1>1, <1>2 DEF One
<1> QED
  BY <1>4, <1>5 DEF Counts

LEMMA SubmitTypes ==
    ASSUME FifoTypes, NEW r \in RequestIds, NEW type \in {"find", "traverse"}, Submit(r, type)
    PROVE  FifoTypes'
<1>1. requests' \in Seq(Works \cup Pills)
  <2>1. requests \in Seq(Works \cup Pills) /\ NewRequest(r, type) \in Works \cup Pills
    BY WorkIs DEF FifoTypes
  <2>2. requests' = requests \/ requests' = Append(requests, NewRequest(r, type))
    BY DEF Submit
  <2> QED
    BY <2>1, <2>2
<1>2. lost' \in [answer : Counts, large : Counts] /\ failures' \in Nat
  <2>1. CASE UNCHANGED <<lost, failures>>
    BY <2>1 DEF FifoTypes
  <2>2. CASE Fails /\ lost' = [lost EXCEPT !.answer = Bump(@, r)]
    <3>1. Bump(lost.answer, r) \in Counts
      BY BumpIs DEF FifoTypes
    <3>2. failures' \in Nat
      BY <2>2 DEF Fails, FifoTypes
    <3> QED
      BY <2>2, <3>1, <3>2 DEF FifoTypes
  <2> QED
    BY <2>1, <2>2 DEF Submit
<1>3. submitted' \subseteq RequestIds
  BY DEF Submit, FifoTypes
<1> QED
  BY <1>1, <1>2, <1>3 DEF Submit, FifoTypes, control

\* What a client learns
LEMMA LearnIs ==
    ASSUME FifoTypes, NEW c \in Results
    PROVE  /\ Learn(c) \in [answer : Counts, flag : Counts, large : Counts,
                            data : SUBSET {<<r, ReadLarge(LargeNode(r))>> : r \in RequestIds}]
           /\ Learn(c).large = got.large
           /\ \A s \in RequestIds :
                /\ Learn(c).answer[s] = got.answer[s] + One(c \in AnswerOf(s))
                /\ Learn(c).flag[s] = got.flag[s] + One(c \in FlagOf(s))
<1> DEFINE D == SUBSET {<<r, ReadLarge(LargeNode(r))>> : r \in RequestIds}
           a == IF c.status = "more" THEN got.answer ELSE Bump(got.answer, c.r)
           b == IF c.large THEN Bump(got.flag, c.r) ELSE got.flag
<1>1. got \in [answer : Counts, flag : Counts, large : Counts, data : D]
  BY DEF FifoTypes
<1>2. Learn(c) = [got EXCEPT !.answer = a, !.flag = b]
  BY DEF Learn
<1>3. c.r \in RequestIds /\ c.large \in BOOLEAN /\ c.status \in Statuses
  BY DEF Results
<1>4. got.answer \in Counts /\ got.flag \in Counts
  BY <1>1
<1>5. a \in Counts /\ \A s \in RequestIds : a[s] = got.answer[s] + One(c \in AnswerOf(s))
  <2>1. CASE c.status = "more"
    <3>1. \A s \in RequestIds : c \notin AnswerOf(s) /\ got.answer[s] \in Nat
      BY <2>1, <1>4 DEF AnswerOf, Counts
    <3> QED
      BY <2>1, <1>4, <3>1 DEF One
  <2>2. CASE c.status # "more"
    <3>1. \A s \in RequestIds : c \in AnswerOf(s) <=> s = c.r
      BY <2>2 DEF AnswerOf
    <3> QED
      BY <2>2, <1>3, <1>4, <3>1, BumpIs DEF One
  <2> QED
    BY <2>1, <2>2
<1>6. b \in Counts /\ \A s \in RequestIds : b[s] = got.flag[s] + One(c \in FlagOf(s))
  <2>1. CASE ~c.large
    <3>1. \A s \in RequestIds : c \notin FlagOf(s) /\ got.flag[s] \in Nat
      BY <2>1, <1>4 DEF FlagOf, Counts
    <3> QED
      BY <2>1, <1>4, <3>1 DEF One
  <2>2. CASE c.large
    <3>1. \A s \in RequestIds : c \in FlagOf(s) <=> s = c.r
      BY <2>2 DEF FlagOf
    <3> QED
      BY <2>2, <1>3, <1>4, <3>1, BumpIs DEF One
  <2> QED
    BY <2>1, <2>2
<1> HIDE DEF a, b, D
<1>7. /\ Learn(c) \in [answer : Counts, flag : Counts, large : Counts, data : D]
      /\ Learn(c).answer = a /\ Learn(c).flag = b /\ Learn(c).large = got.large
  BY <1>1, <1>2, <1>5, <1>6
<1> QED
  BY <1>5, <1>6, <1>7 DEF D

LEMMA PollCompletionTypes ==
    ASSUME FifoTypes, PollCompletion
    PROVE  /\ FifoTypes' /\ Head(completions) \in Results
           /\ got' = Learn(Head(completions))
<1>1. Head(completions) \in Results /\ Tail(completions) \in Seq(Results)
  BY DEF FifoTypes, PollCompletion
<1>2. got' \in [answer : Counts, flag : Counts, large : Counts,
                data : SUBSET {<<r, ReadLarge(LargeNode(r))>> : r \in RequestIds}]
  BY <1>1, LearnIs DEF PollCompletion
<1> QED
  BY <1>1, <1>2 DEF PollCompletion, FifoTypes, control

LEMMA PollTraverseTypes ==
    ASSUME FifoTypes, PollTraverse
    PROVE  /\ FifoTypes' /\ Head(traverses) \in Results
           /\ got' = Learn(Head(traverses))
<1>1. Head(traverses) \in Results /\ Tail(traverses) \in Seq(Results)
  BY DEF FifoTypes, PollTraverse
<1>2. got' \in [answer : Counts, flag : Counts, large : Counts,
                data : SUBSET {<<r, ReadLarge(LargeNode(r))>> : r \in RequestIds}]
  BY <1>1, LearnIs DEF PollTraverse
<1> QED
  BY <1>1, <1>2 DEF PollTraverse, FifoTypes, control

LEMMA PollLargeTypes ==
    ASSUME FifoTypes, PollLargeValue
    PROVE  /\ FifoTypes' /\ Head(larges) \in LargeNodes
           /\ got'.answer = got.answer /\ got'.flag = got.flag
           /\ \A s \in RequestIds : got'.large[s] = got.large[s] + One(Head(larges) \in LargeOf(s))
<1> DEFINE n == Head(larges)
           D == SUBSET {<<r, ReadLarge(LargeNode(r))>> : r \in RequestIds}
           k == Bump(got.large, n.r)
           d == got.data \cup {<<n.r, ReadLarge(n)>>}
<1>1. n \in LargeNodes /\ Tail(larges) \in Seq(LargeNodes)
  BY DEF FifoTypes, PollLargeValue
<1>2. n.r \in RequestIds /\ n = LargeNode(n.r)
  BY <1>1, LargeNodesAre
<1>3. got \in [answer : Counts, flag : Counts, large : Counts, data : D]
  BY DEF FifoTypes
<1>4. <<n.r, ReadLarge(n)>> \in {<<r, ReadLarge(LargeNode(r))>> : r \in RequestIds}
  BY <1>2
<1>5. d \in D
  BY <1>3, <1>4
<1>6. \A s \in RequestIds : n \in LargeOf(s) <=> s = n.r
  BY <1>1 DEF LargeOf
<1>7. k \in Counts /\ \A s \in RequestIds : k[s] = got.large[s] + One(n \in LargeOf(s))
  BY <1>2, <1>3, <1>6, BumpIs DEF One
<1>8. got' = [got EXCEPT !.large = k, !.data = d]
  BY DEF PollLargeValue
<1>9. /\ got' \in [answer : Counts, flag : Counts, large : Counts, data : D]
      /\ got'.answer = got.answer /\ got'.flag = got.flag /\ got'.large = k
  <2> HIDE DEF k, d, D
  <2> QED
    BY <1>3, <1>5, <1>7, <1>8
<1>10. FifoTypes'
  BY <1>1, <1>9 DEF PollLargeValue, FifoTypes, control
<1> QED
  BY <1>1, <1>7, <1>9, <1>10

\* The thread that starts and stops
LEMMA StartTypes ==
    ASSUME FifoTypes, ControlInv, NEW n \in 0 .. MaxFibers, Start(n)
    PROVE  /\ FifoTypes' /\ ControlInv'
           /\ \A f \in Fibers : fiber[f].at \notin Busy /\ fiber'[f].at \notin Busy
<1> DEFINE w == IF n = 0 THEN 1 ELSE n
<1>1. Idle("loop") \in FiberStates /\ Idle("none") \in FiberStates
  BY FifoAssumption DEF Idle, FiberStates, Places
<1>2. fiber' = [f \in Fibers |-> IF f <= w THEN Idle("loop") ELSE Idle("none")]
  BY DEF Start
<1>3. fiber' \in [Fibers -> FiberStates]
  BY <1>1, <1>2
<1>4. \A f \in Fibers : fiber[f].at \notin Busy /\ fiber'[f].at \notin Busy
  BY <1>2 DEF Idle, Busy, Start, ControlInv
<1>5. w \in 0 .. MaxFibers /\ w > 0
  BY FifoAssumption
<1>6. numWorkers' = w /\ running' = TRUE /\ ctl' = ctl /\ pills' = pills /\ dropping' = dropping
  BY DEF Start
<1>7. ctl = "idle" /\ pills = 0
  BY DEF Start, ControlInv
<1>8. numWorkers' \in 0 .. MaxFibers /\ pills' \in 0 .. numWorkers'
  <2> HIDE DEF w
  <2> QED
    BY <1>5, <1>6, <1>7, FifoAssumption
<1>9. FifoTypes'
  BY <1>3, <1>6, <1>8 DEF FifoTypes, Start, queues
<1>10. ControlInv'
  BY <1>5, <1>6, <1>7 DEF ControlInv
<1> QED
  BY <1>4, <1>9, <1>10

LEMMA StopTypes ==
    ASSUME FifoTypes, ControlInv, NEW drop \in BOOLEAN, Stop(drop)
    PROVE  FifoTypes' /\ ControlInv' /\ fiber' = fiber
<1>1. pills' \in 0 .. numWorkers' /\ numWorkers' = numWorkers
  BY FifoAssumption DEF Stop, FifoTypes
<1>2. /\ running' = FALSE /\ dropping' = drop /\ ctl' = "pills" /\ fiber' = fiber
  BY DEF Stop
<1>3. FifoTypes'
  BY <1>1, <1>2 DEF FifoTypes, Stop, queues
<1> QED
  BY <1>2, <1>3 DEF ControlInv

LEMMA SendPillTypes ==
    ASSUME FifoTypes, ControlInv, SendPill
    PROVE  FifoTypes' /\ ControlInv' /\ fiber' = fiber
<1>1. pills' \in 0 .. numWorkers' /\ numWorkers' = numWorkers
  BY FifoAssumption DEF SendPill, FifoTypes
<1>2. requests' \in Seq(Works \cup Pills)
  <2>1. requests \in Seq(Works \cup Pills) /\ [type |-> "shutdown"] \in Works \cup Pills
    BY PillIs DEF FifoTypes
  <2>2. requests' = requests \/ requests' = Append(requests, [type |-> "shutdown"])
    BY DEF SendPill
  <2> QED
    BY <2>1, <2>2
<1>3. failures' \in Nat
  BY DEF SendPill, Fails, FifoTypes
<1>4. FifoTypes'
  BY <1>1, <1>2, <1>3 DEF FifoTypes, SendPill
<1> QED
  BY <1>4 DEF SendPill, ControlInv

LEMMA JoinTypes ==
    ASSUME FifoTypes, ControlInv, JoinWorkers
    PROVE  FifoTypes' /\ ControlInv' /\ fiber' = fiber
<1>1. numWorkers' = 0 /\ pills' = 0 /\ ctl' \in {"idle", "destroyed"}
  BY DEF JoinWorkers
<1>2. numWorkers' \in 0 .. MaxFibers /\ pills' \in 0 .. numWorkers'
  BY <1>1, FifoAssumption
<1>3. FifoTypes'
  BY <1>1, <1>2 DEF FifoTypes, JoinWorkers, queues
<1>4. ~running' /\ fiber' = fiber /\ \A f \in Fibers : fiber'[f].at = "none"
  BY DEF JoinWorkers, ControlInv
<1> QED
  BY <1>1, <1>3, <1>4 DEF ControlInv

LEMMA DropTypes ==
    ASSUME FifoTypes, ControlInv, Drop
    PROVE  FifoTypes' /\ ControlInv' /\ fiber' = fiber
  BY DEF FifoTypes, ControlInv, Drop, queues

\* A step of fiber f that leaves it in state x
LEMMA FiberStep ==
    ASSUME FifoTypes, NEW f \in Fibers, NEW x \in FiberStates,
           fiber' = [fiber EXCEPT ![f] = x]
    PROVE  /\ fiber' \in [Fibers -> FiberStates] /\ fiber'[f] = x
           /\ \A g \in Fibers \ {f} : fiber'[g] = fiber[g]
  BY DEF FifoTypes

\* It changes neither the control nor the fibers of a channel that stands still.
LEMMA FiberControl ==
    ASSUME FifoTypes, ControlInv, NEW f \in Fibers, fiber[f].at # "none", UNCHANGED control
    PROVE  ControlInv'
  BY DEF ControlInv, control

LEMMA FiberToStep ==
    ASSUME FifoTypes, NEW f \in Fibers, NEW at \in Places, FiberTo(f, at)
    PROVE  /\ fiber' \in [Fibers -> FiberStates]
           /\ \A g \in Fibers \ {f} : fiber'[g] = fiber[g]
           /\ fiber'[f].at = at /\ fiber'[f].req = fiber[f].req
           /\ fiber'[f].left = fiber[f].left /\ fiber'[f].large = fiber[f].large
<1> DEFINE x == [fiber[f] EXCEPT !.at = at]
<1>1. fiber[f] \in FiberStates
  BY DEF FifoTypes
<1>2. /\ x \in FiberStates /\ x.at = at /\ x.req = fiber[f].req
      /\ x.left = fiber[f].left /\ x.large = fiber[f].large
  BY <1>1 DEF FiberStates
<1>3. fiber' = [fiber EXCEPT ![f] = x]
  BY DEF FiberTo
<1> HIDE DEF x
<1> QED
  BY <1>2, <1>3, FiberStep

LEMMA ReleaseStep ==
    ASSUME FifoTypes, NEW f \in Fibers, Release(f, "loop")
    PROVE  /\ fiber' \in [Fibers -> FiberStates]
           /\ \A g \in Fibers \ {f} : fiber'[g] = fiber[g]
           /\ fiber'[f].at = "loop"
<1>1. Idle("loop") \in FiberStates /\ Idle("loop").at = "loop"
  BY FifoAssumption DEF Idle, FiberStates, Places
<1>2. fiber' = [fiber EXCEPT ![f] = Idle("loop")]
  BY DEF Release
<1> QED
  BY <1>1, <1>2, FiberStep

----------------------------------------------------------------------------
\* What a step of a worker leaves

Kept(f) == \A g \in Fibers \ {f} : fiber'[g] = fiber[g]

\* What one fiber holds, as FiberInv says
HoldsRight(x) ==
    /\ x.at \in Busy => x.req \in RequestIds
    /\ x.at = "more" => x.left > 0
    /\ x.at \in {"find", "traverse", "nodes"} => ~x.large

LEMMA FiberInvStep ==
    ASSUME FiberInv, NEW f \in Fibers, Kept(f), HoldsRight(fiber'[f])
    PROVE  FiberInv'
  BY DEF FiberInv, Kept, HoldsRight

LEMMA ReadRunningIs ==
    ASSUME FifoTypes, ControlInv, FiberInv, NEW f \in Fibers, ReadRunning(f)
    PROVE  /\ FifoTypes' /\ ControlInv' /\ FiberInv' /\ Kept(f)
           /\ fiber[f].at \notin Busy /\ fiber'[f].at \notin Busy
<1> DEFINE at == IF Looping(f) THEN "dequeue" ELSE "none"
<1>1. at \in Places /\ at \notin Busy
  BY DEF Places, Busy
<1>2. FiberTo(f, at) /\ fiber[f].at = "loop"
  BY DEF ReadRunning
<1> HIDE DEF at
<1>3. fiber' \in [Fibers -> FiberStates] /\ Kept(f) /\ fiber'[f].at = at
  BY <1>1, <1>2, FiberToStep DEF Kept
<1>4. FifoTypes'
  BY <1>3 DEF FifoTypes, ReadRunning, control, queues
<1>5. ControlInv'
  BY <1>2, FiberControl DEF ReadRunning
<1>6. HoldsRight(fiber'[f])
  BY <1>1, <1>3 DEF HoldsRight, Busy
<1> QED
  BY <1>1, <1>2, <1>3, <1>4, <1>5, <1>6, FiberInvStep DEF Busy

LEMMA YieldIs ==
    ASSUME FifoTypes, ControlInv, FiberInv, NEW f \in Fibers, Yield(f)
    PROVE  /\ FifoTypes' /\ ControlInv' /\ FiberInv' /\ Kept(f)
           /\ fiber[f].at \notin Busy /\ fiber'[f].at \notin Busy
<1>1. FiberTo(f, "loop") /\ fiber[f].at = "dequeue" /\ "loop" \in Places
  BY DEF Yield, Places
<1>2. fiber' \in [Fibers -> FiberStates] /\ Kept(f) /\ fiber'[f].at = "loop"
  BY <1>1, FiberToStep DEF Kept
<1>3. FifoTypes'
  BY <1>2 DEF FifoTypes, Yield, control, queues
<1>4. ControlInv'
  BY <1>1, FiberControl DEF Yield
<1>5. HoldsRight(fiber'[f])
  BY <1>2 DEF HoldsRight, Busy
<1> QED
  BY <1>1, <1>2, <1>3, <1>4, <1>5, FiberInvStep DEF Busy

LEMMA DequeueIs ==
    ASSUME FifoTypes, ControlInv, FiberInv, NEW f \in Fibers, Dequeue(f)
    PROVE  /\ FifoTypes' /\ ControlInv' /\ FiberInv' /\ Kept(f)
           /\ fiber[f].at \notin Busy
           /\ Head(requests) \in Works \cup Pills
           /\ Head(requests) \notin Works => fiber'[f].at \notin Busy
           /\ Head(requests) \in Works =>
                /\ fiber'[f].at \in {"find", "traverse"} /\ fiber'[f].req = Head(requests).r
<1> DEFINE req == Head(requests)
<1>1. /\ req \in Works \cup Pills /\ requests' \in Seq(Works \cup Pills)
      /\ fiber[f].at = "dequeue"
  BY DEF FifoTypes, Dequeue
<1>2. IF req.type = "shutdown" THEN FiberTo(f, "none") ELSE fiber' = [fiber EXCEPT ![f] = Took(req)]
  BY DEF Dequeue
<1> HIDE DEF req
<1>3. /\ fiber' \in [Fibers -> FiberStates] /\ Kept(f) /\ HoldsRight(fiber'[f])
      /\ req \notin Works => fiber'[f].at \notin Busy
      /\ req \in Works => fiber'[f].at \in {"find", "traverse"} /\ fiber'[f].req = req.r
  <2>1. CASE req \in Pills
    <3>1. req.type = "shutdown" /\ req \notin Works /\ "none" \in Places
      BY <2>1 DEF Pills, Works, Places
    <3>2. FiberTo(f, "none")
      BY <1>2, <3>1
    <3>3. fiber' \in [Fibers -> FiberStates] /\ Kept(f) /\ fiber'[f].at = "none"
      BY <3>1, <3>2, FiberToStep DEF Kept
    <3> QED
      BY <3>1, <3>3 DEF HoldsRight, Busy
  <2>2. CASE req \in Works
    <3>1. req.type \in {"find", "traverse"} /\ req.r \in RequestIds
      BY <2>2 DEF Works
    <3>2. fiber' = [fiber EXCEPT ![f] = Took(req)]
      BY <1>2, <3>1
    <3>3. /\ Took(req) \in FiberStates /\ Took(req).at = req.type /\ Took(req).req = req.r
          /\ Took(req).large = FALSE
      BY <3>1, FifoAssumption DEF Took, FiberStates, Places
    <3>4. fiber' \in [Fibers -> FiberStates] /\ Kept(f) /\ fiber'[f] = Took(req)
      BY <3>2, <3>3, FiberStep DEF Kept
    <3> QED
      BY <2>2, <3>1, <3>3, <3>4 DEF HoldsRight
  <2> QED
    BY <1>1, <2>1, <2>2
<1>4. FifoTypes'
  BY <1>1, <1>3 DEF FifoTypes, Dequeue, control
<1>5. ControlInv'
  BY <1>1, FiberControl DEF Dequeue
<1>6. FiberInv'
  BY <1>3, FiberInvStep
<1> QED
  BY <1>1, <1>3, <1>4, <1>5, <1>6 DEF Busy, req

LEMMA FindIs ==
    ASSUME FifoTypes, ControlInv, FiberInv, NEW f \in Fibers, Find(f)
    PROVE  /\ FifoTypes' /\ ControlInv' /\ FiberInv' /\ Kept(f)
           /\ fiber[f].at = "find" /\ fiber'[f].at \in {"large", "answer"}
           /\ fiber'[f].at = "answer" => ~fiber'[f].large
           /\ fiber'[f].req = fiber[f].req /\ fiber'[f].left = fiber[f].left
<1>1. PICK large \in BOOLEAN :
        fiber' = [fiber EXCEPT ![f].at = IF large THEN "large" ELSE "answer", ![f].large = large]
  BY DEF Find
<1> DEFINE at == IF large THEN "large" ELSE "answer"
           x == [fiber[f] EXCEPT !.at = at, !.large = large]
<1>2. at \in {"large", "answer"} /\ (at = "answer" => ~large)
  OBVIOUS
<1>3. fiber[f] \in FiberStates /\ fiber[f].at = "find" /\ fiber[f].req \in RequestIds
  BY DEF FifoTypes, Find, FiberInv, Busy
<1>4. fiber' = [fiber EXCEPT ![f] = x]
  BY <1>1
<1> HIDE DEF at
<1>5. /\ x \in FiberStates /\ x.at = at /\ x.req = fiber[f].req
      /\ x.left = fiber[f].left /\ x.large = large
  BY <1>2, <1>3 DEF FiberStates, Places
<1> HIDE DEF x
<1>6. fiber' \in [Fibers -> FiberStates] /\ Kept(f) /\ fiber'[f] = x
  BY <1>4, <1>5, FiberStep DEF Kept
<1>7. FifoTypes'
  BY <1>6 DEF FifoTypes, Find, control, queues
<1>8. ControlInv'
  BY <1>3, FiberControl DEF Find
<1>9. HoldsRight(fiber'[f])
  BY <1>2, <1>3, <1>5, <1>6 DEF HoldsRight
<1> QED
  BY <1>2, <1>3, <1>5, <1>6, <1>7, <1>8, <1>9, FiberInvStep

LEMMA TraverseIs ==
    ASSUME FifoTypes, ControlInv, FiberInv, NEW f \in Fibers, Traverse(f)
    PROVE  /\ FifoTypes' /\ ControlInv' /\ FiberInv' /\ Kept(f)
           /\ fiber[f].at = "traverse" /\ fiber'[f].at = "nodes"
           /\ fiber'[f].req = fiber[f].req
<1>1. PICK n \in 0 .. MaxNodes : fiber' = [fiber EXCEPT ![f].at = "nodes", ![f].left = n]
  BY DEF Traverse
<1> DEFINE x == [fiber[f] EXCEPT !.at = "nodes", !.left = n]
<1>2. /\ fiber[f] \in FiberStates /\ fiber[f].at = "traverse" /\ fiber[f].req \in RequestIds
      /\ ~fiber[f].large
  BY DEF FifoTypes, Traverse, FiberInv, Busy
<1>3. fiber' = [fiber EXCEPT ![f] = x]
  BY <1>1
<1>4. /\ x \in FiberStates /\ x.at = "nodes" /\ x.req = fiber[f].req /\ x.large = fiber[f].large
  BY <1>2 DEF FiberStates, Places
<1> HIDE DEF x
<1>5. fiber' \in [Fibers -> FiberStates] /\ Kept(f) /\ fiber'[f] = x
  BY <1>3, <1>4, FiberStep DEF Kept
<1>6. FifoTypes'
  BY <1>5 DEF FifoTypes, Traverse, control, queues
<1>7. ControlInv'
  BY <1>2, FiberControl DEF Traverse
<1>8. HoldsRight(fiber'[f])
  BY <1>2, <1>4, <1>5 DEF HoldsRight
<1> QED
  BY <1>2, <1>4, <1>5, <1>6, <1>7, <1>8, FiberInvStep

LEMMA SendNodeIs ==
    ASSUME FifoTypes, ControlInv, FiberInv, NEW f \in Fibers, SendNode(f)
    PROVE  /\ FifoTypes' /\ ControlInv' /\ FiberInv' /\ Kept(f)
           /\ fiber[f].at = "nodes" /\ fiber'[f].at \in {"large", "more"}
           /\ fiber'[f].at = "more" => ~fiber'[f].large
           /\ fiber'[f].req = fiber[f].req /\ fiber'[f].left = fiber[f].left
           /\ fiber[f].left > 0
<1>1. PICK large \in BOOLEAN :
        fiber' = [fiber EXCEPT ![f].at = IF large THEN "large" ELSE "more", ![f].large = large]
  BY DEF SendNode
<1> DEFINE at == IF large THEN "large" ELSE "more"
           x == [fiber[f] EXCEPT !.at = at, !.large = large]
<1>2. at \in {"large", "more"} /\ (at = "more" => ~large)
  OBVIOUS
<1>3. /\ fiber[f] \in FiberStates /\ fiber[f].at = "nodes" /\ fiber[f].req \in RequestIds
      /\ fiber[f].left > 0
  BY DEF FifoTypes, SendNode, FiberInv, Busy
<1>4. fiber' = [fiber EXCEPT ![f] = x]
  BY <1>1
<1> HIDE DEF at
<1>5. /\ x \in FiberStates /\ x.at = at /\ x.req = fiber[f].req
      /\ x.left = fiber[f].left /\ x.large = large
  BY <1>2, <1>3 DEF FiberStates, Places
<1> HIDE DEF x
<1>6. fiber' \in [Fibers -> FiberStates] /\ Kept(f) /\ fiber'[f] = x
  BY <1>4, <1>5, FiberStep DEF Kept
<1>7. FifoTypes'
  BY <1>6 DEF FifoTypes, SendNode, control, queues
<1>8. ControlInv'
  BY <1>3, FiberControl DEF SendNode
<1>9. HoldsRight(fiber'[f])
  BY <1>2, <1>3, <1>5, <1>6 DEF HoldsRight
<1> QED
  BY <1>2, <1>3, <1>5, <1>6, <1>7, <1>8, <1>9, FiberInvStep

\* A failed allocation that drops an answer, and one that drops a large value
LEMMA LoseAnswer ==
    ASSUME FifoTypes, NEW r \in RequestIds, lost' = [lost EXCEPT !.answer = Bump(@, r)]
    PROVE  /\ lost' \in [answer : Counts, large : Counts] /\ lost'.large = lost.large
           /\ \A s \in RequestIds : lost'.answer[s] = lost.answer[s] + One(s = r)
<1> DEFINE k == Bump(lost.answer, r)
<1>1. lost \in [answer : Counts, large : Counts]
  BY DEF FifoTypes
<1>2. k \in Counts /\ \A s \in RequestIds : k[s] = lost.answer[s] + One(s = r)
  BY <1>1, BumpIs
<1>3. lost' = [lost EXCEPT !.answer = k]
  OBVIOUS
<1> HIDE DEF k
<1>4. lost' \in [answer : Counts, large : Counts] /\ lost'.large = lost.large /\ lost'.answer = k
  BY <1>1, <1>2, <1>3
<1> QED
  BY <1>2, <1>4

LEMMA LoseLarge ==
    ASSUME FifoTypes, NEW r \in RequestIds, lost' = [lost EXCEPT !.large = Bump(@, r)]
    PROVE  /\ lost' \in [answer : Counts, large : Counts] /\ lost'.answer = lost.answer
           /\ \A s \in RequestIds : lost'.large[s] = lost.large[s] + One(s = r)
<1> DEFINE k == Bump(lost.large, r)
<1>1. lost \in [answer : Counts, large : Counts]
  BY DEF FifoTypes
<1>2. k \in Counts /\ \A s \in RequestIds : k[s] = lost.large[s] + One(s = r)
  BY <1>1, BumpIs
<1>3. lost' = [lost EXCEPT !.large = k]
  OBVIOUS
<1> HIDE DEF k
<1>4. lost' \in [answer : Counts, large : Counts] /\ lost'.answer = lost.answer /\ lost'.large = k
  BY <1>1, <1>2, <1>3
<1> QED
  BY <1>2, <1>4

LEMMA CountsAre ==
    ASSUME FifoTypes
    PROVE  \A s \in RequestIds :
             /\ got.answer[s] \in Nat /\ got.flag[s] \in Nat /\ got.large[s] \in Nat
             /\ lost.answer[s] \in Nat /\ lost.large[s] \in Nat
             /\ Count(requests, WorkOf(s)) \in Nat
             /\ Count(completions, AnswerOf(s)) \in Nat /\ Count(traverses, AnswerOf(s)) \in Nat
             /\ Count(completions, FlagOf(s)) \in Nat /\ Count(traverses, FlagOf(s)) \in Nat
             /\ Count(larges, LargeOf(s)) \in Nat
<1> TAKE s \in RequestIds
<1>1. /\ got.answer[s] \in Nat /\ got.flag[s] \in Nat /\ got.large[s] \in Nat
      /\ lost.answer[s] \in Nat /\ lost.large[s] \in Nat
  BY DEF FifoTypes, Counts
<1>2. /\ requests \in Seq(Works \cup Pills) /\ completions \in Seq(Results)
      /\ traverses \in Seq(Results) /\ larges \in Seq(LargeNodes)
  BY DEF FifoTypes
<1> QED
  BY <1>1, <1>2, CountIs

LEMMA ResultIs ==
    ASSUME FifoTypes, NEW f \in Fibers, fiber[f].req \in RequestIds, NEW status \in Statuses
    PROVE  /\ Result(f, status) \in Results /\ Result(f, status).r = fiber[f].req
           /\ Result(f, status).status = status
           /\ \A s : /\ Result(f, status) \in AnswerOf(s)
                         <=> fiber[f].req = s /\ status # "more"
                     /\ Result(f, status) \in FlagOf(s) <=> fiber[f].req = s /\ fiber[f].large
<1>1. fiber[f].large \in BOOLEAN
  BY DEF FifoTypes, FiberStates
<1>2. /\ Result(f, status) \in Results /\ Result(f, status).r = fiber[f].req
      /\ Result(f, status).status = status /\ Result(f, status).large = fiber[f].large
  BY <1>1 DEF Result, Results
<1> QED
  BY <1>2 DEF AnswerOf, FlagOf

\* The sum of two counts of which one grows
LEMMA OneMore ==
    ASSUME NEW a \in Nat, NEW b \in Nat, NEW c
    PROVE  One(c) \in Nat /\ (a + One(c)) + b = a + b + One(c) /\ a + (b + One(c)) = a + b + One(c)
  BY DEF One

LEMMA PostLargeIs ==
    ASSUME FifoTypes, ControlInv, FiberInv, NEW f \in Fibers, PostLargeValue(f)
    PROVE  /\ FifoTypes' /\ ControlInv' /\ FiberInv' /\ Kept(f)
           /\ fiber[f].at = "large" /\ fiber'[f].at \in {"more", "answer"}
           /\ fiber'[f].at = "more" <=> fiber[f].left > 0
           /\ fiber'[f].req = fiber[f].req /\ fiber[f].req \in RequestIds
           /\ lost'.answer = lost.answer
           /\ \A s \in RequestIds :
                Count(larges', LargeOf(s)) + lost'.large[s]
                  = Count(larges, LargeOf(s)) + lost.large[s] + One(s = fiber[f].req)
<1> DEFINE at == IF fiber[f].left > 0 THEN "more" ELSE "answer"
           r == fiber[f].req
<1>1. at \in {"more", "answer"} /\ at \in Places /\ (at = "more" <=> fiber[f].left > 0)
  BY DEF Places
<1>2. FiberTo(f, at) /\ fiber[f].at = "large" /\ r \in RequestIds
  BY DEF PostLargeValue, FiberInv, Busy
<1> HIDE DEF at
<1>3. /\ fiber' \in [Fibers -> FiberStates] /\ Kept(f) /\ fiber'[f].at = at
      /\ fiber'[f].req = r /\ fiber'[f].left = fiber[f].left
  BY <1>1, <1>2, FiberToStep DEF Kept
<1>4. HoldsRight(fiber'[f])
  BY <1>1, <1>2, <1>3 DEF HoldsRight
<1>5. larges \in Seq(LargeNodes) /\ LargeNode(r) \in LargeNodes
      /\ lost \in [answer : Counts, large : Counts] /\ failures \in Nat
  BY <1>2, LargeNodeIs DEF FifoTypes
<1>6. /\ larges' \in Seq(LargeNodes) /\ lost' \in [answer : Counts, large : Counts]
      /\ failures' \in Nat /\ lost'.answer = lost.answer
      /\ \A s \in RequestIds :
           Count(larges', LargeOf(s)) + lost'.large[s]
             = Count(larges, LargeOf(s)) + lost.large[s] + One(s = r)
  <2>1. CASE larges' = Append(larges, LargeNode(r)) /\ UNCHANGED <<lost, failures>>
    <3>1. \A s \in RequestIds : LargeNode(r) \in LargeOf(s) <=> s = r
      BY <1>2, LargeNodeIs
    <3>2. \A s \in RequestIds : Count(larges', LargeOf(s)) = Count(larges, LargeOf(s)) + One(s = r)
      BY <2>1, <1>5, <3>1, CountAppend DEF One
    <3>3. larges' \in Seq(LargeNodes)
      BY <2>1, <1>5
    <3>4. \A s \in RequestIds :
            Count(larges', LargeOf(s)) + lost'.large[s]
              = Count(larges, LargeOf(s)) + lost.large[s] + One(s = r)
      <4> TAKE s \in RequestIds
      <4>1. Count(larges, LargeOf(s)) \in Nat /\ lost.large[s] \in Nat /\ lost' = lost
        BY <2>1, CountsAre
      <4>2. Count(larges', LargeOf(s)) = Count(larges, LargeOf(s)) + One(s = r)
        BY <3>2
      <4> QED
        BY <4>1, <4>2, OneMore
    <3> QED
      BY <2>1, <1>5, <3>2, <3>3, <3>4, CountsAre
  <2>2. CASE Fails /\ UNCHANGED larges /\ lost' = [lost EXCEPT !.large = Bump(@, r)]
    <3>1. /\ lost' \in [answer : Counts, large : Counts] /\ lost'.answer = lost.answer
          /\ \A s \in RequestIds : lost'.large[s] = lost.large[s] + One(s = r)
      BY <2>2, <1>2, LoseLarge
    <3>2. failures' \in Nat
      BY <2>2, <1>5 DEF Fails
    <3>3. \A s \in RequestIds :
            Count(larges', LargeOf(s)) + lost'.large[s]
              = Count(larges, LargeOf(s)) + lost.large[s] + One(s = r)
      <4> TAKE s \in RequestIds
      <4>1. Count(larges, LargeOf(s)) \in Nat /\ lost.large[s] \in Nat /\ larges' = larges
        BY <2>2, CountsAre
      <4>2. lost'.large[s] = lost.large[s] + One(s = r)
        BY <3>1
      <4> QED
        BY <4>1, <4>2, OneMore
    <3>4. larges' = larges
      BY <2>2
    <3> QED
      BY <1>5, <3>1, <3>2, <3>3, <3>4
  <2> QED
    BY <2>1, <2>2 DEF PostLargeValue
<1>7. FifoTypes'
  BY <1>3, <1>6 DEF FifoTypes, PostLargeValue, control
<1>8. ControlInv'
  BY <1>2, FiberControl DEF PostLargeValue
<1>9. FiberInv'
  BY <1>3, <1>4, FiberInvStep
<1> QED
  BY <1>1, <1>2, <1>3, <1>6, <1>7, <1>8, <1>9

LEMMA PostCompletionIs ==
    ASSUME FifoTypes, ControlInv, FiberInv, NEW f \in Fibers, PostCompletion(f)
    PROVE  /\ FifoTypes' /\ ControlInv' /\ FiberInv' /\ Kept(f)
           /\ fiber[f].at = "answer" /\ fiber'[f].at \notin Busy /\ fiber[f].req \in RequestIds
           /\ lost'.large = lost.large
           /\ completions' \in {completions, Append(completions, Result(f, "found"))}
           /\ \A s \in RequestIds :
                /\ Count(completions', AnswerOf(s)) + lost'.answer[s]
                     = Count(completions, AnswerOf(s)) + lost.answer[s] + One(s = fiber[f].req)
                /\ Count(completions', FlagOf(s))
                     <= Count(completions, FlagOf(s)) + One(s = fiber[f].req /\ fiber[f].large)
<1> DEFINE r == fiber[f].req
           e == Result(f, "found")
<1>1. Release(f, "loop") /\ fiber[f].at = "answer" /\ r \in RequestIds
  BY DEF PostCompletion, FiberInv, Busy
<1>2. fiber' \in [Fibers -> FiberStates] /\ Kept(f) /\ fiber'[f].at = "loop"
  BY <1>1, ReleaseStep DEF Kept
<1>3. HoldsRight(fiber'[f])
  BY <1>2 DEF HoldsRight, Busy
<1>4. /\ e \in Results
      /\ \A s \in RequestIds : /\ e \in AnswerOf(s) <=> s = r
                               /\ e \in FlagOf(s) <=> s = r /\ fiber[f].large
  BY <1>1, ResultIs DEF Statuses
<1>5. /\ completions \in Seq(Results) /\ failures \in Nat
      /\ lost \in [answer : Counts, large : Counts]
  BY DEF FifoTypes
<1>6. \/ completions' = Append(completions, e) /\ UNCHANGED <<lost, failures>>
      \/ Fails /\ UNCHANGED completions /\ lost' = [lost EXCEPT !.answer = Bump(@, r)]
  BY DEF PostCompletion
<1> HIDE DEF e
<1>7. /\ completions' \in Seq(Results) /\ lost' \in [answer : Counts, large : Counts]
      /\ failures' \in Nat /\ lost'.large = lost.large
      /\ completions' \in {completions, Append(completions, e)}
      /\ \A s \in RequestIds :
           /\ Count(completions', AnswerOf(s)) + lost'.answer[s]
                = Count(completions, AnswerOf(s)) + lost.answer[s] + One(s = r)
           /\ Count(completions', FlagOf(s))
                <= Count(completions, FlagOf(s)) + One(s = r /\ fiber[f].large)
  <2>1. CASE completions' = Append(completions, e) /\ UNCHANGED <<lost, failures>>
    <3>1. \A s \in RequestIds :
            /\ Count(completions', AnswerOf(s)) = Count(completions, AnswerOf(s)) + One(s = r)
            /\ Count(completions', FlagOf(s))
                 = Count(completions, FlagOf(s)) + One(s = r /\ fiber[f].large)
      BY <2>1, <1>4, <1>5, CountAppend DEF One
    <3>2. completions' \in Seq(Results)
      BY <2>1, <1>4, <1>5
    <3>4. \A s \in RequestIds :
            Count(completions', AnswerOf(s)) + lost'.answer[s]
              = Count(completions, AnswerOf(s)) + lost.answer[s] + One(s = r)
      <4> TAKE s \in RequestIds
      <4>1. Count(completions, AnswerOf(s)) \in Nat /\ lost.answer[s] \in Nat /\ lost' = lost
        BY <2>1, CountsAre
      <4>2. Count(completions', AnswerOf(s)) = Count(completions, AnswerOf(s)) + One(s = r)
        BY <3>1
      <4> QED
        BY <4>1, <4>2, OneMore
    <3>5. \A s \in RequestIds :
            Count(completions', FlagOf(s))
              <= Count(completions, FlagOf(s)) + One(s = r /\ fiber[f].large)
      BY <3>1, CountsAre DEF One
    <3> QED
      BY <2>1, <1>5, <3>1, <3>2, <3>4, <3>5
  <2>2. CASE Fails /\ UNCHANGED completions /\ lost' = [lost EXCEPT !.answer = Bump(@, r)]
    <3>1. /\ lost' \in [answer : Counts, large : Counts] /\ lost'.large = lost.large
          /\ \A s \in RequestIds : lost'.answer[s] = lost.answer[s] + One(s = r)
      BY <2>2, <1>1, LoseAnswer
    <3>2. failures' \in Nat
      BY <2>2, <1>5 DEF Fails
    <3>3. \A s \in RequestIds :
            Count(completions', AnswerOf(s)) + lost'.answer[s]
              = Count(completions, AnswerOf(s)) + lost.answer[s] + One(s = r)
      <4> TAKE s \in RequestIds
      <4>1. Count(completions, AnswerOf(s)) \in Nat /\ lost.answer[s] \in Nat /\ completions' = completions
        BY <2>2, CountsAre
      <4>2. lost'.answer[s] = lost.answer[s] + One(s = r)
        BY <3>1
      <4> QED
        BY <4>1, <4>2, OneMore
    <3>4. completions' = completions
      BY <2>2
    <3>5. \A s \in RequestIds :
            Count(completions', FlagOf(s))
              <= Count(completions, FlagOf(s)) + One(s = r /\ fiber[f].large)
      BY <3>4, CountsAre DEF One
    <3> QED
      BY <1>5, <3>1, <3>2, <3>3, <3>4, <3>5
  <2> QED
    BY <1>6, <2>1, <2>2
<1>8. FifoTypes'
  BY <1>2, <1>7 DEF FifoTypes, PostCompletion, control
<1>9. ControlInv'
  BY <1>1, FiberControl DEF PostCompletion
<1>10. FiberInv'
  BY <1>2, <1>3, FiberInvStep
<1> QED
  BY <1>1, <1>2, <1>7, <1>8, <1>9, <1>10 DEF Busy, e

LEMMA PostEndIs ==
    ASSUME FifoTypes, ControlInv, FiberInv, NEW f \in Fibers, PostEnd(f)
    PROVE  /\ FifoTypes' /\ ControlInv' /\ FiberInv' /\ Kept(f)
           /\ fiber[f].at = "nodes" /\ fiber'[f].at \notin Busy /\ fiber[f].req \in RequestIds
           /\ lost'.large = lost.large
           /\ traverses' \in {traverses, Append(traverses, Result(f, "end"))}
           /\ \A s \in RequestIds :
                /\ Count(traverses', AnswerOf(s)) + lost'.answer[s]
                     = Count(traverses, AnswerOf(s)) + lost.answer[s] + One(s = fiber[f].req)
                /\ Count(traverses', FlagOf(s)) = Count(traverses, FlagOf(s))
<1> DEFINE r == fiber[f].req
           e == Result(f, "end")
<1>1. Release(f, "loop") /\ fiber[f].at = "nodes" /\ r \in RequestIds /\ ~fiber[f].large
  BY DEF PostEnd, FiberInv, Busy
<1>2. fiber' \in [Fibers -> FiberStates] /\ Kept(f) /\ fiber'[f].at = "loop"
  BY <1>1, ReleaseStep DEF Kept
<1>3. HoldsRight(fiber'[f])
  BY <1>2 DEF HoldsRight, Busy
<1>4. /\ e \in Results
      /\ \A s \in RequestIds : (e \in AnswerOf(s) <=> s = r) /\ e \notin FlagOf(s)
  BY <1>1, ResultIs DEF Statuses
<1>5. /\ traverses \in Seq(Results) /\ failures \in Nat
      /\ lost \in [answer : Counts, large : Counts]
  BY DEF FifoTypes
<1>6. \/ traverses' = Append(traverses, e) /\ UNCHANGED <<lost, failures>>
      \/ Fails /\ UNCHANGED traverses /\ lost' = [lost EXCEPT !.answer = Bump(@, r)]
  BY DEF PostEnd
<1> HIDE DEF e
<1>7. /\ traverses' \in Seq(Results) /\ lost' \in [answer : Counts, large : Counts]
      /\ failures' \in Nat /\ lost'.large = lost.large
      /\ traverses' \in {traverses, Append(traverses, e)}
      /\ \A s \in RequestIds :
           /\ Count(traverses', AnswerOf(s)) + lost'.answer[s]
                = Count(traverses, AnswerOf(s)) + lost.answer[s] + One(s = r)
           /\ Count(traverses', FlagOf(s)) = Count(traverses, FlagOf(s))
  <2>1. CASE traverses' = Append(traverses, e) /\ UNCHANGED <<lost, failures>>
    <3>1. \A s \in RequestIds :
            /\ Count(traverses', AnswerOf(s)) = Count(traverses, AnswerOf(s)) + One(s = r)
            /\ Count(traverses', FlagOf(s)) = Count(traverses, FlagOf(s)) + 0
      BY <2>1, <1>4, <1>5, CountAppend DEF One
    <3>2. traverses' \in Seq(Results)
      BY <2>1, <1>4, <1>5
    <3>4. \A s \in RequestIds :
            Count(traverses', AnswerOf(s)) + lost'.answer[s]
              = Count(traverses, AnswerOf(s)) + lost.answer[s] + One(s = r)
      <4> TAKE s \in RequestIds
      <4>1. Count(traverses, AnswerOf(s)) \in Nat /\ lost.answer[s] \in Nat /\ lost' = lost
        BY <2>1, CountsAre
      <4>2. Count(traverses', AnswerOf(s)) = Count(traverses, AnswerOf(s)) + One(s = r)
        BY <3>1
      <4> QED
        BY <4>1, <4>2, OneMore
    <3> QED
      BY <2>1, <1>5, <3>1, <3>2, <3>4, CountsAre
  <2>2. CASE Fails /\ UNCHANGED traverses /\ lost' = [lost EXCEPT !.answer = Bump(@, r)]
    <3>1. /\ lost' \in [answer : Counts, large : Counts] /\ lost'.large = lost.large
          /\ \A s \in RequestIds : lost'.answer[s] = lost.answer[s] + One(s = r)
      BY <2>2, <1>1, LoseAnswer
    <3>2. failures' \in Nat
      BY <2>2, <1>5 DEF Fails
    <3>3. \A s \in RequestIds :
            Count(traverses', AnswerOf(s)) + lost'.answer[s]
              = Count(traverses, AnswerOf(s)) + lost.answer[s] + One(s = r)
      <4> TAKE s \in RequestIds
      <4>1. Count(traverses, AnswerOf(s)) \in Nat /\ lost.answer[s] \in Nat /\ traverses' = traverses
        BY <2>2, CountsAre
      <4>2. lost'.answer[s] = lost.answer[s] + One(s = r)
        BY <3>1
      <4> QED
        BY <4>1, <4>2, OneMore
    <3>4. traverses' = traverses
      BY <2>2
    <3> QED
      BY <1>5, <3>1, <3>2, <3>3, <3>4
  <2> QED
    BY <1>6, <2>1, <2>2
<1>8. FifoTypes'
  BY <1>2, <1>7 DEF FifoTypes, PostEnd, control
<1>9. ControlInv'
  BY <1>1, FiberControl DEF PostEnd
<1>10. FiberInv'
  BY <1>2, <1>3, FiberInvStep
<1> QED
  BY <1>1, <1>2, <1>7, <1>8, <1>9, <1>10 DEF Busy, e

LEMMA PostMoreIs ==
    ASSUME FifoTypes, ControlInv, FiberInv, NEW f \in Fibers, PostMore(f)
    PROVE  /\ FifoTypes' /\ ControlInv' /\ FiberInv' /\ Kept(f)
           /\ fiber[f].at = "more" /\ fiber'[f].at = "nodes"
           /\ fiber'[f].req = fiber[f].req /\ fiber[f].req \in RequestIds
           /\ traverses' \in {traverses, Append(traverses, Result(f, "more"))}
           /\ \A s \in RequestIds :
                /\ Count(traverses', AnswerOf(s)) = Count(traverses, AnswerOf(s))
                /\ Count(traverses', FlagOf(s))
                     <= Count(traverses, FlagOf(s)) + One(s = fiber[f].req /\ fiber[f].large)
<1> DEFINE r == fiber[f].req
           e == Result(f, "more")
           x == [fiber[f] EXCEPT !.at = "nodes", !.left = @ - 1, !.large = FALSE]
<1>1. /\ fiber[f] \in FiberStates /\ fiber[f].at = "more" /\ r \in RequestIds
      /\ fiber[f].left > 0
  BY DEF PostMore, FiberInv, Busy, FifoTypes
<1>2. fiber[f].left - 1 \in 0 .. MaxNodes
  BY <1>1, FifoAssumption DEF FiberStates
<1>3. x \in FiberStates /\ x.at = "nodes" /\ x.req = r /\ x.large = FALSE
  BY <1>1, <1>2 DEF FiberStates, Places
<1>4. fiber' = [fiber EXCEPT ![f] = x]
  BY DEF PostMore
<1> HIDE DEF x
<1>5. fiber' \in [Fibers -> FiberStates] /\ Kept(f) /\ fiber'[f] = x
  BY <1>3, <1>4, FiberStep DEF Kept
<1>6. HoldsRight(fiber'[f])
  BY <1>1, <1>3, <1>5 DEF HoldsRight
<1>7. /\ e \in Results
      /\ \A s \in RequestIds : e \notin AnswerOf(s) /\ (e \in FlagOf(s) <=> s = r /\ fiber[f].large)
  BY <1>1, ResultIs DEF Statuses
<1>8. traverses \in Seq(Results) /\ failures \in Nat
  BY DEF FifoTypes
<1>9. \/ traverses' = Append(traverses, e) /\ UNCHANGED failures
      \/ Fails /\ UNCHANGED traverses
  BY DEF PostMore
<1> HIDE DEF e
<1>10. /\ traverses' \in Seq(Results) /\ failures' \in Nat
       /\ traverses' \in {traverses, Append(traverses, e)}
       /\ \A s \in RequestIds :
            /\ Count(traverses', AnswerOf(s)) = Count(traverses, AnswerOf(s))
            /\ Count(traverses', FlagOf(s))
                 <= Count(traverses, FlagOf(s)) + One(s = r /\ fiber[f].large)
  <2>1. CASE traverses' = Append(traverses, e) /\ UNCHANGED failures
    <3>1. \A s \in RequestIds :
            /\ Count(traverses', AnswerOf(s)) = Count(traverses, AnswerOf(s)) + 0
            /\ Count(traverses', FlagOf(s))
                 = Count(traverses, FlagOf(s)) + One(s = r /\ fiber[f].large)
      BY <2>1, <1>7, <1>8, CountAppend DEF One
    <3>2. traverses' \in Seq(Results)
      BY <2>1, <1>7, <1>8
    <3> QED
      BY <2>1, <1>8, <3>1, <3>2, CountsAre DEF One
  <2>2. CASE Fails /\ UNCHANGED traverses
    BY <2>2, <1>8, CountsAre DEF One, Fails
  <2> QED
    BY <1>9, <2>1, <2>2
<1>11. FifoTypes'
  BY <1>5, <1>10 DEF FifoTypes, PostMore, control
<1>12. ControlInv'
  BY <1>1, FiberControl DEF PostMore
<1>13. FiberInv'
  BY <1>5, <1>6, FiberInvStep
<1> QED
  BY <1>1, <1>3, <1>5, <1>10, <1>11, <1>12, <1>13 DEF e

----------------------------------------------------------------------------
\* Every request is in one place

Tally(r) ==
    Count(requests, WorkOf(r)) + Held(r) + Count(completions, AnswerOf(r))
      + Count(traverses, AnswerOf(r)) + got.answer[r] + lost.answer[r]

LEMMA TallyIs ==
    ASSUME FifoTypes, NEW r \in RequestIds
    PROVE  Total(r) = Tally(r) /\ Tally(r) \in Nat
<1>1. Waiting(r) = Count(requests, WorkOf(r))
  BY WorkCount DEF FifoTypes, Waiting
<1>2. In(completions, r, IsAnswer) = Count(completions, AnswerOf(r))
  BY AnswerCount DEF FifoTypes
<1>3. In(traverses, r, IsAnswer) = Count(traverses, AnswerOf(r))
  BY AnswerCount DEF FifoTypes
<1>4. Total(r) = Waiting(r) + Held(r) + (In(completions, r, IsAnswer) + In(traverses, r, IsAnswer)
                                         + got.answer[r]) + lost.answer[r]
  BY DEF Total, Answers
<1>5. /\ Count(requests, WorkOf(r)) \in Nat /\ Held(r) \in Nat
      /\ Count(completions, AnswerOf(r)) \in Nat /\ Count(traverses, AnswerOf(r)) \in Nat
      /\ got.answer[r] \in Nat /\ lost.answer[r] \in Nat
  BY CountsAre, HeldIs
<1> QED
  BY <1>1, <1>2, <1>3, <1>4, <1>5 DEF Tally

LEMMA CountsAreNext ==
    ASSUME FifoTypes', NEW s \in RequestIds
    PROVE  /\ got'.answer[s] \in Nat /\ got'.flag[s] \in Nat /\ got'.large[s] \in Nat
           /\ lost'.answer[s] \in Nat /\ lost'.large[s] \in Nat
           /\ Count(requests', WorkOf(s)) \in Nat
           /\ Count(completions', AnswerOf(s)) \in Nat /\ Count(traverses', AnswerOf(s)) \in Nat
           /\ Count(completions', FlagOf(s)) \in Nat /\ Count(traverses', FlagOf(s)) \in Nat
           /\ Count(larges', LargeOf(s)) \in Nat
<1>1. /\ got'.answer[s] \in Nat /\ got'.flag[s] \in Nat /\ got'.large[s] \in Nat
      /\ lost'.answer[s] \in Nat /\ lost'.large[s] \in Nat
  BY DEF FifoTypes, Counts
<1>2. /\ requests' \in Seq(Works \cup Pills) /\ completions' \in Seq(Results)
      /\ traverses' \in Seq(Results) /\ larges' \in Seq(LargeNodes)
  BY DEF FifoTypes
<1> QED
  BY <1>1, <1>2, CountIs

LEMMA TallyIsNext ==
    ASSUME FifoTypes', NEW r \in RequestIds
    PROVE  Total(r)' = Tally(r)' /\ Tally(r)' \in Nat
<1>1. Waiting(r)' = Count(requests', WorkOf(r))
  BY WorkCount DEF FifoTypes, Waiting
<1>2. In(completions, r, IsAnswer)' = Count(completions', AnswerOf(r))
  BY AnswerCount DEF FifoTypes
<1>3. In(traverses, r, IsAnswer)' = Count(traverses', AnswerOf(r))
  BY AnswerCount DEF FifoTypes
<1>4. Total(r)' = Waiting(r)' + Held(r)'
                    + (In(completions, r, IsAnswer)' + In(traverses, r, IsAnswer)'
                       + got'.answer[r]) + lost'.answer[r]
  BY DEF Total, Answers
<1>5. /\ Count(requests', WorkOf(r)) \in Nat /\ Held(r)' \in Nat
      /\ Count(completions', AnswerOf(r)) \in Nat /\ Count(traverses', AnswerOf(r)) \in Nat
      /\ got'.answer[r] \in Nat /\ lost'.answer[r] \in Nat
  BY CountsAreNext, HeldIsNext
<1> QED
  BY <1>1, <1>2, <1>3, <1>4, <1>5 DEF Tally

\* A step that moves requests between places, and makes as many as it adds to submitted
LEMMA CountStep ==
    ASSUME FifoTypes, FifoTypes', CountInv,
           \A r \in RequestIds : Tally(r)' + One(r \in submitted) = Tally(r) + One(r \in submitted')
    PROVE  CountInv'
<1> SUFFICES ASSUME NEW r \in RequestIds PROVE Total(r)' = One(r \in submitted')
  BY DEF CountInv, One
<1>1. Total(r) = One(r \in submitted)
  BY DEF CountInv, One
<1>2. Total(r) = Tally(r) /\ Tally(r) \in Nat
  BY TallyIs
<1>3. Total(r)' = Tally(r)' /\ Tally(r)' \in Nat
  BY TallyIsNext
<1>4. Tally(r)' + One(r \in submitted) = Tally(r) + One(r \in submitted')
  OBVIOUS
<1> QED
  BY <1>1, <1>2, <1>3, <1>4 DEF One

\* The same, with the changes of the places one by one
LEMMA CountMoves ==
    ASSUME FifoTypes, FifoTypes', CountInv, UNCHANGED submitted,
           \A r \in RequestIds :
             Count(requests', WorkOf(r)) + Held(r)' + Count(completions', AnswerOf(r))
                 + Count(traverses', AnswerOf(r)) + got'.answer[r] + lost'.answer[r]
               = Count(requests, WorkOf(r)) + Held(r) + Count(completions, AnswerOf(r))
                   + Count(traverses, AnswerOf(r)) + got.answer[r] + lost.answer[r]
    PROVE  CountInv'
<1> SUFFICES ASSUME NEW r \in RequestIds
             PROVE  Tally(r)' + One(r \in submitted) = Tally(r) + One(r \in submitted')
  BY CountStep
<1>1. Tally(r)' = Tally(r)
  BY DEF Tally
<1> QED
  BY <1>1

LEMMA SubmitCount ==
    ASSUME FifoTypes, CountInv, NEW r \in RequestIds, NEW type \in {"find", "traverse"},
           Submit(r, type)
    PROVE  CountInv'
<1>1. FifoTypes'
  BY SubmitTypes
<1> SUFFICES ASSUME NEW s \in RequestIds
             PROVE  Tally(s)' + One(s \in submitted) = Tally(s) + One(s \in submitted')
  BY <1>1, CountStep
<1>2. One(s \in submitted') = One(s \in submitted) + One(s = r)
  BY DEF Submit, One
<1>3. Held(s)' = Held(s)
  BY DEF Submit, Held
<1>4. Count(requests', WorkOf(s)) + lost'.answer[s]
        = Count(requests, WorkOf(s)) + lost.answer[s] + One(s = r)
  <2>1. Count(requests, WorkOf(s)) \in Nat /\ lost.answer[s] \in Nat
    BY CountsAre
  <2>2. CASE requests' = Append(requests, NewRequest(r, type)) /\ UNCHANGED <<lost, failures>>
    <3>1. requests \in Seq(Works \cup Pills) /\ NewRequest(r, type) \in Works \cup Pills
      BY WorkIs DEF FifoTypes
    <3>2. NewRequest(r, type) \in WorkOf(s) <=> s = r
      BY WorkIs
    <3>3. Count(requests', WorkOf(s)) = Count(requests, WorkOf(s)) + One(s = r)
      BY <2>2, <3>1, <3>2, CountAppend DEF One
    <3>4. lost' = lost
      BY <2>2
    <3> QED
      BY <2>1, <3>3, <3>4, OneMore
  <2>3. CASE UNCHANGED requests /\ lost' = [lost EXCEPT !.answer = Bump(@, r)]
    <3>1. lost'.answer[s] = lost.answer[s] + One(s = r)
      BY <2>3, LoseAnswer
    <3>2. requests' = requests
      BY <2>3
    <3> QED
      BY <2>1, <3>1, <3>2, OneMore
  <2> QED
    BY <2>2, <2>3 DEF Submit
<1>5. completions' = completions /\ traverses' = traverses /\ got' = got
  BY DEF Submit
<1>6. /\ Count(requests, WorkOf(s)) \in Nat /\ Held(s) \in Nat
      /\ Count(completions, AnswerOf(s)) \in Nat /\ Count(traverses, AnswerOf(s)) \in Nat
      /\ got.answer[s] \in Nat /\ lost.answer[s] \in Nat
      /\ Count(requests', WorkOf(s)) \in Nat /\ lost'.answer[s] \in Nat
  BY <1>1, CountsAre, CountsAreNext, HeldIs
<1>7. One(s = r) \in Nat /\ One(s \in submitted) \in Nat
  BY DEF One
<1>8. Tally(s)' = Tally(s) + One(s = r)
  BY <1>3, <1>4, <1>5, <1>6, <1>7 DEF Tally
<1>9. Tally(s) \in Nat
  BY TallyIs
<1> QED
  BY <1>2, <1>7, <1>8, <1>9

LEMMA PollCompletionCount ==
    ASSUME FifoTypes, CountInv, PollCompletion
    PROVE  CountInv'
<1>1. FifoTypes' /\ Head(completions) \in Results /\ got' = Learn(Head(completions))
  BY PollCompletionTypes
<1>2. /\ requests' = requests /\ traverses' = traverses /\ lost' = lost
      /\ submitted' = submitted /\ fiber' = fiber
  BY DEF PollCompletion
<1>3. completions \in Seq(Results) /\ completions # <<>> /\ completions' = Tail(completions)
  BY DEF PollCompletion, FifoTypes
<1>4. ASSUME NEW s \in RequestIds
      PROVE  Count(requests', WorkOf(s)) + Held(s)' + Count(completions', AnswerOf(s))
                 + Count(traverses', AnswerOf(s)) + got'.answer[s] + lost'.answer[s]
               = Count(requests, WorkOf(s)) + Held(s) + Count(completions, AnswerOf(s))
                   + Count(traverses, AnswerOf(s)) + got.answer[s] + lost.answer[s]
  <2> DEFINE k == One(Head(completions) \in AnswerOf(s))
  <2>1. k \in Nat
    BY DEF One
  <2>2. Count(completions, AnswerOf(s)) = Count(completions', AnswerOf(s)) + k
    BY <1>3, CountTail
  <2>3. got'.answer[s] = got.answer[s] + k
    BY <1>1, LearnIs
  <2>4. Held(s)' = Held(s)
    BY <1>2 DEF Held
  <2>5. /\ Count(requests, WorkOf(s)) \in Nat /\ Held(s) \in Nat
        /\ Count(completions, AnswerOf(s)) \in Nat /\ Count(traverses, AnswerOf(s)) \in Nat
        /\ got.answer[s] \in Nat /\ lost.answer[s] \in Nat
        /\ Count(completions', AnswerOf(s)) \in Nat
    BY <1>1, CountsAre, CountsAreNext, HeldIs
  <2> HIDE DEF k
  <2> QED
    BY <1>2, <2>1, <2>2, <2>3, <2>4, <2>5
<1> QED
  BY <1>1, <1>2, <1>4, CountMoves

LEMMA PollTraverseCount ==
    ASSUME FifoTypes, CountInv, PollTraverse
    PROVE  CountInv'
<1>1. FifoTypes' /\ Head(traverses) \in Results /\ got' = Learn(Head(traverses))
  BY PollTraverseTypes
<1>2. /\ requests' = requests /\ completions' = completions /\ lost' = lost
      /\ submitted' = submitted /\ fiber' = fiber
  BY DEF PollTraverse
<1>3. traverses \in Seq(Results) /\ traverses # <<>> /\ traverses' = Tail(traverses)
  BY DEF PollTraverse, FifoTypes
<1>4. ASSUME NEW s \in RequestIds
      PROVE  Count(requests', WorkOf(s)) + Held(s)' + Count(completions', AnswerOf(s))
                 + Count(traverses', AnswerOf(s)) + got'.answer[s] + lost'.answer[s]
               = Count(requests, WorkOf(s)) + Held(s) + Count(completions, AnswerOf(s))
                   + Count(traverses, AnswerOf(s)) + got.answer[s] + lost.answer[s]
  <2> DEFINE k == One(Head(traverses) \in AnswerOf(s))
  <2>1. k \in Nat
    BY DEF One
  <2>2. Count(traverses, AnswerOf(s)) = Count(traverses', AnswerOf(s)) + k
    BY <1>3, CountTail
  <2>3. got'.answer[s] = got.answer[s] + k
    BY <1>1, LearnIs
  <2>4. Held(s)' = Held(s)
    BY <1>2 DEF Held
  <2>5. /\ Count(requests, WorkOf(s)) \in Nat /\ Held(s) \in Nat
        /\ Count(completions, AnswerOf(s)) \in Nat /\ Count(traverses, AnswerOf(s)) \in Nat
        /\ got.answer[s] \in Nat /\ lost.answer[s] \in Nat
        /\ Count(traverses', AnswerOf(s)) \in Nat
    BY <1>1, CountsAre, CountsAreNext, HeldIs
  <2> HIDE DEF k
  <2> QED
    BY <1>2, <2>1, <2>2, <2>3, <2>4, <2>5
<1> QED
  BY <1>1, <1>2, <1>4, CountMoves

\* Steps that move no request
LEMMA QuietCount ==
    ASSUME FifoTypes, FifoTypes', CountInv, submitted' = submitted, completions' = completions,
           got'.answer = got.answer, lost'.answer = lost.answer,
           \A s \in RequestIds :
             /\ Count(requests', WorkOf(s)) = Count(requests, WorkOf(s))
             /\ Count(traverses', AnswerOf(s)) = Count(traverses, AnswerOf(s))
             /\ Held(s)' = Held(s)
    PROVE  CountInv'
<1> SUFFICES ASSUME NEW s \in RequestIds
             PROVE  Tally(s)' + One(s \in submitted) = Tally(s) + One(s \in submitted')
  BY CountStep
<1>1. Tally(s)' = Tally(s)
  BY DEF Tally
<1> QED
  BY <1>1

\* A fiber that holds the same request before and after, or none
LEMMA QuietFiber ==
    ASSUME FifoTypes, FifoTypes', NEW f \in Fibers, Kept(f),
           \/ fiber[f].at \notin Busy /\ fiber'[f].at \notin Busy
           \/ fiber[f].at \in Busy /\ fiber'[f].at \in Busy /\ fiber'[f].req = fiber[f].req
    PROVE  \A s \in RequestIds : Held(s)' = Held(s)
<1> TAKE s \in RequestIds
<1>1. Held(s)' + One(fiber[f].at \in Busy /\ fiber[f].req = s)
        = Held(s) + One(fiber'[f].at \in Busy /\ fiber'[f].req = s)
  BY HeldChange DEF Kept
<1>2. Held(s) \in Nat /\ Held(s)' \in Nat
  BY HeldIs, HeldIsNext
<1>3. One(fiber[f].at \in Busy /\ fiber[f].req = s) = One(fiber'[f].at \in Busy /\ fiber'[f].req = s)
  BY DEF One
<1>4. One(fiber[f].at \in Busy /\ fiber[f].req = s) \in Nat
  BY DEF One
<1> QED
  BY <1>1, <1>2, <1>3, <1>4

LEMMA QuietWorker ==
    ASSUME FifoTypes, FifoTypes', CountInv, NEW f \in Fibers, Kept(f),
           UNCHANGED <<submitted, requests, completions, traverses, got>>,
           lost'.answer = lost.answer,
           \/ fiber[f].at \notin Busy /\ fiber'[f].at \notin Busy
           \/ fiber[f].at \in Busy /\ fiber'[f].at \in Busy /\ fiber'[f].req = fiber[f].req
    PROVE  CountInv'
<1>1. \A s \in RequestIds : Held(s)' = Held(s)
  BY QuietFiber
<1> QED
  BY <1>1, QuietCount

LEMMA ControlCount ==
    ASSUME FifoTypes, ControlInv, CountInv, PollLargeValue \/ Controller
    PROVE  CountInv'
<1>1. CASE PollLargeValue
  <2>1. FifoTypes' /\ got'.answer = got.answer
    BY <1>1, PollLargeTypes
  <2>2. \A s : Held(s)' = Held(s)
    BY <1>1 DEF PollLargeValue, Held
  <2> QED
    BY <1>1, <2>1, <2>2, QuietCount DEF PollLargeValue
<1>2. ASSUME NEW n \in 0 .. MaxFibers, Start(n) PROVE CountInv'
  <2>1. FifoTypes' /\ \A f \in Fibers : fiber[f].at \notin Busy /\ fiber'[f].at \notin Busy
    BY <1>2, StartTypes
  <2>2. \A s : Holders(s) = {} /\ Holders(s)' = {}
    BY <2>1 DEF Holders
  <2>3. \A s \in RequestIds : Held(s)' = Held(s)
    BY <2>1, <2>2, HeldIs, HeldIsNext
  <2> QED
    BY <1>2, <2>1, <2>3, QuietCount DEF Start, queues
<1>3. ASSUME NEW drop \in BOOLEAN, Stop(drop) PROVE CountInv'
  <2>1. FifoTypes' /\ fiber' = fiber
    BY <1>3, StopTypes
  <2>2. \A s : Held(s)' = Held(s)
    BY <2>1 DEF Held
  <2> QED
    BY <1>3, <2>1, <2>2, QuietCount DEF Stop, queues
<1>4. CASE SendPill
  <2>1. FifoTypes' /\ fiber' = fiber
    BY <1>4, SendPillTypes
  <2>2. \A s : Held(s)' = Held(s)
    BY <2>1 DEF Held
  <2>3. \A s \in RequestIds : Count(requests', WorkOf(s)) = Count(requests, WorkOf(s))
    <3> TAKE s \in RequestIds
    <3>1. requests' = requests \/ requests' = Append(requests, [type |-> "shutdown"])
      BY <1>4 DEF SendPill
    <3>2. requests \in Seq(Works \cup Pills) /\ [type |-> "shutdown"] \in Works \cup Pills
      BY PillIs DEF FifoTypes
    <3>3. One([type |-> "shutdown"] \in WorkOf(s)) = 0
      BY PillIs DEF One
    <3>4. CASE requests' = Append(requests, [type |-> "shutdown"])
      <4>1. Count(requests', WorkOf(s))
              = Count(requests, WorkOf(s)) + One([type |-> "shutdown"] \in WorkOf(s))
        BY <3>2, <3>4, CountAppend
      <4>2. Count(requests, WorkOf(s)) \in Nat
        BY CountsAre
      <4> QED
        BY <3>3, <4>1, <4>2
    <3> QED
      BY <3>1, <3>4
  <2> QED
    BY <1>4, <2>1, <2>2, <2>3, QuietCount DEF SendPill
<1>5. CASE JoinWorkers
  <2>1. FifoTypes' /\ fiber' = fiber
    BY <1>5, JoinTypes
  <2>2. \A s : Held(s)' = Held(s)
    BY <2>1 DEF Held
  <2> QED
    BY <1>5, <2>1, <2>2, QuietCount DEF JoinWorkers, queues
<1>6. CASE Drop
  <2>1. FifoTypes' /\ fiber' = fiber
    BY <1>6, DropTypes
  <2>2. \A s : Held(s)' = Held(s)
    BY <2>1 DEF Held
  <2> QED
    BY <1>6, <2>1, <2>2, QuietCount DEF Drop, queues
<1> QED
  BY <1>1, <1>2, <1>3, <1>4, <1>5, <1>6 DEF Controller, Stopping

LEMMA DequeueCount ==
    ASSUME FifoTypes, ControlInv, FiberInv, CountInv, NEW f \in Fibers, Dequeue(f)
    PROVE  CountInv'
<1> DEFINE m == Head(requests)
<1>1. /\ FifoTypes' /\ Kept(f) /\ fiber[f].at \notin Busy /\ m \in Works \cup Pills
      /\ m \notin Works => fiber'[f].at \notin Busy
      /\ m \in Works => fiber'[f].at \in {"find", "traverse"} /\ fiber'[f].req = m.r
  BY DequeueIs
<1>2. /\ completions' = completions /\ traverses' = traverses /\ got' = got /\ lost' = lost
      /\ submitted' = submitted
  BY DEF Dequeue
<1>3. /\ requests \in Seq(Works \cup Pills) /\ requests # <<>> /\ requests' = Tail(requests)
  BY DEF Dequeue, FifoTypes
<1> HIDE DEF m
<1>4. ASSUME NEW s \in RequestIds
      PROVE  Count(requests', WorkOf(s)) + Held(s)' + Count(completions', AnswerOf(s))
                 + Count(traverses', AnswerOf(s)) + got'.answer[s] + lost'.answer[s]
               = Count(requests, WorkOf(s)) + Held(s) + Count(completions, AnswerOf(s))
                   + Count(traverses, AnswerOf(s)) + got.answer[s] + lost.answer[s]
  <2> DEFINE k == One(m \in WorkOf(s))
  <2>1. k \in Nat
    BY DEF One
  <2>2. Count(requests, WorkOf(s)) = Count(requests', WorkOf(s)) + k
    BY <1>3, CountTail DEF m
  <2>3. Held(s)' = Held(s) + k
    <3>1. Held(s)' + One(fiber[f].at \in Busy /\ fiber[f].req = s)
            = Held(s) + One(fiber'[f].at \in Busy /\ fiber'[f].req = s)
      BY <1>1, HeldChange DEF Kept
    <3>2. fiber'[f].at \in Busy /\ fiber'[f].req = s <=> m \in WorkOf(s)
      BY <1>1 DEF WorkOf, Busy
    <3>3. One(fiber[f].at \in Busy /\ fiber[f].req = s) = 0
      BY <1>1 DEF One
    <3>4. One(fiber'[f].at \in Busy /\ fiber'[f].req = s) = k
      BY <3>2 DEF One
    <3>5. Held(s)' \in Nat
      BY <1>1, HeldIsNext
    <3> QED
      BY <3>1, <3>3, <3>4, <3>5
  <2>4. /\ Count(requests, WorkOf(s)) \in Nat /\ Held(s) \in Nat
        /\ Count(completions, AnswerOf(s)) \in Nat /\ Count(traverses, AnswerOf(s)) \in Nat
        /\ got.answer[s] \in Nat /\ lost.answer[s] \in Nat
        /\ Count(requests', WorkOf(s)) \in Nat
    BY <1>1, CountsAre, CountsAreNext, HeldIs
  <2> HIDE DEF k
  <2> QED
    BY <1>2, <2>1, <2>2, <2>3, <2>4
<1> QED
  BY <1>1, <1>2, <1>4, CountMoves

\* A worker that posts the answer to its request
LEMMA ReleasedHeld ==
    ASSUME FifoTypes, FifoTypes', NEW f \in Fibers, Kept(f), NEW s,
           fiber[f].at \in Busy, fiber'[f].at \notin Busy
    PROVE  Held(s) = Held(s)' + One(s = fiber[f].req)
<1>1. Held(s)' + One(fiber[f].at \in Busy /\ fiber[f].req = s)
        = Held(s) + One(fiber'[f].at \in Busy /\ fiber'[f].req = s)
  BY HeldChange DEF Kept
<1>2. One(fiber'[f].at \in Busy /\ fiber'[f].req = s) = 0
  BY DEF One
<1>3. One(fiber[f].at \in Busy /\ fiber[f].req = s) = One(s = fiber[f].req)
  BY DEF One
<1>4. Held(s) \in Nat
  BY HeldIs
<1> QED
  BY <1>1, <1>2, <1>3, <1>4

LEMMA PostCompletionCount ==
    ASSUME FifoTypes, ControlInv, FiberInv, CountInv, NEW f \in Fibers, PostCompletion(f)
    PROVE  CountInv'
<1>1. /\ FifoTypes' /\ Kept(f) /\ fiber[f].at \in Busy /\ fiber'[f].at \notin Busy
      /\ \A s \in RequestIds :
           Count(completions', AnswerOf(s)) + lost'.answer[s]
             = Count(completions, AnswerOf(s)) + lost.answer[s] + One(s = fiber[f].req)
  BY PostCompletionIs DEF Busy
<1>2. requests' = requests /\ traverses' = traverses /\ got' = got /\ submitted' = submitted
  BY DEF PostCompletion
<1>3. ASSUME NEW s \in RequestIds
      PROVE  Count(requests', WorkOf(s)) + Held(s)' + Count(completions', AnswerOf(s))
                 + Count(traverses', AnswerOf(s)) + got'.answer[s] + lost'.answer[s]
               = Count(requests, WorkOf(s)) + Held(s) + Count(completions, AnswerOf(s))
                   + Count(traverses, AnswerOf(s)) + got.answer[s] + lost.answer[s]
  <2> DEFINE k == One(s = fiber[f].req)
  <2>1. k \in Nat
    BY DEF One
  <2>2. Held(s) = Held(s)' + k
    BY <1>1, ReleasedHeld
  <2>3. Count(completions', AnswerOf(s)) + lost'.answer[s]
          = Count(completions, AnswerOf(s)) + lost.answer[s] + k
    BY <1>1
  <2>4. /\ Count(requests, WorkOf(s)) \in Nat /\ Held(s)' \in Nat
        /\ Count(completions, AnswerOf(s)) \in Nat /\ Count(traverses, AnswerOf(s)) \in Nat
        /\ got.answer[s] \in Nat /\ lost.answer[s] \in Nat
        /\ Count(completions', AnswerOf(s)) \in Nat /\ lost'.answer[s] \in Nat
    BY <1>1, CountsAre, CountsAreNext, HeldIsNext
  <2> HIDE DEF k
  <2> QED
    BY <1>2, <2>1, <2>2, <2>3, <2>4
<1> QED
  BY <1>1, <1>2, <1>3, CountMoves

LEMMA PostEndCount ==
    ASSUME FifoTypes, ControlInv, FiberInv, CountInv, NEW f \in Fibers, PostEnd(f)
    PROVE  CountInv'
<1>1. /\ FifoTypes' /\ Kept(f) /\ fiber[f].at \in Busy /\ fiber'[f].at \notin Busy
      /\ \A s \in RequestIds :
           Count(traverses', AnswerOf(s)) + lost'.answer[s]
             = Count(traverses, AnswerOf(s)) + lost.answer[s] + One(s = fiber[f].req)
  BY PostEndIs DEF Busy
<1>2. requests' = requests /\ completions' = completions /\ got' = got /\ submitted' = submitted
  BY DEF PostEnd
<1>3. ASSUME NEW s \in RequestIds
      PROVE  Count(requests', WorkOf(s)) + Held(s)' + Count(completions', AnswerOf(s))
                 + Count(traverses', AnswerOf(s)) + got'.answer[s] + lost'.answer[s]
               = Count(requests, WorkOf(s)) + Held(s) + Count(completions, AnswerOf(s))
                   + Count(traverses, AnswerOf(s)) + got.answer[s] + lost.answer[s]
  <2> DEFINE k == One(s = fiber[f].req)
  <2>1. k \in Nat
    BY DEF One
  <2>2. Held(s) = Held(s)' + k
    BY <1>1, ReleasedHeld
  <2>3. Count(traverses', AnswerOf(s)) + lost'.answer[s]
          = Count(traverses, AnswerOf(s)) + lost.answer[s] + k
    BY <1>1
  <2>4. /\ Count(requests, WorkOf(s)) \in Nat /\ Held(s)' \in Nat
        /\ Count(completions, AnswerOf(s)) \in Nat /\ Count(traverses, AnswerOf(s)) \in Nat
        /\ got.answer[s] \in Nat /\ lost.answer[s] \in Nat
        /\ Count(traverses', AnswerOf(s)) \in Nat /\ lost'.answer[s] \in Nat
    BY <1>1, CountsAre, CountsAreNext, HeldIsNext
  <2> HIDE DEF k
  <2> QED
    BY <1>2, <2>1, <2>2, <2>3, <2>4
<1> QED
  BY <1>1, <1>2, <1>3, CountMoves

LEMMA WorkerCount ==
    ASSUME FifoTypes, ControlInv, FiberInv, CountInv, NEW f \in Fibers, Worker(f)
    PROVE  CountInv'
<1>1. CASE ReadRunning(f)
  BY <1>1, ReadRunningIs, QuietWorker DEF ReadRunning, queues
<1>2. CASE Yield(f)
  BY <1>2, YieldIs, QuietWorker DEF Yield, queues
<1>3. CASE Dequeue(f)
  BY <1>3, DequeueCount
<1>4. CASE Find(f)
  BY <1>4, FindIs, QuietWorker DEF Find, queues, Busy
<1>5. CASE Traverse(f)
  BY <1>5, TraverseIs, QuietWorker DEF Traverse, queues, Busy
<1>6. CASE SendNode(f)
  BY <1>6, SendNodeIs, QuietWorker DEF SendNode, queues, Busy
<1>7. CASE PostLargeValue(f)
  BY <1>7, PostLargeIs, QuietWorker DEF PostLargeValue, Busy
<1>8. CASE PostCompletion(f)
  BY <1>8, PostCompletionCount
<1>9. CASE PostMore(f)
  <2>1. /\ FifoTypes' /\ Kept(f) /\ fiber[f].at \in Busy /\ fiber'[f].at \in Busy
        /\ fiber'[f].req = fiber[f].req
        /\ \A s \in RequestIds : Count(traverses', AnswerOf(s)) = Count(traverses, AnswerOf(s))
    BY <1>9, PostMoreIs DEF Busy
  <2>2. \A s \in RequestIds : Held(s)' = Held(s)
    BY <2>1, QuietFiber
  <2>3. /\ submitted' = submitted /\ requests' = requests /\ completions' = completions
        /\ got' = got /\ lost' = lost
    BY <1>9 DEF PostMore
  <2> QED
    BY <2>1, <2>2, <2>3, QuietCount
<1>10. CASE PostEnd(f)
  BY <1>10, PostEndCount
<1> QED
  BY <1>1, <1>2, <1>3, <1>4, <1>5, <1>6, <1>7, <1>8, <1>9, <1>10 DEF Worker

----------------------------------------------------------------------------
\* The order of results

\* The request a worker holds is nowhere else.
LEMMA Sole ==
    ASSUME FifoTypes, CountInv, NEW f \in Fibers, fiber[f].at \in Busy,
           NEW r \in RequestIds, fiber[f].req = r
    PROVE  /\ r \in submitted /\ got.answer[r] = 0
           /\ \A j \in DOMAIN requests : requests[j].type # "shutdown" => requests[j].r # r
           /\ \A j \in DOMAIN completions : completions[j].status # "more" => completions[j].r # r
           /\ \A j \in DOMAIN traverses : traverses[j].status # "more" => traverses[j].r # r
           /\ \A g \in Fibers \ {f} : ~(fiber[g].at \in Busy /\ fiber[g].req = r)
<1>1. Held(r) = Cardinality(Holders(r)) /\ Holders(r) \in SUBSET Fibers /\ Held(r) \in Nat
  BY HeldIs
<1>2. IsFiniteSet(Holders(r)) /\ f \in Holders(r)
  BY <1>1, FibersFinite, FS_Subset DEF Holders
<1>3. Held(r) # 0
  BY <1>1, <1>2, FS_EmptySet
<1>4. Total(r) = One(r \in submitted) /\ Total(r) = Tally(r)
  BY TallyIs DEF CountInv, One
<1>5. /\ Count(requests, WorkOf(r)) \in Nat /\ Count(completions, AnswerOf(r)) \in Nat
      /\ Count(traverses, AnswerOf(r)) \in Nat /\ got.answer[r] \in Nat /\ lost.answer[r] \in Nat
  BY CountsAre
<1>6. One(r \in submitted) \in {0, 1} /\ (One(r \in submitted) = 1 => r \in submitted)
  BY DEF One
<1>7. /\ Held(r) = 1 /\ Count(requests, WorkOf(r)) = 0 /\ Count(completions, AnswerOf(r)) = 0
      /\ Count(traverses, AnswerOf(r)) = 0 /\ got.answer[r] = 0 /\ r \in submitted
  BY <1>1, <1>3, <1>4, <1>5, <1>6 DEF Tally
<1>8. PICK x : Holders(r) = {x}
  BY <1>1, <1>2, <1>7, FS_Singleton
<1>9. \A g \in Fibers \ {f} : ~(fiber[g].at \in Busy /\ fiber[g].req = r)
  <2> TAKE g \in Fibers \ {f}
  <2>1. g \notin Holders(r)
    BY <1>2, <1>8
  <2> QED
    BY <2>1 DEF Holders
<1>10. \A j \in DOMAIN requests : requests[j].type # "shutdown" => requests[j].r # r
  <2> SUFFICES ASSUME NEW j \in DOMAIN requests, requests[j].type # "shutdown",
                      requests[j].r = r
               PROVE  FALSE
    OBVIOUS
  <2>1. requests \in Seq(Works \cup Pills)
    BY DEF FifoTypes
  <2>2. requests[j] \in Works \cup Pills
    BY <2>1
  <2>3. requests[j] \in WorkOf(r)
    BY <2>2 DEF WorkOf, Works, Pills
  <2>4. Count(requests, WorkOf(r)) >= 1
    BY <2>1, <2>3, CountIs
  <2> QED
    BY <2>4, <1>7
<1>11. ASSUME NEW q \in Seq(Results), Count(q, AnswerOf(r)) = 0
       PROVE  \A j \in DOMAIN q : q[j].status # "more" => q[j].r # r
  <2> SUFFICES ASSUME NEW j \in DOMAIN q, q[j].status # "more", q[j].r = r PROVE FALSE
    OBVIOUS
  <2>1. q[j] \in AnswerOf(r)
    BY DEF AnswerOf
  <2>2. Count(q, AnswerOf(r)) >= 1
    BY <2>1, CountIs
  <2> QED
    BY <2>2, <1>11
<1>12. completions \in Seq(Results) /\ traverses \in Seq(Results)
  BY DEF FifoTypes
<1> QED
  BY <1>7, <1>9, <1>10, <1>11, <1>12

\* The entries of a queue after one was taken or added
LEMMA TailEntries ==
    ASSUME NEW A, NEW q \in Seq(A), q # <<>>
    PROVE  /\ DOMAIN Tail(q) \in SUBSET Nat /\ DOMAIN q \in SUBSET Nat
           /\ \A i \in DOMAIN Tail(q) : i + 1 \in DOMAIN q /\ i + 1 > 1 /\ Tail(q)[i] = q[i + 1]
           /\ 1 \in DOMAIN q /\ q[1] = Head(q)
  OBVIOUS

LEMMA AppendEntries ==
    ASSUME NEW A, NEW q \in Seq(A), NEW e \in A
    PROVE  /\ DOMAIN Append(q, e) \in SUBSET Nat /\ DOMAIN q \in SUBSET Nat
           /\ \A i \in DOMAIN Append(q, e) :
                \/ i \in DOMAIN q /\ Append(q, e)[i] = q[i]
                \/ i = Len(q) + 1 /\ Append(q, e)[i] = e
           /\ \A i \in DOMAIN q : i <= Len(q)
  OBVIOUS

OrderInv == TraverseInv /\ CompletionInv /\ EndInv

\* An entry of the queue of traversals stays one of a traversal: the fibers but one hold
\* what they held, and that one does not leave a traversal it holds but for good.
LEMMA EntryKept ==
    ASSUME FifoTypes, NEW c \in Results, OfTraversal(c), NEW f \in Fibers, Kept(f),
           submitted' = submitted, got'.answer[c.r] = 0,
           \A j \in DOMAIN requests' : requests'[j].type # "shutdown" => requests'[j].r # c.r,
           \A j \in DOMAIN completions' : completions'[j].r # c.r,
           fiber'[f].at \in Busy /\ fiber'[f].req = c.r => Traversing(f)'
    PROVE  OfTraversal(c)'
<1>1. \A g \in Fibers : fiber'[g].at \in Busy /\ fiber'[g].req = c.r => Traversing(g)'
  BY DEF OfTraversal, Kept, Traversing
<1> QED
  BY <1>1 DEF OfTraversal

LEMMA EntriesFrom ==
    ASSUME \A i \in DOMAIN traverses' : \A c : c = traverses'[i] => OfTraversal(c)'
    PROVE  TraverseInv'
  BY DEF TraverseInv, OfTraversal, Traversing

LEMMA SubmitOrder ==
    ASSUME FifoTypes, OrderInv, NEW r \in RequestIds, NEW type \in {"find", "traverse"},
           Submit(r, type)
    PROVE  OrderInv'
<1>1. /\ completions' = completions /\ traverses' = traverses /\ got' = got /\ fiber' = fiber
      /\ r \notin submitted /\ submitted \subseteq submitted'
  BY DEF Submit
<1>2. requests \in Seq(Works \cup Pills) /\ NewRequest(r, type) \in Works \cup Pills
      /\ NewRequest(r, type).r = r
  BY WorkIs DEF FifoTypes, NewRequest
<1>3. requests' = requests \/ requests' = Append(requests, NewRequest(r, type))
  BY DEF Submit
<1>4. \A j \in DOMAIN requests' : \/ \E k \in DOMAIN requests : requests'[j] = requests[k]
                                  \/ requests'[j].r = r
  BY <1>2, <1>3, AppendEntries
<1>5. ASSUME NEW i \in DOMAIN traverses, NEW c, c = traverses[i] PROVE OfTraversal(c)'
  <2>1. OfTraversal(c)
    BY <1>5 DEF OrderInv, TraverseInv
  <2>2. c.r # r
    BY <1>1, <2>1 DEF OfTraversal
  <2>3. \A j \in DOMAIN requests' : requests'[j].type # "shutdown" => requests'[j].r # c.r
    BY <1>4, <2>1, <2>2 DEF OfTraversal
  <2> QED
    BY <1>1, <2>1, <2>3 DEF OfTraversal, Traversing
<1>6. TraverseInv'
  BY <1>1, <1>5, EntriesFrom
<1> QED
  BY <1>1, <1>6 DEF OrderInv, CompletionInv, EndInv

LEMMA PollCompletionOrder ==
    ASSUME FifoTypes, OrderInv, PollCompletion
    PROVE  OrderInv'
<1> DEFINE e == Head(completions)
<1>1. e \in Results /\ got' = Learn(e)
  BY PollCompletionTypes
<1>2. /\ requests' = requests /\ traverses' = traverses /\ fiber' = fiber
      /\ submitted' = submitted
  BY DEF PollCompletion
<1>3. completions \in Seq(Results) /\ completions # <<>> /\ completions' = Tail(completions)
  BY DEF PollCompletion, FifoTypes
<1>4. \A j \in DOMAIN completions' : \E k \in DOMAIN completions : completions'[j] = completions[k]
  BY <1>3, TailEntries
<1>5. \E k \in DOMAIN completions : e = completions[k]
  BY <1>3, TailEntries
<1> HIDE DEF e
<1>6. ASSUME NEW i \in DOMAIN traverses, NEW c, c = traverses[i] PROVE OfTraversal(c)'
  <2>1. OfTraversal(c) /\ c \in Results
    BY <1>6 DEF OrderInv, TraverseInv, FifoTypes
  <2>2. c.r \in RequestIds /\ e.r # c.r
    BY <1>5, <2>1 DEF OfTraversal, Results
  <2>3. got'.answer[c.r] = got.answer[c.r] + One(e \in AnswerOf(c.r))
    BY <1>1, <2>2, LearnIs
  <2>4. One(e \in AnswerOf(c.r)) = 0
    BY <2>2 DEF AnswerOf, One
  <2>5. got'.answer[c.r] = 0
    BY <2>1, <2>3, <2>4 DEF OfTraversal
  <2>6. \A j \in DOMAIN completions' : completions'[j].r # c.r
    BY <1>4, <2>1 DEF OfTraversal
  <2> QED
    BY <1>2, <2>1, <2>5, <2>6 DEF OfTraversal, Traversing
<1>7. TraverseInv'
  BY <1>2, <1>6, EntriesFrom
<1>8. CompletionInv'
  BY <1>4 DEF OrderInv, CompletionInv
<1> QED
  BY <1>2, <1>7, <1>8 DEF OrderInv, EndInv

LEMMA PollTraverseOrder ==
    ASSUME FifoTypes, OrderInv, PollTraverse
    PROVE  OrderInv'
<1> DEFINE e == Head(traverses)
<1>1. e \in Results /\ got' = Learn(e)
  BY PollTraverseTypes
<1>2. /\ requests' = requests /\ completions' = completions /\ fiber' = fiber
      /\ submitted' = submitted
  BY DEF PollTraverse
<1>3. traverses \in Seq(Results) /\ traverses # <<>> /\ traverses' = Tail(traverses)
  BY DEF PollTraverse, FifoTypes
<1>4. /\ DOMAIN traverses' \in SUBSET Nat /\ DOMAIN traverses \in SUBSET Nat
      /\ \A i \in DOMAIN traverses' :
           i + 1 \in DOMAIN traverses /\ i + 1 > 1 /\ traverses'[i] = traverses[i + 1]
      /\ 1 \in DOMAIN traverses /\ traverses[1] = e
  BY <1>3, TailEntries
<1> HIDE DEF e
<1>5. e.status = "end" \/ e.status = "more"
  <2>1. OfTraversal(e)
    BY <1>4 DEF OrderInv, TraverseInv
  <2> QED
    BY <1>1, <2>1 DEF OfTraversal, Results, Statuses
<1>6. ASSUME NEW i \in DOMAIN traverses', NEW c, c = traverses'[i] PROVE OfTraversal(c)'
  <2>1. i + 1 \in DOMAIN traverses /\ i + 1 > 1 /\ c = traverses[i + 1]
    BY <1>4, <1>6
  <2>2. OfTraversal(c) /\ c \in Results
    BY <2>1 DEF OrderInv, TraverseInv, FifoTypes
  <2>3. e \notin AnswerOf(c.r)
    <3>1. e.status = "end" => c.r # e.r
      BY <1>4, <2>1 DEF OrderInv, EndInv
    <3> QED
      BY <1>5, <3>1 DEF AnswerOf
  <2>4. c.r \in RequestIds
    BY <2>2 DEF Results
  <2>5. got'.answer[c.r] = got.answer[c.r] + One(e \in AnswerOf(c.r))
    BY <1>1, <2>4, LearnIs
  <2>6. got'.answer[c.r] = 0
    BY <2>2, <2>3, <2>5 DEF OfTraversal, One
  <2> QED
    BY <1>2, <2>1, <2>2, <2>6 DEF OfTraversal, Traversing
<1>7. EndInv'
  <2> SUFFICES ASSUME NEW i \in DOMAIN traverses', NEW j \in DOMAIN traverses', i < j,
                      traverses'[i].status = "end"
               PROVE  traverses'[j].r # traverses'[i].r
    BY DEF EndInv
  <2>1. i + 1 < j + 1 /\ i + 1 \in DOMAIN traverses /\ j + 1 \in DOMAIN traverses
    BY <1>4
  <2> QED
    BY <1>4, <2>1 DEF OrderInv, EndInv
<1>8. TraverseInv'
  BY <1>6, EntriesFrom
<1> QED
  BY <1>2, <1>7, <1>8 DEF OrderInv, CompletionInv

\* Steps that post no result: what a worker that holds a request had to do with it before.
LEMMA QuietOrder ==
    ASSUME FifoTypes, OrderInv, traverses' = traverses, completions' = completions,
           submitted' = submitted, got'.answer = got.answer,
           \A j \in DOMAIN requests' : \/ \E k \in DOMAIN requests : requests'[j] = requests[k]
                                       \/ requests'[j].type = "shutdown",
           \A g \in Fibers : fiber'[g].at \in Busy =>
               \/ fiber'[g] = fiber[g]
               \/ \A c : OfTraversal(c) /\ fiber'[g].req = c.r => Traversing(g)'
    PROVE  OrderInv'
<1>1. ASSUME NEW i \in DOMAIN traverses, NEW c, c = traverses[i] PROVE OfTraversal(c)'
  <2>1. OfTraversal(c)
    BY <1>1 DEF OrderInv, TraverseInv
  <2>2. \A j \in DOMAIN requests' : requests'[j].type # "shutdown" => requests'[j].r # c.r
    BY <2>1 DEF OfTraversal
  <2>3. \A g \in Fibers : fiber'[g].at \in Busy /\ fiber'[g].req = c.r => Traversing(g)'
    <3> SUFFICES ASSUME NEW g \in Fibers, fiber'[g].at \in Busy, fiber'[g].req = c.r
                 PROVE  Traversing(g)'
      OBVIOUS
    <3>1. CASE fiber'[g] = fiber[g]
      BY <2>1, <3>1 DEF OfTraversal, Traversing
    <3> QED
      BY <2>1, <3>1
  <2> QED
    BY <2>1, <2>2, <2>3 DEF OfTraversal
<1>2. TraverseInv'
  BY <1>1, EntriesFrom
<1> QED
  BY <1>2 DEF OrderInv, CompletionInv, EndInv

LEMMA ControlOrder ==
    ASSUME FifoTypes, ControlInv, OrderInv, PollLargeValue \/ Controller
    PROVE  OrderInv'
<1>1. CASE PollLargeValue
  <2>1. got'.answer = got.answer
    BY <1>1, PollLargeTypes
  <2>2. /\ traverses' = traverses /\ completions' = completions /\ submitted' = submitted
        /\ requests' = requests /\ fiber' = fiber
    BY <1>1 DEF PollLargeValue
  <2> QED
    BY <2>1, <2>2, QuietOrder
<1>2. ASSUME NEW n \in 0 .. MaxFibers, Start(n) PROVE OrderInv'
  <2>1. \A f \in Fibers : fiber'[f].at \notin Busy
    BY <1>2, StartTypes
  <2>2. /\ traverses' = traverses /\ completions' = completions /\ submitted' = submitted
        /\ requests' = requests /\ got' = got
    BY <1>2 DEF Start, queues
  <2> QED
    BY <2>1, <2>2, QuietOrder
<1>3. CASE (\E drop \in BOOLEAN : Stop(drop)) \/ JoinWorkers \/ Drop
  <2>1. /\ traverses' = traverses /\ completions' = completions /\ submitted' = submitted
        /\ requests' = requests /\ got' = got /\ fiber' = fiber
    BY <1>3 DEF Stop, JoinWorkers, Drop, queues
  <2> QED
    BY <2>1, QuietOrder
<1>4. CASE SendPill
  <2>1. /\ traverses' = traverses /\ completions' = completions /\ submitted' = submitted
        /\ got' = got /\ fiber' = fiber
    BY <1>4 DEF SendPill
  <2>2. requests \in Seq(Works \cup Pills) /\ [type |-> "shutdown"] \in Works \cup Pills
    BY PillIs DEF FifoTypes
  <2>3. requests' = requests \/ requests' = Append(requests, [type |-> "shutdown"])
    BY <1>4 DEF SendPill
  <2>4. \A j \in DOMAIN requests' : \/ \E k \in DOMAIN requests : requests'[j] = requests[k]
                                    \/ requests'[j].type = "shutdown"
    <3>1. CASE requests' = requests
      BY <3>1
    <3>2. CASE requests' = Append(requests, [type |-> "shutdown"])
      <4> DEFINE e == [type |-> "shutdown"]
      <4>1. e.type = "shutdown" /\ e \in Works \cup Pills /\ requests' = Append(requests, e)
        BY <2>2, <3>2
      <4> HIDE DEF e
      <4> QED
        BY <2>2, <4>1, AppendEntries
    <3> QED
      BY <2>3, <3>1, <3>2
  <2> QED
    BY <2>1, <2>4, QuietOrder
<1> QED
  BY <1>1, <1>2, <1>3, <1>4 DEF Controller, Stopping

\* A worker that posts no result
LEMMA SilentWorker ==
    ASSUME FifoTypes, OrderInv, NEW f \in Fibers, Kept(f),
           UNCHANGED <<traverses, completions, submitted, got, requests>>,
           \A c : OfTraversal(c) /\ fiber'[f].at \in Busy /\ fiber'[f].req = c.r => Traversing(f)'
    PROVE  OrderInv'
  BY QuietOrder DEF Kept

LEMMA DequeueOrder ==
    ASSUME FifoTypes, ControlInv, FiberInv, OrderInv, NEW f \in Fibers, Dequeue(f)
    PROVE  OrderInv'
<1> DEFINE m == Head(requests)
<1>1. /\ Kept(f) /\ m \in Works \cup Pills
      /\ m \notin Works => fiber'[f].at \notin Busy
      /\ m \in Works => fiber'[f].at \in {"find", "traverse"} /\ fiber'[f].req = m.r
  BY DequeueIs
<1>2. /\ completions' = completions /\ traverses' = traverses /\ got' = got
      /\ submitted' = submitted
  BY DEF Dequeue
<1>3. /\ requests \in Seq(Works \cup Pills) /\ requests # <<>> /\ requests' = Tail(requests)
  BY DEF Dequeue, FifoTypes
<1>4. /\ \A j \in DOMAIN requests' : \E k \in DOMAIN requests : requests'[j] = requests[k]
      /\ 1 \in DOMAIN requests /\ requests[1] = m
  BY <1>3, TailEntries
<1> HIDE DEF m
<1>5. ASSUME NEW c, OfTraversal(c), fiber'[f].at \in Busy PROVE fiber'[f].req # c.r
  <2>1. m \in Works
    BY <1>1, <1>5
  <2>2. m.type # "shutdown"
    BY <2>1 DEF Works
  <2>3. m.r # c.r
    BY <1>4, <1>5, <2>2 DEF OfTraversal
  <2> QED
    BY <1>1, <2>1, <2>3
<1>6. \A g \in Fibers : fiber'[g].at \in Busy =>
               \/ fiber'[g] = fiber[g]
               \/ \A c : OfTraversal(c) /\ fiber'[g].req = c.r => Traversing(g)'
  BY <1>1, <1>5 DEF Kept
<1> QED
  BY <1>2, <1>4, <1>6, QuietOrder

LEMMA PostCompletionOrder ==
    ASSUME FifoTypes, ControlInv, FiberInv, OrderInv, NEW f \in Fibers, PostCompletion(f)
    PROVE  OrderInv'
<1> DEFINE e == Result(f, "found")
<1>1. /\ Kept(f) /\ fiber[f].at = "answer" /\ fiber'[f].at \notin Busy /\ fiber[f].req \in RequestIds
      /\ completions' \in {completions, Append(completions, e)}
  BY PostCompletionIs
<1>2. requests' = requests /\ traverses' = traverses /\ got' = got /\ submitted' = submitted
  BY DEF PostCompletion
<1>3. e \in Results /\ e.r = fiber[f].req /\ e.status = "found"
  BY <1>1, ResultIs DEF Statuses
<1>4. completions \in Seq(Results)
  BY DEF FifoTypes
<1> HIDE DEF e
<1>5. \A j \in DOMAIN completions' :
        completions'[j] = e \/ \E k \in DOMAIN completions : completions'[j] = completions[k]
  BY <1>1, <1>3, <1>4, AppendEntries
<1>6. ASSUME NEW i \in DOMAIN traverses, NEW c, c = traverses[i] PROVE OfTraversal(c)'
  <2>1. OfTraversal(c) /\ c \in Results
    BY <1>6 DEF OrderInv, TraverseInv, FifoTypes
  <2>2. e.r # c.r
    BY <1>1, <1>3, <2>1 DEF OfTraversal, Traversing, Busy
  <2>3. \A j \in DOMAIN completions' : completions'[j].r # c.r
    BY <1>5, <2>1, <2>2 DEF OfTraversal
  <2>4. \A j \in DOMAIN requests : requests[j].type # "shutdown" => requests[j].r # c.r
    BY <2>1 DEF OfTraversal
  <2>5. got'.answer[c.r] = 0
    BY <1>2, <2>1 DEF OfTraversal
  <2> QED
    BY <1>1, <1>2, <2>1, <2>3, <2>4, <2>5, EntryKept
<1>7. TraverseInv'
  BY <1>2, <1>6, EntriesFrom
<1>8. CompletionInv'
  BY <1>3, <1>5 DEF OrderInv, CompletionInv
<1> QED
  BY <1>2, <1>7, <1>8 DEF OrderInv, EndInv

\* A worker that posts a result of its traversal
LEMMA PostTraverseOrder ==
    ASSUME FifoTypes, FiberInv, CountInv, OrderInv, NEW f \in Fibers, Kept(f),
           fiber[f].at \in Busy, fiber[f].req \in RequestIds,
           UNCHANGED <<requests, completions, got, submitted>>,
           fiber'[f].at \in Busy => fiber'[f].at = "nodes" /\ fiber'[f].req = fiber[f].req,
           NEW status \in {"more", "end"},
           traverses' \in {traverses, Append(traverses, Result(f, status))}
    PROVE  OrderInv'
<1> DEFINE e == Result(f, status)
           r == fiber[f].req
<1>1. e \in Results /\ e.r = r /\ e.status = status
  BY ResultIs DEF Statuses
<1>2. traverses \in Seq(Results)
  BY DEF FifoTypes
<1>3. /\ r \in submitted /\ got.answer[r] = 0
      /\ \A j \in DOMAIN requests : requests[j].type # "shutdown" => requests[j].r # r
      /\ \A j \in DOMAIN completions : completions[j].status # "more" => completions[j].r # r
      /\ \A j \in DOMAIN traverses : traverses[j].status # "more" => traverses[j].r # r
      /\ \A g \in Fibers \ {f} : ~(fiber[g].at \in Busy /\ fiber[g].req = r)
  BY Sole
<1>4. traverses' \in {traverses, Append(traverses, e)}
  OBVIOUS
<1> HIDE DEF e
<1>5. /\ DOMAIN traverses' \in SUBSET Nat /\ DOMAIN traverses \in SUBSET Nat
      /\ \A i \in DOMAIN traverses' :
           \/ i \in DOMAIN traverses /\ traverses'[i] = traverses[i]
           \/ i = Len(traverses) + 1 /\ traverses'[i] = e
      /\ \A i \in DOMAIN traverses : i <= Len(traverses)
      /\ Len(traverses) \in Nat
  BY <1>1, <1>2, <1>4, AppendEntries
<1>6. fiber'[f].at \in Busy => Traversing(f)'
  BY DEF Traversing
<1>7. ASSUME NEW i \in DOMAIN traverses, NEW c, c = traverses[i] PROVE OfTraversal(c)'
  <2>1. OfTraversal(c) /\ c \in Results
    BY <1>7 DEF OrderInv, TraverseInv, FifoTypes
  <2>2. \A j \in DOMAIN requests' : requests'[j].type # "shutdown" => requests'[j].r # c.r
    BY <2>1 DEF OfTraversal
  <2>3. \A j \in DOMAIN completions' : completions'[j].r # c.r
    BY <2>1 DEF OfTraversal
  <2>4. got'.answer[c.r] = 0
    BY <2>1 DEF OfTraversal
  <2> QED
    BY <1>6, <2>1, <2>2, <2>3, <2>4, EntryKept
<1>8. ASSUME NEW c, c = e PROVE OfTraversal(c)'
  <2>1. c.r = r /\ c.status # "found"
    BY <1>1, <1>8
  <2>2. \A j \in DOMAIN completions : completions[j].r # r
    BY <1>3 DEF OrderInv, CompletionInv
  <2>3. \A g \in Fibers : fiber'[g].at \in Busy /\ fiber'[g].req = r => Traversing(g)'
    BY <1>3, <1>6 DEF Kept
  <2> HIDE DEF r
  <2> QED
    BY <1>3, <2>1, <2>2, <2>3 DEF OfTraversal
<1>9. TraverseInv'
  BY <1>5, <1>7, <1>8, EntriesFrom
<1>10. EndInv'
  <2> SUFFICES ASSUME NEW i \in DOMAIN traverses', NEW j \in DOMAIN traverses', i < j,
                      traverses'[i].status = "end"
               PROVE  traverses'[j].r # traverses'[i].r
    BY DEF EndInv
  <2>1. i \in DOMAIN traverses /\ traverses'[i] = traverses[i]
    BY <1>5
  <2>2. CASE j \in DOMAIN traverses /\ traverses'[j] = traverses[j]
    BY <2>1, <2>2 DEF OrderInv, EndInv
  <2>3. CASE traverses'[j] = e
    BY <1>1, <1>3, <2>1, <2>3
  <2> QED
    BY <1>5, <2>2, <2>3
<1> QED
  BY <1>9, <1>10 DEF OrderInv, CompletionInv

LEMMA WorkerOrder ==
    ASSUME FifoTypes, ControlInv, FiberInv, CountInv, OrderInv, NEW f \in Fibers, Worker(f)
    PROVE  OrderInv'
<1>1. CASE ReadRunning(f)
  BY <1>1, ReadRunningIs, SilentWorker DEF ReadRunning, queues
<1>2. CASE Yield(f)
  BY <1>2, YieldIs, SilentWorker DEF Yield, queues
<1>3. CASE Dequeue(f)
  BY <1>3, DequeueOrder
<1>4. CASE Find(f)
  <2>1. Kept(f) /\ fiber[f].at = "find" /\ fiber'[f].req = fiber[f].req
    BY <1>4, FindIs
  <2>2. \A c : OfTraversal(c) => fiber'[f].req # c.r
    BY <2>1 DEF OfTraversal, Traversing, Busy
  <2>3. UNCHANGED <<traverses, completions, submitted, got, requests>>
    BY <1>4 DEF Find, queues
  <2> QED
    BY <2>1, <2>2, <2>3, SilentWorker
<1>5. CASE Traverse(f)
  <2>1. Kept(f) /\ Traversing(f)'
    BY <1>5, TraverseIs DEF Traversing
  <2>2. UNCHANGED <<traverses, completions, submitted, got, requests>>
    BY <1>5 DEF Traverse, queues
  <2> QED
    BY <2>1, <2>2, SilentWorker
<1>6. CASE SendNode(f)
  <2>1. Kept(f) /\ Traversing(f)'
    BY <1>6, SendNodeIs DEF Traversing
  <2>2. UNCHANGED <<traverses, completions, submitted, got, requests>>
    BY <1>6 DEF SendNode, queues
  <2> QED
    BY <2>1, <2>2, SilentWorker
<1>7. CASE PostLargeValue(f)
  <2>1. /\ Kept(f) /\ fiber[f].at = "large" /\ fiber'[f].req = fiber[f].req
        /\ fiber[f].left > 0 => fiber'[f].at = "more"
    BY <1>7, PostLargeIs
  <2>2. \A c : OfTraversal(c) /\ fiber'[f].req = c.r => Traversing(f)'
    BY <2>1 DEF OfTraversal, Traversing, Busy
  <2>3. UNCHANGED <<traverses, completions, submitted, got, requests>>
    BY <1>7 DEF PostLargeValue
  <2> QED
    BY <2>1, <2>2, <2>3, SilentWorker
<1>8. CASE PostCompletion(f)
  BY <1>8, PostCompletionOrder
<1>9. CASE PostMore(f)
  <2>1. /\ Kept(f) /\ fiber[f].at = "more" /\ fiber'[f].at = "nodes"
        /\ fiber'[f].req = fiber[f].req /\ fiber[f].req \in RequestIds
        /\ traverses' \in {traverses, Append(traverses, Result(f, "more"))}
    BY <1>9, PostMoreIs
  <2>2. UNCHANGED <<requests, completions, got, submitted>>
    BY <1>9 DEF PostMore
  <2>3. fiber[f].at \in Busy
    BY <2>1 DEF Busy
  <2> QED
    BY <2>1, <2>2, <2>3, PostTraverseOrder
<1>10. CASE PostEnd(f)
  <2>1. /\ Kept(f) /\ fiber[f].at = "nodes" /\ fiber'[f].at \notin Busy
        /\ fiber[f].req \in RequestIds
        /\ traverses' \in {traverses, Append(traverses, Result(f, "end"))}
    BY <1>10, PostEndIs
  <2>2. UNCHANGED <<requests, completions, got, submitted>>
    BY <1>10 DEF PostEnd
  <2>3. fiber[f].at \in Busy
    BY <2>1 DEF Busy
  <2> QED
    BY <2>1, <2>2, <2>3, PostTraverseOrder
<1> QED
  BY <1>1, <1>2, <1>3, <1>4, <1>5, <1>6, <1>7, <1>8, <1>9, <1>10 DEF Worker

----------------------------------------------------------------------------
\* A large value is there before it is announced

Flags(r) ==
    Count(completions, FlagOf(r)) + Count(traverses, FlagOf(r)) + got.flag[r]
      + Cardinality(Announcing(r))
Larges(r) == Count(larges, LargeOf(r)) + got.large[r] + lost.large[r]

Announces(x, r) == x.at \in {"more", "answer"} /\ x.large /\ x.req = r

LEMMA AnnouncingFinite ==
    ASSUME NEW r
    PROVE  /\ Announcing(r) \in SUBSET Fibers /\ Cardinality(Announcing(r)) \in Nat
           /\ Announcing(r)' \in SUBSET Fibers /\ Cardinality(Announcing(r)') \in Nat
<1>1. Announcing(r) \in SUBSET Fibers /\ Announcing(r)' \in SUBSET Fibers
  BY DEF Announcing
<1> QED
  BY <1>1, FibersFinite, FS_Subset, FS_CardinalityType

LEMMA AnnouncingChange ==
    ASSUME NEW f \in Fibers, NEW r, Kept(f)
    PROVE  Cardinality(Announcing(r)') + One(Announces(fiber[f], r))
             = Cardinality(Announcing(r)) + One(Announces(fiber'[f], r))
<1>1. Announcing(r) \in SUBSET Fibers /\ Announcing(r)' \in SUBSET Fibers
  BY AnnouncingFinite
<1>2. \A y \in Fibers \ {f} : y \in Announcing(r) <=> y \in Announcing(r)'
  BY DEF Announcing, Kept
<1>3. Cardinality(Announcing(r)') + One(f \in Announcing(r))
        = Cardinality(Announcing(r)) + One(f \in Announcing(r)')
  BY <1>1, <1>2, FibersFinite, CardChange
<1>4. /\ f \in Announcing(r) <=> Announces(fiber[f], r)
      /\ f \in Announcing(r)' <=> Announces(fiber'[f], r)
  BY DEF Announcing, Announces
<1> QED
  BY <1>3, <1>4 DEF One

LEMMA FlagsAre ==
    ASSUME FifoTypes, NEW r \in RequestIds
    PROVE  /\ In(completions, r, IsFlagged) + In(traverses, r, IsFlagged) + got.flag[r]
                + Cardinality(Announcing(r)) = Flags(r)
           /\ Cardinality({i \in DOMAIN larges : larges[i].r = r}) + got.large[r] + lost.large[r]
                = Larges(r)
           /\ Flags(r) \in Nat /\ Larges(r) \in Nat
<1>1. In(completions, r, IsFlagged) = Count(completions, FlagOf(r))
  BY FlagCount DEF FifoTypes
<1>2. In(traverses, r, IsFlagged) = Count(traverses, FlagOf(r))
  BY FlagCount DEF FifoTypes
<1>3. Cardinality({i \in DOMAIN larges : larges[i].r = r}) = Count(larges, LargeOf(r))
  BY LargeCount DEF FifoTypes
<1>4. /\ Count(completions, FlagOf(r)) \in Nat /\ Count(traverses, FlagOf(r)) \in Nat
      /\ Count(larges, LargeOf(r)) \in Nat /\ got.flag[r] \in Nat /\ got.large[r] \in Nat
      /\ lost.large[r] \in Nat /\ Cardinality(Announcing(r)) \in Nat
  BY CountsAre, AnnouncingFinite
<1> QED
  BY <1>1, <1>2, <1>3, <1>4 DEF Flags, Larges

LEMMA FlagsAreNext ==
    ASSUME FifoTypes', NEW r \in RequestIds
    PROVE  /\ In(completions, r, IsFlagged)' + In(traverses, r, IsFlagged)' + got'.flag[r]
                + Cardinality(Announcing(r)') = Flags(r)'
           /\ Cardinality({i \in DOMAIN larges' : larges'[i].r = r}) + got'.large[r] + lost'.large[r]
                = Larges(r)'
           /\ Flags(r)' \in Nat /\ Larges(r)' \in Nat
<1>1. In(completions, r, IsFlagged)' = Count(completions', FlagOf(r))
  BY FlagCount DEF FifoTypes
<1>2. In(traverses, r, IsFlagged)' = Count(traverses', FlagOf(r))
  BY FlagCount DEF FifoTypes
<1>3. Cardinality({i \in DOMAIN larges' : larges'[i].r = r}) = Count(larges', LargeOf(r))
  BY LargeCount DEF FifoTypes
<1>4. /\ Count(completions', FlagOf(r)) \in Nat /\ Count(traverses', FlagOf(r)) \in Nat
      /\ Count(larges', LargeOf(r)) \in Nat /\ got'.flag[r] \in Nat /\ got'.large[r] \in Nat
      /\ lost'.large[r] \in Nat /\ Cardinality(Announcing(r)') \in Nat
  BY CountsAreNext, AnnouncingFinite
<1> QED
  BY <1>1, <1>2, <1>3, <1>4 DEF Flags, Larges

\* A step that adds no more announcements than large values
LEMMA LargeStep ==
    ASSUME FifoTypes, FifoTypes', LargeInv,
           \A r \in RequestIds : Flags(r)' + Larges(r) <= Flags(r) + Larges(r)'
    PROVE  LargeInv'
<1> SUFFICES ASSUME NEW r \in RequestIds
             PROVE  In(completions, r, IsFlagged)' + In(traverses, r, IsFlagged)' + got'.flag[r]
                        + Cardinality(Announcing(r)')
                      <= Cardinality({i \in DOMAIN larges' : larges'[i].r = r}) + got'.large[r]
                           + lost'.large[r]
  BY DEF LargeInv
<1>1. Flags(r) <= Larges(r)
  BY FlagsAre DEF LargeInv
<1>2. Flags(r) \in Nat /\ Larges(r) \in Nat /\ Flags(r)' \in Nat /\ Larges(r)' \in Nat
  BY FlagsAre, FlagsAreNext
<1>3. Flags(r)' + Larges(r) <= Flags(r) + Larges(r)'
  OBVIOUS
<1>4. Flags(r)' <= Larges(r)'
  BY <1>1, <1>2, <1>3
<1> QED
  BY <1>4, FlagsAreNext

\* Steps that neither post nor poll
LEMMA QuietLarge ==
    ASSUME FifoTypes, FifoTypes', LargeInv, completions' = completions, traverses' = traverses,
           larges' = larges, got' = got, lost'.large = lost.large,
           \A r \in RequestIds : Cardinality(Announcing(r)') = Cardinality(Announcing(r))
    PROVE  LargeInv'
<1> SUFFICES ASSUME NEW r \in RequestIds
             PROVE  Flags(r)' + Larges(r) <= Flags(r) + Larges(r)'
  BY LargeStep
<1>1. Flags(r)' = Flags(r) /\ Larges(r)' = Larges(r)
  BY DEF Flags, Larges
<1>2. Flags(r) \in Nat /\ Larges(r) \in Nat
  BY FlagsAre
<1> QED
  BY <1>1, <1>2

LEMMA PollLarge ==
    ASSUME FifoTypes, LargeInv, PollCompletion \/ PollTraverse \/ PollLargeValue
    PROVE  LargeInv'
<1>1. FifoTypes'
  BY PollCompletionTypes, PollTraverseTypes, PollLargeTypes
<1>2. fiber' = fiber /\ lost' = lost
  BY DEF PollCompletion, PollTraverse, PollLargeValue
<1> SUFFICES ASSUME NEW r \in RequestIds
             PROVE  Flags(r)' + Larges(r) <= Flags(r) + Larges(r)'
  BY <1>1, LargeStep
<1>3. Announcing(r)' = Announcing(r)
  BY <1>2 DEF Announcing
<1>4. /\ Count(completions, FlagOf(r)) \in Nat /\ Count(traverses, FlagOf(r)) \in Nat
      /\ Count(larges, LargeOf(r)) \in Nat /\ got.flag[r] \in Nat /\ got.large[r] \in Nat
      /\ lost.large[r] \in Nat /\ Cardinality(Announcing(r)) \in Nat
      /\ Count(completions', FlagOf(r)) \in Nat /\ Count(traverses', FlagOf(r)) \in Nat
      /\ Count(larges', LargeOf(r)) \in Nat
  BY <1>1, CountsAre, CountsAreNext, AnnouncingFinite
<1>5. CASE PollCompletion
  <2> DEFINE k == One(Head(completions) \in FlagOf(r))
  <2>1. Head(completions) \in Results /\ got' = Learn(Head(completions))
    BY <1>5, PollCompletionTypes
  <2>2. got'.flag[r] = got.flag[r] + k /\ got'.large = got.large
    BY <2>1, LearnIs
  <2>3. completions \in Seq(Results) /\ completions # <<>> /\ completions' = Tail(completions)
    BY <1>5 DEF PollCompletion, FifoTypes
  <2>4. Count(completions, FlagOf(r)) = Count(completions', FlagOf(r)) + k
    BY <2>3, CountTail
  <2>5. traverses' = traverses /\ larges' = larges
    BY <1>5 DEF PollCompletion
  <2>6. k \in Nat
    BY DEF One
  <2> HIDE DEF k
  <2>7. Flags(r)' = Flags(r)
    BY <1>3, <1>4, <2>2, <2>4, <2>5, <2>6 DEF Flags
  <2>8. Larges(r)' = Larges(r)
    BY <1>2, <2>2, <2>5 DEF Larges
  <2>9. Flags(r) \in Nat /\ Larges(r) \in Nat
    BY FlagsAre
  <2> QED
    BY <2>7, <2>8, <2>9
<1>6. CASE PollTraverse
  <2> DEFINE k == One(Head(traverses) \in FlagOf(r))
  <2>1. Head(traverses) \in Results /\ got' = Learn(Head(traverses))
    BY <1>6, PollTraverseTypes
  <2>2. got'.flag[r] = got.flag[r] + k /\ got'.large = got.large
    BY <2>1, LearnIs
  <2>3. traverses \in Seq(Results) /\ traverses # <<>> /\ traverses' = Tail(traverses)
    BY <1>6 DEF PollTraverse, FifoTypes
  <2>4. Count(traverses, FlagOf(r)) = Count(traverses', FlagOf(r)) + k
    BY <2>3, CountTail
  <2>5. completions' = completions /\ larges' = larges
    BY <1>6 DEF PollTraverse
  <2>6. k \in Nat
    BY DEF One
  <2> HIDE DEF k
  <2>7. Flags(r)' = Flags(r)
    BY <1>3, <1>4, <2>2, <2>4, <2>5, <2>6 DEF Flags
  <2>8. Larges(r)' = Larges(r)
    BY <1>2, <2>2, <2>5 DEF Larges
  <2>9. Flags(r) \in Nat /\ Larges(r) \in Nat
    BY FlagsAre
  <2> QED
    BY <2>7, <2>8, <2>9
<1>7. CASE PollLargeValue
  <2> DEFINE k == One(Head(larges) \in LargeOf(r))
  <2>1. got'.flag = got.flag /\ got'.large[r] = got.large[r] + k
    BY <1>7, PollLargeTypes
  <2>2. larges \in Seq(LargeNodes) /\ larges # <<>> /\ larges' = Tail(larges)
    BY <1>7 DEF PollLargeValue, FifoTypes
  <2>3. Count(larges, LargeOf(r)) = Count(larges', LargeOf(r)) + k
    BY <2>2, CountTail
  <2>4. completions' = completions /\ traverses' = traverses
    BY <1>7 DEF PollLargeValue
  <2>5. k \in Nat
    BY DEF One
  <2> HIDE DEF k
  <2>6. Larges(r)' = Larges(r)
    BY <1>2, <1>4, <2>1, <2>3, <2>5 DEF Larges
  <2>7. Flags(r)' = Flags(r)
    BY <1>3, <2>1, <2>4 DEF Flags
  <2>8. Flags(r) \in Nat /\ Larges(r) \in Nat
    BY FlagsAre
  <2> QED
    BY <2>6, <2>7, <2>8
<1> QED
  BY <1>5, <1>6, <1>7

LEMMA ControlLarge ==
    ASSUME FifoTypes, ControlInv, LargeInv,
           \/ \E r \in RequestIds, type \in {"find", "traverse"} : Submit(r, type)
           \/ Controller
    PROVE  LargeInv'
<1>1. ASSUME NEW r \in RequestIds, NEW type \in {"find", "traverse"}, Submit(r, type)
      PROVE  LargeInv'
  <2>1. FifoTypes'
    BY <1>1, SubmitTypes
  <2>2. lost'.large = lost.large
    <3>1. lost' = lost \/ lost' = [lost EXCEPT !.answer = Bump(@, r)]
      BY <1>1 DEF Submit
    <3> QED
      BY <3>1, LoseAnswer
  <2>3. /\ completions' = completions /\ traverses' = traverses /\ larges' = larges /\ got' = got
        /\ fiber' = fiber
    BY <1>1 DEF Submit
  <2>4. \A s : Announcing(s)' = Announcing(s)
    BY <2>3 DEF Announcing
  <2> QED
    BY <2>1, <2>2, <2>3, <2>4, QuietLarge
<1>2. ASSUME NEW n \in 0 .. MaxFibers, Start(n) PROVE LargeInv'
  <2>1. FifoTypes' /\ \A f \in Fibers : fiber[f].at \notin Busy /\ fiber'[f].at \notin Busy
    BY <1>2, StartTypes
  <2>2. \A s : Announcing(s) = {} /\ Announcing(s)' = {}
    BY <2>1 DEF Announcing, Busy
  <2>3. /\ completions' = completions /\ traverses' = traverses /\ larges' = larges /\ got' = got
        /\ lost' = lost
    BY <1>2 DEF Start, queues
  <2> QED
    BY <2>1, <2>2, <2>3, QuietLarge
<1>3. CASE (\E drop \in BOOLEAN : Stop(drop)) \/ SendPill \/ JoinWorkers \/ Drop
  <2>1. FifoTypes'
    BY <1>3, StopTypes, SendPillTypes, JoinTypes, DropTypes
  <2>2. /\ completions' = completions /\ traverses' = traverses /\ larges' = larges /\ got' = got
        /\ lost' = lost /\ fiber' = fiber
    BY <1>3 DEF Stop, SendPill, JoinWorkers, Drop, queues
  <2>3. \A s : Announcing(s)' = Announcing(s)
    BY <2>2 DEF Announcing
  <2> QED
    BY <2>1, <2>2, <2>3, QuietLarge
<1> QED
  BY <1>1, <1>2, <1>3 DEF Controller, Stopping

LEMMA QuietAnnouncing ==
    ASSUME NEW f \in Fibers, Kept(f), NEW r,
           ~Announces(fiber[f], r), ~Announces(fiber'[f], r)
    PROVE  Cardinality(Announcing(r)') = Cardinality(Announcing(r))
<1>1. Cardinality(Announcing(r)') + One(Announces(fiber[f], r))
        = Cardinality(Announcing(r)) + One(Announces(fiber'[f], r))
  BY AnnouncingChange
<1>2. One(Announces(fiber[f], r)) = 0 /\ One(Announces(fiber'[f], r)) = 0
  BY DEF One
<1>3. Cardinality(Announcing(r)) \in Nat /\ Cardinality(Announcing(r)') \in Nat
  BY AnnouncingFinite
<1> QED
  BY <1>1, <1>2, <1>3

LEMMA SilentLarge ==
    ASSUME FifoTypes, FifoTypes', LargeInv, NEW f \in Fibers, Kept(f),
           UNCHANGED <<completions, traverses, larges, got, lost>>,
           \A r \in RequestIds : ~Announces(fiber[f], r) /\ ~Announces(fiber'[f], r)
    PROVE  LargeInv'
  BY QuietAnnouncing, QuietLarge

LEMMA PostLargeLarge ==
    ASSUME FifoTypes, ControlInv, FiberInv, LargeInv, NEW f \in Fibers, PostLargeValue(f)
    PROVE  LargeInv'
<1>1. /\ FifoTypes' /\ Kept(f) /\ fiber[f].at = "large"
      /\ fiber'[f].req = fiber[f].req
      /\ \A s \in RequestIds :
           Count(larges', LargeOf(s)) + lost'.large[s]
             = Count(larges, LargeOf(s)) + lost.large[s] + One(s = fiber[f].req)
  BY PostLargeIs
<1>2. completions' = completions /\ traverses' = traverses /\ got' = got
  BY DEF PostLargeValue
<1> SUFFICES ASSUME NEW r \in RequestIds
             PROVE  Flags(r)' + Larges(r) <= Flags(r) + Larges(r)'
  BY <1>1, LargeStep
<1> DEFINE k == One(r = fiber[f].req)
           a == One(Announces(fiber'[f], r))
<1>3. k \in Nat /\ a \in Nat /\ a <= k
  BY <1>1 DEF One, Announces
<1>4. Cardinality(Announcing(r)') + One(Announces(fiber[f], r)) = Cardinality(Announcing(r)) + a
  BY <1>1, AnnouncingChange
<1>5. One(Announces(fiber[f], r)) = 0
  BY <1>1 DEF One, Announces
<1>6. Count(larges', LargeOf(r)) + lost'.large[r] = Count(larges, LargeOf(r)) + lost.large[r] + k
  BY <1>1
<1>7. /\ Count(completions, FlagOf(r)) \in Nat /\ Count(traverses, FlagOf(r)) \in Nat
      /\ Count(larges, LargeOf(r)) \in Nat /\ got.flag[r] \in Nat /\ got.large[r] \in Nat
      /\ lost.large[r] \in Nat /\ Cardinality(Announcing(r)) \in Nat
      /\ Count(larges', LargeOf(r)) \in Nat /\ lost'.large[r] \in Nat
      /\ Cardinality(Announcing(r)') \in Nat
  BY <1>1, CountsAre, CountsAreNext, AnnouncingFinite
<1> HIDE DEF k, a
<1>8. Flags(r)' = Flags(r) + a
  BY <1>2, <1>3, <1>4, <1>5, <1>7 DEF Flags
<1>9. Larges(r)' = Larges(r) + k
  BY <1>2, <1>3, <1>6, <1>7 DEF Larges
<1>10. Flags(r) \in Nat /\ Larges(r) \in Nat
  BY FlagsAre
<1> QED
  BY <1>3, <1>8, <1>9, <1>10

\* A worker that announces its large value, if it has one
LEMMA AnnounceLarge ==
    ASSUME FifoTypes, FifoTypes', LargeInv, NEW f \in Fibers, Kept(f),
           fiber[f].at \in {"more", "answer"}, fiber'[f].at \notin {"more", "answer"},
           larges' = larges, got' = got, lost'.large = lost.large,
           \A s \in RequestIds :
             Count(completions', FlagOf(s)) + Count(traverses', FlagOf(s))
               <= Count(completions, FlagOf(s)) + Count(traverses, FlagOf(s))
                    + One(s = fiber[f].req /\ fiber[f].large)
    PROVE  LargeInv'
<1> SUFFICES ASSUME NEW r \in RequestIds
             PROVE  Flags(r)' + Larges(r) <= Flags(r) + Larges(r)'
  BY LargeStep
<1> DEFINE a == One(Announces(fiber[f], r))
<1>1. a \in Nat /\ One(r = fiber[f].req /\ fiber[f].large) = a
  BY DEF One, Announces
<1>2. Cardinality(Announcing(r)') + a = Cardinality(Announcing(r)) + One(Announces(fiber'[f], r))
  BY AnnouncingChange
<1>3. One(Announces(fiber'[f], r)) = 0
  BY DEF One, Announces
<1>4. Count(completions', FlagOf(r)) + Count(traverses', FlagOf(r))
        <= Count(completions, FlagOf(r)) + Count(traverses, FlagOf(r)) + a
  BY <1>1
<1>5. /\ Count(completions, FlagOf(r)) \in Nat /\ Count(traverses, FlagOf(r)) \in Nat
      /\ got.flag[r] \in Nat /\ Cardinality(Announcing(r)) \in Nat
      /\ Count(completions', FlagOf(r)) \in Nat /\ Count(traverses', FlagOf(r)) \in Nat
      /\ Cardinality(Announcing(r)') \in Nat
  BY CountsAre, CountsAreNext, AnnouncingFinite
<1> HIDE DEF a
<1>6. Flags(r)' <= Flags(r)
  BY <1>1, <1>2, <1>3, <1>4, <1>5 DEF Flags
<1>7. Larges(r)' = Larges(r)
  BY DEF Larges
<1>8. Flags(r) \in Nat /\ Larges(r) \in Nat /\ Flags(r)' \in Nat
  BY FlagsAre, FlagsAreNext
<1> QED
  BY <1>6, <1>7, <1>8

LEMMA WorkerLarge ==
    ASSUME FifoTypes, ControlInv, FiberInv, LargeInv, NEW f \in Fibers, Worker(f)
    PROVE  LargeInv'
<1>1. CASE ReadRunning(f) \/ Yield(f)
  <2>1. FifoTypes' /\ Kept(f) /\ fiber[f].at \notin Busy /\ fiber'[f].at \notin Busy
    BY <1>1, ReadRunningIs, YieldIs
  <2>2. UNCHANGED <<completions, traverses, larges, got, lost>>
    BY <1>1 DEF ReadRunning, Yield, queues
  <2> QED
    BY <2>1, <2>2, SilentLarge DEF Announces, Busy
<1>2. CASE Dequeue(f)
  <2>1. FifoTypes' /\ Kept(f) /\ fiber[f].at \notin Busy
    BY <1>2, DequeueIs
  <2>2. fiber'[f].at \notin {"more", "answer"}
    BY <1>2, DequeueIs DEF Busy
  <2>3. UNCHANGED <<completions, traverses, larges, got, lost>>
    BY <1>2 DEF Dequeue
  <2> QED
    BY <2>1, <2>2, <2>3, SilentLarge DEF Announces, Busy
<1>3. CASE Find(f) \/ Traverse(f) \/ SendNode(f)
  <2>1. /\ FifoTypes' /\ Kept(f) /\ fiber[f].at \in {"find", "traverse", "nodes"}
        /\ fiber'[f].at \in {"more", "answer"} => ~fiber'[f].large
    BY <1>3, FindIs, TraverseIs, SendNodeIs
  <2>2. UNCHANGED <<completions, traverses, larges, got, lost>>
    BY <1>3 DEF Find, Traverse, SendNode, queues
  <2> QED
    BY <2>1, <2>2, SilentLarge DEF Announces
<1>4. CASE PostLargeValue(f)
  BY <1>4, PostLargeLarge
<1>5. CASE PostCompletion(f)
  <2>1. /\ FifoTypes' /\ Kept(f) /\ fiber[f].at = "answer" /\ fiber'[f].at \notin Busy
        /\ lost'.large = lost.large
        /\ \A s \in RequestIds :
             Count(completions', FlagOf(s))
               <= Count(completions, FlagOf(s)) + One(s = fiber[f].req /\ fiber[f].large)
    BY <1>5, PostCompletionIs
  <2>2. traverses' = traverses /\ larges' = larges /\ got' = got
    BY <1>5 DEF PostCompletion
  <2>3. ASSUME NEW s \in RequestIds
        PROVE  Count(completions', FlagOf(s)) + Count(traverses', FlagOf(s))
                 <= Count(completions, FlagOf(s)) + Count(traverses, FlagOf(s))
                      + One(s = fiber[f].req /\ fiber[f].large)
    <3>1. /\ Count(completions, FlagOf(s)) \in Nat /\ Count(traverses, FlagOf(s)) \in Nat
          /\ Count(completions', FlagOf(s)) \in Nat
      BY <2>1, CountsAre, CountsAreNext
    <3>2. One(s = fiber[f].req /\ fiber[f].large) \in Nat
      BY DEF One
    <3>3. Count(completions', FlagOf(s))
            <= Count(completions, FlagOf(s)) + One(s = fiber[f].req /\ fiber[f].large)
      BY <2>1
    <3> QED
      BY <2>2, <3>1, <3>2, <3>3
  <2>4. fiber[f].at \in {"more", "answer"} /\ fiber'[f].at \notin {"more", "answer"}
    BY <2>1 DEF Busy
  <2>5. FifoTypes' /\ Kept(f) /\ lost'.large = lost.large
    BY <2>1
  <2> QED
    BY <2>2, <2>3, <2>4, <2>5, AnnounceLarge
<1>6. CASE PostMore(f)
  <2>1. /\ FifoTypes' /\ Kept(f) /\ fiber[f].at = "more" /\ fiber'[f].at = "nodes"
        /\ \A s \in RequestIds :
             Count(traverses', FlagOf(s))
               <= Count(traverses, FlagOf(s)) + One(s = fiber[f].req /\ fiber[f].large)
    BY <1>6, PostMoreIs
  <2>2. completions' = completions /\ larges' = larges /\ got' = got /\ lost' = lost
    BY <1>6 DEF PostMore
  <2>3. ASSUME NEW s \in RequestIds
        PROVE  Count(completions', FlagOf(s)) + Count(traverses', FlagOf(s))
                 <= Count(completions, FlagOf(s)) + Count(traverses, FlagOf(s))
                      + One(s = fiber[f].req /\ fiber[f].large)
    <3>1. /\ Count(completions, FlagOf(s)) \in Nat /\ Count(traverses, FlagOf(s)) \in Nat
          /\ Count(traverses', FlagOf(s)) \in Nat
      BY <2>1, CountsAre, CountsAreNext
    <3>2. One(s = fiber[f].req /\ fiber[f].large) \in Nat
      BY DEF One
    <3>3. Count(traverses', FlagOf(s))
            <= Count(traverses, FlagOf(s)) + One(s = fiber[f].req /\ fiber[f].large)
      BY <2>1
    <3> QED
      BY <2>2, <3>1, <3>2, <3>3
  <2>4. fiber[f].at \in {"more", "answer"} /\ fiber'[f].at \notin {"more", "answer"}
    BY <2>1
  <2>5. FifoTypes' /\ Kept(f)
    BY <2>1
  <2> QED
    BY <2>2, <2>3, <2>4, <2>5, AnnounceLarge
<1>7. CASE PostEnd(f)
  <2>1. /\ FifoTypes' /\ Kept(f) /\ fiber[f].at = "nodes" /\ fiber'[f].at \notin Busy
        /\ lost'.large = lost.large
        /\ \A s \in RequestIds : Count(traverses', FlagOf(s)) = Count(traverses, FlagOf(s))
    BY <1>7, PostEndIs
  <2>2. completions' = completions /\ larges' = larges /\ got' = got
    BY <1>7 DEF PostEnd
  <2>3. \A s \in RequestIds : Cardinality(Announcing(s)') = Cardinality(Announcing(s))
    BY <2>1, QuietAnnouncing DEF Announces, Busy
  <2> SUFFICES ASSUME NEW r \in RequestIds
               PROVE  Flags(r)' + Larges(r) <= Flags(r) + Larges(r)'
    BY <2>1, LargeStep
  <2>4. Flags(r)' = Flags(r) /\ Larges(r)' = Larges(r)
    BY <2>1, <2>2, <2>3 DEF Flags, Larges
  <2>5. Flags(r) \in Nat /\ Larges(r) \in Nat
    BY FlagsAre
  <2> QED
    BY <2>4, <2>5
<1> QED
  BY <1>1, <1>2, <1>3, <1>4, <1>5, <1>6, <1>7 DEF Worker

----------------------------------------------------------------------------
\* The invariant is inductive

LEMMA InitInv == FifoInit => FifoInv
<1> SUFFICES ASSUME FifoInit PROVE FifoInv
  OBVIOUS
<1>1. FifoTypes
  BY InitTypes
<1>2. \A f \in Fibers : fiber[f].at = "none"
  BY DEF FifoInit, Idle
<1>3. ControlInv /\ FiberInv
  BY <1>2 DEF FifoInit, ControlInv, FiberInv, Busy
<1>4. ASSUME NEW r \in RequestIds
      PROVE  /\ got.answer[r] = 0 /\ got.flag[r] = 0 /\ got.large[r] = 0
             /\ lost.answer[r] = 0 /\ lost.large[r] = 0
  BY DEF FifoInit, Zero
<1>5. /\ requests = <<>> /\ completions = <<>> /\ traverses = <<>> /\ larges = <<>>
      /\ submitted = {}
  BY DEF FifoInit
<1>6. CountInv
  <2> SUFFICES ASSUME NEW r \in RequestIds PROVE Total(r) = 0
    BY <1>5 DEF CountInv
  <2>1. Holders(r) = {}
    BY <1>2 DEF Holders, Busy
  <2>2. Held(r) = 0
    BY <1>1, <2>1, HeldIs, FS_EmptySet
  <2>3. \A G : Count(requests, G) = 0 /\ Count(completions, G) = 0 /\ Count(traverses, G) = 0
    BY <1>5, CountEmpty
  <2>4. Total(r) = Tally(r)
    BY <1>1, TallyIs
  <2> QED
    BY <1>4, <2>2, <2>3, <2>4 DEF Tally
<1>7. OrderInv
  BY <1>5 DEF OrderInv, TraverseInv, CompletionInv, EndInv
<1>8. LargeInv
  <2> SUFFICES ASSUME NEW r \in RequestIds
               PROVE  In(completions, r, IsFlagged) + In(traverses, r, IsFlagged) + got.flag[r]
                          + Cardinality(Announcing(r))
                        <= Cardinality({i \in DOMAIN larges : larges[i].r = r}) + got.large[r]
                             + lost.large[r]
    BY DEF LargeInv
  <2>1. Announcing(r) = {}
    BY <1>2 DEF Announcing
  <2>2. \A G : Count(larges, G) = 0 /\ Count(completions, G) = 0 /\ Count(traverses, G) = 0
    BY <1>5, CountEmpty
  <2>3. Flags(r) = 0 /\ Larges(r) = 0
    BY <1>4, <2>1, <2>2, FS_EmptySet DEF Flags, Larges
  <2> QED
    BY <1>1, <2>3, FlagsAre
<1> QED
  BY <1>1, <1>3, <1>6, <1>7, <1>8 DEF FifoInv, OrderInv

LEMMA NextInv == FifoInv /\ [FifoNext]_fifoVars => FifoInv'
<1> SUFFICES ASSUME FifoInv, [FifoNext]_fifoVars PROVE FifoInv'
  OBVIOUS
<1>0. FifoTypes /\ ControlInv /\ FiberInv /\ CountInv /\ OrderInv /\ LargeInv
  BY DEF FifoInv, OrderInv
<1>1. ASSUME NEW r \in RequestIds, NEW type \in {"find", "traverse"}, Submit(r, type)
      PROVE  FifoInv'
  <2>1. FifoTypes' /\ CountInv' /\ OrderInv' /\ LargeInv'
    BY <1>0, <1>1, SubmitTypes, SubmitCount, SubmitOrder, ControlLarge
  <2>2. ControlInv' /\ FiberInv'
    BY <1>0, <1>1 DEF Submit, control, ControlInv, FiberInv
  <2> QED
    BY <2>1, <2>2 DEF FifoInv, OrderInv
<1>2. CASE PollCompletion \/ PollTraverse \/ PollLargeValue
  <2>1. FifoTypes' /\ LargeInv'
    BY <1>0, <1>2, PollCompletionTypes, PollTraverseTypes, PollLargeTypes, PollLarge
  <2>2. CountInv'
    BY <1>0, <1>2, PollCompletionCount, PollTraverseCount, ControlCount
  <2>3. OrderInv'
    BY <1>0, <1>2, PollCompletionOrder, PollTraverseOrder, ControlOrder
  <2>4. fiber' = fiber /\ UNCHANGED control
    BY <1>2 DEF PollCompletion, PollTraverse, PollLargeValue
  <2>5. ControlInv' /\ FiberInv'
    BY <1>0, <2>4 DEF control, ControlInv, FiberInv
  <2> QED
    BY <2>1, <2>2, <2>3, <2>5 DEF FifoInv, OrderInv
<1>3. CASE Controller
  <2>1. CountInv' /\ OrderInv' /\ LargeInv'
    BY <1>0, <1>3, ControlCount, ControlOrder, ControlLarge
  <2>2. FifoTypes' /\ ControlInv' /\ FiberInv'
    <3>1. ASSUME NEW n \in 0 .. MaxFibers, Start(n) PROVE FifoTypes' /\ ControlInv' /\ FiberInv'
      BY <1>0, <3>1, StartTypes DEF FiberInv, Busy
    <3>2. CASE (\E drop \in BOOLEAN : Stop(drop)) \/ SendPill \/ JoinWorkers \/ Drop
      <4>1. FifoTypes' /\ ControlInv' /\ fiber' = fiber
        BY <1>0, <3>2, StopTypes, SendPillTypes, JoinTypes, DropTypes
      <4> QED
        BY <1>0, <4>1 DEF FiberInv
    <3> QED
      BY <1>3, <3>1, <3>2 DEF Controller, Stopping
  <2> QED
    BY <2>1, <2>2 DEF FifoInv, OrderInv
<1>4. ASSUME NEW f \in Fibers, Worker(f) PROVE FifoInv'
  <2>1. CountInv' /\ OrderInv' /\ LargeInv'
    BY <1>0, <1>4, WorkerCount, WorkerOrder, WorkerLarge
  <2>2. FifoTypes' /\ ControlInv' /\ FiberInv'
    BY <1>0, <1>4, ReadRunningIs, YieldIs, DequeueIs, FindIs, TraverseIs, SendNodeIs,
       PostLargeIs, PostCompletionIs, PostMoreIs, PostEndIs DEF Worker
  <2> QED
    BY <2>1, <2>2 DEF FifoInv, OrderInv
<1>5. CASE UNCHANGED fifoVars
  <2>1. /\ running' = running /\ numWorkers' = numWorkers /\ ctl' = ctl /\ pills' = pills
        /\ dropping' = dropping /\ fiber' = fiber /\ requests' = requests
        /\ completions' = completions /\ traverses' = traverses /\ larges' = larges
        /\ submitted' = submitted /\ got' = got /\ lost' = lost /\ failures' = failures
    BY <1>5 DEF fifoVars, control, queues
  <2>2. FifoTypes' /\ ControlInv' /\ FiberInv'
    BY <1>0, <2>1 DEF FifoTypes, ControlInv, FiberInv
  <2>3. CountInv'
    BY <1>0, <2>1 DEF CountInv, Total, Waiting, Held, Answers, In
  <2>4. OrderInv'
    BY <1>0, <2>1 DEF OrderInv, TraverseInv, OfTraversal, Traversing, CompletionInv, EndInv
  <2>5. LargeInv'
    BY <1>0, <2>1 DEF LargeInv, Announcing, In
  <2> QED
    BY <2>2, <2>3, <2>4, <2>5 DEF FifoInv, OrderInv
<1> QED
  BY <1>1, <1>2, <1>3, <1>4, <1>5 DEF FifoNext, Client

LEMMA InvAlways == FifoSpec => []FifoInv
  BY InitInv, NextInv, PTL DEF FifoSpec

\* A request that was submitted is in exactly one place, whatever is started, stopped,
\* dropped or not allocated: no request is lost or answered twice.
THEOREM NothingLostAlways == FifoSpec => []NothingLost
<1>1. FifoInv => NothingLost
  BY DEF FifoInv, FifoTypes, CountInv, Total, NothingLost
<1> QED
  BY <1>1, InvAlways, PTL

\* The end of a traversal is its last result, and a large value is there before it is
\* announced.
THEOREM AnswersInOrderAlways == FifoSpec => []AnswersInOrder
<1>1. FifoInv => AnswersInOrder
  <2> SUFFICES ASSUME FifoInv PROVE AnswersInOrder
    OBVIOUS
  <2>1. FifoTypes /\ ControlInv /\ TraverseInv /\ EndInv /\ LargeInv
    BY DEF FifoInv
  <2>2. FifoTypeOK
    <3>1. \A f \in Fibers : fiber[f].at \in Places /\ fiber[f].left \in 0 .. MaxNodes
      BY <2>1 DEF FifoTypes, FiberStates
    <3>2. \A q \in {completions, traverses} : \A i \in DOMAIN q : q[i].status \in Statuses
      <4> TAKE q \in {completions, traverses}
      <4> TAKE i \in DOMAIN q
      <4>1. q \in Seq(Results)
        BY <2>1 DEF FifoTypes
      <4>2. q[i] \in Results
        BY <4>1
      <4> QED
        BY <4>2 DEF Results
    <3>3. running => numWorkers > 0
      BY <2>1 DEF ControlInv
    <3> QED
      BY <2>1, <3>1, <3>2, <3>3 DEF FifoTypes, FifoTypeOK
  <2>3. EndIsLast
    BY <2>1 DEF EndInv, TraverseInv, OfTraversal, EndIsLast
  <2>4. LargeValueFirst
    <3> SUFFICES ASSUME NEW r \in RequestIds
                 PROVE  In(completions, r, IsFlagged) + In(traverses, r, IsFlagged) + got.flag[r]
                          <= Cardinality({i \in DOMAIN larges : larges[i].r = r}) + got.large[r]
                               + lost.large[r]
      BY DEF LargeValueFirst
    <3>1. In(completions, r, IsFlagged) + In(traverses, r, IsFlagged) + got.flag[r]
              + Cardinality(Announcing(r))
            <= Cardinality({i \in DOMAIN larges : larges[i].r = r}) + got.large[r] + lost.large[r]
      BY <2>1 DEF LargeInv
    <3>2. /\ In(completions, r, IsFlagged) \in Nat /\ In(traverses, r, IsFlagged) \in Nat
          /\ got.flag[r] \in Nat /\ got.large[r] \in Nat /\ lost.large[r] \in Nat
          /\ Cardinality({i \in DOMAIN larges : larges[i].r = r}) \in Nat
          /\ Cardinality(Announcing(r)) \in Nat
      <4>1. /\ completions \in Seq(Results) /\ traverses \in Seq(Results)
            /\ larges \in Seq(LargeNodes)
        BY <2>1 DEF FifoTypes
      <4>2. In(completions, r, IsFlagged) = Count(completions, FlagOf(r))
        BY <4>1, FlagCount
      <4>3. In(traverses, r, IsFlagged) = Count(traverses, FlagOf(r))
        BY <4>1, FlagCount
      <4>4. Cardinality({i \in DOMAIN larges : larges[i].r = r}) = Count(larges, LargeOf(r))
        BY <4>1, LargeCount
      <4>5. Cardinality(Announcing(r)) \in Nat
        BY AnnouncingFinite
      <4> QED
        BY <2>1, <4>2, <4>3, <4>4, <4>5, CountsAre
    <3> QED
      BY <3>1, <3>2
  <2> QED
    BY <2>2, <2>3, <2>4 DEF AnswersInOrder
<1> QED
  BY <1>1, InvAlways, PTL
=============================================================================
