-------------------------- MODULE NodeWritersProofs --------------------------
(***************************************************************************)
(* Theorems about NodeWriters over AsyncIO, for every number of reads and  *)
(* buffers, all sizes and every configuration of the rings: no buffer is   *)
(* lost or used twice however deep polls, receivers and writes are nested, *)
(* and a flush that returns leaves nothing behind.                         *)
(*                                                                         *)
(* The stack changes at its top only.  So a step is described by the frame *)
(* that takes the place of the top one and the frame pushed on it, or by   *)
(* the one that returns, and each part of the invariant has a lemma for    *)
(* each of the three.                                                      *)
(***************************************************************************)
EXTENDS NodeWriters, TLAPS, FiniteSetTheorems, SequenceTheorems

----------------------------------------------------------------------------
\* A sequence, of whatever it holds
IsSeq(s) == s \in Seq({s[i] : i \in DOMAIN s})

LEMMA SeqIsSeq ==
    ASSUME NEW S, NEW s \in Seq(S)
    PROVE  IsSeq(s)
<1>1. Range(s) = {s[i] : i \in DOMAIN s}
  BY DEF Range
<1> QED
  BY <1>1, SeqOfRange DEF IsSeq

\* How a step changes the stack: only at the top.
Tops(s, t, f) ==
    /\ IsSeq(t) /\ Len(t) = Len(s) /\ t[Len(s)] = f
    /\ \A i \in 1 .. Len(s) - 1 : t[i] = s[i]
Pushes(s, t, f, g) ==
    /\ IsSeq(t) /\ Len(t) = Len(s) + 1 /\ t[Len(s)] = f /\ t[Len(s) + 1] = g
    /\ \A i \in 1 .. Len(s) - 1 : t[i] = s[i]
Pops(s, t) ==
    /\ IsSeq(t) /\ Len(t) = Len(s) - 1
    /\ \A i \in 1 .. Len(s) - 1 : t[i] = s[i]

\* A sequence: its length and its domain.
LEMMA StackBasics ==
    ASSUME NEW s, IsSeq(s)
    PROVE  Len(s) \in Nat /\ DOMAIN s = 1 .. Len(s)
BY LenProperties DEF IsSeq

\* What Front, Append and EXCEPT do to a stack.
LEMMA FrontShape ==
    ASSUME NEW s, IsSeq(s), Len(s) > 0
    PROVE  Pops(s, Front(s))
<1> DEFINE S == {s[i] : i \in DOMAIN s}
<1>1. Len(s) \in Nat /\ DOMAIN s = 1 .. Len(s)
  BY StackBasics
<1>2. \A i \in 1 .. Len(s) - 1 : s[i] \in S
  BY <1>1
<1>3. /\ SubSeq(s, 1, Len(s) - 1) \in Seq(S)
      /\ Len(SubSeq(s, 1, Len(s) - 1)) = Len(s) - 1
      /\ \A i \in 1 .. Len(s) - 1 : SubSeq(s, 1, Len(s) - 1)[i] = s[i]
  <2> HIDE DEF S
  <2>1. 1 \in Int /\ Len(s) - 1 \in Int
    BY <1>1
  <2>2. Len(SubSeq(s, 1, Len(s) - 1)) = IF 1 <= Len(s) - 1 THEN Len(s) - 1 - 1 + 1 ELSE 0
    BY <1>2, <2>1, SubSeqProperties
  <2>3. \A i \in 1 .. Len(s) - 1 - 1 + 1 : SubSeq(s, 1, Len(s) - 1)[i] = s[1 + i - 1]
    BY <1>2, <2>1, SubSeqProperties
  <2>4. SubSeq(s, 1, Len(s) - 1) \in Seq(S)
    BY <1>2, <2>1, SubSeqProperties
  <2> QED
    BY <1>1, <2>2, <2>3, <2>4
<1> HIDE DEF S
<1>4. Front(s) = SubSeq(s, 1, Len(s) - 1)
  BY DEF Front
<1> QED
  BY <1>3, <1>4, SeqIsSeq DEF Pops

LEMMA AppendShape ==
    ASSUME NEW s, IsSeq(s), NEW f
    PROVE  /\ IsSeq(Append(s, f)) /\ Len(Append(s, f)) = Len(s) + 1
           /\ \A i \in 1 .. Len(s) : Append(s, f)[i] = s[i]
           /\ Append(s, f)[Len(s) + 1] = f
<1> DEFINE S == {s[i] : i \in DOMAIN s} T == S \cup {f}
<1>1. s \in Seq(S)
  BY DEF IsSeq
<1> HIDE DEF S
<1>0. S \subseteq T /\ f \in T
  OBVIOUS
<1> HIDE DEF T
<1>2. s \in Seq(T)
  BY <1>0, <1>1, SeqMonotonic
<1>3. /\ Append(s, f) \in Seq(T) /\ Len(Append(s, f)) = Len(s) + 1
      /\ \A i \in 1 .. Len(s) : Append(s, f)[i] = s[i]
      /\ Append(s, f)[Len(s) + 1] = f
  BY <1>0, <1>2, AppendProperties
<1>4. IsSeq(Append(s, f))
  BY <1>3, SeqIsSeq
<1> QED
  BY <1>3, <1>4

LEMMA BecomeShape ==
    ASSUME NEW s, IsSeq(s), Len(s) > 0, NEW f
    PROVE  Tops(s, Append(Front(s), f), f)
<1>1. Pops(s, Front(s)) /\ Len(s) \in Nat
  BY FrontShape, StackBasics
<1> DEFINE t == Front(s)
<1>2. IsSeq(t) /\ Len(t) = Len(s) - 1 /\ \A i \in 1 .. Len(s) - 1 : t[i] = s[i]
  BY <1>1 DEF Pops
<1> HIDE DEF t
<1>3. /\ IsSeq(Append(t, f)) /\ Len(Append(t, f)) = Len(t) + 1
      /\ \A i \in 1 .. Len(t) : Append(t, f)[i] = t[i]
      /\ Append(t, f)[Len(t) + 1] = f
  BY <1>2, AppendShape
<1>4. Tops(s, Append(t, f), f)
  BY <1>1, <1>2, <1>3 DEF Tops
<1> QED
  BY <1>4 DEF t

LEMMA ExceptShape ==
    ASSUME NEW s, IsSeq(s), Len(s) > 0, NEW f
    PROVE  Tops(s, [s EXCEPT ![Len(s)] = f], f)
<1> DEFINE S == {s[i] : i \in DOMAIN s} T == S \cup {f}
<1>1. s \in Seq(S) /\ Len(s) \in Nat
  BY StackBasics DEF IsSeq
<1> HIDE DEF S
<1>0. S \subseteq T /\ f \in T /\ Len(s) \in 1 .. Len(s)
  BY <1>1
<1> HIDE DEF T
<1>2. s \in Seq(T)
  BY <1>0, <1>1, SeqMonotonic
<1>3. /\ [s EXCEPT ![Len(s)] = f] \in Seq(T)
      /\ Len([s EXCEPT ![Len(s)] = f]) = Len(s)
      /\ \A j \in 1 .. Len(s) : [s EXCEPT ![Len(s)] = f][j] = IF j = Len(s) THEN f ELSE s[j]
  BY <1>0, <1>2, ExceptSeq
<1>4. IsSeq([s EXCEPT ![Len(s)] = f])
  BY <1>3, SeqIsSeq
<1> QED
  BY <1>1, <1>3, <1>4 DEF Tops

LEMMA PushShape ==
    ASSUME NEW s, IsSeq(s), Len(s) > 0, NEW f, NEW g, NEW t, Tops(s, t, f)
    PROVE  Pushes(s, Append(t, g), f, g)
<1>1. IsSeq(t) /\ Len(s) \in Nat /\ Len(t) = Len(s)
  BY StackBasics DEF Tops
<1>2. /\ IsSeq(Append(t, g)) /\ Len(Append(t, g)) = Len(t) + 1
      /\ \A i \in 1 .. Len(t) : Append(t, g)[i] = t[i]
      /\ Append(t, g)[Len(t) + 1] = g
  BY <1>1, AppendShape
<1> QED
  BY <1>1, <1>2 DEF Tops, Pushes

----------------------------------------------------------------------------
(***************************************************************************)
(* The inductive invariant                                                 *)
(***************************************************************************)
ReadStates == {"none", "begun", "deferred", "pending", "flight", "landed", "done"}
Waiting == {"newchunk", "split", "next", "ready"}

\* The fields of a frame
FrameOK(f) ==
    /\ "k" \in DOMAIN f
    /\ f.k # "pending" => "at" \in DOMAIN f
    /\ f.k = "poll" => /\ {"blocking", "mask", "todo", "n"} \subseteq DOMAIN f
                       /\ f.todo \in Seq(Reads \cup {WriteCqe}) /\ f.n \in Nat
    /\ f.k = "init" => "r" \in DOMAIN f /\ f.r \in Reads
    /\ f.k = "getbuf" => {"write", "r"} \subseteq DOMAIN f /\ f.write \in BOOLEAN
    /\ f.k = "pending" => {"last", "broke"} \subseteq DOMAIN f
    /\ f.k = "write" => {"list", "n"} \subseteq DOMAIN f /\ f.list \in Writers
    /\ f.k = "flush" => "list" \in DOMAIN f /\ f.list \in Writers

\* main is the bottom frame; it waits and flushes right above.
StackOK ==
    /\ IsSeq(stack) /\ Len(stack) > 0
    /\ \A i \in DOMAIN stack :
        /\ FrameOK(stack[i])
        /\ stack[i].k = "main" <=> i = 1
        /\ stack[i].k \in {"wait", "flush"} => i = 2

\* Who waits for a buffer is the frame right below.
GetBufOn(b, f) ==
    IF b.write THEN f.k \in {"write", "flush"} /\ f.at \in Waiting
    ELSE f.k = "init" /\ f.at = "limit" /\ f.r = b.r /\ ~HasBuffer(b.r)
GetBufsOK == \A i \in DOMAIN stack : stack[i].k = "getbuf" => GetBufOn(stack[i], stack[i - 1])

\* A read is initiated by one frame, which is past its buffer once it has got one.
UnderGetBuf(i) == i < Len(stack) /\ stack[i + 1].k = "getbuf"
PastBuffer == {"limit", "submit", "again"}
InitsOK ==
    \A i \in DOMAIN stack : stack[i].k = "init" =>
        /\ rdAt[stack[i].r] \in {"begun", "deferred"}
        /\ \A d \in DOMAIN deferred : deferred[d] # stack[i].r
        /\ \A j \in DOMAIN stack : stack[j].k = "init" /\ stack[j].r = stack[i].r => i = j
        /\ stack[i].at \in PastBuffer /\ ~UnderGetBuf(i) => HasBuffer(stack[i].r)

\* A read is in one queue once.
QueuesOK ==
    /\ rdAt \in [Reads -> ReadStates]
    /\ deferred \in Seq(Reads)
    /\ \A d \in DOMAIN deferred :
        /\ rdAt[deferred[d]] = "deferred"
        /\ \A e \in DOMAIN deferred : deferred[d] = deferred[e] => d = e
    /\ rdPending \in Seq(Reads)
    /\ \A d \in DOMAIN rdPending :
        /\ rdAt[rdPending[d]] = "pending" /\ rdPending[d] \notin ioMode.long
        /\ \A e \in DOMAIN rdPending : rdPending[d] = rdPending[e] => d = e

\* Of the completions taken and not processed, no two are of one read.
Todo(f) == IF f.k = "poll" THEN f.todo ELSE <<>>
TodosOK ==
    \A i \in DOMAIN stack : \A p \in DOMAIN Todo(stack[i]) : Todo(stack[i])[p] # WriteCqe =>
        /\ rdAt[Todo(stack[i])[p]] = "landed"
        /\ \A j \in DOMAIN stack : \A q \in DOMAIN Todo(stack[j]) :
            Todo(stack[i])[p] = Todo(stack[j])[q] => i = j /\ p = q

\* A read that is begun is somewhere.
InInit(r) == \E i \in DOMAIN stack : stack[i].k = "init" /\ stack[i].r = r
ReadsKept ==
    \A r \in Reads :
        /\ rdAt[r] = "begun" => InInit(r)
        /\ rdAt[r] = "deferred" => InInit(r) \/ \E d \in DOMAIN deferred : deferred[d] = r
        /\ rdAt[r] = "pending" => \E d \in DOMAIN rdPending : rdPending[d] = r

NumbersOK == /\ ioMode \in IoModes /\ rdBuf \subseteq Reads /\ rdFree \in Int /\ wrFree \in Int
             /\ inflightWr \in Int /\ wrLanded \in Int /\ within \in Int

ReadInv == /\ GetBufsOK /\ InitsOK /\ QueuesOK /\ TodosOK /\ ReadsKept /\ ReadBuffersConserved

InCompletions(f) == f.k = "pending" \/ (f.k \in {"poll", "getbuf"} /\ f.at # "enter")
Completing == {i \in DOMAIN stack : InCompletions(stack[i])}
WithinOK == within = Cardinality(Completing)

\* Completed writes that were taken and not processed, each numbered in its poll
LandedIn(s, i) ==
    {<<i, s[i].n + p>> : p \in {q \in DOMAIN s[i].todo : s[i].todo[q] = WriteCqe}}
LandedOn(s) == UNION {LandedIn(s, i) : i \in {j \in DOMAIN s : s[j].k = "poll"}}
LandedWrites == LandedOn(stack)
LandedOK == /\ IsFiniteSet(LandedWrites) /\ wrLanded = Cardinality(LandedWrites)
            /\ wrLanded <= inflightWr

\* A node that is begun is written or is being written.
NodesKept ==
    /\ nodes \in Nat /\ IsSeq(nodeAt)
    /\ \A m \in 1 .. nodes :
        \/ \E i \in DOMAIN nodeAt : nodeAt[i].n = m
        \/ \E i \in DOMAIN stack : stack[i].k = "write" /\ stack[i].n = m

\* Nobody reads, so that nobody writes either but main.
Quiet == /\ \A r \in Reads : rdAt[r] \in {"none", "done"}
         /\ \A i \in DOMAIN stack : stack[i].k # "receiver"
Emptied(l) == writer[l].bytes = <<>>

\* How far main has come
PhaseOK ==
    /\ DOMAIN writer = Writers
    /\ stack[1].at = "root" => IF Len(stack) = 1 THEN Quiet ELSE stack[2].k = "wait"
    /\ stack[1].at \in {"flush", "flushed"} => Quiet
    /\ stack[1].at = "flushed" =>
        /\ \A i \in DOMAIN stack : stack[i].k # "write"
        /\ IF Len(stack) = 1 THEN inflightWr = 0 /\ Emptied("fast") /\ Emptied("slow")
           ELSE /\ stack[2].k \in {"wait", "flush"}
                /\ stack[2].k = "flush" /\ stack[2].list = "slow" => Emptied("fast")
                /\ stack[2].k = "wait" => Emptied("fast") /\ Emptied("slow")
    /\ flushed => Len(stack) = 1 /\ stack[1].at = "end"

CoreInv == /\ StackOK /\ ReadInv /\ NumbersOK /\ WriteBuffersConserved /\ WithinOK /\ LandedOK
           /\ NodesKept
NodeWritersInv == CoreInv /\ PhaseOK /\ FlushedIsDurable

----------------------------------------------------------------------------
\* The rest of a frame stays when it goes on.
Same(f, h) ==
    /\ FrameOK(f) /\ f.k = h.k
    /\ f.k = "poll" => f.todo = h.todo /\ f.n = h.n
    /\ f.k = "init" => f.r = h.r
    /\ f.k = "getbuf" => f.write = h.write /\ f.r = h.r
    /\ f.k = "write" => f.list = h.list /\ f.n = h.n
    /\ f.k = "flush" => f.list = h.list

\* A frame that goes on elsewhere keeps the rest.
LEMMA GotoFrame ==
    ASSUME NEW f, FrameOK(f), f.k # "pending", NEW at
    PROVE  Same([f EXCEPT !.at = at], f) /\ [f EXCEPT !.at = at].at = at
BY DEF FrameOK, Same

\* The top of the stack
LEMMA StackFacts ==
    ASSUME StackOK
    PROVE  /\ IsSeq(stack) /\ Len(stack) \in Nat /\ Len(stack) > 0
           /\ DOMAIN stack = 1 .. Len(stack) /\ Len(stack) \in DOMAIN stack
           /\ top = stack[Len(stack)] /\ FrameOK(top)
<1>1. IsSeq(stack) /\ Len(stack) > 0
  BY DEF StackOK
<1>2. Len(stack) \in Nat /\ DOMAIN stack = 1 .. Len(stack)
  BY <1>1, StackBasics
<1> QED
  BY <1>1, <1>2 DEF StackOK, top, Last

\* What the moves of AsyncIO do to the stack: Goto_, Call_, Return, Become.
LEMMA GotoShape ==
    ASSUME StackOK, NEW at, Goto_(at)
    PROVE  Tops(stack, stack', [top EXCEPT !.at = at])
<1>1. IsSeq(stack) /\ Len(stack) > 0 /\ top = stack[Len(stack)]
  BY StackFacts
<1>2. stack' = [stack EXCEPT ![Len(stack)] = [top EXCEPT !.at = at]]
  BY <1>1 DEF Goto_
<1> QED
  BY <1>1, <1>2, ExceptShape

LEMMA CallShape ==
    ASSUME StackOK, NEW at, NEW g, Call_(at, g)
    PROVE  Pushes(stack, stack', [top EXCEPT !.at = at], g)
<1>1. IsSeq(stack) /\ Len(stack) > 0 /\ top = stack[Len(stack)]
  BY StackFacts
<1>2. stack' = Append([stack EXCEPT ![Len(stack)] = [top EXCEPT !.at = at]], g)
  BY <1>1 DEF Call_
<1> DEFINE f == [top EXCEPT !.at = at]
           t == [stack EXCEPT ![Len(stack)] = f]
<1>3. Tops(stack, t, f)
  BY <1>1, ExceptShape
<1> HIDE DEF t, f
<1>4. Pushes(stack, Append(t, g), f, g)
  BY <1>1, <1>3, PushShape
<1> QED
  BY <1>2, <1>4 DEF t, f

LEMMA GoesTo ==
    ASSUME StackOK, NEW at, Goto_(at), top.k # "pending"
    PROVE  \E f : Tops(stack, stack', f) /\ Same(f, top) /\ f.at = at
<1>1. FrameOK(top)
  BY StackFacts
<1> QED
  BY <1>1, GotoShape, GotoFrame

LEMMA CallsFrom ==
    ASSUME StackOK, NEW at, NEW g, Call_(at, g), top.k # "pending"
    PROVE  \E f : Pushes(stack, stack', f, g) /\ Same(f, top) /\ f.at = at
<1>1. FrameOK(top)
  BY StackFacts
<1> QED
  BY <1>1, CallShape, GotoFrame

LEMMA ReturnShape ==
    ASSUME StackOK, Return
    PROVE  Pops(stack, stack')
BY StackFacts, FrontShape DEF Return

LEMMA BecomesFrame ==
    ASSUME StackOK, NEW f, stack' = Append(Front(stack), f)
    PROVE  Tops(stack, stack', f)
BY StackFacts, BecomeShape

LEMMA BecomesAndPushes ==
    ASSUME StackOK, NEW f, NEW g, stack' = Append(Append(Front(stack), f), g)
    PROVE  Pushes(stack, stack', f, g)
<1>1. IsSeq(stack) /\ Len(stack) > 0
  BY StackFacts
<1> DEFINE t == Append(Front(stack), f)
<1>2. Tops(stack, t, f)
  BY <1>1, BecomeShape
<1> HIDE DEF t
<1>3. Pushes(stack, Append(t, g), f, g)
  BY <1>1, <1>2, PushShape
<1> QED
  BY <1>3 DEF t

----------------------------------------------------------------------------
\* The stack stays well formed.
LEMMA StackTops ==
    ASSUME StackOK, NEW f, Tops(stack, stack', f), FrameOK(f),
           f.k = "main" <=> Len(stack) = 1, f.k \in {"wait", "flush"} => Len(stack) = 2
    PROVE  StackOK' /\ DOMAIN stack' = 1 .. Len(stack)
<1>1. Len(stack) \in Nat /\ Len(stack) > 0 /\ DOMAIN stack = 1 .. Len(stack)
  BY StackFacts
<1>2. IsSeq(stack') /\ Len(stack') = Len(stack) /\ DOMAIN stack' = 1 .. Len(stack)
  BY StackBasics DEF Tops
<1> QED
  BY <1>1, <1>2 DEF StackOK, Tops

\* The stack stays one when a frame is pushed.
LEMMA StackPushes ==
    ASSUME StackOK, NEW f, NEW g, Pushes(stack, stack', f, g), FrameOK(f), FrameOK(g),
           f.k = "main" <=> Len(stack) = 1, f.k \in {"wait", "flush"} => Len(stack) = 2,
           g.k # "main", g.k \in {"wait", "flush"} => Len(stack) = 1
    PROVE  StackOK' /\ DOMAIN stack' = 1 .. Len(stack) + 1
<1>1. Len(stack) \in Nat /\ Len(stack) > 0 /\ DOMAIN stack = 1 .. Len(stack)
  BY StackFacts
<1>2. IsSeq(stack') /\ Len(stack') = Len(stack) + 1 /\ DOMAIN stack' = 1 .. Len(stack) + 1
  BY StackBasics DEF Pushes
<1> QED
  BY <1>1, <1>2 DEF StackOK, Pushes

\* And when the top one returns; main never does.
LEMMA StackPops ==
    ASSUME StackOK, Pops(stack, stack'), top.k # "main"
    PROVE  StackOK' /\ DOMAIN stack' = 1 .. Len(stack) - 1 /\ Len(stack) > 1
<1>1. /\ Len(stack) \in Nat /\ Len(stack) > 0 /\ DOMAIN stack = 1 .. Len(stack)
      /\ top = stack[Len(stack)]
  BY StackFacts
<1>2. IsSeq(stack') /\ Len(stack') = Len(stack) - 1 /\ DOMAIN stack' = 1 .. Len(stack) - 1
  BY StackBasics DEF Pops
<1>3. Len(stack) > 1
  BY <1>1 DEF StackOK
<1> QED
  BY <1>1, <1>2, <1>3 DEF StackOK, Pops

----------------------------------------------------------------------------
(***************************************************************************)
(* Counting: a step changes what is counted in one place.                  *)
(***************************************************************************)
Bit(b) == IF b THEN 1 ELSE 0

\* Two sets that differ in one element at most: how their sizes differ.
LEMMA CountChange ==
    ASSUME NEW A, NEW B, NEW x, IsFiniteSet(A), A \ {x} = B \ {x}
    PROVE  /\ IsFiniteSet(B)
           /\ Cardinality(A) \in Nat
           /\ Cardinality(B) = Cardinality(A) + Bit(x \in B) - Bit(x \in A)
<1> DEFINE C == A \ {x}
<1>1. IsFiniteSet(C) /\ Cardinality(C) \in Nat
  BY FS_RemoveElement, FS_CardinalityType
<1>2. Cardinality(A) = Cardinality(C) + Bit(x \in A)
  <2>1. CASE x \in A
    <3>1. A = C \cup {x} /\ x \notin C
      BY <2>1
    <3> QED
      BY <1>1, <2>1, <3>1, FS_AddElement DEF Bit
  <2>2. CASE x \notin A
    <3>1. A = C
      BY <2>2
    <3>2. Bit(x \in A) = 0
      BY <2>2 DEF Bit
    <3> HIDE DEF C
    <3> QED
      BY <1>1, <3>1, <3>2
  <2> QED
    BY <2>1, <2>2
<1>3. IsFiniteSet(B) /\ Cardinality(B) = Cardinality(C) + Bit(x \in B)
  <2>1. CASE x \in B
    <3>1. B = C \cup {x} /\ x \notin C
      BY <2>1
    <3> QED
      BY <1>1, <2>1, <3>1, FS_AddElement DEF Bit
  <2>2. CASE x \notin B
    <3>1. B = C
      BY <2>2
    <3>2. Bit(x \in B) = 0
      BY <2>2 DEF Bit
    <3> HIDE DEF C
    <3> QED
      BY <1>1, <3>1, <3>2
  <2> QED
    BY <2>1, <2>2
<1> QED
  BY <1>1, <1>2, <1>3 DEF Bit

LEMMA DepthFinite ==
    ASSUME StackOK, NEW A, A \subseteq DOMAIN stack
    PROVE  IsFiniteSet(A)
<1>1. DOMAIN stack = 1 .. Len(stack) /\ Len(stack) \in Nat
  BY StackFacts
<1>2. IsFiniteSet(1 .. Len(stack))
  BY <1>1, FS_Interval
<1> QED
  BY <1>1, <1>2, FS_Subset

\* The frames that have got a write buffer
IsHolder(f) == f.k \in {"write", "flush"} /\ f.at \in Waiting
Holders == {i \in DOMAIN stack : /\ stack[i].k \in {"write", "flush"}
                                 /\ stack[i].at \in {"newchunk", "split", "next", "ready"}
                                 /\ i = Len(stack) \/ stack[i + 1].k # "getbuf"}

\* How the number of frames with a write buffer changes
LEMMA HoldTops ==
    ASSUME StackOK, NEW f, Tops(stack, stack', f), f.k = "getbuf" <=> top.k = "getbuf"
    PROVE  Cardinality(Holders') = Cardinality(Holders) + Bit(IsHolder(f)) - Bit(IsHolder(top))
<1> DEFINE n == Len(stack)
<1>1. Len(stack) = n /\ n \in Nat /\ n > 0 /\ DOMAIN stack = 1 .. n /\ top = stack[n]
  BY StackFacts
<1>2. Len(stack') = n /\ DOMAIN stack' = 1 .. n /\ stack'[n] = f
      /\ \A i \in 1 .. n - 1 : stack'[i] = stack[i]
  BY StackBasics DEF Tops
<1> HIDE DEF n
<1>3. Holders \ {n} = Holders' \ {n}
  BY <1>1, <1>2 DEF Holders
<1>4. (n \in Holders <=> IsHolder(top)) /\ (n \in Holders' <=> IsHolder(f))
  BY <1>1, <1>2 DEF Holders, IsHolder, Waiting
<1>5. IsFiniteSet(Holders)
  BY DepthFinite DEF Holders
<1>6. /\ Cardinality(Holders) \in Nat
      /\ Cardinality(Holders') = Cardinality(Holders) + Bit(n \in Holders') - Bit(n \in Holders)
  BY <1>3, <1>5, CountChange
<1> QED
  BY <1>4, <1>6 DEF Bit

LEMMA HoldPushes ==
    ASSUME StackOK, NEW f, NEW g, Pushes(stack, stack', f, g), f.k = "getbuf" <=> top.k = "getbuf",
           ~IsHolder(g)
    PROVE  Cardinality(Holders') =
               Cardinality(Holders) + Bit(IsHolder(f) /\ g.k # "getbuf") - Bit(IsHolder(top))
<1> DEFINE n == Len(stack)
<1>1. Len(stack) = n /\ n \in Nat /\ n > 0 /\ DOMAIN stack = 1 .. n /\ top = stack[n]
  BY StackFacts
<1>2. /\ Len(stack') = n + 1 /\ DOMAIN stack' = 1 .. n + 1 /\ stack'[n] = f
      /\ stack'[n + 1] = g /\ \A i \in 1 .. n - 1 : stack'[i] = stack[i]
  BY StackBasics DEF Pushes
<1> HIDE DEF n
<1>3. Holders \ {n} = Holders' \ {n}
  BY <1>1, <1>2 DEF Holders, IsHolder, Waiting
<1>4. (n \in Holders <=> IsHolder(top)) /\ (n \in Holders' <=> IsHolder(f) /\ g.k # "getbuf")
  <2>1. n \in DOMAIN stack /\ n \in DOMAIN stack' /\ n # Len(stack')
    BY <1>1, <1>2
  <2>2. n \in Holders <=> IsHolder(top)
    BY <1>1, <2>1 DEF Holders, IsHolder, Waiting
  <2>3. n \in Holders' <=> IsHolder(f) /\ g.k # "getbuf"
    BY <1>2, <2>1 DEF Holders, IsHolder, Waiting
  <2> QED
    BY <2>2, <2>3
<1>5. IsFiniteSet(Holders)
  BY DepthFinite DEF Holders
<1>6. /\ Cardinality(Holders) \in Nat
      /\ Cardinality(Holders') = Cardinality(Holders) + Bit(n \in Holders') - Bit(n \in Holders)
  BY <1>3, <1>5, CountChange
<1> QED
  BY <1>4, <1>6 DEF Bit

LEMMA HoldPops ==
    ASSUME StackOK, Pops(stack, stack'), top.k \notin {"main", "getbuf"}
    PROVE  Cardinality(Holders') = Cardinality(Holders) - Bit(IsHolder(top))
<1> DEFINE n == Len(stack)
<1>1. Len(stack) = n /\ n \in Nat /\ n > 1 /\ DOMAIN stack = 1 .. n /\ top = stack[n]
  BY StackFacts, StackPops
<1>2. /\ Len(stack') = n - 1 /\ DOMAIN stack' = 1 .. n - 1
      /\ \A i \in 1 .. n - 1 : stack'[i] = stack[i]
  BY StackBasics DEF Pops
<1> HIDE DEF n
<1>3. Holders \ {n} = Holders' \ {n}
  BY <1>1, <1>2 DEF Holders
<1>4. (n \in Holders <=> IsHolder(top)) /\ n \notin Holders'
  <2>1. n \in DOMAIN stack /\ n \notin DOMAIN stack'
    BY <1>1, <1>2
  <2> QED
    BY <1>1, <2>1 DEF Holders, IsHolder, Waiting
<1>5. IsFiniteSet(Holders)
  BY DepthFinite DEF Holders
<1>6. /\ Cardinality(Holders) \in Nat
      /\ Cardinality(Holders') = Cardinality(Holders) + Bit(n \in Holders') - Bit(n \in Holders)
  BY <1>3, <1>5, CountChange
<1> QED
  BY <1>4, <1>6 DEF Bit

\* A frame that has waited for a write buffer has one when the waiting ends.
LEMMA HoldLeaves ==
    ASSUME StackOK, GetBufsOK, top.k = "getbuf", NEW f, ~IsHolder(f), f.k # "getbuf",
           Pops(stack, stack') \/ Tops(stack, stack', f)
    PROVE  Cardinality(Holders') = Cardinality(Holders) + Bit(top.write)
<1> DEFINE n == Len(stack)
<1>1. Len(stack) = n /\ n \in Nat /\ n > 0 /\ DOMAIN stack = 1 .. n /\ top = stack[n] /\ FrameOK(top)
  BY StackFacts
<1>2. n > 1
  BY <1>1 DEF StackOK
<1>3. /\ \/ Len(stack') = n - 1 /\ DOMAIN stack' = 1 .. n - 1
         \/ Len(stack') = n /\ DOMAIN stack' = 1 .. n /\ stack'[n] = f
      /\ \A i \in 1 .. n - 1 : stack'[i] = stack[i]
  BY StackBasics DEF Pops, Tops
<1> HIDE DEF n
<1>4. Holders \ {n - 1} = Holders' \ {n - 1}
  <2>1. \A i \in 1 .. n - 2 : /\ i # n /\ i # Len(stack') /\ i + 1 \in 1 .. n - 1
                              /\ i \in 1 .. n - 1
    BY <1>1, <1>2, <1>3
  <2>2. \A i \in 1 .. n - 2 : i \in Holders <=> i \in Holders'
    BY <1>1, <1>2, <1>3, <2>1 DEF Holders
  <2>3. n \notin Holders /\ n \notin Holders'
    BY <1>1, <1>3 DEF Holders, IsHolder, Waiting
  <2>4. \A i \in Holders \cup Holders' : i \in 1 .. n - 2 \/ i = n - 1 \/ i = n
    BY <1>1, <1>3 DEF Holders
  <2> QED
    BY <2>2, <2>3, <2>4
<1>5. n - 1 \notin Holders /\ (n - 1 \in Holders' <=> top.write)
  <2>1. IF top.write THEN IsHolder(stack[n - 1]) ELSE stack[n - 1].k = "init"
    BY <1>1, <1>2 DEF GetBufsOK, GetBufOn, IsHolder
  <2>2. n - 1 \in DOMAIN stack /\ n - 1 \in DOMAIN stack' /\ n - 1 # n
        /\ stack[n - 1 + 1].k = "getbuf" /\ stack'[n - 1] = stack[n - 1]
    BY <1>1, <1>2, <1>3
  <2>3. n - 1 \notin Holders
    BY <1>1, <2>2 DEF Holders
  <2>4. n - 1 = Len(stack') \/ stack'[n - 1 + 1].k # "getbuf"
    BY <1>1, <1>3
  <2>5. n - 1 \in Holders' <=> IsHolder(stack[n - 1])
    BY <2>2, <2>4 DEF Holders, IsHolder, Waiting
  <2>6. IsHolder(stack[n - 1]) <=> top.write
    BY <1>1, <2>1 DEF IsHolder, FrameOK
  <2> QED
    BY <2>3, <2>5, <2>6
<1>6. IsFiniteSet(Holders)
  BY DepthFinite DEF Holders
<1>7. /\ Cardinality(Holders) \in Nat
      /\ Cardinality(Holders') =
             Cardinality(Holders) + Bit(n - 1 \in Holders') - Bit(n - 1 \in Holders)
  BY <1>4, <1>6, CountChange
<1> QED
  BY <1>5, <1>7 DEF Bit

----------------------------------------------------------------------------
\* within_completions_count counts frames.
LEMMA WithinTops ==
    ASSUME StackOK, NEW f, Tops(stack, stack', f)
    PROVE  Cardinality(Completing') =
               Cardinality(Completing) + Bit(InCompletions(f)) - Bit(InCompletions(top))
<1> DEFINE n == Len(stack)
<1>1. Len(stack) = n /\ n \in Nat /\ n > 0 /\ DOMAIN stack = 1 .. n /\ top = stack[n]
  BY StackFacts
<1>2. DOMAIN stack' = 1 .. n /\ stack'[n] = f /\ \A i \in 1 .. n - 1 : stack'[i] = stack[i]
  BY StackBasics DEF Tops
<1> HIDE DEF n
<1>3. Completing \ {n} = Completing' \ {n}
  BY <1>1, <1>2 DEF Completing
<1>4. (n \in Completing <=> InCompletions(top)) /\ (n \in Completing' <=> InCompletions(f))
  BY <1>1, <1>2 DEF Completing
<1>5. IsFiniteSet(Completing)
  BY DepthFinite DEF Completing
<1>6. /\ Cardinality(Completing) \in Nat
      /\ Cardinality(Completing') =
             Cardinality(Completing) + Bit(n \in Completing') - Bit(n \in Completing)
  BY <1>3, <1>5, CountChange
<1> QED
  BY <1>4, <1>6 DEF Bit

\* Of the frame that calls and the one that is called, one is as before.
LEMMA WithinPushes ==
    ASSUME StackOK, NEW f, NEW g, Pushes(stack, stack', f, g),
           InCompletions(f) <=> InCompletions(top)
    PROVE  Cardinality(Completing') = Cardinality(Completing) + Bit(InCompletions(g))
<1> DEFINE n == Len(stack)
<1>1. Len(stack) = n /\ n \in Nat /\ n > 0 /\ DOMAIN stack = 1 .. n /\ top = stack[n]
  BY StackFacts
<1>2. /\ DOMAIN stack' = 1 .. n + 1 /\ stack'[n] = f /\ stack'[n + 1] = g
      /\ \A i \in 1 .. n - 1 : stack'[i] = stack[i]
  BY StackBasics DEF Pushes
<1> HIDE DEF n
<1>3. Completing \ {n + 1} = Completing' \ {n + 1}
  <2>1. \A i \in 1 .. n : i \in Completing <=> i \in Completing'
    BY <1>1, <1>2 DEF Completing
  <2>2. \A i \in Completing \cup Completing' : i \in 1 .. n \/ i = n + 1
    BY <1>1, <1>2 DEF Completing
  <2> QED
    BY <2>1, <2>2
<1>4. n + 1 \notin Completing /\ (n + 1 \in Completing' <=> InCompletions(g))
  BY <1>1, <1>2 DEF Completing
<1>5. IsFiniteSet(Completing)
  BY DepthFinite DEF Completing
<1>6. /\ Cardinality(Completing) \in Nat
      /\ Cardinality(Completing') =
             Cardinality(Completing) + Bit(n + 1 \in Completing') - Bit(n + 1 \in Completing)
  BY <1>3, <1>5, CountChange
<1> QED
  BY <1>4, <1>6 DEF Bit

\* One frame that runs completions is gone.
LEMMA WithinPops ==
    ASSUME StackOK, Pops(stack, stack'), top.k # "main"
    PROVE  Cardinality(Completing') = Cardinality(Completing) - Bit(InCompletions(top))
<1> DEFINE n == Len(stack)
<1>1. Len(stack) = n /\ n \in Nat /\ n > 1 /\ DOMAIN stack = 1 .. n /\ top = stack[n]
  BY StackFacts, StackPops
<1>2. DOMAIN stack' = 1 .. n - 1 /\ \A i \in 1 .. n - 1 : stack'[i] = stack[i]
  BY StackBasics DEF Pops
<1> HIDE DEF n
<1>3. Completing \ {n} = Completing' \ {n}
  BY <1>1, <1>2 DEF Completing
<1>4. (n \in Completing <=> InCompletions(top)) /\ n \notin Completing'
  <2>1. n \in DOMAIN stack /\ n \notin DOMAIN stack'
    BY <1>1, <1>2
  <2> QED
    BY <1>1, <2>1 DEF Completing
<1>5. IsFiniteSet(Completing)
  BY DepthFinite DEF Completing
<1>6. /\ Cardinality(Completing) \in Nat
      /\ Cardinality(Completing') =
             Cardinality(Completing) + Bit(n \in Completing') - Bit(n \in Completing)
  BY <1>3, <1>5, CountChange
<1> QED
  BY <1>4, <1>6 DEF Bit

----------------------------------------------------------------------------
\* The completed writes in the hands of polls

LandedOf(f, q) == \E p \in DOMAIN Todo(f) : Todo(f)[p] = WriteCqe /\ q = f.n + p

\* The completed writes that were taken, one by one
LEMMA LandedChar ==
    ASSUME NEW s
    PROVE  /\ \A x \in LandedOn(s) : \E i, q : x = <<i, q>>
           /\ \A i, q : <<i, q>> \in LandedOn(s) <=> i \in DOMAIN s /\ LandedOf(s[i], q)
BY DEF LandedOn, LandedIn, LandedOf, Todo

\* A step that leaves what was taken alone
LEMMA LandedSame ==
    ASSUME StackOK, NEW f, NEW g,
           \/ Tops(stack, stack', f) /\ \A q : LandedOf(f, q) <=> LandedOf(top, q)
           \/ Pushes(stack, stack', f, g) /\ (\A q : LandedOf(f, q) <=> LandedOf(top, q))
              /\ Todo(g) = <<>>
           \/ Pops(stack, stack') /\ Todo(top) = <<>> /\ top.k # "main"
    PROVE  LandedWrites' = LandedWrites
<1> DEFINE n == Len(stack)
<1>1. Len(stack) = n /\ n \in Nat /\ n > 0 /\ DOMAIN stack = 1 .. n /\ top = stack[n]
  BY StackFacts
<1>2. \A h, q : Todo(h) = <<>> => ~LandedOf(h, q)
  BY DEF LandedOf
<1>3. \A i, q : (i \in DOMAIN stack' /\ LandedOf(stack'[i], q))
                <=> (i \in DOMAIN stack /\ LandedOf(stack[i], q))
  <2>1. CASE Tops(stack, stack', f) /\ \A q : LandedOf(f, q) <=> LandedOf(top, q)
    <3>1. DOMAIN stack' = 1 .. n /\ stack'[n] = f /\ \A i \in 1 .. n - 1 : stack'[i] = stack[i]
      BY <2>1, StackBasics DEF Tops
    <3> HIDE DEF n
    <3> QED
      BY <1>1, <2>1, <3>1
  <2>2. CASE Pushes(stack, stack', f, g) /\ (\A q : LandedOf(f, q) <=> LandedOf(top, q))
             /\ Todo(g) = <<>>
    <3>1. /\ DOMAIN stack' = 1 .. n + 1 /\ stack'[n] = f /\ stack'[n + 1] = g
          /\ \A i \in 1 .. n - 1 : stack'[i] = stack[i]
      BY <2>2, StackBasics DEF Pushes
    <3> HIDE DEF n
    <3>2. \A i \in 1 .. n + 1 : i = n + 1 \/ i = n \/ i \in 1 .. n - 1
      BY <1>1
    <3>3. \A q : ~LandedOf(stack'[n + 1], q)
      BY <1>2, <2>2, <3>1
    <3> QED
      BY <1>1, <2>2, <3>1, <3>2, <3>3
  <2>3. CASE Pops(stack, stack') /\ Todo(top) = <<>> /\ top.k # "main"
    <3>1. DOMAIN stack' = 1 .. n - 1 /\ \A i \in 1 .. n - 1 : stack'[i] = stack[i]
      BY <2>3, StackBasics DEF Pops
    <3> HIDE DEF n
    <3>2. \A i \in 1 .. n : i = n \/ i \in 1 .. n - 1
      BY <1>1
    <3>3. \A q : ~LandedOf(stack[n], q)
      BY <1>1, <1>2, <2>3
    <3> QED
      BY <1>1, <2>3, <3>1, <3>2, <3>3
  <2> QED
    BY <2>1, <2>2, <2>3
<1>4. /\ \A x \in LandedOn(stack) : \E i, q : x = <<i, q>>
      /\ \A i, q : <<i, q>> \in LandedOn(stack) <=> i \in DOMAIN stack /\ LandedOf(stack[i], q)
  BY LandedChar
<1>5. /\ \A x \in LandedOn(stack') : \E i, q : x = <<i, q>>
      /\ \A i, q : <<i, q>> \in LandedOn(stack') <=> i \in DOMAIN stack' /\ LandedOf(stack'[i], q)
  BY LandedChar
<1>6. \A i, q : <<i, q>> \in LandedOn(stack') <=> <<i, q>> \in LandedOn(stack)
  BY <1>3, <1>4, <1>5
<1>7. LandedOn(stack') = LandedOn(stack)
  <2>1. ASSUME NEW x \in LandedOn(stack') PROVE x \in LandedOn(stack)
    <3>1. PICK i, q : x = <<i, q>>
      BY <1>5
    <3> QED
      BY <1>6, <3>1
  <2>2. ASSUME NEW x \in LandedOn(stack) PROVE x \in LandedOn(stack')
    <3>1. PICK i, q : x = <<i, q>>
      BY <1>4
    <3> QED
      BY <1>6, <3>1
  <2> QED
    BY <2>1, <2>2
<1> QED
  BY <1>7 DEF LandedWrites

\* Taking a completed write, or processing one, changes the set by one.
LEMMA LandedChange ==
    ASSUME StackOK, LandedOK, NEW f, NEW q,
           Tops(stack, stack', f),
           \A p : p # q => (LandedOf(f, p) <=> LandedOf(top, p))
    PROVE  /\ IsFiniteSet(LandedWrites') /\ Cardinality(LandedWrites) \in Nat
           /\ Cardinality(LandedWrites') =
                  Cardinality(LandedWrites) + Bit(LandedOf(f, q)) - Bit(LandedOf(top, q))
<1> DEFINE n == Len(stack)
<1>1. Len(stack) = n /\ n \in Nat /\ n > 0 /\ DOMAIN stack = 1 .. n /\ top = stack[n]
  BY StackFacts
<1>2. DOMAIN stack' = 1 .. n /\ stack'[n] = f /\ \A i \in 1 .. n - 1 : stack'[i] = stack[i]
  BY StackBasics DEF Tops
<1> HIDE DEF n
<1>3. \A i, p : <<i, p>> # <<n, q>> =>
          ((i \in DOMAIN stack' /\ LandedOf(stack'[i], p))
           <=> (i \in DOMAIN stack /\ LandedOf(stack[i], p)))
  BY <1>1, <1>2
<1>4. /\ \A x \in LandedOn(stack) : \E i, p : x = <<i, p>>
      /\ \A i, p : <<i, p>> \in LandedOn(stack) <=> i \in DOMAIN stack /\ LandedOf(stack[i], p)
  BY LandedChar
<1>5. /\ \A x \in LandedOn(stack') : \E i, p : x = <<i, p>>
      /\ \A i, p : <<i, p>> \in LandedOn(stack') <=> i \in DOMAIN stack' /\ LandedOf(stack'[i], p)
  BY LandedChar
<1>6. \A i, p : <<i, p>> # <<n, q>> =>
          (<<i, p>> \in LandedOn(stack') <=> <<i, p>> \in LandedOn(stack))
  BY <1>3, <1>4, <1>5
<1>7. LandedOn(stack) \ {<<n, q>>} = LandedOn(stack') \ {<<n, q>>}
  <2>1. ASSUME NEW x \in LandedOn(stack'), x # <<n, q>> PROVE x \in LandedOn(stack)
    <3>1. PICK i, p : x = <<i, p>>
      BY <1>5
    <3> QED
      BY <1>6, <2>1, <3>1
  <2>2. ASSUME NEW x \in LandedOn(stack), x # <<n, q>> PROVE x \in LandedOn(stack')
    <3>1. PICK i, p : x = <<i, p>>
      BY <1>4
    <3> QED
      BY <1>6, <2>2, <3>1
  <2> QED
    BY <2>1, <2>2
<1>8. /\ <<n, q>> \in LandedOn(stack) <=> LandedOf(top, q)
      /\ <<n, q>> \in LandedOn(stack') <=> LandedOf(f, q)
  BY <1>1, <1>2, <1>4, <1>5
<1>9. IsFiniteSet(LandedOn(stack))
  BY DEF LandedOK, LandedWrites
<1>10. /\ IsFiniteSet(LandedOn(stack')) /\ Cardinality(LandedOn(stack)) \in Nat
       /\ Cardinality(LandedOn(stack')) =
              Cardinality(LandedOn(stack)) + Bit(<<n, q>> \in LandedOn(stack'))
                                           - Bit(<<n, q>> \in LandedOn(stack))
  BY <1>7, <1>9, CountChange
<1> QED
  BY <1>8, <1>10 DEF LandedWrites, Bit

----------------------------------------------------------------------------
(***************************************************************************)
(* Steps that have nothing to do with reads: what a frame that stays has   *)
(* to do with them stays the same.                                         *)
(***************************************************************************)
ReadRole(f, h) ==
    /\ f.k = "init" <=> h.k = "init"
    /\ f.k = "init" => f.r = h.r /\ (f.at \in PastBuffer => h.at \in PastBuffer)
    /\ Todo(f) = Todo(h)
    /\ f.k = "getbuf" => h.k = "getbuf" /\ f.write = h.write /\ f.r = h.r
    /\ h.k = "getbuf" /\ f.k # "getbuf" => h.write

ReadVars == <<ioMode, rdAt, rdBuf, rdFree, rdPending, deferred>>

\* What is said of reads, over a step that leaves them alone
LEMMA ReadsTops ==
    ASSUME StackOK, ReadInv, NEW f, Tops(stack, stack', f), UNCHANGED ReadVars, ReadRole(f, top)
    PROVE  ReadInv'
<1> DEFINE n == Len(stack)
<1>1. Len(stack) = n /\ n \in Nat /\ n > 0 /\ DOMAIN stack = 1 .. n /\ top = stack[n]
  BY StackFacts
<1>2. /\ Len(stack') = n /\ DOMAIN stack' = 1 .. n /\ stack'[n] = f
      /\ \A i \in 1 .. n - 1 : stack'[i] = stack[i]
  BY StackBasics DEF Tops
<1> HIDE DEF n
<1>3. /\ ioMode' = ioMode /\ rdAt' = rdAt /\ rdBuf' = rdBuf /\ rdFree' = rdFree
      /\ rdPending' = rdPending /\ deferred' = deferred
  BY DEF ReadVars
<1>5. GetBufsOK'
  <2>1. ASSUME NEW i \in DOMAIN stack', stack'[i].k = "getbuf"
        PROVE  GetBufOn(stack[i], stack[i - 1])'
    <3>1. /\ i \in DOMAIN stack /\ stack[i].k = "getbuf"
          /\ stack'[i].write = stack[i].write /\ stack'[i].r = stack[i].r
      BY <1>1, <1>2, <2>1 DEF ReadRole
    <3>2. i # 1
      BY <3>1 DEF StackOK
    <3>3. i - 1 \in 1 .. n - 1 /\ GetBufOn(stack[i], stack[i - 1])
      BY <1>1, <3>1, <3>2 DEF ReadInv, GetBufsOK
    <3> QED
      BY <1>2, <1>3, <3>1, <3>3 DEF GetBufOn, HasBuffer
  <2> QED
    BY <2>1 DEF GetBufsOK
<1>6. InitsOK'
  <2>1. \A i \in DOMAIN stack' : stack'[i].k = "init" =>
            i \in DOMAIN stack /\ stack[i].k = "init" /\ stack'[i].r = stack[i].r
    BY <1>1, <1>2 DEF ReadRole
  <2>2. ASSUME NEW i \in DOMAIN stack', stack'[i].k = "init", stack'[i].at \in PastBuffer,
               ~UnderGetBuf(i)'
        PROVE  HasBuffer(stack[i].r)
    <3>1. stack[i].at \in PastBuffer
      BY <1>1, <1>2, <2>2 DEF ReadRole
    <3>2. ~UnderGetBuf(i)
      BY <1>1, <1>2, <2>2 DEF UnderGetBuf, ReadInv, ReadRole, GetBufsOK, GetBufOn
    <3> QED
      BY <2>1, <2>2, <3>1, <3>2 DEF ReadInv, InitsOK
  <2> QED
    BY <1>3, <2>1, <2>2 DEF ReadInv, InitsOK, HasBuffer
<1>7. QueuesOK'
  BY <1>3 DEF ReadInv, QueuesOK
<1>8. TodosOK'
  BY <1>1, <1>2, <1>3 DEF ReadInv, TodosOK, ReadRole
<1>9. ReadsKept'
  BY <1>1, <1>2, <1>3 DEF ReadInv, ReadsKept, InInit, ReadRole
<1>10. ReadBuffersConserved'
  BY <1>3 DEF ReadInv, ReadBuffersConserved
<1> QED
  BY <1>5, <1>6, <1>7, <1>8, <1>9, <1>10 DEF ReadInv

LEMMA ReadsPushes ==
    ASSUME StackOK, ReadInv, NEW f, NEW g, Pushes(stack, stack', f, g), UNCHANGED ReadVars,
           ReadRole(f, top), f.k = "getbuf" <=> top.k = "getbuf",
           g.k # "init", Todo(g) = <<>>,
           g.k = "getbuf" => g.write /\ f.k \in {"write", "flush"} /\ f.at \in Waiting
    PROVE  ReadInv'
<1> DEFINE n == Len(stack)
<1>1. Len(stack) = n /\ n \in Nat /\ n > 0 /\ DOMAIN stack = 1 .. n /\ top = stack[n]
  BY StackFacts
<1>2. /\ Len(stack') = n + 1 /\ DOMAIN stack' = 1 .. n + 1 /\ stack'[n] = f /\ stack'[n + 1] = g
      /\ \A i \in 1 .. n - 1 : stack'[i] = stack[i]
  BY StackBasics DEF Pushes
<1> HIDE DEF n
<1>3. /\ ioMode' = ioMode /\ rdAt' = rdAt /\ rdBuf' = rdBuf /\ rdFree' = rdFree
      /\ rdPending' = rdPending /\ deferred' = deferred
  BY DEF ReadVars
<1>5. GetBufsOK'
  <2>1. ASSUME NEW i \in DOMAIN stack', stack'[i].k = "getbuf", i # n + 1
        PROVE  GetBufOn(stack[i], stack[i - 1])'
    <3>1. /\ i \in DOMAIN stack /\ stack[i].k = "getbuf"
          /\ stack'[i].write = stack[i].write /\ stack'[i].r = stack[i].r
      BY <1>1, <1>2, <2>1 DEF ReadRole
    <3>2. i # 1
      BY <3>1 DEF StackOK
    <3>3. i - 1 \in 1 .. n - 1 /\ GetBufOn(stack[i], stack[i - 1])
      BY <1>1, <3>1, <3>2 DEF ReadInv, GetBufsOK
    <3> QED
      BY <1>2, <1>3, <3>1, <3>3 DEF GetBufOn, HasBuffer
  <2>2. ASSUME NEW i \in DOMAIN stack', stack'[i].k = "getbuf", i = n + 1
        PROVE  GetBufOn(stack[i], stack[i - 1])'
    BY <1>1, <1>2, <2>2 DEF GetBufOn
  <2> QED
    BY <2>1, <2>2 DEF GetBufsOK
<1>6. InitsOK'
  <2>1. \A i \in DOMAIN stack' : stack'[i].k = "init" =>
            i \in DOMAIN stack /\ stack[i].k = "init" /\ stack'[i].r = stack[i].r
    BY <1>1, <1>2 DEF ReadRole
  <2>2. ASSUME NEW i \in DOMAIN stack', stack'[i].k = "init", stack'[i].at \in PastBuffer,
               ~UnderGetBuf(i)'
        PROVE  HasBuffer(stack[i].r)
    <3>1. stack[i].at \in PastBuffer
      BY <1>1, <1>2, <2>2 DEF ReadRole
    <3>2. ~UnderGetBuf(i)
      BY <1>1, <1>2, <2>2 DEF UnderGetBuf, ReadRole
    <3> QED
      BY <2>1, <2>2, <3>1, <3>2 DEF ReadInv, InitsOK
  <2> QED
    BY <1>3, <2>1, <2>2 DEF ReadInv, InitsOK, HasBuffer
<1>7. QueuesOK'
  BY <1>3 DEF ReadInv, QueuesOK
<1>8. TodosOK'
  <2>1. DOMAIN Todo(stack'[n + 1]) = {}
    BY <1>2
  <2> QED
    BY <1>1, <1>2, <1>3, <2>1 DEF ReadInv, TodosOK, ReadRole
<1>9. ReadsKept'
  BY <1>1, <1>2, <1>3 DEF ReadInv, ReadsKept, InInit, ReadRole
<1>10. ReadBuffersConserved'
  BY <1>3 DEF ReadInv, ReadBuffersConserved
<1> QED
  BY <1>5, <1>6, <1>7, <1>8, <1>9, <1>10 DEF ReadInv

LEMMA ReadsPops ==
    ASSUME StackOK, ReadInv, Pops(stack, stack'), UNCHANGED ReadVars,
           top.k \notin {"main", "init"}, Todo(top) = <<>>, top.k = "getbuf" => top.write
    PROVE  ReadInv'
<1> DEFINE n == Len(stack)
<1>1. Len(stack) = n /\ n \in Nat /\ n > 1 /\ DOMAIN stack = 1 .. n /\ top = stack[n]
  BY StackFacts, StackPops
<1>2. /\ Len(stack') = n - 1 /\ DOMAIN stack' = 1 .. n - 1
      /\ \A i \in 1 .. n - 1 : stack'[i] = stack[i]
  BY StackBasics DEF Pops
<1> HIDE DEF n
<1>3. /\ ioMode' = ioMode /\ rdAt' = rdAt /\ rdBuf' = rdBuf /\ rdFree' = rdFree
      /\ rdPending' = rdPending /\ deferred' = deferred
  BY DEF ReadVars
<1>5. GetBufsOK'
  <2>1. ASSUME NEW i \in DOMAIN stack', stack'[i].k = "getbuf"
        PROVE  GetBufOn(stack[i], stack[i - 1])'
    <3>1. /\ i \in DOMAIN stack /\ stack[i].k = "getbuf"
          /\ stack'[i].write = stack[i].write /\ stack'[i].r = stack[i].r
      BY <1>1, <1>2, <2>1
    <3>2. i # 1
      BY <3>1 DEF StackOK
    <3>3. i - 1 \in 1 .. n - 1 /\ GetBufOn(stack[i], stack[i - 1])
      BY <1>1, <3>1, <3>2 DEF ReadInv, GetBufsOK
    <3> QED
      BY <1>2, <1>3, <3>1, <3>3 DEF GetBufOn, HasBuffer
  <2> QED
    BY <2>1 DEF GetBufsOK
<1>6. InitsOK'
  <2>1. \A i \in DOMAIN stack' : stack'[i].k = "init" =>
            i \in DOMAIN stack /\ stack[i].k = "init" /\ stack'[i].r = stack[i].r
    BY <1>1, <1>2
  <2>2. ASSUME NEW i \in DOMAIN stack', stack'[i].k = "init", stack'[i].at \in PastBuffer,
               ~UnderGetBuf(i)'
        PROVE  HasBuffer(stack[i].r)
    <3>1. stack[i].at \in PastBuffer
      BY <1>1, <1>2, <2>2
    <3>2. ~UnderGetBuf(i)
      BY <1>1, <1>2, <2>2 DEF UnderGetBuf, ReadInv, GetBufsOK, GetBufOn
    <3> QED
      BY <2>1, <2>2, <3>1, <3>2 DEF ReadInv, InitsOK
  <2> QED
    BY <1>3, <2>1, <2>2 DEF ReadInv, InitsOK, HasBuffer
<1>7. QueuesOK'
  BY <1>3 DEF ReadInv, QueuesOK
<1>8. TodosOK'
  BY <1>1, <1>2, <1>3 DEF ReadInv, TodosOK
<1>9. ReadsKept'
  BY <1>1, <1>2, <1>3 DEF ReadInv, ReadsKept, InInit
<1>10. ReadBuffersConserved'
  BY <1>3 DEF ReadInv, ReadBuffersConserved
<1> QED
  BY <1>5, <1>6, <1>7, <1>8, <1>9, <1>10 DEF ReadInv

----------------------------------------------------------------------------
\* Steps that begin and end no node
LEMMA NodesSame ==
    ASSUME StackOK, NodesKept, nodes' = nodes, nodeAt' = nodeAt, NEW f, NEW g,
           \/ Tops(stack, stack', f) /\ (top.k = "write" => f.k = "write" /\ f.n = top.n)
           \/ Pushes(stack, stack', f, g) /\ (top.k = "write" => f.k = "write" /\ f.n = top.n)
           \/ Pops(stack, stack') /\ top.k \notin {"write", "main"}
    PROVE  NodesKept'
<1> DEFINE n == Len(stack)
<1>1. Len(stack) = n /\ n \in Nat /\ n > 0 /\ DOMAIN stack = 1 .. n /\ top = stack[n]
  BY StackFacts
<1>2. \/ /\ DOMAIN stack' = 1 .. n \/ DOMAIN stack' = 1 .. n + 1
         /\ \A i \in 1 .. n - 1 : stack'[i] = stack[i]
         /\ stack'[n] = f /\ (top.k = "write" => f.k = "write" /\ f.n = top.n)
      \/ /\ DOMAIN stack' = 1 .. n - 1 /\ \A i \in 1 .. n - 1 : stack'[i] = stack[i]
         /\ top.k # "write"
  BY StackBasics DEF Tops, Pushes, Pops
<1> HIDE DEF n
<1>3. \A i \in DOMAIN stack : stack[i].k = "write" =>
          i \in DOMAIN stack' /\ stack'[i].k = "write" /\ stack'[i].n = stack[i].n
  BY <1>1, <1>2
<1> QED
  BY <1>3 DEF NodesKept

\* A step above main, where it does not wait or flush: when nobody reads nobody begins to.
LEMMA PhaseAbove ==
    ASSUME StackOK, PhaseOK, top.k \notin {"main", "wait", "flush"}, NEW f, NEW g,
           flushed' = flushed, DOMAIN writer' = Writers, writer' = writer \/ top.k = "write",
           Quiet => \A r \in Reads : rdAt'[r] \in {"none", "done"},
           \/ Tops(stack, stack', f) /\ (f.k \in {"write", "receiver"} => top.k = f.k)
           \/ /\ Pushes(stack, stack', f, g) /\ (f.k \in {"write", "receiver"} => top.k = f.k)
              /\ Quiet => g.k \notin {"write", "receiver"}
           \/ Pops(stack, stack')
    PROVE  PhaseOK' /\ ~flushed'
<1> DEFINE n == Len(stack)
<1>1. Len(stack) = n /\ n \in Nat /\ n > 0 /\ DOMAIN stack = 1 .. n /\ top = stack[n]
  BY StackFacts
<1>2. n > 1
  BY <1>1 DEF StackOK
<1>3. /\ \A i \in 1 .. n - 1 : stack'[i] = stack[i]
      /\ \/ Len(stack') = n /\ DOMAIN stack' = 1 .. n /\ stack'[n] = f
            /\ (f.k \in {"write", "receiver"} => top.k = f.k)
         \/ Len(stack') = n + 1 /\ DOMAIN stack' = 1 .. n + 1 /\ stack'[n] = f /\ stack'[n + 1] = g
            /\ (f.k \in {"write", "receiver"} => top.k = f.k)
            /\ (Quiet => g.k \notin {"write", "receiver"})
         \/ Len(stack') = n - 1 /\ DOMAIN stack' = 1 .. n - 1
  BY StackBasics DEF Tops, Pushes, Pops
<1> HIDE DEF n
<1>4. ~flushed /\ stack'[1] = stack[1]
  BY <1>1, <1>2, <1>3 DEF PhaseOK
<1>5. Quiet => Quiet'
  <2>1. ASSUME Quiet, NEW i \in DOMAIN stack' PROVE stack'[i].k # "receiver"
    <3>1. top.k # "receiver"
      BY <1>1, <2>1 DEF Quiet
    <3>2. i = n + 1 \/ i = n \/ i \in 1 .. n - 1
      BY <1>1, <1>3
    <3>3. CASE i \in 1 .. n - 1
      BY <1>1, <1>3, <2>1, <3>3 DEF Quiet
    <3>4. CASE i = n
      BY <1>1, <1>2, <1>3, <2>1, <3>1, <3>4
    <3>5. CASE i = n + 1
      BY <1>1, <1>2, <1>3, <2>1, <3>1, <3>5
    <3> QED
      BY <3>2, <3>3, <3>4, <3>5
  <2> QED
    BY <2>1 DEF Quiet
<1>6. stack[1].at \in {"root", "flushed"} => n >= 3 /\ stack'[2] = stack[2] /\ Len(stack') # 1
  <2>1. stack[1].at \in {"root", "flushed"} => n # 2
    BY <1>1 DEF PhaseOK
  <2> QED
    BY <1>1, <1>2, <1>3, <2>1
<1>7. stack[1].at = "root" => (IF Len(stack) = 1 THEN Quiet ELSE stack[2].k = "wait")'
  BY <1>1, <1>2, <1>6 DEF PhaseOK
<1>8. ASSUME stack[1].at = "flushed"
      PROVE  /\ \A i \in DOMAIN stack' : stack'[i].k # "write"
             /\ writer' = writer
  <2>1. Quiet /\ top.k # "write" /\ \A i \in DOMAIN stack : stack[i].k # "write"
    BY <1>1, <1>8 DEF PhaseOK
  <2>2. ASSUME NEW i \in DOMAIN stack' PROVE stack'[i].k # "write"
    <3>2. i = n + 1 \/ i = n \/ i \in 1 .. n - 1
      BY <1>1, <1>3
    <3>3. CASE i \in 1 .. n - 1
      BY <1>1, <1>3, <2>1, <3>3
    <3>4. CASE i = n
      BY <1>1, <1>2, <1>3, <2>1, <3>4
    <3>5. CASE i = n + 1
      BY <1>1, <1>2, <1>3, <2>1, <3>5
    <3> QED
      BY <3>2, <3>3, <3>4, <3>5
  <2> QED
    BY <2>1, <2>2
<1>9. stack[1].at = "flushed" =>
        (/\ \A i \in DOMAIN stack : stack[i].k # "write"
         /\ IF Len(stack) = 1 THEN inflightWr = 0 /\ Emptied("fast") /\ Emptied("slow")
            ELSE /\ stack[2].k \in {"wait", "flush"}
                 /\ stack[2].k = "flush" /\ stack[2].list = "slow" => Emptied("fast")
                 /\ stack[2].k = "wait" => Emptied("fast") /\ Emptied("slow"))'
  BY <1>1, <1>2, <1>6, <1>8 DEF PhaseOK, Emptied
<1> QED
  BY <1>4, <1>5, <1>7, <1>9 DEF PhaseOK

----------------------------------------------------------------------------
(***************************************************************************)
(* The core of the invariant over a step that does not concern reads: the  *)
(* frames say how the counts change.                                       *)
(***************************************************************************)
Plain == /\ UNCHANGED ReadVars /\ wrLanded' = wrLanded
         /\ within' \in Int /\ wrFree' \in Int /\ inflightWr' \in Int /\ inflightWr' >= inflightWr

LEMMA PlainNumbers ==
    ASSUME NumbersOK, Plain
    PROVE  NumbersOK'
BY DEF NumbersOK, Plain, ReadVars

\* Write buffers in terms of the frames that hold one
LEMMA Buffers == WriteBuffersConserved <=> wrFree + inflightWr + 2 + Cardinality(Holders) = WriteBufs
BY DEF WriteBuffersConserved, Holders

LEMMA HoldersCount ==
    ASSUME StackOK
    PROVE  Cardinality(Holders) \in Nat
<1>1. IsFiniteSet(Holders)
  BY DepthFinite DEF Holders
<1> QED
  BY <1>1, FS_CardinalityType

LEMMA CompletingCount ==
    ASSUME StackOK
    PROVE  Cardinality(Completing) \in Nat
<1>1. IsFiniteSet(Completing)
  BY DepthFinite DEF Completing
<1> QED
  BY <1>1, FS_CardinalityType

\* The sum of the write buffers, when the frames that hold one change by a - b.
LEMMA Balance ==
    ASSUME StackOK, WriteBuffersConserved, NumbersOK, wrFree' \in Int, inflightWr' \in Int,
           NEW a \in Int, NEW b \in Int, Cardinality(Holders') = Cardinality(Holders) + a - b,
           wrFree' + inflightWr' + a = wrFree + inflightWr + b
    PROVE  WriteBuffersConserved'
<1> DEFINE h == Cardinality(Holders)
           hh == Cardinality(Holders')
<1>1. wrFree + inflightWr + 2 + h = WriteBufs
  BY Buffers
<1>2. h \in Int /\ wrFree \in Int /\ inflightWr \in Int /\ hh = h + a - b
  BY HoldersCount DEF NumbersOK
<1> HIDE DEF h, hh
<1>3. PICK w \in Int, i \in Int : w = wrFree' /\ i = inflightWr'
  OBVIOUS
<1>4. w + i + a = wrFree + inflightWr + b
  BY <1>3
<1>5. w + i + 2 + hh = WriteBufs
  BY <1>1, <1>2, <1>4
<1> QED
  BY <1>3, <1>5 DEF WriteBuffersConserved, Holders, hh

\* The core of the invariant when the frame on the top changes ...
LEMMA FrameTops ==
    ASSUME CoreInv, ReadInv', NumbersOK', LandedOK', nodes' = nodes, nodeAt' = nodeAt,
           NEW f, Tops(stack, stack', f), FrameOK(f),
           f.k = "main" <=> top.k = "main", f.k \in {"wait", "flush"} => top.k \in {"wait", "flush"},
           f.k = "getbuf" <=> top.k = "getbuf",
           top.k = "write" => f.k = "write" /\ f.n = top.n,
           within' = within + Bit(InCompletions(f)) - Bit(InCompletions(top)),
           wrFree' + inflightWr' + Bit(IsHolder(f)) = wrFree + inflightWr + Bit(IsHolder(top))
    PROVE  CoreInv'
<1>1. /\ Len(stack) \in Nat /\ Len(stack) > 0 /\ DOMAIN stack = 1 .. Len(stack)
      /\ top = stack[Len(stack)]
  BY StackFacts DEF CoreInv
<1>2. (top.k = "main" <=> Len(stack) = 1) /\ (top.k \in {"wait", "flush"} => Len(stack) = 2)
  BY <1>1 DEF CoreInv, StackOK
<1>3. StackOK'
  BY <1>2, StackTops DEF CoreInv
<1>4. WriteBuffersConserved'
  <2> DEFINE a == Bit(IsHolder(f))
             b == Bit(IsHolder(top))
  <2>1. Cardinality(Holders') = Cardinality(Holders) + a - b
    BY HoldTops DEF CoreInv
  <2>2. /\ a \in Int /\ b \in Int /\ wrFree' \in Int /\ inflightWr' \in Int
        /\ wrFree' + inflightWr' + a = wrFree + inflightWr + b
    BY DEF Bit, NumbersOK
  <2> HIDE DEF a, b
  <2> QED
    BY <2>1, <2>2, Balance DEF CoreInv
<1>5. WithinOK'
  BY WithinTops DEF CoreInv, WithinOK
<1>6. NodesKept'
  BY NodesSame DEF CoreInv
<1> QED
  BY <1>3, <1>4, <1>5, <1>6 DEF CoreInv

\* ... when one is pushed ...
LEMMA FramePushes ==
    ASSUME CoreInv, ReadInv', NumbersOK', LandedOK',
           NodesKept' \/ (nodes' = nodes /\ nodeAt' = nodeAt),
           NEW f, NEW g, Pushes(stack, stack', f, g), FrameOK(f), FrameOK(g),
           f.k = "main" <=> top.k = "main", f.k \in {"wait", "flush"} => top.k \in {"wait", "flush"},
           f.k = "getbuf" <=> top.k = "getbuf",
           top.k = "write" => f.k = "write" /\ f.n = top.n,
           g.k # "main", g.k \in {"wait", "flush"} => top.k = "main",
           ~IsHolder(g),
           InCompletions(f) <=> InCompletions(top),
           within' = within + Bit(InCompletions(g)),
           wrFree' + inflightWr' + Bit(IsHolder(f) /\ g.k # "getbuf")
               = wrFree + inflightWr + Bit(IsHolder(top))
    PROVE  CoreInv'
<1>1. /\ Len(stack) \in Nat /\ Len(stack) > 0 /\ DOMAIN stack = 1 .. Len(stack)
      /\ top = stack[Len(stack)]
  BY StackFacts DEF CoreInv
<1>2. (top.k = "main" <=> Len(stack) = 1) /\ (top.k \in {"wait", "flush"} => Len(stack) = 2)
  BY <1>1 DEF CoreInv, StackOK
<1>3. StackOK'
  BY <1>2, StackPushes DEF CoreInv
<1>4. WriteBuffersConserved'
  <2> DEFINE a == Bit(IsHolder(f) /\ g.k # "getbuf")
             b == Bit(IsHolder(top))
  <2>1. Cardinality(Holders') = Cardinality(Holders) + a - b
    BY HoldPushes DEF CoreInv
  <2>2. a \in Int /\ b \in Int /\ wrFree' \in Int /\ inflightWr' \in Int
    BY DEF Bit, NumbersOK
  <2>3. wrFree' + inflightWr' + a = wrFree + inflightWr + b
    OBVIOUS
  <2> HIDE DEF a, b
  <2> QED
    BY <2>1, <2>2, <2>3, Balance DEF CoreInv
<1>5. WithinOK'
  BY WithinPushes DEF CoreInv, WithinOK
<1>6. NodesKept'
  BY NodesSame DEF CoreInv
<1> QED
  BY <1>3, <1>4, <1>5, <1>6 DEF CoreInv

\* ... and when one returns.
LEMMA FramePops ==
    ASSUME CoreInv, ReadInv', NumbersOK', LandedOK', NodesKept', Pops(stack, stack'),
           top.k \notin {"main", "getbuf"}, ~IsHolder(top),
           within' = within - Bit(InCompletions(top)), wrFree' + inflightWr' = wrFree + inflightWr
    PROVE  CoreInv'
<1>1. StackOK'
  BY StackPops DEF CoreInv
<1>2. WriteBuffersConserved'
  <2>1. Cardinality(Holders') = Cardinality(Holders) - Bit(IsHolder(top))
    BY HoldPops DEF CoreInv
  <2>2. Bit(IsHolder(top)) = 0 /\ Cardinality(Holders) \in Nat
    BY HoldersCount DEF CoreInv, Bit
  <2>3. Cardinality(Holders') = Cardinality(Holders) + 0 - 0
    BY <2>1, <2>2
  <2>4. /\ wrFree' \in Int /\ inflightWr' \in Int
        /\ wrFree' + inflightWr' + 0 = wrFree + inflightWr + 0
    BY DEF CoreInv, NumbersOK
  <2> QED
    BY <2>3, <2>4, Balance DEF CoreInv
<1>3. WithinOK'
  BY WithinPops DEF CoreInv, WithinOK
<1> QED
  BY <1>1, <1>2, <1>3 DEF CoreInv

\* The same over steps that leave reads alone.
LEMMA CoreTops ==
    ASSUME CoreInv, Plain, nodes' = nodes, nodeAt' = nodeAt,
           NEW f, Tops(stack, stack', f), FrameOK(f), ReadRole(f, top),
           f.k = "main" <=> top.k = "main", f.k \in {"wait", "flush"} => top.k \in {"wait", "flush"},
           f.k = "getbuf" <=> top.k = "getbuf",
           top.k = "write" => f.k = "write" /\ f.n = top.n,
           \A q : LandedOf(f, q) <=> LandedOf(top, q),
           within' = within + Bit(InCompletions(f)) - Bit(InCompletions(top)),
           wrFree' + inflightWr' + Bit(IsHolder(f)) = wrFree + inflightWr + Bit(IsHolder(top))
    PROVE  CoreInv'
<1>1. ReadInv'
  BY ReadsTops DEF CoreInv, Plain
<1>2. NumbersOK'
  BY PlainNumbers DEF CoreInv
<1>3. LandedOK'
  <2>1. LandedWrites' = LandedWrites
    BY LandedSame DEF CoreInv
  <2> QED
    BY <2>1 DEF CoreInv, LandedOK, Plain, NumbersOK
<1> QED
  BY <1>1, <1>2, <1>3, FrameTops

LEMMA CorePushes ==
    ASSUME CoreInv, Plain, NodesKept' \/ (nodes' = nodes /\ nodeAt' = nodeAt),
           NEW f, NEW g, Pushes(stack, stack', f, g), FrameOK(f), FrameOK(g), ReadRole(f, top),
           f.k = "main" <=> top.k = "main", f.k \in {"wait", "flush"} => top.k \in {"wait", "flush"},
           f.k = "getbuf" <=> top.k = "getbuf",
           top.k = "write" => f.k = "write" /\ f.n = top.n,
           g.k \notin {"main", "init"}, g.k \in {"wait", "flush"} => top.k = "main",
           Todo(g) = <<>>, ~IsHolder(g), g.k = "getbuf" => g.write /\ IsHolder(f),
           \A q : LandedOf(f, q) <=> LandedOf(top, q),
           InCompletions(f) <=> InCompletions(top),
           within' = within + Bit(InCompletions(g)),
           wrFree' + inflightWr' + Bit(IsHolder(f) /\ g.k # "getbuf")
               = wrFree + inflightWr + Bit(IsHolder(top))
    PROVE  CoreInv'
<1>1. ReadInv'
  <2>1. g.k = "getbuf" => g.write /\ f.k \in {"write", "flush"} /\ f.at \in Waiting
    BY DEF IsHolder
  <2> QED
    BY <2>1, ReadsPushes DEF CoreInv, Plain
<1>2. NumbersOK'
  BY PlainNumbers DEF CoreInv
<1>3. LandedOK'
  <2>1. LandedWrites' = LandedWrites
    BY LandedSame DEF CoreInv
  <2> QED
    BY <2>1 DEF CoreInv, LandedOK, Plain, NumbersOK
<1> QED
  BY <1>1, <1>2, <1>3, FramePushes

LEMMA CorePops ==
    ASSUME CoreInv, Plain, Pops(stack, stack'), NodesKept',
           top.k \notin {"main", "init", "getbuf"}, Todo(top) = <<>>, ~IsHolder(top),
           within' = within - Bit(InCompletions(top)), wrFree' + inflightWr' = wrFree + inflightWr
    PROVE  CoreInv'
<1>1. ReadInv'
  BY ReadsPops DEF CoreInv, Plain
<1>2. NumbersOK'
  BY PlainNumbers DEF CoreInv
<1>3. LandedOK'
  <2>1. LandedWrites' = LandedWrites
    BY LandedSame DEF CoreInv
  <2> QED
    BY <2>1 DEF CoreInv, LandedOK, Plain, NumbersOK
<1> QED
  BY <1>1, <1>2, <1>3, FramePops

\* A frame that goes on plays the same part for reads and completed writes.
LEMMA SameIsPlain ==
    ASSUME NEW f, NEW h, Same(f, h), f.k = "init" => (f.at \in PastBuffer => h.at \in PastBuffer)
    PROVE  ReadRole(f, h) /\ (\A q : LandedOf(f, q) <=> LandedOf(h, q))
<1>1. Todo(f) = Todo(h)
  BY DEF Same, Todo
<1>2. \A q : LandedOf(f, q) <=> LandedOf(h, q)
  <2>1. f.k = "poll" => f.n = h.n
    BY DEF Same
  <2>2. f.k # "poll" => DOMAIN Todo(f) = {}
    BY DEF Todo
  <2> QED
    BY <1>1, <2>1, <2>2 DEF LandedOf
<1> QED
  BY <1>1, <1>2 DEF Same, ReadRole

\* Until main has flushed there is nothing to show of the disk.
LEMMA Finish ==
    ASSUME CoreInv', PhaseOK', ~flushed'
    PROVE  NodeWritersInv'
BY DEF NodeWritersInv, FlushedIsDurable

\* The frames that are called
LEMMA PollFrameFacts ==
    ASSUME NEW b, NEW m, NEW g, g = PollFrame(b, m)
    PROVE  FrameOK(g) /\ g.k = "poll" /\ g.at = "enter" /\ Todo(g) = <<>> /\ ~IsHolder(g)
           /\ ~InCompletions(g)
BY DEF PollFrame, FrameOK, Todo, IsHolder, InCompletions

LEMMA PendingFrameFacts ==
    ASSUME NEW l, NEW g, g = PendingFrame(l)
    PROVE  FrameOK(g) /\ g.k = "pending" /\ Todo(g) = <<>> /\ ~IsHolder(g) /\ InCompletions(g)
BY DEF PendingFrame, FrameOK, Todo, IsHolder, InCompletions

LEMMA GetBufFrameFacts ==
    ASSUME NEW w \in BOOLEAN, NEW r, NEW g, g = GetBufFrame(w, r)
    PROVE  FrameOK(g) /\ g.k = "getbuf" /\ g.at = "enter" /\ g.write = w /\ g.r = r
           /\ Todo(g) = <<>> /\ ~IsHolder(g) /\ ~InCompletions(g)
BY DEF GetBufFrame, FrameOK, Todo, IsHolder, InCompletions

LEMMA InitFrameFacts ==
    ASSUME NEW r \in Reads, NEW never \in BOOLEAN, NEW g, g = InitFrame(r, never)
    PROVE  FrameOK(g) /\ g.k = "init" /\ g.at \notin PastBuffer /\ g.r = r
           /\ Todo(g) = <<>> /\ ~IsHolder(g) /\ ~InCompletions(g)
BY DEF InitFrame, FrameOK, Todo, IsHolder, InCompletions, PastBuffer

----------------------------------------------------------------------------
(***************************************************************************)
(* Steps of the i/o that do not concern reads                              *)
(***************************************************************************)
LEMMA PollGetNoneStep ==
    ASSUME NodeWritersInv, PollGetNone, UNCHANGED nwVars
    PROVE  NodeWritersInv'
<1> USE DEF NodeWritersInv
<1>1. top.k = "poll" /\ top.at = "get" /\ Goto_("process")
  BY DEF PollGetNone, Running
<1>2. PICK f : Tops(stack, stack', f) /\ Same(f, top) /\ f.at = "process"
  BY <1>1, GoesTo DEF CoreInv
<1>3. f.k = "poll" /\ FrameOK(f) /\ ReadRole(f, top) /\ \A q : LandedOf(f, q) <=> LandedOf(top, q)
  BY <1>1, <1>2, SameIsPlain DEF Same
<1>4. Plain /\ within' = within /\ wrFree' = wrFree /\ inflightWr' = inflightWr /\ rdAt' = rdAt
      /\ writer' = writer /\ nodes' = nodes /\ nodeAt' = nodeAt /\ flushed' = flushed
  BY DEF PollGetNone, Plain, ReadVars, nwVars, CoreInv, NumbersOK
<1>5. CoreInv'
  BY <1>1, <1>2, <1>3, <1>4, CoreTops DEF CoreInv, NumbersOK, InCompletions, IsHolder, Bit
<1>6. PhaseOK' /\ ~flushed'
  BY <1>1, <1>2, <1>3, <1>4, PhaseAbove DEF CoreInv, Quiet, PhaseOK
<1> QED
  BY <1>5, <1>6, Finish

\* What stays of a step of AsyncIO
IoKept == /\ writer' = writer /\ nodes' = nodes /\ nodeAt' = nodeAt /\ flushed' = flushed

LEMMA MakeRoomStep ==
    ASSUME NodeWritersInv, MakeRoom, UNCHANGED nwVars
    PROVE  NodeWritersInv'
<1> USE DEF NodeWritersInv
<1>1. top.k = "init" /\ top.at \in PastBuffer /\ Call_("again", PollFrame(FALSE, 0))
  BY DEF MakeRoom, Running, PastBuffer
<1> DEFINE g == PollFrame(FALSE, 0)
<1>2. PICK f : Pushes(stack, stack', f, g) /\ Same(f, top) /\ f.at = "again"
  BY <1>1, CallsFrom DEF CoreInv
<1>3. f.k = "init" /\ FrameOK(f) /\ ReadRole(f, top) /\ \A q : LandedOf(f, q) <=> LandedOf(top, q)
  BY <1>1, <1>2, SameIsPlain DEF Same
<1>4. FrameOK(g) /\ g.k = "poll" /\ Todo(g) = <<>> /\ ~IsHolder(g) /\ ~InCompletions(g)
  BY PollFrameFacts
<1> HIDE DEF g
<1>5. /\ Plain /\ within' = within /\ wrFree' = wrFree /\ inflightWr' = inflightWr /\ rdAt' = rdAt
      /\ IoKept
  BY DEF MakeRoom, Plain, ReadVars, nwVars, CoreInv, NumbersOK, IoKept
<1>6. CoreInv'
  BY <1>1, <1>2, <1>3, <1>4, <1>5, CorePushes
     DEF CoreInv, NumbersOK, InCompletions, IsHolder, Bit, IoKept
<1>7. PhaseOK' /\ ~flushed'
  BY <1>1, <1>2, <1>3, <1>4, <1>5, PhaseAbove DEF CoreInv, Quiet, PhaseOK, IoKept
<1> QED
  BY <1>6, <1>7, Finish

LEMMA GetBufEnterStep ==
    ASSUME NodeWritersInv, GetBufEnter, UNCHANGED nwVars
    PROVE  NodeWritersInv'
<1> USE DEF NodeWritersInv
<1>1. top.k = "getbuf" /\ top.at = "enter" /\ Goto_("poll")
  BY DEF GetBufEnter, Running
<1>2. PICK f : Tops(stack, stack', f) /\ Same(f, top) /\ f.at = "poll"
  BY <1>1, GoesTo DEF CoreInv
<1>3. f.k = "getbuf" /\ FrameOK(f) /\ ReadRole(f, top)
      /\ \A q : LandedOf(f, q) <=> LandedOf(top, q)
  BY <1>1, <1>2, SameIsPlain DEF Same
<1>4. /\ Plain /\ within' = within + 1 /\ wrFree' = wrFree /\ inflightWr' = inflightWr
      /\ rdAt' = rdAt /\ IoKept
  BY DEF GetBufEnter, Plain, ReadVars, nwVars, CoreInv, NumbersOK, IoKept
<1>5. CoreInv'
  BY <1>1, <1>2, <1>3, <1>4, CoreTops DEF CoreInv, NumbersOK, InCompletions, IsHolder, Bit, IoKept
<1>6. PhaseOK' /\ ~flushed'
  BY <1>1, <1>2, <1>3, <1>4, PhaseAbove DEF CoreInv, Quiet, PhaseOK, IoKept
<1> QED
  BY <1>5, <1>6, Finish

LEMMA GetBufPollStep ==
    ASSUME NodeWritersInv, GetBufPoll, UNCHANGED nwVars
    PROVE  NodeWritersInv'
<1> USE DEF NodeWritersInv
<1> DEFINE m == IF top.write THEN 1 ELSE 2
           g == PollFrame(TRUE, m)
<1>1. top.k = "getbuf" /\ top.at = "poll" /\ Call_("alloc", g)
  BY DEF GetBufPoll, Running
<1> HIDE DEF m
<1>4. FrameOK(g) /\ g.k = "poll" /\ Todo(g) = <<>> /\ ~IsHolder(g) /\ ~InCompletions(g)
  BY PollFrameFacts
<1> HIDE DEF g
<1>2. PICK f : Pushes(stack, stack', f, g) /\ Same(f, top) /\ f.at = "alloc"
  BY <1>1, CallsFrom DEF CoreInv
<1>3. f.k = "getbuf" /\ FrameOK(f) /\ ReadRole(f, top)
      /\ \A q : LandedOf(f, q) <=> LandedOf(top, q)
  BY <1>1, <1>2, SameIsPlain DEF Same
<1>8. UNCHANGED <<ioMode, rdAt, rdBuf, rdFree, wrFree, rdPending, inflightWr, wrLanded,
                  deferred, within>>
  BY DEF GetBufPoll
<1>5. /\ Plain /\ within' = within /\ wrFree' = wrFree /\ inflightWr' = inflightWr /\ rdAt' = rdAt
      /\ IoKept
  BY <1>8 DEF Plain, ReadVars, nwVars, CoreInv, NumbersOK, IoKept
<1>6. CoreInv'
  BY <1>1, <1>2, <1>3, <1>4, <1>5, CorePushes
     DEF CoreInv, NumbersOK, InCompletions, IsHolder, Bit, IoKept
<1>7. PhaseOK' /\ ~flushed'
  BY <1>1, <1>2, <1>3, <1>4, <1>5, PhaseAbove DEF CoreInv, Quiet, PhaseOK, IoKept
<1> QED
  BY <1>6, <1>7, Finish

LEMMA PollExitStep ==
    ASSUME NodeWritersInv, PollExit, UNCHANGED nwVars
    PROVE  NodeWritersInv'
<1> USE DEF NodeWritersInv
<1>1. top.k = "poll" /\ top.at = "process" /\ top.todo = <<>> /\ LeaveCompletions
  BY DEF PollExit, Running
<1>2. Todo(top) = <<>> /\ InCompletions(top) /\ ~IsHolder(top)
  BY <1>1 DEF Todo, InCompletions, IsHolder
<1>3. /\ UNCHANGED ReadVars /\ wrLanded' = wrLanded /\ wrFree' = wrFree /\ inflightWr' = inflightWr
      /\ wrFree \in Int /\ inflightWr \in Int /\ within \in Int /\ rdAt' = rdAt /\ IoKept
  BY DEF PollExit, ReadVars, nwVars, CoreInv, NumbersOK, IoKept
<1>4. CASE within' = within /\ Become(PendingFrame(Last(deferred)))
  <2> DEFINE f == PendingFrame(Last(deferred))
  <2>1. FrameOK(f) /\ f.k = "pending" /\ Todo(f) = <<>> /\ ~IsHolder(f) /\ InCompletions(f)
    BY PendingFrameFacts
  <2>2. Tops(stack, stack', f)
    BY <1>4, BecomesFrame DEF CoreInv, Become
  <2> HIDE DEF f
  <2>3. ReadRole(f, top) /\ \A q : LandedOf(f, q) <=> LandedOf(top, q)
    BY <1>1, <1>2, <2>1 DEF ReadRole, LandedOf
  <2>4. Plain
    BY <1>3, <1>4 DEF Plain
  <2>5. CoreInv'
    BY <1>1, <1>2, <1>3, <1>4, <2>1, <2>2, <2>3, <2>4, CoreTops DEF Bit, IoKept
  <2>6. PhaseOK' /\ ~flushed'
    BY <1>1, <1>3, <2>1, <2>2, PhaseAbove DEF CoreInv, Quiet, PhaseOK, IoKept
  <2> QED
    BY <2>5, <2>6, Finish
<1>5. CASE within' = within - 1 /\ Return
  <2>1. Pops(stack, stack')
    BY <1>5, ReturnShape DEF CoreInv
  <2>2. NodesKept'
    BY <1>1, <1>3, <2>1, NodesSame DEF CoreInv, IoKept
  <2>3. Plain
    BY <1>3, <1>5 DEF Plain
  <2>4. CoreInv'
    BY <1>1, <1>2, <1>3, <1>5, <2>1, <2>2, <2>3, CorePops DEF Bit
  <2>5. PhaseOK' /\ ~flushed'
    BY <1>1, <1>3, <2>1, PhaseAbove DEF CoreInv, Quiet, PhaseOK, IoKept
  <2> QED
    BY <2>4, <2>5, Finish
<1> QED
  BY <1>1, <1>4, <1>5 DEF LeaveCompletions

----------------------------------------------------------------------------
(***************************************************************************)
(* Read buffers                                                            *)
(***************************************************************************)
LEMMA BufFinite ==
    ASSUME rdBuf \subseteq Reads
    PROVE  IsFiniteSet(rdBuf) /\ Cardinality(rdBuf) \in Nat
<1>1. IsFiniteSet(Reads)
  BY AsyncIOAssumption
<1>2. IsFiniteSet(rdBuf)
  BY <1>1, FS_Subset
<1> QED
  BY <1>2, FS_CardinalityType

\* A configuration
LEMMA ModeFacts ==
    ASSUME NumbersOK
    PROVE  /\ ioMode.bufs \in Nat /\ ioMode.long \subseteq Reads /\ ioMode.limit \in Nat
           /\ rdBuf \subseteq Reads /\ rdFree \in Int
BY AsyncIOAssumption DEF NumbersOK

\* A read that had no buffer gets one.
LEMMA BufferGot ==
    ASSUME ReadBuffersConserved, NumbersOK, NEW r \in Reads, ~HasBuffer(r), rdAt[r] # "done",
           rdBuf' = rdBuf \cup {r}, rdFree' = rdFree - 1, rdAt' = rdAt, ioMode' = ioMode
    PROVE  ReadBuffersConserved'
<1>1. IsFiniteSet(rdBuf) /\ Cardinality(rdBuf) \in Nat /\ rdFree \in Int /\ ioMode.bufs \in Nat
  BY BufFinite, ModeFacts
<1>2. r \notin rdBuf
  BY DEF HasBuffer
<1>3. Cardinality(rdBuf \cup {r}) = Cardinality(rdBuf) + 1
  BY <1>1, <1>2, FS_AddElement
<1>4. rdFree + Cardinality(rdBuf) = ioMode.bufs
  BY DEF ReadBuffersConserved
<1>5. rdFree' + Cardinality(rdBuf') = ioMode'.bufs
  BY <1>1, <1>3, <1>4
<1>6. \A x \in Reads \ ioMode.long :
        /\ rdAt[x] \in {"pending", "flight", "landed"} => x \in rdBuf
        /\ rdAt[x] = "done" => x \notin rdBuf
  BY DEF ReadBuffersConserved
<1>7. \A x \in Reads \ ioMode'.long :
        /\ rdAt'[x] \in {"pending", "flight", "landed"} => x \in rdBuf'
        /\ rdAt'[x] = "done" => x \notin rdBuf'
  BY <1>6
<1> QED
  BY <1>5, <1>7 DEF ReadBuffersConserved

----------------------------------------------------------------------------
\* The end of a wait for a buffer
LEMMA LeaveShape ==
    ASSUME StackOK, LeaveCompletions
    PROVE  \E f : /\ FrameOK(f) /\ f.k = "pending" /\ Todo(f) = <<>> /\ ~IsHolder(f)
                  /\ InCompletions(f)
                  /\ \/ Tops(stack, stack', f) /\ within' = within
                     \/ Pops(stack, stack') /\ within' = within - 1
<1> DEFINE f == PendingFrame(Last(deferred))
<1>1. FrameOK(f) /\ f.k = "pending" /\ Todo(f) = <<>> /\ ~IsHolder(f) /\ InCompletions(f)
  BY PendingFrameFacts
<1>2. Become(f) => Tops(stack, stack', f)
  BY BecomesFrame DEF Become
<1> HIDE DEF f
<1>3. CASE within = 1 /\ deferred # <<>>
  <2>1. Become(PendingFrame(Last(deferred))) /\ within' = within
    BY <1>3 DEF LeaveCompletions
  <2> QED
    BY <1>1, <1>2, <2>1 DEF f
<1>4. CASE ~(within = 1 /\ deferred # <<>>)
  <2>1. Return /\ within' = within - 1
    BY <1>4 DEF LeaveCompletions
  <2> QED
    BY <1>1, <2>1, ReturnShape
<1> QED
  BY <1>3, <1>4

\* A wait for a write buffer ends with one.
LEMMA GetBufLeaves ==
    ASSUME NodeWritersInv, top.k = "getbuf", top.at = "alloc", NEW f,
           FrameOK(f), f.k = "pending", Todo(f) = <<>>, ~IsHolder(f), InCompletions(f),
           \/ Tops(stack, stack', f) /\ within' = within
           \/ Pops(stack, stack') /\ within' = within - 1,
           ReadInv', NumbersOK', rdAt' = rdAt, wrLanded' = wrLanded, inflightWr' = inflightWr,
           wrFree' = wrFree - Bit(top.write), IoKept
    PROVE  NodeWritersInv'
<1> USE DEF NodeWritersInv
<1>1. Len(stack) \in Nat /\ DOMAIN stack = 1 .. Len(stack) /\ top = stack[Len(stack)] /\ FrameOK(top)
  BY StackFacts DEF CoreInv
<1>2. Todo(top) = <<>> /\ InCompletions(top) /\ Len(stack) # 1
  BY <1>1 DEF Todo, InCompletions, CoreInv, StackOK
<1>3. StackOK'
  <2>1. CASE Tops(stack, stack', f)
    BY <1>2, <2>1, StackTops DEF CoreInv
  <2>2. CASE Pops(stack, stack')
    BY <2>2, StackPops DEF CoreInv
  <2> QED
    BY <2>1, <2>2
<1>4. WriteBuffersConserved'
  <2> DEFINE a == Bit(top.write)
  <2>1. Cardinality(Holders') = Cardinality(Holders) + a
    BY HoldLeaves DEF CoreInv, ReadInv
  <2>2. a \in Int /\ wrFree' = wrFree - a
    BY DEF Bit
  <2> HIDE DEF a
  <2>3. Cardinality(Holders) \in Nat /\ wrFree \in Int /\ inflightWr \in Int
    BY HoldersCount DEF CoreInv, NumbersOK
  <2>4. Cardinality(Holders') = Cardinality(Holders) + a - 0
    BY <2>1, <2>2, <2>3
  <2>5. /\ wrFree' \in Int /\ inflightWr' \in Int
        /\ wrFree' + inflightWr' + a = wrFree + inflightWr + 0
    BY <2>2, <2>3
  <2> QED
    BY <2>2, <2>4, <2>5, Balance DEF CoreInv
<1>5. WithinOK'
  <2>1. within \in Int /\ within = Cardinality(Completing)
    BY DEF CoreInv, NumbersOK, WithinOK
  <2>2. CASE Tops(stack, stack', f) /\ within' = within
    <3>1. Cardinality(Completing') = Cardinality(Completing) + 1 - 1
      BY <1>2, <2>2, WithinTops DEF CoreInv, Bit
    <3> QED
      BY <2>1, <2>2, <3>1 DEF WithinOK
  <2>3. CASE Pops(stack, stack') /\ within' = within - 1
    <3>1. Cardinality(Completing') = Cardinality(Completing) - 1
      BY <1>2, <2>3, WithinPops DEF CoreInv, Bit
    <3> QED
      BY <2>1, <2>3, <3>1 DEF WithinOK
  <2> QED
    BY <2>2, <2>3
<1>6. LandedOK'
  <2>1. \A q : LandedOf(f, q) <=> LandedOf(top, q)
    BY <1>2 DEF LandedOf
  <2>2. LandedWrites' = LandedWrites
    BY <1>2, <2>1, LandedSame DEF CoreInv
  <2> QED
    BY <2>2 DEF CoreInv, LandedOK
<1>7. NodesKept'
  BY NodesSame DEF CoreInv, IoKept
<1>8. PhaseOK' /\ ~flushed'
  BY PhaseAbove DEF CoreInv, Quiet, PhaseOK, IoKept
<1>9. CoreInv'
  BY <1>3, <1>4, <1>5, <1>6, <1>7 DEF CoreInv
<1> QED
  BY <1>8, <1>9, Finish

\* A read gets the buffer it has waited for.
LEMMA ReadsGotBuffer ==
    ASSUME StackOK, ReadInv, NumbersOK, top.k = "getbuf", ~top.write, NEW f,
           f.k = "pending", Todo(f) = <<>>, Pops(stack, stack') \/ Tops(stack, stack', f),
           rdBuf' = rdBuf \cup {top.r}, rdFree' = rdFree - 1,
           UNCHANGED <<ioMode, rdAt, rdPending, deferred>>
    PROVE  ReadInv' /\ top.r \in Reads
<1> DEFINE n == Len(stack)
<1>1. Len(stack) = n /\ n \in Nat /\ n > 0 /\ DOMAIN stack = 1 .. n /\ top = stack[n]
  BY StackFacts
<1>2. n > 1
  BY <1>1 DEF StackOK
<1>3. /\ \A i \in 1 .. n - 1 : stack'[i] = stack[i]
      /\ \/ Len(stack') = n - 1 /\ DOMAIN stack' = 1 .. n - 1
         \/ Len(stack') = n /\ DOMAIN stack' = 1 .. n /\ stack'[n] = f
  BY StackBasics DEF Tops, Pops
<1> HIDE DEF n
<1>4. /\ ioMode' = ioMode /\ rdAt' = rdAt /\ rdPending' = rdPending /\ deferred' = deferred
  OBVIOUS
<1>5. /\ n - 1 \in 1 .. n - 1 /\ n - 1 \in DOMAIN stack /\ (n - 1) + 1 = n
      /\ stack[n - 1].k = "init" /\ stack[n - 1].r = top.r /\ stack[n - 1].at = "limit"
      /\ ~HasBuffer(top.r)
  BY <1>1, <1>2 DEF ReadInv, GetBufsOK, GetBufOn
<1>6. top.r \in Reads
  BY <1>5 DEF StackOK, FrameOK
<1>7. rdAt[top.r] \in {"begun", "deferred"}
  BY <1>5 DEF ReadInv, InitsOK
<1>8. \A i \in DOMAIN stack' : stack'[i].k # "pending" => i \in 1 .. n - 1
  BY <1>1, <1>3
<1>9. \A i \in 1 .. n - 1 : i \in DOMAIN stack /\ i \in DOMAIN stack'
  BY <1>1, <1>3
<1>10. GetBufsOK'
  <2>1. ASSUME NEW i \in DOMAIN stack', stack'[i].k = "getbuf"
        PROVE  GetBufOn(stack[i], stack[i - 1])'
    <3>1. i \in 1 .. n - 1 /\ i \in DOMAIN stack /\ stack[i].k = "getbuf" /\ stack'[i] = stack[i]
      BY <1>3, <1>8, <1>9, <2>1
    <3>2. i # 1
      BY <3>1 DEF StackOK
    <3>3. i - 1 \in 1 .. n - 1 /\ i - 1 # n - 1 /\ i - 1 \in DOMAIN stack
          /\ GetBufOn(stack[i], stack[i - 1])
      BY <1>1, <3>1, <3>2 DEF ReadInv, GetBufsOK
    <3>4. ~stack[i].write => stack[i].r # top.r
      <4>1. SUFFICES ASSUME ~stack[i].write, stack[i].r = top.r PROVE FALSE
        OBVIOUS
      <4>2. stack[i - 1].k = "init" /\ stack[i - 1].r = top.r
        BY <3>3, <4>1 DEF GetBufOn
      <4> QED
        BY <1>5, <3>3, <4>2 DEF ReadInv, InitsOK
    <3>5. stack'[i - 1] = stack[i - 1]
      BY <1>3, <3>3
    <3> QED
      BY <1>4, <3>1, <3>3, <3>4, <3>5 DEF GetBufOn, HasBuffer
  <2> QED
    BY <2>1 DEF GetBufsOK
<1>11. InitsOK'
  <2>1. \A i \in DOMAIN stack' : stack'[i].k = "init" =>
            i \in 1 .. n - 1 /\ i \in DOMAIN stack /\ stack'[i] = stack[i]
    BY <1>3, <1>8, <1>9
  <2>2. ASSUME NEW i \in DOMAIN stack', stack'[i].k = "init", stack'[i].at \in PastBuffer,
               ~UnderGetBuf(i)'
        PROVE  HasBuffer(stack[i].r)'
    <3>1. i \in 1 .. n - 1 /\ i \in DOMAIN stack /\ stack'[i] = stack[i]
      BY <2>1, <2>2
    <3>2. CASE i = n - 1
      BY <1>5, <3>1, <3>2 DEF HasBuffer
    <3>3. CASE i # n - 1
      <4>1. i + 1 \in 1 .. n - 1 /\ stack'[i + 1] = stack[i + 1]
        BY <1>1, <1>3, <3>1, <3>3
      <4>2. ~UnderGetBuf(i)
        BY <1>1, <1>3, <2>2, <4>1 DEF UnderGetBuf
      <4>3. HasBuffer(stack[i].r)
        BY <2>2, <3>1, <4>2 DEF ReadInv, InitsOK
      <4> QED
        BY <1>4, <3>1, <4>3 DEF HasBuffer
    <3> QED
      BY <3>2, <3>3
  <2>3. ASSUME NEW i \in DOMAIN stack', stack'[i].k = "init"
        PROVE  /\ rdAt'[stack'[i].r] \in {"begun", "deferred"}
               /\ \A d \in DOMAIN deferred' : deferred'[d] # stack'[i].r
               /\ \A j \in DOMAIN stack' : stack'[j].k = "init" /\ stack'[j].r = stack'[i].r => i = j
    BY <1>4, <2>1, <2>3 DEF ReadInv, InitsOK
  <2> QED
    BY <2>2, <2>3 DEF InitsOK
<1>12. QueuesOK'
  BY <1>4 DEF ReadInv, QueuesOK
<1>13. TodosOK'
  <2>1. \A i \in DOMAIN stack' : i \in 1 .. n - 1 \/ DOMAIN Todo(stack'[i]) = {}
    BY <1>1, <1>3
  <2> QED
    BY <1>3, <1>4, <1>9, <2>1 DEF ReadInv, TodosOK
<1>14. ReadsKept'
  <2>1. \A r \in Reads : InInit(r) => InInit(r)'
    BY <1>1, <1>3, <1>9 DEF InInit
  <2> QED
    BY <1>4, <2>1 DEF ReadInv, ReadsKept
<1>15. ReadBuffersConserved'
  BY <1>4, <1>5, <1>6, <1>7, BufferGot DEF ReadInv
<1> QED
  BY <1>6, <1>10, <1>11, <1>12, <1>13, <1>14, <1>15 DEF ReadInv

LEMMA GetBufAllocStep ==
    ASSUME NodeWritersInv, GetBufAlloc, UNCHANGED nwVars
    PROVE  NodeWritersInv'
<1> USE DEF NodeWritersInv
<1>1. top.k = "getbuf" /\ top.at = "alloc" /\ StackOK /\ ReadInv /\ NumbersOK /\ FrameOK(top)
  BY StackFacts DEF GetBufAlloc, Running, CoreInv
<1>2. top.write \in BOOLEAN /\ Todo(top) = <<>>
  BY <1>1 DEF FrameOK, Todo
<1>3. UNCHANGED <<ioMode, rdAt, rdPending, inflightWr, wrLanded, deferred>> /\ IoKept
  BY DEF GetBufAlloc, nwVars, IoKept
<1>4. CASE top.write /\ wrFree > 0
  <2>1. LeaveCompletions /\ wrFree' = wrFree - 1 /\ rdFree' = rdFree /\ rdBuf' = rdBuf
    BY <1>4 DEF GetBufAlloc
  <2>2. PICK f : /\ FrameOK(f) /\ f.k = "pending" /\ Todo(f) = <<>> /\ ~IsHolder(f)
                 /\ InCompletions(f)
                 /\ \/ Tops(stack, stack', f) /\ within' = within
                    \/ Pops(stack, stack') /\ within' = within - 1
    BY <1>1, <2>1, LeaveShape
  <2>3. UNCHANGED ReadVars
    BY <1>3, <2>1 DEF ReadVars
  <2>4. ReadInv'
    <3>1. ReadRole(f, top)
      BY <1>1, <1>2, <1>4, <2>2 DEF ReadRole
    <3> QED
      BY <1>1, <1>2, <1>4, <2>2, <2>3, <3>1, ReadsTops, ReadsPops
  <2>5. NumbersOK'
    BY <1>1, <1>3, <2>1, <2>2 DEF NumbersOK
  <2>6. wrFree' = wrFree - Bit(top.write)
    BY <1>4, <2>1 DEF Bit
  <2> QED
    BY <1>1, <1>3, <2>2, <2>4, <2>5, <2>6, GetBufLeaves
<1>5. CASE ~top.write /\ rdFree > 0
  <2>1. LeaveCompletions /\ wrFree' = wrFree /\ rdFree' = rdFree - 1 /\ rdBuf' = rdBuf \cup {top.r}
    BY <1>5 DEF GetBufAlloc
  <2>2. PICK f : /\ FrameOK(f) /\ f.k = "pending" /\ Todo(f) = <<>> /\ ~IsHolder(f)
                 /\ InCompletions(f)
                 /\ \/ Tops(stack, stack', f) /\ within' = within
                    \/ Pops(stack, stack') /\ within' = within - 1
    BY <1>1, <2>1, LeaveShape
  <2>3. ReadInv' /\ top.r \in Reads
    BY <1>1, <1>3, <1>5, <2>1, <2>2, ReadsGotBuffer
  <2>4. NumbersOK'
    BY <1>1, <1>3, <2>1, <2>2, <2>3 DEF NumbersOK
  <2>5. wrFree' = wrFree - Bit(top.write)
    BY <1>1, <1>5, <2>1 DEF Bit, NumbersOK
  <2> QED
    BY <1>1, <1>3, <2>2, <2>3, <2>4, <2>5, GetBufLeaves
<1>6. CASE ~(top.write /\ wrFree > 0) /\ ~(~top.write /\ rdFree > 0)
  <2>1. Goto_("poll") /\ UNCHANGED <<wrFree, rdFree, rdBuf, within>>
    BY <1>6 DEF GetBufAlloc
  <2>2. PICK f : Tops(stack, stack', f) /\ Same(f, top) /\ f.at = "poll"
    BY <1>1, <2>1, GoesTo
  <2>3. f.k = "getbuf" /\ FrameOK(f) /\ ReadRole(f, top)
        /\ \A q : LandedOf(f, q) <=> LandedOf(top, q)
    BY <1>1, <2>2, SameIsPlain DEF Same
  <2>4. /\ Plain /\ within' = within /\ wrFree' = wrFree /\ inflightWr' = inflightWr
        /\ rdAt' = rdAt /\ IoKept
    BY <1>1, <1>3, <2>1 DEF Plain, ReadVars, NumbersOK
  <2>5. CoreInv'
    BY <1>1, <2>2, <2>3, <2>4, CoreTops DEF NumbersOK, InCompletions, IsHolder, Bit, IoKept
  <2>6. PhaseOK' /\ ~flushed'
    BY <1>1, <2>2, <2>3, <2>4, PhaseAbove DEF Quiet, PhaseOK, IoKept
  <2> QED
    BY <2>5, <2>6, Finish
<1> QED
  BY <1>4, <1>5, <1>6

----------------------------------------------------------------------------
(***************************************************************************)
(* The initiation of a read ends: it is put off, waits or is in flight.    *)
(***************************************************************************)
LEMMA QueueAppend ==
    ASSUME NEW S, NEW q \in Seq(S), NEW e \in S, NEW p, p = Append(q, e)
    PROVE  /\ p \in Seq(S) /\ Len(q) \in Nat /\ DOMAIN q = 1 .. Len(q)
           /\ DOMAIN p = 1 .. Len(q) + 1 /\ p[Len(q) + 1] = e
           /\ \A i \in 1 .. Len(q) : p[i] = q[i]
<1>1. p \in Seq(S) /\ Len(p) = Len(q) + 1 /\ p[Len(q) + 1] = e
      /\ \A i \in 1 .. Len(q) : p[i] = q[i]
  BY AppendProperties
<1>2. Len(q) \in Nat /\ DOMAIN q = 1 .. Len(q) /\ DOMAIN p = 1 .. Len(p)
  BY <1>1, LenProperties
<1> QED
  BY <1>1, <1>2

\* What a read may become
InitEnds(r, s) ==
    \/ s = "deferred" /\ deferred' = Append(deferred, r) /\ rdPending' = rdPending
    \/ /\ s = "pending" /\ rdPending' = Append(rdPending, r) /\ deferred' = deferred
       /\ r \notin ioMode.long /\ HasBuffer(r)
    \/ s = "flight" /\ HasBuffer(r) /\ deferred' = deferred /\ rdPending' = rdPending

\* Both queues keep what is in them, and the read that ends in one is in it.
QueuesGrown(r, s) ==
    /\ QueuesOK'
    /\ \A d \in DOMAIN deferred' : deferred'[d] = r \/ \E e \in DOMAIN deferred : deferred[e] = deferred'[d]
    /\ \A d \in DOMAIN deferred : \E e \in DOMAIN deferred' : deferred'[e] = deferred[d]
    /\ \A d \in DOMAIN rdPending : \E e \in DOMAIN rdPending' : rdPending'[e] = rdPending[d]
    /\ s = "deferred" => \E e \in DOMAIN deferred' : deferred'[e] = r
    /\ s = "pending" => \E e \in DOMAIN rdPending' : rdPending'[e] = r

\* Both queues keep their order and no read is in one twice.
LEMMA QueuesGrow ==
    ASSUME QueuesOK, NEW r \in Reads, NEW s, InitEnds(r, s), ioMode' = ioMode,
           rdAt' = [rdAt EXCEPT ![r] = s], rdAt[r] \in {"begun", "deferred", "landed"},
           \A d \in DOMAIN deferred : deferred[d] # r
    PROVE  QueuesGrown(r, s)
<1> USE DEF QueuesGrown
<1>1. /\ rdAt \in [Reads -> ReadStates] /\ deferred \in Seq(Reads) /\ rdPending \in Seq(Reads)
      /\ \A d \in DOMAIN deferred :
          /\ rdAt[deferred[d]] = "deferred" /\ deferred[d] \in Reads
          /\ \A e \in DOMAIN deferred : deferred[d] = deferred[e] => d = e
      /\ \A d \in DOMAIN rdPending :
          /\ rdAt[rdPending[d]] = "pending" /\ rdPending[d] \notin ioMode.long
          /\ rdPending[d] \in Reads /\ rdPending[d] # r
          /\ \A e \in DOMAIN rdPending : rdPending[d] = rdPending[e] => d = e
  <2>1. \A d \in DOMAIN deferred : deferred[d] \in Reads
    BY ElementOfSeq, LenProperties DEF QueuesOK
  <2>2. \A d \in DOMAIN rdPending : rdPending[d] \in Reads
    BY ElementOfSeq, LenProperties DEF QueuesOK
  <2> QED
    BY <2>1, <2>2 DEF QueuesOK
<1>2. s \in ReadStates /\ rdAt' \in [Reads -> ReadStates] /\ rdAt'[r] = s
      /\ \A x \in Reads : x # r => rdAt'[x] = rdAt[x]
  BY <1>1 DEF InitEnds, ReadStates
<1>3. CASE s = "deferred"
  <2>1. deferred' = Append(deferred, r) /\ rdPending' = rdPending
    BY <1>3 DEF InitEnds
  <2> DEFINE m == Len(deferred)
  <2>2. /\ deferred' \in Seq(Reads) /\ m \in Nat /\ DOMAIN deferred = 1 .. m
        /\ DOMAIN deferred' = 1 .. m + 1 /\ deferred'[m + 1] = r
        /\ \A i \in 1 .. m : deferred'[i] = deferred[i]
    BY <1>1, <2>1, QueueAppend
  <2> HIDE DEF m
  <2>3. \A d \in DOMAIN deferred' :
          /\ rdAt'[deferred'[d]] = "deferred"
          /\ \A e \in DOMAIN deferred' : deferred'[d] = deferred'[e] => d = e
    BY <1>1, <1>2, <1>3, <2>2
  <2>4. QueuesOK'
    BY <1>1, <1>2, <2>1, <2>2, <2>3 DEF QueuesOK
  <2>5. m + 1 \in DOMAIN deferred' /\ \A d \in DOMAIN deferred : d \in DOMAIN deferred'
    BY <2>2
  <2> QED
    BY <1>3, <2>1, <2>2, <2>4, <2>5
<1>4. CASE s = "pending"
  <2>1. rdPending' = Append(rdPending, r) /\ deferred' = deferred /\ r \notin ioMode.long
    BY <1>4 DEF InitEnds
  <2> DEFINE m == Len(rdPending)
  <2>2. /\ rdPending' \in Seq(Reads) /\ m \in Nat /\ DOMAIN rdPending = 1 .. m
        /\ DOMAIN rdPending' = 1 .. m + 1 /\ rdPending'[m + 1] = r
        /\ \A i \in 1 .. m : rdPending'[i] = rdPending[i]
    BY <1>1, <2>1, QueueAppend
  <2> HIDE DEF m
  <2>3. \A d \in DOMAIN rdPending' :
          /\ rdAt'[rdPending'[d]] = "pending" /\ rdPending'[d] \notin ioMode.long
          /\ \A e \in DOMAIN rdPending' : rdPending'[d] = rdPending'[e] => d = e
    BY <1>1, <1>2, <1>4, <2>1, <2>2
  <2>4. QueuesOK'
    BY <1>1, <1>2, <2>1, <2>2, <2>3 DEF QueuesOK
  <2>5. m + 1 \in DOMAIN rdPending' /\ \A d \in DOMAIN rdPending : d \in DOMAIN rdPending'
    BY <2>2
  <2> QED
    BY <1>4, <2>1, <2>2, <2>4, <2>5
<1>5. CASE s = "flight"
  <2>1. rdPending' = rdPending /\ deferred' = deferred
    BY <1>5 DEF InitEnds
  <2>2. QueuesOK'
    BY <1>1, <1>2, <2>1 DEF QueuesOK
  <2> QED
    BY <1>5, <2>1, <2>2
<1> QED
  BY <1>3, <1>4, <1>5 DEF InitEnds

\* An initiation ends: the read is in a queue or in flight.
LEMMA ReadsInitEnds ==
    ASSUME StackOK, ReadInv, top.k = "init", Pops(stack, stack'), NEW s, InitEnds(top.r, s),
           rdAt' = [rdAt EXCEPT ![top.r] = s], UNCHANGED <<ioMode, rdBuf, rdFree>>
    PROVE  ReadInv'
<1> DEFINE n == Len(stack)
           r == top.r
<1>1. Len(stack) = n /\ n \in Nat /\ n > 1 /\ DOMAIN stack = 1 .. n /\ top = stack[n]
      /\ FrameOK(top)
  BY StackFacts, StackPops
<1>2. /\ Len(stack') = n - 1 /\ DOMAIN stack' = 1 .. n - 1
      /\ \A i \in 1 .. n - 1 : stack'[i] = stack[i]
  BY StackBasics DEF Pops
<1>3. stack[n].r = r /\ stack[n].k = "init" /\ r \in Reads
  BY <1>1 DEF FrameOK
<1>4. /\ InitEnds(r, s) /\ rdAt' = [rdAt EXCEPT ![r] = s]
      /\ ioMode' = ioMode /\ rdBuf' = rdBuf /\ rdFree' = rdFree
  OBVIOUS
<1> HIDE DEF n, r
<1>5. n \in DOMAIN stack /\ \A i \in 1 .. n - 1 : i \in DOMAIN stack /\ i \in DOMAIN stack' /\ i # n
  BY <1>1, <1>2
<1>6. /\ rdAt[r] \in {"begun", "deferred"} /\ \A d \in DOMAIN deferred : deferred[d] # r
      /\ \A j \in DOMAIN stack : stack[j].k = "init" /\ stack[j].r = r => j = n
  BY <1>3, <1>5 DEF ReadInv, InitsOK
<1>7. /\ QueuesOK'
      /\ \A d \in DOMAIN deferred' : deferred'[d] = r \/ \E e \in DOMAIN deferred : deferred[e] = deferred'[d]
      /\ \A d \in DOMAIN deferred : \E e \in DOMAIN deferred' : deferred'[e] = deferred[d]
      /\ \A d \in DOMAIN rdPending : \E e \in DOMAIN rdPending' : rdPending'[e] = rdPending[d]
      /\ s = "deferred" => \E e \in DOMAIN deferred' : deferred'[e] = r
      /\ s = "pending" => \E e \in DOMAIN rdPending' : rdPending'[e] = r
  <2>1. QueuesOK
    BY DEF ReadInv
  <2>2. rdAt[r] \in {"begun", "deferred", "landed"}
    BY <1>6
  <2> QED
    <3>1. QueuesGrown(r, s)
      BY <1>3, <1>4, <1>6, <2>1, <2>2, QueuesGrow
    <3> QED
      BY <3>1 DEF QueuesGrown
<1>8. rdAt'[r] = s /\ s \in {"deferred", "pending", "flight"} /\ \A x : x # r => rdAt'[x] = rdAt[x]
  <2>1. rdAt \in [Reads -> ReadStates] /\ rdAt' \in [Reads -> ReadStates]
    BY <1>7 DEF ReadInv, QueuesOK
  <2> QED
    BY <1>3, <1>4, <2>1 DEF InitEnds
<1>9. GetBufsOK'
  <2>1. ASSUME NEW i \in DOMAIN stack', stack'[i].k = "getbuf"
        PROVE  GetBufOn(stack[i], stack[i - 1])'
    <3>1. i \in 1 .. n - 1 /\ i \in DOMAIN stack /\ stack[i].k = "getbuf" /\ stack'[i] = stack[i]
      BY <1>2, <1>5, <2>1
    <3>2. i # 1
      BY <3>1 DEF StackOK
    <3>3. i - 1 \in 1 .. n - 1 /\ GetBufOn(stack[i], stack[i - 1])
      BY <1>1, <3>1, <3>2 DEF ReadInv, GetBufsOK
    <3> QED
      BY <1>2, <1>4, <3>1, <3>3 DEF GetBufOn, HasBuffer
  <2> QED
    BY <2>1 DEF GetBufsOK
<1>10. InitsOK'
  <2>1. \A i \in DOMAIN stack' : stack'[i].k = "init" =>
            i \in 1 .. n - 1 /\ i \in DOMAIN stack /\ stack'[i] = stack[i] /\ stack[i].r # r
    BY <1>2, <1>5, <1>6
  <2>2. ASSUME NEW i \in DOMAIN stack', stack'[i].k = "init", stack'[i].at \in PastBuffer,
               ~UnderGetBuf(i)'
        PROVE  HasBuffer(stack[i].r)'
    <3>1. i \in 1 .. n - 1 /\ i \in DOMAIN stack /\ stack'[i] = stack[i]
      BY <2>1, <2>2
    <3>2. ~UnderGetBuf(i)
      BY <1>1, <1>2, <1>3, <2>2, <3>1 DEF UnderGetBuf
    <3>3. HasBuffer(stack[i].r)
      BY <2>2, <3>1, <3>2 DEF ReadInv, InitsOK
    <3> QED
      BY <1>4, <3>1, <3>3 DEF HasBuffer
  <2>3. ASSUME NEW i \in DOMAIN stack', stack'[i].k = "init"
        PROVE  /\ rdAt'[stack'[i].r] \in {"begun", "deferred"}
               /\ \A d \in DOMAIN deferred' : deferred'[d] # stack'[i].r
               /\ \A j \in DOMAIN stack' : stack'[j].k = "init" /\ stack'[j].r = stack'[i].r => i = j
    BY <1>7, <1>8, <2>1, <2>3 DEF ReadInv, InitsOK
  <2> QED
    BY <2>2, <2>3 DEF InitsOK
<1>11. TodosOK'
  <2>1. ASSUME NEW i \in DOMAIN stack, NEW p \in DOMAIN Todo(stack[i]), Todo(stack[i])[p] # WriteCqe
        PROVE  rdAt'[Todo(stack[i])[p]] = "landed"
    BY <1>6, <1>8, <2>1 DEF ReadInv, TodosOK
  <2> QED
    BY <1>2, <1>5, <2>1 DEF ReadInv, TodosOK
<1>12. ReadsKept'
  <2>1. \A x \in Reads : x # r /\ InInit(x) => InInit(x)'
    <3>1. ASSUME NEW x \in Reads, x # r, NEW i \in DOMAIN stack, stack[i].k = "init", stack[i].r = x
          PROVE  i \in DOMAIN stack' /\ stack'[i].k = "init" /\ stack'[i].r = x
      BY <1>1, <1>2, <1>3, <3>1
    <3> QED
      BY <3>1 DEF InInit
  <2> QED
    BY <1>7, <1>8, <2>1 DEF ReadInv, ReadsKept
<1>13. ReadBuffersConserved'
  <2>1. s \in {"pending", "flight"} => r \in ioMode.long \cup rdBuf
    BY <1>4 DEF InitEnds, HasBuffer
  <2> QED
    BY <1>4, <1>8, <2>1 DEF ReadInv, ReadBuffersConserved
<1> QED
  BY <1>7, <1>9, <1>10, <1>11, <1>12, <1>13 DEF ReadInv

\* The read that is being initiated
LEMMA InitTop ==
    ASSUME CoreInv, top.k = "init"
    PROVE  /\ top.r \in Reads /\ rdAt[top.r] \in {"begun", "deferred"} /\ ~Quiet
           /\ top.at \in PastBuffer => HasBuffer(top.r)
           /\ Todo(top) = <<>> /\ ~IsHolder(top) /\ ~InCompletions(top)
<1>1. /\ Len(stack) \in Nat /\ Len(stack) \in DOMAIN stack /\ top = stack[Len(stack)] /\ FrameOK(top)
  BY StackFacts DEF CoreInv
<1>2. top.r \in Reads /\ Todo(top) = <<>> /\ ~IsHolder(top) /\ ~InCompletions(top)
  BY <1>1 DEF FrameOK, Todo, IsHolder, InCompletions
<1>3. ~UnderGetBuf(Len(stack))
  BY <1>1 DEF UnderGetBuf
<1>4. rdAt[top.r] \in {"begun", "deferred"} /\ (top.at \in PastBuffer => HasBuffer(top.r))
  BY <1>1, <1>3 DEF CoreInv, ReadInv, InitsOK
<1> QED
  BY <1>2, <1>4 DEF Quiet

\* An initiation returns.
LEMMA InitReturns ==
    ASSUME NodeWritersInv, top.k = "init", Return, NEW s, InitEnds(top.r, s),
           rdAt' = [rdAt EXCEPT ![top.r] = s],
           UNCHANGED <<ioMode, rdBuf, rdFree, wrFree, inflightWr, wrLanded, within>>, IoKept
    PROVE  NodeWritersInv'
<1> USE DEF NodeWritersInv
<1>1. /\ CoreInv /\ StackOK /\ ~Quiet /\ Todo(top) = <<>> /\ ~IsHolder(top) /\ ~InCompletions(top)
      /\ wrFree \in Int /\ inflightWr \in Int /\ within \in Int
  BY InitTop DEF CoreInv, NumbersOK
<1>2. Pops(stack, stack')
  BY <1>1, ReturnShape
<1>3. ReadInv'
  BY <1>1, <1>2, ReadsInitEnds DEF CoreInv
<1>4. NumbersOK'
  BY <1>1 DEF CoreInv, NumbersOK
<1>5. LandedOK'
  <2>1. LandedWrites' = LandedWrites
    BY <1>1, <1>2, LandedSame
  <2> QED
    BY <1>1, <2>1 DEF CoreInv, LandedOK
<1>6. NodesKept'
  BY <1>1, <1>2, NodesSame DEF CoreInv, IoKept
<1>7. CoreInv'
  BY <1>1, <1>2, <1>3, <1>4, <1>5, <1>6, FramePops DEF Bit
<1>8. PhaseOK' /\ ~flushed'
  BY <1>1, <1>2, PhaseAbove DEF PhaseOK, IoKept
<1> QED
  BY <1>7, <1>8, Finish

LEMMA SubmitStep ==
    ASSUME NodeWritersInv, Submit, UNCHANGED nwVars
    PROVE  NodeWritersInv'
<1>1. top.k = "init" /\ top.at \in PastBuffer /\ Return
  BY DEF Submit, PastBuffer
<1>2. /\ rdAt' = [rdAt EXCEPT ![top.r] = "flight"] /\ deferred' = deferred /\ rdPending' = rdPending
      /\ UNCHANGED <<ioMode, rdBuf, rdFree, wrFree, inflightWr, wrLanded, within>> /\ IoKept
  BY DEF Submit, nwVars, IoKept
<1>3. InitEnds(top.r, "flight")
  BY <1>1, <1>2, InitTop DEF InitEnds, NodeWritersInv
<1> QED
  BY <1>1, <1>2, <1>3, InitReturns

\* An initiation goes on.
LEMMA InitGoesOn ==
    ASSUME NodeWritersInv, top.k = "init", NEW at, Goto_(at), at \in PastBuffer => top.at \in PastBuffer,
           UNCHANGED <<ioMode, rdAt, rdBuf, rdFree, wrFree, rdPending, inflightWr, wrLanded, deferred,
                       within>>, IoKept
    PROVE  NodeWritersInv'
<1> USE DEF NodeWritersInv
<1>1. PICK f : Tops(stack, stack', f) /\ Same(f, top) /\ f.at = at
  BY GoesTo DEF CoreInv
<1>2. f.k = "init" /\ FrameOK(f) /\ ReadRole(f, top) /\ \A q : LandedOf(f, q) <=> LandedOf(top, q)
  BY <1>1, SameIsPlain DEF Same
<1>3. /\ Plain /\ within' = within /\ wrFree' = wrFree /\ inflightWr' = inflightWr
      /\ rdAt' = rdAt /\ IoKept
  BY DEF Plain, ReadVars, CoreInv, NumbersOK
<1>4. CoreInv'
  BY <1>1, <1>2, <1>3, CoreTops DEF CoreInv, NumbersOK, InCompletions, IsHolder, Bit, IoKept
<1>5. PhaseOK' /\ ~flushed'
  BY <1>1, <1>2, <1>3, PhaseAbove DEF CoreInv, Quiet, PhaseOK, IoKept
<1> QED
  BY <1>4, <1>5, Finish

LEMMA CheckLimitStep ==
    ASSUME NodeWritersInv, CheckLimit, UNCHANGED nwVars
    PROVE  NodeWritersInv'
<1>1. top.k = "init" /\ top.at \in PastBuffer
  BY DEF CheckLimit, Running, PastBuffer
<1>2. /\ UNCHANGED <<ioMode, rdBuf, rdFree, wrFree, inflightWr, wrLanded, deferred, within>> /\ IoKept
  BY DEF CheckLimit, nwVars, IoKept
<1>3. CASE top.r \notin ioMode.long /\ ioMode.limit > 0 /\ ShortInFlight(rdAt) >= ioMode.limit
  <2>1. Return /\ rdPending' = Append(rdPending, top.r) /\ rdAt' = [rdAt EXCEPT ![top.r] = "pending"]
    BY <1>3 DEF CheckLimit
  <2>2. InitEnds(top.r, "pending")
    BY <1>1, <1>2, <1>3, <2>1, InitTop DEF InitEnds, NodeWritersInv
  <2> QED
    BY <1>1, <1>2, <2>1, <2>2, InitReturns
<1>4. CASE ~(top.r \notin ioMode.long /\ ioMode.limit > 0 /\ ShortInFlight(rdAt) >= ioMode.limit)
  <2>1. Goto_("submit") /\ UNCHANGED <<rdPending, rdAt>>
    BY <1>4 DEF CheckLimit
  <2> QED
    BY <1>1, <1>2, <2>1, InitGoesOn
<1> QED
  BY <1>3, <1>4

LEMMA DeferStep ==
    ASSUME NodeWritersInv, Defer, UNCHANGED nwVars
    PROVE  NodeWritersInv'
<1> USE DEF NodeWritersInv
<1>1. top.k = "init" /\ top.at = "defer" /\ top.at \notin PastBuffer
  BY DEF Defer, Running, PastBuffer
<1>2. /\ UNCHANGED <<ioMode, rdBuf, rdFree, wrFree, rdPending, inflightWr, wrLanded>> /\ IoKept
  BY DEF Defer, nwVars, IoKept
<1>3. CASE within > 0
  <2>1. /\ Return /\ deferred' = Append(deferred, top.r) /\ rdAt' = [rdAt EXCEPT ![top.r] = "deferred"]
        /\ within' = within
    BY <1>3 DEF Defer
  <2>2. InitEnds(top.r, "deferred")
    BY <1>2, <2>1 DEF InitEnds
  <2> QED
    BY <1>1, <1>2, <2>1, <2>2, InitReturns
<1>4. CASE ~(within > 0) /\ deferred = <<>>
  <2>1. Goto_("buffer") /\ UNCHANGED <<deferred, rdAt, within>>
    BY <1>4 DEF Defer
  <2> QED
    BY <1>1, <1>2, <2>1, InitGoesOn DEF PastBuffer
<1>5. CASE ~(within > 0) /\ deferred # <<>>
  <2> DEFINE g == PendingFrame(Last(deferred))
  <2>1. Call_("buffer", g) /\ within' = within + 1 /\ UNCHANGED <<deferred, rdAt>>
    BY <1>5 DEF Defer
  <2>2. FrameOK(g) /\ g.k = "pending" /\ Todo(g) = <<>> /\ ~IsHolder(g) /\ InCompletions(g)
    BY PendingFrameFacts
  <2> HIDE DEF g
  <2>3. PICK f : Pushes(stack, stack', f, g) /\ Same(f, top) /\ f.at = "buffer"
    BY <1>1, <2>1, CallsFrom DEF CoreInv
  <2>4. f.k = "init" /\ FrameOK(f) /\ ReadRole(f, top) /\ \A q : LandedOf(f, q) <=> LandedOf(top, q)
    BY <1>1, <2>3, SameIsPlain DEF Same, PastBuffer
  <2>5. /\ Plain /\ wrFree' = wrFree /\ inflightWr' = inflightWr /\ rdAt' = rdAt /\ IoKept
    BY <1>2, <2>1 DEF Plain, ReadVars, CoreInv, NumbersOK
  <2>6. CoreInv'
    BY <1>1, <2>1, <2>2, <2>3, <2>4, <2>5, CorePushes
       DEF CoreInv, NumbersOK, InCompletions, IsHolder, Bit, IoKept
  <2>7. PhaseOK' /\ ~flushed'
    BY <1>1, <2>2, <2>3, <2>4, <2>5, PhaseAbove DEF CoreInv, Quiet, PhaseOK, IoKept
  <2> QED
    BY <2>6, <2>7, Finish
<1> QED
  BY <1>3, <1>4, <1>5

\* A read has its buffer, takes a free one, or waits for one.
BufferStep(f, g) ==
    \/ /\ Tops(stack, stack', f) /\ HasBuffer(top.r) /\ rdBuf' = rdBuf /\ rdFree' = rdFree
    \/ /\ Tops(stack, stack', f) /\ ~HasBuffer(top.r)
       /\ rdBuf' = rdBuf \cup {top.r} /\ rdFree' = rdFree - 1
    \/ /\ Pushes(stack, stack', f, g) /\ ~HasBuffer(top.r) /\ rdBuf' = rdBuf /\ rdFree' = rdFree
       /\ g.k = "getbuf" /\ ~g.write /\ g.r = top.r /\ Todo(g) = <<>>

\* A read gets its buffer, or waits for one.
LEMMA ReadsBuffer ==
    ASSUME CoreInv, top.k = "init", NEW f, NEW g, f.k = "init", f.r = top.r, f.at = "limit",
           BufferStep(f, g), UNCHANGED <<ioMode, rdAt, rdPending, deferred>>
    PROVE  ReadInv'
<1> DEFINE n == Len(stack)
<1> PICK r : r = top.r
  OBVIOUS
<1>0. StackOK /\ ReadInv /\ NumbersOK
  BY DEF CoreInv
<1>1. Len(stack) = n /\ n \in Nat /\ n > 0 /\ DOMAIN stack = 1 .. n /\ top = stack[n]
  BY <1>0, StackFacts
<1>2. r \in Reads /\ rdAt[r] \in {"begun", "deferred"}
  BY InitTop
<1>3. /\ \A i \in 1 .. n - 1 : stack'[i] = stack[i]
      /\ stack'[n] = f
      /\ \/ Len(stack') = n /\ DOMAIN stack' = 1 .. n /\ HasBuffer(r)'
         \/ Len(stack') = n + 1 /\ DOMAIN stack' = 1 .. n + 1 /\ stack'[n + 1] = g
            /\ g.k = "getbuf" /\ ~g.write /\ g.r = r /\ Todo(g) = <<>> /\ ~HasBuffer(r)'
  <2>1. CASE Tops(stack, stack', f)
    <3>1. HasBuffer(r)'
      BY <2>1, StackBasics DEF BufferStep, Tops, Pushes, HasBuffer
    <3> QED
      BY <2>1, <3>1, StackBasics DEF Tops
  <2>2. CASE ~Tops(stack, stack', f)
    <3>1. Pushes(stack, stack', f, g) /\ ~HasBuffer(r)
          /\ g.k = "getbuf" /\ ~g.write /\ g.r = r /\ Todo(g) = <<>> /\ rdBuf' = rdBuf
      BY <2>2 DEF BufferStep
    <3>2. ~HasBuffer(r)'
      BY <3>1 DEF HasBuffer
    <3> QED
      BY <3>1, <3>2, StackBasics DEF Pushes
  <2> QED
    BY <2>1, <2>2
<1>4. stack[n].r = r /\ stack[n].k = "init" /\ f.r = r
  BY <1>1
<1>5. ioMode' = ioMode /\ rdAt' = rdAt /\ rdPending' = rdPending /\ deferred' = deferred
  OBVIOUS
<1>6. \A x : x # r => (HasBuffer(x)' <=> HasBuffer(x))
  BY <1>5 DEF BufferStep, HasBuffer
<1>7. ReadBuffersConserved'
  <2>1. CASE rdBuf' = rdBuf /\ rdFree' = rdFree
    BY <1>0, <1>5, <2>1 DEF ReadInv, ReadBuffersConserved
  <2>2. CASE ~HasBuffer(top.r) /\ rdBuf' = rdBuf \cup {top.r} /\ rdFree' = rdFree - 1
    BY <1>0, <1>2, <1>5, <2>2, BufferGot DEF ReadInv
  <2> QED
    BY <2>1, <2>2 DEF BufferStep
<1> HIDE DEF n
<1>8. n \in DOMAIN stack /\ n \in DOMAIN stack'
      /\ \A i \in 1 .. n - 1 : i \in DOMAIN stack /\ i \in DOMAIN stack' /\ i # n
  BY <1>1, <1>3
<1>9. \A j \in DOMAIN stack : stack[j].k = "init" /\ stack[j].r = r => j = n
  BY <1>0, <1>4, <1>8 DEF ReadInv, InitsOK
<1>10. \A i \in DOMAIN stack' : i \in 1 .. n - 1 \/ i = n \/ (i = n + 1 /\ stack'[i] = g /\ g.k = "getbuf"
          /\ ~g.write /\ g.r = r /\ Todo(g) = <<>> /\ ~HasBuffer(r)')
  BY <1>1, <1>3
<1>11. GetBufsOK'
  <2>1. ASSUME NEW i \in DOMAIN stack', stack'[i].k = "getbuf", i \in 1 .. n - 1
        PROVE  GetBufOn(stack[i], stack[i - 1])'
    <3>1. i \in DOMAIN stack /\ stack[i].k = "getbuf" /\ stack'[i] = stack[i]
      BY <1>3, <1>8, <2>1
    <3>2. i # 1
      BY <1>0, <3>1 DEF StackOK
    <3>3. i - 1 \in 1 .. n - 1 /\ GetBufOn(stack[i], stack[i - 1])
      BY <1>0, <1>1, <2>1, <3>1, <3>2 DEF ReadInv, GetBufsOK
    <3>4. stack'[i - 1] = stack[i - 1] /\ (stack[i - 1].k = "init" => stack[i - 1].r # r)
      BY <1>3, <1>8, <1>9, <3>3
    <3> QED
      BY <1>6, <3>1, <3>3, <3>4 DEF GetBufOn
  <2>2. ASSUME NEW i \in DOMAIN stack', i = n + 1
        PROVE  GetBufOn(stack[i], stack[i - 1])'
    <3>1. (n + 1) - 1 = n
      BY <1>1
    <3>2. stack'[i] = g /\ ~g.write /\ g.r = r /\ ~HasBuffer(r)' /\ stack'[i - 1] = f
      BY <1>1, <1>3, <1>10, <2>2, <3>1
    <3> QED
      BY <1>4, <3>2 DEF GetBufOn
  <2> QED
    BY <1>3, <1>10, <2>1, <2>2 DEF GetBufsOK
<1>12. InitsOK'
  <2>1. \A i \in DOMAIN stack' : stack'[i].k = "init" =>
            i \in DOMAIN stack /\ stack[i].k = "init" /\ stack'[i].r = stack[i].r
    BY <1>3, <1>4, <1>8, <1>10
  <2>2. ASSUME NEW i \in DOMAIN stack', stack'[i].k = "init", stack'[i].at \in PastBuffer,
               ~UnderGetBuf(i)'
        PROVE  HasBuffer(stack[i].r)'
    <3>1. CASE i = n
      <4>1. Len(stack') = n
        BY <1>1, <1>3, <2>2, <3>1 DEF UnderGetBuf
      <4>2. HasBuffer(r)'
        BY <1>1, <1>3, <4>1
      <4> QED
        BY <1>3, <1>4, <3>1, <4>2
    <3>2. CASE i \in 1 .. n - 1
      <4>1. stack'[i] = stack[i] /\ stack[i].r # r /\ i \in DOMAIN stack
        BY <1>3, <1>8, <1>9, <2>2, <3>2
      <4>2. ~UnderGetBuf(i)
        BY <1>1, <1>3, <1>4, <2>2, <3>2 DEF UnderGetBuf
      <4>3. HasBuffer(stack[i].r)
        BY <1>0, <2>2, <4>1, <4>2 DEF ReadInv, InitsOK
      <4> QED
        BY <1>6, <4>1, <4>3
    <3> QED
      BY <1>10, <2>2, <3>1, <3>2
  <2>3. ASSUME NEW i \in DOMAIN stack', stack'[i].k = "init"
        PROVE  /\ rdAt'[stack'[i].r] \in {"begun", "deferred"}
               /\ \A d \in DOMAIN deferred' : deferred'[d] # stack'[i].r
               /\ \A j \in DOMAIN stack' : stack'[j].k = "init" /\ stack'[j].r = stack'[i].r => i = j
    BY <1>0, <1>5, <2>1, <2>3 DEF ReadInv, InitsOK
  <2> QED
    BY <2>2, <2>3 DEF InitsOK
<1>13. QueuesOK'
  BY <1>0, <1>5 DEF ReadInv, QueuesOK
<1>14. TodosOK'
  <2>1. \A i \in DOMAIN stack' : i \in 1 .. n - 1 \/ DOMAIN Todo(stack'[i]) = {}
    <3>1. DOMAIN Todo(f) = {}
      BY DEF Todo
    <3> QED
      BY <1>3, <1>10, <3>1
  <2> QED
    BY <1>0, <1>3, <1>5, <1>8, <2>1 DEF ReadInv, TodosOK
<1>15. ReadsKept'
  <2>1. \A x \in Reads : InInit(x) => InInit(x)'
    BY <1>1, <1>3, <1>4, <1>8 DEF InInit
  <2> QED
    BY <1>0, <1>5, <2>1 DEF ReadInv, ReadsKept
<1> QED
  BY <1>7, <1>11, <1>12, <1>13, <1>14, <1>15 DEF ReadInv

LEMMA NeedBufferStep ==
    ASSUME NodeWritersInv, NeedBuffer, UNCHANGED nwVars
    PROVE  NodeWritersInv'
<1> USE DEF NodeWritersInv
<1>1. top.k = "init" /\ top.at = "buffer" /\ StackOK /\ NumbersOK
  BY DEF NeedBuffer, Running, CoreInv
<1>2. /\ UNCHANGED <<ioMode, rdAt, wrFree, rdPending, inflightWr, wrLanded, deferred, within>>
      /\ IoKept
  BY DEF NeedBuffer, nwVars, IoKept
<1> DEFINE g == GetBufFrame(FALSE, top.r)
<1>3. FrameOK(g) /\ g.k = "getbuf" /\ ~g.write /\ g.r = top.r /\ Todo(g) = <<>> /\ ~IsHolder(g)
      /\ ~InCompletions(g)
  <2>1. PICK w, r : w \in BOOLEAN /\ w = FALSE /\ r = top.r
    OBVIOUS
  <2>2. g = GetBufFrame(w, r)
    BY <2>1
  <2> HIDE DEF g, NodeWritersInv
  <2>3. FrameOK(g) /\ g.k = "getbuf" /\ g.write = w /\ g.r = r /\ Todo(g) = <<>> /\ ~IsHolder(g)
        /\ ~InCompletions(g)
    BY <2>1, <2>2, GetBufFrameFacts
  <2> QED
    BY <2>1, <2>3
<1>4. PICK f : FrameOK(f) /\ f.k = "init" /\ f.r = top.r /\ f.at = "limit" /\ BufferStep(f, g)
  <2>1. CASE HasBuffer(top.r)
    <3>1. Goto_("limit") /\ rdBuf' = rdBuf /\ rdFree' = rdFree
      BY <2>1 DEF NeedBuffer
    <3>2. PICK f : Tops(stack, stack', f) /\ Same(f, top) /\ f.at = "limit"
      BY <1>1, <3>1, GoesTo
    <3> QED
      BY <1>1, <2>1, <3>1, <3>2 DEF Same, BufferStep
  <2>2. CASE ~HasBuffer(top.r) /\ rdFree > 0
    <3>1. Goto_("limit") /\ rdBuf' = rdBuf \cup {top.r} /\ rdFree' = rdFree - 1
      BY <2>2 DEF NeedBuffer
    <3>2. PICK f : Tops(stack, stack', f) /\ Same(f, top) /\ f.at = "limit"
      BY <1>1, <3>1, GoesTo
    <3> QED
      BY <1>1, <2>2, <3>1, <3>2 DEF Same, BufferStep
  <2>3. CASE ~HasBuffer(top.r) /\ ~(rdFree > 0)
    <3>1. Call_("limit", g) /\ rdBuf' = rdBuf /\ rdFree' = rdFree
      BY <2>3 DEF NeedBuffer
    <3> HIDE DEF g
    <3>2. PICK f : Pushes(stack, stack', f, g) /\ Same(f, top) /\ f.at = "limit"
      BY <1>1, <3>1, CallsFrom
    <3> QED
      BY <1>1, <1>3, <2>3, <3>1, <3>2 DEF Same, BufferStep
  <2> QED
    BY <2>1, <2>2, <2>3
<1> HIDE DEF g
<1>5. ReadInv'
  BY <1>1, <1>2, <1>4, ReadsBuffer
<1>6. /\ top.r \in Reads /\ ~Quiet /\ Todo(top) = <<>> /\ ~IsHolder(top) /\ ~InCompletions(top)
  BY <1>1, InitTop
<1>7. NumbersOK'
  BY <1>1, <1>2, <1>4, <1>6 DEF NumbersOK, BufferStep
<1>8. Todo(f) = <<>> /\ ~IsHolder(f) /\ ~InCompletions(f) /\ \A q : LandedOf(f, q) <=> LandedOf(top, q)
  BY <1>4, <1>6 DEF Todo, IsHolder, InCompletions, LandedOf
<1>9. Tops(stack, stack', f) \/ Pushes(stack, stack', f, g)
  BY <1>4 DEF BufferStep
<1>10. LandedOK'
  <2>1. LandedWrites' = LandedWrites
    BY <1>1, <1>3, <1>8, <1>9, LandedSame
  <2> QED
    BY <1>2, <2>1 DEF CoreInv, LandedOK
<1>11. within \in Int /\ wrFree \in Int /\ inflightWr \in Int
  BY <1>1 DEF NumbersOK
<1>12. CoreInv'
  <2>1. CASE Tops(stack, stack', f)
    BY <1>1, <1>2, <1>4, <1>5, <1>6, <1>7, <1>8, <1>10, <1>11, <2>1, FrameTops DEF Bit, IoKept
  <2>2. CASE Pushes(stack, stack', f, g)
    BY <1>1, <1>2, <1>3, <1>4, <1>5, <1>6, <1>7, <1>8, <1>10, <1>11, <2>2, FramePushes DEF Bit, IoKept
  <2> QED
    BY <1>9, <2>1, <2>2
<1>13. PhaseOK' /\ ~flushed'
  BY <1>1, <1>2, <1>3, <1>4, <1>6, <1>9, PhaseAbove DEF PhaseOK, IoKept
<1> QED
  BY <1>12, <1>13, Finish

----------------------------------------------------------------------------
(***************************************************************************)
(* The initiation of a read begins: a new one, or the first put off.       *)
(***************************************************************************)
InitBegins(r) ==
    \/ /\ deferred # <<>> /\ r = Head(deferred) /\ deferred' = Tail(deferred) /\ rdAt' = rdAt
    \/ /\ rdAt[r] = "none" /\ rdAt' = [rdAt EXCEPT ![r] = "begun"] /\ deferred' = deferred

\* A read leaves the queue of those put off, or is new.
LEMMA QueueShrinks ==
    ASSUME ReadInv, NEW r \in Reads, InitBegins(r), rdPending' = rdPending, ioMode' = ioMode
    PROVE  /\ QueuesOK' /\ rdAt'[r] \in {"begun", "deferred"} /\ rdAt[r] \in {"none", "deferred"}
           /\ \A x : x # r => rdAt'[x] = rdAt[x]
           /\ \A d \in DOMAIN deferred' : deferred'[d] # r /\ \E e \in DOMAIN deferred : deferred[e] = deferred'[d]
           /\ \A d \in DOMAIN deferred : deferred[d] = r \/ \E e \in DOMAIN deferred' : deferred'[e] = deferred[d]
           /\ \A i \in DOMAIN stack : stack[i].k = "init" => stack[i].r # r
<1>1. /\ rdAt \in [Reads -> ReadStates] /\ deferred \in Seq(Reads) /\ rdPending \in Seq(Reads)
      /\ \A d \in DOMAIN deferred :
          /\ rdAt[deferred[d]] = "deferred"
          /\ \A e \in DOMAIN deferred : deferred[d] = deferred[e] => d = e
      /\ \A d \in DOMAIN rdPending :
          /\ rdAt[rdPending[d]] = "pending" /\ rdPending[d] \notin ioMode.long
          /\ \A e \in DOMAIN rdPending : rdPending[d] = rdPending[e] => d = e
  BY DEF ReadInv, QueuesOK
<1>2. CASE deferred # <<>> /\ r = Head(deferred) /\ deferred' = Tail(deferred) /\ rdAt' = rdAt
  <2> DEFINE m == Len(deferred)
  <2>1. /\ m \in Nat /\ m > 0 /\ DOMAIN deferred = 1 .. m /\ r = deferred[1]
        /\ deferred' \in Seq(Reads) /\ DOMAIN deferred' = 1 .. m - 1
        /\ \A d \in 1 .. m - 1 : deferred'[d] = deferred[d + 1]
    <3>1. m \in Nat /\ m > 0 /\ DOMAIN deferred = 1 .. m /\ r = deferred[1]
      BY <1>1, <1>2, EmptySeq, LenProperties
    <3>2. Tail(deferred) \in Seq(Reads) /\ Len(Tail(deferred)) = m - 1
          /\ \A d \in 1 .. Len(deferred) - 1 : Tail(deferred)[d] = deferred[d + 1]
      BY <1>1, <1>2, HeadTailProperties
    <3>3. DOMAIN Tail(deferred) = 1 .. m - 1
      BY <3>2, LenProperties
    <3> QED
      BY <1>2, <3>1, <3>2, <3>3
  <2> HIDE DEF m
  <2>2. 1 \in DOMAIN deferred /\ rdAt[r] = "deferred"
    BY <1>1, <2>1
  <2>3. ASSUME NEW d \in DOMAIN deferred'
        PROVE  /\ d + 1 \in DOMAIN deferred /\ d + 1 # 1 /\ deferred'[d] = deferred[d + 1]
    BY <2>1
  <2>4. \A d \in DOMAIN deferred' :
          /\ deferred'[d] # r /\ rdAt[deferred'[d]] = "deferred"
          /\ \E e \in DOMAIN deferred : deferred[e] = deferred'[d]
    BY <1>1, <2>1, <2>2, <2>3
  <2>5. ASSUME NEW d \in DOMAIN deferred', NEW e \in DOMAIN deferred', deferred'[d] = deferred'[e]
        PROVE  d = e
    <3>1. d + 1 = e + 1
      BY <1>1, <2>3, <2>5
    <3> QED
      BY <2>1, <3>1
  <2>6. ASSUME NEW d \in DOMAIN deferred, deferred[d] # r
        PROVE  d - 1 \in DOMAIN deferred' /\ deferred'[d - 1] = deferred[d]
    BY <2>1, <2>6
  <2>7. QueuesOK'
    BY <1>1, <1>2, <2>1, <2>4, <2>5 DEF QueuesOK
  <2>8. \A i \in DOMAIN stack : stack[i].k = "init" => stack[i].r # r
    BY <2>1, <2>2 DEF ReadInv, InitsOK
  <2> QED
    BY <1>2, <2>2, <2>4, <2>6, <2>7, <2>8
<1>3. CASE rdAt[r] = "none" /\ rdAt' = [rdAt EXCEPT ![r] = "begun"] /\ deferred' = deferred
  <2>1. rdAt' \in [Reads -> ReadStates] /\ rdAt'[r] = "begun"
    BY <1>1, <1>3 DEF ReadStates
  <2>2. \A x : x # r => rdAt'[x] = rdAt[x]
    BY <1>1, <1>3, <2>1
  <2>3. /\ \A d \in DOMAIN deferred : deferred[d] # r
        /\ \A d \in DOMAIN rdPending : rdPending[d] # r
    BY <1>1, <1>3
  <2>4. QueuesOK'
    BY <1>1, <1>3, <2>1, <2>2, <2>3 DEF QueuesOK
  <2>5. \A i \in DOMAIN stack : stack[i].k = "init" => stack[i].r # r
    BY <1>3 DEF ReadInv, InitsOK
  <2> QED
    BY <1>3, <2>1, <2>2, <2>3, <2>4, <2>5
<1> QED
  BY <1>2, <1>3 DEF InitBegins

\* An initiation begins.
LEMMA ReadsInitBegins ==
    ASSUME StackOK, ReadInv, top.k \in {"main", "receiver", "pending"}, NEW f, NEW g,
           Pushes(stack, stack', f, g), f.k = top.k, g.k = "init", g.r \in Reads,
           g.at \notin PastBuffer, InitBegins(g.r), UNCHANGED <<ioMode, rdBuf, rdFree, rdPending>>
    PROVE  ReadInv'
<1> DEFINE n == Len(stack)
<1> PICK r : r = g.r
  OBVIOUS
<1>1. Len(stack) = n /\ n \in Nat /\ n > 0 /\ DOMAIN stack = 1 .. n /\ top = stack[n]
  BY StackFacts
<1>2. /\ Len(stack') = n + 1 /\ DOMAIN stack' = 1 .. n + 1 /\ stack'[n] = f /\ stack'[n + 1] = g
      /\ \A i \in 1 .. n - 1 : stack'[i] = stack[i]
  BY StackBasics DEF Pushes
<1> HIDE DEF n
<1>3. ioMode' = ioMode /\ rdBuf' = rdBuf /\ rdFree' = rdFree /\ rdPending' = rdPending
  OBVIOUS
<1>4. /\ QueuesOK' /\ rdAt'[r] \in {"begun", "deferred"} /\ rdAt[r] \in {"none", "deferred"}
      /\ \A x : x # r => rdAt'[x] = rdAt[x]
      /\ \A d \in DOMAIN deferred' : deferred'[d] # r /\ \E e \in DOMAIN deferred : deferred[e] = deferred'[d]
      /\ \A d \in DOMAIN deferred : deferred[d] = r \/ \E e \in DOMAIN deferred' : deferred'[e] = deferred[d]
      /\ \A i \in DOMAIN stack : stack[i].k = "init" => stack[i].r # r
  BY QueueShrinks
<1>5. \A i \in DOMAIN stack' : i \in 1 .. n - 1 \/ i = n \/ i = n + 1
  BY <1>1, <1>2
<1>6. n \in DOMAIN stack' /\ n + 1 \in DOMAIN stack' /\ n \in DOMAIN stack
      /\ \A i \in 1 .. n - 1 : i \in DOMAIN stack /\ i \in DOMAIN stack' /\ i # n
  BY <1>1, <1>2
<1>7. GetBufsOK'
  <2>1. ASSUME NEW i \in DOMAIN stack', stack'[i].k = "getbuf"
        PROVE  GetBufOn(stack[i], stack[i - 1])'
    <3>1. i \in 1 .. n - 1 /\ i \in DOMAIN stack /\ stack[i].k = "getbuf" /\ stack'[i] = stack[i]
      BY <1>2, <1>5, <1>6, <2>1
    <3>2. i # 1
      BY <3>1 DEF StackOK
    <3>3. i - 1 \in 1 .. n - 1 /\ GetBufOn(stack[i], stack[i - 1])
      BY <1>1, <3>1, <3>2 DEF ReadInv, GetBufsOK
    <3> QED
      BY <1>2, <1>3, <3>1, <3>3 DEF GetBufOn, HasBuffer
  <2> QED
    BY <2>1 DEF GetBufsOK
<1>8. InitsOK'
  <2>1. \A i \in DOMAIN stack' : stack'[i].k = "init" =>
            \/ i = n + 1 /\ stack'[i].r = r /\ stack'[i].at \notin PastBuffer
            \/ i \in 1 .. n - 1 /\ i \in DOMAIN stack /\ stack'[i] = stack[i] /\ stack[i].r # r
    BY <1>2, <1>4, <1>5, <1>6
  <2>2. ASSUME NEW i \in DOMAIN stack', stack'[i].k = "init", stack'[i].at \in PastBuffer,
               ~UnderGetBuf(i)'
        PROVE  HasBuffer(stack[i].r)'
    <3>1. i \in 1 .. n - 1 /\ i \in DOMAIN stack /\ stack'[i] = stack[i]
      BY <2>1, <2>2
    <3>2. ~UnderGetBuf(i)
      BY <1>1, <1>2, <2>2, <3>1 DEF UnderGetBuf
    <3>3. HasBuffer(stack[i].r)
      BY <2>2, <3>1, <3>2 DEF ReadInv, InitsOK
    <3> QED
      BY <1>3, <3>1, <3>3 DEF HasBuffer
  <2>3. ASSUME NEW i \in DOMAIN stack', stack'[i].k = "init"
        PROVE  /\ rdAt'[stack'[i].r] \in {"begun", "deferred"}
               /\ \A d \in DOMAIN deferred' : deferred'[d] # stack'[i].r
               /\ \A j \in DOMAIN stack' : stack'[j].k = "init" /\ stack'[j].r = stack'[i].r => i = j
    BY <1>4, <2>1, <2>3 DEF ReadInv, InitsOK
  <2> QED
    BY <2>2, <2>3 DEF InitsOK
<1>9. TodosOK'
  <2>1. \A i \in DOMAIN stack' : i \in 1 .. n - 1 \/ DOMAIN Todo(stack'[i]) = {}
    <3>1. DOMAIN Todo(f) = {} /\ DOMAIN Todo(g) = {}
      BY DEF Todo
    <3> QED
      BY <1>2, <1>5, <3>1
  <2>2. ASSUME NEW i \in DOMAIN stack, NEW p \in DOMAIN Todo(stack[i]), Todo(stack[i])[p] # WriteCqe
        PROVE  rdAt'[Todo(stack[i])[p]] = "landed"
    BY <1>4, <2>2 DEF ReadInv, TodosOK
  <2> QED
    BY <1>2, <1>6, <2>1, <2>2 DEF ReadInv, TodosOK
<1>10. ReadsKept'
  <2>1. \A x \in Reads : InInit(x) => InInit(x)'
    <3>1. ASSUME NEW i \in DOMAIN stack, stack[i].k = "init"
          PROVE  i \in DOMAIN stack' /\ stack'[i] = stack[i]
      BY <1>1, <1>2, <3>1
    <3> QED
      BY <3>1 DEF InInit
  <2>2. InInit(r)'
    BY <1>2, <1>6 DEF InInit
  <2> QED
    BY <1>3, <1>4, <2>1, <2>2 DEF ReadInv, ReadsKept
<1>11. ReadBuffersConserved'
  BY <1>3, <1>4 DEF ReadInv, ReadBuffersConserved
<1> QED
  BY <1>4, <1>7, <1>8, <1>9, <1>10, <1>11 DEF ReadInv

LEMMA PendingFacts ==
    ASSUME StackOK, top.k = "pending"
    PROVE  Todo(top) = <<>> /\ ~IsHolder(top) /\ InCompletions(top) /\ \A q : ~LandedOf(top, q)
BY DEF Todo, IsHolder, InCompletions, LandedOf

LEMMA InitiatePendingStep ==
    ASSUME NodeWritersInv, InitiatePending, UNCHANGED nwVars
    PROVE  NodeWritersInv'
<1> USE DEF NodeWritersInv
<1>1. top.k = "pending" /\ StackOK /\ ReadInv /\ NumbersOK /\ FrameOK(top)
  BY StackFacts DEF InitiatePending, CoreInv
<1>2. /\ UNCHANGED <<ioMode, rdAt, rdBuf, rdFree, wrFree, rdPending, inflightWr, wrLanded>> /\ IoKept
  BY DEF InitiatePending, nwVars, IoKept
<1>3. Todo(top) = <<>> /\ ~IsHolder(top) /\ InCompletions(top) /\ \A q : ~LandedOf(top, q)
  BY <1>1, PendingFacts
<1>4. within \in Int /\ wrFree \in Int /\ inflightWr \in Int
  BY <1>1 DEF NumbersOK
<1>5. CASE deferred = <<>> \/ top.broke
  <2>1. Return /\ within' = within - 1 /\ deferred' = deferred
    BY <1>5 DEF InitiatePending
  <2>2. Pops(stack, stack')
    BY <1>1, <2>1, ReturnShape
  <2>3. NodesKept'
    BY <1>1, <1>2, <2>2, NodesSame DEF CoreInv, IoKept
  <2>4. Plain
    BY <1>2, <1>4, <2>1 DEF Plain, ReadVars
  <2>5. CoreInv'
    BY <1>1, <1>2, <1>3, <1>4, <2>1, <2>2, <2>3, <2>4, CorePops DEF Bit
  <2>6. PhaseOK' /\ ~flushed'
    BY <1>1, <1>2, <2>2, PhaseAbove DEF Quiet, PhaseOK, IoKept
  <2> QED
    BY <2>5, <2>6, Finish
<1>6. CASE ~(deferred = <<>> \/ top.broke)
  <2> DEFINE f == [top EXCEPT !.broke = Head(deferred) = top.last]
             g == InitFrame(Head(deferred), TRUE)
             t == [stack EXCEPT ![Len(stack)] = f]
  <2>1. /\ stack' = Append(t, g) /\ deferred' = Tail(deferred) /\ within' = within
    <3>1. top = stack[Len(stack)]
      BY <1>1, StackFacts
    <3> QED
      BY <1>6, <3>1 DEF InitiatePending
  <2>2. f.k = "pending" /\ FrameOK(f)
    BY <1>1 DEF FrameOK
  <2>3. Tops(stack, t, f)
    BY <1>1, StackFacts, ExceptShape
  <2>4. Head(deferred) \in Reads
    BY <1>1, <1>6, HeadTailProperties DEF ReadInv, QueuesOK
  <2>5. FrameOK(g) /\ g.k = "init" /\ g.at \notin PastBuffer /\ g.r = Head(deferred)
        /\ Todo(g) = <<>> /\ ~IsHolder(g) /\ ~InCompletions(g)
    BY <2>4, InitFrameFacts
  <2> HIDE DEF f, g, t
  <2>6. Pushes(stack, stack', f, g)
    BY <1>1, <2>1, <2>3, StackFacts, PushShape
  <2>7. InitBegins(g.r)
    BY <1>2, <1>6, <2>1, <2>5 DEF InitBegins
  <2>8. ReadInv'
    BY <1>1, <1>2, <2>2, <2>4, <2>5, <2>6, <2>7, ReadsInitBegins
  <2>9. Todo(f) = <<>> /\ ~IsHolder(f) /\ InCompletions(f) /\ \A q : LandedOf(f, q) <=> LandedOf(top, q)
    BY <1>3, <2>2 DEF Todo, IsHolder, InCompletions, LandedOf
  <2>10. LandedOK'
    <3>1. LandedWrites' = LandedWrites
      BY <1>1, <2>5, <2>6, <2>9, LandedSame
    <3> QED
      BY <1>2, <3>1 DEF CoreInv, LandedOK
  <2>11. NumbersOK'
    BY <1>1, <1>2, <2>1 DEF NumbersOK
  <2>12. CoreInv'
    BY <1>1, <1>2, <1>3, <1>4, <2>1, <2>2, <2>5, <2>6, <2>8, <2>9, <2>10, <2>11, FramePushes
       DEF Bit, IoKept
  <2>13. PhaseOK' /\ ~flushed'
    BY <1>1, <1>2, <2>2, <2>5, <2>6, PhaseAbove DEF PhaseOK, IoKept, Quiet
  <2> QED
    BY <2>12, <2>13, Finish
<1> QED
  BY <1>5, <1>6

\* While main runs it may do what it likes.
LEMMA PhaseRun ==
    ASSUME StackOK, PhaseOK, stack[1].at # "end", stack'[1].at = "run", flushed' = flushed,
           DOMAIN writer' = Writers
    PROVE  PhaseOK' /\ ~flushed'
BY DEF PhaseOK

\* A main or a receiver that goes on calls.
Callers == {"main", "receiver"}
LEMMA CallerFacts ==
    ASSUME NEW h, h.k \in Callers
    PROVE  Todo(h) = <<>> /\ ~IsHolder(h) /\ ~InCompletions(h) /\ \A q : ~LandedOf(h, q)
BY DEF Callers, Todo, IsHolder, InCompletions, LandedOf

\* If main is at the top it is alone.
LEMMA MainTop ==
    ASSUME StackOK, top.k = "main"
    PROVE  Len(stack) = 1 /\ top = stack[1]
<1>1. Len(stack) \in DOMAIN stack /\ top = stack[Len(stack)]
  BY StackFacts
<1>2. Len(stack) = 1
  BY <1>1 DEF StackOK
<1> QED
  BY <1>1, <1>2

\* Where the caller stands
CallerAt(at) == \/ top.k = "main" /\ top.at = "run" /\ at = "run"
                \/ top.k = "receiver" /\ top.at = "run" /\ at = "end"

\* A call of main while it runs, or of a receiver
LEMMA PhaseCalls ==
    ASSUME StackOK, PhaseOK, NEW at, CallerAt(at), NEW f, NEW g, Pushes(stack, stack', f, g),
           f.k = top.k, f.at = at, flushed' = flushed, writer' = writer,
           top.k = "receiver" => ~Quiet
    PROVE  PhaseOK' /\ ~flushed'
<1>1. CASE top.k = "main"
  <2>1. Len(stack) = 1 /\ stack[1].at = "run" /\ at = "run"
    BY <1>1, MainTop DEF CallerAt
  <2>2. stack'[1] = f
    BY <2>1 DEF Pushes
  <2> QED
    BY <2>1, <2>2, PhaseRun DEF PhaseOK
<1>2. CASE top.k = "receiver"
  BY <1>2, PhaseAbove DEF PhaseOK
<1> QED
  BY <1>1, <1>2 DEF CallerAt

\* While a receiver runs, somebody reads.
LEMMA ReceiverNotQuiet ==
    ASSUME StackOK, top.k = "receiver"
    PROVE  ~Quiet
BY StackFacts DEF Quiet

LEMMA BeginReadStep ==
    ASSUME NodeWritersInv, NEW r \in Reads, NEW at, CallerAt(at), BeginRead(r, at)
    PROVE  NodeWritersInv'
<1> USE DEF NodeWritersInv
<1>1. top.k \in Callers /\ StackOK /\ ReadInv /\ NumbersOK /\ top.k # "pending"
  BY DEF CallerAt, Callers, CoreInv
<1>2. UNCHANGED <<ioMode, rdBuf, rdFree, wrFree, rdPending, inflightWr, wrLanded, deferred, within>>
      /\ IoKept
  BY DEF BeginRead, nwVars, IoKept
<1> DEFINE g == InitFrame(r, FALSE)
<1>3. Call_(at, g) /\ InitBegins(r)
  BY <1>2 DEF BeginRead, InitBegins
<1>4. FrameOK(g) /\ g.k = "init" /\ g.at \notin PastBuffer /\ g.r = r
      /\ Todo(g) = <<>> /\ ~IsHolder(g) /\ ~InCompletions(g)
  BY InitFrameFacts
<1> HIDE DEF g
<1>5. PICK f : Pushes(stack, stack', f, g) /\ Same(f, top) /\ f.at = at
  BY <1>1, <1>3, CallsFrom
<1>6. f.k = top.k /\ FrameOK(f)
  BY <1>5 DEF Same
<1>7. /\ Todo(top) = <<>> /\ ~IsHolder(top) /\ ~InCompletions(top) /\ \A q : ~LandedOf(top, q)
      /\ Todo(f) = <<>> /\ ~IsHolder(f) /\ ~InCompletions(f) /\ \A q : ~LandedOf(f, q)
  BY <1>1, <1>6, CallerFacts
<1>8. ReadInv'
  BY <1>1, <1>2, <1>3, <1>4, <1>5, <1>6, ReadsInitBegins DEF Callers
<1>9. LandedOK'
  <2>1. LandedWrites' = LandedWrites
    BY <1>1, <1>4, <1>5, <1>7, LandedSame
  <2> QED
    BY <1>2, <2>1 DEF CoreInv, LandedOK
<1>10. NumbersOK' /\ within \in Int /\ wrFree \in Int /\ inflightWr \in Int
  BY <1>1, <1>2 DEF NumbersOK
<1>11. CoreInv'
  BY <1>1, <1>2, <1>4, <1>5, <1>6, <1>7, <1>8, <1>9, <1>10, FramePushes DEF Bit, IoKept, Callers
<1>12. PhaseOK' /\ ~flushed'
  BY <1>1, <1>2, <1>5, <1>6, PhaseCalls, ReceiverNotQuiet DEF IoKept
<1> QED
  BY <1>11, <1>12, Finish

----------------------------------------------------------------------------
(***************************************************************************)
(* Polls: reads that wait are submitted, completions are taken and         *)
(* processed.                                                              *)
(***************************************************************************)
\* Of the reads over the limit the first ones are submitted, the others keep their order.
LEMMA DequeueView ==
    ASSUME NumbersOK, rdPending \in Seq(Reads), NEW at, DequeuePending(at)
    PROVE  \E m \in 0 .. Len(rdPending) :
               /\ rdAt' = [r \in Reads |-> IF r \in ToSet(SubSeq(rdPending, 1, m)) THEN "flight" ELSE at[r]]
               /\ rdPending' = SubSeq(rdPending, m + 1, Len(rdPending))
<1> DEFINE short == ShortInFlight(at)
           room == ioMode.limit - short
           m == IF room <= 0 THEN 0 ELSE IF room < Len(rdPending) THEN room ELSE Len(rdPending)
<1>1. short \in Nat
  <2>1. IsFiniteSet({r \in Reads \ ioMode.long : at[r] \in {"flight", "landed"}})
    <3>1. IsFiniteSet(Reads)
      BY AsyncIOAssumption
    <3> QED
      BY <3>1, FS_Subset
  <2> QED
    BY <2>1, FS_CardinalityType DEF ShortInFlight
<1>2. ioMode.limit \in Nat /\ Len(rdPending) \in Nat
  BY ModeFacts, LenProperties
<1> HIDE DEF short
<1>3. m \in 0 .. Len(rdPending)
  BY <1>1, <1>2
<1>4. /\ rdAt' = [r \in Reads |-> IF r \in ToSet(SubSeq(rdPending, 1, m)) THEN "flight" ELSE at[r]]
      /\ rdPending' = SubSeq(rdPending, m + 1, Len(rdPending))
  BY DEF DequeuePending, short
<1> QED
  BY <1>3, <1>4

\* dequeue_concurrent_read_ios_pending: reads go from the queue into flight.
LEMMA DequeueFacts ==
    ASSUME NumbersOK, QueuesOK, ReadsKept, NEW at \in [Reads -> ReadStates], DequeuePending(at),
           \A x \in Reads : at[x] # rdAt[x] => at[x] = "done" /\ rdAt[x] = "landed"
    PROVE  /\ rdAt' \in [Reads -> ReadStates] /\ rdPending' \in Seq(Reads)
           /\ \A x \in Reads : \/ rdAt'[x] = at[x]
                               \/ rdAt[x] = "pending" /\ at[x] = "pending" /\ rdAt'[x] = "flight"
           /\ \A d \in DOMAIN rdPending' :
               /\ rdAt'[rdPending'[d]] = "pending" /\ rdPending'[d] \notin ioMode.long
               /\ \A e \in DOMAIN rdPending' : rdPending'[d] = rdPending'[e] => d = e
           /\ \A x \in Reads : rdAt'[x] = "pending" => \E d \in DOMAIN rdPending' : rdPending'[d] = x
<1> DEFINE L == Len(rdPending)
<1>1. /\ rdAt \in [Reads -> ReadStates] /\ rdPending \in Seq(Reads) /\ L \in Nat
      /\ DOMAIN rdPending = 1 .. L
      /\ \A d \in 1 .. L : rdPending[d] \in Reads
      /\ \A d \in 1 .. L :
          /\ rdAt[rdPending[d]] = "pending" /\ rdPending[d] \notin ioMode.long
          /\ \A e \in 1 .. L : rdPending[d] = rdPending[e] => d = e
  <2>1. /\ rdAt \in [Reads -> ReadStates] /\ rdPending \in Seq(Reads)
    BY DEF QueuesOK
  <2>2. L \in Nat /\ DOMAIN rdPending = 1 .. L /\ \A d \in 1 .. L : rdPending[d] \in Reads
    BY <2>1, LenProperties, ElementOfSeq
  <2> QED
    BY <2>1, <2>2 DEF QueuesOK
<1>2. PICK m \in 0 .. L :
          /\ rdAt' = [r \in Reads |-> IF r \in ToSet(SubSeq(rdPending, 1, m)) THEN "flight" ELSE at[r]]
          /\ rdPending' = SubSeq(rdPending, m + 1, L)
  BY <1>1, DequeueView
<1> HIDE DEF L
<1>3. \A x : x \in ToSet(SubSeq(rdPending, 1, m)) <=> \E d \in 1 .. m : x = rdPending[d]
  <2> DEFINE s == SubSeq(rdPending, 1, m)
  <2>1. s \in Seq(Reads) /\ Len(s) = m /\ \A d \in 1 .. m : s[d] = rdPending[d]
    <3>1. \A d \in 1 .. m : rdPending[d] \in Reads
      BY <1>1, <1>2
    <3>2. 1 \in Int /\ m \in Int /\ m >= 0
      BY <1>1, <1>2
    <3>3. /\ s \in Seq(Reads) /\ Len(s) = IF 1 <= m THEN m - 1 + 1 ELSE 0
          /\ \A d \in 1 .. m - 1 + 1 : s[d] = rdPending[1 + d - 1]
      BY <3>1, <3>2, SubSeqProperties
    <3> HIDE DEF s
    <3> QED
      BY <1>1, <3>2, <3>3
  <2> HIDE DEF s
  <2>2. DOMAIN s = 1 .. m
    BY <2>1, LenProperties
  <2>3. ToSet(s) = {s[d] : d \in DOMAIN s}
    BY DEF ToSet
  <2> QED
    BY <2>1, <2>2, <2>3 DEF s
<1>4. /\ rdPending' \in Seq(Reads) /\ DOMAIN rdPending' = 1 .. L - m
      /\ \A d \in 1 .. L - m : rdPending'[d] = rdPending[d + m]
  <2> DEFINE s == SubSeq(rdPending, m + 1, L)
  <2>1. \A d \in m + 1 .. L : rdPending[d] \in Reads
    BY <1>1, <1>2
  <2>2. m + 1 \in Int /\ L \in Int /\ m \in Int /\ m <= L
    BY <1>1, <1>2
  <2>3. /\ s \in Seq(Reads) /\ Len(s) = IF m + 1 <= L THEN L - (m + 1) + 1 ELSE 0
        /\ \A d \in 1 .. L - (m + 1) + 1 : s[d] = rdPending[(m + 1) + d - 1]
    BY <2>1, <2>2, SubSeqProperties
  <2> HIDE DEF s
  <2>4. DOMAIN s = 1 .. Len(s)
    BY <2>3, LenProperties
  <2>5. Len(s) = L - m
    BY <2>2, <2>3
  <2>6. \A d \in 1 .. L - m : s[d] = rdPending[d + m]
    <3>1. ASSUME NEW d \in 1 .. L - m PROVE (m + 1) + d - 1 = d + m /\ d \in 1 .. L - (m + 1) + 1
      BY <2>2
    <3> QED
      BY <2>3, <3>1
  <2> QED
    BY <1>2, <2>3, <2>4, <2>5, <2>6 DEF s
<1>5. rdAt' \in [Reads -> ReadStates]
  BY <1>2 DEF ReadStates
<1>6. \A x \in Reads : rdAt'[x] = IF \E d \in 1 .. m : x = rdPending[d] THEN "flight" ELSE at[x]
  BY <1>2, <1>3
<1>7. \A d \in 1 .. L : at[rdPending[d]] = "pending"
  BY <1>1
<1>8. \A x \in Reads : \/ rdAt'[x] = at[x]
                       \/ rdAt[x] = "pending" /\ at[x] = "pending" /\ rdAt'[x] = "flight"
  <2>1. \A d \in 1 .. m : d \in 1 .. L
    BY <1>1, <1>2
  <2> QED
    BY <1>1, <1>6, <1>7, <2>1
<1>9. ASSUME NEW d \in DOMAIN rdPending'
      PROVE  /\ d + m \in 1 .. L /\ rdPending'[d] = rdPending[d + m]
             /\ rdAt'[rdPending'[d]] = "pending" /\ rdPending'[d] \notin ioMode.long
  <2>1. d + m \in 1 .. L /\ d + m \notin 1 .. m /\ rdPending'[d] = rdPending[d + m]
        /\ \A e \in 1 .. m : e \in 1 .. L
    BY <1>1, <1>2, <1>4
  <2>2. ~\E e \in 1 .. m : rdPending[d + m] = rdPending[e]
    BY <1>1, <2>1
  <2> QED
    BY <1>1, <1>6, <1>7, <2>1, <2>2
<1>10. ASSUME NEW d \in DOMAIN rdPending', NEW e \in DOMAIN rdPending', rdPending'[d] = rdPending'[e]
       PROVE  d = e
  <2>1. d + m = e + m
    BY <1>1, <1>9, <1>10
  <2> QED
    BY <1>1, <1>2, <1>4, <2>1
<1>11. ASSUME NEW x \in Reads, rdAt'[x] = "pending"
       PROVE  \E d \in DOMAIN rdPending' : rdPending'[d] = x
  <2>1. ~(\E d \in 1 .. m : x = rdPending[d]) /\ rdAt[x] = "pending"
    BY <1>6, <1>11
  <2>2. PICK d \in 1 .. L : rdPending[d] = x
    BY <1>1, <2>1 DEF ReadsKept
  <2>3. d - m \in 1 .. L - m /\ (d - m) + m = d
    BY <1>1, <1>2, <2>1, <2>2
  <2> QED
    BY <1>4, <2>2, <2>3
<1> QED
  BY <1>4, <1>5, <1>8, <1>9, <1>10, <1>11

\* The poll on top goes on, and a receiver may be called.
PollGoes(f, g) ==
    /\ top.k = "poll" /\ f.k = "poll"
    /\ Tops(stack, stack', f) \/ (Pushes(stack, stack', f, g) /\ g.k = "receiver")

\* A poll goes on, or calls a receiver.
LEMMA PollGoesShape ==
    ASSUME StackOK, NEW f, NEW g, PollGoes(f, g)
    PROVE  \E n \in Nat :
               /\ n = Len(stack) /\ n > 0 /\ DOMAIN stack = 1 .. n /\ top = stack[n]
               /\ stack'[n] = f /\ Len(stack') \in Nat /\ Len(stack') >= n
               /\ \A i \in 1 .. n - 1 : stack'[i] = stack[i] /\ i \in DOMAIN stack /\ i \in DOMAIN stack' /\ i # n
               /\ n \in DOMAIN stack /\ n \in DOMAIN stack'
               /\ \A i \in DOMAIN stack' : i \in 1 .. n - 1 \/ i = n \/ (i = n + 1 /\ stack'[i].k = "receiver")
               /\ Todo(stack[n]) = top.todo /\ Todo(stack'[n]) = f.todo
               /\ \A i \in DOMAIN stack' : stack'[i].k = "receiver" => DOMAIN Todo(stack'[i]) = {}
               /\ top.todo \in Seq(Reads \cup {WriteCqe}) /\ top.n \in Nat
<1> DEFINE n == Len(stack)
<1>1. Len(stack) = n /\ n \in Nat /\ n > 0 /\ DOMAIN stack = 1 .. n /\ top = stack[n] /\ FrameOK(top)
  BY StackFacts
<1>2. /\ \A i \in 1 .. n - 1 : stack'[i] = stack[i]
      /\ stack'[n] = f
      /\ \/ Len(stack') = n /\ DOMAIN stack' = 1 .. n
         \/ Len(stack') = n + 1 /\ DOMAIN stack' = 1 .. n + 1 /\ stack'[n + 1] = g /\ g.k = "receiver"
  BY StackBasics DEF PollGoes, Tops, Pushes
<1> HIDE DEF n
<1>3. top.todo \in Seq(Reads \cup {WriteCqe}) /\ top.n \in Nat
  BY <1>1 DEF FrameOK, PollGoes
<1>4. Todo(stack[n]) = top.todo /\ Todo(stack'[n]) = f.todo
  BY <1>1, <1>2 DEF Todo, PollGoes
<1>5. \A i \in DOMAIN stack' : stack'[i].k = "receiver" => DOMAIN Todo(stack'[i]) = {}
  BY DEF Todo
<1>6. /\ \A i \in 1 .. n - 1 : i \in DOMAIN stack /\ i \in DOMAIN stack' /\ i # n
      /\ n \in DOMAIN stack /\ n \in DOMAIN stack' /\ Len(stack') \in Nat /\ Len(stack') >= n
      /\ \A i \in DOMAIN stack' : i \in 1 .. n - 1 \/ i = n \/ (i = n + 1 /\ stack'[i].k = "receiver")
  BY <1>1, <1>2
<1> QED
  BY <1>1, <1>2, <1>3, <1>4, <1>5, <1>6

\* What a poll may do to reads leaves those alone that are being initiated.
LEMMA ReadsPoll ==
    ASSUME StackOK, ReadInv, NEW f, NEW g, PollGoes(f, g), ioMode' = ioMode,
           QueuesOK', TodosOK', ReadBuffersConserved',
           \A x \in Reads : rdAt[x] \in {"begun", "deferred"} =>
               rdAt'[x] = rdAt[x] /\ (x \in rdBuf' <=> x \in rdBuf),
           \A x \in Reads : rdAt'[x] = "begun" => rdAt[x] = "begun",
           \A x \in Reads : rdAt'[x] = "deferred" =>
               rdAt[x] = "deferred" \/ \E d \in DOMAIN deferred' : deferred'[d] = x,
           \A d \in DOMAIN deferred : \E e \in DOMAIN deferred' : deferred'[e] = deferred[d],
           \A d \in DOMAIN deferred' : \/ \E e \in DOMAIN deferred : deferred[e] = deferred'[d]
                                       \/ rdAt[deferred'[d]] = "landed",
           \A x \in Reads : rdAt'[x] = "pending" => \E d \in DOMAIN rdPending' : rdPending'[d] = x
    PROVE  ReadInv'
<1>1. PICK n \in Nat :
          /\ n = Len(stack) /\ n > 0 /\ DOMAIN stack = 1 .. n /\ top = stack[n]
          /\ stack'[n] = f /\ Len(stack') \in Nat /\ Len(stack') >= n
          /\ \A i \in 1 .. n - 1 : stack'[i] = stack[i] /\ i \in DOMAIN stack /\ i \in DOMAIN stack' /\ i # n
          /\ n \in DOMAIN stack /\ n \in DOMAIN stack'
          /\ \A i \in DOMAIN stack' : i \in 1 .. n - 1 \/ i = n \/ (i = n + 1 /\ stack'[i].k = "receiver")
  BY PollGoesShape
<1>2. top.k = "poll" /\ f.k = "poll"
  BY DEF PollGoes
<1>3. ASSUME NEW i \in DOMAIN stack, stack[i].k = "init"
      PROVE  /\ stack[i].r \in Reads /\ rdAt'[stack[i].r] = rdAt[stack[i].r]
             /\ rdAt[stack[i].r] \in {"begun", "deferred"}
             /\ HasBuffer(stack[i].r) <=> stack[i].r \in ioMode.long \cup rdBuf'
  <2>1. stack[i].r \in Reads
    BY <1>3 DEF StackOK, FrameOK
  <2>2. rdAt[stack[i].r] \in {"begun", "deferred"}
    BY <1>3 DEF ReadInv, InitsOK
  <2> QED
    BY <2>1, <2>2 DEF HasBuffer
<1>4. \A i \in DOMAIN stack' : stack'[i].k \in {"init", "getbuf"} =>
          i \in 1 .. n - 1 /\ i \in DOMAIN stack /\ stack'[i] = stack[i]
  BY <1>1, <1>2
<1>5. GetBufsOK'
  <2>1. ASSUME NEW i \in DOMAIN stack', stack'[i].k = "getbuf"
        PROVE  GetBufOn(stack[i], stack[i - 1])'
    <3>1. i \in 1 .. n - 1 /\ i \in DOMAIN stack /\ stack[i].k = "getbuf" /\ stack'[i] = stack[i]
      BY <1>4, <2>1
    <3>2. i # 1
      BY <3>1 DEF StackOK
    <3>3. i - 1 \in 1 .. n - 1 /\ GetBufOn(stack[i], stack[i - 1])
      <4>1. i - 1 \in 1 .. n - 1
        BY <3>1, <3>2
      <4>2. GetBufOn(stack[i], stack[i - 1])
        BY <3>1 DEF ReadInv, GetBufsOK
      <4> QED
        BY <4>1, <4>2
    <3>4. i - 1 \in DOMAIN stack /\ stack'[i - 1] = stack[i - 1]
      BY <1>1, <3>3
    <3>5. CASE stack[i].write
      BY <3>1, <3>3, <3>4, <3>5 DEF GetBufOn
    <3>6. CASE ~stack[i].write
      <4>1. stack[i - 1].k = "init" /\ stack[i - 1].r = stack[i].r /\ stack[i - 1].at = "limit"
            /\ ~HasBuffer(stack[i].r)
        BY <3>3, <3>6 DEF GetBufOn
      <4>2. stack[i].r \notin ioMode.long \cup rdBuf'
        BY <1>3, <3>4, <4>1
      <4> QED
        BY <3>1, <3>4, <3>6, <4>1, <4>2 DEF GetBufOn, HasBuffer
    <3> QED
      BY <3>5, <3>6
  <2> QED
    BY <2>1 DEF GetBufsOK
<1>6. InitsOK'
  <2>1. ASSUME NEW i \in DOMAIN stack', stack'[i].k = "init", stack'[i].at \in PastBuffer,
               ~UnderGetBuf(i)'
        PROVE  HasBuffer(stack[i].r)'
    <3>1. i \in 1 .. n - 1 /\ i \in DOMAIN stack /\ stack'[i] = stack[i]
      BY <1>4, <2>1
    <3>2. ~UnderGetBuf(i)
      <4>1. i + 1 \in 1 .. n - 1 \/ i + 1 = n
        BY <1>1, <3>1
      <4>2. CASE i + 1 = n
        BY <1>1, <1>2, <4>2 DEF UnderGetBuf
      <4>3. CASE i + 1 \in 1 .. n - 1
        <5>1. i < Len(stack') /\ stack'[i + 1] = stack[i + 1]
          BY <1>1, <3>1, <4>3
        <5> QED
          BY <2>1, <5>1 DEF UnderGetBuf
      <4> QED
        BY <4>1, <4>2, <4>3
    <3>3. HasBuffer(stack[i].r)
      BY <2>1, <3>1, <3>2 DEF ReadInv, InitsOK
    <3>4. stack[i].r \in ioMode.long \cup rdBuf'
      BY <1>3, <2>1, <3>1, <3>3
    <3> QED
      BY <3>1, <3>4 DEF HasBuffer
  <2>2. ASSUME NEW i \in DOMAIN stack', stack'[i].k = "init"
        PROVE  /\ rdAt'[stack'[i].r] \in {"begun", "deferred"}
               /\ \A d \in DOMAIN deferred' : deferred'[d] # stack'[i].r
               /\ \A j \in DOMAIN stack' : stack'[j].k = "init" /\ stack'[j].r = stack'[i].r => i = j
    <3>1. i \in DOMAIN stack /\ stack'[i] = stack[i] /\ stack[i].k = "init"
      BY <1>4, <2>2
    <3>2. rdAt'[stack[i].r] = rdAt[stack[i].r] /\ rdAt[stack[i].r] \in {"begun", "deferred"}
      BY <1>3, <3>1
    <3>3. \A d \in DOMAIN deferred' : deferred'[d] # stack[i].r
      BY <3>1, <3>2 DEF ReadInv, InitsOK
    <3>4. \A j \in DOMAIN stack' : stack'[j].k = "init" /\ stack'[j].r = stack'[i].r => i = j
      BY <1>4, <3>1 DEF ReadInv, InitsOK
    <3> QED
      BY <3>1, <3>2, <3>3, <3>4
  <2> QED
    BY <2>1, <2>2 DEF InitsOK
<1>7. ReadsKept'
  <2>1. \A x \in Reads : InInit(x) => InInit(x)'
    <3>1. ASSUME NEW i \in DOMAIN stack, stack[i].k = "init"
          PROVE  i \in DOMAIN stack' /\ stack'[i] = stack[i]
      BY <1>1, <1>2, <3>1
    <3> QED
      BY <3>1 DEF InInit
  <2> QED
    BY <2>1 DEF ReadInv, ReadsKept
<1> QED
  BY <1>5, <1>6, <1>7 DEF ReadInv

\* The first k completions are processed: their reads alone are no longer landed.
LEMMA TodosMove ==
    ASSUME StackOK, TodosOK, NEW f, NEW g, PollGoes(f, g), NEW k \in Nat,
           \A p \in DOMAIN f.todo : p \in Nat /\ p > 0 /\ p + k \in DOMAIN top.todo /\ f.todo[p] = top.todo[p + k],
           \A x \in Reads : rdAt[x] = "landed" /\ rdAt'[x] # "landed" =>
               \E p \in DOMAIN top.todo : p <= k /\ top.todo[p] = x
    PROVE  TodosOK'
<1>1. PICK n \in Nat :
          /\ n = Len(stack) /\ n > 0 /\ DOMAIN stack = 1 .. n /\ top = stack[n]
          /\ \A i \in 1 .. n - 1 : stack'[i] = stack[i] /\ i \in DOMAIN stack /\ i \in DOMAIN stack' /\ i # n
          /\ n \in DOMAIN stack /\ n \in DOMAIN stack'
          /\ \A i \in DOMAIN stack' : i \in 1 .. n - 1 \/ i = n \/ (i = n + 1 /\ stack'[i].k = "receiver")
          /\ Todo(stack[n]) = top.todo /\ Todo(stack'[n]) = f.todo
          /\ \A i \in DOMAIN stack' : stack'[i].k = "receiver" => DOMAIN Todo(stack'[i]) = {}
  BY PollGoesShape
\* where a completion was
<1> DEFINE At(i, p) == IF i = n THEN p + k ELSE p
<1>2. ASSUME NEW i \in DOMAIN stack', NEW p \in DOMAIN Todo(stack'[i])
      PROVE  /\ i \in DOMAIN stack /\ At(i, p) \in DOMAIN Todo(stack[i])
             /\ Todo(stack'[i])[p] = Todo(stack[i])[At(i, p)]
             /\ i = n => p \in Nat /\ p > 0
  <2>1. CASE i = n
    BY <1>1, <1>2, <2>1
  <2>2. CASE i \in 1 .. n - 1
    BY <1>1, <1>2, <2>2
  <2> QED
    BY <1>1, <1>2, <2>1, <2>2
<1>3. ASSUME NEW i \in DOMAIN stack', NEW p \in DOMAIN Todo(stack'[i]), Todo(stack'[i])[p] # WriteCqe
      PROVE  rdAt'[Todo(stack'[i])[p]] = "landed"
  <2> DEFINE x == Todo(stack'[i])[p]
  <2>1. i \in DOMAIN stack /\ At(i, p) \in DOMAIN Todo(stack[i]) /\ x = Todo(stack[i])[At(i, p)]
        /\ (i = n => p \in Nat /\ p > 0)
    BY <1>2
  <2>2. rdAt[x] = "landed"
    BY <1>3, <2>1 DEF TodosOK
  <2>3. x \in Reads
    <3>1. Todo(stack[i]) \in Seq(Reads \cup {WriteCqe})
      BY <2>1 DEF StackOK, FrameOK, Todo
    <3> HIDE DEF At
    <3>2. x \in Reads \cup {WriteCqe}
      BY <2>1, <3>1, ElementOfSeq, LenProperties
    <3> QED
      BY <1>3, <3>2
  <2>4. ASSUME rdAt'[x] # "landed" PROVE FALSE
    <3>1. PICK q \in DOMAIN top.todo : q <= k /\ top.todo[q] = x
      BY <2>2, <2>3, <2>4
    <3>2. Todo(stack[n]) = top.todo /\ n \in DOMAIN stack
      BY <1>1
    <3>3. i = n /\ q = At(i, p)
      BY <1>3, <2>1, <3>1, <3>2 DEF TodosOK
    <3>4. q = p + k /\ p \in Nat /\ p > 0
      BY <2>1, <3>3
    <3> QED
      BY <3>1, <3>4
  <2> QED
    BY <2>4
<1>4. ASSUME NEW i \in DOMAIN stack', NEW p \in DOMAIN Todo(stack'[i]), Todo(stack'[i])[p] # WriteCqe,
             NEW j \in DOMAIN stack', NEW q \in DOMAIN Todo(stack'[j]),
             Todo(stack'[i])[p] = Todo(stack'[j])[q]
      PROVE  i = j /\ p = q
  <2>1. i = j /\ At(i, p) = At(j, q)
    BY <1>2, <1>4 DEF TodosOK
  <2> QED
    BY <1>2, <2>1
<1> QED
  BY <1>3, <1>4 DEF TodosOK

\* A completion is taken that was in flight.
LEMMA TodosTake ==
    ASSUME StackOK, TodosOK, NEW f, PollGoes(f, f), NEW c \in Reads \cup {WriteCqe},
           f.todo = Append(top.todo, c), rdAt \in [Reads -> ReadStates],
           c # WriteCqe => rdAt[c] = "flight",
           rdAt' = IF c = WriteCqe THEN rdAt ELSE [rdAt EXCEPT ![c] = "landed"]
    PROVE  TodosOK'
<1>1. PICK n \in Nat :
          /\ n = Len(stack) /\ n > 0 /\ DOMAIN stack = 1 .. n /\ top = stack[n]
          /\ \A i \in 1 .. n - 1 : stack'[i] = stack[i] /\ i \in DOMAIN stack /\ i \in DOMAIN stack' /\ i # n
          /\ n \in DOMAIN stack /\ n \in DOMAIN stack'
          /\ \A i \in DOMAIN stack' : i \in 1 .. n - 1 \/ i = n \/ (i = n + 1 /\ stack'[i].k = "receiver")
          /\ Todo(stack[n]) = top.todo /\ Todo(stack'[n]) = f.todo
          /\ \A i \in DOMAIN stack' : stack'[i].k = "receiver" => DOMAIN Todo(stack'[i]) = {}
          /\ top.todo \in Seq(Reads \cup {WriteCqe})
  BY PollGoesShape
<1>2. /\ Len(top.todo) \in Nat /\ DOMAIN top.todo = 1 .. Len(top.todo)
      /\ DOMAIN f.todo = 1 .. Len(top.todo) + 1 /\ f.todo[Len(top.todo) + 1] = c
      /\ \A i \in 1 .. Len(top.todo) : f.todo[i] = top.todo[i]
  BY <1>1, QueueAppend
<1> DEFINE m == Len(top.todo)
<1>3. /\ m \in Nat /\ DOMAIN top.todo = 1 .. m /\ DOMAIN f.todo = 1 .. m + 1 /\ f.todo[m + 1] = c
      /\ \A i \in 1 .. m : f.todo[i] = top.todo[i]
  BY <1>2
<1> HIDE DEF m
<1>4. ASSUME NEW i \in DOMAIN stack', NEW p \in DOMAIN Todo(stack'[i])
      PROVE  \/ i = n /\ p = m + 1 /\ Todo(stack'[i])[p] = c
             \/ /\ i \in DOMAIN stack /\ p \in DOMAIN Todo(stack[i])
                /\ Todo(stack'[i])[p] = Todo(stack[i])[p] /\ ~(i = n /\ p = m + 1)
  <2>1. CASE i = n
    <3>1. p \in 1 .. m + 1
      BY <1>1, <1>3, <1>4, <2>1
    <3>2. p \in 1 .. m \/ p = m + 1
      BY <1>3, <3>1
    <3> QED
      BY <1>1, <1>3, <1>4, <2>1, <3>2
  <2>2. CASE i \in 1 .. n - 1
    BY <1>1, <1>4, <2>2
  <2> QED
    BY <1>1, <1>4, <2>1, <2>2
<1>5. ASSUME NEW i \in DOMAIN stack, NEW p \in DOMAIN Todo(stack[i]), Todo(stack[i])[p] # WriteCqe
      PROVE  Todo(stack[i])[p] # c /\ rdAt'[Todo(stack[i])[p]] = "landed"
  <2>1. rdAt[Todo(stack[i])[p]] = "landed"
    BY <1>5 DEF TodosOK
  <2>2. Todo(stack[i])[p] # c
    BY <1>5, <2>1
  <2> QED
    BY <2>1, <2>2
<1>6. c # WriteCqe => rdAt'[c] = "landed"
  OBVIOUS
<1>7. ASSUME NEW i \in DOMAIN stack', NEW p \in DOMAIN Todo(stack'[i]), Todo(stack'[i])[p] # WriteCqe
      PROVE  rdAt'[Todo(stack'[i])[p]] = "landed"
  BY <1>4, <1>5, <1>6, <1>7
<1>8. ASSUME NEW i \in DOMAIN stack', NEW p \in DOMAIN Todo(stack'[i]), Todo(stack'[i])[p] # WriteCqe,
             NEW j \in DOMAIN stack', NEW q \in DOMAIN Todo(stack'[j]),
             Todo(stack'[i])[p] = Todo(stack'[j])[q]
      PROVE  i = j /\ p = q
  BY <1>4, <1>5, <1>8 DEF TodosOK
<1> QED
  BY <1>7, <1>8 DEF TodosOK

\* A poll goes on, given what it does to the reads and to the completed writes.
LEMMA PollFinish ==
    ASSUME NodeWritersInv, NEW f, NEW g, PollGoes(f, g), FrameOK(f), FrameOK(g), IoKept,
           ReadInv', NumbersOK', LandedOK',
           within' = within + Bit(InCompletions(f)) - Bit(InCompletions(top)),
           Tops(stack, stack', f) \/ (InCompletions(f) <=> InCompletions(top)),
           wrFree' + inflightWr' = wrFree + inflightWr,
           Quiet => Tops(stack, stack', f) /\ \A r \in Reads : rdAt'[r] \in {"none", "done"}
    PROVE  NodeWritersInv'
<1> USE DEF NodeWritersInv
<1>1. top.k = "poll" /\ f.k = "poll" /\ ~IsHolder(f) /\ ~IsHolder(top) /\ StackOK
  BY DEF PollGoes, IsHolder, CoreInv
<1>2. within \in Int /\ wrFree \in Int /\ inflightWr \in Int
      /\ wrFree' \in Int /\ inflightWr' \in Int
  BY DEF CoreInv, NumbersOK
<1>3. CASE Tops(stack, stack', f)
  <2>1. Bit(IsHolder(f)) = 0 /\ Bit(IsHolder(top)) = 0
    BY <1>1 DEF Bit
  <2>2. wrFree' + inflightWr' + Bit(IsHolder(f)) = wrFree + inflightWr + Bit(IsHolder(top))
    BY <1>2, <2>1
  <2>3. CoreInv'
    BY <1>1, <1>3, <2>2, FrameTops DEF IoKept
  <2>4. PhaseOK' /\ ~flushed'
    BY <1>1, <1>3, PhaseAbove DEF PhaseOK, IoKept
  <2> QED
    BY <2>3, <2>4, Finish
<1>4. CASE ~Tops(stack, stack', f)
  <2>1. Pushes(stack, stack', f, g) /\ g.k = "receiver"
    BY <1>4 DEF PollGoes
  <2>2. ~IsHolder(g) /\ ~InCompletions(g) /\ (InCompletions(f) <=> InCompletions(top))
    BY <1>4, <2>1 DEF IsHolder, InCompletions
  <2>3. Bit(IsHolder(f) /\ g.k # "getbuf") = 0 /\ Bit(IsHolder(top)) = 0
        /\ Bit(InCompletions(g)) = 0 /\ Bit(InCompletions(f)) = Bit(InCompletions(top))
        /\ Bit(InCompletions(top)) \in Int
    BY <1>1, <2>2 DEF Bit
  <2>4. wrFree' + inflightWr' + Bit(IsHolder(f) /\ g.k # "getbuf")
            = wrFree + inflightWr + Bit(IsHolder(top))
    BY <1>2, <2>3
  <2>5. within' = within + Bit(InCompletions(g))
    BY <1>2, <2>3
  <2>6. CoreInv'
    BY <1>1, <2>1, <2>2, <2>4, <2>5, FramePushes DEF IoKept
  <2>7. PhaseOK' /\ ~flushed'
    BY <1>1, <1>4, <2>1, PhaseAbove DEF PhaseOK, IoKept
  <2> QED
    BY <2>6, <2>7, Finish
<1> QED
  BY <1>3, <1>4

LEMMA PollEnterStep ==
    ASSUME NodeWritersInv, PollEnter, UNCHANGED nwVars
    PROVE  NodeWritersInv'
<1> USE DEF NodeWritersInv
<1>1. top.k = "poll" /\ top.at = "enter" /\ Goto_("get") /\ StackOK /\ ReadInv /\ NumbersOK
  BY DEF PollEnter, Running, CoreInv
<1>2. /\ UNCHANGED <<ioMode, rdBuf, rdFree, wrFree, inflightWr, wrLanded, deferred>> /\ IoKept
      /\ within' = within + 1
  BY DEF PollEnter, nwVars, IoKept
<1>3. PICK f : Tops(stack, stack', f) /\ Same(f, top) /\ f.at = "get"
  BY <1>1, GoesTo
<1>4. f.k = "poll" /\ FrameOK(f) /\ f.todo = top.todo /\ \A q : LandedOf(f, q) <=> LandedOf(top, q)
  BY <1>1, <1>3, SameIsPlain DEF Same
<1>5. PollGoes(f, f)
  BY <1>1, <1>3, <1>4 DEF PollGoes
<1>6. rdAt \in [Reads -> ReadStates] /\ QueuesOK /\ ReadsKept /\ DequeuePending(rdAt)
  BY <1>1 DEF ReadInv, QueuesOK, PollEnter
<1>7. /\ rdAt' \in [Reads -> ReadStates] /\ rdPending' \in Seq(Reads)
      /\ \A x \in Reads : rdAt'[x] = rdAt[x] \/ (rdAt[x] = "pending" /\ rdAt'[x] = "flight")
      /\ \A d \in DOMAIN rdPending' :
          /\ rdAt'[rdPending'[d]] = "pending" /\ rdPending'[d] \notin ioMode.long
          /\ \A e \in DOMAIN rdPending' : rdPending'[d] = rdPending'[e] => d = e
      /\ \A x \in Reads : rdAt'[x] = "pending" => \E d \in DOMAIN rdPending' : rdPending'[d] = x
  BY <1>1, <1>6, DequeueFacts
<1>8. QueuesOK'
  <2>1. deferred \in Seq(Reads) /\ \A d \in DOMAIN deferred : deferred[d] \in Reads
    BY <1>6, ElementOfSeq, LenProperties DEF QueuesOK
  <2> QED
    BY <1>2, <1>6, <1>7, <2>1 DEF QueuesOK
<1>9. TodosOK'
  <2>1. FrameOK(top) /\ top.todo \in Seq(Reads \cup {WriteCqe})
    BY <1>1, StackFacts DEF FrameOK
  <2>2. \A p \in DOMAIN top.todo : p \in Nat /\ p > 0 /\ p + 0 \in DOMAIN top.todo /\ p + 0 = p
    BY <2>1, LenProperties
  <2> QED
    BY <1>1, <1>4, <1>5, <1>7, <2>2, TodosMove DEF ReadInv
<1>10. ReadBuffersConserved'
  BY <1>1, <1>2, <1>7 DEF ReadInv, ReadBuffersConserved
<1>11. ReadInv'
  BY <1>1, <1>2, <1>5, <1>7, <1>8, <1>9, <1>10, ReadsPoll
<1>12. LandedOK'
  <2>1. LandedWrites' = LandedWrites
    BY <1>1, <1>3, <1>4, LandedSame
  <2> QED
    BY <1>2, <2>1 DEF CoreInv, LandedOK
<1>13. NumbersOK' /\ within \in Int
  BY <1>1, <1>2 DEF NumbersOK
<1>14. within' = within + Bit(InCompletions(f)) - Bit(InCompletions(top))
  BY <1>1, <1>2, <1>3, <1>4, <1>13 DEF Bit, InCompletions
<1>15. Quiet => \A r \in Reads : rdAt'[r] \in {"none", "done"}
  BY <1>7 DEF Quiet
<1> QED
  BY <1>2, <1>3, <1>4, <1>5, <1>11, <1>12, <1>13, <1>14, <1>15, PollFinish

\* The poll at the top
LEMMA PollTop ==
    ASSUME StackOK, top.k = "poll"
    PROVE  /\ top.todo \in Seq(Reads \cup {WriteCqe}) /\ top.n \in Nat /\ Len(top.todo) \in Nat
           /\ DOMAIN top.todo = 1 .. Len(top.todo) /\ FrameOK(top) /\ Todo(top) = top.todo
           /\ \A p \in 1 .. Len(top.todo) : top.todo[p] \in Reads \cup {WriteCqe}
<1>1. FrameOK(top) /\ top.todo \in Seq(Reads \cup {WriteCqe}) /\ top.n \in Nat
  BY StackFacts DEF FrameOK
<1>2. Len(top.todo) \in Nat /\ DOMAIN top.todo = 1 .. Len(top.todo)
      /\ \A p \in 1 .. Len(top.todo) : top.todo[p] \in Reads \cup {WriteCqe}
  BY <1>1, LenProperties, ElementOfSeq
<1> QED
  BY <1>1, <1>2 DEF Todo

\* A completion is taken at the end.
LEMMA TakenFrame ==
    ASSUME StackOK, top.k = "poll", NEW c \in Reads \cup {WriteCqe},
           NEW f, f.k = "poll", f.n = top.n, f.todo = Append(top.todo, c),
           {"k", "at", "blocking", "mask", "todo", "n"} \subseteq DOMAIN f
    PROVE  /\ FrameOK(f)
           /\ \E q : /\ \A p : p # q => (LandedOf(f, p) <=> LandedOf(top, p))
                     /\ LandedOf(f, q) <=> c = WriteCqe
                     /\ ~LandedOf(top, q)
<1> DEFINE m == Len(top.todo)
<1>1. /\ top.todo \in Seq(Reads \cup {WriteCqe}) /\ top.n \in Nat /\ m \in Nat
      /\ DOMAIN top.todo = 1 .. m /\ FrameOK(top) /\ Todo(top) = top.todo
  BY PollTop
<1>2. f.k = "poll" /\ f.n = top.n /\ f.todo = Append(top.todo, c)
      /\ {"k", "at", "blocking", "mask", "todo", "n"} \subseteq DOMAIN f
  OBVIOUS
<1>3. /\ f.todo \in Seq(Reads \cup {WriteCqe}) /\ DOMAIN f.todo = 1 .. m + 1 /\ f.todo[m + 1] = c
      /\ \A i \in 1 .. m : f.todo[i] = top.todo[i]
  BY <1>1, <1>2, QueueAppend
<1>4. FrameOK(f)
  BY <1>1, <1>2, <1>3 DEF FrameOK
<1>5. Todo(f) = f.todo
  BY <1>2 DEF Todo
<1> HIDE DEF m
<1>6. \A p : LandedOf(f, p) <=> \E i \in 1 .. m + 1 : f.todo[i] = WriteCqe /\ p = top.n + i
  BY <1>2, <1>3, <1>5 DEF LandedOf
<1>7. \A p : LandedOf(top, p) <=> \E i \in 1 .. m : top.todo[i] = WriteCqe /\ p = top.n + i
  BY <1>1 DEF LandedOf
<1> DEFINE q == top.n + (m + 1)
<1>8. \A i \in 1 .. m + 1 : i \in 1 .. m \/ i = m + 1
  BY <1>1
<1>9. \A p : p # q => (LandedOf(f, p) <=> LandedOf(top, p))
  BY <1>1, <1>3, <1>6, <1>7, <1>8
<1>10. ~LandedOf(top, q)
  BY <1>1, <1>7
<1>11. LandedOf(f, q) <=> c = WriteCqe
  <2>1. ASSUME LandedOf(f, q) PROVE c = WriteCqe
    <3>1. PICK i \in 1 .. m + 1 : f.todo[i] = WriteCqe /\ q = top.n + i
      BY <1>6, <2>1
    <3>2. i = m + 1
      BY <1>1, <3>1
    <3> QED
      BY <1>3, <3>1, <3>2
  <2>2. m + 1 \in 1 .. m + 1
    BY <1>1
  <2> QED
    BY <1>3, <1>6, <2>1, <2>2
<1> QED
  BY <1>2, <1>4, <1>9, <1>10, <1>11

\* What a completion is of
LEMMA CqeFacts ==
    ASSUME NEW c \in Cqes \ {NoCqe}, c \in Reads \cup {WriteCqe}
    PROVE  /\ c = WriteCqe => inflightWr > wrLanded
           /\ c # WriteCqe => c \in Reads /\ rdAt[c] = "flight"
<1>1. WriteCqe \notin Reads
  BY AsyncIOAssumption DEF WriteCqe
<1> QED
  BY <1>1 DEF Cqes

LEMMA PollGetStep ==
    ASSUME NodeWritersInv, NEW c \in Reads \cup {WriteCqe}, PollGet(c), UNCHANGED nwVars
    PROVE  NodeWritersInv'
<1> USE DEF NodeWritersInv
<1>1. top.k = "poll" /\ top.at = "get" /\ StackOK /\ ReadInv /\ NumbersOK /\ LandedOK
  BY DEF PollGet, Running, CoreInv
<1>2. /\ UNCHANGED <<ioMode, rdBuf, rdFree, wrFree, rdPending, inflightWr, deferred, within>> /\ IoKept
      /\ rdAt' = IF c = WriteCqe THEN rdAt ELSE [rdAt EXCEPT ![c] = "landed"]
      /\ wrLanded' = wrLanded + IF c = WriteCqe THEN 1 ELSE 0
  BY DEF PollGet, nwVars, IoKept
<1>3. /\ c = WriteCqe => inflightWr > wrLanded
      /\ c # WriteCqe => c \in Reads /\ rdAt[c] = "flight"
  BY CqeFacts DEF PollGet
<1> DEFINE at == IF ioMode.eager THEN "get" ELSE "process"
           f == [top EXCEPT !.todo = Append(@, c), !.blocking = FALSE, !.at = at]
<1>4. stack' = [stack EXCEPT ![Len(stack)] = f]
  <2>1. top = stack[Len(stack)] /\ Len(stack) \in DOMAIN stack
    BY <1>1, StackFacts
  <2> QED
    BY <2>1 DEF PollGet
<1>5. at \in {"get", "process"}
  OBVIOUS
<1> HIDE DEF at
<1>20. f.k = "poll" /\ f.at = at /\ f.n = top.n /\ f.todo = Append(top.todo, c)
       /\ {"k", "at", "blocking", "mask", "todo", "n"} \subseteq DOMAIN f
  <2>1. {"k", "at", "blocking", "mask", "todo", "n"} \subseteq DOMAIN top
    BY <1>1, StackFacts DEF FrameOK
  <2> QED
    BY <1>1, <2>1
<1> HIDE DEF f
<1>6. /\ f.k = "poll" /\ f.at = at /\ f.n = top.n /\ f.todo = Append(top.todo, c) /\ FrameOK(f)
      /\ \E q : /\ \A p : p # q => (LandedOf(f, p) <=> LandedOf(top, p))
                /\ LandedOf(f, q) <=> c = WriteCqe
                /\ ~LandedOf(top, q)
  BY <1>1, <1>20, TakenFrame
<1>7. Tops(stack, stack', f)
  BY <1>1, <1>4, StackFacts, ExceptShape
<1>8. PollGoes(f, f)
  BY <1>1, <1>6, <1>7 DEF PollGoes
<1>9. rdAt \in [Reads -> ReadStates] /\ QueuesOK
  BY <1>1 DEF ReadInv, QueuesOK
<1>10. /\ rdAt' \in [Reads -> ReadStates]
       /\ \A x \in Reads : rdAt'[x] = rdAt[x] \/ (rdAt[x] = "flight" /\ rdAt'[x] = "landed")
  BY <1>2, <1>3, <1>9 DEF ReadStates
<1>11. TodosOK'
  BY <1>1, <1>2, <1>3, <1>6, <1>8, <1>9, TodosTake DEF ReadInv
<1>12. QueuesOK'
  <2>1. /\ \A d \in DOMAIN deferred : deferred[d] \in Reads
        /\ \A d \in DOMAIN rdPending : rdPending[d] \in Reads
    BY <1>9, ElementOfSeq, LenProperties DEF QueuesOK
  <2> QED
    BY <1>2, <1>9, <1>10, <2>1 DEF QueuesOK
<1>13. ReadBuffersConserved'
  BY <1>1, <1>2, <1>10 DEF ReadInv, ReadBuffersConserved
<1>14. \A x \in Reads : rdAt'[x] = "pending" => \E d \in DOMAIN rdPending' : rdPending'[d] = x
  BY <1>1, <1>2, <1>10 DEF ReadInv, ReadsKept
<1>15. ReadInv'
  BY <1>1, <1>2, <1>8, <1>10, <1>11, <1>12, <1>13, <1>14, ReadsPoll
<1>16. LandedOK'
  <2>1. PICK q : /\ \A p : p # q => (LandedOf(f, p) <=> LandedOf(top, p))
                 /\ LandedOf(f, q) <=> c = WriteCqe
                 /\ ~LandedOf(top, q)
    BY <1>6
  <2>2. /\ IsFiniteSet(LandedWrites') /\ Cardinality(LandedWrites) \in Nat
        /\ Cardinality(LandedWrites') =
               Cardinality(LandedWrites) + Bit(LandedOf(f, q)) - Bit(LandedOf(top, q))
    BY <1>1, <1>7, <2>1, LandedChange
  <2>3. Cardinality(LandedWrites') = wrLanded'
    BY <1>1, <1>2, <2>1, <2>2 DEF Bit, LandedOK
  <2>4. wrLanded' <= inflightWr'
    BY <1>1, <1>2, <1>3 DEF LandedOK, NumbersOK
  <2> QED
    BY <2>2, <2>3, <2>4 DEF LandedOK
<1>17. NumbersOK' /\ within \in Int
  BY <1>1, <1>2 DEF NumbersOK
<1>18. within' = within + Bit(InCompletions(f)) - Bit(InCompletions(top))
  BY <1>1, <1>2, <1>5, <1>6, <1>17 DEF Bit, InCompletions
<1>19. Quiet => \A r \in Reads : rdAt'[r] \in {"none", "done"}
  BY <1>10 DEF Quiet
<1> QED
  BY <1>2, <1>6, <1>7, <1>8, <1>15, <1>16, <1>17, <1>18, <1>19, PollFinish

\* The first completion is processed.
LEMMA ProcessedFrame ==
    ASSUME StackOK, Processing, NEW f, f = Processed
    PROVE  /\ top.k = "poll" /\ top.at = "process" /\ f.k = "poll" /\ f.at = "process" /\ FrameOK(f)
           /\ 1 \in DOMAIN top.todo /\ Head(top.todo) = top.todo[1]
           /\ Head(top.todo) \in Reads \cup {WriteCqe}
           /\ \A p \in DOMAIN f.todo :
                  p \in Nat /\ p > 0 /\ p + 1 \in DOMAIN top.todo /\ f.todo[p] = top.todo[p + 1]
           /\ \E q : /\ \A p : p # q => (LandedOf(f, p) <=> LandedOf(top, p))
                     /\ LandedOf(top, q) <=> Head(top.todo) = WriteCqe
                     /\ ~LandedOf(f, q)
<1> DEFINE m == Len(top.todo)
<1>1. top.k = "poll" /\ top.at = "process" /\ top.todo # <<>>
  BY DEF Processing, Running
<1>2. /\ top.todo \in Seq(Reads \cup {WriteCqe}) /\ top.n \in Nat /\ m \in Nat
      /\ DOMAIN top.todo = 1 .. m /\ FrameOK(top) /\ Todo(top) = top.todo
      /\ \A p \in 1 .. m : top.todo[p] \in Reads \cup {WriteCqe}
  BY <1>1, PollTop
<1>3. m > 0 /\ Head(top.todo) = top.todo[1]
  BY <1>1, <1>2, EmptySeq
<1>4. f.k = "poll" /\ f.at = "process" /\ f.n = top.n + 1 /\ f.todo = Tail(top.todo)
      /\ {"k", "at", "blocking", "mask", "todo", "n"} \subseteq DOMAIN f
  BY <1>1, <1>2 DEF FrameOK, Processed
<1>5. /\ f.todo \in Seq(Reads \cup {WriteCqe}) /\ DOMAIN f.todo = 1 .. m - 1
      /\ \A i \in 1 .. m - 1 : f.todo[i] = top.todo[i + 1]
  <2>1. Tail(top.todo) \in Seq(Reads \cup {WriteCqe}) /\ Len(Tail(top.todo)) = m - 1
        /\ \A d \in 1 .. Len(top.todo) - 1 : Tail(top.todo)[d] = top.todo[d + 1]
    BY <1>1, <1>2, HeadTailProperties
  <2>2. DOMAIN Tail(top.todo) = 1 .. m - 1
    BY <2>1, LenProperties
  <2> QED
    BY <1>4, <2>1, <2>2
<1>6. FrameOK(f) /\ Todo(f) = f.todo
  BY <1>2, <1>4, <1>5 DEF FrameOK, Todo
<1> HIDE DEF m
<1>7. \A p : LandedOf(f, p) <=> \E i \in 1 .. m - 1 : top.todo[i + 1] = WriteCqe /\ p = (top.n + 1) + i
  BY <1>4, <1>5, <1>6 DEF LandedOf
<1>8. \A p : LandedOf(top, p) <=> \E i \in 1 .. m : top.todo[i] = WriteCqe /\ p = top.n + i
  BY <1>2 DEF LandedOf
<1>9. 1 \in DOMAIN top.todo /\ \A p \in DOMAIN f.todo :
          p \in Nat /\ p > 0 /\ p + 1 \in DOMAIN top.todo /\ f.todo[p] = top.todo[p + 1]
  BY <1>2, <1>3, <1>5
<1> DEFINE q == top.n + 1
<1>13. top.n \in Nat /\ m \in Nat
  BY <1>2
<1>10. ASSUME NEW p, p # q PROVE LandedOf(f, p) <=> LandedOf(top, p)
  <2>1. ASSUME LandedOf(f, p) PROVE LandedOf(top, p)
    <3>1. PICK i \in 1 .. m - 1 : top.todo[i + 1] = WriteCqe /\ p = (top.n + 1) + i
      BY <1>7, <2>1
    <3>2. i + 1 \in 1 .. m /\ p = top.n + (i + 1)
      <4> DEFINE tn == top.n
      <4>1. tn \in Nat /\ p = (tn + 1) + i
        BY <1>13, <3>1
      <4> HIDE DEF tn
      <4>2. i + 1 \in 1 .. m /\ p = tn + (i + 1)
        BY <1>13, <4>1
      <4> QED
        BY <4>2 DEF tn
    <3> QED
      BY <1>8, <3>1, <3>2
  <2>2. ASSUME LandedOf(top, p) PROVE LandedOf(f, p)
    <3>1. PICK i \in 1 .. m : top.todo[i] = WriteCqe /\ p = top.n + i
      BY <1>8, <2>2
    <3>2. i - 1 \in 1 .. m - 1 /\ (i - 1) + 1 = i /\ p = (top.n + 1) + (i - 1)
      BY <1>2, <1>10, <3>1
    <3> QED
      BY <1>7, <3>1, <3>2
  <2> QED
    BY <2>1, <2>2
<1>11. ~LandedOf(f, q)
  BY <1>2, <1>7
<1>12. LandedOf(top, q) <=> Head(top.todo) = WriteCqe
  <2>1. ASSUME LandedOf(top, q) PROVE top.todo[1] = WriteCqe
    <3>1. PICK i \in 1 .. m : top.todo[i] = WriteCqe /\ q = top.n + i
      BY <1>8, <2>1
    <3>2. i = 1
      BY <1>2, <3>1
    <3> QED
      BY <3>1, <3>2
  <2>2. 1 \in 1 .. m
    BY <1>2, <1>3
  <2> QED
    BY <1>3, <1>8, <2>1, <2>2
<1> QED
  BY <1>1, <1>2, <1>3, <1>4, <1>6, <1>9, <1>10, <1>11, <1>12

\* The first completion, if it is of a read
LEMMA HeadRead ==
    ASSUME StackOK, ReadInv, Processing, Head(top.todo) # WriteCqe
    PROVE  /\ Head(top.todo) \in Reads /\ rdAt[Head(top.todo)] = "landed" /\ ~Quiet
           /\ \A d \in DOMAIN deferred : deferred[d] # Head(top.todo)
<1>1. /\ top.k = "poll" /\ 1 \in DOMAIN top.todo /\ Head(top.todo) = top.todo[1]
      /\ Head(top.todo) \in Reads \cup {WriteCqe}
  BY ProcessedFrame
<1>2. Todo(top) = top.todo /\ top = stack[Len(stack)] /\ Len(stack) \in DOMAIN stack
  BY <1>1, StackFacts DEF Todo
<1>3. rdAt[top.todo[1]] = "landed"
  BY <1>1, <1>2 DEF ReadInv, TodosOK
<1> QED
  BY <1>1, <1>3 DEF Quiet, ReadInv, QueuesOK

LEMMA ProcessWriteStep ==
    ASSUME NodeWritersInv, ProcessWrite, UNCHANGED nwVars
    PROVE  NodeWritersInv'
<1> USE DEF NodeWritersInv
<1>1. Processing /\ Head(top.todo) = WriteCqe /\ StackOK /\ ReadInv /\ NumbersOK /\ LandedOK
  BY DEF ProcessWrite, CoreInv
<1>2. /\ UNCHANGED <<ioMode, rdAt, rdBuf, rdFree, rdPending, deferred, within>> /\ IoKept
      /\ inflightWr' = inflightWr - 1 /\ wrLanded' = wrLanded - 1 /\ wrFree' = wrFree + 1
  BY DEF ProcessWrite, nwVars, IoKept
<1> DEFINE f == Processed
<1>3. /\ top.k = "poll" /\ top.at = "process" /\ f.k = "poll" /\ f.at = "process" /\ FrameOK(f)
      /\ 1 \in DOMAIN top.todo /\ Head(top.todo) = top.todo[1]
      /\ \A p \in DOMAIN f.todo :
             p \in Nat /\ p > 0 /\ p + 1 \in DOMAIN top.todo /\ f.todo[p] = top.todo[p + 1]
      /\ \E q : /\ \A p : p # q => (LandedOf(f, p) <=> LandedOf(top, p))
                /\ LandedOf(top, q) <=> Head(top.todo) = WriteCqe
                /\ ~LandedOf(f, q)
  BY <1>1, ProcessedFrame
<1>4. Tops(stack, stack', f)
  BY <1>1, BecomesFrame DEF ProcessWrite, Become
<1> HIDE DEF f
<1>5. PollGoes(f, f)
  BY <1>3, <1>4 DEF PollGoes
<1>6. TodosOK'
  BY <1>1, <1>2, <1>3, <1>5, TodosMove DEF ReadInv
<1>7. QueuesOK'
  BY <1>1, <1>2 DEF ReadInv, QueuesOK
<1>8. ReadBuffersConserved'
  BY <1>1, <1>2 DEF ReadInv, ReadBuffersConserved
<1>9. \A x \in Reads : rdAt'[x] = "pending" => \E d \in DOMAIN rdPending' : rdPending'[d] = x
  BY <1>1, <1>2 DEF ReadInv, ReadsKept
<1>10. ReadInv'
  BY <1>1, <1>2, <1>5, <1>6, <1>7, <1>8, <1>9, ReadsPoll
<1>11. LandedOK'
  <2>1. PICK q : /\ \A p : p # q => (LandedOf(f, p) <=> LandedOf(top, p))
                 /\ LandedOf(top, q) <=> Head(top.todo) = WriteCqe
                 /\ ~LandedOf(f, q)
    BY <1>3
  <2>2. /\ IsFiniteSet(LandedWrites') /\ Cardinality(LandedWrites) \in Nat
        /\ Cardinality(LandedWrites') =
               Cardinality(LandedWrites) + Bit(LandedOf(f, q)) - Bit(LandedOf(top, q))
    BY <1>1, <1>4, <2>1, LandedChange
  <2>3. Cardinality(LandedWrites') = wrLanded'
    BY <1>1, <1>2, <2>1, <2>2 DEF Bit, LandedOK
  <2>4. wrLanded' <= inflightWr'
    BY <1>1, <1>2 DEF LandedOK, NumbersOK
  <2> QED
    BY <2>2, <2>3, <2>4 DEF LandedOK
<1>12. NumbersOK' /\ within \in Int /\ wrFree' + inflightWr' = wrFree + inflightWr
  BY <1>1, <1>2 DEF NumbersOK
<1>13. within' = within + Bit(InCompletions(f)) - Bit(InCompletions(top))
  BY <1>2, <1>3, <1>12 DEF Bit, InCompletions
<1>14. Quiet => \A r \in Reads : rdAt'[r] \in {"none", "done"}
  BY <1>2 DEF Quiet
<1> QED
  BY <1>2, <1>3, <1>4, <1>5, <1>10, <1>11, <1>12, <1>13, <1>14, PollFinish

LEMMA ProcessRetryStep ==
    ASSUME NodeWritersInv, ProcessRetry, UNCHANGED nwVars
    PROVE  NodeWritersInv'
<1> USE DEF NodeWritersInv
<1>1. Processing /\ Head(top.todo) # WriteCqe /\ StackOK /\ ReadInv /\ NumbersOK /\ LandedOK
  BY DEF ProcessRetry, CoreInv
<1> PICK r : r = Head(top.todo)
  OBVIOUS
<1>2. /\ UNCHANGED <<ioMode, rdBuf, rdFree, wrFree, rdPending, inflightWr, wrLanded, within>> /\ IoKept
      /\ rdAt' = [rdAt EXCEPT ![r] = "deferred"] /\ deferred' = Append(deferred, r)
  BY DEF ProcessRetry, nwVars, IoKept
<1> DEFINE f == Processed
<1>3. /\ top.k = "poll" /\ top.at = "process" /\ f.k = "poll" /\ f.at = "process" /\ FrameOK(f)
      /\ 1 \in DOMAIN top.todo /\ r = top.todo[1]
      /\ \A p \in DOMAIN f.todo :
             p \in Nat /\ p > 0 /\ p + 1 \in DOMAIN top.todo /\ f.todo[p] = top.todo[p + 1]
      /\ \A q : LandedOf(f, q) <=> LandedOf(top, q)
  BY <1>1, ProcessedFrame
<1>4. Tops(stack, stack', f)
  BY <1>1, BecomesFrame DEF ProcessRetry, Become
<1> HIDE DEF f
<1>5. PollGoes(f, f)
  BY <1>3, <1>4 DEF PollGoes
<1>6. r \in Reads /\ rdAt[r] = "landed" /\ ~Quiet /\ \A d \in DOMAIN deferred : deferred[d] # r
  BY <1>1, HeadRead
<1>7. /\ QueuesOK'
      /\ \A d \in DOMAIN deferred' : deferred'[d] = r \/ \E e \in DOMAIN deferred : deferred[e] = deferred'[d]
      /\ \A d \in DOMAIN deferred : \E e \in DOMAIN deferred' : deferred'[e] = deferred[d]
      /\ \E e \in DOMAIN deferred' : deferred'[e] = r
  <2>1. InitEnds(r, "deferred")
    BY <1>2 DEF InitEnds
  <2>2. QueuesOK /\ rdAt[r] \in {"begun", "deferred", "landed"}
    BY <1>1, <1>6 DEF ReadInv
  <2>3. QueuesGrown(r, "deferred")
    BY <1>1, <1>2, <1>6, <2>1, <2>2, QueuesGrow
  <2> QED
    BY <2>3 DEF QueuesGrown
<1>8. rdAt'[r] = "deferred" /\ \A x \in Reads : x # r => rdAt'[x] = rdAt[x]
  BY <1>1, <1>2, <1>6 DEF ReadInv, QueuesOK
<1>9. TodosOK'
  BY <1>1, <1>3, <1>5, <1>8, TodosMove DEF ReadInv
<1>10. ReadBuffersConserved'
  BY <1>1, <1>2, <1>8 DEF ReadInv, ReadBuffersConserved
<1>11. \A x \in Reads : rdAt'[x] = "pending" => \E d \in DOMAIN rdPending' : rdPending'[d] = x
  BY <1>1, <1>2, <1>8 DEF ReadInv, ReadsKept
<1>12. ReadInv'
  BY <1>1, <1>2, <1>5, <1>6, <1>7, <1>8, <1>9, <1>10, <1>11, ReadsPoll
<1>13. LandedOK'
  <2>1. LandedWrites' = LandedWrites
    BY <1>1, <1>3, <1>4, LandedSame
  <2> QED
    BY <1>1, <1>2, <2>1 DEF LandedOK
<1>14. NumbersOK' /\ within \in Int
  BY <1>1, <1>2 DEF NumbersOK
<1>15. within' = within + Bit(InCompletions(f)) - Bit(InCompletions(top))
  BY <1>2, <1>3, <1>14 DEF Bit, InCompletions
<1> QED
  BY <1>2, <1>3, <1>4, <1>5, <1>6, <1>12, <1>13, <1>14, <1>15, PollFinish

\* The buffer of a read that is done goes back.
LEMMA BufferBack ==
    ASSUME ReadBuffersConserved, NumbersOK, NEW r \in rdBuf,
           rdBuf' = rdBuf \ {r}, rdFree' = rdFree + 1, ioMode' = ioMode
    PROVE  rdFree' + Cardinality(rdBuf') = ioMode'.bufs /\ rdBuf' \subseteq Reads /\ rdFree' \in Int
<1>1. IsFiniteSet(rdBuf) /\ Cardinality(rdBuf) \in Nat /\ rdFree \in Int /\ ioMode.bufs \in Nat
      /\ rdBuf \subseteq Reads
  BY BufFinite, ModeFacts
<1>2. Cardinality(rdBuf \ {r}) = Cardinality(rdBuf) - 1
  BY <1>1, FS_RemoveElement
<1>3. rdFree + Cardinality(rdBuf) = ioMode.bufs
  BY DEF ReadBuffersConserved
<1> QED
  BY <1>1, <1>2, <1>3

\* A read is done and gives its buffer back.
LEMMA ReadDone ==
    ASSUME CoreInv, NEW r \in Reads, rdAt[r] = "landed", ioMode' = ioMode, deferred' = deferred,
           IF r \in ioMode.long
           THEN rdAt' = [rdAt EXCEPT ![r] = "done"] /\ UNCHANGED <<rdPending, rdBuf, rdFree>>
           ELSE /\ DequeuePending([rdAt EXCEPT ![r] = "done"])
                /\ rdBuf' = rdBuf \ {r} /\ rdFree' = rdFree + 1
    PROVE  /\ rdAt'[r] = "done" /\ QueuesOK' /\ ReadBuffersConserved'
           /\ rdBuf' \subseteq Reads /\ rdFree' \in Int
           /\ \A x \in Reads : x # r => /\ rdAt'[x] = rdAt[x] \/ (rdAt[x] = "pending" /\ rdAt'[x] = "flight")
                                        /\ x \in rdBuf' <=> x \in rdBuf
           /\ \A x \in Reads : rdAt'[x] = "pending" => \E d \in DOMAIN rdPending' : rdPending'[d] = x
<1> DEFINE at == [rdAt EXCEPT ![r] = "done"]
<1>1. NumbersOK /\ QueuesOK /\ ReadsKept /\ ReadBuffersConserved /\ rdAt \in [Reads -> ReadStates]
      /\ rdBuf \subseteq Reads /\ rdFree \in Int
  BY DEF CoreInv, ReadInv, QueuesOK, NumbersOK
<1>2. /\ at \in [Reads -> ReadStates] /\ at[r] = "done" /\ \A x \in Reads : x # r => at[x] = rdAt[x]
      /\ \A x \in Reads : at[x] # rdAt[x] => at[x] = "done" /\ rdAt[x] = "landed"
  BY <1>1 DEF ReadStates
<1> HIDE DEF at
<1>3. /\ rdAt' \in [Reads -> ReadStates] /\ rdPending' \in Seq(Reads)
      /\ \A x \in Reads : rdAt'[x] = at[x] \/ (rdAt[x] = "pending" /\ rdAt'[x] = "flight")
      /\ \A d \in DOMAIN rdPending' :
          /\ rdAt'[rdPending'[d]] = "pending" /\ rdPending'[d] \notin ioMode.long
          /\ \A e \in DOMAIN rdPending' : rdPending'[d] = rdPending'[e] => d = e
      /\ \A x \in Reads : rdAt'[x] = "pending" => \E d \in DOMAIN rdPending' : rdPending'[d] = x
  <2>1. CASE r \in ioMode.long
    <3>1. rdAt' = at /\ rdPending' = rdPending
      BY <2>1 DEF at
    <3>2. rdPending \in Seq(Reads) /\ \A d \in DOMAIN rdPending : rdPending[d] \in Reads /\ rdPending[d] # r
      BY <1>1, ElementOfSeq, LenProperties DEF QueuesOK
    <3>3. \A d \in DOMAIN rdPending :
          /\ rdAt'[rdPending[d]] = "pending" /\ rdPending[d] \notin ioMode.long
          /\ \A e \in DOMAIN rdPending : rdPending[d] = rdPending[e] => d = e
      BY <1>1, <1>2, <3>1, <3>2 DEF QueuesOK
    <3>4. \A x \in Reads : rdAt'[x] = "pending" => \E d \in DOMAIN rdPending : rdPending[d] = x
      BY <1>1, <1>2, <3>1 DEF ReadsKept
    <3> QED
      BY <1>2, <3>1, <3>2, <3>3, <3>4
  <2>2. CASE r \notin ioMode.long
    <3>1. DequeuePending(at)
      BY <2>2 DEF at
    <3> QED
      BY <1>1, <1>2, <3>1, DequeueFacts
  <2> QED
    BY <2>1, <2>2
<1>4. /\ rdAt'[r] = "done"
      /\ \A x \in Reads : x # r => rdAt'[x] = rdAt[x] \/ (rdAt[x] = "pending" /\ rdAt'[x] = "flight")
  BY <1>2, <1>3
<1>5. QueuesOK'
  <2>1. \A d \in DOMAIN deferred : deferred[d] \in Reads /\ rdAt'[deferred[d]] = "deferred"
    <3>1. \A d \in DOMAIN deferred : deferred[d] \in Reads
      BY <1>1, ElementOfSeq, LenProperties DEF QueuesOK
    <3> QED
      BY <1>1, <1>4, <3>1 DEF QueuesOK
  <2> QED
    BY <1>1, <1>3, <2>1 DEF QueuesOK
<1>6. /\ rdBuf' \subseteq Reads /\ rdFree' \in Int /\ rdFree' + Cardinality(rdBuf') = ioMode'.bufs
      /\ r \in ioMode.long \/ r \notin rdBuf'
      /\ \A x \in Reads : x # r => (x \in rdBuf' <=> x \in rdBuf)
  <2>1. CASE r \in ioMode.long
    BY <1>1, <2>1 DEF ReadBuffersConserved
  <2>2. CASE r \notin ioMode.long
    <3>1. r \in rdBuf
      BY <1>1, <2>2 DEF ReadBuffersConserved
    <3>2. rdBuf' = rdBuf \ {r} /\ rdFree' = rdFree + 1
      BY <2>2
    <3> QED
      BY <1>1, <3>1, <3>2, BufferBack
  <2> QED
    BY <2>1, <2>2
<1>7. ASSUME NEW x \in Reads \ ioMode.long
      PROVE  /\ rdAt'[x] \in {"pending", "flight", "landed"} => x \in rdBuf'
             /\ rdAt'[x] = "done" => x \notin rdBuf'
  <2>1. CASE x = r
    BY <1>4, <1>6, <1>7, <2>1
  <2>2. CASE x # r
    <3>1. /\ rdAt[x] \in {"pending", "flight", "landed"} => x \in rdBuf
          /\ rdAt[x] = "done" => x \notin rdBuf
      BY <1>1, <1>7 DEF ReadBuffersConserved
    <3> QED
      BY <1>4, <1>6, <1>7, <2>2, <3>1
  <2> QED
    BY <2>1, <2>2
<1>8. ReadBuffersConserved'
  BY <1>6, <1>7 DEF ReadBuffersConserved
<1> QED
  BY <1>3, <1>4, <1>5, <1>6, <1>8

LEMMA ProcessReadStep ==
    ASSUME NodeWritersInv, ProcessRead, UNCHANGED nwVars
    PROVE  NodeWritersInv'
<1> USE DEF NodeWritersInv
<1>1. Processing /\ Head(top.todo) # WriteCqe /\ StackOK /\ ReadInv /\ NumbersOK /\ LandedOK
  BY DEF ProcessRead, CoreInv
<1> PICK r : r = Head(top.todo)
  OBVIOUS
<1>2. /\ UNCHANGED <<ioMode, wrFree, inflightWr, wrLanded, deferred, within>> /\ IoKept
  BY DEF ProcessRead, nwVars, IoKept
<1> DEFINE f == Processed
           g == [k |-> "receiver", at |-> "run", r |-> r]
<1>3. /\ top.k = "poll" /\ top.at = "process" /\ f.k = "poll" /\ f.at = "process" /\ FrameOK(f)
      /\ 1 \in DOMAIN top.todo /\ r = top.todo[1]
      /\ \A p \in DOMAIN f.todo :
             p \in Nat /\ p > 0 /\ p + 1 \in DOMAIN top.todo /\ f.todo[p] = top.todo[p + 1]
      /\ \A q : LandedOf(f, q) <=> LandedOf(top, q)
  BY <1>1, ProcessedFrame
<1>4. FrameOK(g) /\ g.k = "receiver" /\ Todo(g) = <<>>
  BY DEF FrameOK, Todo
<1>5. Pushes(stack, stack', f, g)
  BY <1>1, BecomesAndPushes DEF ProcessRead
<1> HIDE DEF f, g
<1>6. PollGoes(f, g)
  BY <1>3, <1>4, <1>5 DEF PollGoes
<1>7. r \in Reads /\ rdAt[r] = "landed" /\ ~Quiet
  BY <1>1, HeadRead
<1>8. /\ rdAt'[r] = "done" /\ QueuesOK' /\ ReadBuffersConserved'
      /\ rdBuf' \subseteq Reads /\ rdFree' \in Int
      /\ \A x \in Reads : x # r => /\ rdAt'[x] = rdAt[x] \/ (rdAt[x] = "pending" /\ rdAt'[x] = "flight")
                                   /\ x \in rdBuf' <=> x \in rdBuf
      /\ \A x \in Reads : rdAt'[x] = "pending" => \E d \in DOMAIN rdPending' : rdPending'[d] = x
  <2>1. IF r \in ioMode.long
        THEN rdAt' = [rdAt EXCEPT ![r] = "done"] /\ UNCHANGED <<rdPending, rdBuf, rdFree>>
        ELSE /\ DequeuePending([rdAt EXCEPT ![r] = "done"])
             /\ rdBuf' = rdBuf \ {r} /\ rdFree' = rdFree + 1
    BY DEF ProcessRead
  <2> QED
    BY <1>2, <1>7, <2>1, ReadDone
<1>9. TodosOK'
  BY <1>1, <1>3, <1>6, <1>8, TodosMove DEF ReadInv
<1>10. ReadInv'
  BY <1>1, <1>2, <1>6, <1>7, <1>8, <1>9, ReadsPoll
<1>11. LandedOK'
  <2>1. LandedWrites' = LandedWrites
    BY <1>1, <1>3, <1>4, <1>5, LandedSame
  <2> QED
    BY <1>1, <1>2, <2>1 DEF LandedOK
<1>12. NumbersOK' /\ within \in Int
  BY <1>1, <1>2, <1>8 DEF NumbersOK
<1>13. within' = within + Bit(InCompletions(f)) - Bit(InCompletions(top))
       /\ InCompletions(f) /\ InCompletions(top)
  BY <1>2, <1>3, <1>12 DEF Bit, InCompletions
<1> QED
  BY <1>2, <1>3, <1>4, <1>6, <1>7, <1>10, <1>11, <1>12, <1>13, PollFinish

----------------------------------------------------------------------------
(***************************************************************************)
(* wait_until_done                                                         *)
(***************************************************************************)
\* main waits or flushes, and goes on with that.
LEMMA PhaseSecond ==
    ASSUME StackOK, PhaseOK, top.k \in {"wait", "flush"}, NEW f, NEW g,
           flushed' = flushed, writer' = writer, rdAt' = rdAt,
           f.k = top.k, top.k = "flush" => f.list = top.list,
           \/ Tops(stack, stack', f)
           \/ Pushes(stack, stack', f, g) /\ g.k \notin {"write", "receiver"}
    PROVE  PhaseOK' /\ ~flushed'
<1>1. /\ Len(stack) \in Nat /\ Len(stack) \in DOMAIN stack /\ DOMAIN stack = 1 .. Len(stack)
      /\ top = stack[Len(stack)]
  BY StackFacts
<1>2. Len(stack) = 2
  BY <1>1 DEF StackOK
<1>3. top = stack[2] /\ DOMAIN stack = 1 .. 2
  BY <1>1, <1>2
<1>4. /\ stack'[1] = stack[1] /\ stack'[2] = f /\ Len(stack') # 1
      /\ \A i \in DOMAIN stack' : i = 1 \/ i = 2 \/ (i = 3 /\ stack'[i] = g /\ g.k \notin {"write", "receiver"})
  <2>1. CASE Tops(stack, stack', f)
    <3>1. DOMAIN stack' = 1 .. 2 /\ Len(stack') = 2
      BY <1>2, <2>1, StackBasics DEF Tops
    <3> QED
      BY <1>2, <2>1, <3>1 DEF Tops
  <2>2. CASE Pushes(stack, stack', f, g) /\ g.k \notin {"write", "receiver"}
    <3>1. DOMAIN stack' = 1 .. 3 /\ Len(stack') = 3
      BY <1>2, <2>2, StackBasics DEF Pushes
    <3> QED
      BY <1>2, <2>2, <3>1 DEF Pushes
  <2> QED
    BY <2>1, <2>2
<1>5. 1 \in DOMAIN stack /\ stack[1].k = "main"
  BY <1>3 DEF StackOK
<1>6. \A i \in DOMAIN stack' : stack'[i].k \notin {"write", "receiver"}
  BY <1>3, <1>4, <1>5
<1>7. Quiet => Quiet'
  BY <1>6 DEF Quiet
<1>8. ~flushed
  BY <1>2 DEF PhaseOK
<1> QED
  BY <1>2, <1>3, <1>4, <1>6, <1>7, <1>8 DEF PhaseOK, Emptied

\* Frames of the writers and their callers concern neither reads nor completed writes.
LEMMA PlainCallFrames ==
    ASSUME NEW f, NEW h, f.k = h.k, h.k \notin {"init", "getbuf", "poll", "pending"}
    PROVE  ReadRole(f, h) /\ (\A q : LandedOf(f, q) <=> LandedOf(h, q))
           /\ ~InCompletions(f) /\ ~InCompletions(h)
BY DEF ReadRole, LandedOf, InCompletions, Todo

\* A set of no elements
LEMMA CountNone ==
    ASSUME NEW S, IsFiniteSet(S), Cardinality(S) <= 0
    PROVE  S = {}
<1>1. Cardinality(S) \in Nat
  BY FS_CardinalityType
<1>2. Cardinality(S) = 0
  BY <1>1
<1> QED
  BY <1>2, FS_EmptySet

\* Nothing is in flight: no read is on its way.
LEMMA NothingInFlight ==
    ASSUME CoreInv, Running("wait", "check"), ~(io_in_flight > 0)
    PROVE  inflightWr = 0 /\ \A r \in Reads : rdAt[r] \in {"none", "done"}
<1>1. StackOK /\ ReadInv /\ NumbersOK /\ WithinOK /\ LandedOK /\ top.k = "wait"
  BY DEF CoreInv, Running
<1>2. Len(stack) \in Nat /\ DOMAIN stack = 1 .. Len(stack) /\ Len(stack) \in DOMAIN stack
      /\ top = stack[Len(stack)]
  BY <1>1, StackFacts
<1>3. Len(stack) = 2
  BY <1>1, <1>2 DEF StackOK
<1>4. 1 \in DOMAIN stack /\ stack[1].k = "main" /\ stack[2].k = "wait"
      /\ \A i \in DOMAIN stack : i = 1 \/ i = 2
  BY <1>1, <1>2, <1>3 DEF StackOK
<1>5. within = 0
  <2>1. Completing = {}
    BY <1>4 DEF Completing, InCompletions
  <2> QED
    BY <1>1, <2>1, FS_EmptySet DEF WithinOK
<1> DEFINE S == {r \in Reads \ ioMode.long : rdAt[r] \in {"flight", "landed"}}
           T == {r \in ioMode.long : rdAt[r] \in {"flight", "landed"}}
           s == Cardinality(S)
           t == Cardinality(T)
           p == Len(rdPending)
           d == IF deferred # <<>> /\ within = 0 THEN 1 ELSE 0
<1>6. /\ IsFiniteSet(S) /\ IsFiniteSet(T) /\ s \in Nat /\ t \in Nat
  <2>1. IsFiniteSet(Reads) /\ S \subseteq Reads /\ T \subseteq Reads
    BY <1>1, AsyncIOAssumption, ModeFacts
  <2>2. IsFiniteSet(S) /\ IsFiniteSet(T)
    BY <2>1, FS_Subset
  <2> QED
    BY <2>2, FS_CardinalityType
<1>7. p \in Nat /\ d \in Nat /\ rdPending \in Seq(Reads)
  BY <1>1, LenProperties DEF ReadInv, QueuesOK
<1>8. inflightWr \in Nat
  <2>1. Cardinality(LandedWrites) \in Nat
    BY <1>1, FS_CardinalityType DEF LandedOK
  <2> QED
    BY <1>1, <2>1 DEF LandedOK, NumbersOK
<1>9. io_in_flight = s + p + t + inflightWr + d
  BY DEF io_in_flight, ShortInFlight, LongInFlight
<1> HIDE DEF s, t, p, d
<1>10. s = 0 /\ p = 0 /\ t = 0 /\ inflightWr = 0 /\ d = 0
  BY <1>6, <1>7, <1>8, <1>9
<1>11. S = {} /\ T = {}
  BY <1>6, <1>10, CountNone DEF s, t
<1>12. rdPending = <<>> /\ deferred = <<>>
  BY <1>5, <1>7, <1>10, EmptySeq DEF p, d
<1>13. ASSUME NEW r \in Reads PROVE rdAt[r] \in {"none", "done"}
  <2>1. rdAt[r] \notin {"flight", "landed"}
    BY <1>11
  <2>2. ~InInit(r)
    BY <1>4 DEF InInit
  <2>3. rdAt[r] \notin {"begun", "deferred", "pending"}
    BY <1>1, <1>12, <2>2 DEF ReadInv, ReadsKept
  <2>4. rdAt[r] \in ReadStates
    BY <1>1 DEF ReadInv, QueuesOK
  <2> QED
    BY <2>1, <2>3, <2>4 DEF ReadStates
<1> QED
  BY <1>10, <1>13

\* wait_until_done polls.
LEMMA WaitGoesOn ==
    ASSUME NodeWritersInv, top.k = "wait", NEW at,
           Goto_(at) \/ \E b : Call_(at, PollFrame(b, 0)),
           UNCHANGED <<ReadVars, wrFree, inflightWr, wrLanded, within>>, IoKept
    PROVE  NodeWritersInv'
<1> USE DEF NodeWritersInv
<1>1. StackOK /\ NumbersOK /\ top.k # "pending" /\ ~IsHolder(top)
      /\ within \in Int /\ wrFree \in Int /\ inflightWr \in Int
  BY DEF CoreInv, IsHolder, NumbersOK
<1>2. Plain /\ rdAt' = rdAt /\ within' = within /\ wrFree' = wrFree /\ inflightWr' = inflightWr
      /\ writer' = writer /\ flushed' = flushed /\ nodes' = nodes /\ nodeAt' = nodeAt
  BY <1>1 DEF Plain, ReadVars, IoKept
<1>3. ASSUME NEW f, Same(f, top)
      PROVE  f.k = "wait" /\ FrameOK(f) /\ ~IsHolder(f) /\ ReadRole(f, top)
             /\ (\A q : LandedOf(f, q) <=> LandedOf(top, q)) /\ ~InCompletions(f) /\ ~InCompletions(top)
  <2>1. f.k = "wait" /\ FrameOK(f) /\ ~IsHolder(f)
    BY <1>3 DEF Same, IsHolder
  <2> QED
    BY <2>1, PlainCallFrames
<1>4. CASE Goto_(at)
  <2>1. PICK f : Tops(stack, stack', f) /\ Same(f, top)
    BY <1>1, <1>4, GoesTo
  <2>2. CoreInv'
    BY <1>1, <1>2, <1>3, <2>1, CoreTops DEF Bit
  <2>3. PhaseOK' /\ ~flushed'
    BY <1>1, <1>2, <1>3, <2>1, PhaseSecond
  <2> QED
    BY <2>2, <2>3, Finish
<1>5. CASE \E b : Call_(at, PollFrame(b, 0))
  <2>1. PICK b : Call_(at, PollFrame(b, 0))
    BY <1>5
  <2> DEFINE g == PollFrame(b, 0)
  <2>2. FrameOK(g) /\ g.k = "poll" /\ Todo(g) = <<>> /\ ~IsHolder(g) /\ ~InCompletions(g)
    BY PollFrameFacts
  <2> HIDE DEF g
  <2>3. PICK f : Pushes(stack, stack', f, g) /\ Same(f, top)
    BY <1>1, <2>1, CallsFrom DEF g
  <2>4. CoreInv'
    BY <1>1, <1>2, <1>3, <2>2, <2>3, CorePushes DEF Bit
  <2>5. PhaseOK' /\ ~flushed'
    BY <1>1, <1>2, <1>3, <2>2, <2>3, PhaseSecond
  <2> QED
    BY <2>4, <2>5, Finish
<1> QED
  BY <1>4, <1>5

LEMMA WaitMoreStep ==
    ASSUME NodeWritersInv, WaitMore, UNCHANGED nwVars
    PROVE  NodeWritersInv'
<1>1. top.k = "wait" /\ (Goto_("check") \/ \E b : Call_("more", PollFrame(b, 0)))
  BY DEF WaitMore, Running
<1>2. UNCHANGED <<ReadVars, wrFree, inflightWr, wrLanded, within>> /\ IoKept
  BY DEF WaitMore, ReadVars, nwVars, IoKept
<1> QED
  BY <1>1, <1>2, WaitGoesOn

LEMMA WaitCheckStep ==
    ASSUME NodeWritersInv, WaitCheck, UNCHANGED nwVars
    PROVE  NodeWritersInv'
<1> USE DEF NodeWritersInv
<1>1. top.k = "wait" /\ Running("wait", "check") /\ StackOK
  BY DEF WaitCheck, Running, CoreInv
<1>2. UNCHANGED <<ReadVars, wrFree, inflightWr, wrLanded, within>> /\ IoKept /\ rdAt' = rdAt
  BY DEF WaitCheck, ReadVars, nwVars, IoKept
<1>3. CASE io_in_flight > 0
  <2>1. \E b : Call_("more", PollFrame(b, 0))
    BY <1>3 DEF WaitCheck
  <2> QED
    BY <1>1, <1>2, <2>1, WaitGoesOn
<1>4. CASE ~(io_in_flight > 0)
  <2>1. Return
    BY <1>4 DEF WaitCheck
  <2>2. Pops(stack, stack')
    BY <1>1, <2>1, ReturnShape
  <2>3. inflightWr = 0 /\ \A r \in Reads : rdAt[r] \in {"none", "done"}
    BY <1>1, <1>4, NothingInFlight
  <2>4. NodesKept'
    BY <1>1, <1>2, <2>2, NodesSame DEF CoreInv, IoKept
  <2>5. Plain /\ within \in Int /\ wrFree' = wrFree /\ inflightWr' = inflightWr /\ within' = within
    BY <1>2 DEF Plain, CoreInv, NumbersOK
  <2>6. ~IsHolder(top) /\ ~InCompletions(top) /\ Todo(top) = <<>>
    BY <1>1 DEF IsHolder, InCompletions, Todo
  <2>7. CoreInv'
    BY <1>1, <2>2, <2>4, <2>5, <2>6, CorePops DEF Bit
  <2>8. PhaseOK' /\ ~flushed'
    <3>1. Len(stack) \in DOMAIN stack /\ top = stack[Len(stack)] /\ Len(stack) \in Nat
          /\ DOMAIN stack = 1 .. Len(stack)
      BY <1>1, StackFacts
    <3>2. Len(stack) = 2
      BY <1>1, <3>1 DEF StackOK
    <3>3. top = stack[2] /\ 1 \in DOMAIN stack /\ stack[1].k = "main"
      BY <1>1, <3>1, <3>2 DEF StackOK
    <3>4. Len(stack') = 1 /\ DOMAIN stack' = 1 .. 1 /\ stack'[1] = stack[1]
      BY <2>2, <3>2, StackBasics DEF Pops
    <3>5. Quiet'
      BY <1>2, <2>3, <3>3, <3>4 DEF Quiet
    <3>6. \A i \in DOMAIN stack' : stack'[i].k # "write"
      BY <3>3, <3>4
    <3>7. ~flushed /\ writer' = writer /\ flushed' = flushed /\ inflightWr' = 0
      BY <1>2, <2>3, <3>2 DEF PhaseOK, IoKept
    <3> QED
      BY <1>1, <3>2, <3>3, <3>4, <3>5, <3>6, <3>7 DEF PhaseOK, Emptied
  <2> QED
    BY <2>7, <2>8, Finish
<1> QED
  BY <1>3, <1>4

----------------------------------------------------------------------------
(***************************************************************************)
(* Writing a node                                                          *)
(***************************************************************************)
LEMMA ConcatOne ==
    ASSUME NEW s, IsSeq(s), NEW e
    PROVE  /\ IsSeq(s \o <<e>>) /\ DOMAIN (s \o <<e>>) = 1 .. Len(s) + 1
           /\ \A i \in 1 .. Len(s) : (s \o <<e>>)[i] = s[i]
           /\ (s \o <<e>>)[Len(s) + 1] = e
<1> DEFINE S == {s[i] : i \in DOMAIN s} T == S \cup {e}
<1>1. s \in Seq(S)
  BY DEF IsSeq
<1> HIDE DEF S
<1>2. S \subseteq T /\ e \in T
  OBVIOUS
<1> HIDE DEF T
<1>3. s \in Seq(T)
  BY <1>1, <1>2, SeqMonotonic
<1>4. s \o <<e>> = Append(s, e)
  BY <1>2, <1>3, AppendIsConcat
<1>5. /\ IsSeq(Append(s, e)) /\ Len(Append(s, e)) = Len(s) + 1
      /\ \A i \in 1 .. Len(s) : Append(s, e)[i] = s[i]
      /\ Append(s, e)[Len(s) + 1] = e
  BY AppendShape
<1>6. DOMAIN Append(s, e) = 1 .. Len(s) + 1
  BY <1>5, StackBasics
<1> QED
  BY <1>4, <1>5, <1>6

\* The node of the frame that returns is written.
LEMMA NodeWritten ==
    ASSUME StackOK, NodesKept, top.k = "write", Pops(stack, stack'), nodes' = nodes,
           NEW x, x.n = top.n, nodeAt' = nodeAt \o <<x>>
    PROVE  NodesKept'
<1> DEFINE n == Len(stack)
           a == Len(nodeAt)
<1>1. Len(stack) = n /\ n \in Nat /\ n > 0 /\ DOMAIN stack = 1 .. n /\ top = stack[n]
  BY StackFacts
<1>2. DOMAIN stack' = 1 .. n - 1 /\ \A i \in 1 .. n - 1 : stack'[i] = stack[i]
  BY StackBasics DEF Pops
<1>3. /\ nodes \in Nat /\ IsSeq(nodeAt) /\ a \in Nat /\ DOMAIN nodeAt = 1 .. a
  BY StackBasics DEF NodesKept
<1>4. /\ IsSeq(nodeAt') /\ DOMAIN nodeAt' = 1 .. a + 1 /\ \A i \in 1 .. a : nodeAt'[i] = nodeAt[i]
      /\ nodeAt'[a + 1] = x
  BY <1>3, ConcatOne
<1> HIDE DEF n, a
<1>5. a + 1 \in DOMAIN nodeAt' /\ \A i \in DOMAIN nodeAt : i \in DOMAIN nodeAt' /\ nodeAt'[i] = nodeAt[i]
  BY <1>3, <1>4
<1>6. \A i \in DOMAIN stack : i = n \/ (i \in DOMAIN stack' /\ stack'[i] = stack[i])
  BY <1>1, <1>2
<1>7. ASSUME NEW m \in 1 .. nodes
      PROVE  \/ \E i \in DOMAIN nodeAt' : nodeAt'[i].n = m
             \/ \E i \in DOMAIN stack' : stack'[i].k = "write" /\ stack'[i].n = m
  <2>1. \/ \E i \in DOMAIN nodeAt : nodeAt[i].n = m
        \/ \E i \in DOMAIN stack : stack[i].k = "write" /\ stack[i].n = m
    BY <1>7 DEF NodesKept
  <2>2. CASE \E i \in DOMAIN nodeAt : nodeAt[i].n = m
    <3>1. PICK i \in DOMAIN nodeAt : nodeAt[i].n = m
      BY <2>2
    <3>2. i \in DOMAIN nodeAt' /\ nodeAt'[i] = nodeAt[i]
      BY <1>5
    <3>3. nodeAt'[i].n = m
      BY <3>1, <3>2
    <3> QED
      BY <3>2, <3>3
  <2>3. CASE \E i \in DOMAIN stack : stack[i].k = "write" /\ stack[i].n = m
    <3>1. PICK i \in DOMAIN stack : stack[i].k = "write" /\ stack[i].n = m
      BY <2>3
    <3>2. CASE i = n
      <4>1. nodeAt'[a + 1].n = m
        BY <1>1, <1>4, <3>1, <3>2
      <4> QED
        BY <1>5, <4>1
    <3>3. CASE i # n
      <4>1. i \in DOMAIN stack' /\ stack'[i] = stack[i]
        BY <1>6, <3>3
      <4>2. stack'[i].k = "write" /\ stack'[i].n = m
        BY <3>1, <4>1
      <4> QED
        BY <4>1, <4>2
    <3> QED
      BY <3>2, <3>3
  <2> QED
    BY <2>1, <2>2, <2>3
<1> QED
  BY <1>3, <1>4, <1>7 DEF NodesKept

\* What a step of a write leaves alone
WriterKept == /\ UNCHANGED <<ReadVars, wrLanded, within>>
              /\ flushed' = flushed /\ DOMAIN writer' = Writers

LEMMA WriteFrameFacts ==
    ASSUME NEW h, h.k = "write"
    PROVE  Todo(h) = <<>> /\ ~InCompletions(h) /\ \A q : ~LandedOf(h, q)
BY DEF Todo, InCompletions, LandedOf

\* async_write_node returns.
LEMMA WriteLeaves ==
    ASSUME NodeWritersInv, top.k = "write", ~IsHolder(top), Return, WriterKept,
           nodes' = nodes, NEW x, x.n = top.n, nodeAt' = nodeAt \o <<x>>,
           wrFree' = wrFree, inflightWr' = inflightWr
    PROVE  NodeWritersInv'
<1> USE DEF NodeWritersInv
<1>1. StackOK /\ NodesKept /\ within \in Int /\ wrFree \in Int /\ inflightWr \in Int
  BY DEF CoreInv, NumbersOK
<1>2. Pops(stack, stack')
  BY <1>1, ReturnShape
<1>3. Plain /\ within' = within /\ rdAt' = rdAt
  BY <1>1 DEF Plain, WriterKept, ReadVars
<1>4. NodesKept'
  BY <1>1, <1>2, NodeWritten
<1>5. Todo(top) = <<>> /\ ~InCompletions(top)
  BY WriteFrameFacts
<1>6. CoreInv'
  BY <1>1, <1>2, <1>3, <1>4, <1>5, CorePops DEF Bit
<1>7. PhaseOK' /\ ~flushed'
  BY <1>1, <1>2, <1>3, PhaseAbove DEF WriterKept, Quiet
<1> QED
  BY <1>6, <1>7, Finish

\* async_write_node goes on: the buffer it got comes from the pool and goes to one in flight.
LEMMA WriteGoesOn ==
    ASSUME NodeWritersInv, top.k = "write", NEW f, f.k = "write", FrameOK(f), f.n = top.n,
           Tops(stack, stack', f), WriterKept, nodes' = nodes, nodeAt' = nodeAt,
           wrFree' \in Int, inflightWr' \in Int, inflightWr' >= inflightWr,
           wrFree' + inflightWr' + Bit(IsHolder(f)) = wrFree + inflightWr + Bit(IsHolder(top))
    PROVE  NodeWritersInv'
<1> USE DEF NodeWritersInv
<1>1. StackOK /\ within \in Int
  BY DEF CoreInv, NumbersOK
<1>2. Plain /\ within' = within /\ rdAt' = rdAt
  BY <1>1 DEF Plain, WriterKept, ReadVars
<1>3. ReadRole(f, top) /\ (\A q : LandedOf(f, q) <=> LandedOf(top, q))
      /\ ~InCompletions(f) /\ ~InCompletions(top)
  BY PlainCallFrames
<1>4. within' = within + Bit(InCompletions(f)) - Bit(InCompletions(top))
  BY <1>1, <1>2, <1>3 DEF Bit
<1>5. CoreInv'
  BY <1>2, <1>3, <1>4, CoreTops
<1>6. PhaseOK' /\ ~flushed'
  BY <1>1, <1>2, PhaseAbove DEF WriterKept, Quiet
<1> QED
  BY <1>5, <1>6, Finish

\* async_write_node takes a buffer, or waits for one.
LEMMA WriteTakesBuffer ==
    ASSUME NodeWritersInv, top.k = "write", ~IsHolder(top), NEW f, f.k = "write", FrameOK(f),
           f.n = top.n, f.at \in Waiting, TakeBuffer(f), WriterKept, nodes' = nodes,
           nodeAt' = nodeAt, inflightWr' = inflightWr
    PROVE  NodeWritersInv'
<1> USE DEF NodeWritersInv
<1>1. StackOK /\ within \in Int /\ wrFree \in Int /\ inflightWr \in Int
  BY DEF CoreInv, NumbersOK
<1>2. IsHolder(f)
  BY DEF IsHolder
<1>3. CASE wrFree > 0
  <2>1. stack' = Append(Front(stack), f) /\ wrFree' = wrFree - 1
    BY <1>3 DEF TakeBuffer, Now
  <2>2. Tops(stack, stack', f)
    BY <1>1, <2>1, BecomesFrame
  <2>3. wrFree' + inflightWr' + Bit(IsHolder(f)) = wrFree + inflightWr + Bit(IsHolder(top))
        /\ wrFree' \in Int /\ inflightWr' \in Int /\ inflightWr' >= inflightWr
    BY <1>1, <1>2, <2>1 DEF Bit
  <2> QED
    BY <2>2, <2>3, WriteGoesOn
<1>4. CASE ~(wrFree > 0)
  <2> DEFINE g == GetBufFrame(TRUE, 0)
  <2>1. stack' = Append(Append(Front(stack), f), g) /\ wrFree' = wrFree
    BY <1>4 DEF TakeBuffer
  <2>2. FrameOK(g) /\ g.k = "getbuf" /\ g.write = TRUE /\ Todo(g) = <<>> /\ ~IsHolder(g) /\ ~InCompletions(g)
    BY DEF GetBufFrame, FrameOK, Todo, IsHolder, InCompletions
  <2> HIDE DEF g
  <2>3. Pushes(stack, stack', f, g)
    BY <1>1, <2>1, BecomesAndPushes
  <2>4. Plain /\ within' = within /\ rdAt' = rdAt
    BY <1>1, <2>1 DEF Plain, WriterKept, ReadVars
  <2>5. ReadRole(f, top) /\ (\A q : LandedOf(f, q) <=> LandedOf(top, q))
        /\ ~InCompletions(f) /\ ~InCompletions(top)
    BY PlainCallFrames
  <2>6. within' = within + Bit(InCompletions(g))
    BY <1>1, <2>2, <2>4 DEF Bit
  <2>7. wrFree' + inflightWr' + Bit(IsHolder(f) /\ g.k # "getbuf")
            = wrFree + inflightWr + Bit(IsHolder(top))
    BY <1>1, <2>1, <2>2 DEF Bit
  <2>8. CoreInv'
    BY <1>2, <2>2, <2>3, <2>4, <2>5, <2>6, <2>7, CorePushes
  <2>9. PhaseOK' /\ ~flushed'
    BY <1>1, <2>2, <2>3, <2>4, PhaseAbove DEF WriterKept, Quiet
  <2> QED
    BY <2>8, <2>9, Finish
<1> QED
  BY <1>3, <1>4

\* How a write frame goes on
GoesOnAt(f, h, at) == f.k = "write" /\ FrameOK(f) /\ f.n = h.n /\ f.at = at

LEMMA WriteFrames ==
    ASSUME NEW h, FrameOK(h), h.k = "write", NEW a, NEW b, NEW c, NEW d, NEW e
    PROVE  /\ GoesOnAt([h EXCEPT !.at = a], h, a)
           /\ GoesOnAt([h EXCEPT !.at = a, !.idx = b, !.my = c], h, a)
           /\ GoesOnAt([h EXCEPT !.at = a, !.loc = b], h, a)
           /\ GoesOnAt([h EXCEPT !.at = a, !.done = b, !.old = c, !.loc = d, !.next = e], h, a)
           /\ GoesOnAt([h EXCEPT !.at = a, !.done = b], h, a)
           /\ GoesOnAt([h EXCEPT !.at = a, !.done = b, !.old = c, !.next = d], h, a)
           /\ GoesOnAt([h EXCEPT !.done = b], h, h.at)
BY DEF GoesOnAt, FrameOK

LEMMA WritePollStep ==
    ASSUME NodeWritersInv, WritePoll
    PROVE  NodeWritersInv'
<1> USE DEF NodeWritersInv
<1>1. top.k = "write" /\ top.at = "poll" /\ StackOK /\ ~IsHolder(top) /\ top.k # "pending"
  BY DEF WritePoll, Running, CoreInv, IsHolder, Waiting
<1>2. UNCHANGED <<ReadVars, wrFree, inflightWr, wrLanded, within>> /\ IoKept
  BY DEF WritePoll, ReadVars, nwVars, IoKept
<1>3. WriterKept /\ nodes' = nodes /\ nodeAt' = nodeAt /\ wrFree' = wrFree /\ inflightWr' = inflightWr
      /\ wrFree \in Int /\ inflightWr \in Int /\ within \in Int /\ within' = within
  BY <1>2 DEF WriterKept, PhaseOK, IoKept, CoreInv, NumbersOK
<1>4. ASSUME NEW f, Same(f, top), f.at = "choose"
      PROVE  f.k = "write" /\ FrameOK(f) /\ f.n = top.n /\ ~IsHolder(f)
  BY <1>1, <1>4 DEF Same, IsHolder, Waiting
<1>5. CASE within = 0
  <2> DEFINE g == PollFrame(FALSE, 0)
  <2>1. Call_("choose", g)
    BY <1>5 DEF WritePoll
  <2>2. FrameOK(g) /\ g.k = "poll" /\ Todo(g) = <<>> /\ ~IsHolder(g) /\ ~InCompletions(g)
    BY PollFrameFacts
  <2> HIDE DEF g
  <2>3. PICK f : Pushes(stack, stack', f, g) /\ Same(f, top) /\ f.at = "choose"
    BY <1>1, <2>1, CallsFrom
  <2>4. f.k = "write" /\ FrameOK(f) /\ f.n = top.n /\ ~IsHolder(f)
    BY <1>4, <2>3
  <2>5. Plain
    BY <1>3 DEF Plain, WriterKept
  <2>6. ReadRole(f, top) /\ (\A q : LandedOf(f, q) <=> LandedOf(top, q))
        /\ ~InCompletions(f) /\ ~InCompletions(top)
    BY <1>1, <2>4, PlainCallFrames
  <2>7. CoreInv'
    BY <1>1, <1>3, <2>2, <2>3, <2>4, <2>5, <2>6, CorePushes DEF Bit
  <2>8. PhaseOK' /\ ~flushed'
    BY <1>1, <1>2, <1>3, <2>2, <2>3, <2>4, PhaseAbove DEF WriterKept, Quiet, IoKept, ReadVars
  <2> QED
    BY <2>7, <2>8, Finish
<1>6. CASE within # 0
  <2>1. Goto_("choose")
    BY <1>6 DEF WritePoll
  <2>2. PICK f : Tops(stack, stack', f) /\ Same(f, top) /\ f.at = "choose"
    BY <1>1, <2>1, GoesTo
  <2>3. f.k = "write" /\ FrameOK(f) /\ f.n = top.n /\ ~IsHolder(f)
    BY <1>4, <2>2
  <2> QED
    BY <1>1, <1>3, <2>2, <2>3, WriteGoesOn DEF Bit
<1> QED
  BY <1>5, <1>6

\* What AtWrite leaves alone
LEMMA AtWriteKeeps ==
    ASSUME NodeWritersInv, NEW at, AtWrite(at)
    PROVE  /\ top.k = "write" /\ top.at = at /\ StackOK /\ FrameOK(top) /\ top.list \in Writers
           /\ UNCHANGED <<ReadVars, wrLanded, within>>
           /\ wrFree \in Int /\ inflightWr \in Int /\ DOMAIN writer = Writers
<1> USE DEF NodeWritersInv
<1>1. top.k = "write" /\ top.at = at /\ StackOK
  BY DEF AtWrite, Running, CoreInv
<1>2. FrameOK(top) /\ top.list \in Writers
  BY <1>1, StackFacts DEF FrameOK
<1> QED
  BY <1>1, <1>2 DEF AtWrite, ReadVars, CoreInv, NumbersOK, PhaseOK

LEMMA WriteFitsStep ==
    ASSUME NodeWritersInv, WriteFits
    PROVE  NodeWritersInv'
<1>1. /\ top.k = "write" /\ top.at = "choose" /\ DOMAIN writer = Writers
      /\ UNCHANGED <<ReadVars, wrLanded, within>>
  BY AtWriteKeeps DEF WriteFits
<1>2. Return /\ nodes' = nodes /\ wrFree' = wrFree /\ inflightWr' = inflightWr
  BY DEF WriteFits
<1>3. WriterKept
  <2>1. DOMAIN writer' = Writers
    BY <1>1 DEF WriteFits
  <2> QED
    BY <1>1, <2>1 DEF WriteFits, WriterKept
<1>4. ~IsHolder(top)
  BY <1>1 DEF IsHolder, Waiting
<1> DEFINE x == [n |-> top.n, chunk |-> Current.chunk, off |-> Current.off + Len(Current.bytes),
                 size |-> top.size]
<1>5. nodeAt' = nodeAt \o <<x>> /\ x.n = top.n
  BY DEF WriteFits
<1> HIDE DEF x
<1> QED
  BY <1>1, <1>2, <1>3, <1>4, <1>5, WriteLeaves

LEMMA WriteNewChunkStep ==
    ASSUME NodeWritersInv, WriteNewChunk
    PROVE  NodeWritersInv'
<1>1. /\ top.k = "write" /\ top.at = "choose" /\ DOMAIN writer = Writers /\ FrameOK(top)
      /\ UNCHANGED <<ReadVars, wrLanded, within>>
  BY AtWriteKeeps DEF WriteNewChunk
<1>2. nodes' = nodes /\ nodeAt' = nodeAt /\ inflightWr' = inflightWr /\ flushed' = flushed
  BY DEF WriteNewChunk
<1>3. DOMAIN writer' = Writers
  BY <1>1 DEF WriteNewChunk
<1>4. WriterKept
  BY <1>1, <1>2, <1>3 DEF WriterKept
<1>5. ~IsHolder(top)
  BY <1>1 DEF IsHolder, Waiting
<1>6. PICK a, b, c : a = "newchunk" /\ TakeBuffer([top EXCEPT !.at = a, !.idx = b, !.my = c])
  BY DEF WriteNewChunk
<1> DEFINE f == [top EXCEPT !.at = a, !.idx = b, !.my = c]
<1>7. GoesOnAt(f, top, a) /\ TakeBuffer(f)
  BY <1>1, <1>6, WriteFrames
<1> HIDE DEF f
<1>8. f.at \in Waiting
  BY <1>6, <1>7 DEF GoesOnAt, Waiting
<1> QED
  BY <1>1, <1>2, <1>4, <1>5, <1>7, <1>8, WriteTakesBuffer DEF GoesOnAt

LEMMA WriteSplitStep ==
    ASSUME NodeWritersInv, WriteSplit
    PROVE  NodeWritersInv'
<1>1. /\ top.k = "write" /\ top.at = "choose" /\ DOMAIN writer = Writers /\ FrameOK(top)
      /\ UNCHANGED <<ReadVars, wrLanded, within>>
  BY AtWriteKeeps DEF WriteSplit
<1>2. nodes' = nodes /\ nodeAt' = nodeAt /\ inflightWr' = inflightWr /\ flushed' = flushed
  BY DEF WriteSplit
<1>3. DOMAIN writer' = Writers
  BY <1>1 DEF WriteSplit
<1>4. WriterKept
  BY <1>1, <1>2, <1>3 DEF WriterKept
<1>5. ~IsHolder(top)
  BY <1>1 DEF IsHolder, Waiting
<1>6. PICK a, b, c, d, e : a = "split" /\
          TakeBuffer([top EXCEPT !.at = a, !.done = b, !.old = c, !.loc = d, !.next = e])
  BY DEF WriteSplit
<1> DEFINE f == [top EXCEPT !.at = a, !.done = b, !.old = c, !.loc = d, !.next = e]
<1>7. GoesOnAt(f, top, a) /\ TakeBuffer(f)
  BY <1>1, <1>6, WriteFrames
<1> HIDE DEF f
<1>8. f.at \in Waiting
  BY <1>6, <1>7 DEF GoesOnAt, Waiting
<1> QED
  BY <1>1, <1>2, <1>4, <1>5, <1>7, <1>8, WriteTakesBuffer DEF GoesOnAt

\* A write that got its buffer gives it to the next writer or back.
BufferUsed == \/ wrFree' = wrFree /\ inflightWr' = inflightWr + 1 /\ DOMAIN writer' = DOMAIN writer
              \/ wrFree' = wrFree + 1 /\ inflightWr' = inflightWr /\ DOMAIN writer' = DOMAIN writer

\* And goes on when it has used it.
LEMMA WriteUsesBuffer ==
    ASSUME NodeWritersInv, NEW at, AtWrite(at), at \in Waiting, BufferUsed,
           nodes' = nodes, nodeAt' = nodeAt, flushed' = flushed,
           NEW f, NEW a, GoesOnAt(f, top, a), a \notin Waiting, Now(f)
    PROVE  NodeWritersInv'
<1>1. /\ top.k = "write" /\ top.at = at /\ DOMAIN writer = Writers /\ StackOK
      /\ UNCHANGED <<ReadVars, wrLanded, within>> /\ wrFree \in Int /\ inflightWr \in Int
  BY AtWriteKeeps
<1>2. IsHolder(top) /\ ~IsHolder(f) /\ f.k = "write" /\ FrameOK(f) /\ f.n = top.n
  BY <1>1 DEF IsHolder, GoesOnAt
<1>3. Tops(stack, stack', f)
  BY <1>1, BecomesFrame DEF Now
<1>4. WriterKept
  BY <1>1 DEF WriterKept, BufferUsed
<1>5. /\ wrFree' \in Int /\ inflightWr' \in Int /\ inflightWr' >= inflightWr
      /\ wrFree' + inflightWr' + Bit(IsHolder(f)) = wrFree + inflightWr + Bit(IsHolder(top))
  BY <1>1, <1>2 DEF BufferUsed, Bit
<1> QED
  BY <1>1, <1>2, <1>3, <1>4, <1>5, WriteGoesOn

LEMMA ReplaceUses ==
    ASSUME NEW l, NEW next, NEW failed, Replace_(l, next, failed), wrFree' = wrFree
    PROVE  BufferUsed
<1>1. inflightWr' = inflightWr + 1 /\ DOMAIN writer' = DOMAIN writer
  BY DEF Replace_
<1> QED
  BY <1>1 DEF BufferUsed

LEMMA UndoUses ==
    ASSUME NEW f, Undo(f)
    PROVE  BufferUsed /\ Now(f)
BY DEF Undo, BufferUsed

LEMMA WriteNewChunkReadyStep ==
    ASSUME NodeWritersInv, WriteNewChunkReady
    PROVE  NodeWritersInv'
<1>1. AtWrite("newchunk") /\ nodes' = nodes /\ nodeAt' = nodeAt /\ flushed' = flushed
  BY DEF WriteNewChunkReady
<1>2. top.k = "write" /\ FrameOK(top) /\ "newchunk" \in Waiting /\ "poll" \notin Waiting /\ "rest" \notin Waiting
  BY <1>1, AtWriteKeeps DEF Waiting
<1>3. CASE Reentered
  <2> DEFINE f == [top EXCEPT !.at = "poll"]
  <2>1. Undo(f) /\ GoesOnAt(f, top, "poll")
    BY <1>2, <1>3, WriteFrames DEF WriteNewChunkReady
  <2> HIDE DEF f
  <2> QED
    BY <1>1, <1>2, <2>1, UndoUses, WriteUsesBuffer
<1>4. CASE ~Reentered
  <2>1. PICK b : Now([top EXCEPT !.at = "rest", !.loc = b])
    BY <1>4 DEF WriteNewChunkReady
  <2> DEFINE f == [top EXCEPT !.at = "rest", !.loc = b]
  <2>2. Now(f) /\ GoesOnAt(f, top, "rest")
    BY <1>2, <2>1, WriteFrames
  <2> HIDE DEF f
  <2>3. BufferUsed
    BY <1>4, ReplaceUses DEF WriteNewChunkReady
  <2> QED
    BY <1>1, <1>2, <2>2, <2>3, WriteUsesBuffer
<1> QED
  BY <1>3, <1>4

LEMMA WriteSplitReadyStep ==
    ASSUME NodeWritersInv, WriteSplitReady
    PROVE  NodeWritersInv'
<1>1. AtWrite("split") /\ nodes' = nodes /\ nodeAt' = nodeAt /\ flushed' = flushed
  BY DEF WriteSplitReady
<1>2. top.k = "write" /\ FrameOK(top) /\ "split" \in Waiting /\ "poll" \notin Waiting /\ "rest" \notin Waiting
  BY <1>1, AtWriteKeeps DEF Waiting
<1>3. CASE ~SameWriter
  <2> DEFINE f == [top EXCEPT !.at = "poll", !.done = 0]
  <2>1. Undo(f) /\ GoesOnAt(f, top, "poll")
    BY <1>2, <1>3, WriteFrames DEF WriteSplitReady
  <2> HIDE DEF f
  <2> QED
    BY <1>1, <1>2, <2>1, UndoUses, WriteUsesBuffer
<1>4. CASE SameWriter
  <2> DEFINE f == [top EXCEPT !.at = "rest"]
  <2>1. Now(f) /\ GoesOnAt(f, top, "rest")
    BY <1>2, <1>4, WriteFrames DEF WriteSplitReady
  <2> HIDE DEF f
  <2>2. BufferUsed
    BY <1>4, ReplaceUses DEF WriteSplitReady, ReplaceInList
  <2> QED
    BY <1>1, <1>2, <2>1, <2>2, WriteUsesBuffer
<1> QED
  BY <1>3, <1>4

LEMMA WriteNextStep ==
    ASSUME NodeWritersInv, WriteNext
    PROVE  NodeWritersInv'
<1>1. AtWrite("next") /\ nodes' = nodes /\ nodeAt' = nodeAt /\ flushed' = flushed
  BY DEF WriteNext
<1>2. top.k = "write" /\ FrameOK(top) /\ "next" \in Waiting /\ "rest" \notin Waiting
  BY <1>1, AtWriteKeeps DEF Waiting
<1> DEFINE f == [top EXCEPT !.at = "rest"]
<1>3. GoesOnAt(f, top, "rest")
  BY <1>2, WriteFrames
<1>4. CASE ~SameWriter
  <2>1. Undo(f)
    BY <1>4 DEF WriteNext
  <2> HIDE DEF f
  <2> QED
    BY <1>1, <1>2, <1>3, <2>1, UndoUses, WriteUsesBuffer
<1>5. CASE SameWriter
  <2>1. Now(f)
    BY <1>5 DEF WriteNext
  <2>2. BufferUsed
    BY <1>5, ReplaceUses DEF WriteNext, ReplaceInList
  <2> HIDE DEF f
  <2> QED
    BY <1>1, <1>2, <1>3, <2>1, <2>2, WriteUsesBuffer
<1> QED
  BY <1>4, <1>5

LEMMA WriteRestStep ==
    ASSUME NodeWritersInv, WriteRest
    PROVE  NodeWritersInv'
<1>1. /\ top.k = "write" /\ top.at = "rest" /\ DOMAIN writer = Writers /\ FrameOK(top) /\ StackOK
      /\ UNCHANGED <<ReadVars, wrLanded, within>> /\ wrFree \in Int /\ inflightWr \in Int
  BY AtWriteKeeps DEF WriteRest
<1>2. nodes' = nodes /\ inflightWr' = inflightWr /\ flushed' = flushed
  BY DEF WriteRest
<1>3. DOMAIN writer' = Writers
  BY <1>1 DEF WriteRest
<1>4. WriterKept /\ ~IsHolder(top)
  BY <1>1, <1>2, <1>3 DEF WriterKept, IsHolder, Waiting
<1>5. CASE top.size - top.done = 0
  <2> DEFINE x == [n |-> top.n, chunk |-> top.loc[1], off |-> top.loc[2], size |-> top.size]
  <2>1. nodeAt' = nodeAt \o <<x>> /\ x.n = top.n /\ Return /\ wrFree' = wrFree
    BY <1>5 DEF WriteRest
  <2> HIDE DEF x
  <2> QED
    BY <1>1, <1>2, <1>4, <2>1, WriteLeaves
<1>6. ASSUME NEW b, NEW c, NEW d, nodeAt' = nodeAt,
             TakeBuffer([top EXCEPT !.at = "next", !.done = b, !.old = c, !.next = d])
      PROVE  NodeWritersInv'
  <2> DEFINE f == [top EXCEPT !.at = "next", !.done = b, !.old = c, !.next = d]
  <2>1. GoesOnAt(f, top, "next") /\ TakeBuffer(f)
    BY <1>1, <1>6, WriteFrames
  <2> HIDE DEF f
  <2>2. f.at \in Waiting
    BY <2>1 DEF GoesOnAt, Waiting
  <2> QED
    BY <1>1, <1>2, <1>4, <1>6, <2>1, <2>2, WriteTakesBuffer DEF GoesOnAt
<1>7. ASSUME NEW b, nodeAt' = nodeAt, wrFree' = wrFree, Now([top EXCEPT !.done = b])
      PROVE  NodeWritersInv'
  <2> DEFINE f == [top EXCEPT !.done = b]
  <2>1. GoesOnAt(f, top, top.at) /\ Now(f)
    BY <1>1, <1>7, WriteFrames
  <2> HIDE DEF f
  <2>2. Tops(stack, stack', f)
    BY <1>1, <2>1, BecomesFrame DEF Now
  <2>3. ~IsHolder(f)
    BY <1>1, <2>1 DEF GoesOnAt, IsHolder, Waiting
  <2> QED
    BY <1>1, <1>2, <1>4, <1>7, <2>1, <2>2, <2>3, WriteGoesOn DEF GoesOnAt, Bit
<1>8. \/ top.size - top.done = 0
      \/ \E b, c, d : nodeAt' = nodeAt /\
             TakeBuffer([top EXCEPT !.at = "next", !.done = b, !.old = c, !.next = d])
      \/ \E b : nodeAt' = nodeAt /\ wrFree' = wrFree /\ Now([top EXCEPT !.done = b])
  BY DEF WriteRest
<1> QED
  BY <1>5, <1>6, <1>7, <1>8

----------------------------------------------------------------------------
(***************************************************************************)
(* flush_buffered_writes                                                   *)
(***************************************************************************)
FlushGoesAt(f, h, at) == f.k = "flush" /\ FrameOK(f) /\ f.list = h.list /\ f.at = at

LEMMA FlushFrames ==
    ASSUME NEW h, FrameOK(h), h.k = "flush", NEW a, NEW b, NEW c
    PROVE  /\ FlushGoesAt([h EXCEPT !.at = a], h, a)
           /\ FlushGoesAt([h EXCEPT !.at = a, !.old = b, !.next = c], h, a)
BY DEF FlushGoesAt, FrameOK

LEMMA AtFlushKeeps ==
    ASSUME NodeWritersInv, NEW at, AtFlush(at)
    PROVE  /\ top.k = "flush" /\ top.at = at /\ StackOK /\ FrameOK(top) /\ top.list \in Writers
           /\ UNCHANGED <<ReadVars, wrLanded, within>> /\ within \in Int
           /\ wrFree \in Int /\ inflightWr \in Int /\ DOMAIN writer = Writers
<1> USE DEF NodeWritersInv
<1>1. top.k = "flush" /\ top.at = at /\ StackOK
  BY DEF AtFlush, Running, CoreInv
<1>2. FrameOK(top) /\ top.list \in Writers
  BY <1>1, StackFacts DEF FrameOK
<1> QED
  BY <1>1, <1>2 DEF AtFlush, ReadVars, CoreInv, NumbersOK, PhaseOK

\* flush_buffered_writes goes on.
LEMMA FlushGoesOn ==
    ASSUME NodeWritersInv, top.k = "flush", NEW f, NEW at, FlushGoesAt(f, top, at),
           Tops(stack, stack', f), UNCHANGED <<ReadVars, wrLanded, within>>,
           nodes' = nodes, nodeAt' = nodeAt, flushed' = flushed, writer' = writer,
           wrFree' \in Int, inflightWr' \in Int, inflightWr' >= inflightWr,
           wrFree' + inflightWr' + Bit(IsHolder(f)) = wrFree + inflightWr + Bit(IsHolder(top))
    PROVE  NodeWritersInv'
<1> USE DEF NodeWritersInv
<1>1. StackOK /\ within \in Int /\ f.k = "flush" /\ FrameOK(f) /\ f.list = top.list
  BY DEF CoreInv, NumbersOK, FlushGoesAt
<1>2. Plain /\ within' = within /\ rdAt' = rdAt
  BY <1>1 DEF Plain, ReadVars
<1>3. ReadRole(f, top) /\ (\A q : LandedOf(f, q) <=> LandedOf(top, q))
      /\ ~InCompletions(f) /\ ~InCompletions(top)
  BY <1>1, PlainCallFrames
<1>4. within' = within + Bit(InCompletions(f)) - Bit(InCompletions(top))
  BY <1>1, <1>2, <1>3 DEF Bit
<1>5. CoreInv'
  BY <1>1, <1>2, <1>3, <1>4, CoreTops
<1>6. PhaseOK' /\ ~flushed'
  BY <1>1, <1>2, PhaseSecond
<1> QED
  BY <1>5, <1>6, Finish

LEMMA FlushBeginStep ==
    ASSUME NodeWritersInv, FlushBegin
    PROVE  NodeWritersInv'
<1> USE DEF NodeWritersInv
<1>1. /\ top.k = "flush" /\ top.at = "begin" /\ FrameOK(top) /\ StackOK
      /\ UNCHANGED <<ReadVars, wrLanded, within>> /\ wrFree \in Int /\ inflightWr \in Int
      /\ within \in Int
  BY AtFlushKeeps DEF FlushBegin
<1>2. nodes' = nodes /\ nodeAt' = nodeAt /\ inflightWr' = inflightWr /\ flushed' = flushed
      /\ writer' = writer
  BY DEF FlushBegin, nwVars
<1>3. PICK a, b, c : a = "ready" /\ TakeBuffer([top EXCEPT !.at = a, !.old = b, !.next = c])
  BY DEF FlushBegin
<1> DEFINE f == [top EXCEPT !.at = a, !.old = b, !.next = c]
<1>4. FlushGoesAt(f, top, a) /\ TakeBuffer(f)
  BY <1>1, <1>3, FlushFrames
<1> HIDE DEF f
<1>5. f.k = "flush" /\ FrameOK(f) /\ f.list = top.list /\ f.at \in Waiting
  BY <1>3, <1>4 DEF FlushGoesAt, Waiting
<1>6. IsHolder(f) /\ ~IsHolder(top)
  BY <1>1, <1>5 DEF IsHolder, Waiting
<1>7. CASE wrFree > 0
  <2>1. stack' = Append(Front(stack), f) /\ wrFree' = wrFree - 1
    BY <1>4, <1>7 DEF TakeBuffer, Now
  <2>2. Tops(stack, stack', f)
    BY <1>1, <2>1, BecomesFrame
  <2>3. wrFree' + inflightWr' + Bit(IsHolder(f)) = wrFree + inflightWr + Bit(IsHolder(top))
        /\ wrFree' \in Int /\ inflightWr' \in Int /\ inflightWr' >= inflightWr
    BY <1>1, <1>2, <1>6, <2>1 DEF Bit
  <2> QED
    BY <1>1, <1>2, <1>4, <2>2, <2>3, FlushGoesOn
<1>8. CASE ~(wrFree > 0)
  <2> DEFINE g == GetBufFrame(TRUE, 0)
  <2>1. stack' = Append(Append(Front(stack), f), g) /\ wrFree' = wrFree
    BY <1>4, <1>8 DEF TakeBuffer
  <2>2. FrameOK(g) /\ g.k = "getbuf" /\ g.write = TRUE /\ Todo(g) = <<>> /\ ~IsHolder(g) /\ ~InCompletions(g)
    BY DEF GetBufFrame, FrameOK, Todo, IsHolder, InCompletions
  <2> HIDE DEF g
  <2>3. Pushes(stack, stack', f, g)
    BY <1>1, <2>1, BecomesAndPushes
  <2>4. Plain /\ within' = within /\ rdAt' = rdAt
    BY <1>1, <1>2, <2>1 DEF Plain, ReadVars
  <2>5. ReadRole(f, top) /\ (\A q : LandedOf(f, q) <=> LandedOf(top, q))
        /\ ~InCompletions(f) /\ ~InCompletions(top)
    BY <1>1, <1>5, PlainCallFrames
  <2>6. within' = within + Bit(InCompletions(g))
    BY <1>1, <2>2, <2>4 DEF Bit
  <2>7. wrFree' + inflightWr' + Bit(IsHolder(f) /\ g.k # "getbuf")
            = wrFree + inflightWr + Bit(IsHolder(top))
    BY <1>1, <1>2, <1>6, <2>1, <2>2 DEF Bit
  <2>8. CoreInv'
    BY <1>1, <1>2, <1>5, <1>6, <2>2, <2>3, <2>4, <2>5, <2>6, <2>7, CorePushes
  <2>9. PhaseOK' /\ ~flushed'
    BY <1>1, <1>2, <1>5, <2>2, <2>3, <2>4, PhaseSecond
  <2> QED
    BY <2>8, <2>9, Finish
<1> QED
  BY <1>7, <1>8

\* What follows a flush
LEMMA AfterFlushFacts ==
    ASSUME NEW l \in Writers, NEW f, f = AfterFlush(l)
    PROVE  /\ FrameOK(f) /\ ~IsHolder(f) /\ ~InCompletions(f) /\ f.k \in {"wait", "flush"}
           /\ f.k = "flush" => l = "fast" /\ f.list = "slow"
           /\ f.k = "wait" => l = "slow" \/ Emptied("slow")
BY DEF AfterFlush, FlushFrame, WaitFrame, FrameOK, IsHolder, InCompletions, Waiting, Writers, Emptied

\* main flushes: the next frame is in the place of this one, and the writer is empty.
LEMMA PhaseFlushed ==
    ASSUME StackOK, PhaseOK, top.k = "flush", NEW f, Tops(stack, stack', f),
           f.k \in {"wait", "flush"}, rdAt' = rdAt, flushed' = flushed, DOMAIN writer' = Writers,
           stack[1].at # "root",
           f.k = "flush" /\ f.list = "slow" => Emptied("fast")',
           f.k = "wait" /\ stack[1].at = "flushed" => Emptied("fast")' /\ Emptied("slow")'
    PROVE  PhaseOK' /\ ~flushed'
<1>1. /\ Len(stack) \in Nat /\ Len(stack) \in DOMAIN stack /\ DOMAIN stack = 1 .. Len(stack)
      /\ top = stack[Len(stack)]
  BY StackFacts
<1>2. Len(stack) = 2
  BY <1>1 DEF StackOK
<1>3. DOMAIN stack' = 1 .. 2 /\ Len(stack') = 2 /\ stack'[1] = stack[1] /\ stack'[2] = f
  BY <1>2, StackBasics DEF Tops
<1>4. stack[1].k = "main"
  BY <1>1, <1>2 DEF StackOK
<1>5. \A i \in DOMAIN stack' : stack'[i].k \notin {"write", "receiver"}
  BY <1>3, <1>4
<1>6. Quiet => Quiet'
  BY <1>5 DEF Quiet
<1>7. ~flushed
  BY <1>2 DEF PhaseOK
<1> QED
  BY <1>3, <1>5, <1>6, <1>7 DEF PhaseOK

LEMMA FlushReadyStep ==
    ASSUME NodeWritersInv, FlushReady
    PROVE  NodeWritersInv'
<1> USE DEF NodeWritersInv
<1>1. /\ top.k = "flush" /\ top.at = "ready" /\ FrameOK(top) /\ StackOK /\ top.list \in Writers
      /\ UNCHANGED <<ReadVars, wrLanded, within>> /\ wrFree \in Int /\ inflightWr \in Int
      /\ within \in Int /\ DOMAIN writer = Writers
  BY AtFlushKeeps DEF FlushReady
<1>2. nodes' = nodes /\ nodeAt' = nodeAt /\ flushed' = flushed
  BY DEF FlushReady
<1>3. IsHolder(top)
  BY <1>1 DEF IsHolder, Waiting
<1>4. CASE ~SameWriter
  <2> DEFINE f == [top EXCEPT !.at = "begin"]
  <2>1. Undo(f) /\ FlushGoesAt(f, top, "begin")
    BY <1>1, <1>4, FlushFrames DEF FlushReady
  <2> HIDE DEF f
  <2>2. wrFree' = wrFree + 1 /\ inflightWr' = inflightWr /\ writer' = writer /\ Now(f)
    BY <2>1 DEF Undo
  <2>3. Tops(stack, stack', f)
    BY <1>1, <2>2, BecomesFrame DEF Now
  <2>4. ~IsHolder(f)
    BY <2>1 DEF FlushGoesAt, IsHolder, Waiting
  <2>5. wrFree' + inflightWr' + Bit(IsHolder(f)) = wrFree + inflightWr + Bit(IsHolder(top))
        /\ wrFree' \in Int /\ inflightWr' \in Int /\ inflightWr' >= inflightWr
    BY <1>1, <1>3, <2>2, <2>4 DEF Bit
  <2> QED
    BY <1>1, <1>2, <2>1, <2>2, <2>3, <2>5, FlushGoesOn
<1>5. CASE SameWriter
  <2> DEFINE f == AfterFlush(top.list)
  <2>1. PICK next : Replace_(top.list, next, {})
    BY <1>5 DEF FlushReady, ReplaceInList
  <2>2. Become(f) /\ wrFree' = wrFree
    BY <1>5 DEF FlushReady
  <2>3. /\ FrameOK(f) /\ ~IsHolder(f) /\ ~InCompletions(f) /\ f.k \in {"wait", "flush"}
        /\ f.k = "flush" => top.list = "fast" /\ f.list = "slow"
        /\ f.k = "wait" => top.list = "slow" \/ Emptied("slow")
    BY <1>1, AfterFlushFacts
  <2> HIDE DEF f
  <2>4. Tops(stack, stack', f)
    BY <1>1, <2>2, BecomesFrame DEF Become
  <2>5. inflightWr' = inflightWr + 1 /\ DOMAIN writer' = Writers
    BY <1>1, <2>1 DEF Replace_
  <2>6. /\ writer'[top.list].bytes = <<>>
        /\ \A l \in Writers : l # top.list => writer'[l] = writer[l]
    BY <1>1, <2>1 DEF Replace_, NewWriter
  <2>7. Plain /\ within' = within /\ rdAt' = rdAt
    BY <1>1, <2>2, <2>5 DEF Plain, ReadVars
  <2>8. ReadRole(f, top) /\ (\A q : LandedOf(f, q) <=> LandedOf(top, q)) /\ ~InCompletions(top)
    BY <1>1, <2>3 DEF ReadRole, LandedOf, InCompletions, Todo
  <2>9. CoreInv'
    <3>1. wrFree' + inflightWr' + Bit(IsHolder(f)) = wrFree + inflightWr + Bit(IsHolder(top))
          /\ within' = within + Bit(InCompletions(f)) - Bit(InCompletions(top))
      BY <1>1, <1>3, <2>2, <2>3, <2>5, <2>7, <2>8 DEF Bit
    <3> QED
      BY <1>1, <1>2, <2>3, <2>4, <2>7, <2>8, <3>1, CoreTops
  <2>10. PhaseOK' /\ ~flushed'
    <3>1. Len(stack) = 2 /\ top = stack[2]
      <4>1. Len(stack) \in DOMAIN stack /\ top = stack[Len(stack)]
        BY <1>1, StackFacts
      <4> QED
        BY <1>1, <4>1 DEF StackOK
    <3>2. stack[1].at # "root"
      BY <1>1, <3>1 DEF PhaseOK
    <3>3. f.k = "flush" /\ f.list = "slow" => Emptied("fast")'
      BY <2>3, <2>6 DEF Emptied
    <3>4. ASSUME f.k = "wait", stack[1].at = "flushed" PROVE Emptied("fast")' /\ Emptied("slow")'
      <4>1. top.list = "slow" => Emptied("fast")
        BY <1>1, <3>1, <3>4 DEF PhaseOK
      <4>2. top.list = "slow" \/ (top.list = "fast" /\ Emptied("slow"))
        BY <1>1, <2>3, <3>4 DEF Writers
      <4> QED
        BY <2>6, <4>1, <4>2 DEF Emptied, Writers
    <3> QED
      BY <1>1, <1>2, <2>3, <2>4, <2>5, <2>7, <3>2, <3>3, <3>4, PhaseFlushed
  <2> QED
    BY <2>9, <2>10, Finish
<1> QED
  BY <1>4, <1>5

----------------------------------------------------------------------------
(***************************************************************************)
(* main and the receivers                                                  *)
(***************************************************************************)
LEMMA WriteFrameNew ==
    ASSUME NEW l \in Writers, NEW m, NEW s, NEW g, g = WriteFrame(l, m, s)
    PROVE  FrameOK(g) /\ g.k = "write" /\ g.n = m /\ Todo(g) = <<>> /\ ~IsHolder(g)
           /\ ~InCompletions(g)
BY DEF WriteFrame, FrameOK, Todo, IsHolder, InCompletions, Waiting

\* A node is begun.
LEMMA NodeBegun ==
    ASSUME StackOK, NodesKept, NEW f, NEW g, Pushes(stack, stack', f, g), top.k # "write",
           nodeAt' = nodeAt, nodes' = nodes + 1, g.k = "write", g.n = nodes + 1
    PROVE  NodesKept'
<1> DEFINE n == Len(stack)
<1>1. Len(stack) = n /\ n \in Nat /\ n > 0 /\ DOMAIN stack = 1 .. n /\ top = stack[n]
  BY StackFacts
<1>2. /\ DOMAIN stack' = 1 .. n + 1 /\ stack'[n + 1] = g
      /\ \A i \in 1 .. n - 1 : stack'[i] = stack[i]
  BY <1>1, StackBasics DEF Pushes
<1> HIDE DEF n
<1>3. \A i \in DOMAIN stack : stack[i].k = "write" => i \in DOMAIN stack' /\ stack'[i] = stack[i]
  BY <1>1, <1>2
<1>4. n + 1 \in DOMAIN stack'
  BY <1>1, <1>2
<1>5. nodes \in Nat /\ nodes' \in Nat /\ IsSeq(nodeAt)
  BY DEF NodesKept
<1>6. ASSUME NEW m \in 1 .. nodes'
      PROVE  \/ \E i \in DOMAIN nodeAt' : nodeAt'[i].n = m
             \/ \E i \in DOMAIN stack' : stack'[i].k = "write" /\ stack'[i].n = m
  <2>1. m = nodes + 1 \/ m \in 1 .. nodes
    BY <1>5
  <2>2. CASE m = nodes + 1
    BY <1>2, <1>4, <2>2
  <2>3. CASE m \in 1 .. nodes
    BY <1>3, <2>3 DEF NodesKept
  <2> QED
    BY <2>1, <2>2, <2>3
<1> QED
  BY <1>5, <1>6 DEF NodesKept

\* A call of main or of a receiver that does not concern reads
LEMMA CallCore ==
    ASSUME NodeWritersInv, top.k \in Callers, UNCHANGED <<ReadVars, wrFree, inflightWr, wrLanded, within>>,
           NEW f, NEW g, Pushes(stack, stack', f, g), Same(f, top), FrameOK(g),
           g.k \in {"write", "wait", "flush"}, g.k \in {"wait", "flush"} => top.k = "main",
           ~IsHolder(g), NodesKept' \/ (nodes' = nodes /\ nodeAt' = nodeAt)
    PROVE  CoreInv'
<1> USE DEF NodeWritersInv
<1>1. StackOK /\ within \in Int /\ wrFree \in Int /\ inflightWr \in Int
  BY DEF CoreInv, NumbersOK
<1>2. f.k = top.k /\ FrameOK(f) /\ f.k \notin {"init", "getbuf", "poll", "pending"}
  BY DEF Same, Callers
<1>3. ReadRole(f, top) /\ (\A q : LandedOf(f, q) <=> LandedOf(top, q))
      /\ ~InCompletions(f) /\ ~InCompletions(top)
  BY <1>2, PlainCallFrames
<1>4. ~IsHolder(top) /\ ~IsHolder(f) /\ Todo(g) = <<>> /\ ~InCompletions(g)
  BY <1>2 DEF IsHolder, Callers, Todo, InCompletions
<1>5. Plain /\ within' = within /\ wrFree' = wrFree /\ inflightWr' = inflightWr
  BY <1>1 DEF Plain
<1>6. /\ within' = within + Bit(InCompletions(g))
      /\ wrFree' + inflightWr' + Bit(IsHolder(f) /\ g.k # "getbuf")
            = wrFree + inflightWr + Bit(IsHolder(top))
  BY <1>1, <1>4, <1>5 DEF Bit
<1> QED
  BY <1>2, <1>3, <1>4, <1>5, <1>6, CorePushes DEF Callers

LEMMA BeginWriteStep ==
    ASSUME NodeWritersInv, NEW l \in Writers, NEW s, NEW at, CallerAt(at), BeginWrite(l, s, at)
    PROVE  NodeWritersInv'
<1> USE DEF NodeWritersInv
<1>1. top.k \in Callers /\ StackOK /\ NodesKept /\ top.k # "pending" /\ top.k # "write"
  BY DEF CallerAt, Callers, CoreInv
<1>2. /\ UNCHANGED <<ReadVars, wrFree, inflightWr, wrLanded, within>>
      /\ flushed' = flushed /\ writer' = writer /\ nodeAt' = nodeAt /\ nodes' = nodes + 1
  BY DEF BeginWrite, ReadVars
<1> DEFINE g == WriteFrame(l, nodes + 1, s)
<1>3. Call_(at, g)
  BY DEF BeginWrite
<1>4. FrameOK(g) /\ g.k = "write" /\ g.n = nodes + 1 /\ ~IsHolder(g)
  BY WriteFrameNew
<1> HIDE DEF g
<1>5. PICK f : Pushes(stack, stack', f, g) /\ Same(f, top) /\ f.at = at
  BY <1>1, <1>3, CallsFrom
<1>6. NodesKept'
  BY <1>1, <1>2, <1>4, <1>5, NodeBegun
<1>7. CoreInv'
  BY <1>1, <1>2, <1>4, <1>5, <1>6, CallCore
<1>8. f.k = top.k
  BY <1>5 DEF Same
<1>9. PhaseOK' /\ ~flushed'
  BY <1>1, <1>2, <1>5, <1>8, PhaseCalls, ReceiverNotQuiet
<1> QED
  BY <1>7, <1>9, Finish

LEMMA ReceiverReturnStep ==
    ASSUME NodeWritersInv, ReceiverReturn
    PROVE  NodeWritersInv'
<1> USE DEF NodeWritersInv
<1>1. top.k = "receiver" /\ StackOK /\ Return /\ within \in Int /\ wrFree \in Int /\ inflightWr \in Int
  BY DEF ReceiverReturn, CoreInv, NumbersOK
<1>2. UNCHANGED <<ReadVars, wrFree, inflightWr, wrLanded, within>> /\ IoKept
  BY DEF ReceiverReturn, ReadVars, nwVars, IoKept
<1>3. Pops(stack, stack')
  BY <1>1, ReturnShape
<1>4. NodesKept'
  BY <1>1, <1>2, <1>3, NodesSame DEF CoreInv, IoKept
<1>5. ~IsHolder(top) /\ ~InCompletions(top) /\ Todo(top) = <<>>
  BY <1>1, CallerFacts DEF Callers
<1>6. Plain /\ within' = within /\ wrFree' = wrFree /\ inflightWr' = inflightWr
  BY <1>1, <1>2 DEF Plain
<1>7. CoreInv'
  BY <1>1, <1>3, <1>4, <1>5, <1>6, CorePops DEF Bit
<1>8. PhaseOK' /\ ~flushed'
  BY <1>1, <1>2, <1>3, PhaseAbove, ReceiverNotQuiet DEF IoKept, PhaseOK
<1> QED
  BY <1>7, <1>8, Finish

\* main is alone on the stack and calls.
LEMMA MainCalls ==
    ASSUME StackOK, top.k = "main", NEW at, NEW g, Call_(at, g)
    PROVE  \E f : /\ Pushes(stack, stack', f, g) /\ Same(f, top) /\ f.at = at
                  /\ Len(stack) = 1 /\ top = stack[1] /\ f.k = "main"
                  /\ Len(stack') = 2 /\ DOMAIN stack' = 1 .. 2 /\ stack'[1] = f /\ stack'[2] = g
<1>1. Len(stack) = 1 /\ top = stack[1]
  BY MainTop
<1>2. PICK f : Pushes(stack, stack', f, g) /\ Same(f, top) /\ f.at = at
  BY CallsFrom
<1>3. Len(stack') = 2 /\ stack'[1] = f /\ stack'[2] = g /\ IsSeq(stack')
  BY <1>1, <1>2 DEF Pushes
<1>4. DOMAIN stack' = 1 .. 2
  BY <1>3, StackBasics
<1>5. f.k = "main"
  BY <1>2 DEF Same
<1> QED
  BY <1>1, <1>2, <1>3, <1>4, <1>5

LEMMA MainWaitStep ==
    ASSUME NodeWritersInv, MainWait
    PROVE  NodeWritersInv'
<1> USE DEF NodeWritersInv
<1>1. top.k = "main" /\ top.at = "run" /\ StackOK /\ top.k \in Callers
  BY DEF MainWait, Running, CoreInv, Callers
<1>2. UNCHANGED <<ReadVars, wrFree, inflightWr, wrLanded, within>> /\ IoKept
  BY DEF MainWait, ReadVars, nwVars, IoKept
<1> DEFINE g == WaitFrame
<1>3. Call_("root", g) /\ FrameOK(g) /\ g.k = "wait" /\ ~IsHolder(g)
  BY DEF MainWait, WaitFrame, FrameOK, IsHolder
<1> HIDE DEF g
<1>4. PICK f : /\ Pushes(stack, stack', f, g) /\ Same(f, top) /\ f.at = "root"
               /\ Len(stack) = 1 /\ top = stack[1] /\ f.k = "main"
               /\ Len(stack') = 2 /\ DOMAIN stack' = 1 .. 2 /\ stack'[1] = f /\ stack'[2] = g
  BY <1>1, <1>3, MainCalls
<1>5. CoreInv'
  BY <1>1, <1>2, <1>3, <1>4, CallCore DEF IoKept
<1>6. PhaseOK' /\ ~flushed'
  <2>1. ~flushed
    BY <1>1, <1>4 DEF PhaseOK
  <2> QED
    BY <1>2, <1>3, <1>4, <2>1 DEF PhaseOK, IoKept
<1> QED
  BY <1>5, <1>6, Finish

LEMMA MainRootStep ==
    ASSUME NodeWritersInv, MainRoot
    PROVE  NodeWritersInv'
<1> USE DEF NodeWritersInv
<1>1. /\ top.k = "main" /\ top.at = "root" /\ StackOK /\ top.k \in Callers /\ NodesKept
      /\ top.k # "write" /\ "fast" \in Writers
  BY DEF MainRoot, Running, CoreInv, Callers, Writers
<1>2. PICK s : BeginWrite("fast", s, "flush")
  BY DEF MainRoot
<1>3. /\ UNCHANGED <<ReadVars, wrFree, inflightWr, wrLanded, within>> /\ rdAt' = rdAt
      /\ flushed' = flushed /\ writer' = writer /\ nodeAt' = nodeAt /\ nodes' = nodes + 1
  BY <1>2 DEF BeginWrite, ReadVars
<1> DEFINE g == WriteFrame("fast", nodes + 1, s)
<1>4. Call_("flush", g)
  BY <1>2 DEF BeginWrite
<1>5. FrameOK(g) /\ g.k = "write" /\ g.n = nodes + 1 /\ ~IsHolder(g)
  BY <1>1, WriteFrameNew
<1> HIDE DEF g
<1>6. PICK f : /\ Pushes(stack, stack', f, g) /\ Same(f, top) /\ f.at = "flush"
               /\ Len(stack) = 1 /\ top = stack[1] /\ f.k = "main"
               /\ Len(stack') = 2 /\ DOMAIN stack' = 1 .. 2 /\ stack'[1] = f /\ stack'[2] = g
  BY <1>1, <1>4, MainCalls
<1>7. NodesKept'
  BY <1>1, <1>3, <1>5, <1>6, NodeBegun
<1>8. CoreInv'
  BY <1>1, <1>3, <1>5, <1>6, <1>7, CallCore
<1>9. PhaseOK' /\ ~flushed'
  <2>1. ~flushed /\ Quiet
    BY <1>1, <1>6 DEF PhaseOK
  <2>2. \A i \in DOMAIN stack' : stack'[i].k # "receiver"
    BY <1>5, <1>6
  <2>3. Quiet'
    BY <1>3, <2>1, <2>2 DEF Quiet
  <2> QED
    BY <1>3, <1>5, <1>6, <2>1, <2>3 DEF PhaseOK
<1> QED
  BY <1>8, <1>9, Finish

LEMMA MainFlushStep ==
    ASSUME NodeWritersInv, MainFlush
    PROVE  NodeWritersInv'
<1> USE DEF NodeWritersInv
<1>1. top.k = "main" /\ top.at = "flush" /\ StackOK /\ top.k \in Callers
  BY DEF MainFlush, Running, CoreInv, Callers
<1>2. UNCHANGED <<ReadVars, wrFree, inflightWr, wrLanded, within>> /\ IoKept /\ rdAt' = rdAt
  BY DEF MainFlush, ReadVars, nwVars, IoKept
<1> DEFINE g == FlushFrame("fast")
<1>3. Call_("flushed", g) /\ FrameOK(g) /\ g.k = "flush" /\ ~IsHolder(g) /\ g.list = "fast"
  BY DEF MainFlush, FlushFrame, FrameOK, IsHolder, Waiting, Writers
<1> HIDE DEF g
<1>4. PICK f : /\ Pushes(stack, stack', f, g) /\ Same(f, top) /\ f.at = "flushed"
               /\ Len(stack) = 1 /\ top = stack[1] /\ f.k = "main"
               /\ Len(stack') = 2 /\ DOMAIN stack' = 1 .. 2 /\ stack'[1] = f /\ stack'[2] = g
  BY <1>1, <1>3, MainCalls
<1>5. CoreInv'
  BY <1>1, <1>2, <1>3, <1>4, CallCore DEF IoKept
<1>6. PhaseOK' /\ ~flushed'
  <2>1. ~flushed /\ Quiet
    BY <1>1, <1>4 DEF PhaseOK
  <2>2. \A i \in DOMAIN stack' : stack'[i].k \notin {"receiver", "write"}
    BY <1>3, <1>4
  <2>3. Quiet'
    BY <1>2, <2>1, <2>2 DEF Quiet
  <2> QED
    BY <1>2, <1>3, <1>4, <2>1, <2>2, <2>3 DEF PhaseOK, IoKept
<1> QED
  BY <1>5, <1>6, Finish

LEMMA MainFlushedStep ==
    ASSUME NodeWritersInv, MainFlushed
    PROVE  NodeWritersInv'
<1> USE DEF NodeWritersInv
<1>1. top.k = "main" /\ top.at = "flushed" /\ StackOK /\ top.k # "pending" /\ top.k # "write"
      /\ within \in Int /\ wrFree \in Int /\ inflightWr \in Int
  BY DEF MainFlushed, Running, CoreInv, NumbersOK
<1>2. /\ UNCHANGED <<ReadVars, wrFree, inflightWr, wrLanded, within>>
      /\ writer' = writer /\ nodeAt' = nodeAt /\ nodes' = nodes
  BY DEF MainFlushed, ReadVars
<1>3. PICK f : Tops(stack, stack', f) /\ Same(f, top) /\ f.at = "end"
  BY <1>1, GoesTo DEF MainFlushed
<1>4. f.k = "main" /\ FrameOK(f)
  BY <1>1, <1>3 DEF Same
<1>5. Len(stack) = 1 /\ top = stack[1]
  BY <1>1, MainTop
<1>6. Len(stack') = 1 /\ DOMAIN stack' = 1 .. 1 /\ stack'[1] = f
  BY <1>3, <1>5, StackBasics DEF Tops
<1>7. ReadRole(f, top) /\ (\A q : LandedOf(f, q) <=> LandedOf(top, q))
      /\ ~InCompletions(f) /\ ~InCompletions(top)
  BY <1>1, <1>4, PlainCallFrames
<1>8. Plain /\ within' = within /\ wrFree' = wrFree /\ inflightWr' = inflightWr
  BY <1>1, <1>2 DEF Plain
<1>9. ~IsHolder(f) /\ ~IsHolder(top)
  BY <1>1, <1>4 DEF IsHolder
<1>10. CoreInv'
  BY <1>1, <1>2, <1>3, <1>4, <1>7, <1>8, <1>9, CoreTops DEF Bit
<1>11. inflightWr = 0 /\ Emptied("fast") /\ Emptied("slow") /\ DOMAIN writer = Writers
  BY <1>1, <1>5 DEF PhaseOK
<1>12. PhaseOK'
  BY <1>2, <1>3, <1>6, <1>11 DEF PhaseOK
<1>13. \A m \in 1 .. nodes : \E i \in DOMAIN nodeAt : nodeAt[i].n = m
  <2>1. \A i \in DOMAIN stack : stack[i].k # "write"
    BY <1>1, <1>5 DEF PhaseOK
  <2> QED
    BY <2>1 DEF CoreInv, NodesKept
<1>14. FlushedIsDurable'
  BY <1>2, <1>8, <1>11, <1>13 DEF FlushedIsDurable, Emptied, Writers
<1> QED
  BY <1>10, <1>12, <1>14

----------------------------------------------------------------------------
(***************************************************************************)
(* The invariant is inductive.                                             *)
(***************************************************************************)
LEMMA OneFrame ==
    ASSUME NEW b
    PROVE  IsSeq(<<b>>) /\ Len(<<b>>) = 1 /\ DOMAIN <<b>> = {1} /\ <<b>>[1] = b
<1>1. <<b>> \in Seq({b})
  OBVIOUS
<1>2. IsSeq(<<b>>)
  BY <1>1, SeqIsSeq
<1> QED
  BY <1>2

LEMMA InitInv ==
    ASSUME NodeWritersInit
    PROVE  NodeWritersInv
<1> DEFINE b == [k |-> "main", at |-> "run"]
<1>1. stack = <<b>> /\ b.k = "main" /\ b.at = "run" /\ FrameOK(b)
  BY DEF NodeWritersInit, AsyncIOInit, FrameOK
<1> HIDE DEF b
<1>2. /\ ioMode \in IoModes /\ rdAt = [r \in Reads |-> "none"] /\ rdBuf = {}
      /\ inflightWr = WriteBufs - 2 /\ rdFree = ioMode.bufs /\ wrFree = 0
      /\ rdPending = <<>> /\ wrLanded = 0 /\ deferred = <<>> /\ within = 0
  BY DEF NodeWritersInit, AsyncIOInit
<1>3. nodeAt = <<>> /\ nodes = 0 /\ flushed = FALSE /\ DOMAIN writer = Writers
  BY DEF NodeWritersInit
<1>4. IsSeq(stack) /\ Len(stack) = 1 /\ DOMAIN stack = {1} /\ stack[1] = b
  BY <1>1, OneFrame
<1>5. StackOK
  BY <1>1, <1>4 DEF StackOK
<1>6. WriteBufs \in Nat /\ WriteBufs >= 2 /\ ioMode.bufs \in Nat
  BY <1>2, AsyncIOAssumption, NodeWritersAssumption
<1>7. ReadInv
  <2>1. GetBufsOK /\ InitsOK /\ TodosOK
    BY <1>1, <1>4 DEF GetBufsOK, InitsOK, TodosOK, Todo
  <2>2. QueuesOK
    BY <1>2 DEF QueuesOK, ReadStates
  <2>3. ReadsKept
    BY <1>2 DEF ReadsKept
  <2>4. ReadBuffersConserved
    <3>1. Cardinality(rdBuf) = 0
      BY <1>2, FS_EmptySet
    <3> QED
      BY <1>2, <1>6, <3>1 DEF ReadBuffersConserved
  <2> QED
    BY <2>1, <2>2, <2>3, <2>4 DEF ReadInv
<1>8. NumbersOK
  BY <1>2, <1>6 DEF NumbersOK
<1>9. WriteBuffersConserved
  <2>1. Holders = {}
    BY <1>1, <1>4 DEF Holders
  <2>2. Cardinality(Holders) = 0
    BY <2>1, FS_EmptySet
  <2> QED
    BY <1>2, <1>6, <2>2, Buffers
<1>10. WithinOK
  <2>1. Completing = {}
    BY <1>1, <1>4 DEF Completing, InCompletions
  <2> QED
    BY <1>2, <2>1, FS_EmptySet DEF WithinOK
<1>11. LandedOK
  <2>1. LandedWrites = {}
    BY <1>1, <1>4 DEF LandedWrites, LandedOn
  <2> QED
    BY <1>2, <1>6, <2>1, FS_EmptySet DEF LandedOK
<1>12. NodesKept
  <2>1. IsSeq(nodeAt)
    BY <1>3 DEF IsSeq
  <2> QED
    BY <1>3, <2>1 DEF NodesKept
<1>13. PhaseOK /\ FlushedIsDurable
  BY <1>1, <1>3, <1>4 DEF PhaseOK, FlushedIsDurable
<1> QED
  BY <1>5, <1>7, <1>8, <1>9, <1>10, <1>11, <1>12, <1>13 DEF NodeWritersInv, CoreInv

LEMMA IoStep ==
    ASSUME NodeWritersInv, IoQuiet \/ Complete_, UNCHANGED nwVars
    PROVE  NodeWritersInv'
<1>1. CASE Defer
  BY <1>1, DeferStep
<1>2. CASE NeedBuffer
  BY <1>2, NeedBufferStep
<1>3. CASE CheckLimit
  BY <1>3, CheckLimitStep
<1>4. CASE MakeRoom
  BY <1>4, MakeRoomStep
<1>5. CASE Submit
  BY <1>5, SubmitStep
<1>6. CASE InitiatePending
  BY <1>6, InitiatePendingStep
<1>7. CASE PollEnter
  BY <1>7, PollEnterStep
<1>8. CASE PollGetNone
  BY <1>8, PollGetNoneStep
<1>9. CASE ProcessWrite
  BY <1>9, ProcessWriteStep
<1>10. CASE ProcessRetry
  BY <1>10, ProcessRetryStep
<1>11. CASE ProcessRead
  BY <1>11, ProcessReadStep
<1>12. CASE PollExit
  BY <1>12, PollExitStep
<1>13. CASE GetBufEnter
  BY <1>13, GetBufEnterStep
<1>14. CASE GetBufPoll
  BY <1>14, GetBufPollStep
<1>15. CASE GetBufAlloc
  BY <1>15, GetBufAllocStep
<1>16. CASE WaitCheck
  BY <1>16, WaitCheckStep
<1>17. CASE WaitMore
  BY <1>17, WaitMoreStep
<1>18. CASE Complete_
  BY <1>18, PollGetStep DEF Complete_
<1> QED
  BY <1>1, <1>2, <1>3, <1>4, <1>5, <1>6, <1>7, <1>8, <1>9, <1>10, <1>11, <1>12, <1>13, <1>14,
     <1>15, <1>16, <1>17, <1>18 DEF IoQuiet

LEMMA WritersStep ==
    ASSUME NodeWritersInv, WriteStep
    PROVE  NodeWritersInv'
BY WritePollStep, WriteFitsStep, WriteNewChunkStep, WriteNewChunkReadyStep, WriteSplitStep,
   WriteSplitReadyStep, WriteRestStep, WriteNextStep, FlushBeginStep, FlushReadyStep DEF WriteStep

LEMMA UsersStep ==
    ASSUME NodeWritersInv, UserStep
    PROVE  NodeWritersInv'
<1>1. ASSUME NEW at, CallerAt(at), NEW r \in Reads, BeginRead(r, at) PROVE NodeWritersInv'
  BY <1>1, BeginReadStep
<1>2. ASSUME NEW at, CallerAt(at), NEW l \in Writers, NEW s \in Sizes, BeginWrite(l, s, at)
      PROVE  NodeWritersInv'
  BY <1>2, BeginWriteStep
<1>3. Running("main", "run") => CallerAt("run")
  BY DEF Running, CallerAt
<1>4. Running("receiver", "run") => CallerAt("end")
  BY DEF Running, CallerAt
<1> QED
  BY <1>1, <1>2, <1>3, <1>4, ReceiverReturnStep DEF UserStep

LEMMA InvStutters ==
    ASSUME NodeWritersInv, UNCHANGED nodeWriterVars
    PROVE  NodeWritersInv'
<1>1. stack' = stack /\ rdAt' = rdAt /\ deferred' = deferred /\ rdPending' = rdPending
      /\ rdBuf' = rdBuf /\ ioMode' = ioMode /\ rdFree' = rdFree /\ wrFree' = wrFree
      /\ inflightWr' = inflightWr /\ wrLanded' = wrLanded /\ within' = within
      /\ nodes' = nodes /\ nodeAt' = nodeAt /\ writer' = writer /\ flushed' = flushed
  BY DEF nodeWriterVars, ioVars, nwVars
<1> USE DEF NodeWritersInv, CoreInv
<1>2. StackOK'
  BY <1>1 DEF StackOK
<1>3. ReadInv'
  BY <1>1 DEF ReadInv, GetBufsOK, GetBufOn, InitsOK, UnderGetBuf, HasBuffer, QueuesOK, TodosOK,
              ReadsKept, InInit, ReadBuffersConserved
<1>4. NumbersOK' /\ WithinOK' /\ LandedOK' /\ NodesKept'
  BY <1>1 DEF NumbersOK, WithinOK, Completing, LandedOK, LandedWrites, NodesKept
<1>5. WriteBuffersConserved'
  BY <1>1 DEF WriteBuffersConserved
<1>6. PhaseOK' /\ FlushedIsDurable'
  BY <1>1 DEF PhaseOK, Quiet, Emptied, FlushedIsDurable
<1> QED
  BY <1>2, <1>3, <1>4, <1>5, <1>6

LEMMA NextInv ==
    ASSUME NodeWritersInv, [NodeWritersNext]_nodeWriterVars
    PROVE  NodeWritersInv'
BY IoStep, WritersStep, UsersStep, MainWaitStep, MainRootStep, MainFlushStep, MainFlushedStep,
   InvStutters DEF NodeWritersNext, AsyncIONext

\* The read buffers and the write buffers are in their pools, in flight, with a read that is
\* on its way, with a writer or with a frame that has just got one: across nested polls,
\* deferred initiations, retries and replacements that are undone (BuffersConserved).
THEOREM BuffersConservedAlways == NodeWritersSpec => []BuffersConserved
<1>1. NodeWritersInit => NodeWritersInv
  BY InitInv
<1>2. NodeWritersInv /\ [NodeWritersNext]_nodeWriterVars => NodeWritersInv'
  BY NextInv
<1>3. NodeWritersInv => BuffersConserved
  BY DEF NodeWritersInv, CoreInv, ReadInv, BuffersConserved
<1> QED
  BY <1>1, <1>2, <1>3, PTL DEF NodeWritersSpec

\* When flush_buffered_writes has returned, no write is in flight, both writers are empty
\* and every node begun has been written, whatever the flush was interrupted by.
THEOREM FlushedIsDurableAlways == NodeWritersSpec => []FlushedIsDurable
<1>1. NodeWritersInit => NodeWritersInv
  BY InitInv
<1>2. NodeWritersInv /\ [NodeWritersNext]_nodeWriterVars => NodeWritersInv'
  BY NextInv
<1>3. NodeWritersInv => FlushedIsDurable
  BY DEF NodeWritersInv
<1> QED
  BY <1>1, <1>2, <1>3, PTL DEF NodeWritersSpec
=============================================================================
