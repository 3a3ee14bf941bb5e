---------------------------- MODULE RootOffsets ----------------------------
(***************************************************************************)
(* The ring of root offsets kept in the database metadata                  *)
(* (root_offsets_delegator in trie.hpp).  Version v has its root's offset  *)
(* in slot v & (capacity - 1).  The operators take a record b with at      *)
(* least the fields lb (version_lower_bound_), next (next_version_) and    *)
(* slots, and return the record after the C++ member function ran.         *)
(***************************************************************************)
EXTENDS Integers

CONSTANTS Cap,                \* capacity of the ring, a power of two
          INVALID_BLOCK_NUM,  \* uint64_t(-1): the version before version 0
          INVALID_OFFSET      \* the offset of no node

ASSUME CapAssumption == Cap \in Nat \ {0}

\* uint64_t(-1) has all bits set, and lies beyond every version in use.
ASSUME InvalidBlockNumAssumption ==
    /\ INVALID_BLOCK_NUM \in Nat
    /\ INVALID_BLOCK_NUM % Cap = Cap - 1

Slots == 0 .. Cap - 1

\* i & (size - 1)
SlotOf(i) == i % Cap

At(b, i) == b.slots[SlotOf(i)]

\* next_version_ - 1 on 64 bits: an empty ring has max_version INVALID_BLOCK_NUM.
MaxVersion(b) == IF b.next = 0 THEN INVALID_BLOCK_NUM ELSE b.next - 1

\* The loop of update_version_lower_bound_: the first version from idx on with
\* a root, and never past the maximum version.
FirstValidFrom(b, idx) ==
    IF idx >= MaxVersion(b) THEN idx
    ELSE CHOOSE i \in idx .. MaxVersion(b) :
           /\ i = MaxVersion(b) \/ At(b, i) # INVALID_OFFSET
           /\ \A j \in idx .. i - 1 : At(b, j) = INVALID_OFFSET

\* Mutant of UpdateLowerBound: the lower bound is never moved.
UpdateLowerBoundNever(b, low) == b

\* update_version_lower_bound_(low)
UpdateLowerBound(b, low) ==
    IF b.next = 0 THEN b
    ELSE [b EXCEPT !.lb = FirstValidFrom(b, IF low < b.lb THEN low ELSE b.lb)]

\* Mutant of Push: the root goes to the slot before its own.
PushOffByOne(b, o) ==
    UpdateLowerBound([b EXCEPT !.slots = [@ EXCEPT ![SlotOf(b.next - 1)] = o],
                               !.next = b.next + 1],
                     INVALID_BLOCK_NUM)

\* push(o)
Push(b, o) ==
    LET pushed == [b EXCEPT !.slots = [@ EXCEPT ![SlotOf(b.next)] = o],
                            !.next = b.next + 1]
    IN  IF o = INVALID_OFFSET THEN pushed
        ELSE UpdateLowerBound(pushed, INVALID_BLOCK_NUM)

\* assign(i, o)
Assign(b, i, o) ==
    UpdateLowerBound([b EXCEPT !.slots = [@ EXCEPT ![SlotOf(i)] = o]],
                     IF o = INVALID_OFFSET THEN INVALID_BLOCK_NUM ELSE i)

\* The slots with those of the given versions set to INVALID_OFFSET.
Cleared(slots, versions) ==
    [s \in Slots |-> IF \E v \in versions : SlotOf(v) = s
                     THEN INVALID_OFFSET ELSE slots[s]]

\* reset_all(version)
ResetAll(b, version) ==
    [b EXCEPT !.lb = version, !.next = version,
              !.slots = [s \in Slots |-> INVALID_OFFSET]]

\* rewind_to_version(version).  Each assign of the loop moves the lower bound
\* over invalid slots only, so that one update after the loop does the same.
RewindRing(b, version) ==
    LET erased == UpdateLowerBound(
                    [b EXCEPT !.slots = Cleared(@, version + 1 .. MaxVersion(b))],
                    INVALID_BLOCK_NUM)
    IN  UpdateLowerBound(
          [erased EXCEPT !.lb = IF version < @ THEN version ELSE @,
                         !.next = version + 1],
          INVALID_BLOCK_NUM)

\* fast_forward_next_version forgets the whole ring when the jump is as long
\* as the ring.
ForgetsAll(b, version) == b.next = 0 \/ version - MaxVersion(b) >= Cap

\* The body of fast_forward_next_version on one copy: otherwise it pushes an
\* invalid root for every version that is skipped.
FastForward(b, version) ==
    IF ForgetsAll(b, version) THEN ResetAll(b, version)
    ELSE [b EXCEPT !.slots = Cleared(@, b.next .. version - 1),
                   !.next = version]

=============================================================================
