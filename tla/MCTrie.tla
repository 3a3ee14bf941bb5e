------------------------------- MODULE MCTrie -------------------------------
\* Trie for model checking.
EXTENDS Trie

Put(key) == [key |-> key, op |-> "put", next |-> {}]
Del(key) == [key |-> key, op |-> "erase", next |-> {}]

A == <<0, 0, 0>>
B == <<0, 0, 1>>
C == <<0, 1, 1>>
D == <<1, 0, 0>>

MCBatches == {
    {Put(A), Put(B), Put(D)},
    {Put(C), Del(D)},
    {Put(D)},
    {Del(A), Put(C)},
    {[key |-> A, op |-> "put", next |-> {Put(<<0>>), Put(<<1>>)}]},
    {[key |-> A, op |-> "nest", next |-> {Del(<<0>>)}], Put(D)},
    {[key |-> A, op |-> "new", next |-> {Put(<<1>>)}], Del(D)} }

MCCopies == {<<A, C>>, <<A, D>>}
MCFindKeys == {B}
MCDatabases == {[onDisk |-> TRUE, canFast |-> TRUE, autoExpire |-> FALSE],
                [onDisk |-> TRUE, canFast |-> TRUE, autoExpire |-> TRUE],
                [onDisk |-> FALSE, canFast |-> TRUE, autoExpire |-> FALSE]}
=============================================================================
