------------------------------ MODULE MCNomadDb -------------------------------
(* Two keys, a file with three recorded versions or none, of which opening with a history of two *)
(* erases the first, and a few lists of updates.  One leaf has version 0, the other 2.           *)
EXTENDS NomadDb, TLC

MCNoFile == {[there |-> FALSE, at |-> <<>>, stamp |-> <<>>]}
MCFile == [there |-> TRUE,
           at |-> [v \in 0 .. 2 |-> [a |-> "x", b |-> IF v = 2 THEN EmptyValue ELSE NoValue]],
           stamp |-> [v \in 0 .. 2 |-> [a |-> 0, b |-> v]]]
MCFiles == MCNoFile \cup {MCFile}
MCUpdates == {<<>>, [a |-> "y"], [a |-> NoValue, b |-> "x"]}
=============================================================================
