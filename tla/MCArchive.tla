------------------------------ MODULE MCArchive ------------------------------
(***************************************************************************)
(* Archive with databases whose lists have one or two chunks, in another   *)
(* order than that of their ids and with insertion counts up to the last,  *)
(* and whose last chunks are new or part full; and with pools to restore   *)
(* into that are as large, larger, or have too few chunks of either type.  *)
(***************************************************************************)
EXTENDS Archive

MCLists == {<<<<2>>, <<0>>>>, <<<<3, 0>>, <<1>>>>, <<<<1>>, <<3, 2>>>>, <<<<2, 0>>, <<3, 1>>>>}

MCSources ==
    {[fast |-> lists[1], slow |-> lists[2], base |-> [fast |-> 6, slow |-> 0],
      size |-> [c \in 0 .. 3 |-> CASE c = Last(lists[1]) -> m [] c = Last(lists[2]) -> n [] OTHER -> 2],
      front |-> front, lower |-> 4, next |-> 6] :
        lists \in MCLists, m \in 0 .. 1, n \in 0 .. 1, front \in {"clean", "wiped"}}

MCDestinations == {[seq |-> 4, cnv |-> 3, cap |-> 2], [seq |-> 5, cnv |-> 4, cap |-> 4],
                   [seq |-> 3, cnv |-> 3, cap |-> 2], [seq |-> 4, cnv |-> 2, cap |-> 2]}
=============================================================================
