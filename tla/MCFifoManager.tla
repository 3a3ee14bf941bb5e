--------------------------- MODULE MCFifoManager ---------------------------
(***************************************************************************)
(* FifoManager for TLC.                                                    *)
(***************************************************************************)
EXTENDS FifoManager
=============================================================================
