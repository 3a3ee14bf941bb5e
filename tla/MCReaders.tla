------------------------------ MODULE MCReaders -----------------------------
\* Readers for model checking.
EXTENDS Readers
=============================================================================
