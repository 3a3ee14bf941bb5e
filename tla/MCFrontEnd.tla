----------------------------- MODULE MCFrontEnd ------------------------------
(***************************************************************************)
(* What a program or an operator that uses the database meets, side by     *)
(* side: the asynchronous channel of the Rust binding, the worker thread   *)
(* of Db with its queue and promises, the numbers of 256 bits, the tool    *)
(* that archives and restores, and the synchronous interfaces.  They share *)
(* no state, so a behaviour is one of a single part while the others rest  *)
(* in an initial state.                                                    *)
(***************************************************************************)
EXTENDS FifoManager, DbWorker, UintCheck, MCArchive, MCNomadDb

VARIABLE part           \* the part that runs

Words(a, b, c, d) == [i \in 0 .. 3 |-> CASE i = 0 -> a [] i = 1 -> b [] i = 2 -> c [] i = 3 -> d]
MCModuli == {Words(a, b, b, c) : a \in {0, 3}, b \in {0, 2}, c \in {0, 1, 3}}
\* Among them 10 times which is just below and just above 2^24
MCWideNumbers == [0 .. 3 -> {0, 1, 32, 63}] \cup {Words(n, 0, 0, 0) : n \in 2 .. 3}
                     \cup {Words(n, 38, 25, 6) : n \in 25 .. 26}
MCWideCounts == {Words(n, 0, 0, 0) : n \in 0 .. 25} \cup {[i \in 0 .. 3 |-> IF i = k THEN 1 ELSE 0] : k \in 1 .. 3}
                    \cup {Words(63, 63, 63, 63)}

frontVars == <<part, fifoVars, vars, uintVars, archiveVars, nomadVars>>

FrontEndInit ==
    /\ part \in {"fifo", "worker", "uint", "archive", "nomad"}
    /\ FifoInit /\ Init /\ UintInit /\ ArchiveInit /\ NomadInit
    /\ part # "uint" => operands = <<2>>
    /\ part # "archive" => src = CHOOSE db \in Sources : TRUE
    /\ part # "nomad" => file \in MCNoFile /\ binding = "c"

FifoRuns == part = "fifo" /\ UNCHANGED <<part, vars, uintVars, archiveVars, nomadVars>>
WorkerRuns == part = "worker" /\ UNCHANGED <<part, fifoVars, uintVars, archiveVars, nomadVars>>
UintRuns == part = "uint" /\ UNCHANGED <<part, fifoVars, vars, archiveVars, nomadVars>>
NomadRuns == part = "nomad" /\ UNCHANGED <<part, fifoVars, vars, uintVars, archiveVars>>
ArchiveRuns == part = "archive" /\ UNCHANGED <<part, fifoVars, vars, uintVars, nomadVars>>

FrontEndNext ==
    \/ FifoRuns /\ FifoNext
    \/ WorkerRuns /\ Next
    \/ UintRuns /\ UintNext
    \/ ArchiveRuns /\ ArchiveNext
    \/ NomadRuns /\ NomadNext

\* The fairness of FifoFairSpec, FairSpec and ArchiveSpec, for the part that runs
FrontEndFair ==
    /\ WF_fifoVars(FifoRuns /\ Stopping) /\ \A f \in Fibers : WF_fifoVars(FifoRuns /\ Worker(f))
    /\ WF_vars(WorkerRuns /\ WorkerStep) /\ WF_vars(WorkerRuns /\ OwnerStep)
    /\ \A c \in Clients : WF_vars(WorkerRuns /\ ClientStep(c)) /\ SF_vars(WorkerRuns /\ Read(c))
    /\ WF_archiveVars(ArchiveRuns /\ CliStep)

FrontEndSpec == FrontEndInit /\ [][FrontEndNext]_frontVars /\ FrontEndFair
=============================================================================
