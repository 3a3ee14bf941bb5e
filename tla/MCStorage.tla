------------------------------ MODULE MCStorage ------------------------------
(***************************************************************************)
(* What the trie stands on, side by side: the finds that read chunks while *)
(* they are reused, the node writers over AsyncIO, and the storage pool.   *)
(* They share no state, so a behaviour is one of a single part while the   *)
(* others rest in an initial state.                                        *)
(***************************************************************************)
EXTENDS Readers, NodeWriters, StoragePool

VARIABLE part           \* the part that runs

MCIoModes ==
    {[segregated |-> TRUE, eager |-> FALSE, limit |-> 1, bufs |-> 2, long |-> {}, retries |-> 1],
     [segregated |-> FALSE, eager |-> FALSE, limit |-> 0, bufs |-> 1, long |-> {2}, retries |-> 0],
     [segregated |-> FALSE, eager |-> TRUE, limit |-> 0, bufs |-> 1, long |-> {}, retries |-> 0]}

MCKinds == <<"block", "file">>
MCSizes == <<11, 9>>
MCFlags == {[cap |-> 4, cnv |-> 1, interleave |-> FALSE], [cap |-> 2, cnv |-> 1, interleave |-> TRUE]}

storageVars == <<part, readersVars, nodeWriterVars, poolVars>>

StorageInit ==
    /\ part \in {"readers", "writers", "pool"}
    /\ ReadersInit /\ NodeWritersInit /\ StoragePoolInit
    /\ part # "readers" => protocol = CHOOSE p \in Protocols : TRUE
    /\ part # "writers" => ioMode = CHOOSE mode \in IoModes : TRUE

ReadersRun == part = "readers" /\ UNCHANGED <<part, nodeWriterVars, poolVars>>
WritersRun == part = "writers" /\ UNCHANGED <<part, readersVars, poolVars>>
PoolRuns == part = "pool" /\ UNCHANGED <<part, readersVars, nodeWriterVars>>

StorageNext ==
    \/ ReadersRun /\ ReadersNext
    \/ WritersRun /\ NodeWritersNext
    \/ PoolRuns /\ StoragePoolNext

\* The fairness of ReadersSpec and NodeWritersSpec, for the part that runs
StorageFair ==
    /\ WF_readersVars(ReadersRun /\ ReaderStep) /\ WF_readersVars(ReadersRun /\ DeviceRead)
    /\ WF_nodeWriterVars(WritersRun /\ NodeWritersNext)
    /\ SF_nodeWriterVars(WritersRun /\ Complete_ /\ UNCHANGED nwVars)

StorageSpec == StorageInit /\ [][StorageNext]_storageVars /\ StorageFair
=============================================================================
