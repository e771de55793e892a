------------------------------ MODULE MCStorage ------------------------------
(***************************************************************************)
(* Two parts of the storage package for TLC, each in behaviours of its    *)
(* own (the other stays at an initial state): the cache of a chunk with   *)
(* three operations and up to two units, and a multipart upload of three  *)
(* parts by two goroutines.                                               *)
(***************************************************************************)
EXTENDS ChunkCache, Multipart, TLC

VARIABLE part

storageVars == <<part, vars, uploadVars>>

AtFirst == file = "chunk" /\ length = 1 /\ remote = "absent"

StorageInit ==
    /\ Init /\ MultipartInit
    /\ part \in {"cache", "upload"} /\ (part # "cache" => AtFirst)

\* Bound: once something other than a whole chunk may be cached, no operation begins.
Settles == partial \/ torn => \A w \in Nodes : op[w].pc = "idle" => UNCHANGED op[w]

StorageNext ==
    \/ part = "cache" /\ Next /\ Settles /\ UNCHANGED <<part, uploadVars>>
    \/ part = "upload" /\ MultipartNext /\ UNCHANGED <<part, vars>>

StorageSpec == StorageInit /\ [][StorageNext]_storageVars

Symmetry == Permutations(Nodes)
=============================================================================
