----------------------------- MODULE LayeredFile -----------------------------
(***************************************************************************)
(* What the header of a layered file promises its readers                 *)
(* (packages/shared/pkg/storage/header): a file that shows nothing of the *)
(* blocks that are written and cleared for the next snapshot until the    *)
(* snapshot, one step, that replaces these and leaves the others as they  *)
(* were.  Header implements it.                                           *)
(*                                                                         *)
(* The content of a block is named by the build that wrote it and the     *)
(* block that was written; zeros have the build uuid.Nil.                 *)
(***************************************************************************)
EXTENDS Integers

CONSTANTS
    Blocks,         \* blocks of the file
    MaxLayers       \* bound: layers on top of the first

VARIABLES
    file,       \* for each block, what a read of it returns
    layer,      \* snapshots taken
    written, cleared    \* blocks for the next snapshot

fileVars == <<file, layer, written, cleared>>

FileBlocks == 0..(Blocks - 1)
Zeros == -1

\* The first build wrote the whole file.
FileInit ==
    /\ layer = 0 /\ file = [b \in FileBlocks |-> <<0, b>>]
    /\ written = {} /\ cleared = {}

Begin == written' = {} /\ cleared' = {} /\ UNCHANGED <<file, layer>>

Write(b) ==
    /\ b \notin written \cup cleared /\ written' = written \cup {b}
    /\ UNCHANGED <<file, layer, cleared>>

Clear(b) ==
    /\ b \notin written \cup cleared /\ cleared' = cleared \cup {b}
    /\ UNCHANGED <<file, layer, written>>

Snapshot ==
    /\ layer < MaxLayers /\ layer' = layer + 1
    /\ file' = [b \in FileBlocks |-> IF b \in written THEN <<layer + 1, b>>
                                     ELSE IF b \in cleared THEN <<Zeros, b>> ELSE file[b]]
    /\ UNCHANGED <<written, cleared>>

FileNext == Begin \/ Snapshot \/ \E b \in FileBlocks : Write(b) \/ Clear(b)

FileSpec == FileInit /\ [][FileNext]_fileVars
=============================================================================
