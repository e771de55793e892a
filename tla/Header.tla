------------------------------- MODULE Header --------------------------------
(***************************************************************************)
(* The header of a layered file (packages/shared/pkg/storage/header): the *)
(* list of build maps that says, for every block, in which build's object *)
(* and where in it the block is.  A snapshot gives a diff to a builder    *)
(* (DiffMetadataBuilder), and ToDiffHeader merges what it wrote into the  *)
(* header of the layer below and joins neighbours again.                  *)
(*                                                                         *)
(* Offsets and lengths are in blocks: the code's are multiples of the     *)
(* block size.  Lengths are never 0, so that the merge's two tests for    *)
(* that are left out.  External: the caller, which hands the changed      *)
(* blocks to Process once each and in ascending order and gives up at its *)
(* first error, and the readers.                                          *)
(***************************************************************************)
EXTENDS Integers, Sequences, Functions

CONSTANTS
    Blocks,         \* blocks of the file
    MaxLayers       \* bound: layers on top of the first

ASSUME BlocksAssumption == Blocks \in Nat \ {0}
ASSUME LayersAssumption == MaxLayers \in Nat

BlockSet == 0..(Blocks - 1)
Nil == -1           \* uuid.Nil: a block of zeros

VARIABLES
    mapping,    \* Header.Mapping of the newest layer
    generation, \* its build
    phase,      \* what is under way for the next layer
    next,       \* the builder: the next block that may be handed to Process
    dirty, empty,   \* the builder's bitsets
    objects,    \* for each build, the blocks of its object in the order they were written
    base, diff, \* MergeMappings: what is left of its arguments
    merged,     \* MergeMappings: mappings
    latest      \* history: the build that last wrote each block

headerVars == <<mapping, generation, phase, next, dirty, empty, objects, base, diff, merged,
                latest>>

BuildMap(offset, length, build, storage) ==
    [offset |-> offset, length |-> length, build |-> build, storage |-> storage]

\* NewHeader without mappings: the first build holds the whole file.
HeaderInit ==
    /\ mapping = <<BuildMap(0, Blocks, 0, 0)>> /\ generation = 0
    /\ phase = "idle" /\ next = 0 /\ dirty = {} /\ empty = {}
    /\ objects = [g \in 0..MaxLayers |-> IF g = 0 THEN [i \in 1..Blocks |-> i - 1] ELSE <<>>]
    /\ base = <<>> /\ diff = <<>> /\ merged = <<>>
    /\ latest = [b \in BlockSet |-> 0]
-----------------------------------------------------------------------------
(***************************************************************************)
(* The builder.                                                           *)
(***************************************************************************)
\* Mutant of NewDiffMetadataBuilder: the builder of the layer before is used again.
BuilderReused ==
    /\ phase = "idle" /\ generation < MaxLayers
    /\ phase' = "process" /\ next' = 0
    /\ UNCHANGED <<mapping, generation, dirty, empty, objects, base, diff, merged, latest>>

NewDiffMetadataBuilder ==
    /\ phase = "idle" /\ generation < MaxLayers
    /\ phase' = "process" /\ next' = 0 /\ dirty' = {} /\ empty' = {}
    /\ UNCHANGED <<mapping, generation, objects, base, diff, merged, latest>>

\* Process of a block of zeros only marks it.
ProcessEmpty(b) ==
    /\ phase = "process" /\ b >= next
    /\ empty' = empty \cup {b} /\ next' = b + 1
    /\ latest' = [latest EXCEPT ![b] = Nil]
    /\ UNCHANGED <<mapping, generation, phase, dirty, objects, base, diff, merged>>

\* Process of any other writes it to the build's object.
ProcessDirty(b) ==
    /\ phase = "process" /\ b >= next
    /\ dirty' = dirty \cup {b} /\ next' = b + 1
    /\ objects' = [objects EXCEPT ![generation + 1] = Append(@, b)]
    /\ latest' = [latest EXCEPT ![b] = generation + 1]
    /\ UNCHANGED <<mapping, generation, phase, empty, base, diff, merged>>

\* The write fails or is short, with the block marked: the caller gets an error, and has no
\* header of this build.
ProcessFails(b) ==
    /\ phase = "process" /\ b >= next
    /\ phase' = "failed" /\ dirty' = dirty \cup {b} /\ next' = b + 1
    /\ UNCHANGED <<mapping, generation, empty, objects, base, diff, merged, latest>>

EndOf(m) == m.offset + m.length

\* A step of CreateMapping's loop: the block goes on with the last run, or starts a run at the
\* place in the object where the last one ends (buildStorageOffset).
AddBlock(maps, build, b) ==
    IF maps = <<>> THEN <<BuildMap(b, 1, build, 0)>>
    ELSE LET run == maps[Len(maps)] IN
         IF EndOf(run) = b
         THEN [maps EXCEPT ![Len(maps)] = BuildMap(run.offset, run.length + 1, build, run.storage)]
         ELSE Append(maps, BuildMap(b, 1, build, run.storage + run.length))

\* CreateMapping: a map for each run of marked blocks.
CreateMapping(build, marked) ==
    LET before[n \in 0..Blocks] ==
            IF n = 0 THEN <<>>
            ELSE IF n - 1 \in marked THEN AddBlock(before[n - 1], build, n - 1) ELSE before[n - 1] IN
    before[Blocks]

\* toDiffMapping: the empty blocks are merged into the dirty ones.
ToDiffMapping ==
    /\ phase = "process"
    /\ phase' = "toDiffMapping"
    /\ base' = CreateMapping(generation + 1, dirty) /\ diff' = CreateMapping(Nil, empty)
    /\ merged' = <<>>
    /\ UNCHANGED <<mapping, generation, next, dirty, empty, objects, latest>>
-----------------------------------------------------------------------------
(***************************************************************************)
(* MergeMappings: an action for each case of the loop.                    *)
(***************************************************************************)
\* The part of a map before an offset.
LeftPart(m, upto) == [m EXCEPT !.length = upto - m.offset]

\* Mutant of RightPart: the part keeps the offset in storage of the whole.
RightPartUnshifted(m, from) == [m EXCEPT !.offset = from, !.length = EndOf(m) - from]

\* The part of a map from an offset on.
RightPart(m, from) ==
    BuildMap(from, EndOf(m) - from, m.build, m.storage + from - m.offset)

\* What is left of base once its head is used up to an offset.
BaseFrom(from) ==
    IF from < EndOf(Head(base)) THEN <<RightPart(Head(base), from)>> \o Tail(base) ELSE Tail(base)

B == Head(base)
D == Head(diff)

\* The loop goes on, and changes nothing but the lists.
MergeLoop ==
    /\ phase \in {"toDiffMapping", "merge"} /\ base # <<>> /\ diff # <<>>
    /\ UNCHANGED <<mapping, generation, phase, next, dirty, empty, objects, latest>>

BaseBefore ==
    /\ MergeLoop /\ EndOf(B) <= D.offset
    /\ merged' = Append(merged, B) /\ base' = Tail(base) /\ UNCHANGED diff

DiffBefore ==
    /\ MergeLoop /\ EndOf(D) <= B.offset
    /\ merged' = Append(merged, D) /\ diff' = Tail(diff) /\ UNCHANGED base

Overlap == D.offset < EndOf(B) /\ B.offset < EndOf(D)
Inside(m, n) == n.offset <= m.offset /\ EndOf(m) <= EndOf(n)

BaseInsideDiff ==
    /\ MergeLoop /\ Overlap /\ Inside(B, D)
    /\ base' = Tail(base) /\ UNCHANGED <<diff, merged>>

DiffInsideBase ==
    /\ MergeLoop /\ Overlap /\ ~Inside(B, D) /\ Inside(D, B)
    /\ merged' = merged \o (IF B.offset < D.offset THEN <<LeftPart(B, D.offset)>> ELSE <<>>) \o <<D>>
    /\ base' = BaseFrom(EndOf(D)) /\ diff' = Tail(diff)

DiffOverStart ==
    /\ MergeLoop /\ Overlap /\ ~Inside(B, D) /\ ~Inside(D, B) /\ D.offset < B.offset
    /\ merged' = Append(merged, D)
    /\ base' = BaseFrom(EndOf(D)) /\ diff' = Tail(diff)

DiffOverEnd ==
    /\ MergeLoop /\ Overlap /\ ~Inside(B, D) /\ ~Inside(D, B) /\ B.offset < D.offset
    /\ merged' = Append(merged, LeftPart(B, D.offset))
    /\ base' = Tail(base) /\ UNCHANGED diff

\* One list is used up: the rest of the other is appended.
MergeResult == merged \o base \o diff
MergeDone == base = <<>> \/ diff = <<>>
-----------------------------------------------------------------------------
\* The diff is ready: it is merged into the header below.
MergeDiff ==
    /\ phase = "toDiffMapping" /\ MergeDone
    /\ phase' = "merge" /\ base' = mapping /\ diff' = MergeResult /\ merged' = <<>>
    /\ UNCHANGED <<mapping, generation, next, dirty, empty, objects, latest>>

\* A step of NormalizeMappings' loop: a map of the current one's build adds its length to it,
\* whatever their places in the build's object.
JoinNext(result, m) ==
    IF result # <<>> /\ result[Len(result)].build = m.build
    THEN LET current == result[Len(result)] IN
         [result EXCEPT ![Len(result)] =
             BuildMap(current.offset, current.length + m.length, current.build, current.storage)]
    ELSE Append(result, m)

NormalizeMappings(maps) ==
    LET upTo[i \in 0..Len(maps)] == IF i = 0 THEN <<>> ELSE JoinNext(upTo[i - 1], maps[i]) IN
    upTo[Len(maps)]

\* The rest of ToDiffHeader: NormalizeMappings, NextGeneration, NewHeader.
ToDiffHeader ==
    /\ phase = "merge" /\ MergeDone
    /\ mapping' = NormalizeMappings(MergeResult) /\ generation' = generation + 1
    /\ phase' = "idle" /\ base' = <<>> /\ diff' = <<>> /\ merged' = <<>>
    /\ UNCHANGED <<next, dirty, empty, objects, latest>>
-----------------------------------------------------------------------------
HeaderNext ==
    \/ NewDiffMetadataBuilder \/ ToDiffMapping \/ MergeDiff \/ ToDiffHeader
    \/ \E b \in BlockSet : ProcessEmpty(b) \/ ProcessDirty(b) \/ ProcessFails(b)
    \/ BaseBefore \/ DiffBefore \/ BaseInsideDiff \/ DiffInsideBase \/ DiffOverStart
    \/ DiffOverEnd

HeaderTypeOK ==
    /\ generation \in 0..MaxLayers
    /\ phase \in {"idle", "process", "failed", "toDiffMapping", "merge"} /\ next \in 0..Blocks
    /\ dirty \subseteq BlockSet /\ empty \subseteq BlockSet
    /\ latest \in [BlockSet -> Nil..MaxLayers]
    /\ \A m \in Range(mapping) \cup Range(base) \cup Range(diff) \cup Range(merged) :
           m \in [offset : BlockSet, length : 1..Blocks, build : Nil..MaxLayers,
                  storage : 0..(Blocks - 1)]
-----------------------------------------------------------------------------
\* getMapping: the map with the last start that is not after the block.
MappingOf(b) ==
    CHOOSE m \in Range(mapping) :
        m.offset <= b /\ \A n \in Range(mapping) : n.offset <= b => n.offset <= m.offset

\* GetShiftedMapping: where in the object of its build the block is.
PlaceOf(b) == MappingOf(b).storage + b - MappingOf(b).offset + 1

\* External: what a reader of that answer is given, the block at that place or zeros.
ReadBlock(b) ==
    LET build == MappingOf(b).build IN
    <<build, IF build = Nil THEN b ELSE objects[build][PlaceOf(b)]>>

\* ValidateMappings: the maps follow each other and cover the file.
ValidateMappings ==
    /\ \A i \in DOMAIN mapping :
           mapping[i].offset = IF i = 1 THEN 0 ELSE EndOf(mapping[i - 1])
    /\ EndOf(mapping[Len(mapping)]) = Blocks

\* Through however many layers of dirty and empty blocks, a header that ToDiffHeader returns
\* passes ValidateMappings, and what GetShiftedMapping answers for a block is the build that
\* last wrote it and the place of this very block in that build's object, although
\* NormalizeMappings does not look at places (header.go:64-145, metadata.go:52-106,
\* mapping.go:84-274).
LayersResolve ==
    phase = "idle" =>
        /\ ValidateMappings
        /\ \A b \in BlockSet :
               LET m == MappingOf(b) IN
               /\ m.build = latest[b] /\ b < EndOf(m)
               /\ m.build # Nil => /\ PlaceOf(b) \in DOMAIN objects[m.build]
                                   /\ objects[m.build][PlaceOf(b)] = b
-----------------------------------------------------------------------------
\* Read through its newest header the file is a LayeredFile.
Shown == INSTANCE LayeredFile WITH
    file <- [b \in BlockSet |-> ReadBlock(b)], layer <- generation,
    written <- dirty, cleared <- empty

\* While a layer is built, in however many steps, or its building has failed, a reader finds
\* what the layer below shows; ToDiffHeader's return changes
\* all at once, and exactly the blocks that were handed to Process (header.go:64-145, metadata.go:52-150).
ReadsAreLayered == Shown!FileSpec
=============================================================================
