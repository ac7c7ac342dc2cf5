----------------------------- MODULE MemoryCheck -----------------------------
(***************************************************************************)
(* The magic blocks (TMemoryCheck.hpp) every allocation is sandwiched      *)
(* between in builds with TKLB_MEMORY_CHECK.  A block has three fields, in *)
(* the order they have in memory: the size of the allocation, the magic    *)
(* string and whether it is the first block.                               *)
(***************************************************************************)
EXTENDS Integers

MAGIC_STRING_START == "startblockstri"
MAGIC_STRING_END == "endblockstring"

\* The flag is a byte: all but 0 read as true.
MagicBlock(bytes, start) ==
    [size |-> bytes, 
     magic |-> IF start = 1 THEN MAGIC_STRING_START ELSE MAGIC_STRING_END,
     start |-> start]

construct(bytes) == [first |-> MagicBlock(bytes, 1), last |-> MagicBlock(bytes, 0)]

\* A block that says it is the first must have the first one's string.
checkMagicString(block) ==
    block.magic = IF block.start # 0 THEN MAGIC_STRING_START ELSE MAGIC_STRING_END

\* Defect: the sizes are not compared.
CheckNoSize(blocks, bytes) ==
    LET underrun == ~checkMagicString(blocks.first)
    IN  [underrun |-> underrun,
         overrun |-> underrun \/ ~checkMagicString(blocks.last)]

\* check() of an allocation of this many bytes.  The last block is looked for
\* where the first says that it is, and only if the first is intact; nothing
\* else in memory spells the string of one.
check(blocks, bytes) ==
    LET underrun == ~checkMagicString(blocks.first)
    IN  [underrun |-> underrun,
         overrun |-> \/ underrun
                     \/ blocks.first.size # bytes
                     \/ ~checkMagicString(blocks.last)
                     \/ blocks.first.size # blocks.last.size]

Corrupt(blocks, bytes) ==
    check(blocks, bytes).underrun \/ check(blocks, bytes).overrun
=============================================================================
