----------------------------- MODULE SectionMath -----------------------------
(***************************************************************************)
(* The arithmetic that cuts a file into blocks and sections, shared by the *)
(* central sender, the proxy and the receivers (src/include/protocol.hpp). *)
(* A block number is 0 .. total-1; section s holds the blocks              *)
(* s*limit .. s*limit+limit-1 that exist.  The code computes with          *)
(* std::uint32_t: every sum and product wraps at Word = 2^32.              *)
(***************************************************************************)
EXTENDS Integers

CONSTANT Word   \* 2^w for the w-bit unsigned integers of the code

ASSUME WordAssumption == Word \in Nat /\ Word > 1

U32(n) == n % Word

SectionIdForBlock(block, limit) == block \div limit

SectionFirstBlock(section, limit) == U32(section * limit)

SectionCountForBlocks(total, limit) ==
    IF total = 0 THEN 0 ELSE U32(total + limit - 1) \div limit

\* section_block_count throws "section_id out of range" when this is false.
SectionInRange(total, section, limit) ==
    SectionFirstBlock(section, limit) < total

SectionBlockCount(total, section, limit) ==
    LET left == total - SectionFirstBlock(section, limit)
    IN  IF limit < left THEN limit ELSE left

\* The blocks a loop over local_block visits: first_block + local_block.
SectionBlocks(total, section, limit) ==
    LET first == SectionFirstBlock(section, limit)
    IN  first .. first + SectionBlockCount(total, section, limit) - 1
==============================================================================
