-------------------------- MODULE SectionMath_proof ---------------------------
(***************************************************************************)
(* Theorems about SectionMath: as long as the rounding up of the section   *)
(* count does not wrap around, the sections cut a file into its blocks,    *)
(* for every number of blocks, section size and width of the integers.     *)
(***************************************************************************)
EXTENDS SectionMath, TLAPS

\* The rounding up of the section count does not wrap around.
NoWrap(total, limit) == total + limit - 1 < Word

\* Division with remainder.
LEMMA DivMod ==
    ASSUME NEW n \in Nat, NEW d \in Nat, d > 0
    PROVE  /\ n \div d \in Nat /\ n % d \in 0 .. d - 1
           /\ n = d * (n \div d) + (n % d)
  BY SMT

\* The quotient is the only number of whole d that fit into n.
LEMMA DivUnique ==
    ASSUME NEW n \in Nat, NEW d \in Nat, d > 0, NEW q \in Nat,
           q * d <= n, n < q * d + d
    PROVE  n \div d = q
  BY DivMod, SMT

\* Word operations that do not overflow are those of the integers.
LEMMA NoOverflow ==
    ASSUME NEW n \in Nat, n < Word
    PROVE  U32(n) = n
<1>1. Word \in Nat /\ Word > 0
  BY WordAssumption
<1>2. (n % Word) \in 0 .. Word - 1 /\ n = Word * (n \div Word) + (n % Word) /\ n \div Word \in Nat
  BY <1>1, DivMod
<1>3. n \div Word = 0
  BY <1>1, DivUnique
<1> QED
  BY <1>1, <1>2, <1>3 DEF U32

\* The count is the number of sections that begin inside the file.
LEMMA CountBounds ==
    ASSUME NEW total \in Nat, NEW limit \in Nat \ {0}, NoWrap(total, limit)
    PROVE  LET count == SectionCountForBlocks(total, limit)
           IN  /\ count \in Nat
               /\ total <= count * limit
               /\ count * limit < total + limit
<1> DEFINE count == SectionCountForBlocks(total, limit)
<1>1. CASE total = 0
  BY <1>1 DEF SectionCountForBlocks
<1>2. CASE total > 0
  <2> DEFINE n == total + limit - 1
  <2>1. n \in Nat /\ U32(n) = n
    BY <1>2, NoOverflow DEF NoWrap
  <2>2. count = n \div limit
    BY <1>2, <2>1 DEF SectionCountForBlocks
  <2>3. /\ n \div limit \in Nat /\ n % limit \in 0 .. limit - 1
        /\ n = limit * (n \div limit) + (n % limit)
    BY <2>1, DivMod
  <2> HIDE DEF n
  <2>4. count \in Nat /\ limit * count = n - (n % limit)
    BY <2>1, <2>2, <2>3
  <2>5. count * limit = limit * count
    BY <2>4
  <2> QED
    BY <2>1, <2>3, <2>4, <2>5 DEF n
<1> QED
  BY <1>1, <1>2

\* A section below the count begins inside the file, and its first block does
\* not wrap around.
LEMMA FirstBlock ==
    ASSUME NEW total \in Nat, NEW limit \in Nat \ {0}, NoWrap(total, limit),
           NEW s \in Nat, s < SectionCountForBlocks(total, limit)
    PROVE  SectionFirstBlock(s, limit) = s * limit /\ s * limit \in Nat /\ s * limit < total
<1> DEFINE count == SectionCountForBlocks(total, limit)
<1>1. count \in Nat /\ count * limit < total + limit
  BY CountBounds
<1> HIDE DEF count
<1>2. s + 1 <= count
  BY <1>1 DEF count
<1>3. (s + 1) * limit <= count * limit
  BY <1>1, <1>2
<1>4. (s + 1) * limit = s * limit + limit /\ s * limit \in Nat
  OBVIOUS
<1>5. s * limit < total
  BY <1>1, <1>3, <1>4
<1>6. total < Word
  BY WordAssumption DEF NoWrap
<1> QED
  BY <1>4, <1>5, <1>6, NoOverflow, WordAssumption DEF SectionFirstBlock

\* No section throws "section_id out of range" (section_block_count): the loops
\* over the sections of the central sender and of the proxy never stop early.
THEOREM NoSectionOutOfRange ==
    ASSUME NEW total \in Nat, NEW limit \in Nat \ {0}, NoWrap(total, limit),
           NEW s \in Nat, s < SectionCountForBlocks(total, limit)
    PROVE  SectionInRange(total, s, limit)
  BY FirstBlock DEF SectionInRange

\* The blocks that are sent in a section are blocks of the file, and the section
\* they are sent in is the one a receiver computes for them (it rejects the DATA
\* otherwise).  Hence no block is sent in two sections.
THEOREM SectionsAgree ==
    ASSUME NEW total \in Nat, NEW limit \in Nat \ {0}, NoWrap(total, limit),
           NEW s \in Nat, s < SectionCountForBlocks(total, limit),
           NEW b \in SectionBlocks(total, s, limit)
    PROVE  b \in 0 .. total - 1 /\ SectionIdForBlock(b, limit) = s
<1>1. SectionFirstBlock(s, limit) = s * limit /\ s * limit \in Nat /\ s * limit < total
  BY FirstBlock
<1>2. b \in Nat /\ s * limit <= b /\ b < s * limit + limit /\ b < total
  BY <1>1 DEF SectionBlocks, SectionBlockCount
<1> QED
  BY <1>2, DivUnique DEF SectionIdForBlock

\* Every block of the file is sent, in the section the receiver expects it in:
\* no block is left out by the rounding, nor by the short last section.
THEOREM EveryBlockIsSent ==
    ASSUME NEW total \in Nat, NEW limit \in Nat \ {0}, NoWrap(total, limit),
           NEW b \in 0 .. total - 1
    PROVE  LET s == SectionIdForBlock(b, limit)
           IN  s \in Nat /\ s < SectionCountForBlocks(total, limit)
               /\ b \in SectionBlocks(total, s, limit)
<1> DEFINE s == SectionIdForBlock(b, limit)
           count == SectionCountForBlocks(total, limit)
<1>1. /\ s \in Nat /\ b % limit \in 0 .. limit - 1
      /\ b = limit * s + (b % limit)
  BY DivMod DEF SectionIdForBlock
<1>2. count \in Nat /\ total <= count * limit
  BY CountBounds
<1> HIDE DEF s, count
<1>3. s * limit <= b /\ b < s * limit + limit
  BY <1>1
<1>4. s < count
  <2>1. SUFFICES ASSUME s >= count PROVE FALSE
    BY <1>1, <1>2
  <2>2. count * limit <= s * limit
    BY <1>1, <1>2, <2>1
  <2> QED
    BY <1>1, <1>2, <1>3, <2>2
<1>5. SectionFirstBlock(s, limit) = s * limit /\ s * limit \in Nat
  BY <1>1, <1>4, FirstBlock DEF count
<1>6. b \in SectionBlocks(total, s, limit)
  BY <1>3, <1>5 DEF SectionBlocks, SectionBlockCount
<1> QED
  BY <1>1, <1>4, <1>6 DEF s, count
==============================================================================
