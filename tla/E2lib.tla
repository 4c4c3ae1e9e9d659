------------------------------- MODULE E2lib -------------------------------
(* Allocation in the ext2 library of the installation tools, tools/e2lib.c: *)
(* bitmaps, free counts and the trees of blocks behind an inode.  The       *)
(* operators take the bitmap as the set of blocks (inodes) that are marked. *)
(* Block b is bit (b - 1) % BlocksPerGroup of group (b - 1) \div            *)
(* BlocksPerGroup, as s_first_data_block is 1; inodes are numbered alike.   *)
EXTENDS Integers, FiniteSets, FiniteSetsExt

CONSTANTS
  NGroups, BlocksPerGroup, InodesPerGroup,
  BitsPerLong,      \* bits of a word of the bitmap, 32 in the code
  InodeSlop,        \* inodes left free in a group, 4 in the code
  NDir,             \* EXT2_NDIR_BLOCKS
  PtrsPerBlk

ASSUME GroupsAssumption ==
  /\ NGroups \in Nat \ {0} /\ BitsPerLong \in Nat \ {0}
  /\ BlocksPerGroup \in Nat \ {0} /\ BlocksPerGroup % BitsPerLong = 0
  /\ InodesPerGroup \in Nat \ {0} /\ InodeSlop \in Nat \ {0}
ASSUME PointersAssumption == NDir \in Nat \ {0} /\ PtrsPerBlk \in Nat \ {0}

Groups == 0 .. NGroups - 1
Blks == 1 .. NGroups * BlocksPerGroup
Inums == 1 .. NGroups * InodesPerGroup

directlim == NDir - 1
ind1lim == PtrsPerBlk + directlim
ind2lim == (PtrsPerBlk * PtrsPerBlk) + directlim

GroupOf(b) == (b - 1) \div BlocksPerGroup
Bit(b) == (b - 1) % BlocksPerGroup

(* Bits 0 .. size - 1 of group g that are not in the bitmap m. *)
ZeroBits(m, g, size) == {k \in 0 .. size - 1 : g * size + k + 1 \notin m}

(* find_first_zero_bit: size if there is none. *)
FirstZeroBit(m, g, size) ==
  IF ZeroBits(m, g, size) = {} THEN size ELSE Min(ZeroBits(m, g, size))

(* The groups in which balloc and ialloc find something.  Bit 0 is refused  *)
(* like a full map, and with it the group.                                  *)
Usable(m, free, least, size) ==
  {g \in Groups : free[g] > least /\ FirstZeroBit(m, g, size) \notin {0, size}}

FirstFree(m, free, least, size) ==
  IF Usable(m, free, least, size) = {} THEN 0
  ELSE LET g == Min(Usable(m, free, least, size))
       IN  g * size + FirstZeroBit(m, g, size) + 1

ext2_balloc(m, free) == FirstFree(m, free, 0, BlocksPerGroup)

(* Mutant: no inodes are left for slop. *)
ext2_iallocAll(m, free) == FirstFree(m, free, 0, InodesPerGroup)

ext2_ialloc(m, free) == FirstFree(m, free, InodeSlop, InodesPerGroup)

longs_per_group == BlocksPerGroup \div BitsPerLong
longs_needed(n) == (n + BitsPerLong - 1) \div BitsPerLong

WordFree(m, g, w) ==
  \A k \in 0 .. BitsPerLong - 1 : g * BlocksPerGroup + w * BitsPerLong + k + 1 \notin m

(* The first words of runs of free words that hold n blocks; a request for  *)
(* none takes the first free word.                                          *)
Runs(m, g, n) ==
  {w \in 0 .. longs_per_group - 1 :
     /\ WordFree(m, g, w)
     /\ w + longs_needed(n) <= longs_per_group
     /\ \A u \in w .. w + longs_needed(n) - 1 : WordFree(m, g, u)}

Roomy(m, free, n) == {g \in Groups : free[g] >= n /\ Runs(m, g, n) # {}}

ext2_contiguous_balloc(m, free, n) ==
  IF Roomy(m, free, n) = {} THEN 0
  ELSE LET g == Min(Roomy(m, free, n))
       IN  g * BlocksPerGroup + Min(Runs(m, g, n)) * BitsPerLong + 1
-----------------------------------------------------------------------------
(* An inode, and the contents of the blocks used as indirect blocks. *)
Offsets == 0 .. PtrsPerBlk - 1
Pointers == [Offsets -> Blks \union {0}]
NoPointers == [k \in Offsets |-> 0]

NoBlocks == [k \in 0 .. NDir - 1 |-> 0]

Inodes == [mode : {"none", "reg", "other"}, links : {0, 1}, size : Nat,
           block : [0 .. NDir - 1 -> Blks \union {0}],
           ind : Blks \union {0}, dind : Blks \union {0}, tind : Blks \union {0}]

Unused == [mode |-> "none", links |-> 0, size |-> 0, block |-> NoBlocks,
           ind |-> 0, dind |-> 0, tind |-> 0]

Under(ptr, b) == {ptr[b][k] : k \in Offsets} \ {0}

(* The blocks ext2_free_indirect frees. *)
ext2_free_indirect(ptr, b, level) ==
  LET below(S) == UNION {Under(ptr, c) : c \in S} IN
  IF b = 0 THEN {}
  ELSE CASE level = 0 -> {b} \union Under(ptr, b)
         [] level = 1 -> {b} \union Under(ptr, b) \union below(Under(ptr, b))
         [] level = 2 -> {b} \union Under(ptr, b) \union below(Under(ptr, b))
                           \union below(below(Under(ptr, b)))

(* The blocks ext2_truncate frees. *)
Blocks(ptr, ip) ==
  ({ip.block[k] : k \in 0 .. NDir - 1} \ {0})
    \union ext2_free_indirect(ptr, ip.ind, 0) \union ext2_free_indirect(ptr, ip.dind, 1)
    \union ext2_free_indirect(ptr, ip.tind, 2)

(* ext2_blkno without allocation. *)
Pointer(ptr, b, k) == IF b = 0 THEN 0 ELSE ptr[b][k]

ext2_blkno(ptr, ip, off) ==
  LET k == off - (ind1lim + 1) IN
  CASE off <= directlim -> ip.block[off]
    [] off > directlim /\ off <= ind1lim -> Pointer(ptr, ip.ind, off - (directlim + 1))
    [] off > ind1lim /\ off <= ind2lim ->
         Pointer(ptr, Pointer(ptr, ip.dind, k \div PtrsPerBlk), k % PtrsPerBlk)
    [] off > ind2lim -> 0

(* Where ext2_iget and ext2_iput look for an inode: the group is that of    *)
(* ino, not of ino - 1.  Inode 0 is taken for the last one of group 0.      *)
Place(ino) == << ino \div InodesPerGroup, (ino - 1) % InodesPerGroup >>

Places == Groups \X (0 .. InodesPerGroup - 1)

(* Where the inode is, by the way the bitmaps are numbered. *)
Home(ino) == << (ino - 1) \div InodesPerGroup, (ino - 1) % InodesPerGroup >>
=============================================================================
