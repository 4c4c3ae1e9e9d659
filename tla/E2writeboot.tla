---------------------------- MODULE E2writeboot ----------------------------
(* e2writeboot run after run on one file system: the bootstrap is installed *)
(* as the file /linuxboot in contiguous blocks, and the boot block tells    *)
(* the console where it is.  tools/e2writeboot.c on tools/e2lib.c.  Blocks  *)
(* are read and written through the cache that Bio models and whose store   *)
(* this module uses directly.                                               *)
EXTENDS E2lib

CONSTANTS
  Copies,           \* blocks reserved for superblocks and descriptors
  Tables,           \* blocks of bitmaps and inode tables
  Layouts,          \* the file systems the tool is run on, see Init
  SectorsPerBlk,    \* blocksize / CONSOLE_BLOCK_SIZE
  NBUFS,            \* buffers of the cache, 32 in the code
  MaxBlks,          \* bound on the size of a bootstrap in blocks
  MaxRuns,          \* bound on the number of runs
  MaxOthers         \* bound on the blocks of other files

Meta == Copies \union Tables

ASSUME MetaAssumption == Copies \subseteq Blks /\ Tables \subseteq Blks /\ Copies \intersect Tables = {}
ASSUME BoundsAssumption ==
  /\ MaxBlks \in Nat /\ MaxRuns \in Nat /\ MaxOthers \in Nat
  /\ SectorsPerBlk \in Nat \ {0} /\ NBUFS \in Nat

(* ext2_close writes the superblock and the descriptors into the first two  *)
(* blocks of every group, whether the group reserves them or not.           *)
SuperBlocks == UNION {{g * BlocksPerGroup + 1, g * BlocksPerGroup + 2} : g \in Groups}

(* Where sparse_super leaves a group without copies they belong to anybody. *)
Stray == SuperBlocks \ Copies

NoEntry == -1

(* The blocks an inode points at. *)
PointedAt(i) == {i.block[k] : k \in 0 .. NDir - 1} \union {i.ind, i.dind, i.tind}

(* A directory of at most one indirect block has its blocks in a row: those *)
(* of its size and none behind it.                                          *)
DirWhole(p, i) ==
  /\ i.dind = 0 /\ i.tind = 0 /\ i.size <= ind1lim + 1
  /\ \A k \in 0 .. ind1lim : (k < i.size) = (ext2_blkno(p, i, k) # 0)

(* The blocks of a layout's file /linuxboot. *)
FileBlocks(l) == IF l.dirent = NoEntry THEN {} ELSE Blocks(l.ptr, l.inode[Place(l.dirent)])

(* A file system e2writeboot is run on is one fsck would pass: inodes and   *)
(* indirect blocks point at blocks that are not metadata, an entry is that  *)
(* of an inode in use, found where ext2_iget looks for it, and no block has *)
(* two owners.  Blocks that are not indirect have no pointers of interest:  *)
(* only what a failed allocation leaves behind makes the tool follow them.  *)
ASSUME LayoutsAssumption ==
  \A l \in Layouts :
    /\ l.others \subseteq Blks /\ l.inodes \subseteq Inums
    /\ l.inode \in [Places -> Inodes] /\ \A p \in Places : PointedAt(l.inode[p]) \intersect Meta = {}
    /\ l.ptr \in [Blks -> Pointers] /\ \A b \in Blks, k \in Offsets : l.ptr[b][k] \notin Meta
    /\ l.dip \in [ip : Inodes, room : BOOLEAN] /\ PointedAt(l.dip.ip) \intersect Meta = {}
    /\ DirWhole(l.ptr, l.dip.ip)
    /\ l.dirent \in Inums \union {NoEntry}
    /\ l.dirent # NoEntry => /\ l.dirent \in l.inodes /\ Place(l.dirent) \in Places
                             /\ l.inode[Place(l.dirent)].links # 0
    /\ FileBlocks(l) \intersect (Meta \union l.others \union Blocks(l.ptr, l.dip.ip)) = {}
    /\ Blocks(l.ptr, l.dip.ip) \intersect (Meta \union l.others) = {}

VARIABLES
  pc,               \* where in main
  blockmap, inodemap,       \* the bitmaps: blocks and inodes marked as used
  bg_free_blocks_count, s_free_blocks_count,
  bg_free_inodes_count, s_free_inodes_count,
  inode,            \* the inode tables on disk
  ptr, data,        \* blocks: as indirect blocks and as data
  dip,              \* the root directory: its inode and whether it has room
  dirent,           \* its entry linuxboot: an inode number, NoEntry if none
  ino, ip,          \* the inode in memory
  nblocks, blkno,   \* size of the bootstrap; blocks written
  bs_start,
  boot,             \* the boot block: lbn and count
  others,           \* blocks of other files
  run,              \* history: number of runs
  outcome,          \* history: of the last run
  failed            \* history: what could not be allocated in some run

blockvars == << blockmap, bg_free_blocks_count, s_free_blocks_count >>
inodevars == << inodemap, bg_free_inodes_count, s_free_inodes_count >>
filevars == << ino, ip >>
locals == << nblocks, blkno, bs_start >>
disk == << inode, ptr, data, boot >>
vars == << pc, blockvars, inodevars, disk, dip, dirent, filevars, locals,
           others, run, outcome, failed >>

(* Contents of blocks, besides the block k of the bootstrap of run r. *)
SuperData == << "super" >>
TableData == << "table" >>
OldData == << "old" >>
Entries == << "entries" >>

(* What a block of the metadata or of another file holds. *)
Intact(b) == IF b \in Copies THEN SuperData ELSE IF b \in Tables THEN TableData ELSE OldData

ZeroCount(m, g, size) == Cardinality(ZeroBits(m, g, size))

(* A layout gives the blocks of other files, the inodes in use, the         *)
(* directory and perhaps an earlier /linuxboot.  The counts are right.      *)
Init ==
  \E l \in Layouts :
    /\ others = l.others /\ inodemap = l.inodes /\ dirent = l.dirent
    /\ inode = l.inode /\ ptr = l.ptr /\ dip = l.dip
    /\ blockmap = Meta \union l.others \union Blocks(l.ptr, l.dip.ip) \union FileBlocks(l)
    /\ bg_free_blocks_count = [g \in Groups |-> ZeroCount(blockmap, g, BlocksPerGroup)]
    /\ s_free_blocks_count = Cardinality(Blks \ blockmap)
    /\ bg_free_inodes_count = [g \in Groups |-> ZeroCount(inodemap, g, InodesPerGroup)]
    /\ s_free_inodes_count = Cardinality(Inums \ inodemap)
    /\ data = [b \in Blks |-> Intact(b)]
    /\ pc = "off" /\ ino = 0 /\ ip = Unused
    /\ nblocks = 0 /\ blkno = 0 /\ bs_start = 0
    /\ boot = [lbn |-> 0, count |-> 0]
    /\ run = 0 /\ outcome = "none" /\ failed = {}
-----------------------------------------------------------------------------
(* Marking and freeing a set of blocks, one call per block. *)
InGroup(S, g) == Cardinality({b \in S : GroupOf(b) = g})

Mark(S) ==
  /\ blockmap' = blockmap \union S
  /\ bg_free_blocks_count' = [g \in Groups |-> bg_free_blocks_count[g] - InGroup(S, g)]
  /\ s_free_blocks_count' = s_free_blocks_count - Cardinality(S)

(* Mutant: the count of the superblock is forgotten. *)
ext2_bfreeGroup(S) ==
  /\ blockmap' = blockmap \ S
  /\ bg_free_blocks_count' = [g \in Groups |-> bg_free_blocks_count[g] + InGroup(S, g)]
  /\ s_free_blocks_count' = s_free_blocks_count

ext2_bfree(S) ==
  /\ blockmap' = blockmap \ S
  /\ bg_free_blocks_count' = [g \in Groups |-> bg_free_blocks_count[g] + InGroup(S, g)]
  /\ s_free_blocks_count' = s_free_blocks_count + Cardinality(S)

balloc == ext2_balloc(blockmap, bg_free_blocks_count)

(* The indirect blocks of an inode. *)
Indirects(i) ==
  ({i.ind} \ {0}) \union ext2_free_indirect(ptr, i.dind, 0) \union ext2_free_indirect(ptr, i.tind, 1)

(* A stray copy lands in a bitmap, an inode table, the directory or an      *)
(* indirect block: what the next run reads there is not modelled.           *)
Ruins(i) == Stray \intersect (Tables \union Blocks(ptr, dip.ip) \union Indirects(i)) # {}

(* /linuxboot as its inode on the device has it. *)
OnDisk == IF dirent = NoEntry THEN Unused ELSE inode[Place(dirent)]

(* ext2_close and exit: superblock and descriptors are written to every     *)
(* group, after the flush of the cache.  The inode in memory is lost unless *)
(* it has been put; i is the one on the device.                             *)
Exit(o, i) ==
  /\ pc' = (IF Ruins(i) THEN "ruined" ELSE "off") /\ outcome' = o
  /\ ino' = 0 /\ ip' = Unused
  /\ nblocks' = 0 /\ blkno' = 0 /\ bs_start' = 0

(* Mutant: the descriptors are taken to have two blocks. *)
WriteSupersLong(d) == [b \in Blks |-> IF Bit(b) \in 0 .. 2 THEN SuperData ELSE d[b]]

WriteSupers(d) == [b \in Blks |-> IF b \in SuperBlocks THEN SuperData ELSE d[b]]
-----------------------------------------------------------------------------
(* Between runs the file system is mounted and other files grow. *)
othersGrow ==
  /\ pc = "off" /\ run < MaxRuns /\ balloc # 0 /\ Cardinality(others) < MaxOthers
  /\ others' = others \union {balloc} /\ Mark({balloc})
  /\ data' = [data EXCEPT ![balloc] = OldData]
  /\ outcome' = "none"
  /\ UNCHANGED << pc, inodevars, inode, ptr, boot, dip, dirent, filevars, locals, run, failed >>

(* An input file that cannot be opened: ext2_close all the same.  A device  *)
(* that cannot be opened leaves everything as it is.                        *)
noInput ==
  /\ pc = "off" /\ run < MaxRuns
  /\ run' = run + 1 /\ Exit("failed", OnDisk) /\ data' = WriteSupers(data)
  /\ UNCHANGED << blockvars, inodevars, inode, ptr, boot, dip, dirent, others, failed >>

(* main up to the inode. *)
start(n) ==
  /\ pc = "off" /\ run < MaxRuns
  /\ pc' = "namei" /\ run' = run + 1 /\ nblocks' = n /\ outcome' = "none"
  /\ UNCHANGED << blockvars, inodevars, disk, dip, dirent, filevars, blkno, bs_start,
                  others, failed >>

(* Mutant: one block past the end. *)
HasHoleBehind == \E k \in 0 .. dip.ip.size : ext2_blkno(ptr, dip.ip, k) = 0

(* A hole of the directory reads as zeros: the search stays at an entry of  *)
(* length zero for ever.                                                    *)
HasHole == \E k \in 0 .. dip.ip.size - 1 : ext2_blkno(ptr, dip.ip, k) = 0

nameiHangs ==
  /\ pc = "namei" /\ dirent = NoEntry /\ HasHole
  /\ pc' = "hangs"
  /\ UNCHANGED << blockvars, inodevars, disk, dip, dirent, filevars, locals, others,
                  run, outcome, failed >>

nameiFinds ==
  /\ pc = "namei" /\ dirent # NoEntry /\ inode[Place(dirent)].mode = "reg"
  /\ ino' = dirent /\ ip' = inode[Place(dirent)] /\ pc' = "truncate"
  /\ UNCHANGED << blockvars, inodevars, disk, dip, dirent, locals, others,
                  run, outcome, failed >>

(* "Not a regular file": ext2_iput frees an inode without links.  For inode *)
(* 0 that is in group (0 - 1) / s_inodes_per_group, outside of the          *)
(* descriptors.                                                             *)
NoLinks == inode[Place(dirent)].links = 0

nameiCrashes ==
  /\ pc = "namei" /\ dirent = 0 /\ inode[Place(0)].mode # "reg" /\ NoLinks
  /\ pc' = "crashed"
  /\ UNCHANGED << blockvars, inodevars, disk, dip, dirent, filevars, locals, others,
                  run, outcome, failed >>

nameiRefuses ==
  /\ pc = "namei" /\ dirent # NoEntry /\ inode[Place(dirent)].mode # "reg"
  /\ dirent = 0 => ~NoLinks
  /\ IF NoLinks
     THEN LET g == (dirent - 1) \div InodesPerGroup IN
          /\ inodemap' = inodemap \ {dirent}
          /\ bg_free_inodes_count' = [bg_free_inodes_count EXCEPT ![g] = @ + 1]
          /\ s_free_inodes_count' = s_free_inodes_count + 1
     ELSE UNCHANGED inodevars
  /\ Exit("refused", OnDisk) /\ data' = WriteSupers(data)
  /\ UNCHANGED << blockvars, inode, ptr, boot, dip, dirent, others, run, failed >>

(* The file has to be created.  ext2_ialloc may return 0, which nobody      *)
(* checks: ext2_iget(0) gets some other inode.                              *)
nameiMisses ==
  LET i == ext2_ialloc(inodemap, bg_free_inodes_count) IN
  /\ pc = "namei" /\ dirent = NoEntry /\ ~HasHole
  /\ ino' = i /\ ip' = inode[Place(i)] /\ pc' = "mknod"
  /\ IF i = 0 THEN failed' = failed \union {"inode"} /\ UNCHANGED inodevars
     ELSE LET g == (i - 1) \div InodesPerGroup IN
          /\ inodemap' = inodemap \union {i} /\ UNCHANGED failed
          /\ bg_free_inodes_count' = [bg_free_inodes_count EXCEPT ![g] = @ - 1]
          /\ s_free_inodes_count' = s_free_inodes_count - 1
  /\ UNCHANGED << blockvars, disk, dip, dirent, locals, others, run, outcome >>

(* Mutant: the triple-indirect blocks are forgotten. *)
ext2_truncateDouble ==
  /\ pc = "truncate" /\ pc' = "fill"
  /\ ext2_bfree(Blocks(ptr, [ip EXCEPT !.tind = 0]))
  /\ ip' = [ip EXCEPT !.block = NoBlocks, !.ind = 0, !.dind = 0, !.tind = 0, !.size = 0]
  /\ UNCHANGED << inodevars, disk, dip, dirent, ino, locals, others, run, outcome, failed >>

ext2_truncate ==
  /\ pc = "truncate" /\ pc' = "fill"
  /\ ext2_bfree(Blocks(ptr, ip))
  /\ ip' = [ip EXCEPT !.block = NoBlocks, !.ind = 0, !.dind = 0, !.tind = 0, !.size = 0]
  /\ UNCHANGED << inodevars, disk, dip, dirent, ino, locals, others, run, outcome, failed >>

(* The entry is made, the directory put, and the inode set up. *)
Created ==
  /\ pc' = "fill" /\ ip' = [Unused EXCEPT !.mode = "reg", !.links = 1]

mknodInPlace ==
  /\ pc = "mknod" /\ dip.room
  /\ dirent' = ino /\ Created
  /\ UNCHANGED << blockvars, inodevars, disk, dip, ino, locals, others, run, outcome, failed >>

(* A block is added to the directory: ext2_blkno with allocation.  If there *)
(* is none the directory grows all the same.                                *)
AddIndirect ==
  /\ pc = "mknod" /\ ~dip.room /\ dip.ip.size > directlim /\ dip.ip.ind = 0 /\ balloc # 0
  /\ Mark({balloc})
  /\ dip' = [dip EXCEPT !.ip.ind = balloc] /\ ptr' = [ptr EXCEPT ![balloc] = NoPointers]
  /\ UNCHANGED << pc, inodevars, inode, data, boot, dirent, filevars, locals, others,
                  run, outcome, failed >>

mknodGrows ==
  LET off == dip.ip.size IN
  /\ pc = "mknod" /\ ~dip.room /\ off <= ind1lim /\ balloc # 0
  /\ off > directlim => dip.ip.ind # 0
  /\ Mark({balloc}) /\ data' = [data EXCEPT ![balloc] = Entries]
  /\ IF off <= directlim
     THEN /\ dip' = [dip EXCEPT !.ip.block[off] = balloc, !.ip.size = off + 1, !.room = TRUE]
          /\ UNCHANGED ptr
     ELSE /\ dip' = [dip EXCEPT !.ip.size = off + 1, !.room = TRUE]
          /\ ptr' = [ptr EXCEPT ![dip.ip.ind][off - (directlim + 1)] = balloc]
  /\ dirent' = ino /\ Created
  /\ UNCHANGED << inodevars, inode, boot, ino, locals, others, run, outcome, failed >>

mknodNoSpace ==
  /\ pc = "mknod" /\ ~dip.room /\ dip.ip.size <= ind1lim /\ balloc = 0
  /\ dip' = [dip EXCEPT !.ip.size = @ + 1] /\ failed' = failed \union {"blocks"}
  /\ Created
  /\ UNCHANGED << blockvars, inodevars, disk, dirent, ino, locals, others, run, outcome >>
-----------------------------------------------------------------------------
(* ext2_fill_contiguous *)
First == ext2_contiguous_balloc(blockmap, bg_free_blocks_count, nblocks)

(* Too large, or no run of free blocks: "goodbye!", without ext2_iput. *)
fillFails ==
  /\ pc = "fill" /\ (nblocks > ind1lim \/ First = 0)
  /\ failed' = failed \union {"blocks"} /\ Exit("failed", OnDisk) /\ data' = WriteSupers(data)
  /\ UNCHANGED << blockvars, inodevars, inode, ptr, boot, dip, dirent, others, run >>

DataBlocks == [k \in 0 .. NDir - 1 |-> IF k < nblocks THEN First + k ELSE ip.block[k]]

fillBlocks ==
  /\ pc = "fill" /\ nblocks <= ind1lim /\ First # 0
  /\ Mark(First .. First + nblocks - 1)
  /\ bs_start' = First
  /\ ip' = [ip EXCEPT !.block = DataBlocks, !.size = nblocks]
  /\ pc' = IF nblocks > directlim THEN "indirect" ELSE "write"
  /\ UNCHANGED << inodevars, disk, dip, dirent, ino, nblocks, blkno, others, run,
                  outcome, failed >>

(* Mutant: the last direct block is repeated. *)
RestLate == [k \in Offsets |-> IF directlim + k < nblocks THEN bs_start + directlim + k ELSE 0]

(* The pointers behind the direct blocks. *)
Rest == [k \in Offsets |-> IF NDir + k < nblocks THEN bs_start + NDir + k ELSE 0]

fillIndirect ==
  /\ pc = "indirect" /\ balloc # 0
  /\ Mark({balloc})
  /\ ip' = [ip EXCEPT !.ind = balloc] /\ ptr' = [ptr EXCEPT ![balloc] = Rest]
  /\ pc' = "write"
  /\ UNCHANGED << inodevars, inode, data, boot, dip, dirent, ino, locals, others, run,
                  outcome, failed >>

(* Without a block for it the loop frees blocks 0, 1, ... instead of the    *)
(* ones allocated; block 0 is in group (0 - 1) / s_blocks_per_group.        *)
fillCrashes ==
  /\ pc = "indirect" /\ balloc = 0
  /\ pc' = "crashed" /\ failed' = failed \union {"blocks"}
  /\ UNCHANGED << blockvars, inodevars, disk, dip, dirent, filevars, locals, others,
                  run, outcome >>
-----------------------------------------------------------------------------
(* Writing the file, then the boot block, the inode and the descriptors. *)
(* Mutant: one block too many. *)
ext2_bwriteOneMore ==
  /\ pc = "write" /\ blkno <= nblocks
  /\ data' = [data EXCEPT ![ext2_blkno(ptr, ip, blkno)] = << run, blkno >>]
  /\ blkno' = blkno + 1
  /\ UNCHANGED << pc, blockvars, inodevars, inode, ptr, boot, dip, dirent, filevars,
                  nblocks, bs_start, others, run, outcome, failed >>

ext2_bwrite ==
  /\ pc = "write" /\ blkno < nblocks
  /\ data' = [data EXCEPT ![ext2_blkno(ptr, ip, blkno)] = << run, blkno >>]
  /\ blkno' = blkno + 1
  /\ UNCHANGED << pc, blockvars, inodevars, inode, ptr, boot, dip, dirent, filevars,
                  nblocks, bs_start, others, run, outcome, failed >>

(* Mutant: the blocks of the bootstrap are written past the cache. *)
InCacheMeta(m) == m

(* Blocks that pass through the cache in a run that gets to the boot block: *)
(* those of the bootstrap with their indirect block, and m others.  Those   *)
(* are at least the inode of the root and a block bitmap, and at most two   *)
(* bitmaps of each group, two blocks of inode tables, the directory and the *)
(* indirect blocks of the directory and of the file that was truncated.     *)
InCache(m) == nblocks + (IF nblocks > directlim THEN 1 ELSE 0) + m

FewestOthers == 2
MostOthers ==
  2 * NGroups + 2 + dip.ip.size + 1 + (3 + 2 * PtrsPerBlk + PtrsPerBlk * PtrsPerBlk)

(* ext2_write_bootblock is bwrite(0, ...), and an unused buffer has block   *)
(* number 0: it is taken for a hit, and memcpy goes to its null pointer.    *)
(* What the cache has is never flushed.                                     *)
finishCrashes ==
  /\ pc = "write" /\ blkno = nblocks
  /\ \E m \in FewestOthers .. MostOthers : InCache(m) < NBUFS
  /\ pc' = "crashed"
  /\ UNCHANGED << blockvars, inodevars, disk, dip, dirent, filevars, locals, others,
                  run, outcome, failed >>

finish ==
  /\ pc = "write" /\ blkno = nblocks
  /\ \E m \in FewestOthers .. MostOthers : InCache(m) >= NBUFS
  /\ boot' = [lbn |-> bs_start * SectorsPerBlk, count |-> nblocks * SectorsPerBlk]
  /\ inode' = [inode EXCEPT ![Place(ino)] = [ip EXCEPT !.size = nblocks]]
  /\ Exit("installed", ip) /\ data' = WriteSupers(data)
  /\ UNCHANGED << blockvars, inodevars, ptr, dip, dirent, others, run, failed >>
-----------------------------------------------------------------------------
Next ==
  \/ othersGrow
  \/ noInput \/ \E n \in 0 .. MaxBlks : start(n)
  \/ nameiHangs \/ nameiFinds \/ nameiCrashes \/ nameiRefuses \/ nameiMisses
  \/ ext2_truncate \/ mknodInPlace \/ AddIndirect \/ mknodGrows \/ mknodNoSpace
  \/ fillFails \/ fillBlocks \/ fillIndirect \/ fillCrashes
  \/ ext2_bwrite \/ finishCrashes \/ finish

Spec == Init /\ [][Next]_vars
-----------------------------------------------------------------------------
(* Correctness *)

(* Type invariant. *)
TypeOK ==
  /\ pc \in {"off", "namei", "hangs", "truncate", "mknod", "fill", "indirect",
             "write", "crashed", "ruined"}
  /\ blockmap \subseteq Blks /\ inodemap \subseteq Inums
  /\ bg_free_blocks_count \in [Groups -> Nat] /\ s_free_blocks_count \in Nat
  /\ bg_free_inodes_count \in [Groups -> Nat] /\ s_free_inodes_count \in Nat
  /\ ip \in Inodes /\ dip.ip \in Inodes /\ dip.room \in BOOLEAN
  /\ ptr \in [Blks -> Pointers]
  /\ dirent \in Inums \union {0, NoEntry} /\ ino \in Inums \union {0}
  /\ nblocks \in 0 .. MaxBlks /\ blkno \in 0 .. nblocks /\ run \in 0 .. MaxRuns
  /\ bs_start \in Blks \union {0} /\ failed \subseteq {"inode", "blocks"}

CountsRight ==
  /\ \A g \in Groups : bg_free_blocks_count[g] = ZeroCount(blockmap, g, BlocksPerGroup)
  /\ s_free_blocks_count = Cardinality(Blks \ blockmap)
  /\ \A g \in Groups : bg_free_inodes_count[g] = ZeroCount(inodemap, g, InodesPerGroup)
  /\ s_free_inodes_count = Cardinality(Inums \ inodemap)

(* The inode that owns the blocks of /linuxboot: the one in memory while    *)
(* the tool runs, then the one on disk.                                     *)
Owner == IF pc \in {"truncate", "fill", "indirect", "write", "crashed"} THEN ip ELSE OnDisk

(* As long as no allocation has failed, the blocks marked are exactly those *)
(* of the metadata, the other files, the directory and /linuxboot, and no   *)
(* block has two owners: truncation frees all of the old file, allocation   *)
(* takes nobody's blocks and none is lost.                                  *)
BlocksOwned ==
  LET mine == Blocks(ptr, Owner)
                \union (IF pc = "indirect" THEN bs_start .. bs_start + nblocks - 1 ELSE {})
      dir  == Blocks(ptr, dip.ip)
  IN  failed = {} =>
        /\ blockmap = Meta \union others \union dir \union mine
        /\ mine \intersect (Meta \union others \union dir) = {}
        /\ dir \intersect (Meta \union others) = {}

(* As long as no allocation has failed, the free counts of descriptors and   *)
(* superblock are those of the bitmaps.                                     *)
CountsKept == failed = {} => CountsRight

(* As long as no allocation has failed, bitmaps, inode tables and blocks of *)
(* other files keep their contents, except where ext2_close puts a copy of  *)
(* superblock or descriptors into a group that reserves no block for it.    *)
OthersKept ==
  failed = {} => \A b \in others \union Tables : data[b] = Intact(b) \/ b \in Stray

(* After every installation the boot block names as many sectors as the     *)
(* bootstrap has, and the console, which reads them, gets the bootstrap of  *)
(* the latest run, whatever failed before, except where ext2_close has put  *)
(* a stray copy over it.                                                    *)
BootBlockRight ==
  outcome = "installed" =>
    \E n \in 0 .. MaxBlks, b \in Blks :
      /\ boot = [lbn |-> b * SectorsPerBlk, count |-> n * SectorsPerBlk]
      /\ \A k \in 0 .. n - 1 : b + k \in Blks /\ (data[b + k] = << run, k >> \/ b + k \in Stray)

(* The inode ext2_ialloc returns is found by ext2_iget and ext2_iput where  *)
(* the bitmap says it is, although they compute the group from ino instead  *)
(* of ino - 1: the inodes left free in each group see to it.                *)
NewInodeAtHome == pc = "mknod" /\ ino # 0 => Place(ino) = Home(ino)

(* A run stays for ever in a directory search only where an allocation      *)
(* failed, in this run or in one before: ext2_mknod made the directory      *)
(* larger without a block, or wrote the 0 that ext2_ialloc had returned     *)
(* into an entry.  It crashes only there, or at the boot block when the     *)
(* bootstrap is too small to fill the cache: one of NBUFS - 2 blocks or     *)
(* more gets past bwrite(0, ...).                                           *)
StopsOnlyAfterFailure ==
  pc \in {"hangs", "crashed"} => failed # {} \/ (pc = "crashed" /\ nblocks + FewestOthers < NBUFS)

(* What fsck would look at, as long as no allocation has failed and no      *)
(* stray copy has hit the tables: bitmap and owners agree, counts and       *)
(* bitmaps agree, and a new inode is where its bit says, at every step of   *)
(* ext2_truncate, ext2_mknod and ext2_fill_contiguous and however many      *)
(* installations came before.  Where a run crashes it is what memory says.  *)
FsConsistent == TypeOK /\ (pc # "ruined" => BlocksOwned /\ CountsKept /\ NewInodeAtHome)
=============================================================================
