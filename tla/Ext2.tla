-------------------------------- MODULE Ext2 --------------------------------
(* The ext2/ext4 driver of the boot loader, fs/ext2.c: the inode table with *)
(* its MAX_OPEN_FILES slots, path lookup and symbolic links, and the block  *)
(* map with its caches of one indirect and one double-indirect block.       *)
(*                                                                          *)
(* Volumes are constant: the driver only reads.  A buffer that holds a      *)
(* block is modelled by the volume and the number of that block.  The reads *)
(* of a superblock, an inode, a directory, a link, an indirect block and a  *)
(* file's blocks may fail.  Directories fit into their direct blocks.       *)
EXTENDS Integers, Sequences, FiniteSets

CONSTANTS
  Vols, NoVol,      \* partitions with a file system
  Inos,             \* inode numbers in use
  RootIno,          \* EXT2_ROOT_INO
  Names,            \* directory entries
  Inode,            \* Inode[v][n]: an inode, see InodeTypes
  Entry,            \* Entry[v][n][x]: inode of name x in directory n, or NoIno
  NoIno, NoName,
  Link,             \* Link[v][n]: target of a symbolic link
  Pointers,         \* Pointers[v][b]: the pointers of block b, if it is used as
                    \*   an indirect block
  Blk,              \* block numbers
  BlockSize, NDir, PtrsPerBlk,
  MAX_OPEN_FILES,
  Paths,            \* names the boot loop opens
  MaxBlkno, MaxRun, \* bounds on the blocks asked for in one bread
  MaxMounts         \* bound on the number of mounts

Slots == 0 .. MAX_OPEN_FILES - 1
NoSlot == -1

InodeTypes ==
  [type : {"dir", "file", "link"}, size : Nat, extents : BOOLEAN,
   block : [0 .. NDir - 1 -> Blk \union {0}],         \* i_block[], 0 is a hole
   ind : Blk \union {0}, dind : Blk \union {0},
   start : Blk, len : Nat,                            \* the extent
   long : BOOLEAN]                                    \* link text is in a block

ASSUME SlotsAssumption == MAX_OPEN_FILES \in Nat \ {0}
ASSUME MountsAssumption == MaxMounts \in Nat
ASSUME GeometryAssumption ==
  /\ BlockSize \in Nat \ {0} /\ NDir \in Nat \ {0} /\ PtrsPerBlk \in Nat \ {0}
  /\ Blk \subseteq Nat \ {0, 1}   \* block 1: superblock or group descriptors
ASSUME VolumesAssumption ==
  /\ NoVol \notin Vols /\ NoIno \notin Inos /\ RootIno \in Inos
  /\ Inode \in [Vols -> [Inos -> InodeTypes]]
  /\ Entry \in [Vols -> [Inos -> [Names -> Inos \union {NoIno}]]]
  /\ Pointers \in [Vols -> [Blk -> [0 .. PtrsPerBlk - 1 -> Blk \union {0}]]]
  /\ \A v \in Vols : Inode[v][RootIno].type = "dir"
ASSUME PathsAssumption ==
  /\ Paths \subseteq Seq(Names) /\ << >> \in Paths /\ NoName \notin Paths
  /\ Link \in [Vols -> [Inos -> [abs : BOOLEAN, path : Seq(Names)]]]

VARIABLES
  pc,           \* what the driver is doing
  vol,          \* dev and partition_offset
  table,        \* inode_table: the inode in a slot, NoIno if it is free
  root,         \* root_inode: its slot
  base,         \* ext2_open: filename
  path,         \* ext2_namei: what is left of the name
  dir_inode,    \* ext2_namei: slot of the inode reached so far
  iblk,         \* cached_iblkno and what iblkbuf holds
  diblk,        \* cached_diblkno and what diblkbuf holds
  rd,           \* locals of ext2_breadi
  result,       \* what the last call returned
  names,        \* history: the name an open descriptor was opened by
  lost,         \* history: slots whose only pointer is gone
  mounts,       \* history: number of successful mounts
  erred         \* history: a cons_read has failed since the first mount

(* The descriptors the boot loop has open. *)
fds == {s \in Slots : names[s] # NoName}

openvars == << base, path, dir_inode >>
slotvars == << table, root, names, lost >>
readvars == << iblk, diblk, rd >>
vars == << pc, vol, openvars, slotvars, readvars, result, mounts, erred >>

directlim == NDir - 1
ind1lim == PtrsPerBlk + directlim
ind2lim == (PtrsPerBlk * PtrsPerBlk) + directlim

Junk == << >>                    \* a buffer with undefined content
Zeros == << >>                   \* a block of a hole
Nothing == [no |-> -1, buf |-> Junk]
Idle == [ino |-> NoIno, blkno |-> 0, nblks |-> 0, dev |-> 0, n |-> 0, out |-> << >>]

Init ==
  /\ pc = "idle" /\ vol = NoVol
  /\ table = [s \in Slots |-> NoIno] /\ root = NoSlot
  /\ base = << >> /\ path = << >> /\ dir_inode = NoSlot
  /\ iblk = Nothing /\ diblk = Nothing /\ rd = Idle
  /\ result = "none"
  /\ names = [s \in Slots |-> NoName] /\ lost = {} /\ mounts = 0 /\ erred = FALSE
-----------------------------------------------------------------------------
(* Mounting *)

(* Mutant: one slot too many. *)
ClearTableBeyond ==
  /\ table' = [s \in 0 .. MAX_OPEN_FILES |-> NoIno] /\ root' = NoSlot
  /\ names' = [s \in Slots |-> NoName] /\ lost' = {}

ClearTable ==
  /\ table' = [s \in Slots |-> NoIno] /\ root' = NoSlot
  /\ names' = [s \in Slots |-> NoName] /\ lost' = {}

(* Fresh buffers from malloc; the cached block numbers stay. *)
NewBuffers ==
  /\ iblk' = [iblk EXCEPT !.buf = Junk] /\ diblk' = [diblk EXCEPT !.buf = Junk]

(* A superblock that cannot be read or has another magic number leaves the  *)
(* buffers alone; a successful mount counts towards the bound.              *)
ext2_mount(v) ==
  /\ pc = "idle" /\ ClearTable
  /\ \/ /\ mounts < MaxMounts /\ mounts' = mounts + 1
        /\ vol' = v /\ NewBuffers /\ result' = "mounted"
     \/ /\ vol' = NoVol /\ result' = "failed"
        /\ UNCHANGED << iblk, diblk, mounts >>
  /\ rd' = Idle
  /\ UNCHANGED << pc, openvars, erred >>
-----------------------------------------------------------------------------
(* Slots *)

FreeSlots == {s \in Slots : table[s] = NoIno}

(* The first free slot. *)
IsFirstFree(s) == s \in FreeSlots /\ \A t \in FreeSlots : s <= t

(* The locals of ext2_open are gone once it returns. *)
LeaveOpen == base' = << >> /\ path' = << >> /\ dir_inode' = NoSlot

(* Return -1 from ext2_open; slots still held are lost. *)
OpenFails ==
  /\ pc' = "idle" /\ result' = "failed" /\ LeaveOpen /\ UNCHANGED vol

Held(s) == IF s \in {root, NoSlot} THEN {} ELSE {s}

ext2_open(p) ==
  /\ pc = "idle" /\ vol # NoVol
  /\ pc' = "namei" /\ base' = p /\ path' = p /\ dir_inode' = NoSlot
  /\ result' = "none" /\ rd' = Idle
  /\ UNCHANGED << vol, slotvars, iblk, diblk, mounts, erred >>

(* ext2_namei starts at the root, whose inode is read once per mount. *)
NameiRoot ==
  /\ pc = "namei" /\ dir_inode = NoSlot
  /\ \/ /\ root # NoSlot /\ dir_inode' = root
        /\ UNCHANGED << pc, table, root, erred, result, base, path >>
     \/ /\ root = NoSlot
        /\ \E s \in Slots :
             /\ IsFirstFree(s)
             /\ table' = [table EXCEPT ![s] = RootIno] /\ root' = s /\ dir_inode' = s
        /\ UNCHANGED << pc, erred, result, base, path >>
     \/ /\ root = NoSlot
        /\ \/ FreeSlots = {} /\ UNCHANGED erred
           \/ FreeSlots # {} /\ erred' = TRUE        \* the inode cannot be read
        /\ OpenFails /\ UNCHANGED << table, root >>
  /\ UNCHANGED << vol, readvars, names, lost, mounts >>

(* ext2_iput of the directory, "whether we've succeeded or failed". *)
Released == IF dir_inode = root THEN table ELSE [table EXCEPT ![dir_inode] = NoIno]

(* The component is found: the directory is put, then its inode is got,     *)
(* which may reuse the slot.                                                *)
LookupFound(n) ==
  LET free == {s \in Slots : Released[s] = NoIno} IN
  /\ \E s \in free :
       /\ \A t \in free : s <= t
       /\ table' = [Released EXCEPT ![s] = n] /\ dir_inode' = s
  /\ path' = Tail(path)
  /\ UNCHANGED << pc, base, erred, result, lost >>

(* Not found, a directory block or the inode that cannot be read, or no     *)
(* free slot: the directory has been put.                                   *)
LookupFails ==
  LET n == Entry[vol][table[dir_inode]][Head(path)] IN
  /\ \/ /\ n = NoIno \/ \A s \in Slots : Released[s] # NoIno
        /\ UNCHANGED erred
     \/ erred' = TRUE
  /\ table' = Released
  /\ OpenFails /\ UNCHANGED lost

Lookup ==
  /\ pc = "namei" /\ dir_inode # NoSlot /\ path # << >>
  /\ \/ LET n == Entry[vol][table[dir_inode]][Head(path)]
        IN  n # NoIno /\ LookupFound(n)
     \/ LookupFails
  /\ UNCHANGED << vol, root, names, readvars, mounts >>

(* Mutant: a relative link is relative to the root. *)
TargetRoot(n) == Link[vol][n].path

(* A relative link is relative to the directory of the name that was        *)
(* opened; the slot of the link is not given back.                          *)
Target(n) ==
  IF Link[vol][n].abs THEN Link[vol][n].path
  ELSE SubSeq(base, 1, Len(base) - 1) \o Link[vol][n].path

(* Mutant: the slot of the link is given back while it is followed. *)
FollowLinkPuts ==
  /\ table' = [table EXCEPT ![dir_inode] = NoIno] /\ UNCHANGED lost
  /\ path' = Target(table[dir_inode]) /\ dir_inode' = NoSlot
  /\ UNCHANGED << pc, base, erred, result >>

FollowLink ==
  /\ lost' = lost \union Held(dir_inode) /\ UNCHANGED table
  /\ path' = Target(table[dir_inode]) /\ dir_inode' = NoSlot
  /\ UNCHANGED << pc, base, erred, result >>

ext2_follow_link ==
  /\ pc = "namei" /\ dir_inode # NoSlot /\ path = << >>
  /\ Inode[vol][table[dir_inode]].type = "link"
  /\ \/ FollowLink
     \/ /\ Inode[vol][table[dir_inode]].long /\ erred' = TRUE
        /\ lost' = lost \union Held(dir_inode)
        /\ OpenFails /\ UNCHANGED table
  /\ UNCHANGED << vol, root, names, readvars, mounts >>

Opened ==
  /\ pc = "namei" /\ dir_inode # NoSlot /\ path = << >>
  /\ Inode[vol][table[dir_inode]].type # "link"
  /\ pc' = "idle" /\ result' = "opened"
  /\ names' = [names EXCEPT ![dir_inode] = base] /\ LeaveOpen
  /\ UNCHANGED << vol, table, root, lost, readvars, mounts, erred >>

(* Mutant: the root's slot is closed like any other. *)
ext2_closeRoot(fd) ==
  /\ pc = "idle" /\ fd \in fds
  /\ table' = [table EXCEPT ![fd] = NoIno]
  /\ names' = [names EXCEPT ![fd] = NoName] /\ result' = "closed" /\ rd' = Idle
  /\ UNCHANGED << pc, vol, openvars, root, lost, iblk, diblk, mounts, erred >>

ext2_close(fd) ==
  /\ pc = "idle" /\ fd \in fds
  /\ table' = IF fd = root THEN table ELSE [table EXCEPT ![fd] = NoIno]
  /\ names' = [names EXCEPT ![fd] = NoName] /\ result' = "closed" /\ rd' = Idle
  /\ UNCHANGED << pc, vol, openvars, root, lost, iblk, diblk, mounts, erred >>
-----------------------------------------------------------------------------
(* Reading *)

(* The pointers a buffer can be taken to hold. *)
PointerIn(buf, k) ==
  IF buf = Junk THEN Blk \union {0} ELSE {Pointers[buf[1]][buf[2]][k]}

(* What a cache holds once block b is wanted: a hit, a read, a failed read  *)
(* that leaves the buffer undefined and the number as it was.               *)
Hit(c, b) == c.no = b

ReadFailed(c, b) == [c EXCEPT !.buf = Junk]

CacheAfter(c, b) ==
  IF Hit(c, b) THEN {[ok |-> TRUE, c |-> c]}
  ELSE {[ok |-> TRUE, c |-> [no |-> b, buf |-> << vol, b >>]],
        [ok |-> FALSE, c |-> ReadFailed(c, b)]}

(* An outcome of ext2_blkno: a block number, the caches, and whether a read *)
(* failed on the way, in which case the number is 0 like that of a hole.    *)
Outcome(b, i, d, e) == [b |-> b, i |-> i, d |-> d, err |-> e]

ThroughIndirect(b, d, k) ==
  IF b = 0 THEN {Outcome(0, iblk, d, FALSE)}
  ELSE UNION {IF r.ok THEN {Outcome(x, r.c, d, FALSE) : x \in PointerIn(r.c.buf, k)}
              ELSE {Outcome(0, r.c, d, TRUE)} : r \in CacheAfter(iblk, b)}

(* Mutant: the double-indirect range starts one block late. *)
ext2_blknoLate(ip, off) ==
  IF off <= directlim THEN {Outcome(ip.block[off], iblk, diblk, FALSE)}
  ELSE IF off <= ind1lim THEN ThroughIndirect(ip.ind, diblk, off - (directlim + 1))
  ELSE IF off > ind2lim \/ ip.dind = 0 THEN {Outcome(0, iblk, diblk, FALSE)}
  ELSE UNION {IF r.ok
              THEN UNION {ThroughIndirect(x, r.c, (off - ind1lim) % PtrsPerBlk) :
                            x \in PointerIn(r.c.buf, (off - (ind1lim + 1)) \div PtrsPerBlk)}
              ELSE {Outcome(0, iblk, r.c, TRUE)} : r \in CacheAfter(diblk, ip.dind)}

ext2_blkno(ip, off) ==
  IF off <= directlim THEN {Outcome(ip.block[off], iblk, diblk, FALSE)}
  ELSE IF off <= ind1lim THEN ThroughIndirect(ip.ind, diblk, off - (directlim + 1))
  ELSE IF off > ind2lim \/ ip.dind = 0 THEN {Outcome(0, iblk, diblk, FALSE)}
  ELSE UNION {IF r.ok
              THEN UNION {ThroughIndirect(x, r.c, (off - (ind1lim + 1)) % PtrsPerBlk) :
                            x \in PointerIn(r.c.buf, (off - (ind1lim + 1)) \div PtrsPerBlk)}
              ELSE {Outcome(0, iblk, r.c, TRUE)} : r \in CacheAfter(diblk, ip.dind)}

(* A request past the end of the file is cut off, a block after it if the   *)
(* size is a multiple of the block size.  The number of blocks left is      *)
(* negative when the first one lies further past the end.                   *)
Clamp(ip, blkno, nblks) ==
  IF (blkno + nblks) * BlockSize > ip.size
  THEN (ip.size + BlockSize) \div BlockSize - blkno ELSE nblks

Returns(r) == pc' = "idle" /\ result' = r

(* ext2_bread, first part of ext2_breadi.  The offset of a segment comes    *)
(* from the header of a kernel, so the first block may be any.              *)
ext2_bread(fd, blkno, nblks) ==
  LET ip == Inode[vol][table[fd]] IN
  /\ pc = "idle" /\ fd \in fds /\ ~ip.extents
  /\ pc' = "first"
  /\ rd' = [ino |-> table[fd], blkno |-> blkno, nblks |-> Clamp(ip, blkno, nblks),
            dev |-> 0, n |-> 0, out |-> << >>]
  /\ result' = "none"
  /\ UNCHANGED << vol, openvars, slotvars, iblk, diblk, mounts, erred >>

(* ext4_breadi: one extent, whole blocks; more blocks than it has are       *)
(* refused, a request past its end is cut off.  The console refuses to read *)
(* a negative number of bytes.                                              *)
ext4_bread(fd, blkno, nblks) ==
  LET ip == Inode[vol][table[fd]]
      n  == IF blkno + nblks > ip.len THEN ip.len - blkno ELSE nblks
  IN
  /\ pc = "idle" /\ fd \in fds /\ ip.extents
  /\ \/ /\ nblks <= ip.len /\ n >= 0 /\ result' = "read" /\ UNCHANGED erred
        /\ rd' = [Idle EXCEPT !.ino = table[fd], !.blkno = blkno + n,
                     !.out = [k \in 1 .. n |-> << vol, ip.start + blkno + k - 1 >>]]
     \/ nblks > ip.len /\ result' = "failed" /\ rd' = Idle /\ UNCHANGED erred
     \/ nblks <= ip.len /\ n # 0 /\ result' = "failed" /\ rd' = Idle /\ erred' = TRUE
  /\ UNCHANGED << pc, vol, openvars, slotvars, iblk, diblk, mounts >>

(* ext2_blkno is called for the next block of the file. *)
MapBlock(o) ==
  /\ o \in ext2_blkno(Inode[vol][rd.ino], rd.blkno)
  /\ iblk' = o.i /\ diblk' = o.d /\ erred' = (erred \/ o.err)

breadFirst ==
  /\ pc = "first"
  /\ \/ rd.nblks = 0 /\ Returns("read") /\ UNCHANGED << iblk, diblk, rd, erred >>
     \/ /\ rd.nblks # 0 /\ ~(rd.nblks < 0 /\ rd.blkno > ind2lim)
        /\ \E o \in ext2_blkno(Inode[vol][rd.ino], rd.blkno) :
             /\ MapBlock(o)
             /\ rd' = [rd EXCEPT !.dev = o.b, !.n = 1, !.blkno = @ + 1, !.nblks = @ - 1]
        /\ pc' = "next" /\ UNCHANGED result
  /\ UNCHANGED << vol, openvars, slotvars, mounts >>

(* Mutant: blocks that follow are read along beyond the request. *)
breadNextPast ==
  /\ pc = "next"
  /\ \E o \in ext2_blkno(Inode[vol][rd.ino], rd.blkno) :
       /\ MapBlock(o)
       /\ IF o.b = rd.dev + rd.n
          THEN /\ rd' = [rd EXCEPT !.n = @ + 1, !.blkno = @ + 1, !.nblks = @ - 1]
               /\ UNCHANGED pc
          ELSE pc' = "xfer" /\ UNCHANGED rd
  /\ UNCHANGED << vol, openvars, slotvars, mounts, result >>

(* "Contiguous reads are a lot faster": blocks that follow are read along. *)
breadNext ==
  /\ pc = "next"
  /\ \/ rd.nblks = 0 /\ pc' = "xfer" /\ UNCHANGED << iblk, diblk, rd, erred >>
     \/ /\ rd.nblks # 0
        /\ \E o \in ext2_blkno(Inode[vol][rd.ino], rd.blkno) :
             /\ MapBlock(o)
             /\ IF o.b = rd.dev + rd.n
                THEN /\ rd' = [rd EXCEPT !.n = @ + 1, !.blkno = @ + 1, !.nblks = @ - 1]
                     /\ UNCHANGED pc
                ELSE pc' = "xfer" /\ UNCHANGED rd
  /\ UNCHANGED << vol, openvars, slotvars, mounts, result >>

Run == [k \in 1 .. rd.n |-> IF rd.dev = 0 THEN Zeros ELSE << vol, rd.dev + k - 1 >>]

breadXfer ==
  /\ pc = "xfer"
  /\ \/ /\ rd' = [rd EXCEPT !.out = @ \o Run, !.n = 0]
        /\ pc' = "first" /\ UNCHANGED << result, erred >>
     \/ rd.dev # 0 /\ Returns("failed") /\ erred' = TRUE /\ rd' = Idle
  /\ UNCHANGED << vol, openvars, slotvars, iblk, diblk, mounts >>
(* A negative number of blocks never comes down to 0.  Past the blocks that *)
(* the inode can name every block is a hole, so no read can fail either:    *)
(* memset goes on through memory.                                           *)
breadRunsOn ==
  /\ pc \in {"first", "runaway"} /\ rd.nblks < 0 /\ rd.blkno > ind2lim
  /\ pc' = "runaway"
  /\ UNCHANGED << vol, openvars, slotvars, readvars, result, mounts, erred >>
-----------------------------------------------------------------------------
Driver ==
  NameiRoot \/ Lookup \/ ext2_follow_link \/ Opened
    \/ breadFirst \/ breadNext \/ breadXfer \/ breadRunsOn

BootLoop ==
  \/ \E v \in Vols : ext2_mount(v)
  \/ \E p \in Paths : ext2_open(p)
  \/ \E fd \in Slots : ext2_close(fd)
  \/ \E fd \in Slots, b \in 0 .. MaxBlkno, n \in 1 .. MaxRun :
       ext2_bread(fd, b, n) \/ ext4_bread(fd, b, n)

Next == Driver \/ BootLoop

Spec == Init /\ [][Next]_vars /\ WF_vars(Driver)
-----------------------------------------------------------------------------
(* Correctness *)

SlotTypes ==
  /\ pc \in {"idle", "namei", "first", "next", "xfer", "runaway"}
  /\ vol \in Vols \union {NoVol}
  /\ table \in [Slots -> Inos \union {NoIno}] /\ root \in Slots \union {NoSlot}
  /\ base \in Paths /\ path \in Seq(Names) /\ dir_inode \in Slots \union {NoSlot}
  /\ names \in [Slots -> Paths \union {NoName}] /\ lost \subseteq Slots
  /\ pc = "namei" => vol # NoVol

(* Type invariant. *)
TypeOK ==
  /\ SlotTypes
  /\ mounts \in 0 .. MaxMounts /\ erred \in BOOLEAN
  /\ iblk.no \in Blk \union {-1} /\ diblk.no \in Blk \union {-1}

InUse == {s \in Slots : table[s] # NoIno}

(* The slot the lookup in progress holds. *)
InHand == IF pc = "namei" /\ dir_inode # NoSlot THEN {dir_inode} ELSE {}

RootSlot == IF root = NoSlot THEN {} ELSE {root}

(* Every slot in use is the root's, an open descriptor's, the lookup's, or  *)
(* was lost by following a link; and no two of these share one, save that   *)
(* the root may also be open or being looked up.                            *)
SlotsAccounted ==
  /\ InUse = RootSlot \union fds \union lost \union InHand
  /\ fds \intersect lost = {}
  /\ RootSlot \intersect lost = {}
  /\ InHand \intersect (fds \union lost) \subseteq RootSlot
  /\ root # NoSlot => table[root] = RootIno

(* The inodes along a path, and what it denotes.  *)
WalkTo(v, p) ==
  LET at[k \in 0 .. Len(p)] ==
        IF k = 0 THEN RootIno
        ELSE IF at[k - 1] = NoIno THEN NoIno ELSE Entry[v][at[k - 1]][p[k]]
  IN  at

Walk(v, p) == WalkTo(v, p)[Len(p)]

IsLink(v, p) == Walk(v, p) # NoIno /\ Inode[v][Walk(v, p)].type = "link"

(* Following the link at the end of a path: a relative one starts at the    *)
(* directory it is in.                                                      *)
Hop(v, p) ==
  LET l == Link[v][Walk(v, p)] IN
  IF ~IsLink(v, p) THEN p
  ELSE IF l.abs THEN l.path ELSE SubSeq(p, 1, Len(p) - 1) \o l.path

(* The paths that following the links of p gives; a link takes up a slot,   *)
(* so there are at most MAX_OPEN_FILES of them.                             *)
Follow(v, p) ==
  LET to[k \in 0 .. MAX_OPEN_FILES] == IF k = 0 THEN p ELSE Hop(v, to[k - 1])
  IN  to

(* A relative link met behind another link is taken relative to the wrong   *)
(* directory (ext2_open hands the name it was given to ext2_follow_link).   *)
RelativeFirst(v, p) ==
  \A k \in 1 .. MAX_OPEN_FILES :
    IsLink(v, Follow(v, p)[k]) => Link[v][Walk(v, Follow(v, p)[k])].abs

(* An open descriptor stands for the inode its name denotes until it is     *)
(* closed, whatever else is opened and closed, however often slots are      *)
(* reused and reads fail.                                                   *)
NamedFile ==
  \A fd \in fds : RelativeFirst(vol, names[fd]) =>
    table[fd] = Walk(vol, Follow(vol, names[fd])[MAX_OPEN_FILES])

(* A path always ends: in a file, or because the links in it have used up   *)
(* the slots.  A read ends too unless it was asked to start so far past the *)
(* end of the file that a negative number of blocks is left, which nothing  *)
(* in ext2_breadi or load_uncompressed keeps an image's header from asking. *)
CallsReturn == pc # "idle" /\ rd.nblks >= 0 ~> pc = "idle"

(* What offset off of a file is on the volume: a block, or 0 for a hole. *)
Mapped(v, ip, off) ==
  LET k == off - (ind1lim + 1) IN
  CASE off <= directlim -> ip.block[off]
    [] off > directlim /\ off <= ind1lim ->
         IF ip.ind = 0 THEN 0 ELSE Pointers[v][ip.ind][off - (directlim + 1)]
    [] off > ind1lim /\ off <= ind2lim ->
         IF ip.dind = 0 THEN 0
         ELSE LET i == Pointers[v][ip.dind][k \div PtrsPerBlk]
              IN  IF i = 0 THEN 0 ELSE Pointers[v][i][k % PtrsPerBlk]
    [] OTHER -> 0

ReadRight ==
  LET first == rd.blkno - Len(rd.out) IN
  \A k \in 1 .. Len(rd.out) :
    LET b == Mapped(vol, Inode[vol][rd.ino], first + k - 1)
    IN  rd.out[k] = IF b = 0 THEN Zeros ELSE << vol, b >>

DoneReading == pc = "idle" /\ result = "read" /\ ~Inode[vol][rd.ino].extents

(* As long as no read has failed, what a first mount reads are the file's   *)
(* own blocks in their order, with holes as zeros, however the requests are *)
(* cut up and whatever the caches hold.                                     *)
FirstMountReads == DoneReading /\ ~erred /\ mounts = 1 => ReadRight

(* ext2_open: the slots and cached block numbers are in range, and each     *)
(* open descriptor stands for the file that was named.                      *)
OpensRight == TypeOK /\ NamedFile
=============================================================================
