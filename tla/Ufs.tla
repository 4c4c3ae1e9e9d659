-------------------------------- MODULE Ufs --------------------------------
(* The BSD fast file system driver, fs/ufs.c: its one file structure with   *)
(* the inode and a cached indirect block per level, path lookup, and        *)
(* reading runs of contiguous blocks.                                       *)
(*                                                                          *)
(* The disk is addressed in fragments, Frags to a block; a size counts      *)
(* units, FragUnits to a fragment.  A unit of a directory is an entry.      *)
(* What a file holds is known by the address of the fragment it is in, 0    *)
(* in a hole and -1 when it is not of the volume.  Every device read may    *)
(* fail, MaxFailures times.                                                 *)
EXTENDS Integers, Sequences

CONSTANTS
  Vols,             \* volumes: magic, inode, ind (indirect blocks), cell (directory
                    \* entries of a fragment), want, where, deep; see MCUfs
  Frags, FragUnits, \* fs_frag, fs_fsize
  NDADDR, NIADDR,   \* direct and indirect blocks of an inode
  NINDIR,           \* block numbers in an indirect block
  MaxOpens, MaxReads, MaxFailures, \* bounds on calls and failing reads
  MAXSYMLINKS,      \* links one open follows
  MaxRun            \* bound on the blocks of one read

ASSUME SizesAssumption ==
  /\ Frags \in Nat \ {0} /\ FragUnits \in Nat \ {0}
  /\ NDADDR \in Nat \ {0} /\ NIADDR = 3 /\ NINDIR \in Nat \ {0}
  /\ MaxOpens \in Nat /\ MaxReads \in Nat /\ MaxFailures \in Nat
  /\ MAXSYMLINKS \in Nat /\ MaxRun \in Nat \ {0}

VARIABLES
  vol,
  mounted,          \* the last ufs_mount found a superblock
  ic, f_nindir, f_blk, f_blkno, f_buf,    \* inode_table[0]
  pc,
  path, inumber, parent, nlinks, offset, blockoffset, \* ufs_open, search_dir
  m,                \* block_map: level, file_block, ind_block_num
  g,                \* breadi: the run in hand and what was read
  ret,              \* the last call and what it returned
  seen,             \* history: what went wrong since the call began
  bad,              \* history: a read failed since the file was opened
  opens, reads, failures

file == << ic, f_nindir, f_blk, f_blkno, f_buf >>
search == << path, inumber, parent, nlinks, offset, blockoffset >>
counts == << opens, reads, failures >>
vars == << vol, mounted, file, pc, search, m, g, ret, seen, bad, counts >>

BlockUnits == Frags * FragUnits
Levels == 0 .. NIADDR - 1
ROOTINO == 2
FS_SYMLINK_LOOP == 5003
NoInode == [ino |-> 0, mode |-> "none", size |-> 0,
            db |-> [i \in 1 .. NDADDR |-> 0], ib |-> [i \in 1 .. NIADDR |-> 0]]
Empty == << >>      \* no buffer, or one nothing was read into
NoMap == [level |-> 0, fb |-> 0, num |-> 0]
NoRun == [back |-> "bread", from |-> 0, count |-> 0, blkno |-> 0, nblks |-> 0, start |-> 0,
          first |-> 0, frags |-> 0, data |-> << >>]
Clear == [root |-> FALSE, link |-> FALSE, past |-> FALSE, failed |-> FALSE, sized |-> FALSE]

(* What is no entry: memory as it was, an inode, what lies behind the last  *)
(* entry.  The length in it may be any, which -1 stands for.                *)
Junk == [ino |-> 1, name |-> "none", reclen |-> -1]
JunkBuf == [u \in 0 .. BlockUnits - 1 |-> Junk]

(* blksize in fragments: the last of the direct blocks may be cut short. *)
FragsOf(i, b) ==
  IF b >= NDADDR \/ i.size >= (b + 1) * BlockUnits THEN Frags
  ELSE ((i.size % BlockUnits) + FragUnits - 1) \div FragUnits

(* The file as the inode's tree lays it out: where block b is, 0 in a hole. *)
Pointer(v, a, k) == IF a = 0 THEN 0 ELSE v.ind[a][k + 1]
Square == NINDIR * NINDIR
Two(v, a, j) == Pointer(v, Pointer(v, a, j \div NINDIR), j % NINDIR)
Three(v, a, j) == Two(v, Pointer(v, a, j \div Square), j % Square)
AddressOf(v, i, b) ==
  LET k == b - NDADDR
  IN IF k < 0 THEN i.db[b + 1]
     ELSE IF k < NINDIR THEN Pointer(v, i.ib[1], k)
     ELSE IF k < NINDIR + Square THEN Two(v, i.ib[2], k - NINDIR)
     ELSE Three(v, i.ib[3], k - NINDIR - Square)

(* What is in unit u of a fragment, and in unit u of block b of a directory. *)
Cell(v, a, u) == IF a \in DOMAIN v.cell THEN v.cell[a][u + 1] ELSE Junk
EntryAt(v, i, b, u) ==
  LET a == AddressOf(v, i, b)
  IN  IF a = 0 THEN Junk ELSE Cell(v, a + (u \div FragUnits), u % FragUnits)
Blocks(i) == 0 .. (i.size - 1) \div BlockUnits
Units(i, b) == 0 .. FragsOf(i, b) * FragUnits - 1
Listed(v, i, B, name) ==
  {n \in DOMAIN v.inode \ {0} :
     \E b \in B : \E u \in Units(i, b) :
        LET e == EntryAt(v, i, b, u) IN e.ino = n /\ e.name = name}

(* What fsck sees to: a file has no blocks in the first of the volume, where *)
(* boot program and superblock are; indirect blocks lead down as far as the *)
(* inode says, and a file ends where they do; entries name inodes.          *)
Data == Nat \ (1 .. Frags)
Over(v, S) == {0} \cup {a \in DOMAIN v.ind : \A k \in 1 .. NINDIR : v.ind[a][k] \in S}
Entries(v) == {Junk} \cup [ino : DOMAIN v.inode, name : STRING, reclen : 1 .. BlockUnits]
InodeSound(v, i) ==
  /\ i \in [ino : Nat, mode : STRING, size : Nat, db : [1 .. NDADDR -> Nat], ib : [1 .. NIADDR -> Nat]]
  /\ \A k \in 1 .. NDADDR : i.db[k] \in Data
  /\ i.ib[1] \in Over(v, Data)
  /\ i.ib[2] \in Over(v, Over(v, Data))
  /\ i.ib[3] \in Over(v, Over(v, Over(v, Data)))
  /\ i.size <= (NDADDR + NINDIR + NINDIR * NINDIR + NINDIR * NINDIR * NINDIR) * BlockUnits
VolumeSound(v) ==
  /\ v.magic \in BOOLEAN
  /\ DOMAIN v.ind \subseteq Nat \ {0} /\ \A a \in DOMAIN v.ind : v.ind[a] \in [1 .. NINDIR -> Nat]
  /\ DOMAIN v.inode \subseteq Nat /\ ROOTINO \in DOMAIN v.inode
  /\ 0 \in DOMAIN v.inode /\ v.inode[0] = NoInode
  /\ \A n \in DOMAIN v.inode : InodeSound(v, v.inode[n])
  /\ DOMAIN v.cell \subseteq Nat \ {0}
  /\ \A a \in DOMAIN v.cell : v.cell[a] \in [1 .. FragUnits -> Entries(v)]
  /\ v.want \subseteq Seq(STRING \ {Junk.name})

(* Entries follow each other from the start of a block to its end, or to    *)
(* the end of the directory.                                                *)
DirectorySound(v, i) ==
  \A b \in Blocks(i) :
    LET end == IF (b + 1) * BlockUnits <= i.size THEN BlockUnits ELSE i.size - b * BlockUnits
        at(u) == EntryAt(v, i, b, u)
    IN  /\ at(0) # Junk
        /\ \A u \in Units(i, b) :
             at(u) # Junk =>
               LET next == u + at(u).reclen
               IN  /\ next <= end
                   /\ \A w \in u + 1 .. next - 1 : at(w) = Junk
                   /\ next < end => at(next) # Junk

(* where are the paths wanted, and those that lead to them, that name an    *)
(* inode; deep the ones with an entry on the way that is beyond the direct  *)
(* blocks of its directory.                                                 *)
NamesSound(v) ==
  /\ << >> \in DOMAIN v.where /\ v.where[<< >>] = ROOTINO
  /\ \A q \in DOMAIN v.where : v.where[q] \in DOMAIN v.inode
  /\ \A n \in DOMAIN v.inode : v.inode[n].mode = "dir" => DirectorySound(v, v.inode[n])
  /\ \A p \in v.want : \A k \in 1 .. Len(p) :
       LET d == SubSeq(p, 1, k - 1)
           q == SubSeq(p, 1, k)
           i == v.inode[v.where[d]]
           named == Listed(v, i, Blocks(i), p[k])
       IN  /\ p \in DOMAIN v.where => q \in DOMAIN v.where
           /\ q \in DOMAIN v.where =>
                /\ d \in DOMAIN v.where /\ i.mode = "dir" /\ named = {v.where[q]}
                /\ p \in v.deep \/ Listed(v, i, Blocks(i) \cap 0 .. NDADDR - 1, p[k]) # {}
           /\ d \in DOMAIN v.where /\ i.mode = "dir" /\ q \notin DOMAIN v.where => named = {}

ASSUME VolumesAssumption == \A v \in Vols : VolumeSound(v) /\ NamesSound(v)

Init ==
  /\ vol \in Vols
  /\ mounted = FALSE
  /\ ic = NoInode
  /\ f_nindir = [i \in Levels |-> 0]
  /\ f_blk = [i \in Levels |-> Empty]
  /\ f_blkno = [i \in Levels |-> 0]
  /\ f_buf = JunkBuf
  /\ pc = "idle"
  /\ path = << >> /\ inumber = 0 /\ parent = 0 /\ nlinks = 0 /\ offset = 0 /\ blockoffset = 0
  /\ m = NoMap /\ g = NoRun
  /\ ret = [call |-> "none", val |-> 0, path |-> << >>]
  /\ seen = Clear /\ bad = FALSE
  /\ opens = 0 /\ reads = 0 /\ failures = 0

(* A device read comes off or fails. *)
ReadOk == UNCHANGED << failures, seen, bad >>
ReadFails ==
  /\ failures < MaxFailures
  /\ failures' = failures + 1
  /\ seen' = [seen EXCEPT !.failed = TRUE, !.root = @ \/ pc = "root"]
  /\ bad' = TRUE

Return(call, val) == pc' = "idle" /\ ret' = [call |-> call, val |-> val, path |-> ret.path]

----------------------------------------------------------------------------
(* ufs_mount clears the file structure, at every attempt to boot again, so  *)
(* that nothing of an earlier mount is left.                                *)
ufs_mount ==
  /\ pc = "idle"
  /\ ic' = NoInode
  /\ f_nindir' = [i \in Levels |-> 0]
  /\ f_blk' = [i \in Levels |-> Empty]
  /\ f_blkno' = [i \in Levels |-> 0]
  /\ \/ ReadOk /\ mounted' = vol.magic /\ Return("mount", IF vol.magic THEN 0 ELSE -1)
     \/ ReadFails /\ Return("mount", -1) /\ mounted' = FALSE
  /\ UNCHANGED << vol, f_buf, search, m, g, opens, reads >>

(* ufs_open gets a buffer, as memory was, and starts at the root. *)
ufs_open ==
  /\ pc = "idle"
  /\ mounted
  /\ opens < MaxOpens
  /\ opens' = opens + 1
  /\ \E p \in vol.want :
       /\ path' = p
       /\ ret' = [call |-> "open", val |-> -2, path |-> p]
  /\ inumber' = ROOTINO
  /\ nlinks' = 0
  /\ f_buf' = JunkBuf
  /\ seen' = [Clear EXCEPT !.sized = f_nindir[0] # 0]
  /\ bad' = FALSE
  /\ pc' = "root"
  /\ UNCHANGED << vol, mounted, ic, f_nindir, f_blk, f_blkno, parent, offset, blockoffset,
                  m, g, reads, failures >>

(* read_inode: the block of the inode into f_buf, the inode out of it, and  *)
(* no indirect block is known any more.                                     *)
read_inode(ino) ==
  /\ ic' = vol.inode[ino]
  /\ f_buf' = JunkBuf
  /\ f_blk' = [i \in Levels |-> Empty]
  /\ f_blkno' = [i \in Levels |-> -1]

(* The root's is not checked as the others are: 1 is no failure here. *)
ReadRoot ==
  /\ pc = "root"
  /\ \/ ReadOk /\ read_inode(ROOTINO)
     \/ /\ ReadFails
        /\ UNCHANGED << ic, f_buf, f_blk, f_blkno >>
  /\ pc' = "component"
  /\ UNCHANGED << vol, mounted, f_nindir, search, m, g, ret, opens, reads >>

Component ==
  /\ pc = "component"
  /\ path # << >>
  /\ IF ic.mode # "dir" THEN Return("open", -1) ELSE pc' = "search" /\ UNCHANGED ret
  /\ parent' = inumber
  /\ offset' = 0
  /\ UNCHANGED << vol, mounted, file, path, inumber, nlinks, blockoffset, m, g, seen, bad, counts >>

Reach ==
  LET mult[i \in Levels] == IF i = 0 THEN NINDIR ELSE mult[i - 1] * NINDIR
  IN  mult

(* The end of ufs_open: only now are the reaches of the indirect levels     *)
(* computed.                                                                *)
OpenDone ==
  /\ pc = "component"
  /\ path = << >>
  /\ f_nindir' = Reach
  /\ Return("open", 0)
  /\ UNCHANGED << vol, mounted, ic, f_blk, f_blkno, f_buf, search, m, g, seen, bad, counts >>

----------------------------------------------------------------------------
(* block_map of file block b: direct, or down from the level that reaches   *)
(* it.                                                                      *)
Direct(b) == b < NDADDR
Before ==
  LET sum[i \in Levels] == IF i = 0 THEN 0 ELSE sum[i - 1] + f_nindir[i - 1]
  IN  sum
LevelOf(b) == {i \in Levels : /\ b - NDADDR - Before[i] < f_nindir[i]
                              /\ \A j \in 0 .. i - 1 : b - NDADDR - Before[j] >= f_nindir[j]}

Mapped(num) == m' = [m EXCEPT !.num = num]
MapStart(b) ==
  IF Direct(b) THEN Mapped(ic.db[b + 1]) /\ pc' = "mapped"
  ELSE IF LevelOf(b) = {} THEN Mapped(-1) /\ pc' = "mapped"
  ELSE \E i \in LevelOf(b) :
         /\ m' = [level |-> i, fb |-> b - NDADDR - Before[i], num |-> ic.ib[i + 1]]
         /\ pc' = "map"

(* The pointer at idx of a buffer; of one nothing was read into, anything. *)
Pointers(buf, idx) == IF buf = Empty THEN {0, -1} ELSE {buf[idx + 1]}

Index == IF m.level > 0 THEN m.fb \div f_nindir[m.level - 1] ELSE m.fb
Rest == IF m.level > 0 THEN m.fb % f_nindir[m.level - 1] ELSE 0
Descend(buf) ==
  \E num \in Pointers(buf, Index) :
    /\ m' = [level |-> m.level - 1, fb |-> Rest, num |-> num]
    /\ pc' = IF m.level = 0 THEN "mapped" ELSE "map"

(* Mutant: any indirect block read before will do. *)
CachedAny == f_blk[m.level] # Empty

(* The indirect block is the one the level's buffer holds. *)
Cached == f_blkno[m.level] = m.num

block_map ==
  /\ pc = "map"
  /\ \/ /\ m.num = 0
        /\ pc' = "mapped"
        /\ ReadOk
        /\ UNCHANGED << m, f_blk, f_blkno >>
     \/ /\ m.num # 0
        /\ Cached
        /\ Descend(f_blk[m.level])
        /\ ReadOk
        /\ UNCHANGED << f_blk, f_blkno >>
     \/ /\ m.num # 0
        /\ ~Cached
        /\ \/ \E buf \in {IF m.num \in DOMAIN vol.ind THEN vol.ind[m.num] ELSE Empty} :
                /\ f_blk' = [f_blk EXCEPT ![m.level] = buf]
                /\ f_blkno' = [f_blkno EXCEPT ![m.level] = m.num]
                /\ Descend(buf)
                /\ ReadOk
           \/ /\ f_blk' = [f_blk EXCEPT ![m.level] = Empty]
              /\ Mapped(-1)
              /\ pc' = "mapped"
              /\ ReadFails
              /\ UNCHANGED f_blkno
  /\ UNCHANGED << vol, mounted, ic, f_nindir, f_buf, search, g, ret, opens, reads >>

----------------------------------------------------------------------------
(* breadi: nblks blocks from blkno, grouped into runs of fragments that     *)
(* follow each other on the disk.                                           *)
breadi(back, b, n) ==
  /\ g' = [NoRun EXCEPT !.back = back, !.from = b, !.count = n, !.blkno = b, !.nblks = n]
  /\ pc' = "run"

StartRun ==
  /\ pc = "run"
  /\ g.nblks > 0
  /\ g' = [g EXCEPT !.start = g.blkno, !.frags = 0]
  /\ MapStart(g.blkno)
  /\ UNCHANGED << vol, mounted, file, search, ret, seen, bad, counts >>

Fresh == g.blkno = g.start
Extends == Fresh \/ m.num = g.first + g.frags
Extended == [g EXCEPT !.first = IF Fresh THEN m.num ELSE @, !.frags = @ + FragsOf(ic, g.blkno),
                      !.blkno = @ + 1, !.nblks = @ - 1]
(* Mutant: one block more than asked for. *)
ExtendRunTooFar ==
  /\ pc = "mapped"
  /\ Extends
  /\ g' = Extended
  /\ IF g.nblks = 0 THEN pc' = "transfer" /\ UNCHANGED m ELSE MapStart(g.blkno + 1)
  /\ UNCHANGED << vol, mounted, file, search, ret, seen, bad, counts >>

ExtendRun ==
  /\ pc = "mapped"
  /\ Extends
  /\ g' = Extended
  /\ IF g.nblks = 1 THEN pc' = "transfer" /\ UNCHANGED m ELSE MapStart(g.blkno + 1)
  /\ UNCHANGED << vol, mounted, file, search, ret, seen, bad, counts >>

RunEnds ==
  /\ pc = "mapped"
  /\ ~Extends
  /\ pc' = "transfer"
  /\ UNCHANGED << vol, mounted, file, search, m, g, ret, seen, bad, counts >>

(* Into the caller's buffer; what the read does not reach stays as it was. *)
IntoBuffer(data) ==
  f_buf' = IF g.back # "scan" THEN f_buf
           ELSE [u \in DOMAIN f_buf |->
                  IF u < FragUnits * Len(data) THEN Cell(vol, data[(u \div FragUnits) + 1], u % FragUnits)
                  ELSE f_buf[u]]
Arrives(data) == g' = [g EXCEPT !.data = @ \o data] /\ IntoBuffer(data) /\ pc' = "run"
Hole == [i \in 1 .. g.frags |-> 0]
FromDisk == [i \in 1 .. g.frags |-> IF g.first = -1 THEN -1 ELSE g.first + i - 1]

(* A run that fails ends the call; -1, where block_map failed, is read as   *)
(* an address like any other.                                               *)
BreadFails == IF g.back = "scan" THEN Return("open", -1) ELSE Return("bread", -1)
Transfer ==
  /\ pc = "transfer"
  /\ \/ g.first = 0 /\ Arrives(Hole) /\ ReadOk /\ UNCHANGED ret
     \/ g.first # 0 /\ Arrives(FromDisk) /\ ReadOk /\ UNCHANGED ret
     \/ g.first # 0 /\ BreadFails /\ ReadFails /\ UNCHANGED << g, f_buf >>
     \/ g.first = -1 /\ BreadFails /\ ReadOk /\ UNCHANGED << g, f_buf >>
  /\ UNCHANGED << vol, mounted, ic, f_nindir, f_blk, f_blkno, search, m, opens, reads >>

(* ufs_bread is breadi; it asks neither how long the file is nor whether    *)
(* one is open, so it is only called here after an open.  Descriptor 5003   *)
(* is outside of the table.                                                 *)
NoFile == ret.call = "open" /\ ret.val = FS_SYMLINK_LOOP
ufs_bread ==
  /\ pc = "idle"
  /\ ret.call \in {"open", "bread"} /\ ret.val >= 0
  /\ ~NoFile
  /\ reads < MaxReads
  /\ reads' = reads + 1
  /\ \E b \in 0 .. (ic.size \div BlockUnits) + 1, n \in 1 .. MaxRun : breadi("bread", b, n)
  /\ UNCHANGED << vol, mounted, file, search, m, ret, seen, bad, opens, failures >>

BreadFaults ==
  /\ pc = "idle"
  /\ NoFile
  /\ pc' = "fault"
  /\ UNCHANGED << vol, mounted, file, search, m, g, ret, seen, bad, counts >>

BreadDone ==
  /\ pc = "run"
  /\ g.nblks = 0
  /\ g.back = "bread"
  /\ Return("bread", Len(g.data))
  /\ UNCHANGED << vol, mounted, file, search, m, g, seen, bad, counts >>

(* ufs_close clears an inuse that nothing sets, readdir and fstat refuse. *)
ufs_close ==
  /\ pc = "idle"
  /\ ret.call \in {"open", "bread"}
  /\ Return("close", 0)
  /\ UNCHANGED << vol, mounted, file, search, m, g, seen, bad, counts >>

----------------------------------------------------------------------------
(* Mutant: the last block of a directory is left out. *)
SearchBlockShort ==
  /\ pc = "search"
  /\ IF offset + BlockUnits >= ic.size THEN Return("open", -1) /\ UNCHANGED g
     ELSE breadi("scan", offset \div BlockUnits, 1) /\ UNCHANGED ret
  /\ blockoffset' = 0
  /\ UNCHANGED << vol, mounted, file, path, inumber, parent, nlinks, offset, m, seen, bad, counts >>

(* search_dir: the directory block by block through f_buf. *)
SearchBlock ==
  /\ pc = "search"
  /\ IF offset >= ic.size THEN Return("open", -1) /\ UNCHANGED g
     ELSE breadi("scan", offset \div BlockUnits, 1) /\ UNCHANGED ret
  /\ blockoffset' = 0
  /\ UNCHANGED << vol, mounted, file, path, inumber, parent, nlinks, offset, m, seen, bad, counts >>

BlockIn ==
  /\ pc = "run"
  /\ g.nblks = 0
  /\ g.back = "scan"
  /\ pc' = "scan"
  /\ UNCHANGED << vol, mounted, file, search, m, g, ret, seen, bad, counts >>

(* Mutant: deleted entries count. *)
FoundDeleted == f_buf[blockoffset].name = Head(path)

Found == LET e == f_buf[blockoffset] IN e.ino # 0 /\ e.name = Head(path)
(* Mutant: the offset is not advanced. *)
NextEntrySame == {blockoffset}

NextEntry ==
  LET len == f_buf[blockoffset].reclen
  IN {blockoffset + l : l \in IF len = -1 THEN 0 .. BlockUnits ELSE {len}}

search_dir ==
  /\ pc = "scan"
  /\ \/ /\ blockoffset < BlockUnits /\ Found
        /\ inumber' = f_buf[blockoffset].ino
        /\ pc' = "next"
        /\ UNCHANGED << offset, blockoffset, seen >>
     \/ /\ blockoffset < BlockUnits /\ ~Found
        /\ blockoffset' \in NextEntry
        /\ seen' = [seen EXCEPT !.past = @ \/ f_buf[blockoffset].reclen <= 0]
        /\ UNCHANGED << inumber, offset, pc >>
     \/ /\ blockoffset >= BlockUnits
        /\ offset' = offset + BlockUnits
        /\ pc' = "search"
        /\ UNCHANGED << inumber, blockoffset, seen >>
  /\ UNCHANGED << vol, mounted, file, path, parent, nlinks, m, g, ret, bad, counts >>

(* The inode of the component found. *)
Descended ==
  /\ pc = "next"
  /\ path' = Tail(path)
  /\ \/ /\ ReadOk
        /\ read_inode(inumber)
        /\ pc' = IF vol.inode[inumber].mode = "link" THEN "link" ELSE "component"
        /\ UNCHANGED ret
     \/ ReadFails /\ Return("open", -1) /\ UNCHANGED << ic, f_buf, f_blk, f_blkno >>
  /\ UNCHANGED << vol, mounted, f_nindir, inumber, parent, nlinks, offset, blockoffset, m, g,
                  opens, reads >>

(* A symbolic link.  The length of the path behind it is strlen of cp,      *)
(* which is NULL for the first link: the read faults, or whatever lies at 0 *)
(* is too long, or the link is followed with a path nobody wrote.  Too many *)
(* links return a positive number, which callers take for a descriptor.     *)
Link ==
  /\ pc = "link"
  /\ seen' = [seen EXCEPT !.link = TRUE]
  /\ \/ /\ pc' = "fault"
        /\ UNCHANGED << ret, nlinks >>
     \/ Return("open", -1) /\ UNCHANGED nlinks
     \/ /\ nlinks' = nlinks + 1
        /\ IF nlinks' > MAXSYMLINKS THEN Return("open", FS_SYMLINK_LOOP)
           ELSE pc' = "relink" /\ UNCHANGED ret
  /\ UNCHANGED << vol, mounted, file, path, inumber, parent, offset, blockoffset, m, g, bad, counts >>

(* The text of the link read over the path, then its start: the parent for  *)
(* a relative link, the root for an absolute one.                           *)
FollowLink ==
  /\ pc = "relink"
  /\ \/ /\ ReadOk
        /\ \E start \in {parent, ROOTINO}, rest \in {<< >>} \cup vol.want :
             /\ inumber' = start
             /\ path' = rest
             /\ read_inode(start)
        /\ pc' = "component"
        /\ UNCHANGED ret
     \/ /\ ReadFails /\ Return("open", -1)
        /\ UNCHANGED << inumber, path, ic, f_buf, f_blk, f_blkno >>
  /\ UNCHANGED << vol, mounted, f_nindir, parent, nlinks, offset, blockoffset, m, g, opens, reads >>

----------------------------------------------------------------------------
Step ==
  \/ ReadRoot \/ Component \/ OpenDone \/ block_map \/ StartRun \/ ExtendRun \/ RunEnds
  \/ Transfer \/ BreadDone \/ SearchBlock \/ BlockIn \/ search_dir \/ Descended \/ Link
  \/ FollowLink

Next == ufs_mount \/ ufs_open \/ ufs_bread \/ BreadFaults \/ ufs_close \/ Step

(* Nothing interrupts the driver; what it calls comes back. *)
Fairness == WF_vars(Step)

Spec == Init /\ [][Next]_vars /\ Fairness

----------------------------------------------------------------------------
Inodes == {vol.inode[i] : i \in DOMAIN vol.inode}
Busy == pc \notin {"idle", "fault"}

TypeOK ==
  /\ vol \in Vols /\ mounted \in BOOLEAN
  /\ ic \in Inodes
  /\ \A l \in Levels : f_blkno[l] \in Int /\ Len(f_blk[l]) <= NINDIR
  /\ DOMAIN f_buf = 0 .. BlockUnits - 1
  /\ nlinks \in 0 .. MAXSYMLINKS + 1
  /\ m.level \in -1 .. NIADDR - 1
  /\ g.nblks \in 0 .. MaxRun /\ g.blkno + g.nblks = g.from + g.count
  /\ Len(g.data) <= Frags * MaxRun
  /\ failures \in 0 .. MaxFailures

(* An open that succeeds, follows no link and could read the root has the   *)
(* inode of the file its path names in hand, whatever failed on the way.    *)
(* A root that cannot be read goes unnoticed: read_inode answers 1, and     *)
(* ufs_open asks for < 0.                                                   *)
NamedFile ==
  (/\ pc = "idle" /\ ret.call = "open" /\ ret.val >= 0
   /\ ~seen.link /\ ~seen.root) =>
    /\ ret.path \in DOMAIN vol.where
    /\ ic = vol.inode[vol.where[ret.path]]

(* A file that is there is opened when no read fails, without a step into   *)
(* what is no entry, if no link and no entry beyond the direct blocks of a  *)
(* directory is on the way.  The reaches of the indirect levels are         *)
(* computed at the end of the first open, so that later ones find their way *)
(* to such entries too.                                                     *)
FindsFile ==
  (/\ ret.call = "open" /\ ret.path \in DOMAIN vol.where
   /\ ~seen.link /\ ~seen.failed /\ (seen.sized \/ ret.path \notin vol.deep)) =>
    /\ ~seen.past
    /\ pc = "idle" => ret.val >= 0

(* The address of fragment x of the file, 0 in a hole. *)
Fragment(i, x) ==
  LET a == AddressOf(vol, i, x \div Frags)
  IN  IF a = 0 THEN 0 ELSE a + (x % Frags)

(* A read that succeeds when none failed since the file was opened brings   *)
(* the blocks asked for, in order and whole, as far as the file goes:       *)
(* grouped runs, holes, the cut last block, and indirect blocks that the    *)
(* file structure kept from earlier calls.                                  *)
ReadsRight ==
  (pc = "idle" /\ ret.call = "bread" /\ ret.val >= 0 /\ ~bad) =>
    \A x \in g.from * Frags .. (g.from + g.count) * Frags - 1 :
      x * FragUnits < ic.size =>
        /\ x - g.from * Frags < Len(g.data)
        /\ g.data[x - g.from * Frags + 1] = Fragment(ic, x)

(* Every call comes back, but for a search that steps into what is no entry *)
(* (a length of 0 keeps it there) and a link that faults.                   *)
CallsReturn == Busy ~> (~Busy \/ seen.past)

(* ufs_open: it opens the file that was named and nothing else, and it does *)
(* open it unless a read or a known defect is in the way.                   *)
OpensRight == TypeOK /\ NamedFile /\ FindsFile
============================================================================
