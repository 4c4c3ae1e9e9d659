----------------------------- MODULE Ext2Proofs -----------------------------
(* The slots of the ext2 driver, for every number of slots, every volume    *)
(* and every sequence of calls and read errors.                             *)
EXTENDS Ext2, WellFoundedInduction, FiniteSetTheorems, TLAPS

SlotInv == SlotTypes /\ SlotsAccounted

USE SlotsAssumption

LEMMA Types ==
  /\ NoVol \notin Vols /\ NoIno \notin Inos /\ RootIno \in Inos
  /\ \A v \in Vols : Inode[v][RootIno].type = "dir"
  /\ \A v \in Vols, n \in Inos, x \in Names : Entry[v][n][x] \in Inos \union {NoIno}
  /\ \A v \in Vols, n \in Inos : Link[v][n].path \in Seq(Names)
  /\ Paths \subseteq Seq(Names) /\ << >> \in Paths /\ NoName \notin Paths
BY VolumesAssumption, PathsAssumption

LEMMA NoSlotNotSlot == NoSlot \notin Slots
BY DEF NoSlot, Slots

LEMMA InitSlots == Init => SlotInv
BY Types, NoSlotNotSlot DEF Init, SlotInv, SlotTypes, SlotsAccounted, InUse, RootSlot, InHand, fds

(* A step of a read leaves the slots and the locals of ext2_open alone. *)
LEMMA ReadFrame ==
  ASSUME SlotInv, pc # "namei", pc' \in {"idle", "first", "next", "xfer", "runaway"},
         UNCHANGED << vol, openvars, slotvars >>
  PROVE  SlotInv'
BY DEF SlotInv, SlotTypes, SlotsAccounted, InUse, RootSlot, InHand, fds, openvars, slotvars

(* ext2_iput of the directory leaves the slots of the others. *)
LEMMA ReleasedSlots ==
  ASSUME SlotInv, pc = "namei", dir_inode # NoSlot
  PROVE  /\ Released \in [Slots -> Inos \union {NoIno}]
         /\ {s \in Slots : Released[s] # NoIno} = RootSlot \union fds \union lost
         /\ \A s \in Slots : Released[s] # NoIno => Released[s] = table[s]
BY Types DEF Released, SlotInv, SlotTypes, SlotsAccounted, InUse, RootSlot, InHand

LEMMA NextSlots == SlotInv /\ [Next]_vars => SlotInv'
<1> SUFFICES ASSUME SlotInv, [Next]_vars PROVE SlotInv'
  OBVIOUS
<1> USE NoSlotNotSlot DEF SlotInv
<1>1. ASSUME NEW v \in Vols, ext2_mount(v) PROVE SlotInv'
  BY <1>1, Types DEF ext2_mount, ClearTable, openvars, SlotTypes, SlotsAccounted, InUse, RootSlot, InHand, fds
<1>2. ASSUME NEW p \in Paths, ext2_open(p) PROVE SlotInv'
  BY <1>2, Types DEF ext2_open, slotvars, SlotTypes, SlotsAccounted, InUse, RootSlot, InHand, fds
<1>3. CASE NameiRoot
  <2>1. CASE root # NoSlot
    BY <1>3, <2>1 DEF NameiRoot, SlotTypes, SlotsAccounted, InUse, RootSlot, InHand, fds
  <2>2. CASE root = NoSlot
    BY <1>3, <2>2, Types, SMTT(30) DEF NameiRoot, OpenFails, LeaveOpen, IsFirstFree, FreeSlots, SlotTypes, SlotsAccounted, InUse, RootSlot, InHand, fds
  <2> QED BY <2>1, <2>2
<1>4. CASE Lookup
  <2> pc = "namei" /\ dir_inode # NoSlot /\ vol \in Vols /\ dir_inode \in Slots
    BY <1>4 DEF Lookup, SlotTypes
  <2>0. table[dir_inode] \in Inos
    BY Types DEF SlotTypes, SlotsAccounted, InUse, InHand
  <2> DEFINE n == Entry[vol][table[dir_inode]][Head(path)]
  <2>a. path # << >> /\ Head(path) \in Names /\ Tail(path) \in Seq(Names)
    BY <1>4 DEF Lookup, SlotTypes
  <2>b. n \in Inos \union {NoIno}
    BY <2>0, <2>a, Types
  <2>1. CASE n # NoIno /\ LookupFound(n)
    <3>1. PICK s \in Slots : /\ Released[s] = NoIno
                             /\ table' = [Released EXCEPT ![s] = n] /\ dir_inode' = s
      BY <2>1 DEF LookupFound
    <3>2. UNCHANGED << pc, vol, root, names, base, lost >> /\ path' = Tail(path)
      BY <1>4, <2>1 DEF Lookup, LookupFound
    <3>3. SlotTypes'
      BY <3>1, <3>2, <2>a, <2>b, ReleasedSlots DEF SlotTypes
    <3>4. InUse' = (RootSlot \union fds \union lost) \union {s}
      BY <3>1, <2>1, ReleasedSlots, Types DEF InUse
    <3>5. s \notin RootSlot \union fds \union lost
      BY <3>1, ReleasedSlots
    <3>6. root # NoSlot => table'[root] = RootIno
      BY <3>1, <3>5, ReleasedSlots DEF RootSlot, SlotsAccounted, SlotTypes
    <3> QED
      BY <3>1, <3>2, <3>3, <3>4, <3>5, <3>6 DEF SlotsAccounted, RootSlot, fds, InHand
  <2>2. CASE LookupFails
    <3>1. table' = Released /\ pc' = "idle" /\ base' = << >> /\ path' = << >> /\ dir_inode' = NoSlot
      BY <2>2 DEF LookupFails, OpenFails, LeaveOpen
    <3>2. UNCHANGED << vol, root, names, lost >>
      BY <1>4, <2>2 DEF Lookup, LookupFails
    <3>3. SlotTypes'
      BY <3>1, <3>2, ReleasedSlots, Types DEF SlotTypes
    <3>4. InUse' = RootSlot \union fds \union lost
      BY <3>1, ReleasedSlots DEF InUse
    <3>5. root # NoSlot => table'[root] = RootIno
      BY <3>1, ReleasedSlots DEF RootSlot, SlotsAccounted, SlotTypes
    <3> QED
      BY <3>1, <3>2, <3>3, <3>4, <3>5 DEF SlotsAccounted, RootSlot, fds, InHand
  <2> QED BY <1>4, <2>1, <2>2 DEF Lookup
<1>5. CASE ext2_follow_link
  <2> pc = "namei" /\ dir_inode # NoSlot /\ vol \in Vols /\ dir_inode \in Slots
    BY <1>5 DEF ext2_follow_link, SlotTypes
  <2>1. table[dir_inode] \in Inos
    BY Types DEF SlotTypes, SlotsAccounted, InUse, InHand
  <2>2. dir_inode # root
    BY <1>5, Types DEF ext2_follow_link, SlotsAccounted
  <2>3. Target(table[dir_inode]) \in Seq(Names)
    BY <2>1, Types DEF Target, SlotTypes
  <2>4. /\ lost' = lost \union {dir_inode} /\ UNCHANGED << vol, table, root, names >>
        /\ dir_inode' = NoSlot
    BY <1>5, <2>2 DEF ext2_follow_link, FollowLink, OpenFails, LeaveOpen, Held
  <2>5. SlotTypes'
    BY <1>5, <2>3, <2>4, Types DEF ext2_follow_link, FollowLink, OpenFails, LeaveOpen, SlotTypes
  <2> QED
    BY <2>2, <2>4, <2>5 DEF SlotsAccounted, InUse, RootSlot, InHand, fds
<1>6. CASE Opened
  BY <1>6, Types DEF Opened, LeaveOpen, SlotTypes, SlotsAccounted, InUse, RootSlot, InHand, fds
<1>7. ASSUME NEW fd \in Slots, ext2_close(fd) PROVE SlotInv'
  BY <1>7, Types DEF ext2_close, openvars, SlotTypes, SlotsAccounted, InUse, RootSlot, InHand, fds
<1>8. ASSUME NEW fd \in Slots, NEW b \in 0 .. MaxBlkno, NEW n \in 1 .. MaxRun,
            ext2_bread(fd, b, n) \/ ext4_bread(fd, b, n)
      PROVE SlotInv'
  BY <1>8, ReadFrame DEF ext2_bread, ext4_bread
<1>9. CASE breadFirst \/ breadNext \/ breadXfer \/ breadRunsOn
  BY <1>9, ReadFrame DEF breadFirst, breadNext, breadXfer, breadRunsOn, Returns
<1>10. CASE UNCHANGED vars
  BY <1>10 DEF vars, openvars, slotvars, SlotTypes, SlotsAccounted, InUse, RootSlot, InHand, fds
<1> QED BY <1>1, <1>2, <1>3, <1>4, <1>5, <1>6, <1>7, <1>8, <1>9, <1>10 DEF Next, Driver, BootLoop

(* Every slot of inode_table that is in use is the root's, an open          *)
(* descriptor's, the lookup's or was lost by following a link.              *)
THEOREM SlotsInvariance == Spec => []SlotsAccounted
<1>1. Spec => []SlotInv
  BY InitSlots, NextSlots, PTL DEF Spec
<1> QED BY <1>1, PTL DEF SlotInv
-----------------------------------------------------------------------------
(* Reading *)

Reading == pc \in {"first", "next", "xfer", "runaway"}

Caches == [no : Blk \union {-1}, buf : {Junk} \union (Vols \X Blk)]

Rds == [ino : Inos \union {NoIno}, blkno : Nat, nblks : Int,
        dev : Blk \union {0}, n : Nat, out : Seq({Zeros} \union (Vols \X Nat))]

ReadTypes ==
  /\ mounts \in 0 .. MaxMounts /\ erred \in BOOLEAN
  /\ iblk \in Caches /\ diblk \in Caches
  /\ rd \in Rds
  /\ mounts = 0 => vol = NoVol /\ iblk.no = -1 /\ diblk.no = -1
  /\ vol = NoVol => fds = {} /\ ~Reading /\ result # "read"
  /\ pc # "idle" => result = "none"
  /\ Reading => rd.ino \in Inos /\ ~Inode[vol][rd.ino].extents

(* A cache that names a block holds that block of the mounted volume. *)
Fresh(c) == c.no # -1 => c.buf = << vol, c.no >>

FirstMount == mounts = 1 /\ ~erred /\ vol # NoVol

CachesFresh == FirstMount => Fresh(iblk) /\ Fresh(diblk)

At(off) == Mapped(vol, Inode[vol][rd.ino], off)

Content(b) == IF b = 0 THEN Zeros ELSE << vol, b >>

(* What has been transferred and the run of blocks to be transferred next   *)
(* are the blocks of the file before rd.blkno.  A hole is a run of its own. *)
ReadSoFar ==
  Reading /\ FirstMount =>
    /\ Len(rd.out) + rd.n <= rd.blkno
    /\ \A k \in 1 .. Len(rd.out) :
         rd.out[k] = Content(At(rd.blkno - rd.n - Len(rd.out) + k - 1))
    /\ \A k \in 1 .. rd.n :
         At(rd.blkno - rd.n + k - 1) = IF rd.dev = 0 THEN 0 ELSE rd.dev + k - 1
    /\ rd.dev = 0 => rd.n <= 1
    /\ pc = "first" => rd.n = 0

ReadInv == SlotInv /\ ReadTypes /\ CachesFresh /\ ReadSoFar /\ FirstMountReads

LEMMA VolumeTypes ==
  /\ BlockSize \in Nat /\ NDir \in Nat \ {0} /\ PtrsPerBlk \in Nat \ {0}
  /\ Blk \subseteq Nat /\ 0 \notin Blk /\ 1 \notin Blk
  /\ \A v \in Vols, n \in Inos :
       /\ \A k \in 0 .. NDir - 1 : Inode[v][n].block[k] \in Blk \union {0}
       /\ Inode[v][n].ind \in Blk \union {0} /\ Inode[v][n].dind \in Blk \union {0}
       /\ Inode[v][n].start \in Nat /\ Inode[v][n].len \in Nat /\ Inode[v][n].size \in Nat
  /\ \A v \in Vols, b \in Blk, k \in 0 .. PtrsPerBlk - 1 : Pointers[v][b][k] \in Blk \union {0}
<1>1. /\ BlockSize \in Nat /\ NDir \in Nat \ {0} /\ PtrsPerBlk \in Nat \ {0}
      /\ Blk \subseteq Nat /\ 0 \notin Blk /\ 1 \notin Blk
  BY GeometryAssumption
<1>2. ASSUME NEW v \in Vols, NEW n \in Inos PROVE Inode[v][n] \in InodeTypes
  BY VolumesAssumption
<1>3. ASSUME NEW v \in Vols, NEW n \in Inos
      PROVE  /\ \A k \in 0 .. NDir - 1 : Inode[v][n].block[k] \in Blk \union {0}
             /\ Inode[v][n].ind \in Blk \union {0} /\ Inode[v][n].dind \in Blk \union {0}
             /\ Inode[v][n].start \in Nat /\ Inode[v][n].len \in Nat /\ Inode[v][n].size \in Nat
  BY <1>1, <1>2 DEF InodeTypes
<1>4. ASSUME NEW v \in Vols, NEW b \in Blk, NEW k \in 0 .. PtrsPerBlk - 1
      PROVE  Pointers[v][b][k] \in Blk \union {0}
  <2>1. Pointers[v] \in [Blk -> [0 .. PtrsPerBlk - 1 -> Blk \union {0}]]
    BY VolumesAssumption
  <2> QED BY <2>1
<1> QED BY <1>1, <1>3, <1>4

(* Where a block's pointer is in its indirect blocks. *)
LEMMA PointerIndex ==
  ASSUME NEW off \in Nat, ~(off <= directlim)
  PROVE  /\ off <= ind1lim => off - (directlim + 1) \in 0 .. PtrsPerBlk - 1
         /\ ~(off <= ind1lim) /\ ~(off > ind2lim) =>
              /\ (off - (ind1lim + 1)) \div PtrsPerBlk \in 0 .. PtrsPerBlk - 1
              /\ (off - (ind1lim + 1)) % PtrsPerBlk \in 0 .. PtrsPerBlk - 1
<1> USE GeometryAssumption
<1>1. off <= ind1lim => off - (directlim + 1) \in 0 .. PtrsPerBlk - 1
  BY DEF directlim, ind1lim
<1>2. ASSUME ~(off <= ind1lim), ~(off > ind2lim)
      PROVE  off - (ind1lim + 1) \in Nat /\ off - (ind1lim + 1) < PtrsPerBlk * PtrsPerBlk
  BY <1>2 DEF directlim, ind1lim, ind2lim
<1>3. ASSUME NEW k \in Nat, NEW p \in Nat \ {0}, k < p * p
      PROVE  k \div p \in 0 .. p - 1 /\ k % p \in 0 .. p - 1
  <2>1. k \div p \in Nat
    OBVIOUS
  <2>2. k \div p < p
    BY <1>3
  <2>3. k % p \in 0 .. p - 1
    OBVIOUS
  <2> QED BY <2>1, <2>2, <2>3
<1> QED BY <1>1, <1>2, <1>3

(* A pair is not the empty sequence that stands for junk. *)
LEMMA PairNotJunk == ASSUME NEW a, NEW b PROVE << a, b >> # Junk
BY DEF Junk

(* What the pointer table of an indirect block gives. *)
Pointed(b, k) == IF b = 0 THEN 0 ELSE Pointers[vol][b][k]

(* A cache with a block wanted. *)
LEMMA CacheServes ==
  ASSUME vol \in Vols, NEW c \in Caches, NEW b \in Blk, NEW r \in CacheAfter(c, b),
         NEW k \in 0 .. PtrsPerBlk - 1
  PROVE  /\ r.ok \in BOOLEAN /\ r.c \in Caches
         /\ PointerIn(r.c.buf, k) \subseteq Blk \union {0}
         /\ Fresh(c) /\ r.ok => Fresh(r.c) /\ PointerIn(r.c.buf, k) = {Pointers[vol][b][k]}
<1>1. r.ok \in BOOLEAN /\ r.c \in Caches
  <2>1. c.no \in Blk \union {-1} /\ c.buf \in {Junk} \union (Vols \X Blk)
    BY DEF Caches
  <2>2. ReadFailed(c, b) \in Caches
    BY DEF ReadFailed, Caches
  <2>3. [no |-> b, buf |-> << vol, b >>] \in Caches
    BY DEF Caches
  <2>4. CASE r = [ok |-> TRUE, c |-> c]
    BY <2>4, Zenon
  <2>5. CASE r = [ok |-> TRUE, c |-> [no |-> b, buf |-> << vol, b >>]]
    BY <2>3, <2>5, Zenon
  <2>6. CASE r = [ok |-> FALSE, c |-> ReadFailed(c, b)]
    BY <2>2, <2>6, Zenon
  <2> QED BY <2>4, <2>5, <2>6 DEF CacheAfter
<1>2. PointerIn(r.c.buf, k) \subseteq Blk \union {0}
  <2>1. CASE r.c.buf = Junk
    BY <2>1 DEF PointerIn
  <2>2. CASE r.c.buf # Junk
    <3>1. r.c.buf[1] \in Vols /\ r.c.buf[2] \in Blk
      BY <1>1, <2>2 DEF Caches
    <3>2. Pointers[r.c.buf[1]][r.c.buf[2]][k] \in Blk \union {0}
      BY <3>1, VolumeTypes
    <3> QED BY <2>2, <3>2, Zenon DEF PointerIn
  <2> QED BY <2>1, <2>2
<1>3. ASSUME Fresh(c), r.ok PROVE r.c.no = b /\ r.c.buf = << vol, b >>
  BY <1>3, VolumeTypes DEF CacheAfter, Hit, Fresh, Caches
<1>4. ASSUME Fresh(c), r.ok PROVE Fresh(r.c) /\ PointerIn(r.c.buf, k) = {Pointers[vol][b][k]}
  <2>1. r.c.buf # Junk /\ r.c.buf[1] = vol /\ r.c.buf[2] = b
    BY <1>3, <1>4, PairNotJunk
  <2> QED BY <1>3, <1>4, <2>1, Zenon DEF PointerIn, Fresh
<1> QED BY <1>1, <1>2, <1>4

LEMMA ThroughRight ==
  ASSUME vol \in Vols, iblk \in Caches, NEW d, NEW b \in Blk \union {0},
         NEW k \in 0 .. PtrsPerBlk - 1, NEW o \in ThroughIndirect(b, d, k)
  PROVE  /\ o.b \in Blk \union {0} /\ o.i \in Caches /\ o.d = d /\ o.err \in BOOLEAN
         /\ Fresh(iblk) /\ ~o.err => o.b = Pointed(b, k) /\ Fresh(o.i)
<1>1. CASE b = 0
  <2>1. o = Outcome(0, iblk, d, FALSE)
    BY <1>1, Zenon DEF ThroughIndirect
  <2>2. o.b = 0 /\ o.i = iblk /\ o.d = d /\ o.err = FALSE
    BY <2>1, Zenon DEF Outcome
  <2> QED BY <1>1, <2>2, Zenon DEF Pointed
<1>2. CASE b # 0
  <2>1. b \in Blk
    BY <1>2
  <2>2. PICK r \in CacheAfter(iblk, b) :
          o \in IF r.ok THEN {Outcome(x, r.c, d, FALSE) : x \in PointerIn(r.c.buf, k)}
                ELSE {Outcome(0, r.c, d, TRUE)}
    BY <1>2 DEF ThroughIndirect
  <2>3. /\ r.ok \in BOOLEAN /\ r.c \in Caches
        /\ PointerIn(r.c.buf, k) \subseteq Blk \union {0}
        /\ Fresh(iblk) /\ r.ok => Fresh(r.c) /\ PointerIn(r.c.buf, k) = {Pointers[vol][b][k]}
    BY <2>1, CacheServes
  <2>4. CASE r.ok
    <3>1. PICK x \in PointerIn(r.c.buf, k) : o = Outcome(x, r.c, d, FALSE)
      BY <2>2, <2>4, Zenon
    <3>2. o.b = x /\ o.i = r.c /\ o.d = d /\ o.err = FALSE
      BY <3>1, Zenon DEF Outcome
    <3>3. x \in Blk \union {0}
      BY <2>3
    <3> QED BY <1>2, <2>3, <2>4, <3>2, <3>3, Zenon DEF Pointed
  <2>5. CASE ~r.ok
    <3>1. o = Outcome(0, r.c, d, TRUE)
      BY <2>2, <2>5, Zenon
    <3>2. o.b = 0 /\ o.i = r.c /\ o.d = d /\ o.err = TRUE
      BY <3>1, Zenon DEF Outcome
    <3> QED BY <2>3, <3>2, Zenon
  <2> QED BY <2>4, <2>5, Zenon
<1> QED BY <1>1, <1>2

(* ext2_blkno returns the block the file has at an offset if its caches     *)
(* hold the blocks they name and no read fails, and it keeps the caches so. *)
LEMMA BlknoRight ==
  ASSUME vol \in Vols, iblk \in Caches, diblk \in Caches, NEW n \in Inos,
         NEW off \in Nat, NEW o \in ext2_blkno(Inode[vol][n], off)
  PROVE  /\ o.b \in Blk \union {0} /\ o.i \in Caches /\ o.d \in Caches /\ o.err \in BOOLEAN
         /\ Fresh(iblk) /\ Fresh(diblk) /\ ~o.err =>
              o.b = Mapped(vol, Inode[vol][n], off) /\ Fresh(o.i) /\ Fresh(o.d)
<1> DEFINE ip == Inode[vol][n]
           k == off - (ind1lim + 1)
<1>0. directlim \in Int /\ ind1lim \in Int /\ ind2lim \in Int /\ directlim <= ind1lim
  BY GeometryAssumption DEF directlim, ind1lim, ind2lim
<1>1. CASE off <= directlim
  <2>1. o = Outcome(ip.block[off], iblk, diblk, FALSE)
    BY <1>1, Zenon DEF ext2_blkno
  <2>2. o.b = ip.block[off] /\ o.i = iblk /\ o.d = diblk /\ o.err = FALSE
    BY <2>1, Zenon DEF Outcome
  <2>3. ip.block[off] \in Blk \union {0}
    BY <1>1, VolumeTypes DEF directlim
  <2>4. Mapped(vol, ip, off) = ip.block[off]
    BY <1>0, <1>1 DEF Mapped
  <2> QED BY <2>2, <2>3, <2>4, Zenon
<1>2. CASE ~(off <= directlim) /\ off <= ind1lim
  <2>1. o \in ThroughIndirect(ip.ind, diblk, off - (directlim + 1))
    BY <1>2, Zenon DEF ext2_blkno
  <2>2. ip.ind \in Blk \union {0} /\ off - (directlim + 1) \in 0 .. PtrsPerBlk - 1
    BY <1>2, VolumeTypes, PointerIndex
  <2>3. /\ o.b \in Blk \union {0} /\ o.i \in Caches /\ o.d = diblk /\ o.err \in BOOLEAN
        /\ Fresh(iblk) /\ ~o.err => o.b = Pointed(ip.ind, off - (directlim + 1)) /\ Fresh(o.i)
    BY <2>1, <2>2, ThroughRight
  <2>4. Mapped(vol, ip, off) = Pointed(ip.ind, off - (directlim + 1))
    BY <1>0, <1>2 DEF Mapped, Pointed
  <2> QED BY <2>3, <2>4, Zenon
<1>3. CASE ~(off <= directlim) /\ ~(off <= ind1lim) /\ (off > ind2lim \/ ip.dind = 0)
  <2>1. o = Outcome(0, iblk, diblk, FALSE)
    BY <1>3, Zenon DEF ext2_blkno
  <2>2. o.b = 0 /\ o.i = iblk /\ o.d = diblk /\ o.err = FALSE
    BY <2>1, Zenon DEF Outcome
  <2>3. Mapped(vol, ip, off) = 0
    BY <1>0, <1>3 DEF Mapped
  <2> QED BY <2>2, <2>3, Zenon
<1>4. CASE ~(off <= directlim) /\ ~(off <= ind1lim) /\ ~(off > ind2lim) /\ ip.dind # 0
  <2>1. PICK r \in CacheAfter(diblk, ip.dind) :
          o \in IF r.ok
                THEN UNION {ThroughIndirect(x, r.c, k % PtrsPerBlk) :
                              x \in PointerIn(r.c.buf, k \div PtrsPerBlk)}
                ELSE {Outcome(0, iblk, r.c, TRUE)}
    BY <1>4, Zenon DEF ext2_blkno
  <2>2. /\ ip.dind \in Blk
        /\ k \div PtrsPerBlk \in 0 .. PtrsPerBlk - 1 /\ k % PtrsPerBlk \in 0 .. PtrsPerBlk - 1
    BY <1>4, VolumeTypes, PointerIndex
  <2>3. /\ r.ok \in BOOLEAN /\ r.c \in Caches
        /\ PointerIn(r.c.buf, k \div PtrsPerBlk) \subseteq Blk \union {0}
        /\ Fresh(diblk) /\ r.ok =>
             /\ Fresh(r.c)
             /\ PointerIn(r.c.buf, k \div PtrsPerBlk) = {Pointers[vol][ip.dind][k \div PtrsPerBlk]}
    BY <2>1, <2>2, CacheServes
  <2>4. Mapped(vol, ip, off) =
          Pointed(Pointers[vol][ip.dind][k \div PtrsPerBlk], k % PtrsPerBlk)
    BY <1>0, <1>4 DEF Mapped, Pointed
  <2>5. CASE r.ok
    <3>1. PICK x \in PointerIn(r.c.buf, k \div PtrsPerBlk) :
            o \in ThroughIndirect(x, r.c, k % PtrsPerBlk)
      BY <2>1, <2>5, Zenon
    <3>2. x \in Blk \union {0}
      BY <2>3, Zenon
    <3>3. /\ o.b \in Blk \union {0} /\ o.i \in Caches /\ o.d = r.c /\ o.err \in BOOLEAN
          /\ Fresh(iblk) /\ ~o.err => o.b = Pointed(x, k % PtrsPerBlk) /\ Fresh(o.i)
      BY <2>2, <3>1, <3>2, ThroughRight
    <3>4. Fresh(diblk) => Fresh(r.c) /\ x = Pointers[vol][ip.dind][k \div PtrsPerBlk]
      BY <2>3, <2>5, Zenon
    <3> QED BY <2>3, <2>4, <3>3, <3>4, Zenon
  <2>6. CASE ~r.ok
    <3>1. o = Outcome(0, iblk, r.c, TRUE)
      BY <2>1, <2>6, Zenon
    <3>2. o.b = 0 /\ o.i = iblk /\ o.d = r.c /\ o.err = TRUE
      BY <3>1, Zenon DEF Outcome
    <3> QED BY <2>3, <3>2, Zenon
  <2> QED BY <2>5, <2>6, Zenon
<1> QED BY <1>1, <1>2, <1>3, <1>4, Zenon

LEMMA NoReadTypes == Idle \in Rds /\ Nothing \in Caches
BY DEF Idle, Rds, Nothing, Caches

LEMMA InitRead == Init => ReadInv
<1> SUFFICES ASSUME Init PROVE ReadInv
  OBVIOUS
<1>1. SlotInv
  BY InitSlots
<1>2. ReadTypes
  <2>1. iblk \in Caches /\ diblk \in Caches /\ rd \in Rds
    BY NoReadTypes DEF Init
  <2>2. iblk.no = -1 /\ diblk.no = -1
    BY DEF Init, Nothing
  <2>3. mounts \in 0 .. MaxMounts
    BY MountsAssumption DEF Init
  <2> QED BY <2>1, <2>2, <2>3 DEF Init, ReadTypes, Reading, fds
<1>3. CachesFresh /\ ReadSoFar /\ FirstMountReads
  BY DEF Init, CachesFresh, FirstMount, ReadSoFar, Reading, FirstMountReads, DoneReading
<1> QED BY <1>1, <1>2, <1>3 DEF ReadInv

(* Steps outside ext2_breadi that leave the caches: nothing is being read,  *)
(* and nothing has been.                                                    *)
LEMMA NoReadFrame ==
  ASSUME ReadInv, ~Reading', result' # "read", rd' \in Rds,
         pc' # "idle" => result' = "none",
         UNCHANGED << vol, iblk, diblk, mounts >>, erred' \in {erred, TRUE},
         vol = NoVol => fds' = {}
  PROVE  ReadTypes' /\ CachesFresh' /\ ReadSoFar' /\ FirstMountReads'
<1>1. ReadTypes'
  BY DEF ReadInv, ReadTypes, Caches
<1>2. CachesFresh'
  BY Zenon DEF ReadInv, ReadTypes, CachesFresh, FirstMount, Fresh
<1>3. ReadSoFar' /\ FirstMountReads'
  BY DEF ReadSoFar, FirstMountReads, DoneReading
<1> QED BY <1>1, <1>2, <1>3

LEMMA MountReads ==
  ASSUME ReadInv, NEW v \in Vols, ext2_mount(v)
  PROVE  ReadTypes' /\ CachesFresh' /\ ReadSoFar' /\ FirstMountReads'
<1>1. pc' = "idle" /\ result' # "read" /\ rd' = Idle /\ erred' = erred /\ fds' = {}
  BY DEF ext2_mount, ClearTable, fds
<1>2. ~Reading'
  BY <1>1 DEF Reading
<1>3. CASE mounts < MaxMounts /\ mounts' = mounts + 1 /\ vol' = v /\ NewBuffers
  <2>1. iblk.no' = iblk.no /\ diblk.no' = diblk.no /\ iblk' \in Caches /\ diblk' \in Caches
    BY <1>3 DEF NewBuffers, ReadInv, ReadTypes, Caches
  <2>2. ReadTypes'
    BY <1>1, <1>2, <1>3, <2>1, NoReadTypes, Types, MountsAssumption DEF ReadInv, ReadTypes
  <2>3. CachesFresh'
    <3> SUFFICES ASSUME mounts' = 1 PROVE Fresh(iblk)' /\ Fresh(diblk)'
      BY DEF CachesFresh, FirstMount
    <3>1. mounts = 0
      BY <1>3, MountsAssumption DEF ReadInv, ReadTypes
    <3>2. iblk'.no = -1 /\ diblk'.no = -1
      BY <2>1, <3>1 DEF ReadInv, ReadTypes
    <3> QED BY <3>2 DEF Fresh
  <2> QED BY <1>1, <1>2, <2>2, <2>3 DEF ReadSoFar, FirstMountReads, DoneReading
<1>4. CASE vol' = NoVol /\ UNCHANGED << iblk, diblk, mounts >>
  <2>1. ReadTypes'
    BY <1>1, <1>2, <1>4, NoReadTypes DEF ReadInv, ReadTypes
  <2>2. CachesFresh'
    BY <1>4 DEF CachesFresh, FirstMount
  <2> QED BY <1>1, <1>2, <2>1, <2>2 DEF ReadSoFar, FirstMountReads, DoneReading
<1> QED BY <1>3, <1>4 DEF ext2_mount

LEMMA OpenReads ==
  ASSUME ReadInv,
         \/ \E p \in Paths : ext2_open(p)
         \/ \E fd \in Slots : ext2_close(fd)
         \/ NameiRoot \/ Lookup \/ ext2_follow_link \/ Opened
  PROVE  ReadTypes' /\ CachesFresh' /\ ReadSoFar' /\ FirstMountReads'
<1>0. rd \in Rds /\ (vol = NoVol => fds = {}) /\ (pc = "namei" => vol # NoVol)
  BY DEF ReadInv, ReadTypes, SlotInv, SlotTypes
<1>1. ASSUME NEW p \in Paths, ext2_open(p) PROVE ReadTypes' /\ CachesFresh' /\ ReadSoFar' /\ FirstMountReads'
  BY <1>0, <1>1, NoReadFrame, NoReadTypes DEF ext2_open, slotvars, Reading, fds
<1>2. ASSUME NEW fd \in Slots, ext2_close(fd) PROVE ReadTypes' /\ CachesFresh' /\ ReadSoFar' /\ FirstMountReads'
  BY <1>0, <1>2, NoReadFrame, NoReadTypes DEF ext2_close, Reading, fds
<1>3. CASE NameiRoot \/ Lookup \/ ext2_follow_link \/ Opened
  <2>1. /\ pc = "namei" /\ vol # NoVol /\ result = "none" /\ UNCHANGED << vol, readvars, mounts >>
        /\ erred' \in {erred, TRUE}
    BY <1>0, <1>3 DEF ReadInv, ReadTypes, NameiRoot, Lookup, LookupFound, LookupFails, OpenFails, ext2_follow_link, FollowLink, Opened
  <2>2. (pc' = "idle" /\ result' \in {"failed", "opened"}) \/ (pc' = "namei" /\ result' = result)
    BY <1>3 DEF NameiRoot, Lookup, LookupFound, LookupFails, OpenFails, ext2_follow_link, FollowLink, Opened
  <2> QED BY <1>0, <2>1, <2>2, NoReadFrame DEF readvars, Reading
<1> QED BY <1>1, <1>2, <1>3

LEMMA BreadReads ==
  ASSUME ReadInv, NEW fd \in Slots, NEW b \in 0 .. MaxBlkno, NEW n \in 1 .. MaxRun,
         ext2_bread(fd, b, n)
  PROVE  ReadTypes' /\ CachesFresh' /\ ReadSoFar' /\ FirstMountReads'
<1> DEFINE ip == Inode[vol][table[fd]]
<1>1. /\ pc' = "first" /\ result' = "none" /\ UNCHANGED << vol, table, names, iblk, diblk, mounts, erred >>
      /\ rd' = [ino |-> table[fd], blkno |-> b, nblks |-> Clamp(ip, b, n), dev |-> 0, n |-> 0, out |-> << >>]
      /\ fd \in fds /\ ~ip.extents
  BY DEF ext2_bread, slotvars
<1>2. table[fd] \in Inos /\ vol \in Vols
  BY <1>1, Types DEF ReadInv, ReadTypes, SlotInv, SlotTypes, SlotsAccounted, InUse, fds
<1>3. ip.size \in Nat /\ BlockSize \in Nat \ {0}
  BY <1>2, VolumeTypes, GeometryAssumption
<1>4. Clamp(ip, b, n) \in Int
  BY <1>3 DEF Clamp
<1>5. rd' \in Rds
  BY <1>1, <1>2, <1>4 DEF Rds
<1>6. fds' = fds
  BY <1>1 DEF fds
<1>7. ReadTypes'
  BY <1>1, <1>2, <1>5, <1>6, Types DEF ReadInv, ReadTypes, Reading
<1>8. CachesFresh'
  BY <1>1, Zenon DEF ReadInv, CachesFresh, FirstMount, Fresh
<1>9. ReadSoFar'
  BY <1>1 DEF ReadSoFar
<1> QED BY <1>1, <1>7, <1>8, <1>9 DEF FirstMountReads, DoneReading

LEMMA ExtentReads ==
  ASSUME ReadInv, NEW fd \in Slots, NEW b \in 0 .. MaxBlkno, NEW n \in 1 .. MaxRun,
         ext4_bread(fd, b, n)
  PROVE  ReadTypes' /\ CachesFresh' /\ ReadSoFar' /\ FirstMountReads'
<1> DEFINE ip == Inode[vol][table[fd]]
           m == IF b + n > ip.len THEN ip.len - b ELSE n
<1>1. /\ pc' = "idle" /\ UNCHANGED << vol, table, names, iblk, diblk, mounts >>
      /\ fd \in fds /\ ip.extents /\ erred' \in {erred, TRUE}
      /\ \/ result' = "failed" /\ rd' = Idle
         \/ /\ result' = "read" /\ m >= 0
            /\ rd' = [Idle EXCEPT !.ino = table[fd], !.blkno = b + m,
                         !.out = [k \in 1 .. m |-> << vol, ip.start + b + k - 1 >>]]
  BY DEF ext4_bread, slotvars
<1>2. table[fd] \in Inos /\ vol \in Vols
  BY <1>1, Types DEF ReadInv, ReadTypes, SlotInv, SlotTypes, SlotsAccounted, InUse, fds
<1>3. ip.len \in Nat /\ ip.start \in Nat
  BY <1>2, VolumeTypes
<1>4. fds' = fds
  BY <1>1 DEF fds
<1>5. CASE result' = "failed" /\ rd' = Idle
  BY <1>1, <1>4, <1>5, NoReadFrame, NoReadTypes DEF ReadInv, ReadTypes, Reading
<1>6. CASE /\ result' = "read" /\ m >= 0
           /\ rd' = [Idle EXCEPT !.ino = table[fd], !.blkno = b + m,
                         !.out = [k \in 1 .. m |-> << vol, ip.start + b + k - 1 >>]]
  <2>1. m \in Nat /\ b \in Nat
    BY <1>3, <1>6
  <2>2. [k \in 1 .. m |-> << vol, ip.start + b + k - 1 >>] \in Seq({Zeros} \union (Vols \X Nat))
    <3> HIDE DEF m
    <3>1. \A k \in 1 .. m : << vol, ip.start + b + k - 1 >> \in {Zeros} \union (Vols \X Nat)
      BY <1>2, <1>3, <2>1
    <3>2. [k \in 1 .. m |-> << vol, ip.start + b + k - 1 >>] \in [1 .. m -> {Zeros} \union (Vols \X Nat)]
      BY <3>1
    <3> QED BY <2>1, <3>2
  <2>3. rd' \in Rds
    <3> DEFINE out == [k \in 1 .. m |-> << vol, ip.start + b + k - 1 >>]
    <3>1. rd' = [ino |-> table[fd], blkno |-> b + m, nblks |-> 0, dev |-> 0, n |-> 0, out |-> out]
      BY <1>6, Zenon DEF Idle
    <3>2. out \in Seq({Zeros} \union (Vols \X Nat)) /\ b + m \in Nat
      BY <2>1, <2>2
    <3> HIDE DEF out, m
    <3> QED BY <1>2, <3>1, <3>2 DEF Rds
  <2>4. rd'.ino = table[fd]
    BY <1>6 DEF Idle
  <2>5. ReadTypes'
    BY <1>1, <1>2, <1>4, <2>3, Types DEF ReadInv, ReadTypes, Reading
  <2>6. CachesFresh'
    <3>1. UNCHANGED << vol, iblk, diblk, mounts >> /\ erred' \in {erred, TRUE}
      BY <1>1
    <3> QED BY <3>1, Zenon DEF ReadInv, ReadTypes, CachesFresh, FirstMount, Fresh
  <2>7. ReadSoFar' /\ FirstMountReads'
    BY <1>1, <2>4 DEF ReadSoFar, Reading, FirstMountReads, DoneReading
  <2> QED BY <2>5, <2>6, <2>7
<1> QED BY <1>1, <1>5, <1>6

(* The caches and the error flag after a call of ext2_blkno. *)
LEMMA MapBlockKeeps ==
  ASSUME ReadInv, Reading, NEW o, MapBlock(o), UNCHANGED << vol, mounts >>
  PROVE  /\ o.b \in Blk \union {0} /\ iblk' \in Caches /\ diblk' \in Caches
         /\ erred' \in BOOLEAN /\ CachesFresh'
         /\ FirstMount' => FirstMount /\ o.b = At(rd.blkno)
<1>1. vol \in Vols /\ iblk \in Caches /\ diblk \in Caches /\ rd.ino \in Inos /\ rd.blkno \in Nat
  BY DEF ReadInv, ReadTypes, SlotInv, SlotTypes, Rds
<1>2. o \in ext2_blkno(Inode[vol][rd.ino], rd.blkno)
  BY DEF MapBlock
<1>3. /\ o.b \in Blk \union {0} /\ o.i \in Caches /\ o.d \in Caches /\ o.err \in BOOLEAN
      /\ Fresh(iblk) /\ Fresh(diblk) /\ ~o.err =>
           o.b = At(rd.blkno) /\ Fresh(o.i) /\ Fresh(o.d)
  BY <1>1, <1>2, BlknoRight DEF At
<1>4. iblk' = o.i /\ diblk' = o.d /\ erred' = (erred \/ o.err)
  BY DEF MapBlock
<1>5. erred' \in BOOLEAN
  BY <1>4, Zenon
<1>6. ASSUME FirstMount' PROVE FirstMount /\ ~o.err
  BY <1>4, <1>6, Zenon DEF FirstMount
<1>7. ASSUME FirstMount' PROVE o.b = At(rd.blkno) /\ Fresh(o.i) /\ Fresh(o.d)
  BY <1>3, <1>6, <1>7, Zenon DEF ReadInv, CachesFresh
<1>8. CachesFresh'
  BY <1>4, <1>7, Zenon DEF CachesFresh, Fresh
<1> QED BY <1>3, <1>4, <1>5, <1>6, <1>7, <1>8, Zenon

LEMMA BlkNat == \A b \in Blk \union {0} : b \in Nat
BY GeometryAssumption

LEMMA RdTypes ==
  ASSUME rd \in Rds
  PROVE  /\ rd.ino \in Inos \union {NoIno} /\ rd.blkno \in Nat /\ rd.nblks \in Int
         /\ rd.dev \in Blk \union {0} /\ rd.dev \in Nat /\ rd.n \in Nat
         /\ rd.out \in Seq({Zeros} \union (Vols \X Nat)) /\ Len(rd.out) \in Nat
<1>1. /\ rd.ino \in Inos \union {NoIno} /\ rd.blkno \in Nat /\ rd.nblks \in Int
      /\ rd.dev \in Blk \union {0} /\ rd.n \in Nat
      /\ rd.out \in Seq({Zeros} \union (Vols \X Nat))
  BY DEF Rds
<1>2. rd.dev \in Nat
  BY <1>1, BlkNat
<1>3. Len(rd.out) \in Nat
  BY <1>1
<1> QED BY <1>1, <1>2, <1>3

LEMMA FirstReads ==
  ASSUME ReadInv, breadFirst
  PROVE  ReadTypes' /\ CachesFresh' /\ ReadSoFar' /\ FirstMountReads'
<1>0. /\ pc = "first" /\ Reading /\ rd \in Rds /\ vol # NoVol /\ result = "none"
      /\ UNCHANGED << vol, names, mounts >>
  BY DEF breadFirst, slotvars, Reading, ReadInv, ReadTypes
<1>1. fds' = fds
  BY <1>0 DEF fds
<1>2. CASE pc' = "idle" /\ result' = "read" /\ UNCHANGED << iblk, diblk, rd, erred >>
  <2>1. ReadTypes'
    BY <1>0, <1>1, <1>2 DEF ReadInv, ReadTypes, Reading
  <2>2. CachesFresh'
    BY <1>0, <1>2, Zenon DEF ReadInv, CachesFresh, FirstMount, Fresh
  <2>3. ReadSoFar'
    BY <1>2 DEF ReadSoFar, Reading
  <2>4. ASSUME ~erred', mounts' = 1 PROVE ReadRight'
    <3>1. FirstMount
      BY <1>0, <1>2, <2>4 DEF FirstMount
    <3>2. /\ rd.n = 0 /\ rd.blkno \in Nat /\ Len(rd.out) \in Nat
          /\ \A k \in 1 .. Len(rd.out) :
               rd.out[k] = Content(At(rd.blkno - rd.n - Len(rd.out) + k - 1))
      BY <1>0, <3>1 DEF ReadInv, ReadSoFar, Rds
    <3>3. ASSUME NEW k \in 1 .. Len(rd.out)
          PROVE  rd.out[k] = Content(At(rd.blkno - Len(rd.out) + k - 1))
      <4>1. rd.blkno - rd.n - Len(rd.out) + k - 1 = rd.blkno - Len(rd.out) + k - 1
        BY <3>2
      <4> QED BY <3>2, <4>1
    <3> QED BY <1>0, <1>2, <3>3 DEF ReadRight, At, Content
  <2> QED BY <2>1, <2>2, <2>3, <2>4 DEF FirstMountReads
<1>3. ASSUME NEW o, MapBlock(o), pc' = "next", UNCHANGED result,
             rd' = [rd EXCEPT !.dev = o.b, !.n = 1, !.blkno = @ + 1, !.nblks = @ - 1]
      PROVE  ReadTypes' /\ CachesFresh' /\ ReadSoFar' /\ FirstMountReads'
  <2>1. /\ o.b \in Blk \union {0} /\ iblk' \in Caches /\ diblk' \in Caches
        /\ erred' \in BOOLEAN /\ CachesFresh'
        /\ FirstMount' => FirstMount /\ o.b = At(rd.blkno)
    BY <1>0, <1>3, MapBlockKeeps
  <2>2. /\ rd' \in Rds /\ rd'.ino = rd.ino /\ rd'.dev = o.b /\ rd'.n = 1
        /\ rd'.blkno = rd.blkno + 1 /\ rd'.out = rd.out
    <3>1. rd' = [ino |-> rd.ino, blkno |-> rd.blkno + 1, nblks |-> rd.nblks - 1,
                 dev |-> o.b, n |-> 1, out |-> rd.out]
      BY <1>0, <1>3 DEF Rds
    <3> QED BY <1>0, <2>1, <3>1, RdTypes DEF Rds
  <2>3. ReadTypes'
    BY <1>0, <1>1, <1>3, <2>1, <2>2 DEF ReadInv, ReadTypes, Reading
  <2>4. ASSUME FirstMount'
        PROVE  /\ Len(rd.out) <= rd.blkno /\ rd.blkno \in Nat /\ Len(rd.out) \in Nat /\ rd.n = 0
               /\ \A k \in 1 .. Len(rd.out) :
                    rd.out[k] = Content(At(rd.blkno - rd.n - Len(rd.out) + k - 1))
    BY <1>0, <2>1, <2>4 DEF ReadInv, ReadSoFar, Rds
  <2>6. ReadSoFar'
    <3> SUFFICES ASSUME FirstMount'
                 PROVE  /\ Len(rd'.out) + rd'.n <= rd'.blkno
                        /\ \A k \in 1 .. Len(rd'.out) :
                             rd'.out[k] = Content(At(rd'.blkno - rd'.n - Len(rd'.out) + k - 1))
                        /\ \A k \in 1 .. rd'.n :
                             At(rd'.blkno - rd'.n + k - 1) = IF rd'.dev = 0 THEN 0 ELSE rd'.dev + k - 1
                        /\ rd'.dev = 0 => rd'.n <= 1
      BY <1>0, <1>3, <2>2 DEF ReadSoFar, At, Content
    <3>1. ASSUME NEW k \in 1 .. Len(rd'.out)
          PROVE  rd'.out[k] = Content(At(rd'.blkno - rd'.n - Len(rd'.out) + k - 1))
      <4>1. rd.blkno - rd.n - Len(rd.out) + k - 1 = rd'.blkno - rd'.n - Len(rd'.out) + k - 1
        BY <2>2, <2>4
      <4> QED BY <2>2, <2>4, <4>1
    <3>2. ASSUME NEW k \in 1 .. rd'.n
          PROVE  At(rd'.blkno - rd'.n + k - 1) = IF rd'.dev = 0 THEN 0 ELSE rd'.dev + k - 1
      <4>1. k = 1 /\ rd'.blkno - rd'.n + k - 1 = rd.blkno
        BY <2>2, <2>4
      <4>2. rd'.dev + k - 1 = o.b
        BY <2>1, <2>2, <4>1, BlkNat
      <4> QED BY <2>1, <2>2, <4>1, <4>2
    <3>3. Len(rd'.out) + rd'.n <= rd'.blkno /\ rd'.n <= 1
      BY <2>2, <2>4
    <3> QED BY <3>1, <3>2, <3>3
  <2> QED BY <1>3, <2>1, <2>3, <2>6 DEF FirstMountReads, DoneReading
<1> QED BY <1>2, <1>3 DEF breadFirst, Returns

LEMMA NextReads ==
  ASSUME ReadInv, breadNext
  PROVE  ReadTypes' /\ CachesFresh' /\ ReadSoFar' /\ FirstMountReads'
<1>0. /\ pc = "next" /\ Reading /\ rd \in Rds /\ vol # NoVol /\ result = "none"
      /\ UNCHANGED << vol, names, mounts, result >>
  BY DEF breadNext, slotvars, Reading, ReadInv, ReadTypes
<1>1. fds' = fds
  BY <1>0 DEF fds
<1>2. ASSUME UNCHANGED rd, pc' = "xfer", iblk' \in Caches, diblk' \in Caches,
             erred' \in BOOLEAN, CachesFresh', FirstMount' => FirstMount
      PROVE  ReadTypes' /\ CachesFresh' /\ ReadSoFar' /\ FirstMountReads'
  <2>1. ReadTypes'
    BY <1>0, <1>1, <1>2 DEF ReadInv, ReadTypes, Reading
  <2>2. \A off : At(off)' = At(off) /\ Content(off)' = Content(off)
    BY <1>0, <1>2 DEF At, Content
  <2>3. ReadSoFar'
    BY <1>0, <1>2, <2>2 DEF ReadInv, ReadSoFar
  <2> QED BY <1>2, <2>1, <2>3 DEF FirstMountReads, DoneReading
<1>3. CASE pc' = "xfer" /\ UNCHANGED << iblk, diblk, rd, erred >>
  <2>1. (FirstMount' => FirstMount) /\ CachesFresh'
    BY <1>0, <1>3, Zenon DEF ReadInv, CachesFresh, FirstMount, Fresh
  <2>2. iblk' \in Caches /\ diblk' \in Caches /\ erred' \in BOOLEAN
    BY <1>3 DEF ReadInv, ReadTypes
  <2> QED BY <1>2, <1>3, <2>1, <2>2
<1>4. ASSUME NEW o, MapBlock(o), o.b = rd.dev + rd.n, UNCHANGED pc,
             rd' = [rd EXCEPT !.n = @ + 1, !.blkno = @ + 1, !.nblks = @ - 1]
      PROVE  ReadTypes' /\ CachesFresh' /\ ReadSoFar' /\ FirstMountReads'
  <2>1. /\ o.b \in Blk \union {0} /\ iblk' \in Caches /\ diblk' \in Caches
        /\ erred' \in BOOLEAN /\ CachesFresh'
        /\ FirstMount' => FirstMount /\ o.b = At(rd.blkno)
    BY <1>0, <1>4, MapBlockKeeps
  <2>2. /\ rd' \in Rds /\ rd'.ino = rd.ino /\ rd'.dev = rd.dev /\ rd'.n = rd.n + 1
        /\ rd'.blkno = rd.blkno + 1 /\ rd'.out = rd.out
    <3>1. rd' = [ino |-> rd.ino, blkno |-> rd.blkno + 1, nblks |-> rd.nblks - 1,
                 dev |-> rd.dev, n |-> rd.n + 1, out |-> rd.out]
      BY <1>0, <1>4 DEF Rds
    <3> QED BY <1>0, <3>1, RdTypes DEF Rds
  <2>3. ReadTypes'
    BY <1>0, <1>1, <1>4, <2>1, <2>2 DEF ReadInv, ReadTypes, Reading
  <2>4. rd.blkno \in Nat /\ Len(rd.out) \in Nat /\ rd.n \in Nat /\ rd.dev \in Nat
    BY <1>0, RdTypes
  <2>6. ReadSoFar'
    <3> SUFFICES ASSUME FirstMount'
                 PROVE  /\ Len(rd'.out) + rd'.n <= rd'.blkno
                        /\ \A k \in 1 .. Len(rd'.out) :
                             rd'.out[k] = Content(At(rd'.blkno - rd'.n - Len(rd'.out) + k - 1))
                        /\ \A k \in 1 .. rd'.n :
                             At(rd'.blkno - rd'.n + k - 1) = IF rd'.dev = 0 THEN 0 ELSE rd'.dev + k - 1
                        /\ rd'.dev = 0 => rd'.n <= 1
      BY <1>0, <1>4, <2>2 DEF ReadSoFar, At, Content
    <3>0. /\ Len(rd.out) + rd.n <= rd.blkno
          /\ \A k \in 1 .. Len(rd.out) :
               rd.out[k] = Content(At(rd.blkno - rd.n - Len(rd.out) + k - 1))
          /\ \A k \in 1 .. rd.n :
               At(rd.blkno - rd.n + k - 1) = IF rd.dev = 0 THEN 0 ELSE rd.dev + k - 1
          /\ rd.dev = 0 => rd.n <= 1
      BY <1>0, <2>1 DEF ReadInv, ReadSoFar
    <3>1. ASSUME NEW k \in 1 .. Len(rd'.out)
          PROVE  rd'.out[k] = Content(At(rd'.blkno - rd'.n - Len(rd'.out) + k - 1))
      <4>1. rd.blkno - rd.n - Len(rd.out) + k - 1 = rd'.blkno - rd'.n - Len(rd'.out) + k - 1
        <5>1. rd'.blkno = rd.blkno + 1 /\ rd'.n = rd.n + 1 /\ Len(rd'.out) = Len(rd.out)
          BY <2>2
        <5>2. k \in Int /\ rd.n \in Int /\ rd.blkno \in Int /\ Len(rd.out) \in Int
          BY <2>4, <5>1
        <5> QED BY <5>1, <5>2
      <4> QED BY <2>2, <3>0, <4>1
    <3>2. rd.dev = 0 => rd.n = 0
      BY <1>4, <2>1, <2>4, <3>0, VolumeTypes
    <3>3. ASSUME NEW k \in 1 .. rd'.n
          PROVE  At(rd'.blkno - rd'.n + k - 1) = IF rd'.dev = 0 THEN 0 ELSE rd'.dev + k - 1
      <4>0. rd'.blkno - rd'.n + k - 1 = rd.blkno - rd.n + k - 1
        <5>1. rd'.blkno = rd.blkno + 1 /\ rd'.n = rd.n + 1
          BY <2>2
        <5>2. k \in Int /\ rd.n \in Int /\ rd.blkno \in Int
          BY <2>4
        <5> QED BY <5>1, <5>2
      <4>1. CASE k = rd.n + 1
        <5>1. rd.blkno - rd.n + k - 1 = rd.blkno
          BY <2>4, <4>1
        <5>2. At(rd.blkno) = rd.dev + rd.n
          BY <1>4, <2>1
        <5>3. rd.dev = 0 => rd.dev + rd.n = 0
          BY <3>2
        <5>4. rd.dev + k - 1 = rd.dev + rd.n
          BY <2>4, <4>1
        <5> QED BY <2>2, <4>0, <5>1, <5>2, <5>3, <5>4
      <4>2. CASE k # rd.n + 1
        <5>1. k \in 1 .. rd.n
          BY <2>2, <2>4, <4>2
        <5> QED BY <2>2, <3>0, <4>0, <5>1
      <4> QED BY <4>1, <4>2
    <3>4. Len(rd'.out) + rd'.n <= rd'.blkno /\ (rd'.dev = 0 => rd'.n <= 1)
      BY <2>2, <2>4, <3>0, <3>2
    <3> QED BY <3>1, <3>3, <3>4
  <2> QED BY <1>0, <1>4, <2>1, <2>3, <2>6 DEF FirstMountReads, DoneReading
<1>5. ASSUME NEW o, MapBlock(o), pc' = "xfer", UNCHANGED rd
      PROVE  ReadTypes' /\ CachesFresh' /\ ReadSoFar' /\ FirstMountReads'
  BY <1>0, <1>2, <1>5, MapBlockKeeps
<1> QED BY <1>3, <1>4, <1>5 DEF breadNext

LEMMA XferReads ==
  ASSUME ReadInv, breadXfer
  PROVE  ReadTypes' /\ CachesFresh' /\ ReadSoFar' /\ FirstMountReads'
<1>0. /\ pc = "xfer" /\ Reading /\ rd \in Rds /\ vol # NoVol /\ vol \in Vols /\ result = "none"
      /\ UNCHANGED << vol, names, iblk, diblk, mounts >>
  BY DEF breadXfer, slotvars, Reading, ReadInv, ReadTypes, SlotInv, SlotTypes
<1>1. fds' = fds
  BY <1>0 DEF fds
<1>2. CASE pc' = "idle" /\ result' = "failed" /\ erred' = TRUE /\ rd' = Idle
  BY <1>0, <1>1, <1>2, NoReadFrame, NoReadTypes DEF ReadInv, ReadTypes, Reading
<1>3. CASE pc' = "first" /\ UNCHANGED << result, erred >> /\ rd' = [rd EXCEPT !.out = @ \o Run, !.n = 0]
  <2> DEFINE l == Len(rd.out)
  <2>1. rd.n \in Nat /\ rd.blkno \in Nat /\ rd.dev \in Nat /\ l \in Nat
    BY <1>0, RdTypes
  <2>2. Run \in [1 .. rd.n -> {Zeros} \union (Vols \X Nat)]
    <3>1. \A k \in 1 .. rd.n :
            (IF rd.dev = 0 THEN Zeros ELSE << vol, rd.dev + k - 1 >>) \in {Zeros} \union (Vols \X Nat)
      BY <1>0, <2>1
    <3> QED BY <3>1 DEF Run
  <2>3. Run \in Seq({Zeros} \union (Vols \X Nat)) /\ Len(Run) = rd.n
    BY <2>1, <2>2
  <2>4. /\ rd.out \o Run \in Seq({Zeros} \union (Vols \X Nat)) /\ Len(rd.out \o Run) = l + rd.n
        /\ \A k \in 1 .. l + rd.n :
             (rd.out \o Run)[k] = IF k <= l THEN rd.out[k] ELSE Run[k - l]
    <3>1. ASSUME NEW S, NEW s \in Seq(S), NEW t \in Seq(S)
          PROVE  /\ s \o t \in Seq(S) /\ Len(s \o t) = Len(s) + Len(t)
                 /\ \A k \in 1 .. Len(s) + Len(t) :
                      (s \o t)[k] = IF k <= Len(s) THEN s[k] ELSE t[k - Len(s)]
      OBVIOUS
    <3>2. rd.out \in Seq({Zeros} \union (Vols \X Nat))
      BY <1>0, RdTypes
    <3>3. /\ rd.out \o Run \in Seq({Zeros} \union (Vols \X Nat))
          /\ Len(rd.out \o Run) = Len(rd.out) + Len(Run)
          /\ \A k \in 1 .. Len(rd.out) + Len(Run) :
               (rd.out \o Run)[k] = IF k <= Len(rd.out) THEN rd.out[k] ELSE Run[k - Len(rd.out)]
      BY <2>3, <3>1, <3>2, ZenonT(30)
    <3> QED BY <2>3, <3>3, Zenon
  <2>5. /\ rd' = [ino |-> rd.ino, blkno |-> rd.blkno, nblks |-> rd.nblks,
                  dev |-> rd.dev, n |-> 0, out |-> rd.out \o Run]
    BY <1>0, <1>3 DEF Rds
  <2>6. /\ rd' \in Rds /\ rd'.ino = rd.ino /\ rd'.n = 0
        /\ rd'.blkno = rd.blkno /\ rd'.out = rd.out \o Run
    BY <1>0, <2>4, <2>5, RdTypes DEF Rds
  <2>7. ReadTypes'
    BY <1>0, <1>1, <1>3, <2>6 DEF ReadInv, ReadTypes, Reading
  <2>8. CachesFresh'
    BY <1>0, <1>3, Zenon DEF ReadInv, CachesFresh, FirstMount, Fresh
  <2>9. ReadSoFar'
    <3> SUFFICES ASSUME FirstMount
                 PROVE  /\ Len(rd'.out) + rd'.n <= rd'.blkno
                        /\ \A k \in 1 .. Len(rd'.out) :
                             rd'.out[k] = Content(At(rd'.blkno - rd'.n - Len(rd'.out) + k - 1))
      BY <1>0, <1>3, <2>6 DEF ReadSoFar, At, Content, FirstMount
    <3>0. /\ l + rd.n <= rd.blkno
          /\ \A k \in 1 .. l : rd.out[k] = Content(At(rd.blkno - rd.n - l + k - 1))
          /\ \A k \in 1 .. rd.n :
               At(rd.blkno - rd.n + k - 1) = IF rd.dev = 0 THEN 0 ELSE rd.dev + k - 1
      BY <1>0 DEF ReadInv, ReadSoFar
    <3>1. Len(rd'.out) + rd'.n <= rd'.blkno
      BY <2>1, <2>4, <2>6, <3>0
    <3>2. ASSUME NEW k \in 1 .. Len(rd'.out)
          PROVE  rd'.out[k] = Content(At(rd'.blkno - rd'.n - Len(rd'.out) + k - 1))
      <4>1. k \in 1 .. l + rd.n
        BY <2>4, <2>6
      <4>2. rd'.blkno - rd'.n - Len(rd'.out) + k - 1 = rd.blkno - rd.n - l + k - 1
        <5>1. rd'.blkno = rd.blkno /\ rd'.n = 0 /\ Len(rd'.out) = l + rd.n
          BY <2>4, <2>6
        <5>2. k \in Int
          BY <2>1, <4>1
        <5> HIDE DEF l
        <5> QED BY <2>1, <5>1, <5>2
      <4>3. CASE k <= l
        BY <2>1, <2>4, <2>6, <3>0, <4>1, <4>2, <4>3
      <4>4. CASE ~(k <= l)
        <5> DEFINE j == k - l
        <5>1. j \in 1 .. rd.n
          BY <2>1, <4>1, <4>4
        <5>2. rd.blkno - rd.n - l + k - 1 = rd.blkno - rd.n + j - 1
          BY <2>1, <4>1
        <5>3. rd'.out[k] = Run[j]
          BY <2>4, <2>6, <4>1, <4>4
        <5> HIDE DEF j
        <5>4. Run[j] = IF rd.dev = 0 THEN Zeros ELSE << vol, rd.dev + j - 1 >>
          BY <5>1 DEF Run
        <5>5. At(rd.blkno - rd.n + j - 1) = IF rd.dev = 0 THEN 0 ELSE rd.dev + j - 1
          BY <3>0, <5>1
        <5>6. rd.dev # 0 => rd.dev + j - 1 # 0
          BY <2>1, <5>1
        <5>7. Run[j] = Content(At(rd.blkno - rd.n + j - 1))
          BY <5>4, <5>5, <5>6 DEF Content
        <5> QED BY <4>2, <5>2, <5>3, <5>7
      <4> QED BY <4>3, <4>4
    <3> QED BY <3>1, <3>2
  <2> QED BY <1>3, <2>7, <2>8, <2>9 DEF FirstMountReads, DoneReading
<1> QED BY <1>2, <1>3 DEF breadXfer, Returns

LEMMA RunsOnReads ==
  ASSUME ReadInv, breadRunsOn
  PROVE  ReadTypes' /\ CachesFresh' /\ ReadSoFar' /\ FirstMountReads'
<1>1. /\ Reading /\ pc' = "runaway" /\ vol # NoVol /\ result = "none"
      /\ UNCHANGED << vol, table, names, iblk, diblk, rd, result, mounts, erred >>
  BY DEF breadRunsOn, slotvars, readvars, Reading, ReadInv, ReadTypes
<1>2. ReadTypes'
  BY <1>1 DEF ReadInv, ReadTypes, Reading, fds
<1>3. CachesFresh'
  BY <1>1, Zenon DEF ReadInv, CachesFresh, FirstMount, Fresh
<1>4. \A off : At(off)' = At(off) /\ Content(off)' = Content(off)
  BY <1>1 DEF At, Content
<1>5. ReadSoFar'
  BY <1>1, <1>4 DEF ReadInv, ReadSoFar, FirstMount
<1> QED BY <1>1, <1>2, <1>3, <1>5 DEF FirstMountReads, DoneReading

LEMMA NextRead == ReadInv /\ [Next]_vars => ReadInv'
<1> SUFFICES ASSUME ReadInv, [Next]_vars PROVE ReadInv'
  OBVIOUS
<1>1. SlotInv'
  BY NextSlots DEF ReadInv
<1>2. CASE UNCHANGED vars
  <2>1. UNCHANGED << pc, vol, table, names, iblk, diblk, rd, result, mounts, erred >>
    BY <1>2 DEF vars, slotvars, readvars
  <2>2. ReadTypes'
    BY <2>1 DEF ReadInv, ReadTypes, Reading, fds
  <2>3. CachesFresh' /\ ReadSoFar'
    BY <2>1, Zenon DEF ReadInv, CachesFresh, FirstMount, Fresh, ReadSoFar, Reading, At, Content
  <2>4. FirstMountReads'
    BY <2>1, Zenon DEF ReadInv, FirstMountReads, DoneReading, ReadRight
  <2> QED BY <1>1, <2>2, <2>3, <2>4 DEF ReadInv
<1>3. CASE Next
  <2>1. ReadTypes' /\ CachesFresh' /\ ReadSoFar' /\ FirstMountReads'
    BY <1>3, MountReads, OpenReads, BreadReads, ExtentReads, FirstReads, NextReads, XferReads, RunsOnReads
    DEF Next, Driver, BootLoop
  <2> QED BY <1>1, <2>1 DEF ReadInv
<1> QED BY <1>2, <1>3

(* A first mount reads the blocks of the file in their order, holes as      *)
(* zeros, until a read fails: the run that is transferred and the caches of *)
(* ext2_blkno are those of the file, for every volume, request and number   *)
(* of pointers per block.                                                   *)
THEOREM FirstMountReadsInvariance == Spec => []FirstMountReads
<1>1. Spec => []ReadInv
  BY InitRead, NextRead, PTL DEF Spec
<1> QED BY <1>1, PTL DEF ReadInv
-----------------------------------------------------------------------------
(* Names *)

(* Induction over the numbers, for a set. *)
LEMMA SetInduction ==
  ASSUME NEW S \in SUBSET Nat, 0 \in S, \A n \in S : n + 1 \in S
  PROVE  S = Nat
<1> SUFFICES ASSUME Nat \ S # {} PROVE FALSE
  OBVIOUS
<1> DEFINE R == OpToRel(<, Nat)
<1>1. IsWellFoundedOn(R, Nat)
  BY NatLessThanWellFounded, Zenon
<1>2. R = {ss \in Nat \X Nat : ss[1] < ss[2]}
  BY Zenon DEF OpToRel
<1> HIDE DEF R
<1>3. PICK x \in Nat \ S : \A y \in Nat \ S : ~(<< y, x >> \in R)
  <2>1. \E x \in Nat \ S : \A y \in Nat \ S : ~(<< y, x >> \in R)
    BY <1>1, WFMin, Zenon
  <2> QED BY <2>1
<1>4. x # 0 /\ x - 1 \in Nat \ S
  OBVIOUS
<1>5. << x - 1, x >> \in R
  BY <1>2, <1>4
<1> QED BY <1>3, <1>4, <1>5

(* A function defined from the value before exists. *)
Recursive(f, D, d, step, n) ==
  f \in [0 .. n -> D] /\ f[0] = d /\ \A k \in 1 .. n : f[k] = step[k][f[k - 1]]

LEMMA Recursion ==
  ASSUME NEW D, NEW d \in D, NEW step \in [Nat -> [D -> D]], NEW n \in Nat
  PROVE  \E f : Recursive(f, D, d, step, n)
<1> DEFINE P(m) == \E f \in [0 .. m -> D] : f[0] = d /\ \A k \in 1 .. m : f[k] = step[k][f[k - 1]]
           S == {m \in Nat : P(m)}
<1>1. 0 \in S
  <2> DEFINE f == [k \in 0 .. 0 |-> d]
  <2>1. f \in [0 .. 0 -> D] /\ f[0] = d /\ \A k \in 1 .. 0 : f[k] = step[k][f[k - 1]]
    OBVIOUS
  <2> HIDE DEF f
  <2>2. P(0)
    BY <2>1, Zenon
  <2> HIDE DEF P
  <2> QED BY <2>2
<1>2. ASSUME NEW m \in S PROVE m + 1 \in S
  <2>1. PICK f \in [0 .. m -> D] : f[0] = d /\ \A k \in 1 .. m : f[k] = step[k][f[k - 1]]
    BY <1>2
  <2> DEFINE g == [k \in 0 .. m + 1 |-> IF k = m + 1 THEN step[m + 1][f[m]] ELSE f[k]]
  <2>2. step[m + 1][f[m]] \in D
    OBVIOUS
  <2>3. g \in [0 .. m + 1 -> D] /\ g[0] = d
    BY <2>1, <2>2
  <2>4. ASSUME NEW k \in 1 .. m + 1 PROVE g[k] = step[k][g[k - 1]]
    <3>1. CASE k = m + 1
      BY <3>1
    <3>2. CASE k # m + 1
      BY <2>1, <3>2
    <3> QED BY <3>1, <3>2
  <2> HIDE DEF g
  <2>5. P(m + 1)
    BY <2>3, <2>4
  <2> HIDE DEF P
  <2> QED BY <2>5
<1> HIDE DEF P
<1>3. S = Nat
  BY <1>1, <1>2, SetInduction
<1>4. P(n)
  BY <1>3
<1> QED BY <1>4 DEF P, Recursive

(* The inodes along a path, and the paths that following links gives, are   *)
(* what their defining equations say.                                       *)
LEMMA WalkToDef ==
  ASSUME NEW v \in Vols, NEW p \in Seq(Names)
  PROVE  /\ WalkTo(v, p) \in [0 .. Len(p) -> Inos \union {NoIno}]
         /\ WalkTo(v, p)[0] = RootIno
         /\ \A k \in 1 .. Len(p) :
              WalkTo(v, p)[k] = IF WalkTo(v, p)[k - 1] = NoIno THEN NoIno
                                ELSE Entry[v][WalkTo(v, p)[k - 1]][p[k]]
<1> DEFINE D == Inos \union {NoIno}
           E(at) == at = [k \in 0 .. Len(p) |->
                            IF k = 0 THEN RootIno
                            ELSE IF at[k - 1] = NoIno THEN NoIno ELSE Entry[v][at[k - 1]][p[k]]]
           step == [k \in Nat |-> [x \in D |-> IF x = NoIno \/ k \notin 1 .. Len(p) THEN NoIno
                                               ELSE Entry[v][x][p[k]]]]
           w == WalkTo(v, p)
<1>0. Len(p) \in Nat /\ RootIno \in D /\ \A k \in 1 .. Len(p) : p[k] \in Names
  BY Types
<1>1. step \in [Nat -> [D -> D]]
  <2>1. ASSUME NEW k \in Nat, NEW x \in D
        PROVE  (IF x = NoIno \/ k \notin 1 .. Len(p) THEN NoIno ELSE Entry[v][x][p[k]]) \in D
    BY <1>0, Types
  <2> QED BY <2>1
<1>2. PICK f \in [0 .. Len(p) -> D] :
             f[0] = RootIno /\ \A k \in 1 .. Len(p) : f[k] = step[k][f[k - 1]]
  <2> HIDE DEF D, step
  <2>1. \E f : Recursive(f, D, RootIno, step, Len(p))
    BY <1>0, <1>1, Recursion
  <2> QED BY <2>1 DEF Recursive
<1>3. ASSUME NEW k \in 1 .. Len(p)
      PROVE  f[k] = IF f[k - 1] = NoIno THEN NoIno ELSE Entry[v][f[k - 1]][p[k]]
  <2>1. f[k - 1] \in D /\ k \in Nat
    BY <1>0
  <2> QED BY <1>2, <2>1
<1>4. E(f)
  BY <1>2, <1>3
<1>5. E(w)
  BY <1>4, Zenon DEF WalkTo
<1> HIDE DEF w
<1>6. w[0] = RootIno
  BY <1>0, <1>5
<1>7. ASSUME NEW k \in 1 .. Len(p)
      PROVE  w[k] = IF w[k - 1] = NoIno THEN NoIno ELSE Entry[v][w[k - 1]][p[k]]
  BY <1>0, <1>5, SMTT(30)
<1>8. ASSUME NEW k \in 0 .. Len(p) PROVE w[k] \in D
  <2> DEFINE S == {m \in Nat : m <= Len(p) => w[m] \in D}
  <2>1. 0 \in S
    BY <1>0, <1>6
  <2>2. ASSUME NEW m \in S PROVE m + 1 \in S
    <3> SUFFICES ASSUME m + 1 <= Len(p) PROVE w[m + 1] \in D
      OBVIOUS
    <3>1. w[m] \in D /\ m + 1 \in 1 .. Len(p) /\ (m + 1) - 1 = m
      BY <1>0
    <3>2. w[m + 1] = IF w[m] = NoIno THEN NoIno ELSE Entry[v][w[m]][p[m + 1]]
      BY <1>7, <3>1
    <3> QED BY <1>0, <3>1, <3>2, Types
  <2>3. S = Nat
    <3> HIDE DEF S
    <3>1. S \in SUBSET Nat
      BY DEF S
    <3> QED BY <2>1, <2>2, <3>1, SetInduction
  <2> QED BY <1>0, <2>3
<1>9. w \in [0 .. Len(p) -> D]
  BY <1>5, <1>8
<1> QED BY <1>6, <1>7, <1>9 DEF w

LEMMA WalkType ==
  ASSUME NEW v \in Vols, NEW p \in Seq(Names)
  PROVE  Walk(v, p) \in Inos \union {NoIno} /\ Hop(v, p) \in Seq(Names)
<1>1. Walk(v, p) \in Inos \union {NoIno}
  BY WalkToDef DEF Walk
<1>2. CASE IsLink(v, p)
  <2>1. Link[v][Walk(v, p)].path \in Seq(Names)
    BY <1>1, <1>2, Types DEF IsLink
  <2> QED BY <1>1, <1>2, <2>1 DEF Hop
<1>3. CASE ~IsLink(v, p)
  BY <1>1, <1>3 DEF Hop
<1> QED BY <1>2, <1>3

LEMMA FollowDef ==
  ASSUME NEW v \in Vols, NEW p \in Seq(Names)
  PROVE  /\ Follow(v, p) \in [0 .. MAX_OPEN_FILES -> Seq(Names)]
         /\ Follow(v, p)[0] = p
         /\ \A k \in 1 .. MAX_OPEN_FILES : Follow(v, p)[k] = Hop(v, Follow(v, p)[k - 1])
<1> DEFINE E(to) == to = [k \in 0 .. MAX_OPEN_FILES |-> IF k = 0 THEN p ELSE Hop(v, to[k - 1])]
           step == [k \in Nat |-> [q \in Seq(Names) |-> Hop(v, q)]]
           w == Follow(v, p)
<1>1. step \in [Nat -> [Seq(Names) -> Seq(Names)]]
  BY WalkType
<1>2. PICK f \in [0 .. MAX_OPEN_FILES -> Seq(Names)] :
             f[0] = p /\ \A k \in 1 .. MAX_OPEN_FILES : f[k] = step[k][f[k - 1]]
  <2> HIDE DEF step
  <2>1. \E f : Recursive(f, Seq(Names), p, step, MAX_OPEN_FILES)
    BY <1>1, Recursion
  <2> QED BY <2>1 DEF Recursive
<1>3. ASSUME NEW k \in 1 .. MAX_OPEN_FILES PROVE f[k] = Hop(v, f[k - 1])
  <2>1. f[k - 1] \in Seq(Names) /\ k \in Nat
    OBVIOUS
  <2> QED BY <1>2, <2>1
<1>4. E(f)
  BY <1>2, <1>3
<1>5. E(w)
  BY <1>4, Zenon DEF Follow
<1> HIDE DEF w
<1>6. w[0] = p
  BY <1>5
<1>7. ASSUME NEW k \in 1 .. MAX_OPEN_FILES PROVE w[k] = Hop(v, w[k - 1])
  BY <1>5
<1>8. ASSUME NEW k \in 0 .. MAX_OPEN_FILES PROVE w[k] \in Seq(Names)
  <2> DEFINE S == {m \in Nat : m <= MAX_OPEN_FILES => w[m] \in Seq(Names)}
  <2>1. 0 \in S
    BY <1>6
  <2>2. ASSUME NEW m \in S PROVE m + 1 \in S
    <3> SUFFICES ASSUME m + 1 <= MAX_OPEN_FILES PROVE w[m + 1] \in Seq(Names)
      OBVIOUS
    <3>1. w[m] \in Seq(Names) /\ m + 1 \in 1 .. MAX_OPEN_FILES /\ (m + 1) - 1 = m
      OBVIOUS
    <3> QED BY <1>7, <3>1, WalkType
  <2>3. S = Nat
    <3> HIDE DEF S
    <3>1. S \in SUBSET Nat
      BY DEF S
    <3> QED BY <2>1, <2>2, <3>1, SetInduction
  <2>4. k \in S
    <3> HIDE DEF S
    <3> QED BY <2>3
  <2> QED BY <2>4
<1>9. w \in [0 .. MAX_OPEN_FILES -> Seq(Names)]
  BY <1>5, <1>8
<1> QED BY <1>6, <1>7, <1>9 DEF w

(* A path that does not end in a link is where following links ends. *)
LEMMA FollowEnds ==
  ASSUME NEW v \in Vols, NEW p \in Seq(Names), NEW j \in 0 .. MAX_OPEN_FILES,
         ~IsLink(v, Follow(v, p)[j])
  PROVE  Follow(v, p)[MAX_OPEN_FILES] = Follow(v, p)[j]
<1> DEFINE w == Follow(v, p)
           S == {m \in Nat : j + m <= MAX_OPEN_FILES => w[j + m] = w[j]}
<1>1. 0 \in S
  OBVIOUS
<1>2. ASSUME NEW m \in S PROVE m + 1 \in S
  <2> SUFFICES ASSUME j + (m + 1) <= MAX_OPEN_FILES PROVE w[j + (m + 1)] = w[j]
    OBVIOUS
  <2>1. w[j + m] = w[j] /\ j + (m + 1) \in 1 .. MAX_OPEN_FILES /\ j + (m + 1) - 1 = j + m
    OBVIOUS
  <2>2. w[j + (m + 1)] = Hop(v, w[j])
    <3> HIDE DEF w
    <3>1. \A k \in 1 .. MAX_OPEN_FILES : w[k] = Hop(v, w[k - 1])
      BY FollowDef DEF w
    <3> QED BY <2>1, <3>1
  <2> QED BY <2>2 DEF Hop
<1>3. S = Nat
  <2> HIDE DEF S
  <2>1. S \in SUBSET Nat
    BY DEF S
  <2> QED BY <1>1, <1>2, <2>1, SetInduction
<1>4. MAX_OPEN_FILES - j \in S /\ j + (MAX_OPEN_FILES - j) = MAX_OPEN_FILES
  <2> HIDE DEF S
  <2> QED BY <1>3
<1> QED BY <1>4

(* The inode n has been reached along path q, rest is left of it. *)
Reached(v, q, rest, n) ==
  \E m \in 0 .. Len(q) : rest = SubSeq(q, m + 1, Len(q)) /\ n = WalkTo(v, q)[m]

LEMMA ReachedRoot ==
  ASSUME NEW v \in Vols, NEW q \in Seq(Names)
  PROVE  Reached(v, q, q, RootIno)
<1>1. q = SubSeq(q, 0 + 1, Len(q)) /\ 0 \in 0 .. Len(q)
  OBVIOUS
<1> QED BY <1>1, WalkToDef DEF Reached

LEMMA ReachedNext ==
  ASSUME NEW v \in Vols, NEW q \in Seq(Names), NEW rest \in Seq(Names), rest # << >>,
         NEW n \in Inos, Reached(v, q, rest, n)
  PROVE  Reached(v, q, Tail(rest), Entry[v][n][Head(rest)])
<1>1. PICK m \in 0 .. Len(q) : rest = SubSeq(q, m + 1, Len(q)) /\ n = WalkTo(v, q)[m]
  BY DEF Reached
<1>2. m < Len(q) /\ Head(rest) = q[m + 1] /\ Tail(rest) = SubSeq(q, (m + 1) + 1, Len(q))
  BY <1>1
<1>3. m + 1 \in 1 .. Len(q) /\ (m + 1) - 1 = m
  BY <1>2
<1>4. WalkTo(v, q)[m + 1] = Entry[v][n][q[m + 1]]
  <2> DEFINE w == WalkTo(v, q)
  <2>1. \A k \in 1 .. Len(q) :
          w[k] = IF w[k - 1] = NoIno THEN NoIno ELSE Entry[v][w[k - 1]][q[k]]
    BY WalkToDef
  <2> HIDE DEF w
  <2>2. w[m + 1] = IF w[m] = NoIno THEN NoIno ELSE Entry[v][w[m]][q[m + 1]]
    BY <1>3, <2>1
  <2> QED BY <1>1, <2>2, Types DEF w
<1>5. m + 1 \in 0 .. Len(q)
  BY <1>3
<1> QED BY <1>2, <1>4, <1>5, Zenon DEF Reached

LEMMA ReachedEnd ==
  ASSUME NEW v \in Vols, NEW q \in Seq(Names), NEW n, Reached(v, q, << >>, n)
  PROVE  n = Walk(v, q)
<1>1. PICK m \in 0 .. Len(q) : << >> = SubSeq(q, m + 1, Len(q)) /\ n = WalkTo(v, q)[m]
  BY DEF Reached
<1>2. m = Len(q)
  <2>1. Len(SubSeq(q, m + 1, Len(q))) = Len(q) - m
    OBVIOUS
  <2>2. Len(<< >>) = 0
    OBVIOUS
  <2>3. Len(q) - m = 0
    BY <1>1, <2>1, <2>2, Zenon
  <2> QED BY <2>3
<1> QED BY <1>1, <1>2 DEF Walk

(* The lookup has followed j links of the name it was given, each of which  *)
(* has taken up a slot, and walks the path that they lead to.               *)
Walking(j) ==
  LET q == Follow(vol, base)[j] IN
  /\ j <= Cardinality(lost)
  /\ IF dir_inode = NoSlot THEN path = q ELSE Reached(vol, q, path, table[dir_inode])

Resolving ==
  pc = "namei" /\ RelativeFirst(vol, base) => \E j \in 0 .. MAX_OPEN_FILES : Walking(j)

NamesInv == SlotInv /\ Resolving /\ NamedFile

LEMMA SlotsFinite == IsFiniteSet(Slots) /\ Cardinality(Slots) = MAX_OPEN_FILES
<1>1. 0 \in Int /\ MAX_OPEN_FILES - 1 \in Int /\ 0 <= MAX_OPEN_FILES - 1
  OBVIOUS
<1>2. /\ IsFiniteSet(0 .. MAX_OPEN_FILES - 1)
      /\ Cardinality(0 .. MAX_OPEN_FILES - 1) = (MAX_OPEN_FILES - 1) - 0 + 1
  BY <1>1, FS_Interval
<1> QED BY <1>2 DEF Slots

LEMMA LostBound ==
  ASSUME SlotInv
  PROVE  IsFiniteSet(lost) /\ Cardinality(lost) \in 0 .. MAX_OPEN_FILES
<1>1. IsFiniteSet(Slots) /\ Cardinality(Slots) = MAX_OPEN_FILES
  BY SlotsFinite
<1>2. lost \subseteq Slots
  BY DEF SlotInv, SlotTypes
<1>3. IsFiniteSet(lost) /\ Cardinality(lost) <= Cardinality(Slots)
  BY <1>1, <1>2, FS_Subset
<1>4. Cardinality(lost) \in Nat
  BY <1>3, FS_CardinalityType
<1> QED BY <1>1, <1>3, <1>4

(* Descriptors that keep their slots keep their files. *)
LEMMA NamedFrame ==
  ASSUME NamedFile, vol' = vol,
         \A fd \in fds' : fd \in fds /\ names'[fd] = names[fd] /\ table'[fd] = table[fd]
  PROVE  NamedFile'
BY Zenon DEF NamedFile

LEMMA InitNames == Init => NamesInv
<1> SUFFICES ASSUME Init PROVE NamesInv
  OBVIOUS
<1>1. fds = {}
  BY DEF Init, fds
<1>2. NamedFile
  BY <1>1 DEF NamedFile
<1> QED BY <1>2, InitSlots DEF Init, NamesInv, Resolving

LEMMA LookupNames ==
  ASSUME NamesInv, Lookup PROVE Resolving' /\ NamedFile'
<1>0. /\ pc = "namei" /\ dir_inode \in Slots /\ dir_inode # NoSlot /\ vol \in Vols
      /\ path # << >> /\ path \in Seq(Names) /\ base \in Seq(Names)
      /\ UNCHANGED << vol, root, names >>
  BY Types DEF Lookup, NamesInv, SlotInv, SlotTypes
<1>1. table[dir_inode] \in Inos
  BY <1>0, Types DEF NamesInv, SlotInv, SlotTypes, SlotsAccounted, InUse, InHand
<1>2. ASSUME NEW s \in fds PROVE Released[s] = table[s] /\ Released[s] # NoIno
  <2>1. s \in {t \in Slots : Released[t] # NoIno} /\ s \in Slots
    BY <1>0, ReleasedSlots DEF NamesInv, fds
  <2> QED BY <1>0, <2>1, ReleasedSlots DEF NamesInv
<1>3. fds' = fds
  BY <1>0 DEF fds
<1> DEFINE n == Entry[vol][table[dir_inode]][Head(path)]
<1>4. CASE n # NoIno /\ LookupFound(n)
  <2>1. PICK s \in Slots : /\ Released[s] = NoIno
                           /\ table' = [Released EXCEPT ![s] = n] /\ dir_inode' = s
    BY <1>4 DEF LookupFound
  <2>2. UNCHANGED << pc, base, lost >> /\ path' = Tail(path)
    BY <1>4 DEF LookupFound
  <2>3. Released \in [Slots -> Inos \union {NoIno}]
    BY <1>0, ReleasedSlots DEF NamesInv
  <2>4. NamedFile'
    BY <1>0, <1>2, <1>3, <2>1, <2>3, NamedFrame DEF NamesInv
  <2>5. table'[dir_inode'] = n /\ dir_inode' # NoSlot
    BY <2>1, <2>3, NoSlotNotSlot
  <2>6. Resolving'
    <3> SUFFICES ASSUME RelativeFirst(vol, base) PROVE \E j \in 0 .. MAX_OPEN_FILES : Walking(j)'
      BY <1>0, <2>2, Zenon DEF Resolving
    <3>1. PICK j \in 0 .. MAX_OPEN_FILES : Walking(j)
      BY <1>0 DEF NamesInv, Resolving
    <3> DEFINE q == Follow(vol, base)[j]
    <3>2. q \in Seq(Names)
      BY <1>0, FollowDef
    <3>3. j <= Cardinality(lost) /\ Reached(vol, q, path, table[dir_inode])
      BY <1>0, <3>1 DEF Walking
    <3>4. Reached(vol, q, Tail(path), n)
      BY <1>0, <1>1, <3>2, <3>3, ReachedNext
    <3>5. Walking(j)'
      BY <1>0, <2>2, <2>5, <3>3, <3>4, Zenon DEF Walking
    <3> QED BY <3>5
  <2> QED BY <2>4, <2>6
<1>5. CASE LookupFails
  <2>1. table' = Released /\ pc' = "idle"
    BY <1>5 DEF LookupFails, OpenFails
  <2>2. NamedFile'
    BY <1>0, <1>2, <1>3, <2>1, NamedFrame DEF NamesInv
  <2> QED BY <2>1, <2>2 DEF Resolving
<1> QED BY <1>4, <1>5 DEF Lookup

LEMMA FollowNames ==
  ASSUME NamesInv, ext2_follow_link PROVE Resolving' /\ NamedFile'
<1>0. /\ pc = "namei" /\ dir_inode \in Slots /\ dir_inode # NoSlot /\ vol \in Vols
      /\ path = << >> /\ base \in Seq(Names) /\ Inode[vol][table[dir_inode]].type = "link"
      /\ UNCHANGED << vol, root, names, table >>
  BY Types DEF ext2_follow_link, FollowLink, NamesInv, SlotInv, SlotTypes
<1>1. table[dir_inode] \in Inos
  BY <1>0, Types DEF NamesInv, SlotInv, SlotTypes, SlotsAccounted, InUse, InHand
<1>2. NamedFile'
  BY <1>0, NamedFrame DEF NamesInv, fds
<1>3. CASE pc' = "idle"
  BY <1>2, <1>3 DEF Resolving
<1>4. CASE FollowLink
  <2>1. UNCHANGED << pc, base >> /\ path' = Target(table[dir_inode]) /\ dir_inode' = NoSlot
    BY <1>4 DEF FollowLink
  <2>2. lost' = lost \union {dir_inode} /\ dir_inode \notin lost
    <3>1. dir_inode # root
      BY <1>0, Types DEF NamesInv, SlotInv, SlotsAccounted
    <3> QED BY <1>0, <1>4, <3>1 DEF FollowLink, Held, NamesInv, SlotInv, SlotsAccounted, InHand, RootSlot
  <2>3. Cardinality(lost') = Cardinality(lost) + 1 /\ Cardinality(lost') <= MAX_OPEN_FILES
        /\ Cardinality(lost) \in Nat
    <3>1. SlotInv'
      BY NextSlots DEF NamesInv, Next, Driver
    <3>2. IsFiniteSet(lost) /\ Cardinality(lost) \in Nat
      BY LostBound DEF NamesInv
    <3>3. Cardinality(lost') = Cardinality(lost) + 1
      BY <2>2, <3>2, FS_AddElement
    <3>4. Cardinality(lost') \in 0 .. MAX_OPEN_FILES
      <4>1. lost' \subseteq Slots
        BY <3>1 DEF SlotInv, SlotTypes
      <4>2. IsFiniteSet(Slots) /\ Cardinality(Slots) = MAX_OPEN_FILES
        BY SlotsFinite
      <4>3. IsFiniteSet(lost') /\ Cardinality(lost') <= Cardinality(Slots)
        BY <4>1, <4>2, FS_Subset
      <4>4. Cardinality(lost') \in Nat
        BY <4>3, FS_CardinalityType
      <4> QED BY <4>2, <4>3, <4>4
    <3> QED BY <3>2, <3>3, <3>4
  <2>4. Resolving'
    <3> SUFFICES ASSUME RelativeFirst(vol, base) PROVE \E j \in 0 .. MAX_OPEN_FILES : Walking(j)'
      BY <1>0, <2>1, Zenon DEF Resolving
    <3>1. PICK j \in 0 .. MAX_OPEN_FILES : Walking(j)
      BY <1>0 DEF NamesInv, Resolving
    <3> DEFINE q == Follow(vol, base)[j]
    <3>2. q \in Seq(Names)
      BY <1>0, FollowDef
    <3>3. j <= Cardinality(lost) /\ Reached(vol, q, << >>, table[dir_inode])
      BY <1>0, <3>1 DEF Walking
    <3>4. table[dir_inode] = Walk(vol, q)
      BY <1>0, <3>2, <3>3, ReachedEnd
    <3>5. IsLink(vol, q)
      BY <1>0, <1>1, <3>4, Types DEF IsLink
    <3>6. Link[vol][table[dir_inode]].abs \/ q = base
      <4>1. CASE j = 0
        BY <1>0, <4>1, FollowDef
      <4>2. CASE j # 0
        <5>1. j \in 1 .. MAX_OPEN_FILES
          BY <4>2
        <5> QED BY <3>4, <3>5, <5>1, Zenon DEF RelativeFirst
      <4> QED BY <4>1, <4>2
    <3>7. Target(table[dir_inode]) = Hop(vol, q)
      BY <3>4, <3>5, <3>6 DEF Target, Hop
    <3>8. j + 1 \in 1 .. MAX_OPEN_FILES /\ j + 1 <= Cardinality(lost') /\ (j + 1) - 1 = j
      BY <2>3, <3>3
    <3>9. Follow(vol, base)[j + 1] = Hop(vol, q)
      <4> DEFINE w == Follow(vol, base)
      <4>1. \A k \in 1 .. MAX_OPEN_FILES : w[k] = Hop(vol, w[k - 1])
        BY <1>0, FollowDef
      <4> HIDE DEF w
      <4>2. w[j + 1] = Hop(vol, w[j])
        BY <3>8, <4>1
      <4> QED BY <4>2 DEF w
    <3>10. Walking(j + 1)'
      BY <1>0, <2>1, <3>7, <3>8, <3>9, Zenon DEF Walking
    <3>11. j + 1 \in 0 .. MAX_OPEN_FILES
      BY <3>8
    <3> QED BY <3>10, <3>11
  <2> QED BY <1>2, <2>4
<1> QED BY <1>3, <1>4 DEF ext2_follow_link, OpenFails

LEMMA OpenedNames ==
  ASSUME NamesInv, Opened PROVE Resolving' /\ NamedFile'
<1>0. /\ pc = "namei" /\ dir_inode \in Slots /\ dir_inode # NoSlot /\ vol \in Vols
      /\ path = << >> /\ base \in Seq(Names) /\ base \in Paths
      /\ Inode[vol][table[dir_inode]].type # "link"
      /\ UNCHANGED << vol, table >> /\ pc' = "idle"
      /\ names \in [Slots -> Paths \union {NoName}]
      /\ names' = [names EXCEPT ![dir_inode] = base]
  BY Types DEF Opened, NamesInv, SlotInv, SlotTypes
<1>1. ASSUME NEW fd \in fds', RelativeFirst(vol, names'[fd])
      PROVE  table'[fd] = Walk(vol, Follow(vol, names'[fd])[MAX_OPEN_FILES])
  <2>1. CASE fd = dir_inode
    <3>1. names'[fd] = base
      BY <1>0, <2>1
    <3>2. PICK j \in 0 .. MAX_OPEN_FILES : Walking(j)
      BY <1>0, <1>1, <3>1, Zenon DEF NamesInv, Resolving
    <3> DEFINE q == Follow(vol, base)[j]
    <3>3. q \in Seq(Names)
      BY <1>0, FollowDef
    <3>4. table[dir_inode] = Walk(vol, q)
      BY <1>0, <3>2, <3>3, ReachedEnd DEF Walking
    <3>5. ~IsLink(vol, q)
      BY <1>0, <3>4 DEF IsLink
    <3>6. Follow(vol, base)[MAX_OPEN_FILES] = q
      BY <1>0, <3>5, FollowEnds
    <3> QED BY <1>0, <2>1, <3>1, <3>4, <3>6
  <2>2. CASE fd # dir_inode
    <3>1. fd \in fds /\ names'[fd] = names[fd] /\ fd \in Slots
      BY <1>0, <1>1, <2>2 DEF fds
    <3> QED BY <1>0, <1>1, <3>1 DEF NamesInv, NamedFile
  <2> QED BY <2>1, <2>2
<1>2. NamedFile'
  BY <1>0, <1>1, Zenon DEF NamedFile
<1> QED BY <1>0, <1>2 DEF Resolving

LEMMA RootNames ==
  ASSUME NamesInv, NameiRoot PROVE Resolving' /\ NamedFile'
<1>0. /\ pc = "namei" /\ dir_inode = NoSlot /\ vol \in Vols /\ base \in Seq(Names)
      /\ UNCHANGED << vol, names, lost >>
  BY Types DEF NameiRoot, NamesInv, SlotInv, SlotTypes
<1>1. fds' = fds
  BY <1>0 DEF fds
<1>2. ASSUME NEW fd \in fds PROVE table'[fd] = table[fd]
  <2>1. fd \in Slots /\ table[fd] # NoIno
    BY DEF NamesInv, SlotInv, SlotsAccounted, InUse, fds
  <2> QED BY <2>1 DEF NameiRoot, IsFirstFree, FreeSlots, NamesInv, SlotInv, SlotTypes
<1>3. NamedFile'
  BY <1>0, <1>1, <1>2, NamedFrame DEF NamesInv
<1>4. CASE pc' = "idle"
  BY <1>3, <1>4 DEF Resolving
<1>5. CASE UNCHANGED << pc, base, path >> /\ dir_inode' \in Slots /\ table'[dir_inode'] = RootIno
  <2> SUFFICES ASSUME RelativeFirst(vol, base) PROVE \E j \in 0 .. MAX_OPEN_FILES : Walking(j)'
    BY <1>0, <1>3, <1>5, Zenon DEF Resolving
  <2>1. PICK j \in 0 .. MAX_OPEN_FILES : Walking(j)
    BY <1>0 DEF NamesInv, Resolving
  <2> DEFINE q == Follow(vol, base)[j]
  <2>2. q \in Seq(Names)
    BY <1>0, FollowDef
  <2>3. j <= Cardinality(lost) /\ path = q
    BY <1>0, <2>1 DEF Walking
  <2>4. Reached(vol, q, q, RootIno)
    BY <1>0, <2>2, ReachedRoot
  <2>5. dir_inode' # NoSlot
    BY <1>5, NoSlotNotSlot
  <2>6. Walking(j)'
    BY <1>0, <1>5, <2>3, <2>4, <2>5, Zenon DEF Walking
  <2> QED BY <2>6
<1>6. \/ pc' = "idle"
      \/ UNCHANGED << pc, base, path >> /\ dir_inode' \in Slots /\ table'[dir_inode'] = RootIno
  BY DEF NameiRoot, OpenFails, NamesInv, SlotInv, SlotTypes, SlotsAccounted
<1> QED BY <1>4, <1>5, <1>6

LEMMA NextNames == NamesInv /\ [Next]_vars => NamesInv'
<1> SUFFICES ASSUME NamesInv, [Next]_vars PROVE NamesInv'
  OBVIOUS
<1>0. SlotInv'
  BY NextSlots DEF NamesInv
<1> SUFFICES Resolving' /\ NamedFile'
  BY <1>0 DEF NamesInv
<1>1. ASSUME NEW v \in Vols, ext2_mount(v) PROVE Resolving' /\ NamedFile'
  <2>1. pc' = "idle" /\ fds' = {}
    BY <1>1 DEF ext2_mount, ClearTable, fds
  <2> QED BY <2>1 DEF Resolving, NamedFile
<1>2. ASSUME NEW p \in Paths, ext2_open(p) PROVE Resolving' /\ NamedFile'
  <2>1. /\ vol \in Vols /\ p \in Seq(Names) /\ vol' = vol /\ base' = p /\ path' = p
        /\ dir_inode' = NoSlot /\ UNCHANGED << names, table, lost >>
    BY <1>2, Types DEF ext2_open, slotvars, NamesInv, SlotInv, SlotTypes
  <2>2. NamedFile'
    BY <2>1, NamedFrame DEF NamesInv, fds
  <2>3. 0 <= Cardinality(lost) /\ 0 \in 0 .. MAX_OPEN_FILES /\ Follow(vol, p)[0] = p
    <3>1. Cardinality(lost) \in 0 .. MAX_OPEN_FILES
      BY LostBound DEF NamesInv
    <3>2. Follow(vol, p)[0] = p
      BY <2>1, FollowDef
    <3> QED BY <3>1, <3>2
  <2>4. Walking(0)'
    BY <2>1, <2>3, Zenon DEF Walking
  <2> QED BY <2>2, <2>3, <2>4 DEF Resolving
<1>3. ASSUME NEW fd \in Slots, ext2_close(fd) PROVE Resolving' /\ NamedFile'
  <2>1. pc' = "idle" /\ vol' = vol
    BY <1>3 DEF ext2_close
  <2>2. ASSUME NEW s \in fds' PROVE s \in fds /\ names'[s] = names[s] /\ table'[s] = table[s]
    BY <1>3, <2>2 DEF ext2_close, fds, NamesInv, SlotInv, SlotTypes
  <2>3. NamedFile'
    BY <2>1, <2>2, NamedFrame DEF NamesInv
  <2> QED BY <2>1, <2>3 DEF Resolving
<1>4. ASSUME UNCHANGED << vol, openvars, slotvars >>, pc' # "namei" \/ pc' = pc
      PROVE  Resolving' /\ NamedFile'
  <2>1. NamedFile'
    BY <1>4, NamedFrame DEF NamesInv, fds, slotvars
  <2>2. CASE pc' # "namei"
    BY <2>1, <2>2 DEF Resolving
  <2>3. CASE pc' = pc
    BY <1>4, <2>1, <2>3, Zenon DEF NamesInv, Resolving, Walking, openvars, slotvars
  <2> QED BY <1>4, <2>2, <2>3
<1>5. ASSUME NEW fd \in Slots, NEW b \in 0 .. MaxBlkno, NEW n \in 1 .. MaxRun,
            ext2_bread(fd, b, n) \/ ext4_bread(fd, b, n)
      PROVE Resolving' /\ NamedFile'
  BY <1>4, <1>5 DEF ext2_bread, ext4_bread
<1>6. CASE breadFirst \/ breadNext \/ breadXfer \/ breadRunsOn
  BY <1>4, <1>6 DEF breadFirst, breadNext, breadXfer, breadRunsOn, Returns
<1>7. CASE UNCHANGED vars
  BY <1>4, <1>7 DEF vars
<1> QED BY <1>1, <1>2, <1>3, <1>5, <1>6, <1>7, RootNames, LookupNames, FollowNames, OpenedNames
     DEF Next, Driver, BootLoop

(* The driver's state stays in range, and an open descriptor stands for the *)
(* inode that the name it was opened by denotes, with the links followed:   *)
(* for every volume, every number of slots and every order of opens, closes *)
(* and failed reads.                                                        *)
THEOREM OpensRightInvariance == Spec => []OpensRight
<1>1. Spec => []NamesInv
  BY InitNames, NextNames, PTL DEF Spec
<1>2. Spec => []ReadInv
  BY InitRead, NextRead, PTL DEF Spec
<1>3. ReadInv => TypeOK
  BY DEF ReadInv, ReadTypes, Caches, TypeOK, SlotInv
<1>4. NamesInv => NamedFile
  BY DEF NamesInv
<1> QED BY <1>1, <1>2, <1>3, <1>4, PTL DEF OpensRight
=============================================================================
