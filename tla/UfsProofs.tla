----------------------------- MODULE UfsProofs ------------------------------
(* What ufs_bread brings are the blocks of the file, and what ufs_open      *)
(* opens is the file that was named, for every sound volume, sizes of       *)
(* blocks and fragments, and sequence of calls.                             *)
EXTENDS Ufs, SequenceTheorems, TLAPS

Unsized == [i \in Levels |-> 0]
Cube == Square * NINDIR
Total == NDADDR + NINDIR + Square + Cube

Pcs == {"idle", "root", "component", "search", "run", "map", "mapped", "transfer", "scan",
        "next", "link", "relink", "fault"}
Looking == pc \in {"root", "component", "search", "scan", "next", "link", "relink"}
InRun == pc \in {"map", "mapped", "transfer"}

FileTypes ==
  /\ vol \in Vols /\ ic \in Inodes
  /\ f_nindir \in {Unsized, Reach}
  /\ f_blkno \in [Levels -> Int] /\ f_blk \in [Levels -> {Empty} \cup [1 .. NINDIR -> Nat]]
  /\ f_buf \in [0 .. BlockUnits - 1 -> Entries(vol)]

SearchTypes ==
  /\ pc \in Pcs
  /\ path \in Seq(STRING \ {Junk.name}) /\ (pc \in {"search", "scan", "next"} => path # << >>)
  /\ inumber \in DOMAIN vol.inode /\ parent \in DOMAIN vol.inode
  /\ nlinks \in 0 .. MAXSYMLINKS + 1 /\ (Looking => nlinks <= MAXSYMLINKS)
  /\ offset \in Nat /\ blockoffset \in Nat
  /\ ret.val \in Int

Runs == [back : {"bread", "scan"}, from : Nat, count : Nat, blkno : Nat, nblks : Nat,
         start : Nat, first : Int, frags : Nat, data : Seq(Int)]

RunTypes ==
  /\ m \in [level : -1 .. 2, fb : Nat, num : Int]
  /\ g \in Runs
  /\ g.count <= MaxRun /\ g.from <= g.blkno /\ g.blkno + g.nblks = g.from + g.count
  /\ pc = "map" => m.level >= 0 /\ f_nindir = Reach /\ m.fb < Reach[m.level]
  /\ pc \in {"map", "mapped"} => g.nblks > 0
  /\ InRun => g.from <= g.start /\ g.start <= g.blkno /\ Len(g.data) + g.frags <= Frags * (g.blkno - g.from)
  /\ Len(g.data) <= Frags * (g.blkno - g.from)
  /\ g.back = "scan" /\ (pc = "run" \/ InRun) => path # << >> /\ nlinks <= MAXSYMLINKS

Types == FileTypes /\ SearchTypes /\ RunTypes /\ failures \in 0 .. MaxFailures /\ mounted \in BOOLEAN
-----------------------------------------------------------------------------
(* Sizes *)

LEMMA Sizes ==
  /\ Frags \in Nat \ {0} /\ FragUnits \in Nat \ {0} /\ BlockUnits \in Nat \ {0}
  /\ NDADDR \in Nat \ {0} /\ NIADDR = 3 /\ Levels = 0 .. 2
  /\ NINDIR \in Nat \ {0} /\ Square \in Nat \ {0} /\ Cube \in Nat \ {0} /\ Total \in Nat
  /\ MaxRun \in Nat \ {0} /\ MAXSYMLINKS \in Nat /\ MaxFailures \in Nat
<1>1. /\ Frags \in Nat \ {0} /\ FragUnits \in Nat \ {0}
      /\ NDADDR \in Nat \ {0} /\ NIADDR = 3 /\ NINDIR \in Nat \ {0}
      /\ MaxRun \in Nat \ {0} /\ MAXSYMLINKS \in Nat /\ MaxFailures \in Nat
  BY SizesAssumption
<1>2. ASSUME NEW a \in Nat \ {0}, NEW b \in Nat \ {0} PROVE a * b \in Nat \ {0}
  OBVIOUS
<1>3. BlockUnits \in Nat \ {0}
  BY <1>1, <1>2 DEF BlockUnits
<1>4. Square \in Nat \ {0}
  BY <1>1, <1>2 DEF Square
<1>5. Cube \in Nat \ {0}
  BY <1>1, <1>2, <1>4 DEF Cube
<1>6. Levels = 0 .. 2
  BY <1>1 DEF Levels
<1> QED BY <1>1, <1>3, <1>4, <1>5, <1>6 DEF Total

LEMMA ReachDef == Reach = [i \in Levels |-> IF i = 0 THEN NINDIR ELSE IF i = 1 THEN Square ELSE Cube]
<1> DEFINE E(f) == f = [i \in Levels |-> IF i = 0 THEN NINDIR ELSE f[i - 1] * NINDIR]
           f0 == [i \in Levels |-> IF i = 0 THEN NINDIR ELSE IF i = 1 THEN Square ELSE Cube]
<1>1. f0[0] = NINDIR /\ f0[1] = f0[0] * NINDIR /\ f0[2] = f0[1] * NINDIR
  BY Sizes DEF Cube, Square
<1>2. E(f0)
  <2>1. ASSUME NEW i \in Levels PROVE f0[i] = IF i = 0 THEN NINDIR ELSE f0[i - 1] * NINDIR
    <3>1. i = 0 \/ i = 1 \/ i = 2
      BY Sizes
    <3> HIDE DEF f0
    <3> QED BY <1>1, <3>1
  <2>2. f0 = [i \in Levels |-> f0[i]]
    OBVIOUS
  <2> HIDE DEF f0
  <2> QED BY <2>1, <2>2
<1>3. E(Reach)
  <2> HIDE DEF f0
  <2> QED BY <1>2, Zenon DEF Reach
<1>4. Reach[0] = NINDIR /\ Reach[1] = Reach[0] * NINDIR /\ Reach[2] = Reach[1] * NINDIR
  <2> HIDE DEF f0
  <2>1. 0 \in Levels /\ 1 \in Levels /\ 2 \in Levels /\ 1 - 1 = 0 /\ 2 - 1 = 1
    BY Sizes
  <2> QED BY <1>3, <2>1
<1>5. Reach[0] = NINDIR /\ Reach[1] = Square /\ Reach[2] = Cube
  BY <1>4 DEF Cube, Square
<1>6. ASSUME NEW i \in Levels
      PROVE  Reach[i] = IF i = 0 THEN NINDIR ELSE IF i = 1 THEN Square ELSE Cube
  <2>1. i = 0 \/ i = 1 \/ i = 2
    BY Sizes
  <2> QED BY <1>5, <2>1
<1>7. Reach = [i \in Levels |-> Reach[i]]
  <2> HIDE DEF f0
  <2> QED BY <1>3
<1> QED BY <1>6, <1>7

LEMMA Reaches ==
  /\ Reach \in [Levels -> Nat \ {0}] /\ Reach[0] = NINDIR /\ Reach[1] = Square /\ Reach[2] = Cube
  /\ Unsized \in [Levels -> Nat] /\ Unsized[0] = 0 /\ Unsized[1] = 0 /\ Unsized[2] = 0
  /\ Unsized # Reach
BY Sizes, ReachDef DEF Unsized

LEMMA BeforeDef ==
  ASSUME f_nindir \in [Levels -> Nat]
  PROVE  Before[0] = 0 /\ Before[1] = f_nindir[0] /\ Before[2] = f_nindir[0] + f_nindir[1]
<1> DEFINE E(f) == f = [i \in Levels |-> IF i = 0 THEN 0 ELSE f[i - 1] + f_nindir[i - 1]]
           f0 == [i \in Levels |-> IF i = 0 THEN 0 ELSE IF i = 1 THEN f_nindir[0]
                                   ELSE f_nindir[0] + f_nindir[1]]
<1>0. 0 \in Levels /\ 1 \in Levels /\ 2 \in Levels /\ 1 - 1 = 0 /\ 2 - 1 = 1
  BY Sizes
<1>1. f0[0] = 0 /\ f0[1] = f0[0] + f_nindir[0] /\ f0[2] = f0[1] + f_nindir[1]
  BY <1>0
<1>2. E(f0)
  <2>1. ASSUME NEW i \in Levels PROVE f0[i] = IF i = 0 THEN 0 ELSE f0[i - 1] + f_nindir[i - 1]
    <3>1. i = 0 \/ i = 1 \/ i = 2
      BY Sizes
    <3> HIDE DEF f0
    <3> QED BY <1>0, <1>1, <3>1
  <2>2. f0 = [i \in Levels |-> f0[i]]
    OBVIOUS
  <2> HIDE DEF f0
  <2> QED BY <2>1, <2>2
<1> HIDE DEF f0
<1>3. E(Before)
  BY <1>2, Zenon DEF Before
<1>4. ASSUME NEW i \in Levels PROVE Before[i] = IF i = 0 THEN 0 ELSE Before[i - 1] + f_nindir[i - 1]
  BY <1>3, Zenon
<1> QED BY <1>0, <1>4

LEMMA Volume ==
  ASSUME vol \in Vols
  PROVE  /\ vol.magic \in BOOLEAN
         /\ DOMAIN vol.ind \subseteq Nat \ {0}
         /\ \A a \in DOMAIN vol.ind : vol.ind[a] \in [1 .. NINDIR -> Nat]
         /\ DOMAIN vol.inode \subseteq Nat /\ ROOTINO \in DOMAIN vol.inode /\ 0 \in DOMAIN vol.inode
         /\ vol.inode[0] = NoInode /\ NoInode \in Inodes
         /\ DOMAIN vol.cell \subseteq Nat \ {0}
         /\ \A a \in DOMAIN vol.cell : vol.cell[a] \in [1 .. FragUnits -> Entries(vol)]
         /\ vol.want \subseteq Seq(STRING \ {Junk.name})
         /\ \A i \in Inodes : InodeSound(vol, i)
         /\ Junk \in Entries(vol) /\ JunkBuf \in [0 .. BlockUnits - 1 -> Entries(vol)]
<1>1. VolumeSound(vol)
  BY VolumesAssumption
<1>2. Junk \in Entries(vol)
  BY DEF Entries
<1>3. JunkBuf \in [0 .. BlockUnits - 1 -> Entries(vol)]
  BY <1>2 DEF JunkBuf
<1>4. /\ vol.magic \in BOOLEAN
      /\ DOMAIN vol.ind \subseteq Nat \ {0}
      /\ \A a \in DOMAIN vol.ind : vol.ind[a] \in [1 .. NINDIR -> Nat]
      /\ DOMAIN vol.inode \subseteq Nat /\ ROOTINO \in DOMAIN vol.inode /\ 0 \in DOMAIN vol.inode
      /\ vol.inode[0] = NoInode
      /\ \A n \in DOMAIN vol.inode : InodeSound(vol, vol.inode[n])
      /\ DOMAIN vol.cell \subseteq Nat \ {0}
      /\ \A a \in DOMAIN vol.cell : vol.cell[a] \in [1 .. FragUnits -> Entries(vol)]
      /\ vol.want \subseteq Seq(STRING \ {Junk.name})
  BY <1>1, Zenon DEF VolumeSound
<1>5. NoInode \in Inodes
  BY <1>4, Zenon DEF Inodes
<1>6. \A i \in Inodes : InodeSound(vol, i)
  BY <1>4, Zenon DEF Inodes
<1> QED BY <1>2, <1>3, <1>4, <1>5, <1>6, Zenon

(* Blocks that block_map can find: all of a file's, once f_nindir is set. *)
Covered(b) == b < NDADDR \/ (f_nindir = Reach /\ b < Total)

(* What block_map starts with. *)
Started(b, k, i) ==
  /\ pc' = "map" /\ f_nindir = Reach /\ k \in 0 .. Reach[i] - 1
  /\ m' = [level |-> i, fb |-> k, num |-> ic.ib[i + 1]]

MapStarted(b) ==
  LET k == b - NDADDR IN
  \/ b < NDADDR /\ pc' = "mapped" /\ m' = [m EXCEPT !.num = ic.db[b + 1]]
  \/ b >= NDADDR /\ ~Covered(b) /\ pc' = "mapped" /\ m' = [m EXCEPT !.num = -1]
  \/ b >= NDADDR /\ Started(b, k, 0)
  \/ b >= NDADDR /\ Started(b, k - NINDIR, 1)
  \/ b >= NDADDR /\ Started(b, k - NINDIR - Square, 2)

LEMMA MapStarts ==
  ASSUME FileTypes, NEW b \in Nat, MapStart(b)
  PROVE  MapStarted(b)
<1> DEFINE k == b - NDADDR
<1>0. f_nindir \in [Levels -> Nat] /\ k \in Int
  BY Sizes, Reaches DEF FileTypes
<1>1. CASE b < NDADDR
  BY <1>1 DEF MapStart, MapStarted, Direct, Mapped
<1>2. CASE b >= NDADDR /\ LevelOf(b) = {}
  <2>1. pc' = "mapped" /\ m' = [m EXCEPT !.num = -1]
    BY <1>2, Sizes DEF MapStart, Direct, Mapped
  <2>2. ASSUME Covered(b) PROVE FALSE
    <3>1. f_nindir = Reach /\ b < Total
      BY <1>2, <2>2, Sizes DEF Covered
    <3>2. Before[0] = 0 /\ Before[1] = NINDIR /\ Before[2] = NINDIR + Square
      BY <1>0, <3>1, BeforeDef, Reaches
    <3>3. k - Before[0] < f_nindir[0] \/ k - Before[1] < f_nindir[1] \/ k - Before[2] < f_nindir[2]
      BY <3>1, <3>2, Reaches, Sizes DEF Total
    <3>4. CASE k - Before[0] < f_nindir[0]
      <4>1. 0 \in LevelOf(b)
        BY <3>4, Sizes DEF LevelOf
      <4> QED BY <1>2, <4>1
    <3>5. CASE k - Before[0] >= f_nindir[0] /\ k - Before[1] < f_nindir[1]
      <4>1. 1 \in LevelOf(b)
        BY <3>5, Sizes DEF LevelOf
      <4> QED BY <1>2, <4>1
    <3>6. CASE k - Before[0] >= f_nindir[0] /\ k - Before[1] >= f_nindir[1] /\ k - Before[2] < f_nindir[2]
      <4>1. 2 \in LevelOf(b)
        BY <3>6, Sizes DEF LevelOf
      <4> QED BY <1>2, <4>1
    <3>7. k - Before[0] \in Int /\ k - Before[1] \in Int /\ f_nindir[0] \in Int /\ f_nindir[1] \in Int
      BY <3>1, <3>2, Reaches, Sizes
    <3> QED BY <3>3, <3>4, <3>5, <3>6, <3>7
  <2> QED BY <1>2, <2>1, <2>2, Zenon DEF MapStarted
<1>3. CASE b >= NDADDR /\ LevelOf(b) # {}
  <2>1. PICK i \in LevelOf(b) :
          m' = [level |-> i, fb |-> b - NDADDR - Before[i], num |-> ic.ib[i + 1]] /\ pc' = "map"
    BY <1>3, Sizes DEF MapStart, Direct
  <2>2. /\ i \in 0 .. 2 /\ k - Before[i] < f_nindir[i]
        /\ \A j \in 0 .. i - 1 : k - Before[j] >= f_nindir[j]
    BY Sizes DEF LevelOf
  <2>3. f_nindir = Reach
    <3>1. CASE f_nindir = Unsized
      <4>1. Before[0] = 0 /\ Before[1] = 0 /\ Before[2] = 0
        BY <1>0, <3>1, BeforeDef, Reaches
      <4>2. Before[i] = 0 /\ f_nindir[i] = 0
        BY <2>2, <3>1, <4>1, Reaches
      <4> QED BY <1>0, <1>3, <2>2, <4>2, Sizes
    <3> QED BY <3>1 DEF FileTypes
  <2>4. Before[0] = 0 /\ Before[1] = NINDIR /\ Before[2] = NINDIR + Square
    BY <1>0, <2>3, BeforeDef, Reaches
  <2>5. CASE i = 0
    BY <1>3, <2>1, <2>2, <2>3, <2>4, <2>5, Reaches, Sizes DEF MapStarted, Started
  <2>6. CASE i = 1
    <3>1. k >= NINDIR /\ k - NINDIR < Square
      BY <2>2, <2>3, <2>4, <2>6, Reaches, Sizes
    <3> QED BY <1>3, <2>1, <2>3, <2>4, <2>6, <3>1, Reaches, Sizes DEF MapStarted, Started
  <2>7. CASE i = 2
    <3>1. k >= NINDIR + Square /\ k - (NINDIR + Square) < Cube
      <4>1. 1 \in 0 .. i - 1
        BY <2>7
      <4>2. k - Before[1] >= f_nindir[1]
        BY <2>2, <4>1
      <4> QED BY <2>2, <2>3, <2>4, <2>7, <4>2, Reaches, Sizes
    <3>2. k - (NINDIR + Square) = k - NINDIR - Square
      BY <1>0, Sizes
    <3> QED BY <1>3, <2>1, <2>3, <2>4, <2>7, <3>1, <3>2, Reaches, Sizes DEF MapStarted, Started
  <2> QED BY <2>2, <2>5, <2>6, <2>7
<1> QED BY <1>1, <1>2, <1>3, Sizes

(* Not more fragments than a block has; a block that is followed by another *)
(* of the file is whole.                                                    *)
LEMMA FragsOfBlock ==
  ASSUME NEW b \in Nat, ic.size \in Nat
  PROVE  /\ FragsOf(ic, b) \in 0 .. Frags
         /\ (b + 1) * BlockUnits <= ic.size => FragsOf(ic, b) = Frags
         /\ \A x \in b * Frags .. (b + 1) * Frags - 1 :
              x * FragUnits < ic.size => x - b * Frags < FragsOf(ic, b)
<1> DEFINE BU == BlockUnits
           r == ic.size % BU
           n == (r + FragUnits - 1) \div FragUnits
<1>0. BU \in Nat \ {0} /\ BU = Frags * FragUnits
  BY Sizes DEF BlockUnits
<1>1. r \in 0 .. BU - 1
  BY <1>0
<1>2. n \in Nat /\ n * FragUnits >= r /\ n * FragUnits < r + FragUnits
  <2>1. r + FragUnits - 1 \in Nat /\ FragUnits \in Nat \ {0}
    BY <1>1, <1>0, Sizes
  <2>2. ASSUME NEW a \in Nat, NEW d \in Nat \ {0}
        PROVE  a \div d \in Nat /\ (a \div d) * d <= a /\ a < (a \div d) * d + d
    OBVIOUS
  <2> HIDE DEF r
  <2> QED BY <2>1, <2>2, <1>0, <1>1
<1>3. n <= Frags
  <2>1. ASSUME n >= Frags + 1 PROVE FALSE
    <3>1. n * FragUnits >= (Frags + 1) * FragUnits
      BY <1>2, <2>1, Sizes
    <3>2. (Frags + 1) * FragUnits = BU + FragUnits
      BY <1>0, Sizes
    <3> QED BY <1>1, <1>2, <3>1, <3>2, <1>0, Sizes
  <2> QED BY <1>2, <2>1, Sizes
<1>4. FragsOf(ic, b) = IF b >= NDADDR \/ ic.size >= (b + 1) * BU THEN Frags ELSE n
  BY DEF FragsOf
<1>5. (b + 1) * BU = b * BU + BU /\ (b + 1) * Frags = b * Frags + Frags /\ b * BU \in Nat /\ b * Frags \in Nat
  BY <1>0, Sizes
<1>6. ASSUME NEW x \in b * Frags .. (b + 1) * Frags - 1, x * FragUnits < ic.size,
             ic.size < (b + 1) * BU
      PROVE  x - b * Frags < n
  <2> DEFINE y == x - b * Frags
  <2>1. y \in Nat /\ x = b * Frags + y
    BY <1>5
  <2>2. x * FragUnits = b * BU + y * FragUnits
    <3>1. (b * Frags + y) * FragUnits = (b * Frags) * FragUnits + y * FragUnits
      BY <2>1, <1>5, Sizes
    <3>2. (b * Frags) * FragUnits = b * (Frags * FragUnits)
      BY Sizes
    <3> QED BY <2>1, <3>1, <3>2, <1>0
  <2>3. y * FragUnits \in Nat
    BY <2>1, Sizes
  <2>4. b * BU <= ic.size
    BY <1>5, <1>6, <2>2, <2>3
  <2>5. ic.size \in Nat /\ ic.size - b * BU \in 0 .. BU - 1
    BY <1>5, <1>6, <2>4, <1>0
  <2>6. r = ic.size - b * BU
    <3>1. ASSUME NEW q \in Nat, NEW d \in Nat \ {0}, NEW e \in 0 .. d - 1 PROVE (q * d + e) % d = e
      OBVIOUS
    <3>2. (b * BU + (ic.size - b * BU)) % BU = ic.size - b * BU
      BY <3>1, <2>5, <1>0
    <3>3. b * BU + (ic.size - b * BU) = ic.size
      BY <1>5, <2>5
    <3> QED BY <3>2, <3>3
  <2>7. y * FragUnits < n * FragUnits
    BY <1>2, <1>5, <1>6, <2>2, <2>3, <2>6, <2>5, Sizes
  <2>8. ASSUME n <= y PROVE n * FragUnits <= y * FragUnits
    BY <2>8, <1>2, <2>1, Sizes
  <2> QED BY <1>2, <2>1, <2>7, <2>8, <2>3, Sizes
<1>7. ASSUME NEW x \in b * Frags .. (b + 1) * Frags - 1, x * FragUnits < ic.size
      PROVE  x - b * Frags < FragsOf(ic, b)
  <2>1. CASE b >= NDADDR \/ ic.size >= (b + 1) * BU
    BY <1>4, <1>5, <2>1, Sizes
  <2>2. CASE ~(b >= NDADDR \/ ic.size >= (b + 1) * BU)
    <3>1. ic.size < (b + 1) * BU
      BY <1>0, <1>5, <2>2
    <3>2. x - b * Frags < n
      BY <1>6, <1>7, <3>1
    <3> QED BY <1>4, <2>2, <3>2
  <2> QED BY <2>1, <2>2
<1>8. FragsOf(ic, b) \in 0 .. Frags /\ ((b + 1) * BU <= ic.size => FragsOf(ic, b) = Frags)
  <2> HIDE DEF n
  <2> QED BY <1>2, <1>3, <1>4, <1>5, <1>0, Sizes
<1> QED BY <1>7, <1>8
-----------------------------------------------------------------------------
(* Types *)

LEMMA InitTypes == Init => Types
<1> SUFFICES ASSUME Init PROVE Types
  OBVIOUS
<1>1. vol \in Vols /\ ic \in Inodes /\ f_buf \in [0 .. BlockUnits - 1 -> Entries(vol)]
  BY Volume DEF Init
<1>2. FileTypes
  BY <1>1 DEF Init, FileTypes, Unsized
<1>3. path \in Seq(STRING \ {Junk.name})
  BY DEF Init
<1>4. ret.val \in Int /\ 0 \in DOMAIN vol.inode
  BY <1>1, Volume DEF Init
<1>5. SearchTypes
  BY <1>3, <1>4, Sizes DEF Init, SearchTypes, Pcs
<1>6. Frags * 0 = 0 /\ << >> \in Seq(Int) /\ Len(<< >>) = 0
  BY Sizes
<1>7. RunTypes
  BY <1>6, Sizes DEF Init, RunTypes, Runs, InRun, NoMap, NoRun
<1>8. failures \in 0 .. MaxFailures
  BY Sizes DEF Init
<1>9. mounted \in BOOLEAN
  BY Zenon DEF Init
<1> QED BY <1>2, <1>5, <1>7, <1>8, <1>9, Zenon DEF Types

(* read_inode keeps the types of the file structure. *)
LEMMA ReadInodeTypes ==
  ASSUME Types, NEW n \in DOMAIN vol.inode, read_inode(n), UNCHANGED << vol, f_nindir >>
  PROVE  FileTypes'
<1>1. vol \in Vols /\ f_nindir \in {Unsized, Reach}
  BY DEF Types, FileTypes
<1>2. ic' \in Inodes' /\ JunkBuf \in [0 .. BlockUnits - 1 -> Entries(vol)]
  BY <1>1, Volume DEF read_inode, Inodes
<1>3. f_blkno' \in [Levels -> Int] /\ f_blk' \in [Levels -> {Empty} \cup [1 .. NINDIR -> Nat]]
  BY DEF read_inode
<1> QED BY <1>1, <1>2, <1>3 DEF read_inode, FileTypes

LEMMA NextFileTypes == Types /\ [Next]_vars => FileTypes'
<1> SUFFICES ASSUME Types, [Next]_vars PROVE FileTypes'
  OBVIOUS
<1> USE DEF file, search, counts
<1>0. FileTypes /\ vol \in Vols
  BY DEF Types, FileTypes
<1>1. ASSUME UNCHANGED << vol, file >> PROVE FileTypes'
  BY <1>0, <1>1 DEF FileTypes, Inodes
<1>2. CASE ufs_mount
  BY <1>0, <1>2, Volume DEF ufs_mount, FileTypes, Inodes, Unsized
<1>3. CASE ufs_open
  BY <1>0, <1>3, Volume DEF ufs_open, FileTypes, Inodes
<1>4. CASE ReadRoot
  <2>1. CASE read_inode(ROOTINO)
    BY <1>0, <1>4, <2>1, Volume, ReadInodeTypes DEF ReadRoot
  <2>2. CASE UNCHANGED << ic, f_buf, f_blk, f_blkno >>
    BY <1>1, <1>4, <2>2 DEF ReadRoot
  <2> QED BY <1>4, <2>1, <2>2 DEF ReadRoot
<1>5. CASE OpenDone
  BY <1>0, <1>5 DEF OpenDone, FileTypes, Inodes
<1>6. CASE block_map
  <2>1. m.level \in Levels /\ m.num \in Int
    BY <1>6, Sizes DEF block_map, Types, RunTypes
  <2>2. \A a \in DOMAIN vol.ind : vol.ind[a] \in [1 .. NINDIR -> Nat]
    BY <1>0, Volume
  <2>3. CASE UNCHANGED << f_blk, f_blkno >>
    BY <1>1, <1>6, <2>3 DEF block_map
  <2>4. CASE \E buf \in {IF m.num \in DOMAIN vol.ind THEN vol.ind[m.num] ELSE Empty} :
               f_blk' = [f_blk EXCEPT ![m.level] = buf] /\ f_blkno' = [f_blkno EXCEPT ![m.level] = m.num]
    <3>1. f_blk' \in [Levels -> {Empty} \cup [1 .. NINDIR -> Nat]] /\ f_blkno' \in [Levels -> Int]
      BY <1>0, <2>1, <2>2, <2>4 DEF FileTypes
    <3> QED BY <1>0, <1>6, <3>1 DEF block_map, FileTypes, Inodes
  <2>5. CASE f_blk' = [f_blk EXCEPT ![m.level] = Empty] /\ UNCHANGED f_blkno
    <3>1. f_blk' \in [Levels -> {Empty} \cup [1 .. NINDIR -> Nat]]
      BY <1>0, <2>5 DEF FileTypes
    <3> QED BY <1>0, <1>6, <2>5, <3>1 DEF block_map, FileTypes, Inodes
  <2> QED BY <1>6, <2>3, <2>4, <2>5 DEF block_map
<1>7. CASE Transfer
  <2>0. UNCHANGED << vol, ic, f_nindir, f_blk, f_blkno >>
    BY <1>7 DEF Transfer
  <2>1. CASE UNCHANGED f_buf
    BY <1>1, <2>0, <2>1
  <2>2. ASSUME NEW data, IntoBuffer(data), data \in Seq(Int), Len(data) \in Nat PROVE f_buf' \in [0 .. BlockUnits - 1 -> Entries(vol)]
    <3>1. f_buf \in [0 .. BlockUnits - 1 -> Entries(vol)]
      BY <1>0 DEF FileTypes
    <3>2. ASSUME NEW u \in 0 .. BlockUnits - 1, NEW a PROVE Cell(vol, a, u % FragUnits) \in Entries(vol)
      <4>1. (u % FragUnits) + 1 \in 1 .. FragUnits
        BY Sizes
      <4> QED BY <1>0, <4>1, Volume DEF Cell
    <3> QED BY <2>2, <3>1, <3>2 DEF IntoBuffer
  <2>3. g.frags \in Nat /\ g.first \in Int
    BY DEF Types, RunTypes, Runs
  <2>4. Hole \in Seq(Int) /\ FromDisk \in Seq(Int) /\ Len(Hole) \in Nat /\ Len(FromDisk) \in Nat
    BY <2>3 DEF Hole, FromDisk
  <2>5. f_buf' \in [0 .. BlockUnits - 1 -> Entries(vol)]
    <3>1. f_buf \in [0 .. BlockUnits - 1 -> Entries(vol)]
      BY <1>0 DEF FileTypes
    <3> QED BY <1>7, <2>2, <2>4, <3>1 DEF Transfer, Arrives
  <2> QED BY <1>0, <2>0, <2>5 DEF FileTypes, Inodes
<1>8. CASE Descended
  <2>1. CASE read_inode(inumber)
    BY <1>0, <1>8, <2>1, ReadInodeTypes DEF Descended, Types, SearchTypes
  <2>2. CASE UNCHANGED << ic, f_buf, f_blk, f_blkno >>
    BY <1>1, <1>8, <2>2 DEF Descended
  <2> QED BY <1>8, <2>1, <2>2 DEF Descended
<1>9. CASE FollowLink
  <2>1. CASE \E start \in {parent, ROOTINO} : read_inode(start)
    BY <1>0, <1>9, <2>1, Volume, ReadInodeTypes DEF FollowLink, Types, SearchTypes
  <2>2. CASE UNCHANGED << ic, f_buf, f_blk, f_blkno >>
    BY <1>1, <1>9, <2>2 DEF FollowLink
  <2> QED BY <1>9, <2>1, <2>2 DEF FollowLink
<1>10. CASE UNCHANGED vars
  BY <1>1, <1>10 DEF vars
<1>11. CASE Component \/ StartRun \/ ExtendRun \/ RunEnds \/ BreadDone \/ SearchBlock \/ BlockIn
            \/ search_dir \/ Link \/ ufs_bread \/ BreadFaults \/ ufs_close
  BY <1>1, <1>11 DEF Component, StartRun, ExtendRun, RunEnds, BreadDone, SearchBlock, BlockIn,
       search_dir, Link, ufs_bread, BreadFaults, ufs_close
<1> QED BY <1>2, <1>3, <1>4, <1>5, <1>6, <1>7, <1>8, <1>9, <1>10, <1>11 DEF Next, Step

LEMMA NextSearchTypes == Types /\ [Next]_vars => SearchTypes'
<1> SUFFICES ASSUME Types, [Next]_vars PROVE SearchTypes'
  OBVIOUS
<1> USE DEF file, search, counts
<1>0. SearchTypes /\ vol \in Vols
  BY DEF Types, FileTypes
<1>1. ASSUME UNCHANGED << vol, search, ret >>, pc' \in {"run", "map", "mapped", "transfer", "fault"}
      PROVE  SearchTypes'
  BY <1>0, <1>1 DEF SearchTypes, Pcs, Looking
<1>2. CASE ufs_mount
  <2>1. ret'.val \in Int
    BY <1>2 DEF ufs_mount, Return
  <2> QED BY <1>0, <1>2, <2>1 DEF ufs_mount, SearchTypes, Pcs, Looking, Return
<1>3. CASE ufs_open
  <2>1. PICK p \in vol.want : path' = p /\ ret' = [call |-> "open", val |-> -2, path |-> p]
    BY <1>3 DEF ufs_open
  <2>2. path' \in Seq(STRING \ {Junk.name}) /\ ret'.val \in Int /\ ROOTINO \in DOMAIN vol.inode
    BY <1>0, <2>1, Volume
  <2>3. inumber' = ROOTINO /\ nlinks' = 0 /\ pc' = "root" /\ UNCHANGED << vol, parent, offset, blockoffset >>
    BY <1>3, Zenon DEF ufs_open
  <2> QED BY <1>0, <2>2, <2>3, Sizes DEF SearchTypes, Pcs, Looking
<1>4. CASE ReadRoot
  BY <1>0, <1>4 DEF ReadRoot, SearchTypes, Pcs, Looking
<1>5. CASE Component
  <2>1. pc' \in Pcs /\ (ret' = ret \/ ret'.val = -1) /\ path' = path /\ path # << >> /\ nlinks' = nlinks
        /\ nlinks <= MAXSYMLINKS
    BY <1>0, <1>5 DEF Component, SearchTypes, Return, Pcs, Looking
  <2>2. ret'.val \in Int
    BY <1>0, <2>1 DEF SearchTypes
  <2> QED BY <1>0, <1>5, <2>1, <2>2 DEF Component, SearchTypes, Looking
<1>6. CASE OpenDone
  BY <1>0, <1>6 DEF OpenDone, SearchTypes, Pcs, Looking, Return
<1>7. CASE block_map
  <2>1. pc' \in {"map", "mapped"} /\ UNCHANGED << vol, search, ret >>
    BY <1>0, <1>7 DEF block_map, Descend, SearchTypes
  <2> QED BY <1>1, <2>1
<1>8. CASE StartRun \/ ExtendRun
  <2>1. pc' \in {"map", "mapped", "transfer"}
    BY <1>8 DEF StartRun, ExtendRun, MapStart
  <2>2. UNCHANGED << vol, search, ret >>
    BY <1>0, <1>8 DEF StartRun, ExtendRun, SearchTypes
  <2> QED BY <1>1, <2>1, <2>2
<1>9. CASE RunEnds
  BY <1>0, <1>1, <1>9 DEF RunEnds, SearchTypes
<1>10. CASE Transfer
  <2>1. UNCHANGED << vol, search >>
    BY <1>0, <1>10 DEF Transfer, SearchTypes
  <2>2. CASE pc' = "run" /\ UNCHANGED ret
    BY <1>1, <2>1, <2>2
  <2>3. CASE pc' = "idle" /\ ret'.val = -1
    BY <1>0, <2>1, <2>3 DEF SearchTypes, Pcs, Looking
  <2> QED BY <1>10, <2>2, <2>3 DEF Transfer, Arrives, BreadFails, Return
<1>11. CASE BreadDone
  <2>1. ret'.val \in Int
    <3>1. Len(g.data) \in Nat
      BY DEF Types, RunTypes, Runs
    <3> QED BY <1>11, <3>1 DEF BreadDone, Return
  <2> QED BY <1>0, <1>11, <2>1 DEF BreadDone, SearchTypes, Pcs, Looking, Return
<1>12. CASE ufs_bread
  <2>1. pc' = "run" /\ UNCHANGED << vol, search, ret >>
    BY <1>12 DEF ufs_bread, breadi
  <2> QED BY <1>1, <2>1
<1>13. CASE SearchBlock
  <2>1. UNCHANGED << vol, path, inumber, parent, nlinks, offset >> /\ blockoffset' = 0
    BY <1>13 DEF SearchBlock
  <2>2. (pc' = "run" /\ ret' = ret) \/ (pc' = "idle" /\ ret'.val = -1)
    BY <1>13 DEF SearchBlock, Return, breadi
  <2> QED BY <1>0, <2>1, <2>2 DEF SearchTypes, Pcs, Looking
<1>14. CASE BlockIn
  <2>1. path # << >> /\ nlinks <= MAXSYMLINKS
    BY <1>14 DEF BlockIn, Types, RunTypes
  <2> QED BY <1>0, <1>14, <2>1 DEF BlockIn, SearchTypes, Pcs, Looking
<1>15. CASE search_dir
  <2>1. f_buf \in [0 .. BlockUnits - 1 -> Entries(vol)]
    BY DEF Types, FileTypes
  <2>2. CASE blockoffset < BlockUnits /\ Found /\ inumber' = f_buf[blockoffset].ino /\ pc' = "next"
             /\ UNCHANGED << offset, blockoffset >>
    <3>1. blockoffset \in 0 .. BlockUnits - 1
      BY <1>0, <2>2, Sizes DEF SearchTypes
    <3>2. Head(path) \in STRING \ {Junk.name}
      BY <1>0, <1>15 DEF SearchTypes, search_dir
    <3>3. f_buf[blockoffset] # Junk
      BY <2>2, <3>2 DEF Found
    <3>4. inumber' \in DOMAIN vol.inode
      BY <2>1, <2>2, <3>1, <3>3 DEF Entries
    <3> QED BY <1>0, <1>15, <2>2, <3>4 DEF search_dir, SearchTypes, Pcs, Looking
  <2>3. CASE blockoffset < BlockUnits /\ ~Found /\ blockoffset' \in NextEntry
             /\ UNCHANGED << inumber, offset, pc >>
    <3>1. blockoffset \in 0 .. BlockUnits - 1
      BY <1>0, <2>3, Sizes DEF SearchTypes
    <3>2. f_buf[blockoffset].reclen \in 1 .. BlockUnits \/ f_buf[blockoffset].reclen = -1
      BY <2>1, <3>1 DEF Entries, Junk
    <3>3. blockoffset' \in Nat
      BY <2>3, <3>1, <3>2, Sizes DEF NextEntry
    <3> QED BY <1>0, <1>15, <2>3, <3>3 DEF search_dir, SearchTypes, Pcs, Looking
  <2>4. CASE offset' = offset + BlockUnits /\ pc' = "search" /\ UNCHANGED << inumber, blockoffset >>
    <3>1. offset' \in Nat
      BY <1>0, <2>4, Sizes DEF SearchTypes
    <3>2. pc = "scan" /\ UNCHANGED << vol, path, parent, nlinks, ret >>
      BY <1>15 DEF search_dir
    <3>3. path # << >> /\ nlinks <= MAXSYMLINKS
      BY <1>0, <3>2 DEF SearchTypes, Looking
    <3> QED BY <1>0, <2>4, <3>1, <3>2, <3>3 DEF SearchTypes, Pcs, Looking
  <2> QED BY <1>15, <2>2, <2>3, <2>4 DEF search_dir
<1>16. CASE Descended
  <2>1. path' \in Seq(STRING \ {Junk.name})
    BY <1>0, <1>16 DEF Descended, SearchTypes
  <2>2. (pc' \in {"link", "component"} /\ ret' = ret) \/ (pc' = "idle" /\ ret'.val = -1)
    BY <1>16 DEF Descended, Return
  <2> QED BY <1>0, <1>16, <2>1, <2>2 DEF Descended, SearchTypes, Pcs, Looking
<1>17. CASE Link
  <2>1. nlinks \in 0 .. MAXSYMLINKS
    BY <1>0, <1>17 DEF Link, SearchTypes, Looking
  <2>2. \/ pc' = "fault" /\ ret' = ret /\ nlinks' = nlinks
        \/ pc' = "idle" /\ ret'.val \in Int /\ nlinks' \in 0 .. MAXSYMLINKS + 1
        \/ pc' = "relink" /\ ret' = ret /\ nlinks' \in 0 .. MAXSYMLINKS
    BY <1>17, <2>1, Sizes DEF Link, Return, FS_SYMLINK_LOOP
  <2>3. UNCHANGED << vol, path, inumber, parent, offset, blockoffset >>
    BY <1>17 DEF Link
  <2> QED BY <1>0, <2>1, <2>2, <2>3, Sizes DEF SearchTypes, Pcs, Looking
<1>18. CASE FollowLink
  <2>1. path' \in Seq(STRING \ {Junk.name}) /\ inumber' \in DOMAIN vol.inode
    <3>1. CASE UNCHANGED << inumber, path >>
      BY <1>0, <3>1 DEF SearchTypes
    <3>2. CASE \E start \in {parent, ROOTINO}, rest \in {<< >>} \cup vol.want :
                 inumber' = start /\ path' = rest
      <4>1. << >> \in Seq(STRING \ {Junk.name})
        OBVIOUS
      <4> QED BY <1>0, <3>2, <4>1, Volume DEF SearchTypes
    <3> QED BY <1>18, <3>1, <3>2 DEF FollowLink
  <2>2. (pc' = "component" /\ ret' = ret) \/ (pc' = "idle" /\ ret'.val = -1)
    BY <1>18 DEF FollowLink, Return
  <2> QED BY <1>0, <1>18, <2>1, <2>2 DEF FollowLink, SearchTypes, Pcs, Looking
<1>19. CASE BreadFaults
  BY <1>1, <1>19 DEF BreadFaults
<1>20. CASE ufs_close
  BY <1>0, <1>20 DEF ufs_close, Return, SearchTypes, Pcs, Looking
<1>21. CASE UNCHANGED vars
  BY <1>0, <1>21 DEF vars, SearchTypes, Looking
<1> QED BY <1>2, <1>3, <1>4, <1>5, <1>6, <1>7, <1>8, <1>9, <1>10, <1>11, <1>12, <1>13, <1>14, <1>15,
  <1>16, <1>17, <1>18, <1>19, <1>20, <1>21 DEF Next, Step

LEMMA RunFields ==
  ASSUME NEW r \in Runs
  PROVE  /\ r.back \in {"bread", "scan"} /\ r.from \in Nat /\ r.count \in Nat /\ r.blkno \in Nat
         /\ r.nblks \in Nat /\ r.start \in Nat /\ r.first \in Int /\ r.frags \in Nat
         /\ r.data \in Seq(Int) /\ Len(r.data) \in Nat
BY DEF Runs

LEMMA NextRunTypes == Types /\ [Next]_vars => RunTypes'
<1> SUFFICES ASSUME Types, [Next]_vars PROVE RunTypes'
  OBVIOUS
<1> USE DEF file, search, counts
<1>0. RunTypes /\ vol \in Vols /\ InodeSound(vol, ic) /\ SearchTypes /\ FileTypes
  BY Volume DEF Types, FileTypes
<1>1. ASSUME UNCHANGED << m, g >>, pc' \notin {"run", "map", "mapped", "transfer"} PROVE RunTypes'
  BY <1>0, <1>1 DEF Runs, RunTypes, InRun
<1>2. CASE ufs_mount \/ ufs_open \/ ReadRoot \/ Component \/ OpenDone \/ BreadDone \/ BlockIn \/ search_dir
           \/ Descended \/ Link \/ FollowLink \/ BreadFaults \/ ufs_close
  <2>1. UNCHANGED << m, g >>
    BY <1>2, Zenon DEF ufs_mount, ufs_open, ReadRoot, Component, OpenDone, BreadDone, BlockIn, search_dir,
         Descended, Link, FollowLink, BreadFaults, ufs_close
  <2>2. pc' \notin {"run", "map", "mapped", "transfer"}
    BY <1>2 DEF ufs_mount, ufs_open, ReadRoot, Component, OpenDone, BreadDone, BlockIn, search_dir,
         Descended, Link, FollowLink, BreadFaults, ufs_close, Return
  <2> QED BY <1>1, <2>1, <2>2
<1>3. ic.db \in [1 .. NDADDR -> Nat] /\ ic.ib \in [1 .. 3 -> Nat] /\ ic.size \in Nat
  BY <1>0, Sizes DEF InodeSound
<1>4. ASSUME NEW b \in Nat, MapStart(b), UNCHANGED << vol, file, path, nlinks >>,
             g' \in Runs,
             g'.count <= MaxRun, g'.from <= g'.blkno, g'.blkno + g'.nblks = g'.from + g'.count,
             g'.nblks > 0, g'.from <= g'.start, g'.start <= g'.blkno, g'.back = g.back,
             Len(g'.data) + g'.frags <= Frags * (g'.blkno - g'.from), pc = "run" \/ InRun
      PROVE  RunTypes'
  <2>1. MapStarted(b)
    BY <1>0, <1>4, MapStarts
  <2> DEFINE MapTyped ==
        /\ m' \in [level : -1 .. 2, fb : Nat, num : Int]
        /\ pc' \in {"map", "mapped"}
        /\ pc' = "map" => m'.level >= 0 /\ f_nindir' = Reach /\ m'.fb < Reach[m'.level]
  <2>2. MapTyped
    <3>1. m \in [level : -1 .. 2, fb : Nat, num : Int]
      BY <1>0 DEF Runs, RunTypes
    <3>2. CASE b < NDADDR /\ pc' = "mapped" /\ m' = [m EXCEPT !.num = ic.db[b + 1]]
      <4>1. ic.db[b + 1] \in Int
        <5>1. b + 1 \in 1 .. NDADDR
          BY <3>2, Sizes
        <5>2. ic.db[b + 1] \in Nat
          BY <1>3, <5>1
        <5> QED BY <5>2
      <4> QED BY <3>1, <3>2, <4>1
    <3>3. CASE pc' = "mapped" /\ m' = [m EXCEPT !.num = -1]
      BY <3>1, <3>3
    <3>4. ASSUME NEW k \in Int, NEW i \in 0 .. 2, Started(b, k, i)
          PROVE  MapTyped
      <4>1. ic.ib[i + 1] \in Int /\ k \in Nat /\ k < Reach[i]
        <5>1. ic.ib[i + 1] \in Int
          BY <1>3
        <5>2. Reach[i] \in Nat
          BY Reaches, Sizes
        <5>3. k \in 0 .. Reach[i] - 1
          BY <3>4, Zenon DEF Started
        <5> QED BY <5>1, <5>2, <5>3
      <4> QED BY <1>4, <3>4, <4>1 DEF Started
    <3>5. b - NDADDR \in Int /\ b - NDADDR - NINDIR \in Int /\ b - NDADDR - NINDIR - Square \in Int
      BY Sizes
    <3> HIDE DEF MapTyped
    <3>6. 0 \in 0 .. 2 /\ 1 \in 0 .. 2 /\ 2 \in 0 .. 2
      OBVIOUS
    <3> QED BY <2>1, <3>2, <3>3, <3>4, <3>5, <3>6, Zenon DEF MapStarted
  <2>3. g.back = "scan" => path # << >> /\ nlinks <= MAXSYMLINKS
    BY <1>0, <1>4 DEF Runs, RunTypes
  <2>4. Len(g'.data) <= Frags * (g'.blkno - g'.from)
    <3>1. Len(g'.data) \in Nat /\ g'.frags \in Nat /\ Frags * (g'.blkno - g'.from) \in Int
      BY <1>4, RunFields, Sizes
    <3> QED BY <1>4, <3>1
  <2> QED BY <1>4, <2>2, <2>3, <2>4 DEF Runs, RunTypes, InRun
<1>5. CASE ufs_bread
  <2>1. PICK b \in 0 .. (ic.size \div BlockUnits) + 1, n \in 1 .. MaxRun : breadi("bread", b, n)
    BY <1>5 DEF ufs_bread
  <2>2. b \in Nat
    BY <1>3, <2>1, Sizes
  <2>3. pc' = "run" /\ UNCHANGED m
    BY <1>5, <2>1 DEF ufs_bread, breadi
  <2>4. g' = [back |-> "bread", from |-> b, count |-> n, blkno |-> b, nblks |-> n, start |-> 0,
              first |-> 0, frags |-> 0, data |-> << >>]
    BY <2>1 DEF breadi, NoRun
  <2>5. << >> \in Seq(Int) /\ Len(<< >>) = 0 /\ Frags * (b - b) = 0
    BY <2>2, Sizes
  <2> QED BY <1>0, <2>2, <2>3, <2>4, <2>5, Sizes DEF Runs, RunTypes, InRun
<1>6. CASE SearchBlock
  <2>1. CASE pc' = "idle" /\ UNCHANGED << m, g >>
    BY <1>1, <2>1
  <2>2. CASE breadi("scan", offset \div BlockUnits, 1)
    <3> DEFINE b == offset \div BlockUnits
    <3>1. b \in Nat
      BY <1>0, Sizes DEF SearchTypes
    <3>2. pc' = "run" /\ UNCHANGED << m, path, nlinks >> /\ path # << >> /\ nlinks <= MAXSYMLINKS
      BY <1>0, <1>6, <2>2 DEF SearchBlock, breadi, SearchTypes, Looking
    <3>3. g' = [back |-> "scan", from |-> b, count |-> 1, blkno |-> b, nblks |-> 1, start |-> 0,
                first |-> 0, frags |-> 0, data |-> << >>]
      BY <2>2 DEF breadi, NoRun
    <3> HIDE DEF b
    <3>4. << >> \in Seq(Int) /\ Len(<< >>) = 0 /\ Frags * (b - b) = 0
      BY <3>1, Sizes
    <3> QED BY <1>0, <3>1, <3>2, <3>3, <3>4, Sizes DEF Runs, RunTypes, InRun
  <2> QED BY <1>6, <2>1, <2>2 DEF SearchBlock, Return
<1>7. CASE block_map
  <2>0. m \in [level : -1 .. 2, fb : Nat, num : Int] /\ m.level \in 0 .. 2 /\ f_nindir = Reach
        /\ m.fb \in 0 .. Reach[m.level] - 1 /\ UNCHANGED << g, search, f_nindir >> /\ pc = "map"
    <3>1. pc = "map" /\ UNCHANGED << g, search, f_nindir >>
      BY <1>7, Zenon DEF block_map
    <3>2. m \in [level : -1 .. 2, fb : Nat, num : Int] /\ m.level >= 0 /\ f_nindir = Reach
          /\ m.fb < Reach[m.level]
      BY <1>0, <3>1 DEF Runs, RunTypes
    <3> QED BY <3>1, <3>2, Reaches, Sizes
  <2>1. ASSUME m' \in [level : -1 .. 2, fb : Nat, num : Int], pc' \in {"map", "mapped"},
               pc' = "map" => m'.level >= 0 /\ m'.fb < Reach[m'.level]
        PROVE  RunTypes'
    BY <1>0, <1>7, <2>0, <2>1 DEF block_map, Runs, RunTypes, InRun
  <2>2. CASE pc' = "mapped" /\ UNCHANGED m
    BY <2>0, <2>1, <2>2
  <2>3. CASE pc' = "mapped" /\ Mapped(-1)
    <3>1. m' \in [level : -1 .. 2, fb : Nat, num : Int]
      BY <2>0, <2>3 DEF Mapped
    <3> QED BY <2>1, <2>3, <3>1
  <2>4. ASSUME NEW buf \in {Empty} \cup [1 .. NINDIR -> Nat], Descend(buf) PROVE RunTypes'
    <3>1. PICK num \in Pointers(buf, Index) :
            /\ m' = [level |-> m.level - 1, fb |-> Rest, num |-> num]
            /\ pc' = IF m.level = 0 THEN "mapped" ELSE "map"
      BY <2>4 DEF Descend
    <3>2. CASE m.level = 0
      <4>1. Index \in 0 .. NINDIR - 1 /\ Rest = 0
        BY <2>0, <3>2, Reaches, Sizes DEF Index, Rest
      <4>2. num \in Int
        BY <4>1, Sizes DEF Pointers
      <4> QED BY <2>1, <3>1, <3>2, <4>1, <4>2
    <3>3. CASE m.level > 0
      <4>1. m.level - 1 \in 0 .. 1 /\ f_nindir[m.level - 1] \in Nat \ {0}
        BY <2>0, <3>3, Reaches, Sizes
      <4>2. Reach[m.level] = NINDIR * Reach[m.level - 1]
        BY <2>0, <3>3, Reaches, Sizes DEF Square, Cube
      <4>3. Rest \in 0 .. Reach[m.level - 1] - 1
        BY <2>0, <3>3, <4>1 DEF Rest
      <4>4. Index \in 0 .. NINDIR - 1
        <5>1. ASSUME NEW x \in Nat, NEW d \in Nat \ {0}, NEW n \in Nat, x < n * d PROVE x \div d \in 0 .. n - 1
          BY <5>1
        <5>2. m.fb \in Nat /\ m.fb < NINDIR * Reach[m.level - 1] /\ Reach[m.level - 1] \in Nat \ {0}
          <6>1. m.fb < Reach[m.level] /\ m.fb \in Nat
            BY <2>0, Reaches, Sizes
          <6> QED BY <2>0, <4>1, <4>2, <6>1
        <5>3. m.fb \div Reach[m.level - 1] \in 0 .. NINDIR - 1
          BY <5>1, <5>2, Sizes
        <5> QED BY <2>0, <3>3, <5>3 DEF Index
      <4>5. num \in Int
        BY <4>4, Sizes DEF Pointers
      <4> QED BY <2>0, <2>1, <3>1, <3>3, <4>1, <4>3, <4>5
    <3> QED BY <2>0, <3>2, <3>3
  <2>5. f_blk[m.level] \in {Empty} \cup [1 .. NINDIR -> Nat]
    BY <1>0, <2>0, Sizes DEF FileTypes
  <2>6. (IF m.num \in DOMAIN vol.ind THEN vol.ind[m.num] ELSE Empty) \in {Empty} \cup [1 .. NINDIR -> Nat]
    BY <1>0, Volume
  <2> QED BY <1>7, <2>2, <2>3, <2>4, <2>5, <2>6 DEF block_map
<1>8. CASE StartRun
  <2>1. g' = [g EXCEPT !.start = g.blkno, !.frags = 0] /\ MapStart(g.blkno) /\ pc = "run" /\ g.nblks > 0
        /\ UNCHANGED << vol, file, path, nlinks >>
    BY <1>8 DEF StartRun
  <2>2. g' \in Runs
    BY <1>0, <2>1 DEF Runs, RunTypes
  <2>3. /\ g'.count <= MaxRun /\ g'.from <= g'.blkno /\ g'.blkno + g'.nblks = g'.from + g'.count
        /\ g'.nblks > 0 /\ g'.from <= g'.start /\ g'.start <= g'.blkno /\ g'.back = g.back
        /\ Len(g'.data) + g'.frags <= Frags * (g'.blkno - g'.from) /\ g.blkno \in Nat
    <3>1. g.data \in Seq(Int) /\ Len(g.data) \in Nat
      BY <1>0 DEF Runs, RunTypes
    <3> QED BY <1>0, <2>1, <3>1 DEF Runs, RunTypes
  <2> QED BY <1>4, <2>1, <2>2, <2>3
<1>9. CASE ExtendRun
  <2>0. g' = Extended /\ pc = "mapped" /\ UNCHANGED << vol, file, path, nlinks >>
        /\ IF g.nblks = 1 THEN pc' = "transfer" /\ UNCHANGED m ELSE MapStart(g.blkno + 1)
    BY <1>9 DEF ExtendRun
  <2>1. FragsOf(ic, g.blkno) \in 0 .. Frags /\ g.blkno \in Nat
    BY <1>0, <1>3, FragsOfBlock DEF Runs, RunTypes
  <2>2. g.nblks > 0 /\ InRun /\ g \in Runs /\ m.num \in Int
        /\ g.count <= MaxRun /\ g.from <= g.blkno /\ g.blkno + g.nblks = g.from + g.count
        /\ g.from <= g.start /\ g.start <= g.blkno /\ Len(g.data) + g.frags <= Frags * (g.blkno - g.from)
        /\ Len(g.data) \in Nat
    BY <1>0, <2>0 DEF Runs, RunTypes, InRun
  <2>f. /\ g.from \in Nat /\ g.count \in Nat /\ g.blkno \in Nat
        /\ g.nblks \in Nat /\ g.start \in Nat /\ g.first \in Int /\ g.frags \in Nat
    BY <2>2, RunFields, Zenon
  <2>l. /\ g.nblks > 0 /\ g.count <= MaxRun /\ g.from <= g.blkno /\ g.blkno + g.nblks = g.from + g.count
        /\ g.from <= g.start /\ g.start <= g.blkno
    BY <2>2
  <2>3. /\ g' \in Runs
        /\ g'.data = g.data /\ g'.frags = g.frags + FragsOf(ic, g.blkno) /\ g'.blkno = g.blkno + 1
        /\ g'.nblks = g.nblks - 1 /\ g'.from = g.from /\ g'.count = g.count /\ g'.start = g.start
        /\ g'.back = g.back
    <3> DEFINE k == FragsOf(ic, g.blkno)
               f == IF Fresh THEN m.num ELSE g.first
    <3>1. f \in Int /\ k \in Nat
      BY <2>1, <2>2, RunFields, Sizes
    <3>2. g' = [g EXCEPT !.first = f, !.frags = @ + k, !.blkno = @ + 1, !.nblks = @ - 1]
      BY <2>0 DEF Extended
    <3> HIDE DEF f, k
    <3>3. /\ g'.data = g.data /\ g'.frags = g.frags + k /\ g'.blkno = g.blkno + 1
          /\ g'.nblks = g.nblks - 1 /\ g'.from = g.from /\ g'.count = g.count /\ g'.start = g.start
          /\ g'.back = g.back
      BY <2>2, <3>2 DEF Runs
    <3>4. g' \in Runs
      <4>1. g.nblks - 1 \in Nat /\ g.blkno + 1 \in Nat /\ g.frags + k \in Nat
        BY <2>l, <3>1, <2>f
      <4>2. g' = [back |-> g.back, from |-> g.from, count |-> g.count, blkno |-> g.blkno + 1,
                  nblks |-> g.nblks - 1, start |-> g.start, first |-> f, frags |-> g.frags + k,
                  data |-> g.data]
        BY <2>2, <3>2 DEF Runs
      <4> QED BY <2>2, <3>1, <4>1, <4>2 DEF Runs
    <3> QED BY <3>3, <3>4 DEF k
  <2>4. Len(g'.data) + g'.frags <= Frags * (g'.blkno - g'.from)
    <3>1. Frags * ((g.blkno + 1) - g.from) = Frags * (g.blkno - g.from) + Frags
      <4>1. ASSUME NEW a \in Int PROVE Frags * (a + 1) = Frags * a + Frags
        BY Sizes
      <4>2. g.blkno - g.from \in Int /\ (g.blkno + 1) - g.from = (g.blkno - g.from) + 1
        BY <2>f
      <4>3. Frags * ((g.blkno - g.from) + 1) = Frags * (g.blkno - g.from) + Frags
        BY <4>1, <4>2, Zenon
      <4> QED BY <4>2, <4>3, Zenon
    <3>2. Frags * (g.blkno - g.from) \in Int /\ FragsOf(ic, g.blkno) <= Frags /\ FragsOf(ic, g.blkno) \in Nat
      BY <2>1, <2>2, Sizes DEF Runs
    <3>3. Len(g'.data) = Len(g.data) /\ g'.blkno - g'.from = (g.blkno + 1) - g.from /\ g.frags \in Nat
      BY <2>l, <2>3, <2>f, Sizes
    <3> QED BY <2>2, <2>3, <3>1, <3>2, <3>3, Sizes
  <2>5. CASE g.nblks = 1
    <3>1. pc' = "transfer" /\ m' = m
      BY <2>0, <2>5
    <3>2. Len(g'.data) <= Frags * (g'.blkno - g'.from)
      <4>1. Len(g'.data) \in Nat /\ g'.frags \in Nat /\ Frags * (g'.blkno - g'.from) \in Int
        BY <2>3, RunFields, Sizes
      <4> QED BY <2>4, <4>1
    <3>3. g'.back = "scan" => path' # << >> /\ nlinks' <= MAXSYMLINKS
      BY <1>0, <2>0, <2>2, <2>3 DEF Runs, RunTypes
    <3>4. m' \in [level : -1 .. 2, fb : Nat, num : Int]
      BY <1>0, <3>1 DEF RunTypes
    <3>5. g'.from <= g'.blkno /\ g'.blkno + g'.nblks = g'.from + g'.count /\ g'.count <= MaxRun
          /\ g'.from <= g'.start /\ g'.start <= g'.blkno
      BY <2>l, <2>3, <2>f, Sizes
    <3> QED BY <2>3, <2>4, <3>1, <3>2, <3>3, <3>4, <3>5 DEF RunTypes, InRun
  <2>6. CASE g.nblks # 1
    <3>1. MapStart(g.blkno + 1) /\ g.blkno + 1 \in Nat /\ g'.nblks > 0
      <4>1. g.nblks - 1 > 0 /\ g.blkno + 1 \in Nat
        BY <2>6, <2>f, <2>l
      <4>2. g'.nblks = g.nblks - 1
        BY <2>3
      <4> QED BY <2>0, <2>6, <4>1, <4>2
    <3>2. g'.from <= g'.blkno /\ g'.blkno + g'.nblks = g'.from + g'.count /\ g'.count <= MaxRun
          /\ g'.from <= g'.start /\ g'.start <= g'.blkno
      BY <2>l, <2>3, <2>f, Sizes
    <3> QED BY <1>4, <2>0, <2>2, <2>3, <2>4, <3>1, <3>2
  <2> QED BY <2>5, <2>6
<1>10. CASE RunEnds
  BY <1>0, <1>10 DEF RunEnds, Runs, RunTypes, InRun
<1>11. CASE Transfer
  <2>0. pc = "transfer" /\ UNCHANGED << search, m, f_nindir >>
    BY <1>11, Zenon DEF Transfer
  <2>1. CASE pc' = "idle" /\ UNCHANGED g
    BY <1>1, <2>0, <2>1
  <2>2. ASSUME NEW data \in Seq(Int), Len(data) = g.frags, Arrives(data) PROVE RunTypes'
    <3>1. g' = [g EXCEPT !.data = @ \o data] /\ pc' = "run"
      BY <2>2 DEF Arrives
    <3>2. g.data \in Seq(Int) /\ Len(g.data) \in Nat
      BY <1>0 DEF Runs, RunTypes
    <3>3. g.data \o data \in Seq(Int) /\ Len(g.data \o data) = Len(g.data) + g.frags
      <4>1. Len(g.data \o data) = Len(g.data) + Len(data)
        BY <3>2, ConcatProperties, Zenon
      <4>2. g.data \o data \in Seq(Int)
        BY <3>2, ConcatProperties, Zenon
      <4> QED BY <2>2, <4>1, <4>2, Zenon
    <3> QED BY <1>0, <2>0, <3>1, <3>3 DEF Runs, RunTypes, InRun
  <2>3. g.frags \in Nat /\ g.first \in Int
    BY <1>0 DEF Runs, RunTypes
  <2>4. Hole \in Seq(Int) /\ Len(Hole) = g.frags
    BY <2>3 DEF Hole
  <2>5. FromDisk \in Seq(Int) /\ Len(FromDisk) = g.frags
    BY <2>3 DEF FromDisk
  <2> QED BY <1>11, <2>1, <2>2, <2>4, <2>5 DEF Transfer, BreadFails, Return
<1>12. CASE UNCHANGED vars
  BY <1>0, <1>12 DEF vars, RunTypes, InRun
<1> QED BY <1>2, <1>5, <1>6, <1>7, <1>8, <1>9, <1>10, <1>11, <1>12 DEF Next, Step

LEMMA NextTypes == Types /\ [Next]_vars => Types'
<1> SUFFICES ASSUME Types, [Next]_vars PROVE Types'
  OBVIOUS
<1> USE DEF file, search, counts
<1>1. failures' \in 0 .. MaxFailures
  <2>1. failures \in 0 .. MaxFailures
    BY DEF Types
  <2>2. failures' = failures \/ (failures < MaxFailures /\ failures' = failures + 1)
    BY DEF Next, Step, ufs_mount, ufs_open, ReadRoot, Component, OpenDone, block_map, StartRun, ExtendRun,
      RunEnds, Transfer, BreadDone, SearchBlock, BlockIn, search_dir, Descended, Link, FollowLink,
      ufs_bread, BreadFaults, ufs_close, ReadOk, ReadFails, vars
  <2> QED BY <2>1, <2>2, Sizes
<1>2. mounted' \in BOOLEAN
  <2>1. mounted \in BOOLEAN /\ vol.magic \in BOOLEAN
    BY Volume, Zenon DEF Types, FileTypes
  <2>2. mounted' = mounted \/ mounted' = vol.magic \/ mounted' = FALSE
    BY Zenon DEF Next, Step, ufs_mount, ufs_open, ReadRoot, Component, OpenDone, block_map, StartRun, ExtendRun,
      RunEnds, Transfer, BreadDone, SearchBlock, BlockIn, search_dir, Descended, Link, FollowLink,
      ufs_bread, BreadFaults, ufs_close, vars
  <2> QED BY <2>1, <2>2, Zenon
<1> QED BY <1>1, <1>2, NextFileTypes, NextSearchTypes, NextRunTypes, Zenon DEF Types
-----------------------------------------------------------------------------
(* The buffers of the indirect levels *)

(* A level's buffer holds the block whose number it keeps, or nothing that  *)
(* was read; nothing only after a read has failed.                          *)
Holds(l) == f_blk[l] = Empty \/ (f_blkno[l] \in DOMAIN vol.ind /\ f_blk[l] = vol.ind[f_blkno[l]])

CacheInv ==
  /\ \A l \in Levels : Holds(l)
  /\ ~bad /\ pc # "root" => \A l \in Levels : f_blkno[l] \in DOMAIN vol.ind => f_blk[l] # Empty

(* No action but ufs_open forgets that a read failed. *)
LEMMA BadStays ==
  ASSUME [Next]_vars
  PROVE  /\ bad' = bad \/ bad' = TRUE \/ ufs_open
         /\ pc = "root" => ReadRoot \/ UNCHANGED vars
BY Zenon DEF Next, Step, ufs_mount, ReadRoot, Component, OpenDone, block_map, StartRun, ExtendRun,
      RunEnds, Transfer, BreadDone, SearchBlock, BlockIn, search_dir, Descended, Link, FollowLink,
      ufs_bread, ufs_open, BreadFaults, ufs_close, ReadOk, ReadFails, vars, search, counts, file

LEMMA NextCache == Types /\ CacheInv /\ [Next]_vars => CacheInv'
<1> SUFFICES ASSUME Types, CacheInv, [Next]_vars PROVE CacheInv'
  OBVIOUS
<1> USE DEF file, search, counts
<1>0. vol \in Vols /\ vol' = vol
  BY Zenon DEF Types, FileTypes, Next, Step, ufs_mount, ufs_open, ReadRoot, Component, OpenDone, block_map, StartRun, ExtendRun,
      RunEnds, Transfer, BreadDone, SearchBlock, BlockIn, search_dir, Descended, Link, FollowLink,
      ufs_bread, BreadFaults, ufs_close, vars
<1>1. 0 \notin DOMAIN vol.ind /\ -1 \notin DOMAIN vol.ind
  BY <1>0, Volume
<1>2. ASSUME \A l \in Levels : f_blk'[l] = Empty /\ f_blkno'[l] \in {0, -1} PROVE CacheInv'
  BY <1>0, <1>1, <1>2 DEF CacheInv, Holds
<1>3. ASSUME UNCHANGED << f_blk, f_blkno >> PROVE CacheInv'
  <2>1. \A l \in Levels : Holds(l)'
    BY <1>0, <1>3 DEF CacheInv, Holds
  <2>2. CASE ufs_open
    BY <2>1, <2>2 DEF CacheInv, ufs_open
  <2>3. CASE UNCHANGED vars
    BY <1>3, <2>1, <2>3 DEF CacheInv, vars
  <2>4. CASE ~ufs_open /\ ReadRoot
    <3>1. bad' = TRUE \/ \A l \in Levels : f_blk'[l] = Empty /\ f_blkno'[l] \in {0, -1}
      BY <2>4 DEF ReadRoot, ReadFails, read_inode
    <3> QED BY <1>2, <2>1, <3>1, Zenon DEF CacheInv
  <2>5. CASE ~ufs_open /\ ~ReadRoot /\ ~UNCHANGED vars
    <3>1. pc # "root" /\ (bad' = bad \/ bad' = TRUE)
      BY <2>5, BadStays, Zenon
    <3> QED BY <1>0, <1>3, <2>1, <3>1 DEF CacheInv
  <2> QED BY <2>2, <2>3, <2>4, <2>5
<1>4. CASE ufs_mount
  BY <1>2, <1>4 DEF ufs_mount
<1>5. ASSUME NEW n, read_inode(n) PROVE CacheInv'
  BY <1>2, <1>5 DEF read_inode
<1>6. CASE ReadRoot \/ Descended \/ FollowLink
  BY <1>3, <1>5, <1>6 DEF ReadRoot, Descended, FollowLink
<1>7. CASE block_map
  <2>0. m.level \in Levels /\ f_blk \in [Levels -> {Empty} \cup [1 .. NINDIR -> Nat]] /\ f_blkno \in [Levels -> Int]
        /\ pc = "map"
    BY <1>7, Sizes DEF block_map, Types, RunTypes, FileTypes
  <2>1. CASE UNCHANGED << f_blk, f_blkno >>
    BY <1>3, <2>1
  <2>2. CASE /\ f_blk' = [f_blk EXCEPT ![m.level] = IF m.num \in DOMAIN vol.ind THEN vol.ind[m.num] ELSE Empty]
             /\ f_blkno' = [f_blkno EXCEPT ![m.level] = m.num]
             /\ ReadOk
    <3>1. m.num \in DOMAIN vol.ind => vol.ind[m.num] # Empty
      <4>1. m.num \in DOMAIN vol.ind => vol.ind[m.num] \in [1 .. NINDIR -> Nat]
        BY <1>0, Volume
      <4>2. 1 \in 1 .. NINDIR /\ 1 \notin DOMAIN Empty
        BY Sizes DEF Empty
      <4> QED BY <4>1, <4>2
    <3>2. \A l \in Levels : Holds(l)'
      BY <1>0, <2>0, <2>2 DEF CacheInv, Holds
    <3>3. bad' = bad
      BY <2>2 DEF ReadOk
    <3>4. ASSUME ~bad, NEW l \in Levels, f_blkno'[l] \in DOMAIN vol.ind PROVE f_blk'[l] # Empty
      <4>1. CASE l = m.level
        BY <2>0, <2>2, <3>1, <3>4, <4>1
      <4>2. CASE l # m.level
        BY <2>0, <2>2, <3>4, <4>2 DEF CacheInv
      <4> QED BY <4>1, <4>2
    <3> QED BY <1>0, <3>2, <3>3, <3>4, Zenon DEF CacheInv
  <2>3. CASE f_blk' = [f_blk EXCEPT ![m.level] = Empty] /\ ReadFails /\ UNCHANGED f_blkno
    <3>1. \A l \in Levels : Holds(l)'
      BY <1>0, <2>0, <2>3 DEF CacheInv, Holds
    <3>2. bad' = TRUE
      BY <2>3 DEF ReadFails
    <3> QED BY <3>1, <3>2, Zenon DEF CacheInv
  <2> QED BY <1>7, <2>1, <2>2, <2>3 DEF block_map
<1>8. CASE UNCHANGED << f_blk, f_blkno >>
  BY <1>3, <1>8
<1> QED BY <1>4, <1>6, <1>7, <1>8, Zenon DEF Next, Step, ufs_open, Component, OpenDone, StartRun, ExtendRun,
      RunEnds, Transfer, BreadDone, SearchBlock, BlockIn, search_dir, Link,
      ufs_bread, BreadFaults, ufs_close, vars
-----------------------------------------------------------------------------
(* block_map *)

Trees(l) ==
  IF l = 0 THEN Over(vol, Data)
  ELSE IF l = 1 THEN Over(vol, Over(vol, Data)) ELSE Over(vol, Over(vol, Over(vol, Data)))
Tree(l, a, k) == IF l = 0 THEN Pointer(vol, a, k) ELSE IF l = 1 THEN Two(vol, a, k) ELSE Three(vol, a, k)

(* On its way down block_map is at the block above the one looked for; it   *)
(* ends up elsewhere only after a failed read, or beyond what it can reach. *)
MapInv ==
  /\ pc = "map" =>
       \/ m.num \in Trees(m.level) /\ Tree(m.level, m.num, m.fb) = AddressOf(vol, ic, g.blkno)
       \/ bad /\ m.num \in {0, -1}
  /\ pc = "mapped" =>
       \/ m.num = AddressOf(vol, ic, g.blkno) /\ m.num \in Data
       \/ m.num \in {0, -1} /\ (bad \/ ~Covered(g.blkno))

(* What is in an indirect block leads one level down. *)
LEMMA TreeDown ==
  ASSUME Types, NEW l \in 0 .. 2, NEW a \in Trees(l), a # 0, NEW k \in 0 .. Reach[l] - 1
  PROVE  /\ a \in DOMAIN vol.ind
         /\ l = 0 => vol.ind[a][k + 1] \in Data /\ Tree(l, a, k) = vol.ind[a][k + 1]
         /\ l > 0 => /\ vol.ind[a][(k \div Reach[l - 1]) + 1] \in Trees(l - 1)
                     /\ Tree(l, a, k) = Tree(l - 1, vol.ind[a][(k \div Reach[l - 1]) + 1], k % Reach[l - 1])
<1>1. CASE l = 0
  <2>1. a \in Over(vol, Data) /\ k + 1 \in 1 .. NINDIR
    BY <1>1, Reaches, Sizes DEF Trees
  <2>2. a \in DOMAIN vol.ind /\ vol.ind[a][k + 1] \in Data
    BY <2>1 DEF Over
  <2> QED BY <1>1, <2>2 DEF Tree, Pointer
<1>0. ASSUME NEW x \in Nat, NEW d \in Nat \ {0}, NEW n \in Nat, x < n * d PROVE x \div d \in 0 .. n - 1
  BY <1>0
<1>2. CASE l = 1
  <2>0. Reach[l - 1] = NINDIR /\ k \in Nat /\ k < NINDIR * NINDIR
    BY <1>2, Reaches, Sizes DEF Square
  <2> DEFINE j == k \div NINDIR
  <2>1. j \in 0 .. NINDIR - 1
    BY <1>0, <2>0, Sizes
  <2> HIDE DEF j
  <2>2. a \in Over(vol, Over(vol, Data)) /\ j + 1 \in 1 .. NINDIR
    BY <1>2, <2>1, Sizes DEF Trees
  <2>3. a \in DOMAIN vol.ind /\ vol.ind[a][j + 1] \in Over(vol, Data)
    BY <2>2 DEF Over
  <2>4. Tree(l, a, k) = Pointer(vol, vol.ind[a][j + 1], k % NINDIR)
    BY <1>2 DEF Tree, Two, Pointer, j
  <2> QED BY <1>2, <2>0, <2>3, <2>4 DEF Tree, Trees, j
<1>3. CASE l = 2
  <2>0. Reach[l - 1] = Square /\ k \in Nat /\ k < NINDIR * Square
    BY <1>3, Reaches, Sizes DEF Cube
  <2> DEFINE j == k \div Square
  <2>1. j \in 0 .. NINDIR - 1
    BY <1>0, <2>0, Sizes
  <2> HIDE DEF j
  <2>2. a \in Over(vol, Over(vol, Over(vol, Data))) /\ j + 1 \in 1 .. NINDIR
    BY <1>3, <2>1, Sizes DEF Trees
  <2>3. a \in DOMAIN vol.ind /\ vol.ind[a][j + 1] \in Over(vol, Over(vol, Data))
    BY <2>2 DEF Over
  <2>4. Tree(l, a, k) = Two(vol, vol.ind[a][j + 1], k % Square)
    BY <1>3 DEF Tree, Three, Pointer, j
  <2> QED BY <1>3, <2>0, <2>3, <2>4 DEF Tree, Trees, j
<1> QED BY <1>1, <1>2, <1>3

LEMMA HoleData == 0 \in Data /\ -1 \notin Data /\ Data \subseteq Nat
BY Sizes DEF Data

LEMMA StartMap ==
  ASSUME Types, MapStart(g.blkno'), g.blkno' \in Nat, UNCHANGED << vol, ic, f_nindir, bad >>
  PROVE  MapInv'
<1> DEFINE b == g.blkno'
           k == b - NDADDR
<1>0. vol \in Vols /\ ic \in Inodes /\ InodeSound(vol, ic) /\ m \in [level : -1 .. 2, fb : Nat, num : Int]
  BY Volume DEF Types, FileTypes, RunTypes
<1>1. MapStarted(b)
  BY MapStarts DEF Types
<1>2. k \in Int /\ b \in Nat
  BY Sizes
<1> HIDE DEF b
<1>3. CASE b < NDADDR /\ pc' = "mapped" /\ m' = [m EXCEPT !.num = ic.db[b + 1]]
  <2>1. b + 1 \in 1 .. NDADDR
    BY <1>2, <1>3, Sizes
  <2>2. ic.db[b + 1] \in Data
    BY <1>0, <2>1 DEF InodeSound
  <2>3. m'.num = ic.db[b + 1]
    BY <1>0, <1>3
  <2>4. AddressOf(vol, ic, g.blkno)' = ic.db[b + 1]
    BY <1>2, <1>3, Sizes DEF AddressOf, b
  <2> QED BY <1>3, <2>2, <2>3, <2>4 DEF MapInv
<1>4. CASE ~Covered(b) /\ pc' = "mapped" /\ m' = [m EXCEPT !.num = -1]
  <2>1. m'.num = -1 /\ ~Covered(g.blkno)'
    BY <1>0, <1>4 DEF Covered, b
  <2> QED BY <1>4, <2>1 DEF MapInv
<1>5. ASSUME NEW i \in 0 .. 2, NEW j \in Int, Started(b, j, i), Tree(i, ic.ib[i + 1], j) = AddressOf(vol, ic, b)
      PROVE  MapInv'
  <2>1. pc' = "map" /\ m'.level = i /\ m'.fb = j /\ m'.num = ic.ib[i + 1]
    BY <1>5 DEF Started
  <2>2. ic.ib[i + 1] \in Trees(i)
    BY <1>0 DEF Trees, InodeSound
  <2>3. (m.num \in Trees(m.level))'
    BY <2>1, <2>2 DEF Trees
  <2>4. Tree(m.level, m.num, m.fb)' = Tree(i, ic.ib[i + 1], j)
    BY <2>1 DEF Tree, Pointer, Two, Three
  <2>5. AddressOf(vol, ic, g.blkno)' = AddressOf(vol, ic, b)
    BY DEF AddressOf, Pointer, Two, Three, b
  <2> QED BY <1>5, <2>1, <2>3, <2>4, <2>5 DEF MapInv
<1>6. CASE b >= NDADDR /\ Started(b, k, 0)
  <2>1. k \in 0 .. NINDIR - 1
    BY <1>6, Reaches DEF Started
  <2>2. Tree(0, ic.ib[1], k) = AddressOf(vol, ic, b)
    BY <1>2, <2>1, Sizes DEF Tree, AddressOf
  <2> QED BY <1>2, <1>5, <1>6, <2>2
<1>7. CASE b >= NDADDR /\ Started(b, k - NINDIR, 1)
  <2>1. k - NINDIR \in 0 .. Square - 1
    BY <1>7, Reaches DEF Started
  <2>2. Tree(1, ic.ib[2], k - NINDIR) = AddressOf(vol, ic, b)
    BY <1>2, <2>1, Sizes DEF Tree, AddressOf
  <2>3. k - NINDIR \in Int
    BY <1>2, Sizes
  <2> QED BY <1>5, <1>7, <2>2, <2>3
<1>8. CASE b >= NDADDR /\ Started(b, k - NINDIR - Square, 2)
  <2>1. k - NINDIR - Square \in 0 .. Cube - 1
    BY <1>8, Reaches DEF Started
  <2>2. Tree(2, ic.ib[3], k - NINDIR - Square) = AddressOf(vol, ic, b)
    BY <1>2, <2>1, Sizes DEF Tree, AddressOf
  <2>3. k - NINDIR - Square \in Int
    BY <1>2, Sizes
  <2> QED BY <1>5, <1>8, <2>2, <2>3
<1> QED BY <1>1, <1>3, <1>4, <1>6, <1>7, <1>8 DEF MapStarted

LEMMA NextMap == Types /\ CacheInv /\ MapInv /\ [Next]_vars => MapInv'
<1> SUFFICES ASSUME Types, CacheInv, MapInv, [Next]_vars PROVE MapInv'
  OBVIOUS
<1> USE DEF file, search, counts
<1>0. vol \in Vols /\ RunTypes
  BY DEF Types, FileTypes
<1>1. ASSUME pc' \notin {"map", "mapped"} PROVE MapInv'
  BY <1>1 DEF MapInv
<1>2. CASE ufs_mount \/ ufs_open \/ ReadRoot \/ Component \/ OpenDone \/ BreadDone \/ BlockIn \/ search_dir
           \/ Descended \/ Link \/ FollowLink \/ BreadFaults \/ ufs_close \/ RunEnds \/ Transfer
           \/ ufs_bread \/ SearchBlock
  <2>1. pc' \notin {"map", "mapped"}
    BY <1>2 DEF ufs_mount, ufs_open, ReadRoot, Component, OpenDone, BreadDone, BlockIn, search_dir,
         Descended, Link, FollowLink, BreadFaults, ufs_close, Return, RunEnds, Transfer, Arrives, BreadFails,
         ufs_bread, SearchBlock, breadi
  <2> QED BY <1>1, <2>1
<1>3. CASE StartRun
  <2>1. g.blkno' = g.blkno /\ g.blkno \in Nat
    BY <1>0, <1>3 DEF StartRun, RunTypes, Runs
  <2> QED BY <1>3, <2>1, StartMap DEF StartRun
<1>4. CASE ExtendRun
  <2>1. g.blkno' = g.blkno + 1 /\ g.blkno \in Nat
    BY <1>0, <1>4 DEF ExtendRun, Extended, RunTypes, Runs
  <2>2. CASE pc' = "transfer"
    BY <1>1, <2>2
  <2>3. CASE MapStart(g.blkno + 1)
    BY <1>4, <2>1, <2>3, StartMap DEF ExtendRun
  <2> QED BY <1>4, <2>2, <2>3 DEF ExtendRun
<1>5. CASE block_map
  <2>0. /\ pc = "map" /\ m.level \in 0 .. 2 /\ f_nindir = Reach /\ m.fb \in 0 .. Reach[m.level] - 1
        /\ UNCHANGED << vol, g, ic, f_nindir >> /\ m \in [level : -1 .. 2, fb : Nat, num : Int]
    <3>1. pc = "map" /\ UNCHANGED << vol, g, ic, f_nindir >>
      BY <1>5, Zenon DEF block_map
    <3>2. m \in [level : -1 .. 2, fb : Nat, num : Int] /\ m.level >= 0 /\ f_nindir = Reach
          /\ m.fb < Reach[m.level]
      BY <1>0, <3>1 DEF RunTypes
    <3> QED BY <3>1, <3>2, Reaches, Sizes
  <2>1. AddressOf(vol, ic, g.blkno)' = AddressOf(vol, ic, g.blkno)
    BY <2>0 DEF AddressOf, Pointer, Two, Three
  <2>2. CASE m.num = 0 /\ pc' = "mapped" /\ ReadOk /\ UNCHANGED m
    <3>1. CASE m.num \in Trees(m.level) /\ Tree(m.level, m.num, m.fb) = AddressOf(vol, ic, g.blkno)
      <4>1. Tree(m.level, 0, m.fb) = 0
        BY DEF Tree, Pointer, Two, Three
      <4> QED BY <2>1, <2>2, <3>1, <4>1, HoleData DEF MapInv
    <3>2. CASE bad
      BY <2>0, <2>2, <3>2 DEF MapInv, ReadOk
    <3> QED BY <2>0, <3>1, <3>2 DEF MapInv
  <2>3. CASE Mapped(-1) /\ pc' = "mapped" /\ ReadFails
    <3>1. m'.num = -1 /\ bad' = TRUE
      BY <2>0, <2>3 DEF Mapped, ReadFails
    <3> QED BY <2>3, <3>1 DEF MapInv
  <2>4. ASSUME Descend(Empty), bad' = bad, bad PROVE MapInv'
    <3>1. m'.num \in {0, -1} /\ pc' \in {"map", "mapped"}
      BY <2>4 DEF Descend, Pointers
    <3> QED BY <2>4, <3>1 DEF MapInv
  <2>5. ASSUME m.num \in Trees(m.level), m.num # 0, Tree(m.level, m.num, m.fb) = AddressOf(vol, ic, g.blkno),
               Descend(vol.ind[m.num]), bad' = bad
        PROVE  MapInv'
    <3> DEFINE buf == vol.ind[m.num]
    <3>1. /\ m.num \in DOMAIN vol.ind
          /\ m.level = 0 => buf[m.fb + 1] \in Data /\ Tree(m.level, m.num, m.fb) = buf[m.fb + 1]
          /\ m.level > 0 => /\ buf[(m.fb \div Reach[m.level - 1]) + 1] \in Trees(m.level - 1)
                      /\ Tree(m.level, m.num, m.fb)
                          = Tree(m.level - 1, buf[(m.fb \div Reach[m.level - 1]) + 1], m.fb % Reach[m.level - 1])
      BY <2>0, <2>5, TreeDown
    <3>2. buf # Empty
      <4>1. buf \in [1 .. NINDIR -> Nat]
        BY <1>0, <3>1, Volume
      <4>2. 1 \in 1 .. NINDIR /\ 1 \notin DOMAIN Empty
        BY Sizes DEF Empty
      <4> QED BY <4>1, <4>2
    <3> HIDE DEF buf
    <3>3. /\ m' = [level |-> m.level - 1, fb |-> Rest, num |-> buf[Index + 1]]
          /\ pc' = IF m.level = 0 THEN "mapped" ELSE "map"
      BY <2>5, <3>2 DEF Descend, Pointers, buf
    <3>4. CASE m.level = 0
      <4>1. Index = m.fb
        BY <2>0, <3>4 DEF Index
      <4> QED BY <2>1, <2>5, <3>1, <3>3, <3>4, <4>1 DEF MapInv
    <3>5. CASE m.level > 0
      <4>1. Index = m.fb \div Reach[m.level - 1] /\ Rest = m.fb % Reach[m.level - 1] /\ pc' = "map"
        BY <2>0, <3>3, <3>5 DEF Index, Rest
      <4>2. m'.level = m.level - 1 /\ m'.fb = Rest /\ m'.num = buf[Index + 1]
        BY <3>3
      <4>3. (m.num \in Trees(m.level))'
        BY <2>0, <3>1, <3>5, <4>1, <4>2 DEF Trees
      <4>4. Tree(m.level, m.num, m.fb)' = Tree(m.level - 1, buf[Index + 1], Rest)
        BY <2>0, <4>2 DEF Tree, Pointer, Two, Three
      <4>5. Tree(m.level, m.num, m.fb)' = AddressOf(vol, ic, g.blkno)'
        BY <2>1, <2>5, <3>1, <3>5, <4>1, <4>4
      <4> QED BY <4>1, <4>3, <4>5 DEF MapInv
    <3> QED BY <2>0, <3>4, <3>5
  <2>6. m.level \in Levels /\ Holds(m.level)
    BY <2>0, Sizes DEF CacheInv
  <2>7. -1 \notin DOMAIN vol.ind /\ (m.num \in Trees(m.level) /\ m.num # 0 => m.num \in DOMAIN vol.ind)
    BY <1>0, <2>0, Volume, TreeDown
  <2>8. CASE m.num # 0 /\ Cached /\ Descend(f_blk[m.level]) /\ ReadOk
    <3>1. bad' = bad /\ f_blkno[m.level] = m.num
      BY <2>8 DEF ReadOk, Cached
    <3>2. CASE m.num \in Trees(m.level) /\ Tree(m.level, m.num, m.fb) = AddressOf(vol, ic, g.blkno)
      <4>1. m.num \in DOMAIN vol.ind
        BY <2>7, <2>8, <3>2
      <4>2. CASE f_blk[m.level] = Empty
        <5>1. bad
          BY <2>0, <2>6, <3>1, <4>1, <4>2 DEF CacheInv
        <5> QED BY <2>4, <2>8, <3>1, <4>2, <5>1
      <4>3. CASE f_blk[m.level] # Empty
        BY <2>5, <2>6, <2>8, <3>1, <3>2, <4>3 DEF Holds
      <4> QED BY <4>2, <4>3
    <3>3. CASE bad /\ m.num \in {0, -1}
      <4>1. f_blk[m.level] = Empty
        BY <2>6, <2>7, <2>8, <3>1, <3>3 DEF Holds
      <4> QED BY <2>4, <2>8, <3>1, <3>3, <4>1
    <3> QED BY <2>0, <3>2, <3>3 DEF MapInv
  <2>9. CASE m.num # 0 /\ Descend(IF m.num \in DOMAIN vol.ind THEN vol.ind[m.num] ELSE Empty) /\ ReadOk
    <3>1. bad' = bad
      BY <2>9 DEF ReadOk
    <3>2. CASE m.num \in Trees(m.level) /\ Tree(m.level, m.num, m.fb) = AddressOf(vol, ic, g.blkno)
      BY <2>5, <2>7, <2>9, <3>1, <3>2
    <3>3. CASE bad /\ m.num \in {0, -1}
      <4>1. m.num \notin DOMAIN vol.ind
        BY <2>7, <2>9, <3>3
      <4> QED BY <2>4, <2>9, <3>1, <3>3, <4>1
    <3> QED BY <2>0, <3>2, <3>3 DEF MapInv
  <2> QED BY <1>5, <2>2, <2>3, <2>8, <2>9 DEF block_map
<1>6. CASE UNCHANGED vars
  BY <1>6 DEF vars, MapInv, Trees, Tree, Pointer, Two, Three, AddressOf, Covered
<1> QED BY <1>2, <1>3, <1>4, <1>5, <1>6 DEF Next, Step
-----------------------------------------------------------------------------
(* breadi *)

InFile(x) == x * FragUnits < ic.size /\ Covered(x \div Frags)
BlockInFile(b) == b * BlockUnits < ic.size /\ Covered(b)

Busied == pc = "run" \/ InRun
Got == Len(g.data) + (IF InRun THEN g.frags ELSE 0)
Place(x) == x - g.from * Frags

(* Fragment x of the file is in the caller's buffer, or in the run that     *)
(* will be read next.                                                       *)
Brought(x) ==
  /\ Place(x) < Got
  /\ Place(x) < Len(g.data) => g.data[Place(x) + 1] = Fragment(ic, x)
  /\ Place(x) >= Len(g.data) =>
       /\ g.first # -1
       /\ Fragment(ic, x) = IF g.first = 0 THEN 0 ELSE g.first + (Place(x) - Len(g.data))

(* What is read are the blocks before g.blkno, whole but for the last one   *)
(* of the file; a hole is a run of its own.                                 *)
RunFacts ==
  /\ \A x \in g.from * Frags .. g.blkno * Frags - 1 : InFile(x) => Brought(x)
  /\ BlockInFile(g.blkno) => Got = g.blkno * Frags - g.from * Frags
  /\ InRun /\ Fresh => g.frags = 0
  /\ InRun /\ ~Fresh /\ BlockInFile(g.blkno) => g.first \in Data /\ (g.first = 0 => g.frags = Frags)

RunInv == Busied /\ ~bad => RunFacts

LEMMA Division ==
  ASSUME NEW b \in Nat, NEW x \in b * Frags .. (b + 1) * Frags - 1
  PROVE  x \div Frags = b /\ x % Frags = x - b * Frags
<1>1. Frags \in Nat \ {0} /\ (b + 1) * Frags = b * Frags + Frags /\ b * Frags \in Nat
  BY Sizes
<1>2. ASSUME NEW d \in Nat \ {0}, NEW e \in 0 .. d - 1 PROVE (b * d + e) \div d = b /\ (b * d + e) % d = e
  OBVIOUS
<1>3. x - b * Frags \in 0 .. Frags - 1 /\ b * Frags + (x - b * Frags) = x
  BY <1>1
<1>4. (b * Frags + (x - b * Frags)) \div Frags = b /\ (b * Frags + (x - b * Frags)) % Frags = x - b * Frags
  BY <1>1, <1>2, <1>3
<1> QED BY <1>3, <1>4

(* The fragments of a block are of the file only if the block is, and a     *)
(* block only if the one before is.                                         *)
LEMMA InFileBlock ==
  ASSUME NEW b \in Nat, ic.size \in Nat
  PROVE  /\ \A x \in b * Frags .. (b + 1) * Frags - 1 : InFile(x) => BlockInFile(b)
         /\ BlockInFile(b + 1) => BlockInFile(b) /\ (b + 1) * BlockUnits <= ic.size
<1>1. ASSUME NEW x \in b * Frags .. (b + 1) * Frags - 1, InFile(x) PROVE BlockInFile(b)
  <2>1. Covered(b)
    BY <1>1, Division DEF InFile
  <2>2. b * Frags \in Nat /\ x \in Nat /\ b * Frags <= x
    BY Sizes
  <2>3. (b * Frags) * FragUnits <= x * FragUnits
    BY <2>2, Sizes
  <2>4. (b * Frags) * FragUnits = b * BlockUnits
    BY Sizes DEF BlockUnits
  <2>5. x * FragUnits < ic.size /\ x * FragUnits \in Nat /\ b * BlockUnits \in Nat
    BY <1>1, <2>2, Sizes DEF InFile
  <2> QED BY <2>1, <2>3, <2>4, <2>5 DEF BlockInFile
<1>2. ASSUME BlockInFile(b + 1) PROVE BlockInFile(b) /\ (b + 1) * BlockUnits <= ic.size
  <2>1. (b + 1) * BlockUnits = b * BlockUnits + BlockUnits /\ b * BlockUnits \in Nat
    BY Sizes
  <2>2. Covered(b)
    BY <1>2, Sizes DEF BlockInFile, Covered
  <2> QED BY <1>2, <2>1, <2>2, Sizes DEF BlockInFile
<1> QED BY <1>1, <1>2

Placed(x, y, q, l, r, t) ==
  /\ x - q = (l + r) + y /\ (x - q) - l = r + y
  /\ x - q < (l + r) + t /\ x - q >= l

LEMMA Placing ==
  ASSUME NEW x \in Int, NEW y \in Nat, NEW p \in Nat, NEW q \in Nat, NEW l \in Nat, NEW r \in Nat,
         NEW t \in Nat, p - q = l + r, y = x - p, y < t
  PROVE  Placed(x, y, q, l, r, t)
BY DEF Placed

LEMMA ExtendFacts ==
  ASSUME Types, MapInv, RunFacts, ~bad, pc = "mapped", Extends, g' = Extended, InRun',
         UNCHANGED << vol, ic, f_nindir >>
  PROVE  RunFacts'
<1> DEFINE b == g.blkno
           n == FragsOf(ic, b)
           f == IF Fresh THEN m.num ELSE g.first
<1>0. /\ g \in Runs /\ ic \in Inodes /\ vol \in Vols /\ ic.size \in Nat /\ InRun /\ m.num \in Int
      /\ g.start <= b /\ g.from <= b
  <2>1. ic.size \in Nat
    BY Volume DEF Types, FileTypes, InodeSound
  <2> QED BY <2>1 DEF Types, FileTypes, RunTypes, InRun
<1>1. /\ g.from \in Nat /\ b \in Nat /\ g.start \in Nat /\ g.first \in Int /\ g.frags \in Nat
      /\ Len(g.data) \in Nat /\ f \in Int
  BY <1>0, RunFields
<1>2. n \in 0 .. Frags /\ ((b + 1) * BlockUnits <= ic.size => n = Frags)
      /\ \A x \in b * Frags .. (b + 1) * Frags - 1 : x * FragUnits < ic.size => x - b * Frags < n
  BY <1>0, <1>1, FragsOfBlock
<1>3. /\ g'.first = f /\ g'.frags = g.frags + n /\ g'.blkno = b + 1 /\ g'.from = g.from
      /\ g'.start = g.start /\ g'.data = g.data
  BY <1>0 DEF Extended, Runs
<1> HIDE DEF n, f
<1>4. Got = Len(g.data) + g.frags /\ Got' = Len(g.data) + g.frags + n /\ Got \in Nat
  <2>1. Got = Len(g.data) + g.frags
    BY <1>0 DEF Got
  <2>2. Got' = Len(g'.data) + g'.frags
    BY DEF Got
  <2>3. Len(g.data) + (g.frags + n) = Len(g.data) + g.frags + n
    BY <1>1, <1>2, Sizes
  <2> QED BY <1>1, <1>3, <2>1, <2>2, <2>3
<1>5. b * Frags \in Nat /\ g.from * Frags \in Nat /\ (b + 1) * Frags = b * Frags + Frags
      /\ g.from * Frags <= b * Frags
  <2>1. g.from * Frags <= b * Frags
    BY <1>0, <1>1, Sizes
  <2>2. (b + 1) * Frags = b * Frags + Frags
    BY <1>1, Sizes
  <2>3. ASSUME NEW a \in Nat PROVE a * Frags \in Nat
    BY Sizes
  <2> QED BY <1>1, <2>1, <2>2, <2>3, Zenon
<1>6. ASSUME NEW x PROVE InFile(x)' = InFile(x) /\ Place(x)' = Place(x) /\ Fragment(ic, x)' = Fragment(ic, x)
                         /\ BlockInFile(x)' = BlockInFile(x)
  <2>1. Covered(x)' = Covered(x) /\ Covered(x \div Frags)' = Covered(x \div Frags)
    BY DEF Covered
  <2>2. Place(x)' = Place(x)
    BY <1>3 DEF Place
  <2>3. Fragment(ic, x)' = Fragment(ic, x)
    BY DEF Fragment, AddressOf, Pointer, Two, Three
  <2> QED BY <2>1, <2>2, <2>3 DEF InFile, BlockInFile
<1>7. ~Fresh'
  BY <1>0, <1>1, <1>3 DEF Fresh
<1>8. ASSUME NEW x \in g.from * Frags .. b * Frags - 1, InFile(x) PROVE Brought(x)'
  <2>0. Brought(x) /\ Place(x) \in Nat
    BY <1>5, <1>8 DEF RunFacts, Place
  <2>1. Place(x)' < Got'
    BY <1>1, <1>2, <1>4, <1>6, <2>0, Sizes DEF Brought
  <2>2. Place(x) < Len(g.data) => (g.data[Place(x) + 1])' = Fragment(ic, x)'
    BY <1>3, <1>6, <2>0 DEF Brought
  <2>3. Place(x) >= Len(g.data) =>
           /\ g'.first # -1
           /\ Fragment(ic, x)' = IF g'.first = 0 THEN 0 ELSE g'.first + (Place(x) - Len(g.data))
    <3>1. CASE Fresh
      <4>1. g.frags = 0
        BY <1>0, <3>1 DEF RunFacts
      <4> QED BY <1>1, <1>4, <2>0, <4>1 DEF Brought
    <3>2. CASE ~Fresh
      <4>1. g'.first = g.first
        BY <1>3, <3>2 DEF f
      <4> QED BY <1>6, <2>0, <4>1 DEF Brought
    <3> QED BY <3>1, <3>2
  <2> QED BY <1>3, <1>6, <2>1, <2>2, <2>3 DEF Brought
<1>9. CASE ~BlockInFile(b)
  <2>1. ASSUME NEW x \in g.from * Frags .. (b + 1) * Frags - 1, InFile(x) PROVE Brought(x)'
    <3>1. x \notin b * Frags .. (b + 1) * Frags - 1
      BY <1>0, <1>1, <1>9, <2>1, InFileBlock
    <3>2. x \in g.from * Frags .. b * Frags - 1
      BY <1>5, <3>1
    <3> QED BY <1>8, <2>1, <3>2
  <2>2. ~BlockInFile(b + 1)
    BY <1>0, <1>1, <1>9, InFileBlock
  <2>3. ~BlockInFile(g.blkno)'
    BY <1>3, <1>6, <2>2
  <2> QED BY <1>3, <1>6, <1>7, <2>1, <2>3 DEF RunFacts
<1>10. CASE BlockInFile(b)
  <2>1. m.num = AddressOf(vol, ic, b) /\ m.num \in Data
    BY <1>10 DEF MapInv, BlockInFile
  <2>2. Got = b * Frags - g.from * Frags
    BY <1>10 DEF RunFacts
  <2>3. f \in Data /\ (f # 0 => m.num = f + g.frags) /\ (f = 0 => m.num = 0 /\ g.frags = 0)
    <3>1. CASE Fresh
      <4>1. g.frags = 0 /\ f = m.num
        BY <1>0, <3>1 DEF RunFacts, f
      <4> QED BY <1>0, <2>1, <4>1
    <3>2. CASE ~Fresh
      <4>1. f = g.first /\ g.first \in Data /\ (g.first = 0 => g.frags = Frags) /\ m.num = g.first + g.frags
        BY <1>0, <1>10, <3>2 DEF RunFacts, Extends, f
      <4>2. Frags \notin Data
        BY Sizes DEF Data
      <4>3. g.first # 0
        BY <2>1, <4>1, <4>2, Sizes
      <4> QED BY <4>1, <4>3
    <3> QED BY <3>1, <3>2
  <2>4. ASSUME NEW x \in b * Frags .. (b + 1) * Frags - 1, InFile(x) PROVE Brought(x)'
    <3> DEFINE y == x - b * Frags
    <3>1. x \div Frags = b /\ x % Frags = y
      BY <1>1, Division
    <3>2. y \in 0 .. n - 1
      BY <1>2, <1>5, <2>4, Sizes DEF InFile
    <3>3. Fragment(ic, x) = IF m.num = 0 THEN 0 ELSE m.num + y
      BY <2>1, <3>1 DEF Fragment
    <3>n. n \in Nat /\ y \in Nat /\ y < n
      BY <1>2, <3>2, Sizes
    <3>x. x \in Int /\ x - g.from * Frags \in Nat
      BY <1>5
    <3>4. Place(x) = Got + y /\ Place(x) - Len(g.data) = g.frags + y /\ Place(x) \in Nat
          /\ Place(x) < (Len(g.data) + g.frags) + n /\ Place(x) >= Len(g.data)
      <4> DEFINE p == b * Frags
                 q == g.from * Frags
      <4>1. p \in Nat /\ q \in Nat /\ Got = p - q /\ y = x - p /\ x - q \in Nat
        BY <1>5, <2>2, <3>x
      <4> HIDE DEF p, q, y
      <4>2. /\ x - q = Got + y /\ (x - q) - Len(g.data) = g.frags + y
            /\ x - q < (Len(g.data) + g.frags) + n /\ x - q >= Len(g.data)
        <5>1. p - q = Len(g.data) + g.frags
          BY <1>4, <4>1
        <5>2. Got = Len(g.data) + g.frags
          BY <1>4
        <5>3. /\ x - q = (Len(g.data) + g.frags) + y /\ (x - q) - Len(g.data) = g.frags + y
              /\ x - q < (Len(g.data) + g.frags) + n /\ x - q >= Len(g.data)
          <6>1. Placed(x, y, q, Len(g.data), g.frags, n)
            BY <1>1, <3>n, <3>x, <4>1, <5>1, Placing, Zenon
          <6> QED BY <6>1 DEF Placed
        <5> QED BY <5>2, <5>3
      <4>3. Place(x) = x - q
        BY DEF Place, q
      <4> QED BY <3>x, <4>1, <4>2, <4>3
    <3>5. Place(x) < Got' /\ Place(x) >= Len(g.data)
      BY <1>4, <3>4
    <3>6. f # -1 /\ Fragment(ic, x) = IF f = 0 THEN 0 ELSE f + (g.frags + y)
      BY <1>1, <2>1, <2>3, <3>2, <3>3, HoleData
    <3> QED BY <1>1, <1>3, <1>6, <3>4, <3>5, <3>6 DEF Brought
  <2>5. ASSUME NEW x \in g.from * Frags .. (b + 1) * Frags - 1, InFile(x) PROVE Brought(x)'
    <3>1. x \in g.from * Frags .. b * Frags - 1 \/ x \in b * Frags .. (b + 1) * Frags - 1
      BY <1>5
    <3> QED BY <1>8, <2>4, <2>5, <3>1
  <2>6. BlockInFile(b + 1) => n = Frags /\ Got' = (b + 1) * Frags - g.from * Frags
    <3> SUFFICES ASSUME BlockInFile(b + 1) PROVE n = Frags /\ Got' = (b + 1) * Frags - g.from * Frags
      OBVIOUS
    <3>1. n = Frags
      BY <1>0, <1>1, <1>2, InFileBlock
    <3>2. Got' = (b * Frags - g.from * Frags) + Frags
      <4>1. Got' = Got + n
        BY <1>4
      <4> QED BY <2>2, <3>1, <4>1, Zenon
    <3>3. ASSUME NEW u \in Nat, NEW w \in Nat, NEW z \in Nat PROVE (u - w) + z = (u + z) - w
      OBVIOUS
    <3>4. Frags \in Nat
      BY Sizes
    <3>5. (b * Frags - g.from * Frags) + Frags = (b * Frags + Frags) - g.from * Frags
      BY <1>5, <3>3, <3>4, Zenon
    <3> QED BY <1>5, <3>1, <3>2, <3>5, Zenon
  <2>7. BlockInFile(b + 1) => f \in Data /\ (f = 0 => g.frags + n = Frags)
    BY <2>3, <2>6, Sizes
  <2> QED BY <1>3, <1>6, <1>7, <2>5, <2>6, <2>7 DEF RunFacts
<1> QED BY <1>9, <1>10

LEMMA FragInt == \A a \in Nat : a * Frags \in Int /\ a * Frags \in Nat
BY Sizes

(* A step that leaves the run as it is. *)
LEMMA RunFrame ==
  ASSUME RunFacts, UNCHANGED << vol, ic, f_nindir, g >>, InRun' <=> InRun
  PROVE  RunFacts'
<1>1. ASSUME NEW x PROVE InFile(x)' = InFile(x) /\ BlockInFile(x)' = BlockInFile(x)
  BY DEF InFile, BlockInFile, Covered
<1>2. ASSUME NEW x PROVE Fragment(ic, x)' = Fragment(ic, x)
  BY DEF Fragment, AddressOf, Pointer, Two, Three
<1>3. Got' = Got
  BY DEF Got
<1>4. ASSUME NEW x PROVE Place(x)' = Place(x)
  BY DEF Place
<1>5. ASSUME NEW x PROVE Brought(x)' = Brought(x)
  BY <1>2, <1>3, <1>4 DEF Brought
<1>6. Fresh' = Fresh
  BY DEF Fresh
<1> QED BY <1>1, <1>3, <1>5, <1>6 DEF RunFacts

(* A call of breadi. *)
LEMMA RunBegins ==
  ASSUME NEW back, NEW b \in Nat, NEW n \in Nat, breadi(back, b, n)
  PROVE  RunFacts'
<1>1. pc' = "run" /\ g'.from = b /\ g'.blkno = b /\ g'.data = << >>
  BY DEF breadi, NoRun
<1>2. ~InRun' /\ Got' = 0
  BY <1>1 DEF InRun, Got
<1>3. b * Frags \in Nat /\ b * Frags - b * Frags = 0
  BY Sizes
<1>4. \A x : x \notin g'.from * Frags .. g'.blkno * Frags - 1
  BY <1>1, <1>3
<1> QED BY <1>1, <1>2, <1>3, <1>4 DEF RunFacts

(* block_map is asked for the first block of a run. *)
LEMMA RunStarts ==
  ASSUME Types, RunFacts, pc = "run", InRun', UNCHANGED << vol, ic, f_nindir >>,
         g' = [g EXCEPT !.start = g.blkno, !.frags = 0]
  PROVE  RunFacts'
<1>0. g \in Runs /\ ~InRun
  BY DEF Types, RunTypes, InRun
<1>1. /\ g'.first = g.first /\ g'.frags = 0 /\ g'.blkno = g.blkno /\ g'.from = g.from
      /\ g'.start = g.blkno /\ g'.data = g.data
  BY <1>0 DEF Runs
<1>2. Len(g.data) \in Nat /\ g.blkno \in Nat /\ g.from \in Nat
  BY <1>0, RunFields
<1>b. g.from * Frags \in Int /\ g.blkno * Frags \in Int
  BY <1>2, FragInt, Zenon
<1>3. Got = Len(g.data) /\ Got' = Len(g.data)
  BY <1>0, <1>1, <1>2 DEF Got
<1>4. ASSUME NEW x PROVE InFile(x)' = InFile(x) /\ BlockInFile(x)' = BlockInFile(x)
  BY DEF InFile, BlockInFile, Covered
<1>5. ASSUME NEW x PROVE Fragment(ic, x)' = Fragment(ic, x) /\ Place(x)' = Place(x)
  BY <1>1 DEF Fragment, AddressOf, Pointer, Two, Three, Place
<1>6. ASSUME NEW x \in g.from * Frags .. g.blkno * Frags - 1, InFile(x) PROVE Brought(x)'
  <2>1. Brought(x) /\ Place(x) \in Int
    BY <1>6, <1>b DEF RunFacts, Place
  <2>2. Place(x) < Len(g.data) /\ ~(Place(x) >= Len(g.data)) /\ g.data[Place(x) + 1] = Fragment(ic, x)
    BY <1>2, <1>3, <2>1 DEF Brought
  <2> QED BY <1>1, <1>3, <1>5, <2>2 DEF Brought
<1>7. Fresh'
  BY <1>1 DEF Fresh
<1> QED BY <1>1, <1>3, <1>4, <1>6, <1>7 DEF RunFacts

LEMMA OffsetInRun ==
  ASSUME NEW p \in Nat, NEW l \in Nat, NEW r \in Nat, p < l + r, p >= l
  PROVE  (p + 1) - l \in 1 .. r /\ ((p + 1) - l) - 1 = p - l
OBVIOUS

(* What a transfer appends. *)
LEMMA RunArrives ==
  ASSUME Types, RunFacts, pc = "transfer", UNCHANGED << vol, ic, f_nindir >>,
         NEW data \in Seq(Int), Len(data) = g.frags, g' = [g EXCEPT !.data = @ \o data], pc' = "run",
         \A i \in 1 .. g.frags : g.first # -1 => data[i] = IF g.first = 0 THEN 0 ELSE g.first + (i - 1)
  PROVE  RunFacts'
<1>0. g \in Runs /\ InRun /\ ~InRun'
  BY DEF Types, RunTypes, InRun
<1>1. /\ g'.blkno = g.blkno /\ g'.from = g.from /\ g'.data = g.data \o data
  BY <1>0 DEF Runs
<1>2. Len(g.data) \in Nat /\ g.blkno \in Nat /\ g.from \in Nat /\ g.frags \in Nat /\ g.data \in Seq(Int)
      /\ g.first \in Int
  BY <1>0, RunFields
<1>3. /\ Len(g.data \o data) = Len(g.data) + g.frags
      /\ \A i \in 1 .. Len(g.data) + g.frags :
           (g.data \o data)[i] = IF i <= Len(g.data) THEN g.data[i] ELSE data[i - Len(g.data)]
  <2>1. /\ Len(g.data \o data) = Len(g.data) + Len(data)
        /\ \A i \in 1 .. Len(g.data) + Len(data) :
             (g.data \o data)[i] = IF i <= Len(g.data) THEN g.data[i] ELSE data[i - Len(g.data)]
    BY <1>2, ConcatProperties, Zenon
  <2> QED BY <2>1, Zenon
<1>b. g.from * Frags \in Int /\ g.blkno * Frags \in Int
  BY <1>2, FragInt, Zenon
<1>4. Got = Len(g.data) + g.frags /\ Got' = Got /\ Len(g'.data) = Got
  <2>1. Got = Len(g.data) + g.frags
    BY <1>0 DEF Got
  <2>2. Got' = Len(g'.data) + 0
    BY <1>0 DEF Got
  <2> QED BY <1>1, <1>2, <1>3, <2>1, <2>2
<1>5. ASSUME NEW x PROVE InFile(x)' = InFile(x) /\ BlockInFile(x)' = BlockInFile(x)
  BY DEF InFile, BlockInFile, Covered
<1>6. ASSUME NEW x PROVE Fragment(ic, x)' = Fragment(ic, x) /\ Place(x)' = Place(x)
  BY <1>1 DEF Fragment, AddressOf, Pointer, Two, Three, Place
<1>7. ASSUME NEW x \in g.from * Frags .. g.blkno * Frags - 1, InFile(x) PROVE Brought(x)'
  <2>0. Brought(x) /\ Place(x) \in Nat
    BY <1>7, <1>b DEF RunFacts, Place
  <2>1. Place(x) < Got /\ Place(x) + 1 \in 1 .. Len(g.data) + g.frags
    <3>1. Place(x) < Got
      BY <2>0 DEF Brought
    <3>2. Place(x) < Len(g.data) + g.frags
      BY <1>4, <3>1
    <3>3. Place(x) \in Nat /\ Len(g.data) \in Nat /\ g.frags \in Nat
      BY <1>2, <2>0
    <3> QED BY <3>1, <3>2, <3>3
  <2>2. (g.data \o data)[Place(x) + 1] = Fragment(ic, x)
    <3>0. (g.data \o data)[Place(x) + 1]
           = IF Place(x) + 1 <= Len(g.data) THEN g.data[Place(x) + 1] ELSE data[(Place(x) + 1) - Len(g.data)]
      BY <1>3, <2>1, Zenon
    <3>1. CASE Place(x) < Len(g.data)
      BY <1>2, <2>0, <3>0, <3>1 DEF Brought
    <3>2. CASE Place(x) >= Len(g.data)
      <4> DEFINE i == (Place(x) + 1) - Len(g.data)
      <4>1. i \in 1 .. g.frags /\ i - 1 = Place(x) - Len(g.data)
        <5>1. Place(x) \in Nat /\ Len(g.data) \in Nat /\ g.frags \in Nat
          BY <1>2, <2>0
        <5>2. Place(x) < Len(g.data) + g.frags
          BY <1>4, <2>1
        <5> QED BY <3>2, <5>1, <5>2, OffsetInRun, Zenon
      <4> HIDE DEF i
      <4>2. g.first # -1 /\ Fragment(ic, x) = IF g.first = 0 THEN 0 ELSE g.first + (i - 1)
        BY <2>0, <3>2, <4>1 DEF Brought
      <4>3. data[i] = Fragment(ic, x)
        BY <4>1, <4>2
      <4>4. ~(Place(x) + 1 <= Len(g.data))
        BY <1>2, <2>0, <3>2
      <4> QED BY <3>0, <4>3, <4>4 DEF i
    <3>3. Place(x) < Len(g.data) \/ Place(x) >= Len(g.data)
      BY <1>2, <2>0
    <3> QED BY <3>1, <3>2, <3>3, Zenon
  <2>3. Place(x) < Len(g'.data) /\ ~(Place(x) >= Len(g'.data))
    BY <1>2, <1>4, <2>0, <2>1
  <2> QED BY <1>1, <1>4, <1>6, <2>1, <2>2, <2>3 DEF Brought
<1> QED BY <1>0, <1>1, <1>4, <1>5, <1>7 DEF RunFacts

LEMMA NextRun == Types /\ MapInv /\ RunInv /\ [Next]_vars => RunInv'
<1> SUFFICES ASSUME Types, MapInv, RunInv, [Next]_vars PROVE RunInv'
  OBVIOUS
<1> USE DEF file, search, counts
<1>0. g \in Runs /\ FileTypes /\ RunTypes /\ ic.size \in Nat /\ offset \in Nat
  <2>1. InodeSound(vol, ic)
    BY Volume DEF Types, FileTypes
  <2> QED BY <2>1 DEF Types, FileTypes, RunTypes, SearchTypes, InodeSound
<1>1. ASSUME pc' \notin {"run", "map", "mapped", "transfer"} PROVE RunInv'
  BY <1>1 DEF RunInv, Busied, InRun
<1>2. CASE ufs_mount \/ ufs_open \/ ReadRoot \/ Component \/ OpenDone \/ BreadDone \/ BlockIn \/ search_dir
           \/ Descended \/ Link \/ FollowLink \/ BreadFaults \/ ufs_close
  <2>1. pc' \notin {"run", "map", "mapped", "transfer"}
    BY <1>2 DEF ufs_mount, ufs_open, ReadRoot, Component, OpenDone, BreadDone, BlockIn, search_dir,
         Descended, Link, FollowLink, BreadFaults, ufs_close, Return
  <2> QED BY <1>1, <2>1
<1>3. CASE ufs_bread
  <2>1. PICK b \in 0 .. (ic.size \div BlockUnits) + 1, n \in 1 .. MaxRun : breadi("bread", b, n)
    BY <1>3, Zenon DEF ufs_bread
  <2>2. b \in Nat /\ n \in Nat
    BY <1>0, Sizes
  <2> QED BY <2>1, <2>2, RunBegins DEF RunInv
<1>4. CASE SearchBlock
  <2>1. CASE pc' = "idle"
    BY <1>1, <2>1
  <2>2. CASE breadi("scan", offset \div BlockUnits, 1)
    <3>1. offset \div BlockUnits \in Nat /\ 1 \in Nat
      BY <1>0, Sizes
    <3> QED BY <2>2, <3>1, RunBegins DEF RunInv
  <2> QED BY <1>4, <2>1, <2>2 DEF SearchBlock, Return
<1>5. CASE StartRun
  <2>1. /\ pc = "run" /\ g' = [g EXCEPT !.start = g.blkno, !.frags = 0] /\ MapStart(g.blkno)
        /\ UNCHANGED << vol, ic, f_nindir, bad >>
    BY <1>5, Zenon DEF StartRun
  <2>2. MapStarted(g.blkno)
    BY <1>0, <2>1, MapStarts, RunFields
  <2>3. InRun'
    BY <2>2 DEF MapStarted, Started, InRun
  <2> QED BY <2>1, <2>3, RunStarts DEF RunInv, Busied
<1>6. CASE ExtendRun
  <2>1. /\ pc = "mapped" /\ Extends /\ g' = Extended /\ UNCHANGED << vol, ic, f_nindir, bad >>
        /\ pc' = "transfer" \/ MapStart(g.blkno + 1)
    BY <1>6, Zenon DEF ExtendRun
  <2>2. MapStart(g.blkno + 1) => MapStarted(g.blkno + 1)
    BY <1>0, MapStarts, RunFields
  <2>3. InRun'
    BY <2>1, <2>2 DEF MapStarted, Started, InRun
  <2> QED BY <2>1, <2>3, ExtendFacts DEF RunInv, Busied, InRun
<1>7. CASE RunEnds
  <2>1. InRun /\ InRun' /\ UNCHANGED << vol, ic, f_nindir, g, bad >>
    BY <1>7 DEF RunEnds, InRun
  <2> QED BY <2>1, RunFrame DEF RunInv, Busied
<1>8. CASE block_map
  <2>1. InRun /\ UNCHANGED << vol, ic, f_nindir, g >>
    BY <1>8 DEF block_map, InRun
  <2>2. pc' \in {"map", "mapped"}
    BY <1>8 DEF block_map, Descend
  <2>3. bad' = bad \/ bad' = TRUE
    BY <1>8, Zenon DEF block_map, ReadOk, ReadFails
  <2>4. InRun'
    BY <2>2 DEF InRun
  <2> QED BY <2>1, <2>3, <2>4, RunFrame, Zenon DEF RunInv, Busied
<1>9. CASE Transfer
  <2>1. pc = "transfer" /\ UNCHANGED << vol, ic, f_nindir >>
    BY <1>9, Zenon DEF Transfer
  <2>2. CASE pc' = "idle"
    BY <1>1, <2>2
  <2>3. g.frags \in Nat /\ g.first \in Int
    BY <1>0, RunFields
  <2>4. CASE g.first = 0 /\ Arrives(Hole) /\ ReadOk
    <3>1. Hole \in Seq(Int) /\ Len(Hole) = g.frags
      BY <2>3 DEF Hole
    <3>2. \A i \in 1 .. g.frags : Hole[i] = 0
      BY DEF Hole
    <3>3. g' = [g EXCEPT !.data = @ \o Hole] /\ pc' = "run" /\ bad' = bad
      BY <2>4 DEF Arrives, ReadOk
    <3> QED BY <2>1, <2>4, <3>1, <3>2, <3>3, RunArrives DEF RunInv, Busied, InRun
  <2>5. CASE g.first # 0 /\ Arrives(FromDisk) /\ ReadOk
    <3>1. FromDisk \in Seq(Int) /\ Len(FromDisk) = g.frags
      BY <2>3 DEF FromDisk
    <3>2. \A i \in 1 .. g.frags : g.first # -1 => FromDisk[i] = g.first + (i - 1)
      BY <2>3 DEF FromDisk
    <3>3. g' = [g EXCEPT !.data = @ \o FromDisk] /\ pc' = "run" /\ bad' = bad
      BY <2>5 DEF Arrives, ReadOk
    <3> QED BY <2>1, <2>5, <3>1, <3>2, <3>3, RunArrives DEF RunInv, Busied, InRun
  <2> QED BY <1>9, <2>2, <2>4, <2>5 DEF Transfer, BreadFails, Return
<1>10. CASE UNCHANGED vars
  <2>1. (InRun' <=> InRun) /\ UNCHANGED << vol, ic, f_nindir, g, pc, bad >>
    BY <1>10 DEF vars, InRun
  <2> QED BY <2>1, RunFrame DEF RunInv, Busied
<1> QED BY <1>2, <1>3, <1>4, <1>5, <1>6, <1>7, <1>8, <1>9, <1>10 DEF Next, Step
-----------------------------------------------------------------------------
(* ufs_bread *)

(* ufs_bread is called with the reaches of the levels computed: by the open *)
(* that gave the descriptor.                                                *)
SizedInv ==
  /\ Busied /\ g.back = "bread" => f_nindir = Reach
  /\ pc = "idle" /\ ret.call \in {"open", "bread"} /\ ret.val >= 0 /\ ~NoFile => f_nindir = Reach

LEMMA NextSized == Types /\ SizedInv /\ [Next]_vars => SizedInv'
<1> SUFFICES ASSUME Types, SizedInv, [Next]_vars PROVE SizedInv'
  OBVIOUS
<1> USE DEF file, search, counts
<1>0. g \in Runs /\ RunTypes
  BY DEF Types, RunTypes
<1>1. ASSUME pc' \notin {"idle", "run", "map", "mapped", "transfer"} PROVE SizedInv'
  BY <1>1 DEF SizedInv, Busied, InRun
<1>2. ASSUME pc' = "idle", ret'.call \in {"mount", "close"} \/ ret'.val = -1 PROVE SizedInv'
  BY <1>2 DEF SizedInv, Busied, InRun
<1>3. CASE ufs_open \/ ReadRoot \/ BlockIn \/ search_dir \/ BreadFaults
  <2>1. pc' \notin {"idle", "run", "map", "mapped", "transfer"}
    BY <1>3 DEF ufs_open, ReadRoot, BlockIn, search_dir, BreadFaults
  <2> QED BY <1>1, <2>1
<1>4. CASE ufs_mount \/ ufs_close
  <2>1. pc' = "idle" /\ ret'.call \in {"mount", "close"}
    BY <1>4 DEF ufs_mount, ufs_close, Return
  <2> QED BY <1>2, <2>1
<1>5. CASE Component \/ Descended \/ FollowLink
  <2>1. pc' \notin {"idle", "run", "map", "mapped", "transfer"} \/ (pc' = "idle" /\ ret'.val = -1)
    BY <1>5 DEF Component, Descended, FollowLink, Return
  <2> QED BY <1>1, <1>2, <2>1
<1>6. CASE Link
  <2>1. \/ pc' \notin {"idle", "run", "map", "mapped", "transfer"}
        \/ pc' = "idle" /\ ret'.val = -1
        \/ pc' = "idle" /\ ret'.call = "open" /\ ret'.val = FS_SYMLINK_LOOP
    BY <1>6 DEF Link, Return
  <2>2. CASE pc' = "idle" /\ ret'.call = "open" /\ ret'.val = FS_SYMLINK_LOOP
    BY <2>2 DEF SizedInv, Busied, InRun, NoFile
  <2> QED BY <1>1, <1>2, <2>1, <2>2
<1>7. CASE OpenDone
  BY <1>7 DEF OpenDone, Return, SizedInv, Busied, InRun
<1>8. CASE BreadDone
  <2>1. f_nindir = Reach /\ pc' = "idle" /\ UNCHANGED f_nindir
    BY <1>8 DEF BreadDone, Return, SizedInv, Busied
  <2> QED BY <2>1 DEF SizedInv, Busied, InRun, Reach
<1>9. CASE ufs_bread
  <2>1. f_nindir = Reach /\ UNCHANGED f_nindir /\ pc' = "run"
    BY <1>9 DEF ufs_bread, SizedInv, breadi
  <2> QED BY <2>1 DEF SizedInv
<1>10. CASE SearchBlock
  <2>1. CASE pc' = "idle" /\ ret'.val = -1
    BY <1>2, <2>1
  <2>2. CASE breadi("scan", offset \div BlockUnits, 1)
    BY <2>2 DEF breadi, NoRun, SizedInv, Busied
  <2> QED BY <1>10, <2>1, <2>2 DEF SearchBlock, Return
<1>11. CASE StartRun \/ ExtendRun \/ RunEnds \/ block_map
  <2>1. UNCHANGED f_nindir /\ pc \in {"run", "map", "mapped"}
    BY <1>11 DEF StartRun, ExtendRun, RunEnds, block_map
  <2>2. g'.back = g.back
    BY <1>0, <1>11 DEF StartRun, ExtendRun, RunEnds, block_map, Extended, Runs
  <2>3. pc' # "idle"
    BY <1>11 DEF StartRun, ExtendRun, RunEnds, block_map, MapStart, Descend
  <2> QED BY <2>1, <2>2, <2>3 DEF SizedInv, Busied, InRun
<1>12. CASE Transfer
  <2>0. pc = "transfer" /\ UNCHANGED f_nindir
    BY <1>12, Zenon DEF Transfer
  <2>1. CASE pc' = "idle" /\ ret'.val = -1
    BY <1>2, <2>1
  <2>2. ASSUME NEW data, Arrives(data) PROVE SizedInv'
    <3>1. g'.back = g.back /\ pc' = "run"
      BY <1>0, <2>2 DEF Arrives, Runs
    <3> QED BY <2>0, <3>1 DEF SizedInv, Busied, InRun
  <2> QED BY <1>12, <2>1, <2>2 DEF Transfer, BreadFails, Return
<1>13. CASE UNCHANGED vars
  BY <1>13 DEF vars, SizedInv, Busied, InRun, NoFile
<1> QED BY <1>3, <1>4, <1>5, <1>6, <1>7, <1>8, <1>9, <1>10, <1>11, <1>12, <1>13 DEF Next, Step

(* Every fragment of a file is within the reach of its indirect blocks. *)
LEMMA FileCovered ==
  ASSUME Types, f_nindir = Reach, NEW x \in Nat, x * FragUnits < ic.size
  PROVE  InFile(x)
<1> DEFINE q == x \div Frags
<1>1. ic.size \in Nat /\ ic.size <= Total * BlockUnits
  <2>1. InodeSound(vol, ic)
    BY Volume DEF Types, FileTypes
  <2>2. NINDIR * NINDIR * NINDIR = Cube
    BY Sizes DEF Cube, Square
  <2> QED BY <2>1, <2>2 DEF InodeSound, Total, Square
<1>2. q \in Nat /\ q * Frags <= x
  BY Sizes
<1>3. (q * Frags) * FragUnits <= x * FragUnits
  BY <1>2, Sizes
<1>4. (q * Frags) * FragUnits = q * BlockUnits
  BY <1>2, Sizes DEF BlockUnits
<1>5. q * BlockUnits \in Nat /\ x * FragUnits \in Nat /\ Total * BlockUnits \in Nat
  BY <1>2, Sizes
<1>6. q * BlockUnits < Total * BlockUnits
  BY <1>1, <1>3, <1>4, <1>5
<1> HIDE DEF q
<1>7. q < Total
  <2>1. ASSUME NEW a \in Nat, NEW b \in Nat, NEW c \in Nat \ {0}, a * c < b * c PROVE a < b
    BY <2>1
  <2> QED BY <1>2, <1>6, <2>1, Sizes
<1> QED BY <1>7 DEF InFile, Covered, q

LEMMA NextReads == Types /\ SizedInv /\ RunInv /\ ReadsRight /\ [Next]_vars => ReadsRight'
<1> SUFFICES ASSUME Types, SizedInv, RunInv, ReadsRight, [Next]_vars PROVE ReadsRight'
  OBVIOUS
<1> USE DEF file, search, counts
<1>1. CASE BreadDone
  <2>1. /\ pc = "run" /\ g.nblks = 0 /\ g.back = "bread" /\ UNCHANGED << vol, ic, g, bad >>
    BY <1>1, Zenon DEF BreadDone
  <2>2. CASE bad
    BY <2>1, <2>2 DEF ReadsRight
  <2>3. CASE ~bad
    <3>1. RunFacts /\ f_nindir = Reach /\ ~InRun
      BY <2>1, <2>3 DEF RunInv, SizedInv, Busied, InRun
    <3>2. g.blkno = g.from + g.count /\ g.from \in Nat /\ g.count \in Nat /\ Len(g.data) \in Nat
      <4>1. g \in Runs /\ g.blkno + g.nblks = g.from + g.count
        BY DEF Types, RunTypes
      <4> QED BY <2>1, <4>1, RunFields
    <3>3. ASSUME NEW x \in g.from * Frags .. (g.from + g.count) * Frags - 1, x * FragUnits < ic.size
          PROVE  x - g.from * Frags < Len(g.data) /\ g.data[x - g.from * Frags + 1] = Fragment(ic, x)
      <4>1. x \in Nat
        <5>1. g.from * Frags \in Nat
          BY <3>2, FragInt, Zenon
        <5> QED BY <5>1
      <4>2. InFile(x)
        BY <3>1, <3>3, <4>1, FileCovered
      <4>3. Brought(x)
        BY <3>1, <3>2, <4>2 DEF RunFacts
      <4>4. Got = Len(g.data)
        BY <3>1, <3>2 DEF Got
      <4> QED BY <4>3, <4>4 DEF Brought, Place
    <3>4. ASSUME NEW x PROVE Fragment(ic, x)' = Fragment(ic, x)
      BY <2>1 DEF Fragment, AddressOf, Pointer, Two, Three
    <3> QED BY <2>1, <3>3, <3>4 DEF ReadsRight
  <2> QED BY <2>2, <2>3
<1>2. CASE UNCHANGED vars
  <2>1. ASSUME NEW x PROVE Fragment(ic, x)' = Fragment(ic, x)
    BY <1>2 DEF vars, Fragment, AddressOf, Pointer, Two, Three
  <2> QED BY <1>2, <2>1 DEF vars, ReadsRight
<1>3. ASSUME pc' # "idle" \/ ret'.call # "bread" \/ ret'.val = -1 PROVE ReadsRight'
  BY <1>3 DEF ReadsRight
<1>4. CASE ufs_mount \/ ufs_open \/ ReadRoot \/ Component \/ OpenDone \/ RunEnds \/ BlockIn \/ search_dir
           \/ Descended \/ Link \/ FollowLink \/ BreadFaults \/ ufs_close
  <2>1. pc' # "idle" \/ ret'.call # "bread"
    BY <1>4 DEF ufs_mount, ufs_open, ReadRoot, Component, OpenDone, RunEnds, BlockIn, search_dir, Descended, Link,
      FollowLink, BreadFaults, ufs_close, Return
  <2> QED BY <1>3, <2>1
<1>5. CASE StartRun \/ ExtendRun \/ block_map
  <2>1. pc' # "idle"
    BY <1>5 DEF StartRun, ExtendRun, block_map, MapStart, Descend
  <2> QED BY <1>3, <2>1
<1>6. CASE ufs_bread \/ SearchBlock \/ Transfer
  <2>1. pc' # "idle" \/ ret'.call # "bread" \/ ret'.val = -1
    <3>1. CASE ufs_bread
      BY <3>1, Zenon DEF ufs_bread, breadi
    <3>2. CASE SearchBlock
      BY <3>2 DEF SearchBlock, breadi, Return
    <3>3. CASE Transfer
      BY <3>3 DEF Transfer, Arrives, BreadFails, Return
    <3> QED BY <1>6, <3>1, <3>2, <3>3
  <2> QED BY <1>3, <2>1
<1> QED BY <1>1, <1>2, <1>4, <1>5, <1>6 DEF Next, Step

IInv == Types /\ CacheInv /\ MapInv /\ RunInv /\ SizedInv

LEMMA InitIInv == Init => IInv /\ ReadsRight
<1> SUFFICES ASSUME Init PROVE IInv /\ ReadsRight
  OBVIOUS
<1>1. Types
  BY InitTypes
<1>2. CacheInv
  <2>1. \A l \in Levels : f_blk[l] = Empty /\ f_blkno[l] = 0
    BY DEF Init
  <2>2. 0 \notin DOMAIN vol.ind
    BY Volume DEF Init
  <2> QED BY <2>1, <2>2 DEF CacheInv, Holds
<1>3. pc = "idle" /\ ret.call = "none"
  BY DEF Init
<1> QED BY <1>1, <1>2, <1>3 DEF IInv, MapInv, RunInv, SizedInv, Busied, InRun, ReadsRight

LEMMA NextIInv == IInv /\ [Next]_vars => IInv'
BY NextTypes, NextCache, NextMap, NextRun, NextSized, Zenon DEF IInv

(* What ufs_bread returns when no read has failed since the file was opened *)
(* are the blocks asked for, as the inode's tree lays them out: runs, holes,*)
(* the cut last block, and indirect blocks kept from earlier calls, for     *)
(* every sound volume and sequence of calls.                                *)
THEOREM ReadsRightInvariance == Spec => []ReadsRight
<1>1. Init => IInv /\ ReadsRight
  BY InitIInv
<1>2. IInv /\ ReadsRight /\ [Next]_vars => IInv' /\ ReadsRight'
  BY NextIInv, NextReads DEF IInv
<1> QED BY <1>1, <1>2, PTL DEF Spec
-----------------------------------------------------------------------------
(* search_dir *)

ScanRun == Busied /\ g.back = "scan"
Opening == Looking \/ ScanRun
Searching == pc \in {"search", "scan"} \/ ScanRun
Block == offset \div BlockUnits

(* A directory is read a block at a time, as far as it goes. *)
ScanInv ==
  /\ offset = Block * BlockUnits
  /\ pc = "scan" \/ ScanRun => Block \in Blocks(ic)
  /\ ScanRun => g.from = Block /\ g.count = 1 /\ blockoffset = 0
  /\ ScanRun /\ (pc # "run" \/ g.nblks = 1) => g.data = << >>
  /\ ScanRun /\ pc \in {"map", "mapped"} => Fresh /\ g.frags = 0 /\ g.blkno = Block
  /\ ScanRun /\ pc = "transfer" =>
       /\ g.nblks = 0 /\ g.frags = FragsOf(ic, Block)
       /\ \/ g.first = AddressOf(vol, ic, Block) /\ g.first \in Data
          \/ g.first \in {0, -1} /\ (bad \/ ~Covered(Block))

(* The buffer holds entries of the directory searched and no others. *)
OfDirectory(e) == e = Junk \/ \E b \in Blocks(ic) : \E u \in Units(ic, b) : e = EntryAt(vol, ic, b, u)
BufInv ==
  /\ Opening => \A u \in 0 .. BlockUnits - 1 : OfDirectory(f_buf[u])
  /\ (pc = "scan" \/ (ScanRun /\ pc = "run" /\ g.nblks = 0)) /\ ~bad /\ Covered(Block) =>
       \A u \in Units(ic, Block) : f_buf[u] = EntryAt(vol, ic, Block, u)

(* History: what went wrong since the call began. *)
Seens == [root : BOOLEAN, link : BOOLEAN, past : BOOLEAN, failed : BOOLEAN, sized : BOOLEAN]
HistInv ==
  /\ seen \in Seens /\ bad \in BOOLEAN
  /\ bad => seen.failed
  /\ seen.root => seen.failed
  /\ Opening /\ seen.sized => f_nindir = Reach

(* The path behind the component looked for, and the one before. *)
Done(k) == SubSeq(ret.path, 1, k)
Gone == Len(ret.path) - Len(path)

(* The inode in hand is the one the components gone through name. *)
PathFacts ==
  /\ pc # "relink"
  /\ ret.call = "open" /\ ret.path \in vol.want
  /\ Gone >= 0 /\ path = SubSeq(ret.path, Gone + 1, Len(ret.path))
  /\ pc = "root" => Gone = 0 /\ inumber = ROOTINO
  /\ pc = "next" => Done(Gone + 1) \in DOMAIN vol.where /\ inumber = vol.where[Done(Gone + 1)]
  /\ pc \notin {"root", "next"} => Done(Gone) \in DOMAIN vol.where /\ ic = vol.inode[vol.where[Done(Gone)]]
  /\ Searching => ic.mode = "dir"

PathInv == Opening /\ ~seen.link /\ ~seen.root => PathFacts

Sought ==
  /\ ret.path \in DOMAIN vol.where
  /\ ~seen.link /\ ~seen.failed /\ (seen.sized \/ ret.path \notin vol.deep)

(* The entry looked for is ahead, and the search steps from entry to entry. *)
AtEntry == blockoffset \in Units(ic, Block) /\ EntryAt(vol, ic, Block, blockoffset) # Junk
Ahead(b, u) ==
  /\ EntryAt(vol, ic, b, u).ino # 0 /\ EntryAt(vol, ic, b, u).name = Head(path)
  /\ seen.sized \/ b < NDADDR
  /\ Block <= b
  /\ pc = "scan" => \/ Block < b /\ (blockoffset = BlockUnits \/ AtEntry)
                    \/ Block = b /\ blockoffset <= u /\ AtEntry
FindInv ==
  Opening /\ Sought =>
    /\ ~seen.past
    /\ Searching => \E b \in Blocks(ic) : \E u \in Units(ic, b) : Ahead(b, u)

(* Steps of breadi keep the caller; the other steps of an open. *)
LEMMA RunStepBack ==
  ASSUME Types, StartRun \/ ExtendRun \/ RunEnds \/ block_map \/ Transfer
  PROVE  g'.back = g.back /\ Busied /\ UNCHANGED << vol, ic, f_nindir, search, mounted >>
<1>0. g \in Runs
  BY DEF Types, RunTypes
<1>1. CASE StartRun \/ ExtendRun \/ RunEnds \/ block_map
  BY <1>0, <1>1 DEF StartRun, ExtendRun, RunEnds, block_map, Extended, Runs, Busied, InRun, file
<1>2. CASE Transfer
  <2>1. pc = "transfer" /\ UNCHANGED << vol, ic, f_nindir, search, mounted >>
    BY <1>2, Zenon DEF Transfer
  <2>2. ASSUME NEW data, Arrives(data) PROVE g'.back = g.back
    BY <1>0, <2>2 DEF Arrives, Runs
  <2>3. g'.back = g.back
    BY <1>2, <2>2 DEF Transfer
  <2> QED BY <2>1, <2>3 DEF Busied, InRun
<1> QED BY <1>1, <1>2

LEMMA NotOpening ==
  ASSUME ufs_mount \/ OpenDone \/ ufs_bread \/ BreadDone \/ BreadFaults \/ ufs_close
  PROVE  ~Opening'
<1>1. CASE ufs_bread
  <2>1. pc' = "run" /\ g'.back = "bread"
    <3>1. PICK b, n : breadi("bread", b, n)
      BY <1>1, Zenon DEF ufs_bread
    <3> QED BY <3>1 DEF breadi, NoRun
  <2> QED BY <2>1 DEF Opening, Looking, ScanRun
<1>2. CASE ufs_mount \/ OpenDone \/ BreadDone \/ BreadFaults \/ ufs_close
  <2>1. pc' \in {"idle", "fault"}
    BY <1>2 DEF ufs_mount, OpenDone, BreadDone, BreadFaults, ufs_close, Return
  <2> QED BY <2>1 DEF Opening, Looking, ScanRun, Busied, InRun
<1> QED BY <1>1, <1>2

(* An open goes on with what it has, but for ufs_open itself. *)
LEMMA StaysOpening ==
  ASSUME Types, [Next]_vars, Opening', ~ufs_open
  PROVE  Opening /\ UNCHANGED << vol, f_nindir >>
<1> USE DEF file, search, counts
<1>1. CASE ufs_mount \/ OpenDone \/ ufs_bread \/ BreadDone \/ BreadFaults \/ ufs_close
  BY <1>1, NotOpening
<1>2. CASE StartRun \/ ExtendRun \/ RunEnds \/ block_map \/ Transfer
  <2>1. g'.back = g.back /\ Busied /\ UNCHANGED << vol, f_nindir >>
    BY <1>2, RunStepBack, Zenon
  <2>2. pc' \notin {"root", "component", "search", "scan", "next", "link", "relink"}
    BY <1>2 DEF StartRun, ExtendRun, RunEnds, block_map, Transfer, MapStart, Descend, Arrives, BreadFails, Return
  <2>3. g'.back = "scan"
    BY <2>2 DEF Opening, Looking, ScanRun
  <2> QED BY <2>1, <2>3 DEF Opening, ScanRun
<1>3. CASE ReadRoot \/ Component \/ SearchBlock \/ search_dir \/ Descended \/ Link \/ FollowLink
  <2>1. Looking
    BY <1>3 DEF ReadRoot, Component, SearchBlock, search_dir, Descended, Link, FollowLink, Looking
  <2>2. UNCHANGED << vol, f_nindir >>
    BY <1>3, Zenon DEF ReadRoot, Component, SearchBlock, search_dir, Descended, Link, FollowLink
  <2> QED BY <2>1, <2>2 DEF Opening
<1>4. CASE BlockIn
  BY <1>4 DEF BlockIn, Opening, ScanRun, Busied
<1>5. CASE UNCHANGED vars
  BY <1>5 DEF vars, Opening, Looking, ScanRun, Busied, InRun
<1> QED BY <1>1, <1>2, <1>3, <1>4, <1>5 DEF Next, Step

(* What a step makes of the history. *)
SeenKept == seen' = seen /\ bad' = bad
SeenPast(b) == seen' = [seen EXCEPT !.past = b] /\ bad' = bad
SeenLink == seen' = [seen EXCEPT !.link = TRUE] /\ bad' = bad
SeenFails == seen' = [seen EXCEPT !.failed = TRUE, !.root = @ \/ pc = "root"] /\ bad' = TRUE

LEMMA SeenSteps ==
  ASSUME [Next]_vars
  PROVE  \/ SeenKept
         \/ SeenFails
         \/ search_dir /\ SeenPast(seen.past \/ f_buf[blockoffset].reclen <= 0)
         \/ Link /\ SeenLink
         \/ ufs_open
<1>1. CASE ufs_mount \/ ReadRoot \/ Transfer \/ Descended \/ FollowLink
  BY <1>1, Zenon DEF ufs_mount, ReadRoot, Transfer, Descended, FollowLink, ReadOk, ReadFails,
       SeenKept, SeenFails
<1>2. CASE block_map
  BY <1>2, Zenon DEF block_map, ReadOk, ReadFails, SeenKept, SeenFails
<1>3. CASE Component \/ OpenDone \/ StartRun \/ ExtendRun \/ RunEnds \/ BreadDone \/ SearchBlock
           \/ BlockIn \/ ufs_bread \/ BreadFaults \/ ufs_close
  BY <1>3, Zenon DEF Component, OpenDone, StartRun, ExtendRun, RunEnds, BreadDone, SearchBlock, BlockIn,
       ufs_bread, BreadFaults, ufs_close, SeenKept
<1>4. CASE search_dir
  BY <1>4, Zenon DEF search_dir, SeenKept, SeenPast
<1>5. CASE Link
  BY <1>5, Zenon DEF Link, SeenLink
<1>6. CASE UNCHANGED vars
  BY <1>6, Zenon DEF vars, SeenKept
<1> QED BY <1>1, <1>2, <1>3, <1>4, <1>5, <1>6, Zenon DEF Next, Step

LEMMA SeenFields ==
  ASSUME seen \in Seens
  PROVE  /\ SeenFails => /\ seen' \in Seens /\ seen'.failed /\ seen'.link = seen.link
                         /\ seen'.past = seen.past /\ seen'.sized = seen.sized
                         /\ (seen.root => seen'.root)
                         /\ (pc = "root" => seen'.root)
         /\ \A b \in BOOLEAN : SeenPast(b) =>
              /\ seen' \in Seens /\ seen'.failed = seen.failed /\ seen'.link = seen.link
              /\ seen'.past = b /\ seen'.sized = seen.sized /\ seen'.root = seen.root
         /\ SeenLink => /\ seen' \in Seens /\ seen'.failed = seen.failed /\ seen'.link
                        /\ seen'.past = seen.past /\ seen'.sized = seen.sized /\ seen'.root = seen.root
<1>1. SeenFails => seen' \in Seens /\ seen'.failed /\ (seen.root => seen'.root) /\ (pc = "root" => seen'.root)
  BY DEF Seens, SeenFails
<1>2. SeenFails => seen'.link = seen.link /\ seen'.past = seen.past /\ seen'.sized = seen.sized
  BY DEF Seens, SeenFails
<1>3. \A b \in BOOLEAN : SeenPast(b) =>
              /\ seen' \in Seens /\ seen'.failed = seen.failed /\ seen'.link = seen.link
              /\ seen'.past = b /\ seen'.sized = seen.sized /\ seen'.root = seen.root
  BY DEF Seens, SeenPast
<1>4. SeenLink => /\ seen' \in Seens /\ seen'.failed = seen.failed /\ seen'.link
                  /\ seen'.past = seen.past /\ seen'.sized = seen.sized /\ seen'.root = seen.root
  BY DEF Seens, SeenLink
<1> QED BY <1>1, <1>2, <1>3, <1>4, Zenon

LEMMA NextHist == Types /\ HistInv /\ [Next]_vars => HistInv'
<1> SUFFICES ASSUME Types, HistInv, [Next]_vars PROVE HistInv'
  OBVIOUS
<1>1. CASE ufs_open
  <2>1. seen' = [Clear EXCEPT !.sized = (f_nindir[0] # 0)] /\ bad' = FALSE /\ f_nindir' = f_nindir
    BY <1>1, Zenon DEF ufs_open
  <2>2. seen' \in Seens /\ ~seen'.root /\ (seen'.sized => f_nindir[0] # 0)
    BY <2>1 DEF Seens, Clear
  <2>3. f_nindir[0] # 0 => f_nindir = Reach
    BY Reaches DEF Types, FileTypes
  <2> QED BY <2>1, <2>2, <2>3, Zenon DEF HistInv, Reach
<1>2. CASE ~ufs_open
  <2>0. seen \in Seens /\ bad \in BOOLEAN
    BY DEF HistInv
  <2>1. Opening' => Opening /\ UNCHANGED f_nindir
    BY <1>2, StaysOpening, Zenon
  <2>2. ASSUME seen' \in Seens, bad' = TRUE \/ bad' = bad, bad' \/ seen.failed \/ seen'.root => seen'.failed,
               seen'.sized = seen.sized
        PROVE  HistInv'
    <3>1. Opening' /\ seen'.sized => f_nindir' = Reach
      BY <2>1, <2>2, Zenon DEF HistInv
    <3>2. Reach' = Reach
      BY Zenon DEF Reach
    <3> QED BY <2>0, <2>2, <3>1, <3>2, Zenon DEF HistInv
  <2>3. CASE SeenKept
    BY <2>0, <2>2, <2>3, Zenon DEF SeenKept, HistInv
  <2>4. CASE SeenFails
    <3>1. seen' \in Seens /\ seen'.failed /\ seen'.sized = seen.sized
      BY <2>0, <2>4, SeenFields, Zenon
    <3> QED BY <2>2, <2>4, <3>1, Zenon DEF SeenFails
  <2>5. CASE SeenPast(seen.past \/ f_buf[blockoffset].reclen <= 0)
    <3>1. (seen.past \/ f_buf[blockoffset].reclen <= 0) \in BOOLEAN
      OBVIOUS
    <3>2. seen' \in Seens /\ seen'.failed = seen.failed /\ seen'.sized = seen.sized /\ seen'.root = seen.root
      BY <2>0, <2>5, <3>1, SeenFields, Zenon
    <3> QED BY <2>2, <2>5, <3>2, Zenon DEF SeenPast, HistInv
  <2>6. CASE SeenLink
    <3>1. seen' \in Seens /\ seen'.failed = seen.failed /\ seen'.sized = seen.sized /\ seen'.root = seen.root
      BY <2>0, <2>6, SeenFields, Zenon
    <3> QED BY <2>2, <2>6, <3>1, Zenon DEF SeenLink, HistInv
  <2> QED BY <1>2, <2>3, <2>4, <2>5, <2>6, SeenSteps, Zenon
<1> QED BY <1>1, <1>2

LEMMA BlockStep ==
  ASSUME NEW n \in Nat, NEW o \in Nat, o = n * BlockUnits
  PROVE  o \div BlockUnits = n /\ (o + BlockUnits) \div BlockUnits = n + 1
         /\ o + BlockUnits = (n + 1) * BlockUnits
<1>1. ASSUME NEW d \in Nat \ {0}, NEW a \in Nat PROVE (a * d) \div d = a
  OBVIOUS
<1>2. (n + 1) * BlockUnits = o + BlockUnits /\ n + 1 \in Nat
  BY Sizes
<1> QED BY <1>1, <1>2, Sizes

LEMMA BlockWithin ==
  ASSUME NEW o \in Nat, NEW s \in Nat, o < s
  PROVE  o \div BlockUnits \in 0 .. (s - 1) \div BlockUnits
<1>1. ASSUME NEW d \in Nat \ {0}, NEW a \in Nat, NEW b \in Nat, a <= b PROVE a \div d <= b \div d /\ a \div d \in Nat /\ b \div d \in Nat
  BY <1>1
<1>2. s - 1 \in Nat /\ o <= s - 1
  OBVIOUS
<1> QED BY <1>1, <1>2, Sizes

(* The fields of a run that brings a block of a directory. *)
LEMMA ScanFields ==
  ASSUME Types, ScanInv, ScanRun
  PROVE  /\ g \in Runs /\ g.from = Block /\ Block \in Nat /\ g.nblks \in {0, 1}
         /\ g.nblks = 1 => g.blkno = Block
         /\ g.nblks = 0 => g.blkno = Block + 1
<1>1. g \in Runs /\ g.from = Block /\ g.count = 1 /\ g.from <= g.blkno /\ g.blkno + g.nblks = g.from + g.count
  BY DEF Types, RunTypes, ScanInv
<1>2. g.from \in Nat /\ g.blkno \in Nat /\ g.nblks \in Nat
  BY <1>1, RunFields
<1> HIDE DEF Block
<1> QED BY <1>1, <1>2

LEMMA NextScan == Types /\ MapInv /\ ScanInv /\ [Next]_vars => ScanInv'
<1> SUFFICES ASSUME Types, MapInv, ScanInv, [Next]_vars PROVE ScanInv'
  OBVIOUS
<1> USE DEF file, search, counts
<1>0. g \in Runs /\ offset \in Nat /\ Block \in Nat /\ ic.size \in Nat /\ offset = Block * BlockUnits
  <2>1. InodeSound(vol, ic)
    BY Volume DEF Types, FileTypes
  <2>2. ic.size \in Nat /\ offset \in Nat /\ g \in Runs
    BY <2>1 DEF InodeSound, Types, SearchTypes, RunTypes
  <2>3. Block \in Nat
    BY <2>2, Sizes DEF Block
  <2> QED BY <2>2, <2>3 DEF ScanInv
<1>1. offset' = offset => Block' = Block
  BY DEF Block
<1>2. offset' = Block' * BlockUnits
  <2>1. CASE offset' = offset
    BY <1>0, <1>1, <2>1
  <2>2. CASE offset' = 0
    <3>1. Block' = 0
      BY <2>2, Sizes DEF Block
    <3> QED BY <2>2, <3>1, Sizes
  <2>3. CASE offset' = offset + BlockUnits
    BY <1>0, <2>3, BlockStep DEF Block
  <2>4. offset' = offset \/ offset' = 0 \/ offset' = offset + BlockUnits
    BY Zenon DEF Next, Step, ufs_mount, ufs_open, ReadRoot, Component, OpenDone, block_map, StartRun, ExtendRun,
      RunEnds, Transfer, BreadDone, SearchBlock, BlockIn, search_dir, Descended, Link, FollowLink,
      ufs_bread, BreadFaults, ufs_close, vars
  <2> QED BY <2>1, <2>2, <2>3, <2>4
<1>3. ASSUME pc' # "scan", ~ScanRun' PROVE ScanInv'
  BY <1>2, <1>3 DEF ScanInv
<1>4. CASE ufs_mount \/ ufs_open \/ ReadRoot \/ Component \/ OpenDone \/ BreadDone \/ Descended \/ Link
           \/ FollowLink \/ BreadFaults \/ ufs_close
  <2>1. pc' \notin {"scan", "run", "map", "mapped", "transfer"}
    BY <1>4 DEF ufs_mount, ufs_open, ReadRoot, Component, OpenDone, BreadDone,
         Descended, Link, FollowLink, BreadFaults, ufs_close, Return
  <2> QED BY <1>3, <2>1 DEF ScanRun, Busied, InRun
<1>5. CASE ufs_bread
  <2>1. ~Opening' /\ pc' = "run"
    BY <1>5, NotOpening, Zenon DEF ufs_bread, breadi
  <2> QED BY <1>3, <2>1 DEF Opening
<1>6. CASE SearchBlock
  <2>1. CASE pc' = "idle"
    BY <1>3, <2>1 DEF ScanRun, Busied, InRun
  <2>2. CASE ~(offset >= ic.size) /\ breadi("scan", Block, 1)
    <3>1. UNCHANGED << offset, ic >>
      BY <1>6, Zenon DEF SearchBlock
    <3>2. Block \in Blocks(ic)
      BY <1>0, <2>2, BlockWithin DEF Blocks, Block
    <3>3. Block' = Block /\ Blocks(ic)' = Blocks(ic)
      BY <1>1, <3>1 DEF Blocks
    <3>4. pc' = "run" /\ g'.from = Block /\ g'.count = 1 /\ g'.data = << >>
      BY <2>2 DEF breadi, NoRun
    <3>5. blockoffset' = 0
      BY <1>6, Zenon DEF SearchBlock
    <3> HIDE DEF Block
    <3> QED BY <1>2, <3>2, <3>3, <3>4, <3>5 DEF ScanInv, InRun
  <2> QED BY <1>6, <2>1, <2>2 DEF SearchBlock, Return, Block
<1>7. ASSUME StartRun \/ ExtendRun \/ RunEnds \/ block_map \/ Transfer, ScanRun PROVE ScanInv'
  <2>1. /\ g'.back = g.back /\ UNCHANGED << vol, ic, f_nindir, offset, blockoffset >> /\ Busied
    BY <1>7, RunStepBack, Zenon
  <2>2. Block' = Block /\ Blocks(ic)' = Blocks(ic) /\ Block \in Blocks(ic) /\ blockoffset' = 0
    BY <1>1, <1>7, <2>1 DEF Blocks, ScanInv
  <2>3. /\ g.from = Block /\ g.nblks \in {0, 1} /\ g.count = 1
        /\ g.nblks = 1 => g.blkno = Block
        /\ g.nblks = 0 => g.blkno = Block + 1
    BY <1>7, ScanFields DEF ScanInv
  <2> HIDE DEF Block
  <2>4. CASE StartRun
    <3>1. pc = "run" /\ g.nblks = 1 /\ g' = [g EXCEPT !.start = g.blkno, !.frags = 0] /\ MapStart(g.blkno)
      BY <2>3, <2>4 DEF StartRun
    <3>2. g'.from = Block /\ g'.count = 1 /\ g'.data = << >> /\ g'.frags = 0 /\ g'.blkno = Block /\ g'.start = g'.blkno
      BY <1>0, <1>7, <2>3, <3>1 DEF Runs, ScanInv
    <3>3. pc' \in {"map", "mapped"}
      BY <3>1 DEF MapStart
    <3> QED BY <1>2, <2>2, <3>2, <3>3 DEF ScanInv, Fresh
  <2>5. CASE ExtendRun
    <3>1. pc = "mapped" /\ g' = Extended /\ Fresh /\ g.nblks = 1 /\ g.frags = 0 /\ g.data = << >> /\ g.blkno = Block
      BY <1>7, <2>3, <2>5 DEF ExtendRun, Types, RunTypes, ScanInv
    <3>2. pc' = "transfer" /\ UNCHANGED bad
      BY <2>5, <3>1 DEF ExtendRun
    <3>3. g'.first = m.num /\ g'.from = Block /\ g'.count = 1 /\ g'.data = << >> /\ g'.nblks = 0
          /\ g'.frags = 0 + FragsOf(ic, Block)
      BY <1>0, <2>3, <3>1 DEF Extended, Runs
    <3>4. 0 + FragsOf(ic, Block) = FragsOf(ic, Block)
      BY <1>0, FragsOfBlock
    <3>5. \/ m.num = AddressOf(vol, ic, Block) /\ m.num \in Data
          \/ m.num \in {0, -1} /\ (bad \/ ~Covered(Block))
      BY <3>1 DEF MapInv
    <3>6. FragsOf(ic, Block)' = FragsOf(ic, Block) /\ AddressOf(vol, ic, Block)' = AddressOf(vol, ic, Block)
          /\ Covered(Block)' = Covered(Block)
      BY <2>1, <2>2 DEF FragsOf, AddressOf, Pointer, Two, Three, Covered
    <3> QED BY <1>2, <2>2, <3>2, <3>3, <3>4, <3>5, <3>6 DEF ScanInv
  <2>6. CASE RunEnds
    BY <1>7, <2>6 DEF RunEnds, Extends, ScanInv
  <2>7. CASE block_map
    <3>1. pc = "map" /\ UNCHANGED g
      BY <2>7, Zenon DEF block_map
    <3>2. pc' \in {"map", "mapped"}
      BY <2>7 DEF block_map, Descend
    <3>3. Fresh /\ g.frags = 0 /\ g.blkno = Block /\ g.data = << >> /\ g.from = Block /\ g.count = 1
      BY <1>7, <2>3, <3>1 DEF ScanInv
    <3>4. Fresh'
      BY <3>1, <3>3 DEF Fresh
    <3> QED BY <1>2, <2>2, <3>1, <3>2, <3>3, <3>4 DEF ScanInv
  <2>8. CASE Transfer
    <3>1. pc = "transfer" /\ g.nblks = 0
      BY <1>7, <2>8 DEF Transfer, ScanInv
    <3>2. CASE pc' = "idle"
      BY <1>3, <3>2 DEF ScanRun, Busied, InRun
    <3>3. ASSUME NEW data, Arrives(data) PROVE ScanInv'
      <4>1. pc' = "run" /\ g'.nblks = 0 /\ g'.from = Block /\ g'.count = 1
        BY <1>0, <2>3, <3>1, <3>3 DEF Arrives, Runs
      <4> QED BY <1>2, <2>2, <4>1 DEF ScanInv
    <3> QED BY <2>8, <3>2, <3>3 DEF Transfer, BreadFails, Return
  <2> QED BY <1>7, <2>4, <2>5, <2>6, <2>7, <2>8
<1>8. ASSUME StartRun \/ ExtendRun \/ RunEnds \/ block_map \/ Transfer, ~ScanRun PROVE ScanInv'
  <2>1. g'.back = g.back /\ Busied
    BY <1>8, RunStepBack, Zenon
  <2>2. pc' # "scan"
    BY <1>8 DEF StartRun, ExtendRun, RunEnds, block_map, Transfer, MapStart, Descend, Arrives, BreadFails, Return
  <2> QED BY <1>3, <1>8, <2>1, <2>2 DEF ScanRun
<1>9. ASSUME pc' \in {"scan", "search", "next"}, UNCHANGED << ic, g >>, pc' = "scan" => offset' = offset /\ (pc = "scan" \/ ScanRun)
      PROVE  ScanInv'
  <2>1. ~ScanRun'
    BY <1>9 DEF ScanRun, Busied, InRun
  <2>2. pc' = "scan" => (Block \in Blocks(ic))'
    BY <1>1, <1>9 DEF ScanInv, Blocks
  <2> QED BY <1>2, <2>1, <2>2 DEF ScanInv
<1>10. CASE BlockIn \/ search_dir
  <2>0. UNCHANGED << ic, g >>
    BY <1>10, Zenon DEF BlockIn, search_dir
  <2>1. pc' \in {"scan", "search", "next"}
    BY <1>10 DEF BlockIn, search_dir
  <2>2. pc' = "scan" => offset' = offset /\ (pc = "scan" \/ ScanRun)
    BY <1>10 DEF BlockIn, search_dir, ScanRun, Busied
  <2> QED BY <1>9, <2>0, <2>1, <2>2
<1>11. CASE UNCHANGED vars
  <2>1. Block' = Block /\ (ScanRun' <=> ScanRun)
    BY <1>11 DEF vars, Block, ScanRun, Busied, InRun
  <2> HIDE DEF Block
  <2>2. UNCHANGED << Blocks(ic), FragsOf(ic, Block), AddressOf(vol, ic, Block), Covered(Block), Fresh, pc, g, bad, blockoffset >>
    BY <1>11, <2>1 DEF vars, Blocks, FragsOf, AddressOf, Pointer, Two, Three, Covered, Fresh
  <2> QED BY <1>2, <2>1, <2>2 DEF ScanInv
<1> QED BY <1>4, <1>5, <1>6, <1>7, <1>8, <1>10, <1>11 DEF Next, Step

LEMMA UnitsOfBlock ==
  ASSUME NEW b \in Nat, ic.size \in Nat
  PROVE  /\ Units(ic, b) \subseteq 0 .. BlockUnits - 1
         /\ FragsOf(ic, b) \in Nat
         /\ \A u \in Nat : u < FragUnits * FragsOf(ic, b) <=> u \in Units(ic, b)
         /\ \A u \in Units(ic, b) : u \div FragUnits \in 0 .. FragsOf(ic, b) - 1 /\ u % FragUnits \in 0 .. FragUnits - 1
<1> DEFINE n == FragsOf(ic, b)
<1>1. n \in Nat /\ n <= Frags
  BY FragsOfBlock, Sizes
<1> HIDE DEF n
<1>2. FragUnits * n = n * FragUnits /\ n * FragUnits \in Nat
  BY <1>1, Sizes
<1>3. n * FragUnits <= BlockUnits
  BY <1>1, Sizes DEF BlockUnits
<1>4. Units(ic, b) = 0 .. n * FragUnits - 1
  BY DEF Units, n
<1>5. Units(ic, b) \subseteq 0 .. BlockUnits - 1
  BY <1>2, <1>3, <1>4, Sizes
<1>6. \A u \in Nat : u < FragUnits * n <=> u \in Units(ic, b)
  BY <1>2, <1>4
<1>7. ASSUME NEW u \in Units(ic, b) PROVE u \div FragUnits \in 0 .. n - 1 /\ u % FragUnits \in 0 .. FragUnits - 1
  <2>1. u \in Nat /\ u < n * FragUnits
    BY <1>2, <1>4
  <2>2. ASSUME NEW x \in Nat, NEW d \in Nat \ {0}, NEW k \in Nat, x < k * d PROVE x \div d \in 0 .. k - 1 /\ x % d \in 0 .. d - 1
    BY <2>2
  <2> QED BY <1>1, <2>1, <2>2, Sizes
<1> QED BY <1>1, <1>5, <1>6, <1>7 DEF n

(* What a transfer brings of a directory. *)
LEMMA ScanArrives ==
  ASSUME Types, ScanInv, ScanRun, pc = "transfer", NEW data, IntoBuffer(data),
         \/ g.first = 0 /\ data = Hole
         \/ g.first # 0 /\ data = FromDisk
  PROVE  /\ \A u \in 0 .. BlockUnits - 1 :
              \/ f_buf'[u] = f_buf[u]
              \/ f_buf'[u] = Junk
              \/ u \in Units(ic, Block) /\ f_buf'[u] = EntryAt(vol, ic, Block, u)
         /\ ~bad /\ Covered(Block) => \A u \in Units(ic, Block) : f_buf'[u] = EntryAt(vol, ic, Block, u)
<1> DEFINE n == FragsOf(ic, Block)
<1>0. /\ g \in Runs /\ Block \in Nat /\ g.frags = n /\ g.first \in Int
      /\ \/ g.first = AddressOf(vol, ic, Block) /\ g.first \in Data
         \/ g.first \in {0, -1} /\ (bad \/ ~Covered(Block))
  BY ScanFields, RunFields DEF ScanInv
<1>1. vol \in Vols /\ ic.size \in Nat /\ DOMAIN f_buf = 0 .. BlockUnits - 1
  <2>1. InodeSound(vol, ic)
    BY Volume DEF Types, FileTypes
  <2> QED BY <2>1 DEF InodeSound, Types, FileTypes
<1> HIDE DEF Block
<1>2. /\ Units(ic, Block) \subseteq 0 .. BlockUnits - 1 /\ n \in Nat
      /\ \A u \in Nat : u < FragUnits * n <=> u \in Units(ic, Block)
      /\ \A u \in Units(ic, Block) : u \div FragUnits \in 0 .. n - 1 /\ u % FragUnits \in 0 .. FragUnits - 1
  BY <1>0, <1>1, UnitsOfBlock
<1> HIDE DEF n
<1>3. Len(data) = n /\ \A j \in 0 .. n - 1 : data[j + 1] = IF g.first = 0 THEN 0 ELSE IF g.first = -1 THEN -1
                                                           ELSE g.first + j
  <2>1. CASE g.first = 0 /\ data = Hole
    BY <1>0, <1>2, <2>1 DEF Hole
  <2>2. CASE g.first # 0 /\ data = FromDisk
    <3>1. data = [i \in 1 .. n |-> IF g.first = -1 THEN -1 ELSE g.first + i - 1]
      BY <1>0, <2>2 DEF FromDisk
    <3>2. ASSUME NEW j \in 0 .. n - 1 PROVE data[j + 1] = IF g.first = -1 THEN -1 ELSE g.first + j
      BY <1>0, <1>2, <3>1
    <3>3. Len(data) = n
      BY <1>2, <3>1
    <3> QED BY <2>2, <3>2, <3>3
  <2> QED BY <2>1, <2>2
<1>4. 0 \notin DOMAIN vol.cell /\ -1 \notin DOMAIN vol.cell
  BY <1>1, Volume
<1>5. ASSUME NEW u \in 0 .. BlockUnits - 1
      PROVE  /\ u \notin Units(ic, Block) => f_buf'[u] = f_buf[u]
             /\ u \in Units(ic, Block) => f_buf'[u] = Cell(vol, data[(u \div FragUnits) + 1], u % FragUnits)
  <2>1. f_buf'[u] = IF u < FragUnits * n THEN Cell(vol, data[(u \div FragUnits) + 1], u % FragUnits) ELSE f_buf[u]
    BY <1>1, <1>3 DEF IntoBuffer, ScanRun
  <2>2. u \in Nat
    BY Sizes
  <2> QED BY <1>2, <2>1, <2>2
<1>6. ASSUME NEW u \in Units(ic, Block)
      PROVE  /\ g.first \in {0, -1} => f_buf'[u] = Junk
             /\ g.first = AddressOf(vol, ic, Block) /\ g.first \in Data => f_buf'[u] = EntryAt(vol, ic, Block, u)
  <2> DEFINE j == u \div FragUnits
             w == u % FragUnits
  <2>1. j \in 0 .. n - 1 /\ u \in 0 .. BlockUnits - 1
    BY <1>2
  <2>2. f_buf'[u] = Cell(vol, data[j + 1], w)
    BY <1>5, <2>1
  <2>3. EntryAt(vol, ic, Block, u) = IF AddressOf(vol, ic, Block) = 0 THEN Junk
                                     ELSE Cell(vol, AddressOf(vol, ic, Block) + j, w)
    BY DEF EntryAt
  <2> HIDE DEF j, w
  <2>4. data[j + 1] = IF g.first = 0 THEN 0 ELSE IF g.first = -1 THEN -1 ELSE g.first + j
    BY <1>3, <2>1
  <2>5. g.first \in {0, -1} => f_buf'[u] = Junk
    BY <1>4, <2>2, <2>4 DEF Cell
  <2>6. g.first = AddressOf(vol, ic, Block) /\ g.first \in Data => f_buf'[u] = EntryAt(vol, ic, Block, u)
    <3>1. CASE g.first = 0
      BY <2>3, <2>5, <3>1
    <3>2. CASE g.first \in Data /\ g.first # 0
      <4>1. g.first # -1
        BY <3>2, HoleData
      <4> QED BY <2>2, <2>3, <2>4, <3>2, <4>1
    <3> QED BY <3>1, <3>2
  <2> QED BY <2>5, <2>6
<1> QED BY <1>0, <1>2, <1>5, <1>6

(* What a directory lists depends on its inode alone. *)
LEMMA DirFrame ==
  ASSUME UNCHANGED << vol, ic >>
  PROVE  /\ \A e : OfDirectory(e)' = OfDirectory(e)
         /\ \A b, u : EntryAt(vol, ic, b, u)' = EntryAt(vol, ic, b, u)
         /\ \A b : Units(ic, b)' = Units(ic, b)
         /\ Blocks(ic)' = Blocks(ic)
<1>1. ASSUME NEW b, NEW u PROVE EntryAt(vol, ic, b, u)' = EntryAt(vol, ic, b, u)
  BY DEF EntryAt, Cell, AddressOf, Pointer, Two, Three
<1>2. ASSUME NEW b PROVE Units(ic, b)' = Units(ic, b)
  BY DEF Units, FragsOf
<1>3. Blocks(ic)' = Blocks(ic)
  BY DEF Blocks
<1>4. ASSUME NEW e PROVE OfDirectory(e)' = OfDirectory(e)
  BY <1>1, <1>2, <1>3 DEF OfDirectory
<1> QED BY <1>1, <1>2, <1>3, <1>4

LEMMA NextBuf == Types /\ ScanInv /\ BufInv /\ [Next]_vars => BufInv'
<1> SUFFICES ASSUME Types, ScanInv, BufInv, [Next]_vars PROVE BufInv'
  OBVIOUS
<1> USE DEF file, search, counts
<1>0. g \in Runs /\ DOMAIN f_buf = 0 .. BlockUnits - 1
  BY DEF Types, FileTypes, RunTypes
<1>1. ASSUME ~Opening' PROVE BufInv'
  BY <1>1 DEF BufInv, Opening, Looking
<1>2. ASSUME f_buf' = JunkBuf, pc' \notin {"scan", "run"} PROVE BufInv'
  <2>1. \A u \in 0 .. BlockUnits - 1 : f_buf'[u] = Junk
    BY <1>2 DEF JunkBuf
  <2> QED BY <1>2, <2>1 DEF BufInv, OfDirectory
<1>3. ASSUME UNCHANGED << vol, ic, f_buf >>, Opening, pc' \notin {"scan", "run"} PROVE BufInv'
  BY <1>3, DirFrame DEF BufInv
<1>4. CASE ufs_mount \/ OpenDone \/ ufs_bread \/ BreadDone \/ BreadFaults \/ ufs_close
  BY <1>1, <1>4, NotOpening
<1>5. CASE ufs_open
  <2>1. f_buf' = JunkBuf /\ pc' = "root"
    BY <1>5, Zenon DEF ufs_open
  <2> QED BY <1>2, <2>1
<1>6. CASE ReadRoot \/ Descended \/ FollowLink
  <2>1. CASE pc' = "idle"
    BY <1>1, <2>1 DEF Opening, Looking, ScanRun, Busied, InRun
  <2>2. ASSUME NEW n, read_inode(n), pc' # "idle" PROVE BufInv'
    <3>1. pc' \notin {"scan", "run"}
      BY <1>6, <2>2 DEF ReadRoot, Descended, FollowLink, Return
    <3> QED BY <1>2, <2>2, <3>1 DEF read_inode
  <2>3. CASE UNCHANGED << vol, ic, f_buf >> /\ ReadRoot
    BY <1>3, <2>3 DEF ReadRoot, Opening, Looking
  <2> QED BY <1>6, <2>1, <2>2, <2>3 DEF ReadRoot, Descended, FollowLink, Return
<1>7. CASE Component \/ SearchBlock \/ Link
  <2>1. CASE pc' # "run"
    <3>1. UNCHANGED << vol, ic, f_buf >>
      BY <1>7, Zenon DEF Component, SearchBlock, Link
    <3>2. Opening
      BY <1>7 DEF Component, SearchBlock, Link, Opening, Looking
    <3>3. pc' # "scan"
      BY <1>7 DEF Component, SearchBlock, Link, Return, breadi
    <3> QED BY <1>3, <2>1, <3>1, <3>2, <3>3
  <2>2. CASE pc' = "run"
    <3>1. SearchBlock /\ breadi("scan", Block, 1)
      BY <1>7, <2>2 DEF Component, SearchBlock, Link, Return, Block
    <3>2. UNCHANGED << vol, ic, f_buf >> /\ Opening
      BY <3>1 DEF SearchBlock, Opening, Looking
    <3>3. g'.nblks = 1
      BY <3>1 DEF breadi, NoRun
    <3> QED BY <2>2, <3>2, <3>3, DirFrame DEF BufInv
  <2> QED BY <2>1, <2>2
<1>8. CASE StartRun \/ ExtendRun \/ RunEnds \/ block_map
  <2>1. CASE ~Opening'
    BY <1>1, <2>1
  <2>2. CASE Opening'
    <3>1. Opening
      BY <1>8, <2>2, StaysOpening, Zenon DEF ufs_open, StartRun, ExtendRun, RunEnds, block_map
    <3>2. UNCHANGED << vol, ic, f_buf >>
      BY <1>8, Zenon DEF StartRun, ExtendRun, RunEnds, block_map
    <3>3. pc' \notin {"scan", "run"}
      BY <1>8 DEF StartRun, ExtendRun, RunEnds, block_map, MapStart, Descend
    <3> QED BY <1>3, <3>1, <3>2, <3>3
  <2> QED BY <2>1, <2>2
<1>9. CASE Transfer
  <2>1. CASE ~Opening'
    BY <1>1, <2>1
  <2>2. CASE Opening'
    <3>0. pc = "transfer" /\ UNCHANGED << vol, ic, f_nindir, offset >> /\ g'.back = g.back
      <4>1. UNCHANGED << vol, ic, f_nindir, offset >> /\ g'.back = g.back
        BY <1>9, RunStepBack, Zenon
      <4>2. pc = "transfer"
        BY <1>9, Zenon DEF Transfer
      <4> QED BY <4>1, <4>2
    <3>1. pc' = "run" \/ pc' = "idle"
      BY <1>9 DEF Transfer, Arrives, BreadFails, Return
    <3>2. pc' = "run" /\ ScanRun
      BY <2>2, <3>0, <3>1 DEF Opening, Looking, ScanRun, Busied, InRun
    <3>3. PICK data : /\ IntoBuffer(data)
                      /\ \/ g.first = 0 /\ data = Hole
                         \/ g.first # 0 /\ data = FromDisk
                      /\ ReadOk
      <4>1. ~(pc' = "idle")
        BY <3>2
      <4> QED BY <1>9, <4>1, Zenon DEF Transfer, Arrives, BreadFails, Return
    <3>4. /\ \A u \in 0 .. BlockUnits - 1 :
              \/ f_buf'[u] = f_buf[u]
              \/ f_buf'[u] = Junk
              \/ u \in Units(ic, Block) /\ f_buf'[u] = EntryAt(vol, ic, Block, u)
          /\ ~bad /\ Covered(Block) => \A u \in Units(ic, Block) : f_buf'[u] = EntryAt(vol, ic, Block, u)
      BY <3>0, <3>2, <3>3, ScanArrives
    <3>5. Block \in Blocks(ic) /\ Opening /\ Block' = Block
      BY <3>0, <3>2 DEF ScanInv, Opening, Block
    <3> HIDE DEF Block
    <3>6. \A u \in 0 .. BlockUnits - 1 : OfDirectory(f_buf'[u])
      BY <3>4, <3>5 DEF BufInv, OfDirectory
    <3>7. bad' = bad /\ Covered(Block)' = Covered(Block)
      BY <3>0, <3>3, <3>5 DEF ReadOk, Covered
    <3> QED BY <3>0, <3>4, <3>5, <3>6, <3>7, DirFrame DEF BufInv
  <2> QED BY <2>1, <2>2
<1>10. ASSUME UNCHANGED << vol, ic, f_buf, f_nindir, offset, bad >>, Opening,
              pc' = "scan" \/ (ScanRun' /\ pc' = "run" /\ g'.nblks = 0)
                => pc = "scan" \/ (ScanRun /\ pc = "run" /\ g.nblks = 0)
       PROVE  BufInv'
  <2>1. Block' = Block /\ Covered(Block)' = Covered(Block)
    BY <1>10 DEF Block, Covered
  <2> HIDE DEF Block
  <2> QED BY <1>10, <2>1, DirFrame DEF BufInv
<1>11. CASE BlockIn
  <2>1. UNCHANGED << vol, ic, f_buf, f_nindir, offset, bad >> /\ Opening /\ ScanRun /\ pc = "run" /\ g.nblks = 0
    BY <1>11 DEF BlockIn, Opening, ScanRun, Busied
  <2> QED BY <1>10, <2>1
<1>12. CASE search_dir
  <2>1. pc' = "search" \/ (pc' = "next" /\ UNCHANGED offset) \/ (pc' = pc /\ UNCHANGED offset)
    BY <1>12, Zenon DEF search_dir
  <2>2. pc = "scan" /\ UNCHANGED << vol, ic, f_buf, f_nindir, bad >>
    BY <1>12, Zenon DEF search_dir
  <2>3. Opening
    BY <2>2 DEF Opening, Looking
  <2>4. CASE pc' = "scan"
    BY <1>10, <2>1, <2>2, <2>3, <2>4
  <2>5. CASE pc' # "scan"
    BY <1>3, <2>1, <2>2, <2>3, <2>5
  <2> QED BY <2>4, <2>5
<1>13. CASE UNCHANGED vars
  <2>1. (Opening' <=> Opening) /\ (ScanRun' <=> ScanRun) /\ UNCHANGED << vol, ic, f_buf, f_nindir, offset, bad, pc, g >>
    BY <1>13 DEF vars, Opening, Looking, ScanRun, Busied, InRun
  <2> QED BY <1>1, <1>10, <2>1
<1> QED BY <1>4, <1>5, <1>6, <1>7, <1>8, <1>9, <1>11, <1>12, <1>13 DEF Next, Step
-----------------------------------------------------------------------------
(* ufs_open *)

(* The component at k + 1 and the path behind it. *)
LEMMA Suffix ==
  ASSUME NEW S, NEW p \in Seq(S), NEW k \in Nat, k < Len(p)
  PROVE  /\ SubSeq(p, k + 1, Len(p)) \in Seq(S)
         /\ Len(SubSeq(p, k + 1, Len(p))) = Len(p) - k
         /\ Head(SubSeq(p, k + 1, Len(p))) = p[k + 1]
         /\ Tail(SubSeq(p, k + 1, Len(p))) = SubSeq(p, k + 2, Len(p))
         /\ Len(Tail(SubSeq(p, k + 1, Len(p)))) = Len(p) - (k + 1)
<1> DEFINE s == SubSeq(p, k + 1, Len(p))
           t == SubSeq(p, k + 2, Len(p))
<1>1. Len(p) \in Nat
  OBVIOUS
<1>2. s \in Seq(S) /\ Len(s) = Len(p) - k /\ \A i \in 1 .. Len(p) - k : s[i] = p[k + i]
  BY <1>1
<1>3. t \in Seq(S) /\ Len(t) = Len(p) - k - 1 /\ \A i \in 1 .. Len(p) - k - 1 : t[i] = p[k + 1 + i]
  BY <1>1
<1> HIDE DEF s, t
<1>4. Head(s) = p[k + 1] /\ s # << >>
  BY <1>1, <1>2
<1>5. Tail(s) \in Seq(S) /\ Len(Tail(s)) = Len(s) - 1 /\ \A i \in 1 .. Len(s) - 1 : Tail(s)[i] = s[i + 1]
  BY <1>2, <1>4
<1>6. Tail(s) = t
  <2>1. Len(Tail(s)) = Len(t)
    BY <1>1, <1>2, <1>3, <1>5
  <2>2. ASSUME NEW i \in 1 .. Len(t) PROVE Tail(s)[i] = t[i]
    <3>1. Len(t) = Len(p) - k - 1 /\ Len(s) = Len(p) - k
      BY <1>2, <1>3
    <3>2. /\ i \in 1 .. Len(p) - k - 1 /\ i \in 1 .. Len(s) - 1 /\ i + 1 \in 1 .. Len(p) - k
          /\ k + (i + 1) = k + 1 + i
      BY <1>1, <3>1
    <3>3. t[i] = p[k + 1 + i]
      BY <1>3, <3>2
    <3>4. s[i + 1] = p[k + (i + 1)]
      BY <1>2, <3>2
    <3>5. Tail(s)[i] = s[i + 1]
      BY <1>5, <3>2
    <3> QED BY <3>2, <3>3, <3>4, <3>5
  <2> QED BY <1>3, <1>5, <2>1, <2>2, SeqEqual
<1> QED BY <1>1, <1>2, <1>4, <1>5, <1>6 DEF s, t

(* What the volume says of the components of a path. *)
Directory(p, k) == vol.inode[vol.where[SubSeq(p, 1, k - 1)]]
NamesOf(p, k) == Listed(vol, Directory(p, k), Blocks(Directory(p, k)), p[k])

LEMMA Names ==
  ASSUME vol \in Vols
  PROVE  /\ << >> \in DOMAIN vol.where /\ vol.where[<< >>] = ROOTINO
         /\ \A q \in DOMAIN vol.where : vol.where[q] \in DOMAIN vol.inode
         /\ \A i \in Inodes : i.mode = "dir" => DirectorySound(vol, i)
         /\ \A p \in vol.want : \A k \in 1 .. Len(p) :
              /\ p \in DOMAIN vol.where => SubSeq(p, 1, k) \in DOMAIN vol.where
              /\ SubSeq(p, 1, k) \in DOMAIN vol.where =>
                   /\ SubSeq(p, 1, k - 1) \in DOMAIN vol.where
                   /\ Directory(p, k).mode = "dir"
                   /\ NamesOf(p, k) = {vol.where[SubSeq(p, 1, k)]}
                   /\ p \in vol.deep \/ Listed(vol, Directory(p, k), Blocks(Directory(p, k)) \cap 0 .. NDADDR - 1, p[k]) # {}
              /\ SubSeq(p, 1, k - 1) \in DOMAIN vol.where /\ Directory(p, k).mode = "dir"
                  /\ SubSeq(p, 1, k) \notin DOMAIN vol.where => NamesOf(p, k) = {}
<1>1. NamesSound(vol)
  BY VolumesAssumption
<1>2. \A n \in DOMAIN vol.inode : vol.inode[n].mode = "dir" => DirectorySound(vol, vol.inode[n])
  BY <1>1, Zenon DEF NamesSound
<1>3. /\ << >> \in DOMAIN vol.where /\ vol.where[<< >>] = ROOTINO
      /\ \A q \in DOMAIN vol.where : vol.where[q] \in DOMAIN vol.inode
  BY <1>1, Zenon DEF NamesSound
<1>4. \A i \in Inodes : i.mode = "dir" => DirectorySound(vol, i)
  BY <1>2, Zenon DEF Inodes
<1>5. ASSUME NEW p \in vol.want, NEW k \in 1 .. Len(p)
      PROVE  /\ p \in DOMAIN vol.where => SubSeq(p, 1, k) \in DOMAIN vol.where
             /\ SubSeq(p, 1, k) \in DOMAIN vol.where =>
                  /\ SubSeq(p, 1, k - 1) \in DOMAIN vol.where
                  /\ Directory(p, k).mode = "dir"
                  /\ NamesOf(p, k) = {vol.where[SubSeq(p, 1, k)]}
                  /\ p \in vol.deep \/ Listed(vol, Directory(p, k), Blocks(Directory(p, k)) \cap 0 .. NDADDR - 1, p[k]) # {}
             /\ SubSeq(p, 1, k - 1) \in DOMAIN vol.where /\ Directory(p, k).mode = "dir"
                 /\ SubSeq(p, 1, k) \notin DOMAIN vol.where => NamesOf(p, k) = {}
  BY <1>1, <1>5, Zenon DEF NamesSound, Directory, NamesOf
<1> QED BY <1>3, <1>4, <1>5, Zenon

(* The entry that search_dir finds is the one the path names. *)
LEMMA FoundIsNamed ==
  ASSUME Types, BufInv, PathFacts, pc = "scan", blockoffset < BlockUnits, Found
  PROVE  Done(Gone + 1) \in DOMAIN vol.where /\ f_buf[blockoffset].ino = vol.where[Done(Gone + 1)]
<1> DEFINE e == f_buf[blockoffset]
           p == ret.path
           k == Gone + 1
<1>0. /\ vol \in Vols /\ path \in Seq(STRING \ {Junk.name}) /\ path # << >> /\ blockoffset \in Nat
      /\ p \in vol.want /\ p \in Seq(STRING \ {Junk.name})
  <2>1. /\ vol \in Vols /\ path \in Seq(STRING \ {Junk.name}) /\ path # << >> /\ blockoffset \in Nat
        /\ p \in vol.want
    BY DEF Types, FileTypes, SearchTypes, PathFacts
  <2> QED BY <2>1, Volume
<1>1. Gone \in Nat /\ k \in 1 .. Len(p) /\ Head(path) = p[k] /\ Head(path) # Junk.name
  <2>1. Len(path) \in Nat \ {0} /\ Len(p) \in Nat /\ Gone >= 0 /\ Gone = Len(p) - Len(path)
    BY <1>0 DEF PathFacts, Gone
  <2>a. path = SubSeq(p, Gone + 1, Len(p))
    BY DEF PathFacts
  <2> HIDE DEF p
  <2>b. Gone \in Nat /\ Gone < Len(p)
    <3> DEFINE a == Len(p)
               c == Len(path)
    <3>1. a \in Nat /\ c \in Nat \ {0} /\ a - c >= 0 /\ Gone = a - c
      BY <2>1
    <3> HIDE DEF a, c
    <3>2. a - c \in Nat /\ a - c < a
      BY <3>1
    <3> QED BY <3>1, <3>2 DEF a
  <2>2. Gone \in Nat /\ Gone < Len(p) /\ path = SubSeq(p, Gone + 1, Len(p))
    BY <2>a, <2>b
  <2>3. Head(path) = p[Gone + 1]
    BY <1>0, <2>2, Suffix
  <2>4. Head(path) \in STRING \ {Junk.name}
    BY <1>0
  <2>5. Gone + 1 \in 1 .. Len(p)
    BY <2>1, <2>2
  <2> QED BY <2>2, <2>3, <2>4, <2>5
<1>2. e.ino # 0 /\ e.name = Head(path) /\ e # Junk
  BY <1>1 DEF Found
<1>3. OfDirectory(e)
  <2>1. blockoffset \in 0 .. BlockUnits - 1
    BY <1>0, Sizes
  <2> QED BY <2>1 DEF BufInv, Opening, Looking
<1>4. PICK b \in Blocks(ic) : \E u \in Units(ic, b) : e = EntryAt(vol, ic, b, u)
  BY <1>2, <1>3, Zenon DEF OfDirectory
<1>5. e.ino \in DOMAIN vol.inode \ {0}
  <2>1. e \in Entries(vol)
    BY <1>0, Sizes DEF Types, FileTypes
  <2> HIDE DEF e
  <2> QED BY <1>2, <2>1 DEF Entries
<1>6. ic = Directory(p, k) /\ ic.mode = "dir" /\ SubSeq(p, 1, k - 1) \in DOMAIN vol.where
  <2>1. k - 1 = Gone
    BY <1>1
  <2> QED BY <2>1 DEF PathFacts, Directory, Done, Searching
<1> HIDE DEF e, p, k
<1>7. e.ino \in NamesOf(p, k)
  <2>1. \E bb \in Blocks(ic) : \E u \in Units(ic, bb) : EntryAt(vol, ic, bb, u).ino = e.ino
                                                        /\ EntryAt(vol, ic, bb, u).name = p[k]
    BY <1>1, <1>2, <1>4, Zenon
  <2> QED BY <1>5, <1>6, <2>1, Zenon DEF NamesOf, Listed
<1>8. SubSeq(p, 1, k) \in DOMAIN vol.where /\ NamesOf(p, k) = {vol.where[SubSeq(p, 1, k)]}
  BY <1>0, <1>1, <1>6, <1>7, Names
<1>9. SubSeq(p, 1, k) \in DOMAIN vol.where /\ e.ino = vol.where[SubSeq(p, 1, k)]
  BY <1>7, <1>8
<1> QED BY <1>9 DEF Done, e, p, k

(* Links and an unread root stay in the history of a call. *)
LEMMA HistoryStays ==
  ASSUME HistInv, [Next]_vars, ~ufs_open
  PROVE  /\ ~seen'.link /\ ~seen'.root => ~seen.link /\ ~seen.root /\ ~Link
         /\ ~seen'.failed => ~seen.failed
         /\ seen'.sized = seen.sized
         /\ ~seen'.past => ~seen.past
         /\ (seen'.past = seen.past) \/ search_dir
<1>0. seen \in Seens
  BY DEF HistInv
<1>1. CASE SeenKept
  <2>1. Link => seen'.link
    <3>1. Link => seen' = [seen EXCEPT !.link = TRUE]
      BY Zenon DEF Link
    <3> QED BY <1>0, <3>1 DEF Seens
  <2> QED BY <1>1, <2>1, Zenon DEF SeenKept
<1>2. CASE SeenFails
  <2>1. Link => seen'.link
    <3>1. Link => seen' = [seen EXCEPT !.link = TRUE]
      BY Zenon DEF Link
    <3> QED BY <1>0, <3>1 DEF Seens
  <2> QED BY <1>0, <1>2, <2>1, SeenFields, Zenon
<1>3. CASE search_dir /\ SeenPast(seen.past \/ f_buf[blockoffset].reclen <= 0)
  <2> DEFINE b == seen.past \/ f_buf[blockoffset].reclen <= 0
  <2>1. b \in BOOLEAN /\ (seen.past => b)
    OBVIOUS
  <2>2. SeenPast(b)
    BY <1>3
  <2>3. ~Link
    <3>1. pc = "scan"
      BY <1>3, Zenon DEF search_dir
    <3> QED BY <3>1 DEF Link
  <2> HIDE DEF b
  <2> QED BY <1>0, <1>3, <2>1, <2>2, <2>3, SeenFields, Zenon
<1>4. CASE Link /\ SeenLink
  BY <1>0, <1>4, SeenFields, Zenon
<1> QED BY <1>1, <1>2, <1>3, <1>4, SeenSteps, Zenon

LEMMA NextPath == Types /\ HistInv /\ BufInv /\ PathInv /\ [Next]_vars => PathInv'
<1> SUFFICES ASSUME Types, HistInv, BufInv, PathInv, [Next]_vars, Opening', ~seen'.link, ~seen'.root
             PROVE  PathFacts'
  BY DEF PathInv
<1> USE DEF file, search, counts
<1>0. vol \in Vols /\ path \in Seq(STRING \ {Junk.name})
  BY DEF Types, FileTypes, SearchTypes
<1>1. CASE ufs_open
  <2>1. PICK p \in vol.want : path' = p /\ ret' = [call |-> "open", val |-> -2, path |-> p]
    BY <1>1, Zenon DEF ufs_open
  <2>2. pc' = "root" /\ inumber' = ROOTINO /\ vol' = vol
    BY <1>1, Zenon DEF ufs_open
  <2>3. p \in Seq(STRING \ {Junk.name})
    BY <1>0, <2>1, Volume
  <2>4. ret'.path = p /\ ret'.call = "open" /\ Len(p) \in Nat /\ SubSeq(p, 0 + 1, Len(p)) = p
    <3>1. SubSeq(p, 1, Len(p)) = p
      BY <2>3
    <3> QED BY <2>1, <2>3, <3>1
  <2>5. Gone' = 0
    BY <2>1, <2>4 DEF Gone
  <2> QED BY <2>1, <2>2, <2>4, <2>5 DEF PathFacts, Searching, ScanRun, Busied, InRun
<1>2. CASE ~ufs_open
  <2>0. Opening /\ UNCHANGED vol /\ ~seen.link /\ ~seen.root /\ ~Link
    BY <1>2, StaysOpening, HistoryStays, Zenon
  <2>1. PathFacts
    BY <2>0, Zenon DEF PathInv
  <2>2. ASSUME UNCHANGED << ic, path, inumber, ret >>, pc \notin {"root", "next"},
               pc' \notin {"root", "next", "relink"}, Searching' => ic.mode = "dir"
        PROVE  PathFacts'
    <3>1. Gone' = Gone /\ Done(Gone)' = Done(Gone)
      BY <2>2 DEF Gone, Done
    <3> QED BY <2>0, <2>1, <2>2, <3>1 DEF PathFacts
  <2>3. CASE ReadRoot
    <3>1. pc = "root" /\ pc' = "component" /\ UNCHANGED << path, inumber, ret >>
      BY <2>3, Zenon DEF ReadRoot
    <3>2. ic' = vol.inode[ROOTINO]
      <4>1. ~SeenFails
        <5>1. seen \in Seens
          BY DEF HistInv
        <5> QED BY <3>1, <5>1, SeenFields, Zenon
      <4> QED BY <2>3, <4>1, Zenon DEF ReadRoot, ReadFails, SeenFails, read_inode
    <3>3. Gone = 0 /\ Gone' = 0 /\ Done(Gone)' = << >>
      <4>1. Gone = 0 /\ Gone' = Gone
        BY <2>1, <3>1 DEF PathFacts, Gone
      <4>2. SubSeq(ret.path, 1, 0) = << >>
        <5>1. ret.path \in Seq(STRING \ {Junk.name})
          BY <1>0, <2>1, Volume DEF PathFacts
        <5> QED BY <5>1
      <4> QED BY <3>1, <4>1, <4>2 DEF Done
    <3>4. vol.where[<< >>] = ROOTINO /\ << >> \in DOMAIN vol.where
      BY <1>0, Names
    <3> QED BY <2>0, <2>1, <3>1, <3>2, <3>3, <3>4 DEF PathFacts, Searching, ScanRun, Busied, InRun
  <2>4. CASE Component
    <3>1. pc = "component" /\ UNCHANGED << ic, path, inumber >>
      BY <2>4, Zenon DEF Component
    <3>2. ic.mode = "dir" /\ pc' = "search" /\ UNCHANGED ret
      BY <2>4 DEF Component, Return, Opening, Looking, ScanRun, Busied, InRun
    <3> QED BY <2>2, <3>1, <3>2
  <2>5. CASE SearchBlock
    <3>1. pc = "search" /\ UNCHANGED << ic, path, inumber >>
      BY <2>5, Zenon DEF SearchBlock
    <3>2. pc' = "run" /\ UNCHANGED ret
      BY <2>5 DEF SearchBlock, Return, Opening, Looking, ScanRun, Busied, InRun, breadi
    <3>3. ic.mode = "dir"
      BY <2>1, <3>1 DEF PathFacts, Searching
    <3> QED BY <2>2, <3>1, <3>2, <3>3
  <2>6. CASE StartRun \/ ExtendRun \/ RunEnds \/ block_map \/ Transfer
    <3>1. Busied /\ UNCHANGED << ic, path, inumber >>
      BY <2>6, RunStepBack, Zenon
    <3>2. pc' \in {"run", "map", "mapped", "transfer"} /\ UNCHANGED ret
      <4>1. pc' # "idle"
        BY DEF Opening, Looking, ScanRun, Busied, InRun
      <4> QED BY <2>6, <4>1 DEF StartRun, ExtendRun, RunEnds, block_map, Transfer, MapStart, Descend, Arrives,
            BreadFails, Return
    <3>3. Searching
      BY <2>0, <3>1 DEF Opening, Looking, Searching, Busied, InRun
    <3>4. ic.mode = "dir" /\ pc \notin {"root", "next"}
      BY <2>1, <3>1, <3>3 DEF PathFacts, Busied, InRun
    <3> QED BY <2>2, <3>1, <3>2, <3>4
  <2>7. CASE BlockIn
    <3>1. pc = "run" /\ pc' = "scan" /\ UNCHANGED << ic, path, inumber, ret >> /\ Searching
      BY <2>7 DEF BlockIn, Searching, ScanRun, Busied
    <3> QED BY <2>1, <2>2, <3>1 DEF PathFacts
  <2>8. CASE search_dir
    <3>1. pc = "scan" /\ UNCHANGED << ic, path, ret >> /\ ic.mode = "dir"
      <4>1. pc = "scan" /\ UNCHANGED << ic, path, ret >>
        BY <2>8, Zenon DEF search_dir
      <4> QED BY <2>1, <4>1 DEF PathFacts, Searching
    <3>2. CASE blockoffset < BlockUnits /\ Found /\ inumber' = f_buf[blockoffset].ino /\ pc' = "next"
      <4>1. Done(Gone + 1) \in DOMAIN vol.where /\ f_buf[blockoffset].ino = vol.where[Done(Gone + 1)]
        BY <2>1, <3>1, <3>2, FoundIsNamed
      <4>2. Gone' = Gone /\ Done(Gone + 1)' = Done(Gone + 1)
        BY <3>1 DEF Gone, Done
      <4> QED BY <2>0, <2>1, <3>1, <3>2, <4>1, <4>2 DEF PathFacts, Searching, ScanRun, Busied, InRun
    <3>3. CASE pc' \in {"scan", "search"} /\ UNCHANGED inumber
      BY <2>2, <3>1, <3>3
    <3> QED BY <2>8, <3>1, <3>2, <3>3, Zenon DEF search_dir
  <2>9. CASE Descended
    <3>1. pc = "next" /\ pc' # "idle" /\ path' = Tail(path)
      BY <2>9 DEF Descended, Opening, Looking, ScanRun, Busied, InRun
    <3>2. ic' = vol.inode[inumber] /\ pc' \in {"link", "component"} /\ UNCHANGED ret
      BY <2>9, <3>1 DEF Descended, Return, read_inode
    <3>3. path # << >> /\ ret.path \in Seq(STRING \ {Junk.name})
      BY <1>0, <2>1, <3>1, Volume DEF Types, SearchTypes, PathFacts
    <3>4. Gone \in Nat /\ Gone < Len(ret.path) /\ path = SubSeq(ret.path, Gone + 1, Len(ret.path))
      <4>1. Len(path) \in Nat \ {0} /\ Len(ret.path) \in Nat /\ Gone >= 0
        BY <1>0, <2>1, <3>3 DEF PathFacts
      <4>2. Gone \in Nat /\ Gone < Len(ret.path)
        BY <4>1 DEF Gone
      <4> QED BY <2>1, <4>2 DEF PathFacts
    <3>5. path' = SubSeq(ret.path, Gone + 2, Len(ret.path)) /\ Len(path') = Len(ret.path) - (Gone + 1)
      BY <3>1, <3>3, <3>4, Suffix
    <3>6. Gone' = Gone + 1
      <4>1. Gone' = Len(ret.path) - (Len(ret.path) - (Gone + 1))
        BY <3>2, <3>5 DEF Gone
      <4>2. Len(ret.path) \in Nat
        BY <3>3
      <4>3. ASSUME NEW a \in Nat, NEW c \in Nat PROVE a - (a - (c + 1)) = c + 1
        OBVIOUS
      <4>4. Gone \in Nat
        BY <3>4
      <4> QED BY <4>1, <4>2, <4>3, <4>4, Zenon
    <3>7. Done(Gone)' = Done(Gone + 1) /\ (Gone + 1) + 1 = Gone + 2
      BY <3>2, <3>4, <3>6 DEF Done
    <3>8. Gone' >= 0
      BY <3>4, <3>6
    <3> QED BY <2>0, <2>1, <3>1, <3>2, <3>5, <3>6, <3>7, <3>8 DEF PathFacts, Searching, ScanRun, Busied, InRun
  <2>10. CASE FollowLink
    BY <2>1, <2>10 DEF FollowLink, PathFacts
  <2>11. CASE UNCHANGED vars
    <3>1. UNCHANGED << ic, path, inumber, ret, pc, vol, Gone >> /\ (Searching' <=> Searching)
      BY <2>11 DEF vars, Gone, Searching, ScanRun, Busied, InRun
    <3> QED BY <2>1, <3>1 DEF PathFacts, Done
  <2>12. CASE ufs_mount \/ OpenDone \/ ufs_bread \/ BreadDone \/ BreadFaults \/ ufs_close
    BY <2>12, NotOpening
  <2> QED BY <1>2, <2>0, <2>3, <2>4, <2>5, <2>6, <2>7, <2>8, <2>9, <2>10, <2>11, <2>12 DEF Next, Step
<1> QED BY <1>1, <1>2

(* The open that comes back has gone through the whole path. *)
LEMMA NextNamed == Types /\ HistInv /\ PathInv /\ NamedFile /\ [Next]_vars => NamedFile'
<1> SUFFICES ASSUME Types, HistInv, PathInv, NamedFile, [Next]_vars,
                    pc' = "idle", ret'.call = "open", ret'.val >= 0, ~seen'.link, ~seen'.root
             PROVE  (ret.path \in DOMAIN vol.where /\ ic = vol.inode[vol.where[ret.path]])'
  BY DEF NamedFile
<1> USE DEF file, search, counts
<1>1. ~ufs_open
  BY DEF ufs_open
<1>2. ~seen.link /\ ~seen.root /\ ~Link
  BY <1>1, HistoryStays, Zenon
<1>3. CASE OpenDone
  <2>1. /\ pc = "component" /\ path = << >> /\ UNCHANGED << vol, ic >> /\ ret'.path = ret.path
    BY <1>3 DEF OpenDone, Return
  <2>2. PathFacts
    BY <1>2, <2>1 DEF PathInv, Opening, Looking
  <2>3. ret.path \in Seq(STRING \ {Junk.name})
    BY <2>2, Volume DEF Types, FileTypes, PathFacts
  <2>4. Gone = Len(ret.path) /\ Done(Gone) = ret.path
    <3>1. Len(ret.path) \in Nat /\ Len(<< >>) = 0
      BY <2>3
    <3>2. Gone = Len(ret.path)
      BY <2>1, <3>1 DEF Gone
    <3>3. SubSeq(ret.path, 1, Len(ret.path)) = ret.path
      BY <2>3
    <3> QED BY <3>2, <3>3 DEF Done
  <2> QED BY <2>1, <2>2, <2>4 DEF PathFacts
<1>4. CASE UNCHANGED vars
  BY <1>2, <1>4 DEF vars, NamedFile
<1>5. CASE ufs_mount \/ ReadRoot \/ Component \/ RunEnds \/ BlockIn \/ search_dir \/ BreadDone \/ StartRun
           \/ ExtendRun \/ block_map \/ Descended \/ FollowLink \/ BreadFaults \/ ufs_close
  BY <1>5 DEF ufs_mount, ReadRoot, Component, RunEnds, BlockIn, search_dir, Descended, StartRun, ExtendRun, block_map,
      MapStart, Descend, BreadDone, FollowLink, BreadFaults, ufs_close, Return
<1>6. CASE SearchBlock \/ Transfer
  BY <1>6 DEF SearchBlock, Transfer, breadi, Arrives, BreadFails, Return
<1>7. CASE ufs_bread
  BY <1>7, Zenon DEF ufs_bread, breadi
<1> QED BY <1>1, <1>2, <1>3, <1>4, <1>5, <1>6, <1>7 DEF Next, Step

(* Blocks of a directory, and of any file, are within it. *)
LEMMA BlocksInFile ==
  ASSUME Types, NEW b \in Blocks(ic)
  PROVE  /\ b \in Nat /\ b * BlockUnits < ic.size /\ b < Total /\ ic.size \in Nat
         /\ 0 \in Units(ic, b)
         /\ \A c \in Nat : c < b => (c + 1) * BlockUnits <= ic.size
<1>1. ic.size \in Nat /\ ic.size <= Total * BlockUnits
  <2>1. InodeSound(vol, ic)
    BY Volume DEF Types, FileTypes
  <2>2. NINDIR * NINDIR * NINDIR = Cube
    BY Sizes DEF Cube, Square
  <2> QED BY <2>1, <2>2 DEF InodeSound, Total, Square
<1>2. ic.size # 0
  <2>1. ASSUME ic.size = 0 PROVE FALSE
    <3>1. ASSUME NEW d \in Nat \ {0} PROVE (0 - 1) \div d = -1
      OBVIOUS
    <3>2. Blocks(ic) = 0 .. -1
      BY <2>1, <3>1, Sizes DEF Blocks
    <3> QED BY <3>2
  <2> QED BY <2>1
<1>3. b \in Nat /\ b <= (ic.size - 1) \div BlockUnits
  BY <1>1, <1>2, Sizes DEF Blocks
<1>4. b * BlockUnits <= ic.size - 1
  <2>1. ASSUME NEW d \in Nat \ {0}, NEW s \in Nat, NEW a \in Nat, a <= s \div d PROVE a * d <= s
    <3>1. (s \div d) * d <= s /\ s \div d \in Nat
      OBVIOUS
    <3>2. a * d <= (s \div d) * d
      BY <2>1, <3>1
    <3>3. a * d \in Nat /\ (s \div d) * d \in Nat
      BY <3>1
    <3> QED BY <3>1, <3>2, <3>3
  <2>2. ic.size - 1 \in Nat
    BY <1>1, <1>2
  <2> QED BY <1>3, <2>1, <2>2, Sizes
<1>5. b * BlockUnits \in Nat /\ Total * BlockUnits \in Nat
  BY <1>3, Sizes
<1>6. b * BlockUnits < ic.size /\ b * BlockUnits < Total * BlockUnits
  BY <1>1, <1>4, <1>5
<1>7. b < Total
  <2>1. ASSUME NEW x \in Nat, NEW y \in Nat, NEW c \in Nat \ {0}, x * c < y * c PROVE x < y
    BY <2>1
  <2> QED BY <1>3, <1>6, <2>1, Sizes
<1>8. 0 \in Units(ic, b)
  <2>1. b * Frags \in b * Frags .. (b + 1) * Frags - 1
    <3>1. b * Frags \in Nat /\ (b + 1) * Frags = b * Frags + Frags
      BY <1>3, Sizes
    <3> QED BY <3>1, Sizes
  <2>2. (b * Frags) * FragUnits = b * BlockUnits /\ b * Frags - b * Frags = 0
    BY <1>3, Sizes DEF BlockUnits
  <2>3. 0 < FragsOf(ic, b) /\ FragsOf(ic, b) \in Nat
    <3> DEFINE x == b * Frags
    <3>1. x \in b * Frags .. (b + 1) * Frags - 1 /\ x * FragUnits < ic.size
      BY <1>6, <2>1, <2>2
    <3>2. x - b * Frags = 0
      BY <2>2
    <3> HIDE DEF x
    <3>3. x - b * Frags < FragsOf(ic, b) /\ FragsOf(ic, b) \in 0 .. Frags
      BY <1>1, <1>3, <3>1, FragsOfBlock, Zenon
    <3> QED BY <3>2, <3>3, Sizes
  <2> DEFINE n == FragsOf(ic, b)
  <2> HIDE DEF n
  <2>4. n * FragUnits \in Nat \ {0}
    BY <2>3, Sizes DEF n
  <2> QED BY <2>4 DEF Units, n
<1>9. ASSUME NEW c \in Nat, c < b PROVE (c + 1) * BlockUnits <= ic.size
  <2>1. (c + 1) * BlockUnits <= b * BlockUnits /\ (c + 1) * BlockUnits \in Nat
    BY <1>3, <1>9, Sizes
  <2> QED BY <1>1, <1>5, <1>6, <2>1
<1> QED BY <1>1, <1>3, <1>6, <1>7, <1>8, <1>9

(* From one entry of a block to the next. *)
LEMMA EntryToEntry ==
  ASSUME Types, ic.mode = "dir", NEW b \in Blocks(ic), NEW w \in Units(ic, b), EntryAt(vol, ic, b, w) # Junk,
         NEW r, r = EntryAt(vol, ic, b, w).reclen
  PROVE  /\ w \in 0 .. BlockUnits - 1 /\ r \in 1 .. BlockUnits
         /\ (b + 1) * BlockUnits <= ic.size =>
              w + r = BlockUnits \/ (w + r \in Units(ic, b) /\ EntryAt(vol, ic, b, w + r) # Junk)
         /\ \A u \in Units(ic, b) :
              EntryAt(vol, ic, b, u) # Junk /\ w < u =>
                w + r <= u /\ w + r \in Units(ic, b) /\ EntryAt(vol, ic, b, w + r) # Junk
<1> DEFINE at(u) == EntryAt(vol, ic, b, u)
           end == IF (b + 1) * BlockUnits <= ic.size THEN BlockUnits ELSE ic.size - b * BlockUnits
<1>0. vol \in Vols /\ ic \in Inodes /\ b \in Nat /\ ic.size \in Nat
  BY BlocksInFile DEF Types, FileTypes
<1>1. /\ \A u \in Units(ic, b) : at(u) # Junk =>
             /\ u + at(u).reclen <= end
             /\ \A x \in u + 1 .. (u + at(u).reclen) - 1 : at(x) = Junk
             /\ u + at(u).reclen < end => at(u + at(u).reclen) # Junk
  <2>1. DirectorySound(vol, ic)
    BY <1>0, Names, Zenon
  <2> QED BY <2>1, Zenon DEF DirectorySound
<1>2. /\ Units(ic, b) \subseteq 0 .. BlockUnits - 1
      /\ \A u \in Units(ic, b) : u \in Nat /\ \A x \in 0 .. u : x \in Units(ic, b)
      /\ (b + 1) * BlockUnits <= ic.size => Units(ic, b) = 0 .. BlockUnits - 1
  <2>1. Units(ic, b) \subseteq 0 .. BlockUnits - 1
    BY <1>0, UnitsOfBlock
  <2>2. (b + 1) * BlockUnits <= ic.size => Units(ic, b) = 0 .. BlockUnits - 1
    BY <1>0, FragsOfBlock DEF Units, BlockUnits
  <2>3. ASSUME NEW u \in Units(ic, b), NEW x \in 0 .. u PROVE u \in Nat /\ x \in Units(ic, b)
    <3>1. FragsOf(ic, b) * FragUnits \in Int
      BY <1>0, UnitsOfBlock, Sizes
    <3> DEFINE n == FragsOf(ic, b) * FragUnits
    <3>2. Units(ic, b) = 0 .. n - 1 /\ n \in Int
      BY <3>1 DEF Units
    <3> HIDE DEF n
    <3> QED BY <3>2
  <2>4. \A u \in Units(ic, b) : u \in Nat
    BY <2>1
  <2> QED BY <2>1, <2>2, <2>3, <2>4
<1>3. ASSUME NEW u \in Units(ic, b), at(u) # Junk PROVE at(u).reclen \in 1 .. BlockUnits
  <2>1. at(u) \in Entries(vol)
    <3>1. (u % FragUnits) + 1 \in 1 .. FragUnits
      BY <1>0, UnitsOfBlock, Sizes
    <3>2. PICK a : at(u) = Junk \/ at(u) = Cell(vol, a, u % FragUnits)
      BY DEF EntryAt
    <3>3. a \in DOMAIN vol.cell => vol.cell[a][(u % FragUnits) + 1] \in Entries(vol)
      BY <1>0, <3>1, Volume
    <3> HIDE DEF at
    <3> QED BY <1>0, <1>3, <3>2, <3>3 DEF Cell
  <2> HIDE DEF at
  <2> QED BY <1>3, <2>1 DEF Entries
<1>4. r = at(w).reclen /\ at(w) # Junk
  OBVIOUS
<1> HIDE DEF at
<1>5. r \in 1 .. BlockUnits /\ w + r <= end /\ (\A x \in w + 1 .. (w + r) - 1 : at(x) = Junk)
      /\ (w + r < end => at(w + r) # Junk) /\ w \in Nat
  BY <1>1, <1>2, <1>3, <1>4
<1>6. end \in Int
  BY <1>0, Sizes
<1> HIDE DEF end
<1>7. ASSUME (b + 1) * BlockUnits <= ic.size PROVE w + r = BlockUnits \/ (w + r \in Units(ic, b) /\ at(w + r) # Junk)
  <2>1. end = BlockUnits /\ Units(ic, b) = 0 .. BlockUnits - 1
    BY <1>2, <1>7 DEF end
  <2>2. BlockUnits \in Nat /\ w + r \in Nat /\ w + r <= BlockUnits
    BY <1>5, <2>1, Sizes
  <2>3. CASE w + r < BlockUnits
    <3>1. w + r \in 0 .. BlockUnits - 1
      BY <2>2, <2>3
    <3> QED BY <1>5, <2>1, <2>3, <3>1, Zenon
  <2> QED BY <2>2, <2>3
<1>8. ASSUME NEW u \in Units(ic, b), at(u) # Junk, w < u
      PROVE  w + r <= u /\ w + r \in Units(ic, b) /\ at(w + r) # Junk
  <2>1. u \in Nat /\ at(u).reclen \in 1 .. BlockUnits /\ u + at(u).reclen <= end
    BY <1>1, <1>2, <1>3, <1>8
  <2>2. w + r <= u
    BY <1>5, <1>8, <2>1
  <2>3. w + r \in Units(ic, b)
    BY <1>2, <1>5, <2>2
  <2>4. w + r < end
    BY <1>5, <1>6, <2>1, <2>2, Sizes
  <2> QED BY <1>5, <2>2, <2>3, <2>4
<1> QED BY <1>2, <1>5, <1>7, <1>8 DEF at

(* An open that goes on has not returned. *)
LEMMA RetStays ==
  ASSUME Types, [Next]_vars, Opening', ~ufs_open
  PROVE  UNCHANGED ret
<1>1. pc' # "idle"
  BY DEF Opening, Looking, ScanRun, Busied, InRun
<1>2. CASE ufs_mount \/ OpenDone \/ ufs_bread \/ BreadDone \/ BreadFaults \/ ufs_close
  BY <1>2, NotOpening
<1>3. CASE UNCHANGED vars
  BY <1>3 DEF vars
<1> QED BY <1>1, <1>2, <1>3, Zenon DEF Next, Step, ReadRoot, Component, block_map, StartRun, ExtendRun,
      RunEnds, Transfer, BreadFails, SearchBlock, BlockIn, search_dir, Descended, Link, FollowLink, Return

(* What is sought was sought before, and nothing failed. *)
LEMMA SoughtBefore ==
  ASSUME Types, HistInv, [Next]_vars, ~ufs_open, UNCHANGED vol, ret'.path = ret.path, Sought'
  PROVE  Sought /\ ~bad /\ ~seen.root /\ ~Link /\ ~SeenFails
<1>1. ~seen'.link /\ ~seen'.failed /\ seen'.sized = seen.sized /\ ~seen.failed
  BY HistoryStays, Zenon DEF Sought
<1>2. ~seen'.root
  <2>1. HistInv'
    BY NextHist, Zenon
  <2> QED BY <1>1, <2>1, Zenon DEF HistInv
<1>3. ~seen.link /\ ~seen.root /\ ~Link
  BY <1>1, <1>2, HistoryStays, Zenon
<1>4. ~SeenFails
  <2>1. seen \in Seens
    BY DEF HistInv
  <2> QED BY <1>1, <2>1, SeenFields, Zenon
<1>5. ~bad
  BY <1>1, Zenon DEF HistInv
<1> QED BY <1>1, <1>3, <1>4, <1>5, Zenon DEF Sought

(* The next component is listed where search_dir looks first. *)
LEMMA ComponentListed ==
  ASSUME Types, PathFacts, Sought, pc = "component", path # << >>
  PROVE  /\ ic.mode = "dir"
         /\ \E b \in Blocks(ic) : \E u \in Units(ic, b) :
              /\ EntryAt(vol, ic, b, u).ino # 0 /\ EntryAt(vol, ic, b, u).name = Head(path)
              /\ seen.sized \/ b < NDADDR
<1> DEFINE p == ret.path
           k == Gone + 1
<1>0. vol \in Vols /\ path \in Seq(STRING \ {Junk.name}) /\ p \in vol.want /\ p \in Seq(STRING \ {Junk.name})
  <2>1. vol \in Vols /\ path \in Seq(STRING \ {Junk.name}) /\ p \in vol.want
    BY DEF Types, FileTypes, SearchTypes, PathFacts
  <2> QED BY <2>1, Volume
<1>1. Gone \in Nat /\ Gone < Len(p) /\ path = SubSeq(p, Gone + 1, Len(p))
  <2>1. Len(path) \in Nat \ {0} /\ Len(p) \in Nat /\ Gone >= 0
    BY <1>0 DEF PathFacts
  <2>2. Gone \in Nat /\ Gone < Len(p)
    BY <2>1 DEF Gone
  <2> QED BY <2>2 DEF PathFacts
<1>2. k \in 1 .. Len(p) /\ k - 1 = Gone
  <2>1. Len(p) \in Nat
    BY <1>0
  <2> HIDE DEF p
  <2> QED BY <1>1, <2>1
<1>3. Head(path) = p[k]
  <2> HIDE DEF p
  <2> QED BY <1>0, <1>1, Suffix
<1>4. ic = Directory(p, k)
  BY <1>2 DEF PathFacts, Directory, Done
<1>5. p \in DOMAIN vol.where
  BY DEF Sought
<1> HIDE DEF p, k
<1>6. /\ Directory(p, k).mode = "dir" /\ NamesOf(p, k) = {vol.where[SubSeq(p, 1, k)]}
      /\ p \in vol.deep \/ Listed(vol, Directory(p, k), Blocks(Directory(p, k)) \cap 0 .. NDADDR - 1, p[k]) # {}
  BY <1>0, <1>2, <1>5, Names
<1>7. ASSUME NEW B, Listed(vol, ic, B, p[k]) # {}
      PROVE  \E b \in B : \E u \in Units(ic, b) :
               EntryAt(vol, ic, b, u).ino # 0 /\ EntryAt(vol, ic, b, u).name = Head(path)
  BY <1>3, <1>7 DEF Listed
<1>8. CASE seen.sized
  <2>1. Listed(vol, ic, Blocks(ic), p[k]) # {}
    BY <1>4, <1>6 DEF NamesOf
  <2>2. \E b \in Blocks(ic) : \E u \in Units(ic, b) :
           EntryAt(vol, ic, b, u).ino # 0 /\ EntryAt(vol, ic, b, u).name = Head(path)
    BY <1>7, <2>1, Zenon
  <2> QED BY <1>4, <1>6, <1>8, <2>2, Zenon
<1>9. CASE ~seen.sized
  <2>1. Listed(vol, ic, Blocks(ic) \cap 0 .. NDADDR - 1, p[k]) # {}
    BY <1>4, <1>6, <1>9, Zenon DEF Sought, p
  <2>2. \E b \in Blocks(ic) \cap 0 .. NDADDR - 1 : \E u \in Units(ic, b) :
           EntryAt(vol, ic, b, u).ino # 0 /\ EntryAt(vol, ic, b, u).name = Head(path)
    BY <1>7, <2>1, Zenon
  <2>3. \A b \in 0 .. NDADDR - 1 : b < NDADDR
    BY Sizes
  <2> QED BY <1>4, <1>6, <2>2, <2>3, Zenon
<1> QED BY <1>8, <1>9

(* block_map finds the blocks up to the one with the entry. *)
LEMMA AheadCovered ==
  ASSUME Types, HistInv, ScanInv, Opening, NEW b \in Blocks(ic), Block <= b, seen.sized \/ b < NDADDR
  PROVE  Covered(Block) /\ offset < ic.size /\ Block \in Nat /\ b \in Nat
<1>1. Block \in Nat /\ offset = Block * BlockUnits
  BY Sizes DEF Block, ScanInv, Types, SearchTypes
<1>2. b \in Nat /\ b * BlockUnits < ic.size /\ b < Total /\ ic.size \in Nat
  BY BlocksInFile
<1> HIDE DEF Block
<1>3. Block * BlockUnits <= b * BlockUnits /\ b * BlockUnits \in Nat /\ Block * BlockUnits \in Nat
  BY <1>1, <1>2, Sizes
<1>4. seen.sized => f_nindir = Reach
  BY DEF HistInv
<1>5. Block < Total /\ (b < NDADDR => Block < NDADDR)
  BY <1>1, <1>2, Sizes
<1>6. Covered(Block)
  BY <1>4, <1>5 DEF Covered
<1> QED BY <1>1, <1>2, <1>3, <1>6

(* A step of the search that does not move it. *)
LEMMA AheadFrame ==
  ASSUME UNCHANGED << vol, ic, path, offset >>, seen'.sized = seen.sized, pc' # "scan",
         NEW b, NEW u, Ahead(b, u)
  PROVE  Ahead(b, u)'
<1>1. EntryAt(vol, ic, b, u)' = EntryAt(vol, ic, b, u)
  BY DirFrame, Zenon
<1>2. Block' = Block
  BY DEF Block
<1> HIDE DEF Block
<1> QED BY <1>1, <1>2 DEF Ahead

(* search_dir goes from entry to entry up to the one looked for. *)
LEMMA SearchStep ==
  ASSUME Types, HistInv, ScanInv, BufInv, PathFacts, Opening, ~bad, search_dir, seen'.sized = seen.sized,
         NEW b \in Blocks(ic), NEW u \in Units(ic, b), Ahead(b, u)
  PROVE  /\ pc' # "next" => Ahead(b, u)'
         /\ blockoffset < BlockUnits /\ ~Found => f_buf[blockoffset].reclen > 0
<1> USE DEF file, search, counts
<1>0. /\ pc = "scan" /\ UNCHANGED << vol, ic, path >> /\ ic.mode = "dir" /\ blockoffset \in Nat
      /\ b \in Nat /\ Block \in Nat /\ Covered(Block) /\ Block \in Blocks(ic) /\ Block <= b
      /\ ic.size \in Nat /\ path \in Seq(STRING \ {Junk.name}) /\ path # << >>
  <2>1. pc = "scan" /\ UNCHANGED << vol, ic, path >>
    BY Zenon DEF search_dir
  <2>2. blockoffset \in Nat /\ path \in Seq(STRING \ {Junk.name}) /\ path # << >>
    BY <2>1 DEF Types, SearchTypes
  <2>3. ic.mode = "dir"
    BY <2>1 DEF PathFacts, Searching
  <2>4. Block <= b /\ (seen.sized \/ b < NDADDR)
    BY Zenon DEF Ahead
  <2>5. Covered(Block) /\ Block \in Nat /\ b \in Nat
    BY <2>4, AheadCovered, Zenon
  <2>6. Block \in Blocks(ic) /\ ic.size \in Nat
    BY <2>1, BlocksInFile DEF ScanInv
  <2> QED BY <2>1, <2>2, <2>3, <2>4, <2>5, <2>6, Zenon
<1> HIDE DEF Block
<1>1. u \in Nat /\ u < BlockUnits
  BY <1>0, UnitsOfBlock, Sizes
<1>2. EntryAt(vol, ic, b, u) # Junk
  <2>1. Head(path) \in STRING \ {Junk.name}
    BY <1>0
  <2> QED BY <2>1 DEF Ahead
<1>3. CASE blockoffset < BlockUnits /\ Found
  <2>1. ~(blockoffset >= BlockUnits)
    BY <1>0, <1>3, Sizes
  <2> QED BY <1>3, <2>1, Zenon DEF search_dir
<1>4. CASE blockoffset < BlockUnits /\ ~Found
  <2> DEFINE w == blockoffset
             r == EntryAt(vol, ic, Block, w).reclen
  <2>1. AtEntry /\ f_buf[w] = EntryAt(vol, ic, Block, w)
    <3>1. blockoffset # BlockUnits
      BY <1>0, <1>4, Sizes
    <3>2. AtEntry
      BY <1>0, <3>1 DEF Ahead
    <3> QED BY <1>0, <3>2 DEF AtEntry, BufInv
  <2>2. w \in Units(ic, Block) /\ EntryAt(vol, ic, Block, w) # Junk
    BY <2>1 DEF AtEntry
  <2>3. /\ r \in 1 .. BlockUnits
        /\ (Block + 1) * BlockUnits <= ic.size =>
              w + r = BlockUnits \/ (w + r \in Units(ic, Block) /\ EntryAt(vol, ic, Block, w + r) # Junk)
        /\ \A x \in Units(ic, Block) :
              EntryAt(vol, ic, Block, x) # Junk /\ w < x =>
                w + r <= x /\ w + r \in Units(ic, Block) /\ EntryAt(vol, ic, Block, w + r) # Junk
    BY <1>0, <2>2, EntryToEntry
  <2>4. f_buf[w].reclen = r /\ r > 0 /\ r # -1
    BY <2>1, <2>3
  <2>5. blockoffset' = w + r /\ pc' = "scan" /\ UNCHANGED offset
    <3>0. ~(blockoffset >= BlockUnits)
      BY <1>0, <1>4, Sizes
    <3>1. blockoffset' \in NextEntry /\ UNCHANGED << offset, pc >>
      BY <1>4, <3>0, Zenon DEF search_dir
    <3>2. NextEntry = {w + r}
      BY <2>4 DEF NextEntry
    <3> QED BY <1>0, <3>1, <3>2
  <2>6. Block' = Block
    BY <2>5 DEF Block
  <2>7. \A x, y : EntryAt(vol, ic, x, y)' = EntryAt(vol, ic, x, y) /\ Units(ic, x)' = Units(ic, x)
    BY <1>0, DirFrame
  <2> HIDE DEF r
  <2>8. CASE Block < b
    <3>1. w + r = BlockUnits \/ (w + r \in Units(ic, Block) /\ EntryAt(vol, ic, Block, w + r) # Junk)
      BY <1>0, <2>3, <2>8, BlocksInFile
    <3>2. (blockoffset = BlockUnits \/ AtEntry)'
      BY <2>5, <2>6, <2>7, <3>1 DEF AtEntry
    <3> QED BY <1>0, <2>4, <2>5, <2>6, <2>7, <2>8, <3>2 DEF Ahead
  <2>9. CASE Block = b
    <3>1. w <= u
      BY <1>0, <2>9 DEF Ahead
    <3>2. w # u
      <4>1. f_buf[w].ino # 0 /\ f_buf[w].name = Head(path) => Found
        BY DEF Found
      <4> QED BY <1>4, <2>1, <2>9, <4>1 DEF Ahead
    <3>3. w < u
      BY <1>0, <1>1, <3>1, <3>2
    <3>4. w + r <= u /\ w + r \in Units(ic, Block) /\ EntryAt(vol, ic, Block, w + r) # Junk
      BY <1>2, <2>3, <2>9, <3>3
    <3>5. AtEntry'
      BY <2>5, <2>6, <2>7, <3>4 DEF AtEntry
    <3> QED BY <1>0, <2>4, <2>5, <2>6, <2>7, <2>9, <3>4, <3>5 DEF Ahead
  <2> QED BY <1>0, <2>4, <2>8, <2>9
<1>5. CASE blockoffset >= BlockUnits
  <2>0. ~(blockoffset < BlockUnits)
    BY <1>0, <1>5, Sizes
  <2>1. offset' = offset + BlockUnits /\ pc' = "search"
    BY <2>0, Zenon DEF search_dir
  <2>2. Block' = Block + 1
    BY <1>0, <2>1, BlockStep DEF Block, ScanInv, Types, SearchTypes
  <2>3. Block < b
    <3>1. CASE Block = b
      BY <1>0, <1>1, <1>5, <3>1, Sizes DEF Ahead
    <3> QED BY <1>0, <3>1
  <2>4. Block' <= b
    BY <1>0, <2>2, <2>3
  <2>5. EntryAt(vol, ic, b, u)' = EntryAt(vol, ic, b, u)
    BY <1>0, DirFrame
  <2> QED BY <1>0, <2>0, <2>1, <2>4, <2>5 DEF Ahead
<1> QED BY <1>0, <1>3, <1>4, <1>5, Sizes

LEMMA NextFind ==
  Types /\ HistInv /\ ScanInv /\ BufInv /\ PathInv /\ FindInv /\ [Next]_vars => FindInv'
<1> SUFFICES ASSUME Types, HistInv, ScanInv, BufInv, PathInv, FindInv, [Next]_vars, Opening', Sought'
             PROVE  /\ ~seen'.past
                    /\ Searching' => (\E b \in Blocks(ic) : \E u \in Units(ic, b) : Ahead(b, u))'
  BY DEF FindInv
<1> USE DEF file, search, counts
<1>1. CASE ufs_open
  <2>1. seen' = [Clear EXCEPT !.sized = (f_nindir[0] # 0)] /\ pc' = "root"
    BY <1>1, Zenon DEF ufs_open
  <2>2. ~seen'.past
    BY <2>1 DEF Clear
  <2> QED BY <2>1, <2>2 DEF Searching, ScanRun, Busied, InRun
<1>2. CASE ~ufs_open
  <2>0. Opening /\ UNCHANGED << vol, ret >>
    BY <1>2, StaysOpening, RetStays, Zenon
  <2>1. Sought /\ ~bad /\ ~seen.root /\ ~Link /\ ~SeenFails
    BY <1>2, <2>0, SoughtBefore, Zenon
  <2>2. PathFacts /\ ~seen.past
    BY <2>0, <2>1, Zenon DEF PathInv, FindInv, Sought
  <2>3. seen'.sized = seen.sized /\ (seen'.past = seen.past \/ search_dir)
    BY <1>2, HistoryStays, Zenon
  <2>4. ASSUME Searching, ~search_dir, pc' # "scan", UNCHANGED << ic, path, offset >>
        PROVE  (\E b \in Blocks(ic) : \E u \in Units(ic, b) : Ahead(b, u))'
    <3>1. PICK b \in Blocks(ic) : \E u \in Units(ic, b) : Ahead(b, u)
      BY <2>0, <2>1, <2>4, Zenon DEF FindInv
    <3>2. PICK u \in Units(ic, b) : Ahead(b, u)
      BY <3>1, Zenon
    <3>3. Ahead(b, u)'
      BY <2>0, <2>3, <2>4, <3>2, AheadFrame
    <3>4. b \in Blocks(ic)' /\ u \in Units(ic, b)'
      BY <2>0, <2>4, DirFrame
    <3> QED BY <3>3, <3>4, Zenon
  <2>5. CASE ReadRoot \/ Descended \/ FollowLink
    <3>1. ~Searching'
      BY <2>5 DEF ReadRoot, Descended, FollowLink, Return, Searching, ScanRun, Busied, InRun
    <3>2. ~search_dir
      BY <2>5 DEF ReadRoot, Descended, FollowLink, search_dir
    <3> QED BY <2>2, <2>3, <3>1, <3>2, Zenon
  <2>6. CASE Component
    <3>1. pc = "component" /\ path # << >> /\ offset' = 0 /\ UNCHANGED << vol, ic, path, seen >>
      BY <2>6, Zenon DEF Component
    <3>2. pc' = "search"
      BY <2>6 DEF Component, Return, Opening, Looking, ScanRun, Busied, InRun
    <3>3. PICK b \in Blocks(ic) : \E u \in Units(ic, b) :
              /\ EntryAt(vol, ic, b, u).ino # 0 /\ EntryAt(vol, ic, b, u).name = Head(path)
              /\ seen.sized \/ b < NDADDR
      BY <2>1, <2>2, <3>1, ComponentListed, Zenon
    <3>4. PICK u \in Units(ic, b) :
              /\ EntryAt(vol, ic, b, u).ino # 0 /\ EntryAt(vol, ic, b, u).name = Head(path)
              /\ seen.sized \/ b < NDADDR
      BY <3>3, Zenon
    <3>5. Block' = 0 /\ b \in Nat
      <4>1. Block' = 0
        BY <3>1, Sizes DEF Block
      <4> QED BY <4>1, BlocksInFile
    <3>6. EntryAt(vol, ic, b, u)' = EntryAt(vol, ic, b, u) /\ b \in Blocks(ic)' /\ u \in Units(ic, b)'
      BY <3>1, DirFrame
    <3>7. Ahead(b, u)'
      BY <3>1, <3>2, <3>4, <3>5, <3>6 DEF Ahead
    <3> QED BY <2>2, <3>1, <3>6, <3>7, Zenon
  <2>7. CASE SearchBlock
    <3>1. pc = "search" /\ UNCHANGED << ic, path, offset >>
      BY <2>7, Zenon DEF SearchBlock
    <3>2. pc' # "scan" /\ ~search_dir /\ Searching
      BY <2>7, <3>1 DEF SearchBlock, search_dir, Return, breadi, Searching
    <3> QED BY <2>2, <2>3, <2>4, <3>1, <3>2, Zenon
  <2>8. CASE StartRun \/ ExtendRun \/ RunEnds \/ block_map \/ Transfer
    <3>1. Busied /\ UNCHANGED << ic, path, offset >>
      BY <2>8, RunStepBack, Zenon
    <3>2. pc' # "scan" /\ ~search_dir
      BY <2>8 DEF StartRun, ExtendRun, RunEnds, block_map, Transfer, MapStart, Descend, Arrives, BreadFails, Return,
         search_dir
    <3>3. Searching
      BY <2>0, <3>1 DEF Opening, Looking, Searching, Busied, InRun
    <3> QED BY <2>2, <2>3, <2>4, <3>1, <3>2, <3>3, Zenon
  <2>9. CASE BlockIn
    <3>1. pc = "run" /\ pc' = "scan" /\ UNCHANGED << ic, path, offset, blockoffset, seen >> /\ Searching /\ ScanRun
      BY <2>9 DEF BlockIn, Searching, ScanRun, Busied
    <3>2. PICK b \in Blocks(ic) : \E u \in Units(ic, b) : Ahead(b, u)
      BY <2>0, <2>1, <3>1, Zenon DEF FindInv
    <3>3. PICK u \in Units(ic, b) : Ahead(b, u)
      BY <3>2, Zenon
    <3>4. blockoffset = 0 /\ Block \in Blocks(ic) /\ Block' = Block
      BY <3>1 DEF ScanInv, Block
    <3> HIDE DEF Block
    <3>5. Block \in Nat /\ b \in Nat /\ 0 \in Units(ic, Block) /\ u \in Nat
      BY <3>4, BlocksInFile, UnitsOfBlock
    <3>6. EntryAt(vol, ic, Block, 0) # Junk
      <4>1. DirectorySound(vol, ic)
        BY <2>2, <3>1, Names DEF Types, FileTypes, PathFacts
      <4> QED BY <3>4, <4>1 DEF DirectorySound
    <3>7. \A x, y : EntryAt(vol, ic, x, y)' = EntryAt(vol, ic, x, y) /\ Units(ic, x)' = Units(ic, x)
          /\ Blocks(ic)' = Blocks(ic)
      BY <2>0, <3>1, DirFrame
    <3>8. AtEntry'
      BY <3>1, <3>4, <3>5, <3>6, <3>7 DEF AtEntry
    <3>9. Ahead(b, u)'
      <4>1. Block <= b /\ Block' <= b
        BY <3>3, <3>4 DEF Ahead
      <4>2. Block < b \/ Block = b
        BY <3>5, <4>1
      <4>3. blockoffset' <= u
        BY <3>1, <3>4, <3>5
      <4> QED BY <3>1, <3>3, <3>4, <3>7, <3>8, <4>1, <4>2, <4>3 DEF Ahead
    <3> QED BY <2>2, <3>1, <3>7, <3>9, Zenon
  <2>10. CASE search_dir
    <3>1. pc = "scan" /\ UNCHANGED ic
      BY <2>10, Zenon DEF search_dir
    <3>2. Searching
      BY <3>1 DEF Searching
    <3>3. PICK b \in Blocks(ic) : \E u \in Units(ic, b) : Ahead(b, u)
      BY <2>0, <2>1, <3>2, Zenon DEF FindInv
    <3>4. PICK u \in Units(ic, b) : Ahead(b, u)
      BY <3>3, Zenon
    <3>5. /\ pc' # "next" => Ahead(b, u)'
          /\ blockoffset < BlockUnits /\ ~Found => f_buf[blockoffset].reclen > 0
      BY <2>0, <2>1, <2>2, <2>3, <2>10, <3>4, SearchStep, Zenon
    <3>6. ~seen'.past
      <4>1. CASE UNCHANGED seen
        BY <2>2, <4>1, Zenon
      <4>2. CASE blockoffset < BlockUnits /\ ~Found /\ seen' = [seen EXCEPT !.past = @ \/ f_buf[blockoffset].reclen <= 0]
        <5>0. seen \in Seens /\ blockoffset \in 0 .. BlockUnits - 1
          <6>1. seen \in Seens
            BY Zenon DEF HistInv
          <6>2. blockoffset \in Nat
            BY DEF Types, SearchTypes
          <6>3. blockoffset < BlockUnits
            BY <4>2, Zenon
          <6> QED BY <6>1, <6>2, <6>3, Sizes
        <5>1. f_buf[blockoffset].reclen > 0
          BY <3>5, <4>2, Zenon
        <5>2. f_buf[blockoffset] \in Entries(vol)
          BY <5>0 DEF Types, FileTypes
        <5>3. f_buf[blockoffset].reclen \in Int
          <6> DEFINE e == f_buf[blockoffset]
          <6> HIDE DEF e
          <6>1. e \in Entries(vol) => e.reclen \in Int
            BY Sizes DEF Entries, Junk
          <6> QED BY <5>2, <6>1 DEF e
        <5>4. ~(f_buf[blockoffset].reclen <= 0)
          BY <5>1, <5>3
        <5>5. seen'.past = (seen.past \/ f_buf[blockoffset].reclen <= 0)
          BY <4>2, <5>0 DEF Seens
        <5> QED BY <2>2, <5>4, <5>5, Zenon
      <4> QED BY <2>10, <4>1, <4>2, Zenon DEF search_dir
    <3>7. Searching' => pc' # "next"
      BY DEF Searching, ScanRun, Busied, InRun
    <3>8. b \in Blocks(ic)' /\ u \in Units(ic, b)'
      BY <2>0, <3>1, DirFrame
    <3> QED BY <3>5, <3>6, <3>7, <3>8, Zenon
  <2>11. CASE UNCHANGED vars
    <3>1. UNCHANGED << vol, ic, path, offset, pc, seen, blockoffset >> /\ (Searching' <=> Searching)
      BY <2>11 DEF vars, Searching, ScanRun, Busied, InRun
    <3>2. Block' = Block
      BY <3>1 DEF Block
    <3>3. \A x, y : EntryAt(vol, ic, x, y)' = EntryAt(vol, ic, x, y) /\ Units(ic, x)' = Units(ic, x)
          /\ Blocks(ic)' = Blocks(ic)
      BY <3>1, DirFrame
    <3>4. ASSUME NEW b, NEW u, Ahead(b, u) PROVE Ahead(b, u)'
      <4> HIDE DEF Block
      <4> QED BY <3>1, <3>2, <3>3, <3>4 DEF Ahead, AtEntry
    <3>5. Searching => \E b \in Blocks(ic) : \E u \in Units(ic, b) : Ahead(b, u)
      BY <2>0, <2>1, Zenon DEF FindInv
    <3> QED BY <2>2, <3>1, <3>3, <3>4, <3>5, Zenon
  <2>12. CASE ufs_mount \/ OpenDone \/ ufs_bread \/ BreadDone \/ BreadFaults \/ ufs_close
    BY <2>12, NotOpening
  <2> QED BY <1>2, <2>1, <2>5, <2>6, <2>7, <2>8, <2>9, <2>10, <2>11, <2>12, Zenon DEF Next, Step
<1> QED BY <1>1, <1>2

(* An open does not give up on a file that is there. *)
LEMMA NextFinds ==
  Types /\ HistInv /\ ScanInv /\ BufInv /\ PathInv /\ FindInv /\ FindsFile /\ [Next]_vars => FindsFile'
<1> SUFFICES ASSUME Types, HistInv, ScanInv, BufInv, PathInv, FindInv, FindsFile, [Next]_vars,
                    ret'.call = "open", Sought'
             PROVE  ~seen'.past /\ (pc' = "idle" => ret'.val >= 0)
  BY Zenon DEF FindsFile, Sought
<1> USE DEF file, search, counts
<1>1. CASE Opening'
  <2>1. FindInv'
    BY NextFind, Zenon
  <2>2. pc' # "idle"
    BY <1>1 DEF Opening, Looking, ScanRun, Busied, InRun
  <2> QED BY <1>1, <2>1, <2>2, Zenon DEF FindInv
<1>2. CASE ~Opening'
  <2>0. ~ufs_open
    BY <1>2 DEF ufs_open, Opening, Looking
  <2>1. UNCHANGED vol /\ ret'.path = ret.path
    <3>1. UNCHANGED vol
      BY <2>0, Zenon DEF Next, Step, ufs_mount, ReadRoot, Component, OpenDone, block_map, StartRun, ExtendRun,
        RunEnds, Transfer, BreadDone, SearchBlock, BlockIn, search_dir, Descended, Link, FollowLink,
        ufs_bread, BreadFaults, ufs_close, vars
    <3>2. UNCHANGED ret \/ \E c, v : Return(c, v)
      BY <2>0, Zenon DEF Next, Step, ufs_mount, ReadRoot, Component, OpenDone, block_map, StartRun, ExtendRun,
        RunEnds, Transfer, BreadFails, BreadDone, SearchBlock, BlockIn, search_dir, Descended, Link, FollowLink,
        ufs_bread, BreadFaults, ufs_close, vars
    <3> QED BY <3>1, <3>2 DEF Return
  <2>2. Sought /\ ~bad /\ ~seen.root /\ ~Link /\ ~SeenFails
    BY <2>0, <2>1, SoughtBefore, Zenon
  <2>3. /\ seen'.past = seen.past \/ search_dir
        /\ Opening => ~seen.past /\ PathFacts
        /\ ret.call = "open" => ~seen.past /\ (pc = "idle" => ret.val >= 0)
    BY <2>0, <2>2, HistoryStays, Zenon DEF FindInv, PathInv, FindsFile, Sought
  <2>4. ~search_dir
    <3>1. ASSUME search_dir PROVE Opening'
      <4>1. pc' \in {"next", "scan", "search"}
        BY <3>1 DEF search_dir
      <4> QED BY <4>1 DEF Opening, Looking
    <3> QED BY <1>2, <3>1
  <2>5. ASSUME Opening, ret'.val >= 0 \/ pc' # "idle" PROVE ~seen'.past /\ (pc' = "idle" => ret'.val >= 0)
    BY <2>3, <2>4, <2>5, Zenon
  <2>6. ASSUME UNCHANGED ret, pc' # "idle" PROVE ~seen'.past /\ (pc' = "idle" => ret'.val >= 0)
    BY <2>3, <2>4, <2>6, Zenon
  <2>7. CASE ufs_mount \/ BreadDone \/ ufs_close
    BY <2>7 DEF ufs_mount, BreadDone, ufs_close, Return
  <2>8. CASE OpenDone
    <3>1. Opening /\ ret'.val = 0
      BY <2>8 DEF OpenDone, Return, Opening, Looking
    <3>2. ret'.val >= 0
      BY <3>1
    <3> QED BY <2>5, <3>1, <3>2
  <2>9. CASE ufs_bread \/ BreadFaults
    <3>1. UNCHANGED ret /\ pc' # "idle"
      BY <2>9, Zenon DEF ufs_bread, breadi, BreadFaults
    <3> QED BY <2>6, <3>1
  <2>10. CASE Component
    <3>1. pc = "component" /\ path # << >> /\ UNCHANGED seen
      BY <2>10, Zenon DEF Component
    <3>2. Opening
      BY <3>1 DEF Opening, Looking
    <3>3. ic.mode = "dir"
      BY <2>2, <2>3, <3>1, <3>2, ComponentListed, Zenon
    <3>4. pc' = "search"
      BY <2>10, <3>3 DEF Component
    <3> QED BY <2>5, <3>2, <3>4
  <2>11. ASSUME Searching PROVE Covered(Block) /\ offset < ic.size
    <3>1. Opening
      BY <2>11 DEF Searching, Opening, Looking
    <3>2. PICK b \in Blocks(ic) : \E u \in Units(ic, b) : Ahead(b, u)
      BY <2>2, <2>11, <3>1, Zenon DEF FindInv
    <3>3. Block <= b /\ (seen.sized \/ b < NDADDR)
      BY <3>2, Zenon DEF Ahead
    <3> QED BY <3>1, <3>3, AheadCovered, Zenon
  <2>12. CASE SearchBlock
    <3>1. pc = "search"
      BY <2>12, Zenon DEF SearchBlock
    <3>2. Opening /\ Searching
      BY <3>1 DEF Opening, Looking, Searching
    <3>3. ~(offset >= ic.size)
      <4>1. ic.size \in Nat /\ offset \in Nat
        <5>1. InodeSound(vol, ic)
          BY Volume DEF Types, FileTypes
        <5> QED BY <5>1 DEF InodeSound, Types, SearchTypes
      <4> QED BY <2>11, <3>2, <4>1
    <3>4. pc' = "run"
      BY <2>12, <3>3, Zenon DEF SearchBlock, breadi
    <3> QED BY <2>5, <3>2, <3>4
  <2>13. CASE StartRun \/ ExtendRun \/ RunEnds \/ block_map
    <3>1. pc' # "idle"
      BY <2>13 DEF StartRun, ExtendRun, RunEnds, block_map, MapStart, Descend
    <3>2. UNCHANGED ret
      BY <2>13, Zenon DEF StartRun, ExtendRun, RunEnds, block_map
    <3> QED BY <2>6, <3>1, <3>2
  <2>14. CASE Transfer
    <3>0. pc = "transfer"
      BY <2>14, Zenon DEF Transfer
    <3>1. CASE UNCHANGED ret /\ pc' = "run"
      BY <2>6, <3>1
    <3>2. CASE BreadFails /\ ReadFails
      BY <2>2, <3>2 DEF ReadFails, SeenFails
    <3>3. CASE BreadFails /\ g.first = -1
      <4>1. g.back = "scan"
        BY <3>3 DEF BreadFails, Return
      <4>2. ScanRun /\ Searching
        BY <3>0, <4>1 DEF ScanRun, Searching, Busied, InRun
      <4>3. Covered(Block)
        BY <2>11, <4>2
      <4>4. g.first \in Data
        BY <2>2, <3>0, <4>2, <4>3, Zenon DEF ScanInv
      <4> QED BY <3>3, <4>4, HoleData
    <3> QED BY <2>14, <3>1, <3>2, <3>3, Zenon DEF Transfer, Arrives
  <2>15. CASE ReadRoot \/ BlockIn
    BY <1>2, <2>15 DEF ReadRoot, BlockIn, Opening, Looking
  <2>16. CASE Descended \/ FollowLink
    <3>1. ~ReadFails
      BY <2>2, Zenon DEF ReadFails, SeenFails
    <3>2. pc' \in {"link", "component"}
      BY <2>16, <3>1 DEF Descended, FollowLink
    <3> QED BY <1>2, <3>2 DEF Opening, Looking
  <2>17. CASE UNCHANGED vars
    <3>1. UNCHANGED << ret, seen, pc >>
      BY <2>17 DEF vars
    <3> QED BY <2>3, <3>1, Zenon
  <2> QED BY <2>0, <2>2, <2>4, <2>7, <2>8, <2>9, <2>10, <2>12, <2>13, <2>14, <2>15, <2>16, <2>17, Zenon DEF Next, Step
<1> QED BY <1>1, <1>2

LEMMA TypesOK == Types => TypeOK
<1> SUFFICES ASSUME Types PROVE TypeOK
  OBVIOUS
<1>1. /\ vol \in Vols /\ mounted \in BOOLEAN /\ ic \in Inodes /\ failures \in 0 .. MaxFailures
      /\ nlinks \in 0 .. MAXSYMLINKS + 1
  BY Zenon DEF Types, FileTypes, SearchTypes
<1>2. ASSUME NEW l \in Levels PROVE f_blkno[l] \in Int /\ Len(f_blk[l]) <= NINDIR
  <2>1. f_blkno[l] \in Int /\ f_blk[l] \in {Empty} \cup [1 .. NINDIR -> Nat]
    BY DEF Types, FileTypes
  <2>2. NINDIR \in Nat
    BY Sizes
  <2>3. CASE f_blk[l] = Empty
    BY <2>1, <2>2, <2>3 DEF Empty
  <2>4. CASE f_blk[l] \in [1 .. NINDIR -> Nat]
    <3>1. f_blk[l] \in Seq(Nat) /\ Len(f_blk[l]) = NINDIR
      BY <2>2, <2>4
    <3> QED BY <2>1, <2>2, <3>1
  <2> QED BY <2>1, <2>3, <2>4
<1>3. DOMAIN f_buf = 0 .. BlockUnits - 1
  BY DEF Types, FileTypes
<1>4. m.level \in -1 .. NIADDR - 1
  BY Sizes DEF Types, RunTypes
<1>5. /\ g \in Runs /\ g.count <= MaxRun /\ g.from <= g.blkno /\ g.blkno + g.nblks = g.from + g.count
      /\ Len(g.data) <= Frags * (g.blkno - g.from)
  BY DEF Types, RunTypes
<1>6. g.nblks \in 0 .. MaxRun /\ g.blkno - g.from \in 0 .. MaxRun /\ Len(g.data) \in Nat
  <2>1. /\ g.from \in Nat /\ g.count \in Nat /\ g.blkno \in Nat /\ g.nblks \in Nat
        /\ Len(g.data) \in Nat
    BY <1>5, RunFields, Zenon
  <2>2. MaxRun \in Nat
    BY Sizes
  <2>3. g.count <= MaxRun /\ g.from <= g.blkno /\ g.blkno + g.nblks = g.from + g.count
    BY <1>5
  <2> QED BY <2>1, <2>2, <2>3
<1>7. Len(g.data) <= Frags * MaxRun
  <2>1. ASSUME NEW n \in 0 .. MaxRun PROVE Frags * n <= Frags * MaxRun /\ Frags * n \in Nat /\ Frags * MaxRun \in Nat
    BY Sizes
  <2>2. Frags * (g.blkno - g.from) <= Frags * MaxRun /\ Frags * (g.blkno - g.from) \in Nat /\ Frags * MaxRun \in Nat
    BY <1>6, <2>1
  <2> QED BY <1>5, <1>6, <2>2
<1> QED BY <1>1, <1>2, <1>3, <1>4, <1>5, <1>6, <1>7, Zenon DEF TypeOK

OInv == IInv /\ HistInv /\ ScanInv /\ BufInv /\ PathInv /\ FindInv

LEMMA InitOInv == Init => OInv /\ NamedFile /\ FindsFile
<1> SUFFICES ASSUME Init PROVE OInv /\ NamedFile /\ FindsFile
  OBVIOUS
<1>1. IInv
  BY InitIInv
<1>2. pc = "idle" /\ ret.call = "none" /\ offset = 0
  BY DEF Init
<1>3. ~Opening /\ ~ScanRun
  BY <1>2 DEF Opening, Looking, ScanRun, Busied, InRun
<1>4. HistInv
  <2>1. seen = Clear /\ bad = FALSE
    BY DEF Init
  <2>2. seen \in Seens /\ ~seen.root
    BY <2>1 DEF Clear, Seens
  <2> QED BY <1>3, <2>1, <2>2, Zenon DEF HistInv
<1>5. ScanInv
  <2>1. Block = 0
    BY <1>2, Sizes DEF Block
  <2> QED BY <1>2, <1>3, <2>1, Sizes DEF ScanInv
<1> QED BY <1>1, <1>2, <1>3, <1>4, <1>5 DEF OInv, BufInv, PathInv, FindInv, NamedFile, FindsFile

LEMMA NextOInv == OInv /\ [Next]_vars => OInv'
BY NextIInv, NextHist, NextScan, NextBuf, NextPath, NextFind, Zenon DEF OInv, IInv

(* What ufs_open opens is the file the path names, whatever fails on the    *)
(* way, and a file that is there is found when no read fails, for every     *)
(* sound volume: no links, and no entry beyond the direct blocks of its     *)
(* directory before the reaches of the levels are known.                    *)
THEOREM OpensRightInvariance == Spec => []OpensRight
<1>1. Init => OInv /\ NamedFile /\ FindsFile
  BY InitOInv
<1>2. (OInv /\ NamedFile /\ FindsFile) /\ [Next]_vars => (OInv /\ NamedFile /\ FindsFile)'
  BY NextOInv, NextNamed, NextFinds, Zenon DEF OInv, IInv
<1>3. OInv /\ NamedFile /\ FindsFile => OpensRight
  BY TypesOK, Zenon DEF OInv, IInv, OpensRight
<1> QED BY <1>1, <1>2, <1>3, PTL DEF Spec
=============================================================================
