------------------------------ MODULE E2Proofs ------------------------------
(* Proofs about E2writeboot: the file system stays consistent, blocks of    *)
(* other files keep their contents, the boot block describes the bootstrap  *)
(* and a run stops for ever only after an allocation has failed or with a   *)
(* bootstrap smaller than the cache, for every number of groups, every size *)
(* of group and block, every choice of groups that reserve copies of the    *)
(* superblock and every layout that fsck would pass.                        *)
EXTENDS E2writeboot, FiniteSetTheorems, WellFoundedInduction, NaturalsInduction, TLAPS
-----------------------------------------------------------------------------
(* The inductive invariant *)
InFile == {"truncate", "fill", "indirect", "write"}

(* The blocks allocated for the bootstrap. *)
Run == bs_start .. bs_start + nblocks - 1

Contents == {SuperData, TableData, OldData, Entries} \union (Nat \X Nat)

(* What TypeOK leaves out. *)
Shapes ==
  /\ inode \in [Places -> Inodes] /\ data \in [Blks -> Contents]
  /\ dip \in [ip : Inodes, room : BOOLEAN] /\ others \subseteq Blks
  /\ Place(ino) \in Places /\ (dirent # NoEntry => Place(dirent) \in Places)
  /\ pc = "mknod" => dirent = NoEntry
  /\ pc \in {"off", "namei", "truncate", "mknod", "fill", "indirect"} => blkno = 0
  /\ pc \notin {"off", "ruined"} => outcome # "installed"

(* The metadata is marked and nothing points at it, whatever has failed. *)
MetaSafe ==
  /\ Meta \subseteq blockmap
  /\ \A p \in Places : PointedAt(inode[p]) \intersect Meta = {}
  /\ \A b \in Blks, k \in Offsets : ptr[b][k] \notin Meta
  /\ PointedAt(ip) \intersect Meta = {} /\ PointedAt(dip.ip) \intersect Meta = {}

(* The superblock never counts too few free blocks, and the counts of       *)
(* inodes are right until there is an entry.                                *)
Counts ==
  /\ s_free_blocks_count >= Cardinality(Blks \ blockmap)
  /\ dirent = NoEntry \/ failed = {} =>
       /\ \A g \in Groups : bg_free_inodes_count[g] = ZeroCount(inodemap, g, InodesPerGroup)
       /\ s_free_inodes_count = Cardinality(Inums \ inodemap)

(* The bootstrap is in the blocks bs_start, bs_start + 1, ..., and the      *)
(* inode in memory finds them there.                                        *)
Laid ==
  /\ pc = "fill" => ip.block = NoBlocks /\ ip.ind = 0 /\ ip.dind = 0 /\ ip.tind = 0
  /\ pc \in {"indirect", "write"} =>
       /\ nblocks <= ind1lim /\ bs_start \in Blks /\ Run \subseteq Blks \ Meta
       /\ ip.dind = 0 /\ ip.tind = 0
       /\ ip.block = [k \in 0 .. NDir - 1 |-> IF k < nblocks THEN bs_start + k ELSE 0]
  /\ pc = "indirect" => nblocks > directlim /\ ip.ind = 0
  /\ pc = "write" =>
       /\ IF nblocks > directlim THEN ip.ind # 0 /\ ptr[ip.ind] = Rest ELSE ip.ind = 0
       /\ \A k \in 0 .. blkno - 1 : data[bs_start + k] = << run, k >>

(* While no allocation has failed the directory is whole, an entry is that  *)
(* of a linked inode, and the tool works on that inode.                     *)
Healthy ==
  failed = {} =>
    /\ dirent # 0 /\ DirWhole(ptr, dip.ip)
    /\ pc # "hangs" /\ (pc = "crashed" => nblocks + FewestOthers < NBUFS)
    /\ pc = "mknod" => ino # 0
    /\ pc \in {"off", "namei"} /\ dirent # NoEntry => inode[Place(dirent)].links # 0
    /\ pc \in InFile => ip.links # 0 /\ dirent = ino

IInv ==
  /\ TypeOK /\ Shapes /\ MetaSafe /\ Counts /\ Laid /\ Healthy
  /\ BlocksOwned /\ CountsKept /\ NewInodeAtHome /\ OthersKept /\ BootBlockRight
-----------------------------------------------------------------------------
(* Numbers *)
LEMMA MinOf ==
  ASSUME NEW S \in SUBSET Nat, S # {}
  PROVE  Min(S) \in S /\ \A y \in S : Min(S) <= y
<1> DEFINE R == OpToRel(<, Nat)
<1>1. IsWellFoundedOn(R, Nat)
  BY NatLessThanWellFounded, Zenon
<1>2. R = {ss \in Nat \X Nat : ss[1] < ss[2]}
  BY Zenon DEF OpToRel
<1> HIDE DEF R
<1>3. PICK x \in S : \A y \in S : ~(<< y, x >> \in R)
  <2>1. \E x \in S : \A y \in S : ~(<< y, x >> \in R)
    BY <1>1, WFMin, Zenon
  <2> QED BY <2>1
<1>4. ASSUME NEW y \in S PROVE x <= y
  <2>1. << y, x >> \notin R
    BY <1>3
  <2> QED BY <1>2, <2>1
<1> QED BY <1>4 DEF Min

LEMMA DivMod ==
  ASSUME NEW n \in Nat \ {0}, NEW a \in Nat
  PROVE  /\ a \div n \in Nat /\ a % n \in 0 .. n - 1
         /\ n * (a \div n) <= a /\ a < n * (a \div n) + n
<1>1. a \div n \in Nat
  OBVIOUS
<1>2. a % n \in 0 .. n - 1
  OBVIOUS
<1>3. n * (a \div n) <= a
  OBVIOUS
<1>4. a < n * (a \div n) + n
  OBVIOUS
<1> QED BY <1>1, <1>2, <1>3, <1>4

LEMMA WholeWords == BlocksPerGroup = BitsPerLong * (BlocksPerGroup \div BitsPerLong)
BY GroupsAssumption

LEMMA TimesLess ==
  ASSUME NEW n \in Nat \ {0}, NEW g \in Nat, NEW h \in Nat, g < h
  PROVE  g * n + n <= h * n
<1>1. (h - g) * n = h * n - g * n
  OBVIOUS
<1>2. h - g \in Nat /\ h - g >= 1
  OBVIOUS
<1>3. (h - g) * n >= n
  BY <1>2
<1> QED BY <1>1, <1>3

LEMMA DivUnique ==
  ASSUME NEW n \in Nat \ {0}, NEW g \in Nat, NEW a \in Nat, g * n <= a, a < g * n + n
  PROVE  a \div n = g
<1> DEFINE q == a \div n
<1>1. q \in Nat /\ q * n <= a /\ a < q * n + n
  BY DivMod
<1> HIDE DEF q
<1>2. g < q => g * n + n <= q * n
  BY <1>1, TimesLess
<1>3. q < g => q * n + n <= g * n
  BY <1>1, TimesLess
<1>4. g * n \in Nat /\ q * n \in Nat
  BY <1>1
<1>5. q = g
  BY <1>1, <1>2, <1>3, <1>4
<1> QED BY <1>5 DEF q

(* Bit k of group g, in groups of n. *)
LEMMA InGroupRange ==
  ASSUME NEW n \in Nat \ {0}, NEW g \in Groups, NEW k \in 0 .. n - 1
  PROVE  /\ g * n + k + 1 \in 1 .. NGroups * n
         /\ (g * n + k) \div n = g
<1>1. g \in Nat /\ g < NGroups /\ NGroups \in Nat
  BY GroupsAssumption DEF Groups
<1>2. g * n + n <= NGroups * n
  BY <1>1, TimesLess
<1>3. g * n \in Nat /\ NGroups * n \in Nat
  BY <1>1
<1>4. g * n + k \in Nat /\ g * n <= g * n + k /\ g * n + k < g * n + n
  BY <1>3
<1>5. (g * n + k) \div n = g
  BY <1>1, <1>4, DivUnique
<1> QED BY <1>2, <1>3, <1>5

LEMMA GroupIs ==
  ASSUME NEW b \in Blks
  PROVE  /\ GroupOf(b) \in Groups
         /\ \A g \in Groups : GroupOf(b) = g <=>
              b - 1 - g * BlocksPerGroup \in 0 .. BlocksPerGroup - 1
<1> DEFINE n == BlocksPerGroup
           q == (b - 1) \div n
<1>1. n \in Nat \ {0} /\ NGroups \in Nat \ {0}
  BY GroupsAssumption
<1>2. b - 1 \in Nat /\ b - 1 < NGroups * n
  BY <1>1 DEF Blks
<1> HIDE DEF n
<1>a. q \in Nat /\ n * q <= b - 1 /\ b - 1 < n * q + n
  BY <1>1, <1>2, DivMod
<1> HIDE DEF q
<1>b. n * q = q * n
  BY <1>1, <1>a
<1>3. q \in Nat /\ q * n <= b - 1 /\ b - 1 < q * n + n
  BY <1>a, <1>b
<1>4. q < NGroups
  <2>1. CASE q = NGroups
    <3>1. ~(NGroups * n <= b - 1)
      BY <1>1, <1>2
    <3> QED BY <1>3, <2>1, <3>1
  <2>2. CASE NGroups < q
    <3>1. NGroups * n + n <= q * n
      BY <1>1, <1>3, <2>2, TimesLess
    <3> QED BY <1>1, <1>2, <1>3, <3>1
  <2> QED BY <1>1, <1>3, <2>1, <2>2
<1>5. GroupOf(b) = q
  BY DEF GroupOf, n, q
<1>6. ASSUME NEW g \in Groups
      PROVE  GroupOf(b) = g <=> b - 1 - g * n \in 0 .. n - 1
  <2>1. g \in Nat /\ g * n \in Nat
    BY <1>1 DEF Groups
  <2>2. ASSUME b - 1 - g * n \in 0 .. n - 1 PROVE GroupOf(b) = g
    <3>1. g * n <= b - 1 /\ b - 1 < g * n + n
      BY <1>1, <1>2, <2>1, <2>2
    <3>2. (b - 1) \div n = g
      BY <1>1, <1>2, <2>1, <3>1, DivUnique
    <3> QED BY <3>2 DEF GroupOf, n
  <2>3. q * n \in Nat
    BY <1>1, <1>3
  <2>4. b - 1 - q * n \in 0 .. n - 1
    BY <1>1, <1>2, <1>3, <2>3
  <2> QED BY <1>5, <2>2, <2>4
<1>7. GroupOf(b) \in Groups
  BY <1>1, <1>3, <1>4, <1>5 DEF Groups
<1> QED BY <1>6, <1>7 DEF n
-----------------------------------------------------------------------------
(* Allocation *)

(* What FirstFree returns is free, is not bit 0 of its group, and in front  *)
(* of it the group is full.                                                 *)
LEMMA FirstFreeIs ==
  ASSUME NEW m, NEW free \in [Groups -> Nat], NEW least \in Nat, NEW size \in Nat \ {0},
         FirstFree(m, free, least, size) # 0
  PROVE  \E g \in Groups, k \in 1 .. size - 1 :
           /\ FirstFree(m, free, least, size) = g * size + k + 1
           /\ g * size + k + 1 \notin m /\ free[g] > least
           /\ \A j \in ZeroBits(m, g, size) : k <= j
<1> DEFINE U == Usable(m, free, least, size)
           g == Min(U)
           Z == ZeroBits(m, g, size)
           k == Min(Z)
<1>1. U # {} /\ FirstFree(m, free, least, size) = g * size + FirstZeroBit(m, g, size) + 1
  BY DEF FirstFree
<1>2. U \subseteq Groups /\ Groups \subseteq Nat
  BY DEF Usable, Groups
<1>3. g \in U
  <2>1. U \in SUBSET Nat
    BY <1>2
  <2> QED BY <1>1, <2>1, MinOf
<1>4. g \in Groups /\ free[g] > least /\ FirstZeroBit(m, g, size) \notin {0, size}
  BY <1>3 DEF Usable
<1> HIDE DEF U, g
<1>5. Z # {} /\ FirstZeroBit(m, g, size) = k
  BY <1>4 DEF FirstZeroBit
<1>6. Z \in SUBSET Nat
  BY DEF ZeroBits
<1>7. k \in Z /\ \A j \in Z : k <= j
  BY <1>5, <1>6, MinOf
<1>8. k \in 0 .. size - 1 /\ g * size + k + 1 \notin m
  BY <1>7 DEF ZeroBits
<1> HIDE DEF k
<1>9. k \in 1 .. size - 1
  BY <1>4, <1>5, <1>8
<1>10. FirstFree(m, free, least, size) = g * size + k + 1
  BY <1>1, <1>5
<1> QED BY <1>4, <1>7, <1>8, <1>9, <1>10

LEMMA BallocFree ==
  ASSUME TypeOK, balloc # 0
  PROVE  /\ balloc \in Blks \ blockmap
         /\ bg_free_blocks_count[GroupOf(balloc)] > 0
<1> DEFINE n == BlocksPerGroup
<1>1. n \in Nat \ {0} /\ bg_free_blocks_count \in [Groups -> Nat] /\ 0 \in Nat
  BY GroupsAssumption DEF TypeOK
<1>2. balloc = FirstFree(blockmap, bg_free_blocks_count, 0, n)
  BY DEF balloc, ext2_balloc
<1>3. PICK g \in Groups, k \in 1 .. n - 1 :
        /\ balloc = g * n + k + 1 /\ g * n + k + 1 \notin blockmap
        /\ bg_free_blocks_count[g] > 0
  <2>1. \E g \in Groups, k \in 1 .. n - 1 :
           /\ FirstFree(blockmap, bg_free_blocks_count, 0, n) = g * n + k + 1
           /\ g * n + k + 1 \notin blockmap /\ bg_free_blocks_count[g] > 0
           /\ \A j \in ZeroBits(blockmap, g, n) : k <= j
    BY <1>1, <1>2, FirstFreeIs
  <2> QED BY <1>2, <2>1
<1>4. g * n + k + 1 \in 1 .. NGroups * n /\ (g * n + k) \div n = g
  BY <1>1, InGroupRange
<1>5. g * n \in Nat /\ k \in Nat
  BY <1>1 DEF Groups
<1>6. balloc - 1 = g * n + k
  BY <1>3, <1>5
<1> QED BY <1>3, <1>4, <1>6 DEF Blks, GroupOf

(* ext2_contiguous_balloc: a run of free blocks in one group. *)
LEMMA ContiguousFree ==
  ASSUME TypeOK, First # 0
  PROVE  /\ First \in Blks /\ First .. First + nblocks - 1 \subseteq Blks \ blockmap
         /\ \E g \in Groups :
              /\ bg_free_blocks_count[g] >= nblocks
              /\ \A b \in First .. First + nblocks - 1 : GroupOf(b) = g
<1> DEFINE n == BlocksPerGroup
           B == BitsPerLong
           c == longs_needed(nblocks)
           G == Roomy(blockmap, bg_free_blocks_count, nblocks)
           g == Min(G)
           W == Runs(blockmap, g, nblocks)
           w == Min(W)
<1>1. n \in Nat \ {0} /\ B \in Nat \ {0} /\ n % B = 0 /\ nblocks \in Nat
  BY GroupsAssumption, BoundsAssumption DEF TypeOK
<1>2. G # {} /\ First = g * n + w * B + 1
  BY DEF First, ext2_contiguous_balloc
<1>3. g \in G
  <2>1. G \in SUBSET Nat
    BY DEF Roomy, Groups
  <2> QED BY <1>2, <2>1, MinOf
<1>4. g \in Groups /\ bg_free_blocks_count[g] >= nblocks /\ W # {}
  BY <1>3 DEF Roomy
<1> HIDE DEF G, g
<1>5. w \in W
  <2>1. W \in SUBSET Nat
    BY DEF Runs
  <2> QED BY <1>4, <2>1, MinOf
<1>6. /\ w \in 0 .. longs_per_group - 1 /\ WordFree(blockmap, g, w)
      /\ w + c <= longs_per_group
      /\ \A u \in w .. w + c - 1 : WordFree(blockmap, g, u)
  BY <1>5 DEF Runs
<1> HIDE DEF W, w
<1>7. longs_per_group \in Nat /\ longs_per_group * B = n
  <2>1. n \div B \in Nat /\ B * (n \div B) <= n /\ n < B * (n \div B) + B
    BY <1>1, DivMod
  <2>2. n = B * (n \div B)
    BY WholeWords
  <2>3. B * (n \div B) = (n \div B) * B
    BY <1>1, <2>1
  <2> QED BY <1>1, <2>1, <2>2, <2>3 DEF longs_per_group
<1>8. c \in Nat /\ nblocks <= c * B
  <2>1. nblocks + B - 1 \in Nat /\ c = (nblocks + B - 1) \div B
    BY <1>1 DEF longs_needed
  <2>2. c \in Nat /\ nblocks + B - 1 < B * c + B
    BY <1>1, <2>1, DivMod
  <2> HIDE DEF c
  <2>3. B * c = c * B /\ B * c \in Nat
    BY <1>1, <2>2
  <2> QED BY <1>1, <2>2, <2>3
<1> HIDE DEF c
<1>9. w \in Nat /\ w * B \in Nat /\ g \in Nat /\ g * n \in Nat
  BY <1>1, <1>4, <1>6, <1>7 DEF Groups
<1>10. w * B \in 0 .. n - 1
  <2>1. w * B + B <= longs_per_group * B
    BY <1>1, <1>6, <1>7, <1>9, TimesLess
  <2> QED BY <1>1, <1>7, <1>9, <2>1
<1>11. First \in Blks
  BY <1>1, <1>2, <1>4, <1>10, InGroupRange DEF Blks
<1>12. ASSUME NEW b \in First .. First + nblocks - 1
       PROVE  b \in Blks /\ b \notin blockmap /\ GroupOf(b) = g
  <2> DEFINE x == b - First
             u == x \div B
             r == x % B
  <2>1. x \in Nat /\ x < nblocks /\ b = First + x
    BY <1>1, <1>2, <1>9
  <2> HIDE DEF x
  <2>2. u \in Nat /\ r \in 0 .. B - 1 /\ B * u <= x /\ x = B * u + r
    <3>1. u \in Nat /\ r \in 0 .. B - 1 /\ B * u <= x
      BY <1>1, <2>1, DivMod
    <3>2. x = B * u + r
      BY <1>1, <2>1
    <3> QED BY <3>1, <3>2
  <2> HIDE DEF u, r
  <2>3. u < c
    <3>1. CASE u = c
      <4>1. B * u = c * B
        BY <1>1, <1>8, <2>2, <3>1
      <4> QED BY <1>1, <1>8, <2>1, <2>2, <4>1
    <3>2. CASE c < u
      <4>1. c * B + B <= u * B
        BY <1>1, <1>8, <2>2, <3>2, TimesLess
      <4>2. u * B = B * u
        BY <1>1, <2>2
      <4> QED BY <1>1, <1>8, <2>1, <2>2, <4>1, <4>2
    <3> QED BY <1>8, <2>2, <3>1, <3>2
  <2>4. w + u \in w .. w + c - 1
    BY <1>8, <1>9, <2>2, <2>3
  <2>5. g * n + (w + u) * B + r + 1 \notin blockmap
    BY <1>6, <2>2, <2>4 DEF WordFree
  <2>6. /\ (w + u) * B = w * B + B * u
        /\ (w + u) * B \in Nat /\ B * u \in Nat /\ r \in Nat
    BY <1>1, <1>9, <2>2
  <2>7. b = g * n + ((w + u) * B + r) + 1
    <3>1. b = (g * n + w * B + 1) + (B * u + r)
      BY <1>2, <2>1, <2>2
    <3> HIDE DEF n, B
    <3> QED BY <1>9, <2>6, <3>1
  <2>8. (w + u) * B + r \in 0 .. n - 1
    <3>1. w + u < longs_per_group
      BY <1>6, <1>7, <1>8, <1>9, <2>2, <2>3
    <3>2. (w + u) * B + B <= longs_per_group * B
      BY <1>1, <1>7, <1>9, <2>2, <3>1, TimesLess
    <3> QED BY <1>1, <1>7, <2>2, <2>6, <3>2
  <2> DEFINE k == (w + u) * B + r
  <2>9. g * n + k + 1 \in 1 .. NGroups * n /\ (g * n + k) \div n = g
    BY <1>1, <1>4, <2>8, InGroupRange
  <2>10. k \in Nat /\ b = g * n + k + 1 /\ b - 1 = g * n + k
    BY <1>1, <1>9, <2>7, <2>8
  <2>11. b \notin blockmap
    BY <1>9, <2>2, <2>5, <2>6, <2>7
  <2> HIDE DEF k
  <2> QED BY <2>9, <2>10, <2>11 DEF Blks, GroupOf
<1> QED BY <1>4, <1>11, <1>12
-----------------------------------------------------------------------------
(* Free counts *)
Taken(U, m, S) ==
  /\ Cardinality(U \ m) \in Nat /\ Cardinality(S) \in Nat
  /\ Cardinality(U \ (m \union S)) = Cardinality(U \ m) - Cardinality(S)
  /\ Cardinality(U \ (m \union S)) \in Nat

LEMMA CardTake ==
  ASSUME NEW U, IsFiniteSet(U), NEW m, NEW S \in SUBSET (U \ m)
  PROVE  Taken(U, m, S)
<1>1. IsFiniteSet(U \ m)
  BY FS_Difference
<1>2. IsFiniteSet(S)
  BY <1>1, FS_Subset
<1>3. U \ (m \union S) = (U \ m) \ S /\ (U \ m) \intersect S = S
  OBVIOUS
<1>4. IsFiniteSet((U \ m) \ S)
  BY <1>1, FS_Difference
<1>5. Cardinality((U \ m) \ S) = Cardinality(U \ m) - Cardinality((U \ m) \intersect S)
  BY <1>1, FS_Difference
<1> QED BY <1>1, <1>2, <1>3, <1>4, <1>5, FS_CardinalityType DEF Taken

Given(U, m, S) ==
  /\ Cardinality(U \ m) \in Nat /\ Cardinality(S) \in Nat
  /\ Cardinality(U \ (m \ S)) \in Nat
  /\ Cardinality(U \ (m \ S)) <= Cardinality(U \ m) + Cardinality(S)
  /\ S \subseteq m => Cardinality(U \ (m \ S)) = Cardinality(U \ m) + Cardinality(S)

LEMMA CardGive ==
  ASSUME NEW U, IsFiniteSet(U), NEW m, NEW S \in SUBSET U
  PROVE  Given(U, m, S)
<1>1. IsFiniteSet(U \ m)
  BY FS_Difference
<1>2. IsFiniteSet(S)
  BY FS_Subset
<1> DEFINE V == U \ m
           I == V \intersect S
<1>3. U \ (m \ S) = V \union S
  OBVIOUS
<1>4. IsFiniteSet(V \union S) /\ Cardinality(V \union S) = Cardinality(V) + Cardinality(S) - Cardinality(I)
  BY <1>1, <1>2, FS_Union
<1>5. IsFiniteSet(I)
  <2>1. I \in SUBSET S
    OBVIOUS
  <2> QED BY <1>2, <2>1, FS_Subset
<1>6. Cardinality(V) \in Nat /\ Cardinality(S) \in Nat /\ Cardinality(I) \in Nat
      /\ Cardinality(V \union S) \in Nat
  BY <1>1, <1>2, <1>4, <1>5, FS_CardinalityType
<1>7. S \subseteq m => Cardinality(I) = 0
  <2>1. S \subseteq m => I = {}
    OBVIOUS
  <2> QED BY <2>1, FS_EmptySet
<1>8. Cardinality(U \ m) = Cardinality(V) /\ Cardinality(U \ (m \ S)) = Cardinality(V \union S)
  BY <1>3
<1> HIDE DEF I, V
<1> QED BY <1>4, <1>6, <1>7, <1>8 DEF Given

(* The numbers of group g, in groups of n. *)
GroupSet(g, n) == g * n + 1 .. g * n + n

LEMMA GroupFinite ==
  ASSUME NEW n \in Nat \ {0}, NEW g \in Groups
  PROVE  IsFiniteSet(GroupSet(g, n))
<1>1. g * n + 1 \in Int /\ g * n + n \in Int
  BY DEF Groups
<1> QED BY <1>1, FS_Interval DEF GroupSet

LEMMA ZeroCountIs ==
  ASSUME NEW m, NEW n \in Nat \ {0}, NEW g \in Groups
  PROVE  ZeroCount(m, g, n) = Cardinality(GroupSet(g, n) \ m)
<1> DEFINE S == ZeroBits(m, g, n)
           T == GroupSet(g, n) \ m
           f == [k \in S |-> g * n + k + 1]
<1>1. g * n \in Nat
  BY DEF Groups
<1>2. IsFiniteSet(S)
  <2>1. S \in SUBSET (0 .. n - 1)
    BY DEF ZeroBits
  <2>2. IsFiniteSet(0 .. n - 1)
    BY FS_Interval
  <2> QED BY <2>1, <2>2, FS_Subset
<1>3. ASSUME NEW k \in S PROVE g * n + k + 1 \in T
  BY <1>1 DEF ZeroBits, GroupSet
<1>4. ASSUME NEW b \in T PROVE b - 1 - g * n \in S /\ g * n + (b - 1 - g * n) + 1 = b
  <2>1. b \in Int /\ b >= g * n + 1 /\ b <= g * n + n /\ b \notin m
    BY <1>1 DEF GroupSet
  <2>2. g * n + (b - 1 - g * n) + 1 = b /\ b - 1 - g * n \in 0 .. n - 1
    BY <1>1, <2>1
  <2> QED BY <2>1, <2>2 DEF ZeroBits
<1>5. f \in [S -> T]
  BY <1>3
<1>6. \A a, b \in S : f[a] = f[b] => a = b
  BY <1>1 DEF ZeroBits
<1>7. ASSUME NEW b \in T PROVE \E a \in S : f[a] = b
  BY <1>4
<1> HIDE DEF S, T, f
<1>8. f \in Bijection(S, T)
  BY <1>5, <1>6, <1>7 DEF Bijection, Injection, Surjection, IsInjective
<1>9. ExistsBijection(S, T)
  BY <1>8 DEF ExistsBijection
<1>10. Cardinality(T) = Cardinality(S)
  BY <1>2, <1>9, FS_Bijection
<1> QED BY <1>10 DEF ZeroCount, S, T

LEMMA InGroupIs ==
  ASSUME NEW S \in SUBSET Blks, NEW g \in Groups
  PROVE  {b \in S : GroupOf(b) = g} = S \intersect GroupSet(g, BlocksPerGroup)
<1>1. g * BlocksPerGroup \in Nat /\ BlocksPerGroup \in Nat
  BY GroupsAssumption DEF Groups
<1>2. ASSUME NEW b \in S
      PROVE  GroupOf(b) = g <=> b \in GroupSet(g, BlocksPerGroup)
  <2>1. GroupOf(b) = g <=> b - 1 - g * BlocksPerGroup \in 0 .. BlocksPerGroup - 1
    BY GroupIs
  <2>2. b \in Int
    BY DEF Blks
  <2> QED BY <1>1, <2>1, <2>2 DEF GroupSet
<1> QED BY <1>2

LEMMA BlksFinite == IsFiniteSet(Blks) /\ IsFiniteSet(Inums)
<1>1. NGroups * BlocksPerGroup \in Int /\ NGroups * InodesPerGroup \in Int
  BY GroupsAssumption
<1> QED BY <1>1, FS_Interval DEF Blks, Inums

BlockCountsRight ==
  /\ \A g \in Groups : bg_free_blocks_count[g] = ZeroCount(blockmap, g, BlocksPerGroup)
  /\ s_free_blocks_count = Cardinality(Blks \ blockmap)

InodeCountsRight ==
  /\ \A g \in Groups : bg_free_inodes_count[g] = ZeroCount(inodemap, g, InodesPerGroup)
  /\ s_free_inodes_count = Cardinality(Inums \ inodemap)

(* What every allocation and every truncation keeps of the counts. *)
CountsStay ==
  /\ blockmap' \subseteq Blks /\ bg_free_blocks_count' \in [Groups -> Nat]
  /\ s_free_blocks_count' \in Nat
  /\ s_free_blocks_count' >= Cardinality(Blks \ blockmap')

(* Marking free blocks, where the groups have them to give. *)
LEMMA MarkKeeps ==
  ASSUME TypeOK, Counts, NEW S \in SUBSET (Blks \ blockmap), Mark(S),
         \A g \in Groups : InGroup(S, g) <= bg_free_blocks_count[g]
  PROVE  CountsStay /\ (BlockCountsRight => BlockCountsRight')
<1> DEFINE n == BlocksPerGroup
<1>1. /\ blockmap' = blockmap \union S
      /\ bg_free_blocks_count' = [g \in Groups |-> bg_free_blocks_count[g] - InGroup(S, g)]
      /\ s_free_blocks_count' = s_free_blocks_count - Cardinality(S)
  BY DEF Mark
<1>2. /\ blockmap \subseteq Blks /\ bg_free_blocks_count \in [Groups -> Nat]
      /\ s_free_blocks_count \in Nat /\ s_free_blocks_count >= Cardinality(Blks \ blockmap)
      /\ n \in Nat \ {0}
  BY GroupsAssumption DEF TypeOK, Counts
<1>3. /\ Cardinality(Blks \ blockmap) \in Nat /\ Cardinality(S) \in Nat
      /\ Cardinality(Blks \ (blockmap \union S)) = Cardinality(Blks \ blockmap) - Cardinality(S)
      /\ Cardinality(Blks \ (blockmap \union S)) \in Nat
  <2>1. Taken(Blks, blockmap, S)
    BY BlksFinite, CardTake
  <2> QED BY <2>1 DEF Taken
<1>4. ASSUME NEW g \in Groups
      PROVE  /\ InGroup(S, g) \in Nat
             /\ ZeroCount(blockmap \union S, g, n) = ZeroCount(blockmap, g, n) - InGroup(S, g)
  <2> DEFINE U == GroupSet(g, n)
             Q == S \intersect U
  <2>1. InGroup(S, g) = Cardinality(Q)
    <3>1. S \in SUBSET Blks
      OBVIOUS
    <3> QED BY <3>1, InGroupIs DEF InGroup
  <2>2. IsFiniteSet(U)
    BY <1>2, GroupFinite
  <2>3. Q \in SUBSET (U \ blockmap)
    OBVIOUS
  <2>4. U \ (blockmap \union S) = U \ (blockmap \union Q)
    OBVIOUS
  <2> HIDE DEF Q, U
  <2>5. /\ Cardinality(Q) \in Nat
        /\ Cardinality(U \ (blockmap \union Q)) = Cardinality(U \ blockmap) - Cardinality(Q)
    <3>1. Taken(U, blockmap, Q)
      BY <2>2, <2>3, CardTake
    <3> QED BY <3>1 DEF Taken
  <2>6. /\ ZeroCount(blockmap \union S, g, n) = Cardinality(U \ (blockmap \union S))
        /\ ZeroCount(blockmap, g, n) = Cardinality(U \ blockmap)
    BY <1>2, ZeroCountIs DEF U
  <2> QED BY <2>1, <2>4, <2>5, <2>6
<1>5. bg_free_blocks_count' \in [Groups -> Nat]
  BY <1>1, <1>2, <1>4
<1>6. ASSUME BlockCountsRight PROVE BlockCountsRight'
  BY <1>1, <1>3, <1>4, <1>6 DEF BlockCountsRight
<1> QED BY <1>1, <1>2, <1>3, <1>5, <1>6 DEF CountsStay

(* Freeing blocks. *)
LEMMA FreeKeeps ==
  ASSUME TypeOK, Counts, NEW S \in SUBSET Blks, ext2_bfree(S)
  PROVE  CountsStay /\ (BlockCountsRight /\ S \subseteq blockmap => BlockCountsRight')
<1> DEFINE n == BlocksPerGroup
<1>1. /\ blockmap' = blockmap \ S
      /\ bg_free_blocks_count' = [g \in Groups |-> bg_free_blocks_count[g] + InGroup(S, g)]
      /\ s_free_blocks_count' = s_free_blocks_count + Cardinality(S)
  BY DEF ext2_bfree
<1>2. /\ blockmap \subseteq Blks /\ bg_free_blocks_count \in [Groups -> Nat]
      /\ s_free_blocks_count \in Nat /\ s_free_blocks_count >= Cardinality(Blks \ blockmap)
      /\ n \in Nat \ {0}
  BY GroupsAssumption DEF TypeOK, Counts
<1>3. /\ Cardinality(Blks \ blockmap) \in Nat /\ Cardinality(S) \in Nat
      /\ Cardinality(Blks \ (blockmap \ S)) \in Nat
      /\ Cardinality(Blks \ (blockmap \ S)) <= Cardinality(Blks \ blockmap) + Cardinality(S)
      /\ S \subseteq blockmap =>
           Cardinality(Blks \ (blockmap \ S)) = Cardinality(Blks \ blockmap) + Cardinality(S)
  <2>1. Given(Blks, blockmap, S)
    BY BlksFinite, CardGive
  <2> QED BY <2>1 DEF Given
<1>4. ASSUME NEW g \in Groups
      PROVE  /\ InGroup(S, g) \in Nat
             /\ S \subseteq blockmap =>
                  ZeroCount(blockmap \ S, g, n) = ZeroCount(blockmap, g, n) + InGroup(S, g)
  <2> DEFINE U == GroupSet(g, n)
             Q == S \intersect U
  <2>1. InGroup(S, g) = Cardinality(Q)
    BY InGroupIs DEF InGroup
  <2>2. IsFiniteSet(U)
    BY <1>2, GroupFinite
  <2>3. Q \in SUBSET U /\ (S \subseteq blockmap => Q \subseteq blockmap)
    OBVIOUS
  <2>4. U \ (blockmap \ S) = U \ (blockmap \ Q)
    OBVIOUS
  <2> HIDE DEF Q, U
  <2>5. /\ Cardinality(Q) \in Nat
        /\ Q \subseteq blockmap =>
             Cardinality(U \ (blockmap \ Q)) = Cardinality(U \ blockmap) + Cardinality(Q)
    <3>1. Given(U, blockmap, Q)
      BY <2>2, <2>3, CardGive
    <3> QED BY <3>1 DEF Given
  <2>6. /\ ZeroCount(blockmap \ S, g, n) = Cardinality(U \ (blockmap \ S))
        /\ ZeroCount(blockmap, g, n) = Cardinality(U \ blockmap)
    BY <1>2, ZeroCountIs DEF U
  <2> QED BY <2>1, <2>3, <2>4, <2>5, <2>6
<1>5. bg_free_blocks_count' \in [Groups -> Nat]
  BY <1>1, <1>2, <1>4
<1>6. ASSUME BlockCountsRight, S \subseteq blockmap PROVE BlockCountsRight'
  BY <1>1, <1>3, <1>4, <1>6 DEF BlockCountsRight
<1> QED BY <1>1, <1>2, <1>3, <1>5, <1>6 DEF CountsStay

LEMMA MarkOne ==
  ASSUME TypeOK, Counts, balloc # 0, Mark({balloc})
  PROVE  CountsStay /\ (BlockCountsRight => BlockCountsRight')
<1> DEFINE b == balloc
           S == {b}
<1>1. b \in Blks \ blockmap /\ bg_free_blocks_count[GroupOf(b)] > 0
  BY BallocFree
<1>2. ASSUME NEW g \in Groups PROVE InGroup(S, g) <= bg_free_blocks_count[g]
  <2> HIDE DEF b
  <2>1. bg_free_blocks_count[g] \in Nat
    BY DEF TypeOK
  <2>2. CASE GroupOf(b) = g
    <3>1. {x \in {b} : GroupOf(x) = g} = {b}
      BY <2>2
    <3>2. InGroup(S, g) = 1
      BY <3>1, FS_Singleton DEF InGroup
    <3> QED BY <1>1, <2>1, <2>2, <3>2
  <2>3. CASE GroupOf(b) # g
    <3>1. {x \in {b} : GroupOf(x) = g} = {}
      BY <2>3
    <3>2. InGroup(S, g) = 0
      BY <3>1, FS_EmptySet DEF InGroup
    <3> QED BY <2>1, <3>2
  <2> QED BY <2>2, <2>3
<1>3. S \in SUBSET (Blks \ blockmap)
  BY <1>1
<1>4. Mark(S)
  OBVIOUS
<1> HIDE DEF S
<1> QED BY <1>2, <1>3, <1>4, MarkKeeps

LEMMA MarkRun ==
  ASSUME TypeOK, Counts, First # 0, Mark(First .. First + nblocks - 1)
  PROVE  CountsStay /\ (BlockCountsRight => BlockCountsRight')
<1> DEFINE S == First .. First + nblocks - 1
<1>1. First \in Blks /\ S \subseteq Blks \ blockmap
  BY ContiguousFree
<1>2. PICK g0 \in Groups : /\ bg_free_blocks_count[g0] >= nblocks
                           /\ \A b \in S : GroupOf(b) = g0
  BY ContiguousFree
<1>3. IsFiniteSet(S) /\ Cardinality(S) = nblocks
  <2>1. First \in Int /\ First + nblocks - 1 \in Int /\ nblocks \in Nat
    BY <1>1, BoundsAssumption DEF Blks, TypeOK
  <2>2. (IF First > First + nblocks - 1 THEN 0 ELSE (First + nblocks - 1) - First + 1) = nblocks
    BY <2>1
  <2> QED BY <2>1, <2>2, FS_Interval
<1>4. S \in SUBSET (Blks \ blockmap) /\ Mark(S)
  BY <1>1
<1> HIDE DEF S
<1>5. ASSUME NEW g \in Groups PROVE InGroup(S, g) <= bg_free_blocks_count[g]
  <2>1. bg_free_blocks_count[g] \in Nat /\ nblocks \in Nat
    BY BoundsAssumption DEF TypeOK
  <2>2. CASE g = g0
    <3>1. {x \in S : GroupOf(x) = g} = S
      BY <1>2, <2>2
    <3>2. InGroup(S, g) = nblocks
      BY <1>3, <3>1 DEF InGroup
    <3> QED BY <1>2, <2>1, <2>2, <3>2
  <2>3. CASE g # g0
    <3>1. {x \in S : GroupOf(x) = g} = {}
      BY <1>2, <2>3
    <3>2. InGroup(S, g) = 0
      BY <3>1, FS_EmptySet DEF InGroup
    <3> QED BY <2>1, <3>2
  <2> QED BY <2>2, <2>3
<1> QED BY <1>4, <1>5, MarkKeeps

(* Inode numbers *)
LEMMA PlaceZero == Place(0) \in Places
<1>1. InodesPerGroup \in Nat \ {0} /\ NGroups \in Nat \ {0}
  BY GroupsAssumption
<1>2. 0 \div InodesPerGroup = 0
  BY <1>1
<1>3. (0 - 1) % InodesPerGroup \in 0 .. InodesPerGroup - 1
  BY <1>1
<1>4. 0 \in Groups
  BY <1>1 DEF Groups
<1> QED BY <1>2, <1>3, <1>4 DEF Place, Places

(* ext2_ialloc returns a free inode, which is not the last of its group     *)
(* because another one of the group is free too.                            *)
LEMMA IallocFree ==
  ASSUME TypeOK, InodeCountsRight, NEW i, i = ext2_ialloc(inodemap, bg_free_inodes_count), i # 0
  PROVE  /\ i \in Inums \ inodemap /\ (i - 1) \div InodesPerGroup \in Groups
         /\ bg_free_inodes_count[(i - 1) \div InodesPerGroup] > 0
         /\ Place(i) = Home(i) /\ Place(i) \in Places
<1> DEFINE n == InodesPerGroup
<1>1. /\ n \in Nat \ {0} /\ bg_free_inodes_count \in [Groups -> Nat]
      /\ InodeSlop \in Nat /\ InodeSlop > 0
  BY GroupsAssumption DEF TypeOK
<1>2. i = FirstFree(inodemap, bg_free_inodes_count, InodeSlop, n)
  BY DEF ext2_ialloc
<1>3. PICK g \in Groups, k \in 1 .. n - 1 :
        /\ i = g * n + k + 1 /\ g * n + k + 1 \notin inodemap
        /\ bg_free_inodes_count[g] > InodeSlop
        /\ \A j \in ZeroBits(inodemap, g, n) : k <= j
  <2>1. \E g \in Groups, k \in 1 .. n - 1 :
           /\ FirstFree(inodemap, bg_free_inodes_count, InodeSlop, n) = g * n + k + 1
           /\ g * n + k + 1 \notin inodemap /\ bg_free_inodes_count[g] > InodeSlop
           /\ \A j \in ZeroBits(inodemap, g, n) : k <= j
    BY <1>1, <1>2, FirstFreeIs
  <2> QED BY <1>2, <2>1
<1> HIDE DEF n
<1>4. g * n + k + 1 \in 1 .. NGroups * n /\ (g * n + k) \div n = g
  BY <1>1, InGroupRange
<1>5. g \in Nat /\ g * n \in Nat /\ k \in Nat
  BY <1>1 DEF Groups
<1>6. i - 1 = g * n + k
  BY <1>3, <1>5
<1>7. k # n - 1
  <2> SUFFICES ASSUME k = n - 1 PROVE FALSE
    OBVIOUS
  <2> DEFINE Z == ZeroBits(inodemap, g, n)
  <2>1. Z \in SUBSET {k}
    <3>1. ASSUME NEW j \in Z PROVE j = k
      <4>1. j \in 0 .. n - 1
        BY DEF ZeroBits
      <4> QED BY <1>1, <1>3, <4>1
    <3> QED BY <3>1
  <2>2. IsFiniteSet({k}) /\ Cardinality({k}) = 1
    BY FS_Singleton
  <2>3. IsFiniteSet(Z) /\ Cardinality(Z) <= 1
    BY <2>1, <2>2, FS_Subset
  <2>4. bg_free_inodes_count[g] = Cardinality(Z)
    BY DEF InodeCountsRight, ZeroCount, n
  <2> HIDE DEF Z
  <2>5. Cardinality(Z) \in Nat
    BY <2>3, FS_CardinalityType
  <2> QED BY <1>1, <1>3, <2>3, <2>4, <2>5
<1>8. i \div n = g
  <2>1. i \in Nat /\ g * n <= i /\ i < g * n + n
    BY <1>1, <1>3, <1>5, <1>7
  <2> QED BY <1>1, <1>5, <2>1, DivUnique
<1>9. (i - 1) \div n = g
  BY <1>4, <1>6
<1>10. (i - 1) % n \in 0 .. n - 1
  <2>1. i - 1 \in Nat
    BY <1>5, <1>6
  <2> QED BY <1>1, <2>1, DivMod
<1>11. Place(i) = << g, (i - 1) % n >> /\ Home(i) = << g, (i - 1) % n >>
  BY <1>8, <1>9 DEF Place, Home, n
<1>12. bg_free_inodes_count[g] > 0
  BY <1>1, <1>3
<1> QED BY <1>3, <1>4, <1>9, <1>10, <1>11, <1>12 DEF Inums, Places, n

(* Marking a free inode keeps the counts right. *)
LEMMA InodeMarked ==
  ASSUME TypeOK, InodeCountsRight, NEW i \in Inums \ inodemap,
         NEW g \in Groups, g = (i - 1) \div InodesPerGroup,
         inodemap' = inodemap \union {i},
         bg_free_inodes_count' = [bg_free_inodes_count EXCEPT ![g] = @ - 1],
         s_free_inodes_count' = s_free_inodes_count - 1
  PROVE  InodeCountsRight' /\ s_free_inodes_count' \in Nat
<1> DEFINE n == InodesPerGroup
<1>1. n \in Nat \ {0} /\ bg_free_inodes_count \in [Groups -> Nat]
  BY GroupsAssumption DEF TypeOK
<1>2. IsFiniteSet({i}) /\ Cardinality({i}) = 1
  BY FS_Singleton
<1>3. Taken(Inums, inodemap, {i})
  <2>1. {i} \in SUBSET (Inums \ inodemap)
    OBVIOUS
  <2> QED BY <2>1, BlksFinite, CardTake
<1>4. s_free_inodes_count' = Cardinality(Inums \ inodemap') /\ s_free_inodes_count' \in Nat
  BY <1>2, <1>3 DEF Taken, InodeCountsRight
<1>5. i - 1 \in Nat /\ i \in Int
  BY GroupsAssumption DEF Inums
<1>6. i \in GroupSet(g, n)
  <2>1. /\ g \in Nat /\ n * g <= i - 1 /\ i - 1 < n * g + n
    BY <1>1, <1>5, DivMod
  <2>2. n * g = g * n /\ g * n \in Nat
    BY <1>1, <2>1
  <2> QED BY <1>1, <1>5, <2>1, <2>2 DEF GroupSet
<1>7. ASSUME NEW h \in Groups, h # g PROVE i \notin GroupSet(h, n)
  <2>1. h \in Nat /\ h * n \in Nat
    BY <1>1 DEF Groups
  <2>2. ASSUME i \in GroupSet(h, n) PROVE FALSE
    <3>1. h * n <= i - 1 /\ i - 1 < h * n + n
      BY <1>1, <1>5, <2>1, <2>2 DEF GroupSet
    <3>2. (i - 1) \div n = h
      BY <1>1, <1>5, <2>1, <3>1, DivUnique
    <3> QED BY <1>7, <3>2
  <2> QED BY <2>2
<1>8. ASSUME NEW h \in Groups
      PROVE  bg_free_inodes_count'[h] = ZeroCount(inodemap \union {i}, h, n)
  <2> DEFINE U == GroupSet(h, n)
  <2>1. /\ ZeroCount(inodemap \union {i}, h, n) = Cardinality(U \ (inodemap \union {i}))
        /\ ZeroCount(inodemap, h, n) = Cardinality(U \ inodemap)
    BY <1>1, ZeroCountIs
  <2>2. bg_free_inodes_count[h] = Cardinality(U \ inodemap)
    BY <2>1 DEF InodeCountsRight
  <2>3. CASE h = g
    <3>1. IsFiniteSet(U)
      BY <1>1, GroupFinite
    <3>2. {i} \in SUBSET (U \ inodemap)
      BY <1>6, <2>3
    <3> HIDE DEF U
    <3>3. Taken(U, inodemap, {i})
      BY <3>1, <3>2, CardTake
    <3>4. bg_free_inodes_count'[h] = bg_free_inodes_count[h] - 1
      BY <1>1, <2>3
    <3> QED BY <1>2, <2>1, <2>2, <3>3, <3>4 DEF Taken
  <2>4. CASE h # g
    <3>1. U \ (inodemap \union {i}) = U \ inodemap
      BY <1>7, <2>4
    <3>2. bg_free_inodes_count'[h] = bg_free_inodes_count[h]
      BY <1>1, <2>4
    <3> QED BY <2>1, <2>2, <3>1, <3>2
  <2> QED BY <2>3, <2>4
<1> QED BY <1>4, <1>8 DEF InodeCountsRight
-----------------------------------------------------------------------------
(* Blocks of an inode *)
Clean(p) == p \in [Blks -> Pointers] /\ \A b \in Blks, k \in Offsets : p[b][k] \notin Meta

LEMMA UnderIn ==
  ASSUME NEW p, Clean(p), NEW b \in Blks
  PROVE  Under(p, b) \subseteq Blks \ Meta
BY DEF Under, Pointers, Clean

LEMMA IndirectIn ==
  ASSUME NEW p, Clean(p), NEW b \in (Blks \ Meta) \union {0}, NEW level \in {0, 1, 2}
  PROVE  ext2_free_indirect(p, b, level) \subseteq Blks \ Meta
<1> DEFINE below(S) == UNION {Under(p, c) : c \in S}
<1>1. ASSUME NEW S \in SUBSET (Blks \ Meta) PROVE below(S) \subseteq Blks \ Meta
  BY UnderIn
<1>2. CASE b = 0
  BY <1>2 DEF ext2_free_indirect
<1>3. CASE b \in Blks \ Meta
  <2>1. Under(p, b) \subseteq Blks \ Meta
    BY <1>3, UnderIn
  <2>2. below(Under(p, b)) \subseteq Blks \ Meta
    BY <1>1, <2>1
  <2> DEFINE T == below(Under(p, b))
  <2>3. below(T) \subseteq Blks \ Meta
    <3> HIDE DEF T
    <3> QED BY <1>1, <2>2 DEF T
  <2>4. b # 0
    BY <1>3 DEF Blks
  <2>5. ext2_free_indirect(p, b, level) \subseteq
          {b} \union Under(p, b) \union below(Under(p, b)) \union below(T)
    BY <2>4 DEF ext2_free_indirect
  <2> HIDE DEF below
  <2> QED BY <1>3, <2>1, <2>2, <2>3, <2>5
<1> QED BY <1>2, <1>3

LEMMA BlocksIn ==
  ASSUME NEW p, Clean(p), NEW i \in Inodes, PointedAt(i) \intersect Meta = {}
  PROVE  Blocks(p, i) \subseteq Blks \ Meta
<1>1. /\ i.ind \in (Blks \ Meta) \union {0} /\ i.dind \in (Blks \ Meta) \union {0}
      /\ i.tind \in (Blks \ Meta) \union {0}
  BY DEF Inodes, PointedAt
<1>2. ASSUME NEW k \in 0 .. NDir - 1 PROVE i.block[k] \in (Blks \ Meta) \union {0}
  BY DEF Inodes, PointedAt
<1>3. {i.block[k] : k \in 0 .. NDir - 1} \ {0} \subseteq Blks \ Meta
  BY <1>2
<1>4. /\ ext2_free_indirect(p, i.ind, 0) \subseteq Blks \ Meta
      /\ ext2_free_indirect(p, i.dind, 1) \subseteq Blks \ Meta
      /\ ext2_free_indirect(p, i.tind, 2) \subseteq Blks \ Meta
  BY <1>1, IndirectIn
<1> QED BY <1>3, <1>4 DEF Blocks

(* An inode without double and triple indirect blocks. *)
LEMMA BlocksSimple ==
  ASSUME NEW p, NEW i, i.dind = 0, i.tind = 0
  PROVE  Blocks(p, i) = ({i.block[k] : k \in 0 .. NDir - 1} \ {0})
                          \union (IF i.ind = 0 THEN {} ELSE {i.ind} \union Under(p, i.ind))
<1>1. ext2_free_indirect(p, i.dind, 1) = {} /\ ext2_free_indirect(p, i.tind, 2) = {}
  BY DEF ext2_free_indirect
<1>2. ext2_free_indirect(p, i.ind, 0) = IF i.ind = 0 THEN {} ELSE {i.ind} \union Under(p, i.ind)
  BY DEF ext2_free_indirect
<1> QED BY <1>1, <1>2 DEF Blocks

LEMMA BlocksNone ==
  ASSUME NEW p, NEW i, i.block = NoBlocks, i.ind = 0, i.dind = 0, i.tind = 0
  PROVE  Blocks(p, i) = {}
<1>1. {i.block[k] : k \in 0 .. NDir - 1} \ {0} = {}
  BY DEF NoBlocks
<1> QED BY <1>1, BlocksSimple

(* Writing a block that is not of the inode. *)
Put(p, b, v) == [p EXCEPT ![b] = v]

LEMMA BlocksFrame ==
  ASSUME NEW p \in [Blks -> Pointers], NEW i \in Inodes, i.dind = 0, i.tind = 0,
         NEW b, b \notin Blocks(p, i), NEW v
  PROVE  Blocks(Put(p, b, v), i) = Blocks(p, i)
<1> DEFINE q == [p EXCEPT ![b] = v]
<1>1. Blocks(p, i) = ({i.block[k] : k \in 0 .. NDir - 1} \ {0})
                       \union (IF i.ind = 0 THEN {} ELSE {i.ind} \union Under(p, i.ind))
  BY BlocksSimple
<1>2. Blocks(q, i) = ({i.block[k] : k \in 0 .. NDir - 1} \ {0})
                       \union (IF i.ind = 0 THEN {} ELSE {i.ind} \union Under(q, i.ind))
  BY BlocksSimple
<1>3. ASSUME i.ind # 0 PROVE Under(q, i.ind) = Under(p, i.ind)
  <2>1. i.ind # b /\ i.ind \in Blks
    BY <1>1, <1>3 DEF Inodes
  <2>2. q[i.ind] = p[i.ind]
    BY <2>1
  <2> HIDE DEF q
  <2> QED BY <2>2 DEF Under
<1> HIDE DEF q
<1>4. Blocks(q, i) = Blocks(p, i)
  BY <1>1, <1>2, <1>3
<1> QED BY <1>4 DEF q, Put

(* The size of an inode does not matter to its blocks. *)
LEMMA BlocksSized ==
  ASSUME NEW p, NEW i \in Inodes, NEW n
  PROVE  Blocks(p, [i EXCEPT !.size = n]) = Blocks(p, i)
<1> DEFINE j == [i EXCEPT !.size = n]
<1>1. j.block = i.block /\ j.ind = i.ind /\ j.dind = i.dind /\ j.tind = i.tind
  BY DEF Inodes
<1> HIDE DEF j
<1>2. Blocks(p, j) = Blocks(p, i)
  BY <1>1 DEF Blocks
<1> QED BY <1>2 DEF j

(* ext2_blkno up to the end of the single indirect block. *)
LEMMA BlknoIs ==
  ASSUME NEW p, NEW i, NEW k \in 0 .. ind1lim
  PROVE  ext2_blkno(p, i, k) = IF k < NDir THEN i.block[k] ELSE Pointer(p, i.ind, k - NDir)
<1>1. NDir \in Nat \ {0} /\ PtrsPerBlk \in Nat \ {0} /\ k \in Nat
  BY PointersAssumption DEF ind1lim, directlim
<1>2. directlim = NDir - 1 /\ directlim + 1 = NDir /\ k <= ind1lim /\ ~(k > ind1lim)
  BY <1>1 DEF directlim, ind1lim
<1>3. ind1lim \in Int /\ ind2lim \in Int /\ ind1lim <= ind2lim
  <2>1. PtrsPerBlk * PtrsPerBlk >= PtrsPerBlk
    BY <1>1
  <2> QED BY <1>1, <2>1 DEF ind1lim, ind2lim, directlim
<1>4. CASE k < NDir
  <2>1. k <= directlim /\ ~(k > directlim) /\ ~(k > ind2lim)
    BY <1>1, <1>2, <1>3, <1>4
  <2> QED BY <1>2, <1>4, <2>1 DEF ext2_blkno
<1>5. CASE ~(k < NDir)
  <2>1. ~(k <= directlim) /\ k > directlim /\ ~(k > ind2lim)
    BY <1>1, <1>2, <1>3, <1>5
  <2> QED BY <1>2, <1>5, <2>1 DEF ext2_blkno
<1> QED BY <1>4, <1>5
-----------------------------------------------------------------------------
(* The counts after a step *)
LEMMA CleanPtr == TypeOK /\ MetaSafe => Clean(ptr)
BY DEF TypeOK, MetaSafe, Clean

LEMMA BlockSteps ==
  ASSUME Next
  PROVE  \/ balloc # 0 /\ Mark({balloc})
         \/ ext2_truncate
         \/ pc = "fill" /\ First # 0 /\ Mark(First .. First + nblocks - 1)
         \/ UNCHANGED blockvars
BY Zenon DEF Next, othersGrow, noInput, start, nameiHangs, nameiFinds, nameiCrashes, nameiRefuses,
  nameiMisses, mknodInPlace, AddIndirect, mknodGrows, mknodNoSpace, fillFails, fillBlocks,
  fillIndirect, fillCrashes, ext2_bwrite, finishCrashes, finish

LEMMA FailedStays ==
  ASSUME [Next]_vars, failed' = {}
  PROVE  failed = {}
BY DEF Next, othersGrow, noInput, start, nameiHangs, nameiFinds, nameiCrashes, nameiRefuses,
  nameiMisses, ext2_truncate, mknodInPlace, AddIndirect, mknodGrows, mknodNoSpace, fillFails,
  fillBlocks, fillIndirect, fillCrashes, ext2_bwrite, finishCrashes, finish, vars

LEMMA StepCounts ==
  ASSUME IInv, [Next]_vars
  PROVE  CountsStay /\ (failed' = {} => BlockCountsRight')
<1>1. TypeOK /\ Counts /\ MetaSafe /\ BlocksOwned
  BY DEF IInv
<1>2. failed' = {} => failed = {} /\ BlockCountsRight
  BY FailedStays DEF IInv, CountsKept, CountsRight, BlockCountsRight
<1>3. CASE balloc # 0 /\ Mark({balloc})
  BY <1>1, <1>2, <1>3, MarkOne
<1>4. CASE pc = "fill" /\ First # 0 /\ Mark(First .. First + nblocks - 1)
  BY <1>1, <1>2, <1>4, MarkRun
<1>5. CASE ext2_truncate
  <2> DEFINE S == Blocks(ptr, ip)
  <2>1. pc = "truncate" /\ ext2_bfree(S)
    BY <1>5 DEF ext2_truncate
  <2>2. S \in SUBSET Blks
    BY <1>1, CleanPtr, BlocksIn DEF TypeOK, MetaSafe
  <2>3. failed = {} => S \subseteq blockmap
    BY <1>1, <2>1 DEF BlocksOwned, Owner
  <2> HIDE DEF S
  <2>4. CountsStay /\ (BlockCountsRight /\ S \subseteq blockmap => BlockCountsRight')
    BY <1>1, <2>1, <2>2, FreeKeeps
  <2> QED BY <1>2, <2>3, <2>4
<1>6. CASE UNCHANGED blockvars
  <2>1. CountsStay
    BY <1>1, <1>6 DEF CountsStay, TypeOK, Counts, blockvars
  <2>2. BlockCountsRight => BlockCountsRight'
    BY <1>6 DEF BlockCountsRight, blockvars, ZeroCount, ZeroBits
  <2> QED BY <1>2, <2>1, <2>2
<1>7. CASE UNCHANGED vars
  BY <1>6, <1>7 DEF vars
<1> QED BY <1>3, <1>4, <1>5, <1>6, <1>7, BlockSteps

LEMMA InodeSteps ==
  ASSUME [Next]_vars
  PROVE  nameiMisses \/ nameiRefuses \/ UNCHANGED inodevars
BY Zenon DEF Next, othersGrow, noInput, start, nameiHangs, nameiFinds, nameiCrashes,
  ext2_truncate, mknodInPlace, AddIndirect, mknodGrows, mknodNoSpace, fillFails, fillBlocks,
  fillIndirect, fillCrashes, ext2_bwrite, finishCrashes, finish, vars

LEMMA EntryStays ==
  ASSUME TypeOK, [Next]_vars, dirent' = NoEntry
  PROVE  dirent = NoEntry
<1>1. ino # NoEntry
  BY DEF TypeOK, NoEntry, Inums
<1>2. dirent' = dirent \/ dirent' = ino
  BY Zenon DEF Next, othersGrow, noInput, start, nameiHangs, nameiFinds, nameiCrashes, nameiRefuses,
    nameiMisses, ext2_truncate, mknodInPlace, AddIndirect, mknodGrows, mknodNoSpace, fillFails,
    fillBlocks, fillIndirect, fillCrashes, ext2_bwrite, finishCrashes, finish, vars
<1> QED BY <1>1, <1>2

LEMMA StepInodes ==
  ASSUME IInv, [Next]_vars
  PROVE  /\ inodemap' \subseteq Inums /\ bg_free_inodes_count' \in [Groups -> Nat]
         /\ s_free_inodes_count' \in Nat
         /\ dirent' = NoEntry \/ failed' = {} => InodeCountsRight'
<1>1. TypeOK /\ Counts /\ Healthy
  BY DEF IInv
<1>2. dirent' = NoEntry \/ failed' = {} => dirent = NoEntry \/ failed = {}
  BY <1>1, FailedStays, EntryStays
<1>3. dirent = NoEntry \/ failed = {} => InodeCountsRight
  BY <1>1 DEF Counts, InodeCountsRight
<1>4. /\ inodemap \subseteq Inums /\ bg_free_inodes_count \in [Groups -> Nat]
      /\ s_free_inodes_count \in Nat
  BY <1>1 DEF TypeOK
<1>5. CASE UNCHANGED inodevars
  <2>1. InodeCountsRight => InodeCountsRight'
    BY <1>5 DEF InodeCountsRight, inodevars, ZeroCount, ZeroBits
  <2> QED BY <1>2, <1>3, <1>4, <1>5, <2>1 DEF inodevars
<1>6. CASE nameiMisses
  <2> DEFINE i == ext2_ialloc(inodemap, bg_free_inodes_count)
             g == (i - 1) \div InodesPerGroup
  <2>1. CASE i = 0
    BY <1>5, <1>6, <2>1 DEF nameiMisses
  <2>2. CASE i # 0
    <3>1. /\ dirent = NoEntry /\ inodemap' = inodemap \union {i}
          /\ bg_free_inodes_count' = [bg_free_inodes_count EXCEPT ![g] = @ - 1]
          /\ s_free_inodes_count' = s_free_inodes_count - 1
      BY <1>6, <2>2 DEF nameiMisses
    <3>2. InodeCountsRight
      BY <1>3, <3>1
    <3>3. i \in Inums \ inodemap /\ g \in Groups /\ bg_free_inodes_count[g] > 0
      BY <1>1, <2>2, <3>2, IallocFree
    <3> HIDE DEF i
    <3>4. InodeCountsRight' /\ s_free_inodes_count' \in Nat
      BY <1>1, <3>1, <3>2, <3>3, InodeMarked
    <3> HIDE DEF g
    <3>5. bg_free_inodes_count' \in [Groups -> Nat]
      BY <1>4, <3>1, <3>3
    <3> QED BY <1>4, <3>1, <3>3, <3>4, <3>5
  <2> QED BY <2>1, <2>2
<1>7. CASE nameiRefuses
  <2>1. CASE NoLinks
    <3> DEFINE g == (dirent - 1) \div InodesPerGroup
    <3>1. /\ pc = "namei" /\ dirent # NoEntry /\ UNCHANGED << dirent, failed >>
          /\ inodemap' = inodemap \ {dirent}
          /\ bg_free_inodes_count' = [bg_free_inodes_count EXCEPT ![g] = @ + 1]
          /\ s_free_inodes_count' = s_free_inodes_count + 1
      BY <1>7, <2>1 DEF nameiRefuses
    <3>2. failed # {}
      BY <1>1, <2>1, <3>1 DEF Healthy, NoLinks
    <3> HIDE DEF g
    <3>3. bg_free_inodes_count' \in [Groups -> Nat]
      <4>1. CASE g \in Groups
        BY <1>4, <3>1, <4>1
      <4>2. CASE g \notin Groups
        <5>1. bg_free_inodes_count' = bg_free_inodes_count
          BY <1>4, <3>1, <4>2
        <5> QED BY <1>4, <5>1
      <4> QED BY <4>1, <4>2
    <3> QED BY <1>4, <3>1, <3>2, <3>3
  <2>2. CASE ~NoLinks
    BY <1>5, <1>7, <2>2 DEF nameiRefuses
  <2> QED BY <2>1, <2>2
<1> QED BY <1>5, <1>6, <1>7, InodeSteps
-----------------------------------------------------------------------------
(* Inodes and pointers after a step: none points at metadata *)
Targets == (Blks \ Meta) \union {0}

CleanInodes ==
  [mode : {"none", "reg", "other"}, links : {0, 1}, size : Nat,
   block : [0 .. NDir - 1 -> Targets], ind : Targets, dind : Targets, tind : Targets]

LEMMA ZeroNotMeta == 0 \notin Meta
BY MetaAssumption DEF Meta, Blks

LEMMA CleanInode ==
  ASSUME NEW i
  PROVE  i \in CleanInodes <=> i \in Inodes /\ PointedAt(i) \intersect Meta = {}
<1>1. ASSUME i \in CleanInodes PROVE i \in Inodes /\ PointedAt(i) \intersect Meta = {}
  <2>1. i \in Inodes
    BY <1>1 DEF CleanInodes, Inodes, Targets
  <2>2. i.ind \notin Meta /\ i.dind \notin Meta /\ i.tind \notin Meta
    BY <1>1, ZeroNotMeta DEF CleanInodes, Targets
  <2>3. \A k \in 0 .. NDir - 1 : i.block[k] \notin Meta
    BY <1>1, ZeroNotMeta DEF CleanInodes, Targets
  <2> QED BY <2>1, <2>2, <2>3 DEF PointedAt
<1>2. ASSUME i \in Inodes, PointedAt(i) \intersect Meta = {} PROVE i \in CleanInodes
  <2>1. i.ind \in Targets /\ i.dind \in Targets /\ i.tind \in Targets
    BY <1>2 DEF Inodes, PointedAt, Targets
  <2>2. \A k \in 0 .. NDir - 1 : i.block[k] \in Targets
    BY <1>2 DEF Inodes, PointedAt, Targets
  <2>3. i.block \in [0 .. NDir - 1 -> Targets]
    BY <1>2, <2>2 DEF Inodes
  <2> QED BY <1>2, <2>1, <2>3 DEF Inodes, CleanInodes
<1> QED BY <1>1, <1>2

LEMMA CleanIs ==
  ASSUME NEW p
  PROVE  Clean(p) <=> p \in [Blks -> [Offsets -> Targets]]
BY ZeroNotMeta DEF Clean, Pointers, Targets

LEMMA CleanNow ==
  ASSUME IInv
  PROVE  /\ ip \in CleanInodes /\ dip \in [ip : CleanInodes, room : BOOLEAN]
         /\ inode \in [Places -> CleanInodes] /\ ptr \in [Blks -> [Offsets -> Targets]]
         /\ balloc # 0 => balloc \in Blks \ blockmap /\ balloc \in Targets
         /\ Place(ino) \in Places /\ (dirent # NoEntry => Place(dirent) \in Places)
<1>1. TypeOK /\ Shapes /\ MetaSafe
  BY DEF IInv
<1>2. ip \in CleanInodes
  BY <1>1, CleanInode DEF TypeOK, MetaSafe
<1>3. dip \in [ip : CleanInodes, room : BOOLEAN]
  <2>1. dip.ip \in CleanInodes
    BY <1>1, CleanInode DEF TypeOK, MetaSafe
  <2>2. dip \in [ip : Inodes, room : BOOLEAN]
    BY <1>1 DEF Shapes
  <2> QED BY <2>1, <2>2
<1>4. inode \in [Places -> CleanInodes]
  BY <1>1, CleanInode DEF Shapes, MetaSafe
<1>5. ptr \in [Blks -> [Offsets -> Targets]]
  BY <1>1, CleanPtr, CleanIs
<1>6. balloc # 0 => balloc \in Blks \ blockmap /\ balloc \in Targets
  BY <1>1, BallocFree DEF MetaSafe, Targets
<1> QED BY <1>1, <1>2, <1>3, <1>4, <1>5, <1>6 DEF Shapes

(* The inode an installation starts from. *)
LEMMA UnusedClean ==
  /\ Unused \in CleanInodes /\ NoBlocks \in [0 .. NDir - 1 -> Targets]
  /\ [Unused EXCEPT !.mode = "reg", !.links = 1] \in CleanInodes
BY DEF Unused, NoBlocks, CleanInodes, Targets

LEMMA MissPlace ==
  ASSUME IInv, dirent = NoEntry
  PROVE  Place(ext2_ialloc(inodemap, bg_free_inodes_count)) \in Places
<1> DEFINE i == ext2_ialloc(inodemap, bg_free_inodes_count)
<1>1. TypeOK /\ InodeCountsRight
  BY DEF IInv, Counts, InodeCountsRight
<1>2. CASE i = 0
  BY <1>2, PlaceZero
<1>3. CASE i # 0
  BY <1>1, <1>3, IallocFree
<1> QED BY <1>2, <1>3

LEMMA DataBlocksIn ==
  ASSUME IInv, pc = "fill", First # 0
  PROVE  /\ First .. First + nblocks - 1 \subseteq Blks \ Meta /\ nblocks \in Nat /\ First \in Nat
         /\ DataBlocks = [k \in 0 .. NDir - 1 |-> IF k < nblocks THEN First + k ELSE 0]
         /\ DataBlocks \in [0 .. NDir - 1 -> Targets]
<1>1. TypeOK /\ MetaSafe /\ Laid
  BY DEF IInv
<1>2. First .. First + nblocks - 1 \subseteq Blks \ Meta /\ nblocks \in Nat /\ First \in Nat
  BY <1>1, ContiguousFree, BoundsAssumption DEF TypeOK, MetaSafe, Blks
<1>3. ip.block = NoBlocks /\ NDir \in Nat
  BY <1>1, PointersAssumption DEF Laid
<1>4. ASSUME NEW k \in 0 .. NDir - 1 PROVE ip.block[k] = 0
  BY <1>3 DEF NoBlocks
<1>5. DataBlocks = [k \in 0 .. NDir - 1 |-> IF k < nblocks THEN First + k ELSE 0]
  BY <1>4 DEF DataBlocks
<1>6. ASSUME NEW k \in 0 .. NDir - 1, k < nblocks PROVE First + k \in Blks \ Meta
  <2>1. First + k \in First .. First + nblocks - 1
    BY <1>2, <1>3, <1>6
  <2> QED BY <1>2, <2>1
<1> QED BY <1>2, <1>5, <1>6 DEF Targets

LEMMA StepIp ==
  ASSUME IInv, Next
  PROVE  ip' \in CleanInodes
<1>1. ip \in CleanInodes /\ inode \in [Places -> CleanInodes]
  BY CleanNow
<1>2. CASE UNCHANGED ip
  BY <1>1, <1>2
<1>3. CASE ip' = Unused \/ ip' = [Unused EXCEPT !.mode = "reg", !.links = 1]
  BY <1>3, UnusedClean
<1>4. CASE nameiFinds
  BY <1>1, <1>4, CleanNow DEF nameiFinds
<1>5. CASE nameiMisses
  BY <1>1, <1>5, MissPlace DEF nameiMisses
<1>6. CASE ext2_truncate
  <2>1. ip' = [ip EXCEPT !.block = NoBlocks, !.ind = 0, !.dind = 0, !.tind = 0, !.size = 0]
    BY <1>6 DEF ext2_truncate
  <2> QED BY <1>1, <2>1, UnusedClean DEF CleanInodes, Targets
<1>7. CASE fillBlocks
  <2>1. pc = "fill" /\ First # 0 /\ ip' = [ip EXCEPT !.block = DataBlocks, !.size = nblocks]
    BY <1>7 DEF fillBlocks
  <2>2. DataBlocks \in [0 .. NDir - 1 -> Targets] /\ nblocks \in Nat
    BY <2>1, DataBlocksIn
  <2> QED BY <1>1, <2>1, <2>2 DEF CleanInodes
<1>8. CASE fillIndirect
  <2>1. balloc # 0 /\ ip' = [ip EXCEPT !.ind = balloc]
    BY <1>8 DEF fillIndirect
  <2>2. balloc \in Targets
    BY <2>1, CleanNow
  <2> QED BY <1>1, <2>1, <2>2 DEF CleanInodes
<1> QED BY <1>2, <1>3, <1>4, <1>5, <1>6, <1>7, <1>8, Zenon DEF Next, othersGrow, noInput, start,
  nameiHangs, nameiCrashes, nameiRefuses, mknodInPlace, AddIndirect, mknodGrows,
  mknodNoSpace, fillFails, fillCrashes, ext2_bwrite, finishCrashes, finish, Exit, Created, filevars

LEMMA StepDip ==
  ASSUME IInv, Next
  PROVE  dip' \in [ip : CleanInodes, room : BOOLEAN]
<1>1. dip \in [ip : CleanInodes, room : BOOLEAN] /\ dip.ip \in CleanInodes
  BY CleanNow
<1>2. dip.ip.size \in Nat
  BY <1>1 DEF CleanInodes
<1>3. CASE UNCHANGED dip
  BY <1>1, <1>3
<1>4. CASE AddIndirect
  <2>1. balloc # 0 /\ dip' = [dip EXCEPT !.ip.ind = balloc]
    BY <1>4 DEF AddIndirect
  <2>2. balloc \in Targets
    BY <2>1, CleanNow
  <2>3. [dip.ip EXCEPT !.ind = balloc] \in CleanInodes
    BY <1>1, <2>2 DEF CleanInodes
  <2> QED BY <1>1, <2>1, <2>3
<1>5. CASE mknodNoSpace
  <2>1. dip' = [dip EXCEPT !.ip.size = @ + 1]
    BY <1>5 DEF mknodNoSpace
  <2>2. [dip.ip EXCEPT !.size = @ + 1] \in CleanInodes
    BY <1>1, <1>2 DEF CleanInodes
  <2> QED BY <1>1, <2>1, <2>2
<1>6. CASE mknodGrows
  <2> DEFINE off == dip.ip.size
  <2>1. balloc # 0 /\ balloc \in Targets
    BY <1>6, CleanNow DEF mknodGrows
  <2>2. CASE off <= directlim
    <3>1. dip' = [dip EXCEPT !.ip.block[off] = balloc, !.ip.size = off + 1, !.room = TRUE]
      BY <1>6, <2>2 DEF mknodGrows
    <3>2. off \in 0 .. NDir - 1
      BY <1>2, <2>2, PointersAssumption DEF directlim
    <3>3. [dip.ip EXCEPT !.block[off] = balloc, !.size = off + 1] \in CleanInodes
      <4> HIDE DEF off
      <4>1. [dip.ip.block EXCEPT ![off] = balloc] \in [0 .. NDir - 1 -> Targets]
        BY <1>1, <2>1, <3>2 DEF CleanInodes
      <4>2. off + 1 \in Nat
        BY <1>2 DEF off
      <4> QED BY <1>1, <4>1, <4>2 DEF CleanInodes
    <3> QED BY <1>1, <3>1, <3>3
  <2>3. CASE ~(off <= directlim)
    <3>1. dip' = [dip EXCEPT !.ip.size = off + 1, !.room = TRUE]
      BY <1>6, <2>3 DEF mknodGrows
    <3>2. [dip.ip EXCEPT !.size = off + 1] \in CleanInodes
      BY <1>1, <1>2 DEF CleanInodes
    <3> QED BY <1>1, <3>1, <3>2
  <2> QED BY <2>2, <2>3
<1> QED BY <1>3, <1>4, <1>5, <1>6, Zenon DEF Next, othersGrow, noInput, start, nameiHangs, nameiFinds,
  nameiCrashes, nameiRefuses, nameiMisses, ext2_truncate, mknodInPlace, fillFails, fillBlocks,
  fillIndirect, fillCrashes, ext2_bwrite, finishCrashes, finish

LEMMA RestIn ==
  ASSUME IInv, pc = "indirect"
  PROVE  Rest \in [Offsets -> Targets]
<1>1. Run \subseteq Blks \ Meta /\ bs_start \in Nat /\ nblocks \in Nat /\ NDir \in Nat
  BY PointersAssumption, BoundsAssumption DEF IInv, Laid, TypeOK, Blks
<1>2. ASSUME NEW k \in Offsets, NDir + k < nblocks PROVE bs_start + NDir + k \in Targets
  <2>1. k \in Nat
    BY DEF Offsets
  <2>2. bs_start + NDir + k \in Run
    BY <1>1, <1>2, <2>1 DEF Run
  <2> QED BY <1>1, <2>2 DEF Targets
<1> QED BY <1>2 DEF Rest, Targets

LEMMA StepPtr ==
  ASSUME IInv, Next
  PROVE  ptr' \in [Blks -> [Offsets -> Targets]]
<1>1. ptr \in [Blks -> [Offsets -> Targets]] /\ (balloc # 0 => balloc \in Targets)
  BY CleanNow
<1>2. CASE UNCHANGED ptr
  BY <1>1, <1>2
<1>3. CASE AddIndirect
  <2>1. ptr' = [ptr EXCEPT ![balloc] = NoPointers]
    BY <1>3 DEF AddIndirect
  <2>2. NoPointers \in [Offsets -> Targets]
    BY DEF NoPointers, Targets
  <2> QED BY <1>1, <2>1, <2>2
<1>4. CASE mknodGrows
  <2> DEFINE b == dip.ip.ind
             k == dip.ip.size - (directlim + 1)
  <2>1. balloc \in Targets /\ (UNCHANGED ptr \/ ptr' = [ptr EXCEPT ![b][k] = balloc])
    BY <1>1, <1>4 DEF mknodGrows
  <2>2. ASSUME ptr' = [ptr EXCEPT ![b][k] = balloc] PROVE ptr' \in [Blks -> [Offsets -> Targets]]
    <3> HIDE DEF b, k
    <3>1. CASE b \in Blks
      <4>1. [ptr[b] EXCEPT ![k] = balloc] \in [Offsets -> Targets]
        BY <1>1, <2>1, <3>1
      <4> QED BY <1>1, <2>2, <3>1, <4>1
    <3>2. CASE b \notin Blks
      <4>1. ptr' = ptr
        BY <1>1, <2>2, <3>2
      <4> QED BY <1>1, <4>1
    <3> QED BY <3>1, <3>2
  <2> QED BY <1>1, <2>1, <2>2
<1>5. CASE fillIndirect
  <2>1. pc = "indirect" /\ ptr' = [ptr EXCEPT ![balloc] = Rest]
    BY <1>5 DEF fillIndirect
  <2>2. Rest \in [Offsets -> Targets]
    BY <2>1, RestIn
  <2> QED BY <1>1, <2>1, <2>2
<1> QED BY <1>2, <1>3, <1>4, <1>5, Zenon DEF Next, othersGrow, noInput, start, nameiHangs, nameiFinds,
  nameiCrashes, nameiRefuses, nameiMisses, ext2_truncate, mknodInPlace, mknodNoSpace, fillFails,
  fillBlocks, fillCrashes, ext2_bwrite, finishCrashes, finish, disk

LEMMA StepInode ==
  ASSUME IInv, Next
  PROVE  inode' \in [Places -> CleanInodes]
<1>1. inode \in [Places -> CleanInodes] /\ ip \in CleanInodes /\ Place(ino) \in Places
  BY CleanNow
<1>2. CASE UNCHANGED inode
  BY <1>1, <1>2
<1>3. CASE finish
  <2>1. inode' = [inode EXCEPT ![Place(ino)] = [ip EXCEPT !.size = nblocks]]
    BY <1>3 DEF finish
  <2>2. nblocks \in Nat
    BY BoundsAssumption DEF IInv, TypeOK
  <2>3. [ip EXCEPT !.size = nblocks] \in CleanInodes
    BY <1>1, <2>2 DEF CleanInodes
  <2> QED BY <1>1, <2>1, <2>3
<1> QED BY <1>2, <1>3, Zenon DEF Next, othersGrow, noInput, start, nameiHangs, nameiFinds,
  nameiCrashes, nameiRefuses, nameiMisses, ext2_truncate, mknodInPlace, AddIndirect, mknodGrows,
  mknodNoSpace, fillFails, fillBlocks, fillIndirect, fillCrashes, ext2_bwrite, finishCrashes, disk

(* The block ext2_bwrite writes. *)
LEMMA WritesRun ==
  ASSUME IInv, pc = "write", NEW k \in 0 .. nblocks - 1
  PROVE  ext2_blkno(ptr, ip, k) = bs_start + k /\ bs_start + k \in Run /\ bs_start + k \in Blks \ Meta
<1>1. /\ Run \subseteq Blks \ Meta /\ bs_start \in Nat /\ nblocks \in Nat /\ nblocks <= ind1lim
      /\ NDir \in Nat /\ PtrsPerBlk \in Nat \ {0} /\ k \in Nat
  BY PointersAssumption, BoundsAssumption DEF IInv, Laid, TypeOK, Blks
<1>2. ip.block = [j \in 0 .. NDir - 1 |-> IF j < nblocks THEN bs_start + j ELSE 0]
  BY DEF IInv, Laid
<1>3. bs_start + k \in Run
  BY <1>1 DEF Run
<1>4. k \in 0 .. ind1lim
  BY <1>1 DEF ind1lim, directlim
<1>5. ext2_blkno(ptr, ip, k) = IF k < NDir THEN ip.block[k] ELSE Pointer(ptr, ip.ind, k - NDir)
  BY <1>4, BlknoIs
<1>6. CASE k < NDir
  <2>1. k \in 0 .. NDir - 1 /\ k < nblocks
    BY <1>1, <1>6
  <2> QED BY <1>1, <1>2, <1>3, <1>5, <1>6, <2>1
<1>7. CASE ~(k < NDir)
  <2>1. nblocks > directlim
    BY <1>1, <1>7 DEF directlim
  <2>2. ip.ind # 0 /\ ptr[ip.ind] = Rest
    BY <2>1 DEF IInv, Laid
  <2>3. k - NDir \in Offsets /\ NDir + (k - NDir) < nblocks /\ bs_start + NDir + (k - NDir) = bs_start + k
    BY <1>1, <1>7 DEF Offsets, ind1lim, directlim
  <2>4. Rest[k - NDir] = bs_start + k
    BY <2>3 DEF Rest
  <2> QED BY <1>1, <1>3, <1>5, <1>7, <2>2, <2>4 DEF Pointer
<1> QED BY <1>6, <1>7

LEMMA StepData ==
  ASSUME IInv, Next
  PROVE  data' \in [Blks -> Contents]
<1>1. data \in [Blks -> Contents] /\ run \in Nat /\ blkno \in Nat
  BY BoundsAssumption DEF IInv, Shapes, TypeOK
<1>2. SuperData \in Contents /\ OldData \in Contents /\ Entries \in Contents
  BY DEF Contents
<1>3. << run, blkno >> \in Contents
  BY <1>1 DEF Contents
<1> HIDE DEF Contents
<1>4. \/ UNCHANGED data
      \/ data' = WriteSupers(data)
      \/ data' = [data EXCEPT ![balloc] = OldData]
      \/ data' = [data EXCEPT ![balloc] = Entries]
      \/ data' = [data EXCEPT ![ext2_blkno(ptr, ip, blkno)] = << run, blkno >>]
  BY Zenon DEF Next, othersGrow, noInput, start, nameiHangs, nameiFinds,
    nameiCrashes, nameiRefuses, nameiMisses, ext2_truncate, mknodInPlace, AddIndirect, mknodGrows,
    mknodNoSpace, fillFails, fillBlocks, fillIndirect, fillCrashes, ext2_bwrite, finishCrashes, finish, disk
<1>5. CASE data' = WriteSupers(data)
  BY <1>1, <1>2, <1>5 DEF WriteSupers
<1>6. ASSUME NEW b, NEW c \in Contents, data' = [data EXCEPT ![b] = c]
      PROVE  data' \in [Blks -> Contents]
  BY <1>1, <1>6
<1> QED BY <1>1, <1>2, <1>3, <1>4, <1>5, <1>6

(* Where the inodes are. *)
LEMMA StepPlaces ==
  ASSUME IInv, Next
  PROVE  /\ Place(ino') \in Places /\ (dirent' # NoEntry => Place(dirent') \in Places)
         /\ ino' \in Inums \union {0} /\ dirent' \in Inums \union {0, NoEntry}
<1>1. /\ Place(ino) \in Places /\ (dirent # NoEntry => Place(dirent) \in Places)
      /\ ino \in Inums \union {0} /\ dirent \in Inums \union {0, NoEntry}
  BY DEF IInv, Shapes, TypeOK
<1>2. CASE UNCHANGED << ino, dirent >>
  BY <1>1, <1>2
<1>3. CASE ino' = 0 /\ UNCHANGED dirent
  BY <1>1, <1>3, PlaceZero
<1>4. CASE UNCHANGED ino /\ dirent' = ino
  BY <1>1, <1>4
<1>5. CASE nameiFinds
  BY <1>1, <1>5 DEF nameiFinds
<1>6. CASE nameiMisses
  <2> DEFINE i == ext2_ialloc(inodemap, bg_free_inodes_count)
  <2>1. dirent = NoEntry /\ ino' = i /\ UNCHANGED dirent
    BY <1>6 DEF nameiMisses
  <2>2. Place(i) \in Places
    BY <2>1, MissPlace
  <2>3. i \in Inums \union {0}
    BY <2>1, IallocFree DEF IInv, Counts, InodeCountsRight
  <2> QED BY <1>1, <2>1, <2>2, <2>3
<1> QED BY <1>2, <1>3, <1>4, <1>5, <1>6, Zenon DEF Next, othersGrow, noInput, start, nameiHangs,
  nameiCrashes, nameiRefuses, ext2_truncate, mknodInPlace, AddIndirect, mknodGrows,
  mknodNoSpace, fillFails, fillBlocks, fillIndirect, fillCrashes, ext2_bwrite, finishCrashes, finish, Exit, filevars
-----------------------------------------------------------------------------
(* The invariant is kept: types, metadata and counts *)
LEMMA Stutter == IInv /\ UNCHANGED vars => IInv'
<1> SUFFICES ASSUME IInv, UNCHANGED vars PROVE IInv'
  OBVIOUS
<1> USE DEF vars, blockvars, inodevars, disk, filevars, locals
<1>1. TypeOK'
  BY DEF IInv, TypeOK
<1>2. Shapes'
  BY DEF IInv, Shapes
<1>3. MetaSafe'
  BY DEF IInv, MetaSafe
<1>4. Counts'
  BY DEF IInv, Counts, ZeroCount, ZeroBits
<1>5. Laid'
  BY DEF IInv, Laid, Run, Rest
<1>6. Healthy'
  BY DEF IInv, Healthy
<1>7. BlocksOwned'
  BY DEF IInv, BlocksOwned, Owner, OnDisk
<1>8. CountsKept'
  BY DEF IInv, CountsKept, CountsRight, ZeroCount, ZeroBits
<1>9. NewInodeAtHome' /\ OthersKept'
  BY DEF IInv, NewInodeAtHome, OthersKept
<1>10. BootBlockRight'
  BY DEF IInv, BootBlockRight
<1> QED BY <1>1, <1>2, <1>3, <1>4, <1>5, <1>6, <1>7, <1>8, <1>9, <1>10 DEF IInv

LEMMA StepControl ==
  ASSUME IInv, Next
  PROVE  /\ pc' \in {"off", "namei", "hangs", "truncate", "mknod", "fill", "indirect",
                     "write", "crashed", "ruined"}
         /\ nblocks' \in 0 .. MaxBlks /\ blkno' \in 0 .. nblocks' /\ run' \in 0 .. MaxRuns
         /\ bs_start' \in Blks \union {0} /\ failed' \subseteq {"inode", "blocks"}
         /\ others' \subseteq Blks
         /\ pc' = "mknod" => dirent' = NoEntry
         /\ pc' \in {"off", "namei", "truncate", "mknod", "fill", "indirect"} => blkno' = 0
         /\ pc' \notin {"off", "ruined"} => outcome' # "installed"
<1>1. /\ nblocks \in 0 .. MaxBlks /\ blkno \in 0 .. nblocks /\ run \in 0 .. MaxRuns
      /\ bs_start \in Blks \union {0} /\ failed \subseteq {"inode", "blocks"}
      /\ others \subseteq Blks /\ (pc = "mknod" => dirent = NoEntry)
      /\ pc \in {"off", "namei", "truncate", "mknod", "fill", "indirect"} => blkno = 0
      /\ pc \notin {"off", "ruined"} => outcome # "installed"
      /\ MaxBlks \in Nat /\ MaxRuns \in Nat
  BY BoundsAssumption DEF IInv, Shapes, TypeOK
<1>2. balloc # 0 => balloc \in Blks
  BY CleanNow
<1>3. CASE othersGrow
  BY <1>1, <1>2, <1>3 DEF othersGrow, locals
<1>n. CASE noInput
  BY <1>1, <1>n DEF noInput, Exit
<1>4. CASE \E n \in 0 .. MaxBlks : start(n)
  BY <1>1, <1>4 DEF start
<1>5. CASE nameiHangs \/ nameiFinds \/ nameiCrashes
  BY <1>1, <1>5 DEF nameiHangs, nameiFinds, nameiCrashes, locals
<1>6. CASE nameiRefuses
  BY <1>1, <1>6 DEF nameiRefuses, Exit
<1>7. CASE nameiMisses
  BY <1>1, <1>7 DEF nameiMisses, locals
<1>8. CASE ext2_truncate
  BY <1>1, <1>8 DEF ext2_truncate, locals
<1>9. CASE mknodInPlace \/ mknodGrows \/ mknodNoSpace
  <2>1. /\ pc = "mknod" /\ pc' = "fill" /\ UNCHANGED << locals, others, run, outcome >>
        /\ failed' = failed \/ failed' = failed \union {"blocks"}
    BY <1>9, Zenon DEF mknodInPlace, mknodGrows, mknodNoSpace, Created
  <2> QED BY <1>1, <2>1 DEF locals
<1>10. CASE AddIndirect
  <2>1. pc = "mknod" /\ UNCHANGED << pc, dirent, locals, others, run, outcome, failed >>
    BY <1>10, Zenon DEF AddIndirect
  <2> QED BY <1>1, <2>1 DEF locals
<1>11. CASE fillFails
  BY <1>1, <1>11 DEF fillFails, Exit
<1>12. CASE fillBlocks
  <2>1. First \in Blks
    BY <1>12, ContiguousFree DEF fillBlocks, IInv
  <2> QED BY <1>1, <1>12, <2>1 DEF fillBlocks
<1>13. CASE fillIndirect \/ fillCrashes \/ finishCrashes
  BY <1>1, <1>13 DEF fillIndirect, fillCrashes, finishCrashes, locals
<1>14. CASE ext2_bwrite
  BY <1>1, <1>14 DEF ext2_bwrite
<1>15. CASE finish
  BY <1>1, <1>15 DEF finish, Exit
<1> QED BY <1>3, <1>4, <1>5, <1>6, <1>7, <1>8, <1>9, <1>10, <1>11, <1>12, <1>13, <1>14,
  <1>15, <1>n, Zenon DEF Next

LEMMA NextTypes ==
  ASSUME IInv, Next
  PROVE  TypeOK' /\ Shapes'
<1>1. ip' \in Inodes /\ dip' \in [ip : Inodes, room : BOOLEAN] /\ inode' \in [Places -> Inodes]
  <2>1. CleanInodes \subseteq Inodes
    BY CleanInode
  <2> QED BY <2>1, StepIp, StepDip, StepInode
<1>2. ptr' \in [Blks -> Pointers]
  BY StepPtr DEF Pointers, Targets
<1>3. TypeOK'
  BY <1>1, <1>2, StepControl, StepCounts, StepInodes, StepPlaces DEF TypeOK, CountsStay
<1> QED BY <1>1, <1>3, StepControl, StepData, StepPlaces DEF Shapes

LEMMA NextMeta ==
  ASSUME IInv, Next
  PROVE  MetaSafe'
<1>1. Meta \subseteq blockmap /\ TypeOK /\ MetaSafe
  BY DEF IInv, MetaSafe
<1>2. Meta \subseteq blockmap'
  <2>1. CASE ext2_truncate
    <3>1. blockmap' = blockmap \ Blocks(ptr, ip)
      BY <2>1 DEF ext2_truncate, ext2_bfree
    <3>2. Blocks(ptr, ip) \subseteq Blks \ Meta
      BY <1>1, CleanPtr, BlocksIn DEF TypeOK, MetaSafe
    <3> QED BY <1>1, <3>1, <3>2
  <2>2. CASE balloc # 0 /\ Mark({balloc})
    BY <1>1, <2>2 DEF Mark
  <2>3. CASE pc = "fill" /\ First # 0 /\ Mark(First .. First + nblocks - 1)
    BY <1>1, <2>3 DEF Mark
  <2>4. CASE UNCHANGED blockvars
    BY <1>1, <2>4 DEF blockvars
  <2> QED BY <2>1, <2>2, <2>3, <2>4, BlockSteps
<1>3. PointedAt(ip') \intersect Meta = {}
  BY StepIp, CleanInode
<1>4. PointedAt(dip'.ip) \intersect Meta = {}
  <2>1. dip'.ip \in CleanInodes
    BY StepDip
  <2> QED BY <2>1, CleanInode
<1>5. \A p \in Places : PointedAt(inode'[p]) \intersect Meta = {}
  BY StepInode, CleanInode
<1>6. Clean(ptr')
  BY StepPtr, CleanIs
<1> QED BY <1>2, <1>3, <1>4, <1>5, <1>6 DEF MetaSafe, Clean

LEMMA NextCounts ==
  ASSUME IInv, Next
  PROVE  Counts' /\ CountsKept'
<1>1. CountsStay /\ (failed' = {} => BlockCountsRight')
  BY StepCounts
<1>2. dirent' = NoEntry \/ failed' = {} => InodeCountsRight'
  BY StepInodes
<1>3. Counts'
  BY <1>1, <1>2 DEF Counts, CountsStay, InodeCountsRight
<1> QED BY <1>1, <1>2, <1>3 DEF CountsKept, CountsRight, BlockCountsRight, InodeCountsRight

LEMMA NextHome ==
  ASSUME IInv, Next
  PROVE  NewInodeAtHome'
<1>1. CASE nameiMisses
  <2> DEFINE i == ext2_ialloc(inodemap, bg_free_inodes_count)
  <2>1. dirent = NoEntry /\ ino' = i
    BY <1>1 DEF nameiMisses
  <2>2. i # 0 => Place(i) = Home(i)
    BY <2>1, IallocFree DEF IInv, Counts, InodeCountsRight
  <2> HIDE DEF i
  <2> QED BY <2>1, <2>2 DEF NewInodeAtHome
<1>2. CASE AddIndirect
  <2>1. UNCHANGED << pc, ino >>
    BY <1>2, Zenon DEF AddIndirect, filevars
  <2> QED BY <2>1 DEF IInv, NewInodeAtHome
<1>3. CASE pc' # "mknod"
  BY <1>3 DEF NewInodeAtHome
<1>4. nameiMisses \/ AddIndirect \/ pc' # "mknod"
  BY DEF Next, othersGrow, noInput, start, nameiHangs, nameiFinds, nameiCrashes, nameiRefuses,
    ext2_truncate, mknodInPlace, mknodGrows, mknodNoSpace, fillFails, fillBlocks, fillIndirect,
    fillCrashes, ext2_bwrite, finishCrashes, finish, Exit, Created
<1> QED BY <1>1, <1>2, <1>3, <1>4
-----------------------------------------------------------------------------
(* The directory *)
LEMMA Limits ==
  /\ NDir \in Nat \ {0} /\ PtrsPerBlk \in Nat \ {0} /\ directlim = NDir - 1 /\ directlim + 1 = NDir
  /\ ind1lim = PtrsPerBlk + NDir - 1 /\ ind1lim \in Nat
BY PointersAssumption DEF directlim, ind1lim

(* A block that is not of the directory is used as an indirect block. *)
LEMMA DirFrame ==
  ASSUME NEW p \in [Blks -> Pointers], NEW i \in Inodes, DirWhole(p, i),
         NEW b, b \notin Blocks(p, i), NEW v
  PROVE  DirWhole([p EXCEPT ![b] = v], i)
<1> DEFINE q == [p EXCEPT ![b] = v]
<1>1. /\ i.dind = 0 /\ i.tind = 0 /\ i.size <= ind1lim + 1
      /\ \A k \in 0 .. ind1lim : (k < i.size) = (ext2_blkno(p, i, k) # 0)
  BY DEF DirWhole
<1>2. i.ind # 0 => i.ind \in Blocks(p, i)
  BY <1>1, BlocksSimple
<1>3. i.ind # 0 => q[i.ind] = p[i.ind]
  BY <1>2 DEF Inodes
<1> HIDE DEF q
<1>4. ASSUME NEW k \in 0 .. ind1lim PROVE ext2_blkno(q, i, k) = ext2_blkno(p, i, k)
  <2>1. /\ ext2_blkno(p, i, k) = IF k < NDir THEN i.block[k] ELSE Pointer(p, i.ind, k - NDir)
        /\ ext2_blkno(q, i, k) = IF k < NDir THEN i.block[k] ELSE Pointer(q, i.ind, k - NDir)
    BY BlknoIs
  <2>2. Pointer(q, i.ind, k - NDir) = Pointer(p, i.ind, k - NDir)
    BY <1>3 DEF Pointer
  <2> QED BY <2>1, <2>2
<1>5. DirWhole(q, i)
  BY <1>1, <1>4 DEF DirWhole
<1> QED BY <1>5 DEF q

(* ext2_blkno adds an indirect block. *)
WithIndirect(i, b) == [i EXCEPT !.ind = b]

LEMMA DirIndirect ==
  ASSUME NEW p \in [Blks -> Pointers], NEW i \in Inodes, DirWhole(p, i), i.ind = 0, NEW b \in Blks
  PROVE  /\ DirWhole(Put(p, b, NoPointers), WithIndirect(i, b))
         /\ Blocks(Put(p, b, NoPointers), WithIndirect(i, b)) = Blocks(p, i) \union {b}
<1> DEFINE q == [p EXCEPT ![b] = NoPointers]
           j == [i EXCEPT !.ind = b]
<1>1. /\ i.dind = 0 /\ i.tind = 0 /\ i.size <= ind1lim + 1
      /\ \A k \in 0 .. ind1lim : (k < i.size) = (ext2_blkno(p, i, k) # 0)
  BY DEF DirWhole
<1>2. j.block = i.block /\ j.ind = b /\ j.dind = i.dind /\ j.tind = i.tind /\ j.size = i.size
  BY DEF Inodes
<1>3. q[b] = NoPointers /\ b # 0
  BY DEF Blks
<1> HIDE DEF q, j
<1>4. ASSUME NEW k \in 0 .. ind1lim PROVE ext2_blkno(q, j, k) = ext2_blkno(p, i, k)
  <2>1. /\ ext2_blkno(p, i, k) = IF k < NDir THEN i.block[k] ELSE Pointer(p, i.ind, k - NDir)
        /\ ext2_blkno(q, j, k) = IF k < NDir THEN j.block[k] ELSE Pointer(q, j.ind, k - NDir)
    BY BlknoIs
  <2>2. ASSUME ~(k < NDir) PROVE Pointer(q, j.ind, k - NDir) = 0 /\ Pointer(p, i.ind, k - NDir) = 0
    <3>1. k - NDir \in Offsets
      BY <2>2, Limits DEF Offsets
    <3> QED BY <1>2, <1>3, <3>1 DEF Pointer, NoPointers
  <2> QED BY <1>2, <2>1, <2>2
<1>5. DirWhole(q, j)
  BY <1>1, <1>2, <1>4 DEF DirWhole
<1>6. Under(q, b) = {}
  BY <1>3 DEF Under, NoPointers
<1>7. /\ Blocks(p, i) = ({i.block[k] : k \in 0 .. NDir - 1} \ {0})
                          \union (IF i.ind = 0 THEN {} ELSE {i.ind} \union Under(p, i.ind))
      /\ Blocks(q, j) = ({j.block[k] : k \in 0 .. NDir - 1} \ {0})
                          \union (IF j.ind = 0 THEN {} ELSE {j.ind} \union Under(q, j.ind))
  BY <1>1, <1>2, BlocksSimple
<1>8. Blocks(q, j) = Blocks(p, i) \union {b}
  BY <1>2, <1>3, <1>6, <1>7
<1>9. Put(p, b, NoPointers) = q /\ WithIndirect(i, b) = j
  BY DEF Put, WithIndirect, q, j
<1> QED BY <1>5, <1>8, <1>9

(* The directory grows by a direct block. *)
Longer(i, b) == [i EXCEPT !.block[i.size] = b, !.size = i.size + 1]

LEMMA DirDirect ==
  ASSUME NEW p \in [Blks -> Pointers], NEW i \in Inodes, DirWhole(p, i),
         i.size <= directlim, NEW b \in Blks
  PROVE  DirWhole(p, Longer(i, b)) /\ Blocks(p, Longer(i, b)) = Blocks(p, i) \union {b}
<1> DEFINE off == i.size
           j == [i EXCEPT !.block[off] = b, !.size = off + 1]
<1>1. /\ i.dind = 0 /\ i.tind = 0 /\ i.size <= ind1lim + 1 /\ off \in Nat
      /\ \A k \in 0 .. ind1lim : (k < off) = (ext2_blkno(p, i, k) # 0)
  BY DEF DirWhole, Inodes
<1>2. /\ j.block = [i.block EXCEPT ![off] = b] /\ j.ind = i.ind /\ j.dind = i.dind
      /\ j.tind = i.tind /\ j.size = off + 1
  BY DEF Inodes
<1>3. off \in 0 .. NDir - 1 /\ off < NDir /\ off \in 0 .. ind1lim
  BY <1>1, Limits
<1>4. i.block \in [0 .. NDir - 1 -> Blks \union {0}] /\ b # 0
  BY DEF Inodes, Blks
<1> HIDE DEF j, off
<1>5. i.block[off] = 0
  <2>1. ext2_blkno(p, i, off) = i.block[off]
    BY <1>3, BlknoIs
  <2>2. ~(off < off)
    BY <1>1
  <2> QED BY <1>1, <1>3, <2>1, <2>2
<1>6. ASSUME NEW k \in 0 .. ind1lim PROVE (k < off + 1) = (ext2_blkno(p, j, k) # 0)
  <2>1. /\ ext2_blkno(p, i, k) = IF k < NDir THEN i.block[k] ELSE Pointer(p, i.ind, k - NDir)
        /\ ext2_blkno(p, j, k) = IF k < NDir THEN j.block[k] ELSE Pointer(p, j.ind, k - NDir)
    BY BlknoIs
  <2>2. CASE k = off
    <3>1. ext2_blkno(p, j, k) = b
      BY <1>2, <1>3, <1>4, <2>1, <2>2
    <3> QED BY <1>1, <1>4, <2>2, <3>1
  <2>3. CASE k # off
    <3>1. k < NDir => k \in 0 .. NDir - 1
      BY Limits
    <3>2. k < NDir => j.block[k] = i.block[k]
      BY <1>2, <1>4, <2>3, <3>1
    <3>3. ext2_blkno(p, j, k) = ext2_blkno(p, i, k)
      BY <1>2, <2>1, <3>2
    <3>4. (k < off + 1) = (k < off)
      BY <1>1, <2>3, Limits
    <3> QED BY <1>1, <3>3, <3>4
  <2> QED BY <2>2, <2>3
<1>7. j.size <= ind1lim + 1
  BY <1>1, <1>2, <1>3, Limits
<1>8. DirWhole(p, j)
  BY <1>1, <1>2, <1>6, <1>7 DEF DirWhole
<1>9. {j.block[k] : k \in 0 .. NDir - 1} \ {0} = ({i.block[k] : k \in 0 .. NDir - 1} \ {0}) \union {b}
  <2>1. ASSUME NEW k \in 0 .. NDir - 1 PROVE j.block[k] = IF k = off THEN b ELSE i.block[k]
    BY <1>2, <1>4
  <2> QED BY <1>3, <1>4, <1>5, <2>1
<1>10. /\ Blocks(p, i) = ({i.block[k] : k \in 0 .. NDir - 1} \ {0})
                          \union (IF i.ind = 0 THEN {} ELSE {i.ind} \union Under(p, i.ind))
       /\ Blocks(p, j) = ({j.block[k] : k \in 0 .. NDir - 1} \ {0})
                          \union (IF j.ind = 0 THEN {} ELSE {j.ind} \union Under(p, j.ind))
  BY <1>1, <1>2, BlocksSimple
<1>11. Blocks(p, j) = Blocks(p, i) \union {b}
  BY <1>2, <1>9, <1>10
<1>12. Longer(i, b) = j
  BY DEF Longer, j, off
<1> QED BY <1>8, <1>11, <1>12

(* The directory grows by a block behind its indirect block. *)
Sized(i) == [i EXCEPT !.size = i.size + 1]
PutBehind(p, i, b) == [p EXCEPT ![i.ind][i.size - (directlim + 1)] = b]

LEMMA DirBehind ==
  ASSUME NEW p \in [Blks -> Pointers], NEW i \in Inodes, DirWhole(p, i),
         ~(i.size <= directlim), i.size <= ind1lim, i.ind # 0, NEW b \in Blks
  PROVE  /\ DirWhole(PutBehind(p, i, b), Sized(i))
         /\ Blocks(PutBehind(p, i, b), Sized(i)) = Blocks(p, i) \union {b}
<1> DEFINE off == i.size
           x == off - (directlim + 1)
           j == [i EXCEPT !.size = off + 1]
           q == [p EXCEPT ![i.ind][x] = b]
<1>1. /\ i.dind = 0 /\ i.tind = 0 /\ off \in Nat /\ i.ind \in Blks
      /\ \A k \in 0 .. ind1lim : (k < off) = (ext2_blkno(p, i, k) # 0)
  BY DEF DirWhole, Inodes
<1>2. /\ j.block = i.block /\ j.ind = i.ind /\ j.dind = i.dind /\ j.tind = i.tind
      /\ j.size = off + 1
  BY DEF Inodes
<1>3. x = off - NDir /\ x \in Offsets /\ off \in 0 .. ind1lim /\ ~(off < NDir)
  BY <1>1, Limits DEF Offsets
<1>4. p[i.ind] \in [Offsets -> Blks \union {0}] /\ b # 0
  BY <1>1 DEF Pointers, Blks
<1>5. q[i.ind] = [p[i.ind] EXCEPT ![x] = b]
  BY <1>1
<1> HIDE DEF off, x, j, q
<1>6. p[i.ind][x] = 0
  <2>1. ext2_blkno(p, i, off) = p[i.ind][x]
    BY <1>3, BlknoIs DEF Pointer
  <2>2. ~(off < off)
    BY <1>1
  <2> QED BY <1>1, <1>3, <2>1, <2>2
<1>7. ASSUME NEW k \in 0 .. ind1lim PROVE (k < off + 1) = (ext2_blkno(q, j, k) # 0)
  <2>1. /\ ext2_blkno(p, i, k) = IF k < NDir THEN i.block[k] ELSE Pointer(p, i.ind, k - NDir)
        /\ ext2_blkno(q, j, k) = IF k < NDir THEN j.block[k] ELSE Pointer(q, j.ind, k - NDir)
    BY BlknoIs
  <2>2. CASE k = off
    <3>1. ext2_blkno(q, j, k) = b
      BY <1>2, <1>3, <1>4, <1>5, <2>1, <2>2 DEF Pointer
    <3> QED BY <1>1, <1>4, <2>2, <3>1
  <2>3. CASE k # off
    <3>1. ~(k < NDir) => k - NDir \in Offsets /\ k - NDir # x
      BY <1>1, <1>3, <2>3, Limits DEF Offsets
    <3>2. ~(k < NDir) => q[i.ind][k - NDir] = p[i.ind][k - NDir]
      BY <1>4, <1>5, <3>1
    <3>3. ext2_blkno(q, j, k) = ext2_blkno(p, i, k)
      BY <1>2, <2>1, <3>2 DEF Pointer
    <3>4. (k < off + 1) = (k < off)
      BY <1>1, <2>3, Limits
    <3> QED BY <1>1, <3>3, <3>4
  <2> QED BY <2>2, <2>3
<1>8. j.size <= ind1lim + 1
  BY <1>1, <1>2, <1>3, Limits
<1>9. DirWhole(q, j)
  BY <1>1, <1>2, <1>7, <1>8 DEF DirWhole
<1>10. Under(q, i.ind) = Under(p, i.ind) \union {b}
  <2>1. ASSUME NEW k \in Offsets PROVE q[i.ind][k] = IF k = x THEN b ELSE p[i.ind][k]
    BY <1>4, <1>5
  <2> QED BY <1>3, <1>4, <1>6, <2>1 DEF Under
<1>11. /\ Blocks(p, i) = ({i.block[k] : k \in 0 .. NDir - 1} \ {0})
                          \union (IF i.ind = 0 THEN {} ELSE {i.ind} \union Under(p, i.ind))
       /\ Blocks(q, j) = ({j.block[k] : k \in 0 .. NDir - 1} \ {0})
                          \union (IF j.ind = 0 THEN {} ELSE {j.ind} \union Under(q, j.ind))
  BY <1>1, <1>2, BlocksSimple
<1>12. Blocks(q, j) = Blocks(p, i) \union {b}
  BY <1>2, <1>10, <1>11
<1>13. PutBehind(p, i, b) = q /\ Sized(i) = j
  BY DEF PutBehind, Sized, j, q, off, x
<1> QED BY <1>9, <1>12, <1>13
-----------------------------------------------------------------------------
(* The directory after a step, while no allocation has failed *)
LEMMA DirNow ==
  ASSUME IInv, failed = {}
  PROVE  /\ ptr \in [Blks -> Pointers] /\ dip.ip \in Inodes /\ DirWhole(ptr, dip.ip)
         /\ dip \in [ip : Inodes, room : BOOLEAN]
         /\ Blocks(ptr, dip.ip) \subseteq blockmap
         /\ balloc # 0 => balloc \in Blks \ blockmap /\ balloc \notin Meta
<1>1. /\ ptr \in [Blks -> Pointers] /\ dip.ip \in Inodes /\ DirWhole(ptr, dip.ip)
      /\ dip \in [ip : Inodes, room : BOOLEAN]
  BY DEF IInv, TypeOK, Shapes, Healthy
<1>2. Blocks(ptr, dip.ip) \subseteq blockmap
  BY DEF IInv, BlocksOwned
<1>3. balloc # 0 => balloc \in Blks \ blockmap /\ balloc \notin Meta
  BY CleanNow, ZeroNotMeta DEF Targets
<1> QED BY <1>1, <1>2, <1>3

LEMMA DirAdds ==
  ASSUME IInv, failed = {}, AddIndirect \/ mknodGrows
  PROVE  /\ DirWhole(ptr', dip'.ip) /\ balloc # 0 /\ Mark({balloc})
         /\ Blocks(ptr', dip'.ip) = Blocks(ptr, dip.ip) \union {balloc}
<1>1. /\ ptr \in [Blks -> Pointers] /\ dip.ip \in Inodes /\ DirWhole(ptr, dip.ip)
      /\ dip \in [ip : Inodes, room : BOOLEAN]
  BY DirNow
<1>2. balloc # 0 /\ Mark({balloc}) /\ balloc \in Blks
  BY DirNow DEF AddIndirect, mknodGrows
<1>3. CASE AddIndirect
  <2>1. /\ dip.ip.ind = 0 /\ dip' = [dip EXCEPT !.ip.ind = balloc]
        /\ ptr' = [ptr EXCEPT ![balloc] = NoPointers]
    BY <1>3 DEF AddIndirect
  <2>2. dip'.ip = [dip.ip EXCEPT !.ind = balloc]
    BY <1>1, <2>1
  <2>3. ptr' = Put(ptr, balloc, NoPointers) /\ dip'.ip = WithIndirect(dip.ip, balloc)
    BY <2>1, <2>2 DEF Put, WithIndirect
  <2>4. /\ DirWhole(Put(ptr, balloc, NoPointers), WithIndirect(dip.ip, balloc))
        /\ Blocks(Put(ptr, balloc, NoPointers), WithIndirect(dip.ip, balloc))
             = Blocks(ptr, dip.ip) \union {balloc}
    BY <1>1, <1>2, <2>1, DirIndirect
  <2> QED BY <1>2, <2>3, <2>4
<1>4. CASE mknodGrows
  <2> DEFINE off == dip.ip.size
  <2>1. CASE off <= directlim
    <3>1. /\ dip' = [dip EXCEPT !.ip.block[off] = balloc, !.ip.size = off + 1, !.room = TRUE]
          /\ ptr' = ptr
      BY <1>4, <2>1 DEF mknodGrows
    <3>2. dip'.ip = [dip.ip EXCEPT !.block[off] = balloc, !.size = off + 1]
      BY <1>1, <3>1
    <3> DEFINE j == Longer(dip.ip, balloc)
    <3>3. DirWhole(ptr, j) /\ Blocks(ptr, j) = Blocks(ptr, dip.ip) \union {balloc}
      BY <1>1, <1>2, <2>1, DirDirect
    <3>4. dip'.ip = j
      BY <3>2 DEF Longer
    <3> HIDE DEF j
    <3> QED BY <1>2, <3>1, <3>3, <3>4
  <2>2. CASE ~(off <= directlim)
    <3>1. /\ dip' = [dip EXCEPT !.ip.size = off + 1, !.room = TRUE]
          /\ ptr' = [ptr EXCEPT ![dip.ip.ind][off - (directlim + 1)] = balloc]
          /\ off <= ind1lim
      BY <1>4, <2>2 DEF mknodGrows
    <3>2. dip'.ip = [dip.ip EXCEPT !.size = off + 1]
      BY <1>1, <3>1
    <3>3. dip.ip.ind # 0
      <4>1. off \in Nat
        BY <1>1 DEF Inodes
      <4>2. off > directlim
        BY <2>2, <4>1, Limits
      <4> QED BY <1>4, <4>2 DEF mknodGrows
    <3>4. ptr' = PutBehind(ptr, dip.ip, balloc) /\ dip'.ip = Sized(dip.ip)
      BY <3>1, <3>2 DEF PutBehind, Sized
    <3>5. /\ DirWhole(PutBehind(ptr, dip.ip, balloc), Sized(dip.ip))
          /\ Blocks(PutBehind(ptr, dip.ip, balloc), Sized(dip.ip))
               = Blocks(ptr, dip.ip) \union {balloc}
      BY <1>1, <1>2, <2>2, <3>1, <3>3, DirBehind
    <3> QED BY <1>2, <3>4, <3>5
  <2> QED BY <2>1, <2>2
<1> QED BY <1>2, <1>3, <1>4

LEMMA DirKept ==
  ASSUME IInv, failed = {}, UNCHANGED << ptr, dip >> \/ fillIndirect
  PROVE  DirWhole(ptr', dip'.ip) /\ Blocks(ptr', dip'.ip) = Blocks(ptr, dip.ip)
<1>1. CASE UNCHANGED << ptr, dip >>
  BY <1>1, DirNow
<1>2. CASE fillIndirect
  <2>1. dip' = dip /\ balloc # 0 /\ ptr' = [ptr EXCEPT ![balloc] = Rest]
    BY <1>2 DEF fillIndirect
  <2>2. balloc \notin Blocks(ptr, dip.ip)
    BY <2>1, DirNow
  <2>3. dip.ip.dind = 0 /\ dip.ip.tind = 0
    BY DirNow DEF DirWhole
  <2>4. /\ ptr \in [Blks -> Pointers] /\ dip.ip \in Inodes /\ DirWhole(ptr, dip.ip)
    BY DirNow
  <2>5. DirWhole([ptr EXCEPT ![balloc] = Rest], dip.ip)
    BY <2>2, <2>4, DirFrame
  <2>6. Blocks(Put(ptr, balloc, Rest), dip.ip) = Blocks(ptr, dip.ip)
    BY <2>2, <2>3, <2>4, BlocksFrame
  <2>7. ptr' = Put(ptr, balloc, Rest)
    BY <2>1 DEF Put
  <2> QED BY <2>1, <2>5, <2>6, <2>7
<1> QED BY <1>1, <1>2

LEMMA DirSteps ==
  ASSUME Next
  PROVE  \/ AddIndirect \/ mknodGrows \/ fillIndirect \/ UNCHANGED << ptr, dip >>
         \/ mknodNoSpace
BY Zenon DEF Next, othersGrow, noInput, start, nameiHangs, nameiFinds, nameiCrashes, nameiRefuses,
  nameiMisses, ext2_truncate, mknodInPlace, fillFails, fillBlocks, fillCrashes, ext2_bwrite, finishCrashes,
  finish, disk

(* An allocation that fails is recorded. *)
LEMMA FailsRecorded ==
  ASSUME mknodNoSpace \/ fillFails \/ fillCrashes
  PROVE  failed' # {}
BY DEF mknodNoSpace, fillFails, fillCrashes
-----------------------------------------------------------------------------
LEMMA NextLaid ==
  ASSUME IInv, Next
  PROVE  Laid'
<1>1. TypeOK /\ Shapes /\ Laid
  BY DEF IInv
<1>2. ip \in Inodes /\ nblocks \in Nat /\ blkno \in Nat
  BY <1>1, BoundsAssumption DEF TypeOK
<1>3. CASE pc' \notin {"fill", "indirect", "write"}
  BY <1>3 DEF Laid
<1>4. CASE ext2_truncate
  <2>1. /\ pc' = "fill"
        /\ ip' = [ip EXCEPT !.block = NoBlocks, !.ind = 0, !.dind = 0, !.tind = 0, !.size = 0]
    BY <1>4 DEF ext2_truncate
  <2>2. ip'.block = NoBlocks /\ ip'.ind = 0 /\ ip'.dind = 0 /\ ip'.tind = 0
    BY <1>2, <2>1 DEF Inodes
  <2> QED BY <2>1, <2>2 DEF Laid
<1>5. CASE Created
  <2>1. pc' = "fill" /\ ip'.block = NoBlocks /\ ip'.ind = 0 /\ ip'.dind = 0 /\ ip'.tind = 0
    BY <1>5 DEF Created, Unused
  <2> QED BY <2>1 DEF Laid
<1>6. CASE fillBlocks
  <2>1. /\ pc = "fill" /\ nblocks <= ind1lim /\ First # 0 /\ bs_start' = First
        /\ ip' = [ip EXCEPT !.block = DataBlocks, !.size = nblocks]
        /\ pc' = IF nblocks > directlim THEN "indirect" ELSE "write"
        /\ UNCHANGED << nblocks, blkno >>
    BY <1>6 DEF fillBlocks
  <2>2. /\ First .. First + nblocks - 1 \subseteq Blks \ Meta /\ First \in Blks
        /\ DataBlocks = [k \in 0 .. NDir - 1 |-> IF k < nblocks THEN First + k ELSE 0]
    BY <1>1, <2>1, DataBlocksIn, ContiguousFree
  <2>3. ip.ind = 0 /\ ip.dind = 0 /\ ip.tind = 0 /\ blkno = 0
    BY <1>1, <2>1 DEF Laid, Shapes
  <2>4. ip'.block = DataBlocks /\ ip'.ind = 0 /\ ip'.dind = 0 /\ ip'.tind = 0
    BY <1>2, <2>1, <2>3 DEF Inodes
  <2> HIDE DEF Laid
  <2>5. pc' # "fill"
    BY <2>1
  <2>6. /\ nblocks' <= ind1lim /\ bs_start' \in Blks /\ Run' \subseteq Blks \ Meta
        /\ ip'.dind = 0 /\ ip'.tind = 0
        /\ ip'.block = [k \in 0 .. NDir - 1 |-> IF k < nblocks' THEN bs_start' + k ELSE 0]
    BY <2>1, <2>2, <2>4 DEF Run
  <2>7. pc' = "indirect" => nblocks' > directlim /\ ip'.ind = 0
    BY <2>1, <2>4
  <2>8. pc' = "write" => ~(nblocks' > directlim) /\ ip'.ind = 0
    BY <2>1, <2>4
  <2>9. \A k \in 0 .. blkno' - 1 : FALSE
    BY <2>1, <2>3
  <2> QED BY <2>5, <2>6, <2>7, <2>8, <2>9 DEF Laid
<1>7. CASE fillIndirect
  <2>1. /\ pc = "indirect" /\ pc' = "write" /\ balloc # 0
        /\ ip' = [ip EXCEPT !.ind = balloc] /\ ptr' = [ptr EXCEPT ![balloc] = Rest]
        /\ UNCHANGED << nblocks, blkno, bs_start >>
    BY <1>7 DEF fillIndirect, locals
  <2>2. /\ nblocks <= ind1lim /\ bs_start \in Blks /\ Run \subseteq Blks \ Meta
        /\ ip.dind = 0 /\ ip.tind = 0
        /\ ip.block = [k \in 0 .. NDir - 1 |-> IF k < nblocks THEN bs_start + k ELSE 0]
        /\ nblocks > directlim /\ blkno = 0
    BY <1>1, <2>1 DEF Laid, Shapes
  <2>3. ip'.block = ip.block /\ ip'.ind = balloc /\ ip'.dind = 0 /\ ip'.tind = 0
    BY <1>2, <2>1, <2>2 DEF Inodes
  <2>4. ptr'[balloc] = Rest /\ balloc # 0
    BY <1>1, <2>1, CleanNow DEF TypeOK
  <2>5. Rest' = Rest /\ Run' = Run
    BY <2>1 DEF Rest, Run
  <2>6. \A k \in 0 .. blkno' - 1 : FALSE
    BY <2>1, <2>2
  <2> QED BY <2>1, <2>2, <2>3, <2>4, <2>5, <2>6 DEF Laid
<1>8. CASE ext2_bwrite
  <2>1. /\ pc = "write" /\ blkno < nblocks /\ blkno' = blkno + 1
        /\ data' = [data EXCEPT ![ext2_blkno(ptr, ip, blkno)] = << run, blkno >>]
        /\ UNCHANGED << pc, ptr, ip, nblocks, bs_start, run >>
    BY <1>8 DEF ext2_bwrite, filevars
  <2>2. ext2_blkno(ptr, ip, blkno) = bs_start + blkno /\ bs_start + blkno \in Blks
    <3>1. blkno \in 0 .. nblocks - 1
      BY <1>2, <2>1
    <3> QED BY <2>1, <3>1, WritesRun
  <2>3. bs_start \in Nat /\ \A k \in 0 .. blkno - 1 : data[bs_start + k] = << run, k >>
    BY <1>1, <2>1 DEF Laid, Blks
  <2>4. data \in [Blks -> Contents]
    BY <1>1 DEF Shapes
  <2>5. ASSUME NEW k \in 0 .. blkno' - 1 PROVE data'[bs_start + k] = << run, k >>
    <3>1. CASE k = blkno
      <4> HIDE DEF Contents
      <4> QED BY <2>1, <2>2, <2>4, <3>1
    <3>2. CASE k # blkno
      <4>1. k \in 0 .. blkno - 1 /\ bs_start + k # bs_start + blkno
        BY <1>2, <2>1, <2>3, <3>2
      <4>2. k \in 0 .. nblocks - 1
        BY <1>2, <2>1, <4>1
      <4>3. bs_start + k \in Blks
        BY <2>1, <4>2, WritesRun
      <4> HIDE DEF Contents
      <4>4. data'[bs_start + k] = data[bs_start + k]
        BY <2>1, <2>2, <2>4, <4>1, <4>3
      <4> QED BY <2>3, <4>1, <4>4
    <3> QED BY <3>1, <3>2
  <2>6. Rest' = Rest /\ Run' = Run
    BY <2>1 DEF Rest, Run
  <2> QED BY <1>1, <2>1, <2>5, <2>6 DEF Laid
<1>9. \/ pc' \notin {"fill", "indirect", "write"} \/ ext2_truncate \/ Created \/ fillBlocks
      \/ fillIndirect \/ ext2_bwrite
  <2>1. ASSUME mknodInPlace \/ mknodGrows \/ mknodNoSpace PROVE Created
    BY <2>1, Zenon DEF mknodInPlace, mknodGrows, mknodNoSpace
  <2> QED BY <2>1 DEF Next, othersGrow, noInput, start, nameiHangs, nameiFinds, nameiCrashes, nameiRefuses,
    nameiMisses, AddIndirect, fillFails, fillCrashes, finishCrashes, finish, Exit
<1> QED BY <1>3, <1>4, <1>5, <1>6, <1>7, <1>8, <1>9

(* The blocks of a bootstrap of n blocks from block s on. *)
Direct0(s, n) == [k \in 0 .. NDir - 1 |-> IF k < n THEN s + k ELSE 0]
Behind(s, n) == [k \in Offsets |-> IF NDir + k < n THEN s + NDir + k ELSE 0]

LEMMA LaidDirect ==
  ASSUME NEW p, NEW i, NEW s \in Nat \ {0}, NEW n \in Nat,
         i.ind = 0, i.dind = 0, i.tind = 0, i.block = Direct0(s, n)
  PROVE  /\ Blocks(p, i) \subseteq s .. s + n - 1
         /\ n <= directlim => Blocks(p, i) = s .. s + n - 1
<1>1. Blocks(p, i) = {i.block[k] : k \in 0 .. NDir - 1} \ {0}
  BY BlocksSimple
<1>2. ASSUME NEW k \in 0 .. NDir - 1 PROVE i.block[k] = IF k < n THEN s + k ELSE 0
  BY DEF Direct0
<1>3. ASSUME NEW b \in Blocks(p, i) PROVE b \in s .. s + n - 1
  <2>1. PICK k \in 0 .. NDir - 1 : b = i.block[k] /\ b # 0
    BY <1>1
  <2>2. k \in Nat /\ k < n /\ b = s + k
    BY <1>2, <2>1, Limits
  <2> QED BY <2>2
<1>4. ASSUME n <= directlim, NEW b \in s .. s + n - 1 PROVE b \in Blocks(p, i)
  <2>1. b - s \in 0 .. NDir - 1 /\ b - s < n /\ s + (b - s) = b /\ b # 0
    BY <1>4, Limits
  <2>2. i.block[b - s] = b
    BY <1>2, <2>1
  <2> QED BY <1>1, <2>1, <2>2
<1> QED BY <1>3, <1>4

LEMMA LaidBehind ==
  ASSUME NEW p, NEW i, NEW s \in Nat \ {0}, NEW n \in Nat, n <= ind1lim, n > directlim,
         i.ind # 0, i.dind = 0, i.tind = 0, i.block = Direct0(s, n), p[i.ind] = Behind(s, n)
  PROVE  Blocks(p, i) = (s .. s + n - 1) \union {i.ind}
<1> DEFINE D == {i.block[k] : k \in 0 .. NDir - 1} \ {0}
           U == Under(p, i.ind)
<1>1. Blocks(p, i) = D \union {i.ind} \union U
  BY BlocksSimple
<1>2. ASSUME NEW k \in 0 .. NDir - 1 PROVE i.block[k] = s + k /\ k \in Nat
  BY Limits DEF Direct0
<1>3. ASSUME NEW k \in Offsets
      PROVE  p[i.ind][k] = (IF NDir + k < n THEN s + NDir + k ELSE 0) /\ k \in Nat
  BY DEF Behind, Offsets
<1>4. ASSUME NEW b \in D PROVE b \in s .. s + n - 1
  <2>1. PICK k \in 0 .. NDir - 1 : b = i.block[k]
    OBVIOUS
  <2>2. b = s + k /\ k \in Nat /\ k < n
    BY <1>2, <2>1, Limits
  <2> QED BY <2>2
<1>5. ASSUME NEW b \in U PROVE b \in s .. s + n - 1
  <2>1. PICK k \in Offsets : b = p[i.ind][k] /\ b # 0
    BY DEF Under
  <2>2. b = s + NDir + k /\ k \in Nat /\ NDir + k < n
    BY <1>3, <2>1
  <2> QED BY <2>2, Limits
<1>6. ASSUME NEW b \in s .. s + n - 1 PROVE b \in D \union U
  <2>1. CASE b < s + NDir
    <3>1. b - s \in 0 .. NDir - 1 /\ s + (b - s) = b /\ b # 0
      BY <2>1, Limits
    <3>2. i.block[b - s] = b
      BY <1>2, <3>1
    <3> QED BY <3>1, <3>2
  <2>2. CASE ~(b < s + NDir)
    <3> DEFINE k == b - s - NDir
    <3>1. k \in Offsets /\ NDir + k < n /\ s + NDir + k = b /\ b # 0
      BY <2>2, Limits DEF Offsets
    <3>2. p[i.ind][k] = b
      BY <1>3, <3>1
    <3> HIDE DEF k
    <3> QED BY <3>1, <3>2 DEF Under
  <2> QED BY <2>1, <2>2
<1> HIDE DEF D, U
<1> QED BY <1>1, <1>4, <1>5, <1>6
-----------------------------------------------------------------------------
LEMMA NextHealthy ==
  ASSUME IInv, Next
  PROVE  Healthy'
<1> SUFFICES ASSUME failed' = {} PROVE Healthy'
  BY DEF Healthy
<1>1. failed = {}
  BY FailedStays
<1>2. /\ dirent # 0 /\ DirWhole(ptr, dip.ip) /\ pc # "hangs"
      /\ (pc = "crashed" => nblocks + FewestOthers < NBUFS)
      /\ pc = "mknod" => ino # 0
      /\ pc \in {"off", "namei"} /\ dirent # NoEntry => inode[Place(dirent)].links # 0
      /\ pc \in InFile => ip.links # 0 /\ dirent = ino
  BY <1>1 DEF IInv, Healthy
<1>3. ip \in Inodes /\ inode \in [Places -> Inodes] /\ Place(ino) \in Places
  BY DEF IInv, TypeOK, Shapes
<1>4. DirWhole(ptr', dip'.ip)
  BY <1>1, DirSteps, DirAdds, DirKept, FailsRecorded
<1>5. CASE othersGrow
  BY <1>2, <1>4, <1>5 DEF othersGrow, Healthy, filevars, InFile
<1>n. CASE noInput
  BY <1>2, <1>4, <1>n DEF noInput, Exit, Healthy, InFile
<1>6. CASE \E n \in 0 .. MaxBlks : start(n)
  BY <1>2, <1>4, <1>6 DEF start, Healthy, filevars, disk, InFile
<1>7. CASE nameiHangs
  <2>1. PICK k \in 0 .. dip.ip.size - 1 : ext2_blkno(ptr, dip.ip, k) = 0
    BY <1>7 DEF nameiHangs, HasHole
  <2>2. k \in 0 .. ind1lim /\ k < dip.ip.size
    <3>1. dip.ip.size \in Nat /\ dip.ip.size <= ind1lim + 1
      BY <1>1, <1>2, DirNow DEF DirWhole, Inodes
    <3> QED BY <3>1, Limits
  <2>3. (k < dip.ip.size) = (ext2_blkno(ptr, dip.ip, k) # 0)
    BY <1>2, <2>2 DEF DirWhole
  <2> QED BY <2>1, <2>2, <2>3
<1>8. CASE nameiFinds
  BY <1>2, <1>4, <1>8 DEF nameiFinds, Healthy, disk, InFile
<1>9. CASE nameiCrashes
  BY <1>2, <1>9 DEF nameiCrashes
<1>10. CASE nameiRefuses
  BY <1>2, <1>4, <1>10 DEF nameiRefuses, Healthy, Exit, InFile
<1>11. CASE nameiMisses
  BY <1>2, <1>4, <1>11 DEF nameiMisses, Healthy, InFile
<1>12. CASE ext2_truncate
  <2>1. /\ pc = "truncate" /\ pc' = "fill" /\ UNCHANGED << dirent, ino >>
        /\ ip' = [ip EXCEPT !.block = NoBlocks, !.ind = 0, !.dind = 0, !.tind = 0, !.size = 0]
    BY <1>12 DEF ext2_truncate
  <2>2. ip'.links = ip.links
    BY <1>3, <2>1 DEF Inodes
  <2> QED BY <1>2, <1>4, <2>1, <2>2 DEF Healthy, InFile
<1>13. CASE mknodInPlace \/ mknodGrows
  <2>1. pc = "mknod" /\ pc' = "fill" /\ dirent' = ino /\ UNCHANGED ino /\ Created
    BY <1>13, Zenon DEF mknodInPlace, mknodGrows, Created
  <2>2. ip'.links = 1
    BY <2>1 DEF Created, Unused
  <2> QED BY <1>2, <1>4, <2>1, <2>2 DEF Healthy, InFile
<1>14. CASE AddIndirect
  <2>1. pc = "mknod" /\ UNCHANGED << pc, dirent, ino >>
    BY <1>14, Zenon DEF AddIndirect, filevars
  <2> QED BY <1>2, <1>4, <2>1 DEF Healthy, InFile
<1>15. CASE fillBlocks
  <2>1. /\ pc = "fill" /\ pc' \in {"indirect", "write"} /\ UNCHANGED << dirent, ino >>
        /\ ip' = [ip EXCEPT !.block = DataBlocks, !.size = nblocks]
    BY <1>15 DEF fillBlocks
  <2>2. ip'.links = ip.links
    BY <1>3, <2>1 DEF Inodes
  <2> QED BY <1>2, <1>4, <2>1, <2>2 DEF Healthy, InFile
<1>16. CASE fillIndirect
  <2>1. /\ pc = "indirect" /\ pc' = "write" /\ UNCHANGED << dirent, ino >>
        /\ ip' = [ip EXCEPT !.ind = balloc]
    BY <1>16 DEF fillIndirect
  <2>2. ip'.links = ip.links
    BY <1>3, <2>1 DEF Inodes
  <2> QED BY <1>2, <1>4, <2>1, <2>2 DEF Healthy, InFile
<1>17. CASE ext2_bwrite
  BY <1>2, <1>4, <1>17 DEF ext2_bwrite, Healthy, filevars, InFile
<1>18. CASE finish
  <2>1. /\ pc = "write" /\ pc' \in {"off", "ruined"} /\ UNCHANGED dirent
        /\ inode' = [inode EXCEPT ![Place(ino)] = [ip EXCEPT !.size = nblocks]]
    BY <1>18 DEF finish, Exit
  <2>2. dirent = ino /\ ip.links # 0
    BY <1>2, <2>1 DEF InFile
  <2>3. inode'[Place(dirent)].links # 0
    BY <1>3, <2>1, <2>2 DEF Inodes
  <2> QED BY <1>2, <1>4, <2>1, <2>3 DEF Healthy, InFile
<1>c. CASE finishCrashes
  <2>1. PICK m \in FewestOthers .. MostOthers : InCache(m) < NBUFS
    BY <1>c DEF finishCrashes
  <2>2. m \in Int /\ m >= 2 /\ nblocks \in Nat /\ NBUFS \in Nat
    BY BoundsAssumption DEF IInv, TypeOK, FewestOthers
  <2>3. nblocks + m <= InCache(m) /\ InCache(m) \in Int
    BY <2>2 DEF InCache
  <2>4. nblocks + FewestOthers < NBUFS
    BY <2>1, <2>2, <2>3 DEF FewestOthers
  <2>5. pc' = "crashed" /\ UNCHANGED << dirent, nblocks >>
    BY <1>c DEF finishCrashes, locals
  <2> QED BY <1>2, <1>4, <2>4, <2>5 DEF Healthy, InFile
<1> QED BY <1>n, <1>c, <1>5, <1>6, <1>7, <1>8, <1>9, <1>10, <1>11, <1>12, <1>13, <1>14, <1>15, <1>16,
  <1>17, <1>18, FailsRecorded, Zenon DEF Next
-----------------------------------------------------------------------------
(* Owners *)
Mine == Blocks(ptr, Owner) \union (IF pc = "indirect" THEN Run ELSE {})

Owned(m, o, d, f) ==
  /\ m = Meta \union o \union d \union f
  /\ f \intersect (Meta \union o \union d) = {} /\ d \intersect (Meta \union o) = {}

LEMMA OwnedMeans ==
  /\ BlocksOwned <=> (failed = {} => Owned(blockmap, others, Blocks(ptr, dip.ip), Mine))
  /\ BlocksOwned' <=> (failed' = {} => Owned(blockmap', others', Blocks(ptr', dip'.ip), Mine'))
BY DEF BlocksOwned, Owned, Mine, Run

LEMMA UnusedBlocks ==
  ASSUME NEW p
  PROVE  /\ Blocks(p, Unused) = {}
         /\ Blocks(p, [Unused EXCEPT !.mode = "reg", !.links = 1]) = {}
BY BlocksNone DEF Unused

(* The blocks of /linuxboot before the file has any. *)
LEMMA MineEmpty ==
  ASSUME IInv, pc \in {"mknod", "fill"}
  PROVE  Mine = {}
<1>1. CASE pc = "mknod"
  <2>1. Owner = Unused
    BY <1>1 DEF IInv, Shapes, Owner, OnDisk
  <2> QED BY <1>1, <2>1, UnusedBlocks DEF Mine
<1>2. CASE pc = "fill"
  <2>1. Owner = ip
    BY <1>2 DEF Owner
  <2>2. Blocks(ptr, ip) = {}
    BY <1>2, BlocksNone DEF IInv, Laid
  <2> QED BY <1>2, <2>1, <2>2 DEF Mine
<1> QED BY <1>1, <1>2

LEMMA MineCreated ==
  ASSUME Created
  PROVE  Mine' = {}
<1>1. pc' = "fill" /\ ip' = [Unused EXCEPT !.mode = "reg", !.links = 1]
  BY DEF Created
<1>2. Owner' = ip'
  BY <1>1 DEF Owner
<1>3. Blocks(ptr', ip') = {}
  BY <1>1, UnusedBlocks
<1> QED BY <1>1, <1>2, <1>3 DEF Mine

LEMMA MineRun ==
  ASSUME IInv, pc \in {"indirect", "write"}
  PROVE  /\ Run \subseteq Mine /\ (pc = "indirect" => Mine = Run)
         /\ pc = "write" /\ nblocks <= directlim => Mine = Run
         /\ pc = "write" /\ nblocks > directlim => Mine = Run \union {ip.ind}
<1>1. /\ nblocks <= ind1lim /\ bs_start \in Nat \ {0} /\ nblocks \in Nat
      /\ ip.dind = 0 /\ ip.tind = 0 /\ ip.block = Direct0(bs_start, nblocks)
  BY BoundsAssumption DEF IInv, TypeOK, Laid, Blks, Direct0
<1>2. Owner = ip
  BY DEF Owner
<1>3. Run = bs_start .. bs_start + nblocks - 1
  BY DEF Run
<1>4. CASE pc = "indirect"
  <2>1. ip.ind = 0
    BY <1>4 DEF IInv, Laid
  <2>2. Blocks(ptr, ip) \subseteq Run
    BY <1>1, <1>3, <2>1, LaidDirect
  <2> QED BY <1>2, <1>4, <2>2 DEF Mine
<1>5. CASE pc = "write" /\ nblocks <= directlim
  <2>1. ip.ind = 0
    <3>1. ~(nblocks > directlim)
      BY <1>1, <1>5, Limits
    <3> QED BY <1>5, <3>1 DEF IInv, Laid
  <2>2. Blocks(ptr, ip) = Run
    BY <1>1, <1>3, <1>5, <2>1, LaidDirect
  <2>3. ~(nblocks > directlim)
    BY <1>1, <1>5, Limits
  <2> QED BY <1>2, <1>5, <2>2, <2>3 DEF Mine
<1>6. CASE pc = "write" /\ nblocks > directlim
  <2>1. ip.ind # 0 /\ ptr[ip.ind] = Behind(bs_start, nblocks)
    BY <1>6 DEF IInv, Laid, Rest, Behind
  <2>2. Blocks(ptr, ip) = Run \union {ip.ind}
    BY <1>1, <1>3, <1>6, <2>1, LaidBehind
  <2>3. ~(nblocks <= directlim)
    BY <1>1, <1>6, Limits
  <2> QED BY <1>2, <1>6, <2>2, <2>3 DEF Mine
<1>7. nblocks <= directlim \/ nblocks > directlim
  BY <1>1, Limits
<1> QED BY <1>4, <1>5, <1>6, <1>7

(* A step that leaves the blocks of /linuxboot alone. *)
LEMMA MineKept ==
  ASSUME IInv, failed = {},
         \/ othersGrow \/ (\E n \in 0 .. MaxBlks : start(n)) \/ nameiFinds \/ nameiRefuses
         \/ nameiMisses \/ ext2_bwrite \/ finish \/ noInput \/ finishCrashes
  PROVE  Mine' = Mine
<1>1. CASE othersGrow
  <2>1. pc = "off" /\ UNCHANGED << pc, ptr, inode, dirent >>
    BY <1>1 DEF othersGrow
  <2> QED BY <2>1 DEF Mine, Owner, OnDisk
<1>n. CASE noInput
  <2>1. pc = "off" /\ pc' \in {"off", "ruined"} /\ UNCHANGED << ptr, inode, dirent >>
    BY <1>n DEF noInput, Exit
  <2> QED BY <2>1 DEF Mine, Owner, OnDisk
<1>c. CASE finishCrashes
  <2>1. pc = "write" /\ pc' = "crashed" /\ UNCHANGED << ptr, ip >>
    BY <1>c DEF finishCrashes, filevars, disk
  <2> QED BY <2>1 DEF Mine, Owner, OnDisk
<1>2. CASE \E n \in 0 .. MaxBlks : start(n)
  <2>1. pc = "off" /\ pc' = "namei" /\ UNCHANGED << ptr, inode, dirent >>
    BY <1>2 DEF start, disk
  <2> QED BY <2>1 DEF Mine, Owner, OnDisk
<1>3. CASE nameiFinds
  <2>1. /\ pc = "namei" /\ pc' = "truncate" /\ dirent # NoEntry /\ ip' = inode[Place(dirent)]
        /\ UNCHANGED ptr
    BY <1>3 DEF nameiFinds, disk
  <2> QED BY <2>1 DEF Mine, Owner, OnDisk
<1>4. CASE nameiRefuses
  <2>1. pc = "namei" /\ pc' \in {"off", "ruined"} /\ UNCHANGED << ptr, inode, dirent >>
    BY <1>4 DEF nameiRefuses, Exit
  <2> QED BY <2>1 DEF Mine, Owner, OnDisk
<1>5. CASE nameiMisses
  <2>1. pc = "namei" /\ pc' = "mknod" /\ UNCHANGED << ptr, inode, dirent >>
    BY <1>5 DEF nameiMisses, disk
  <2> QED BY <2>1 DEF Mine, Owner, OnDisk
<1>6. CASE ext2_bwrite
  <2>1. pc = "write" /\ UNCHANGED << pc, ptr, ip >>
    BY <1>6 DEF ext2_bwrite, filevars
  <2> QED BY <2>1 DEF Mine, Owner, OnDisk
<1>7. CASE finish
  <2>1. /\ pc = "write" /\ pc' \in {"off", "ruined"} /\ UNCHANGED << ptr, dirent >>
        /\ inode' = [inode EXCEPT ![Place(ino)] = [ip EXCEPT !.size = nblocks]]
    BY <1>7 DEF finish, Exit
  <2>2. /\ dirent = ino /\ Place(ino) \in Places /\ inode \in [Places -> Inodes]
        /\ ip \in Inodes /\ ino # NoEntry
    BY <2>1 DEF IInv, Healthy, InFile, Shapes, TypeOK, NoEntry, Inums
  <2>3. inode'[Place(dirent)] = [ip EXCEPT !.size = nblocks]
    BY <2>1, <2>2
  <2>4. Owner = ip /\ Owner' = [ip EXCEPT !.size = nblocks]
    BY <2>1, <2>2, <2>3 DEF Owner, OnDisk
  <2>5. Blocks(ptr, [ip EXCEPT !.size = nblocks]) = Blocks(ptr, ip)
    BY <2>2, BlocksSized
  <2> QED BY <2>1, <2>4, <2>5 DEF Mine
<1> QED BY <1>n, <1>c, <1>1, <1>2, <1>3, <1>4, <1>5, <1>6, <1>7

LEMMA NextOwned ==
  ASSUME IInv, Next
  PROVE  BlocksOwned'
<1> SUFFICES ASSUME failed' = {}
             PROVE  Owned(blockmap', others', Blocks(ptr', dip'.ip), Mine')
  BY OwnedMeans
<1> DEFINE D == Blocks(ptr, dip.ip)
           D1 == Blocks(ptr', dip'.ip)
<1>1. failed = {} /\ Owned(blockmap, others, D, Mine)
  BY FailedStays, OwnedMeans DEF IInv
<1>2. balloc # 0 => balloc \notin blockmap
  BY <1>1, DirNow
<1>3. Laid'
  BY NextLaid
<1>4. UNCHANGED << ptr, dip >> \/ fillIndirect => D1 = D
  BY <1>1, DirKept
<1> SUFFICES Owned(blockmap', others', D1, Mine')
  OBVIOUS
<1> HIDE DEF D, D1
<1>5. ASSUME UNCHANGED << ptr, dip, blockmap, others >>, Mine' = Mine
      PROVE  Owned(blockmap', others', D1, Mine')
  BY <1>1, <1>4, <1>5
<1>6. CASE othersGrow
  <2>1. /\ balloc # 0 /\ others' = others \union {balloc} /\ blockmap' = blockmap \union {balloc}
        /\ UNCHANGED << ptr, dip >>
    BY <1>6 DEF othersGrow, Mark
  <2>2. Mine' = Mine
    BY <1>1, <1>6, MineKept
  <2> QED BY <1>1, <1>2, <1>4, <2>1, <2>2 DEF Owned
<1>7. CASE \/ \E n \in 0 .. MaxBlks : start(n)
           \/ nameiFinds \/ nameiRefuses \/ nameiMisses \/ ext2_bwrite \/ finish
           \/ noInput \/ finishCrashes
  <2>1. UNCHANGED << ptr, dip, blockmap, others >>
    BY <1>7, Zenon DEF noInput, finishCrashes, start, nameiFinds, nameiRefuses, nameiMisses, ext2_bwrite, finishCrashes, finish,
      blockvars, disk
  <2>2. Mine' = Mine
    BY <1>1, <1>7, MineKept
  <2> QED BY <1>5, <2>1, <2>2
<1>8. CASE ext2_truncate
  <2>1. /\ pc = "truncate" /\ pc' = "fill" /\ blockmap' = blockmap \ Blocks(ptr, ip)
        /\ UNCHANGED << ptr, dip, others >>
    BY <1>8 DEF ext2_truncate, ext2_bfree, disk
  <2>2. Mine = Blocks(ptr, ip)
    BY <2>1 DEF Mine, Owner
  <2>3. Owner' = ip'
    BY <2>1 DEF Owner
  <2>4. Blocks(ptr', ip') = {}
    BY <1>3, <2>1, BlocksNone DEF Laid
  <2>5. Mine' = {}
    BY <2>1, <2>3, <2>4 DEF Mine
  <2> QED BY <1>1, <1>4, <2>1, <2>2, <2>5 DEF Owned
<1>9. CASE mknodInPlace
  <2>1. pc = "mknod" /\ Created /\ UNCHANGED << ptr, dip, blockmap, others >>
    BY <1>9, Zenon DEF mknodInPlace, blockvars, disk
  <2>2. Mine = {} /\ Mine' = {}
    BY <2>1, MineEmpty, MineCreated
  <2> QED BY <1>5, <2>1, <2>2
<1>10. CASE AddIndirect \/ mknodGrows
  <2>1. pc = "mknod" /\ UNCHANGED others /\ (Created \/ UNCHANGED << pc, dirent >>)
    BY <1>10, Zenon DEF AddIndirect, mknodGrows
  <2>2. Mine = {}
    BY <2>1, MineEmpty
  <2>3. Mine' = {}
    <3>1. ASSUME UNCHANGED << pc, dirent >> PROVE Mine' = {}
      <4>1. dirent = NoEntry
        BY <2>1 DEF IInv, Shapes
      <4>2. Owner' = Unused
        BY <2>1, <3>1, <4>1 DEF Owner, OnDisk
      <4> QED BY <2>1, <3>1, <4>2, UnusedBlocks DEF Mine
    <3> QED BY <2>1, <3>1, MineCreated
  <2>4. balloc # 0 /\ blockmap' = blockmap \union {balloc} /\ D1 = D \union {balloc}
    BY <1>1, <1>10, DirAdds DEF Mark, D, D1
  <2> QED BY <1>1, <1>2, <2>1, <2>2, <2>3, <2>4 DEF Owned
<1>11. CASE fillBlocks
  <2> DEFINE S == First .. First + nblocks - 1
  <2>1. /\ pc = "fill" /\ First # 0 /\ blockmap' = blockmap \union S
        /\ bs_start' = First /\ UNCHANGED << ptr, dip, others, nblocks >>
        /\ pc' = IF nblocks > directlim THEN "indirect" ELSE "write"
    BY <1>11 DEF fillBlocks, Mark, disk
  <2>2. S \intersect blockmap = {}
    BY <2>1, ContiguousFree DEF IInv
  <2>3. Mine = {}
    BY <2>1, MineEmpty
  <2>4. Mine' = S
    <3>1. /\ First \in Nat \ {0} /\ nblocks \in Nat /\ ip'.dind = 0 /\ ip'.tind = 0 /\ ip'.ind = 0
          /\ ip'.block = Direct0(First, nblocks)
      <4>1. First \in Nat /\ nblocks \in Nat
        BY <2>1, DataBlocksIn
      <4>2. ip'.dind = 0 /\ ip'.tind = 0 /\ ip'.ind = 0 /\ ip'.block = Direct0(First, nblocks)
        BY <1>3, <2>1 DEF Laid, Direct0
      <4> QED BY <2>1, <4>1, <4>2
    <3>2. Owner' = ip'
      BY <2>1 DEF Owner
    <3>3. /\ Blocks(ptr', ip') \subseteq S
          /\ nblocks <= directlim => Blocks(ptr', ip') = S
      BY <3>1, LaidDirect
    <3>4. Run' = S
      BY <2>1 DEF Run
    <3>5. CASE nblocks > directlim
      <4>1. pc' = "indirect"
        BY <2>1, <3>5
      <4> QED BY <3>2, <3>3, <3>4, <4>1 DEF Mine
    <3>6. CASE ~(nblocks > directlim)
      <4>1. pc' = "write" /\ nblocks <= directlim
        BY <2>1, <3>1, <3>6, Limits
      <4> QED BY <3>2, <3>3, <4>1 DEF Mine
    <3> QED BY <3>5, <3>6
  <2> HIDE DEF S
  <2> QED BY <1>1, <1>4, <2>1, <2>2, <2>3, <2>4 DEF Owned
<1>12. CASE fillIndirect
  <2>1. /\ pc = "indirect" /\ pc' = "write" /\ balloc # 0 /\ blockmap' = blockmap \union {balloc}
        /\ ip' = [ip EXCEPT !.ind = balloc] /\ UNCHANGED << others, nblocks, bs_start >>
    BY <1>12 DEF fillIndirect, Mark, locals
  <2>2. Mine = Run
    BY <2>1, MineRun
  <2>3. Mine' = Run \union {balloc}
    <3>1. /\ nblocks <= ind1lim /\ nblocks > directlim /\ bs_start \in Nat \ {0} /\ nblocks \in Nat
          /\ ip \in Inodes
      BY <2>1, BoundsAssumption DEF IInv, TypeOK, Laid, Blks
    <3>2. /\ ip'.ind # 0 /\ ptr'[ip'.ind] = Behind(bs_start, nblocks) /\ ip'.dind = 0 /\ ip'.tind = 0
          /\ ip'.block = Direct0(bs_start, nblocks)
      BY <1>3, <2>1, <3>1 DEF Laid, Rest, Behind, Direct0
    <3>3. ip'.ind = balloc
      BY <2>1, <3>1 DEF Inodes
    <3>4. Blocks(ptr', ip') = Run \union {ip'.ind}
      BY <3>1, <3>2, LaidBehind DEF Run
    <3>5. Owner' = ip'
      BY <2>1 DEF Owner
    <3> QED BY <2>1, <3>3, <3>4, <3>5 DEF Mine
  <2> QED BY <1>1, <1>2, <1>4, <1>12, <2>1, <2>2, <2>3 DEF Owned
<1>13. ~nameiHangs
  <2>1. nameiHangs => pc' = "hangs" /\ Healthy'
    BY NextHealthy DEF nameiHangs
  <2> QED BY <2>1 DEF Healthy
<1>14. ~nameiCrashes
  BY <1>1 DEF IInv, Healthy, nameiCrashes
<1> QED BY <1>6, <1>7, <1>8, <1>9, <1>10, <1>11, <1>12, <1>13, <1>14, FailsRecorded, Zenon DEF Next
-----------------------------------------------------------------------------
LEMMA NextOthers ==
  ASSUME IInv, Next
  PROVE  OthersKept'
<1> DEFINE Right(d, b) == d = Intact(b) \/ b \in Stray
<1> SUFFICES ASSUME failed' = {} PROVE \A b \in others' \union Tables : Right(data'[b], b)
  BY DEF OthersKept
<1>1. failed = {} /\ data \in [Blks -> Contents] /\ others \subseteq Blks
  BY FailedStays DEF IInv, Shapes
<1>2. \A b \in others \union Tables : b \in Blks /\ Right(data[b], b)
  BY <1>1, MetaAssumption DEF IInv, OthersKept, Meta
<1>3. others \union Meta \subseteq blockmap /\ Mine \intersect (others \union Meta) = {}
  BY <1>1, OwnedMeans DEF IInv, Owned
<1>4. balloc # 0 => balloc \in Blks /\ balloc \notin others \union Meta
  BY <1>1, <1>3, DirNow
<1> HIDE DEF Right, Contents
<1>5. CASE UNCHANGED << data, others >>
  BY <1>2, <1>5
<1>6. CASE othersGrow
  <2>1. balloc # 0 /\ others' = others \union {balloc} /\ data' = [data EXCEPT ![balloc] = OldData]
    BY <1>6 DEF othersGrow
  <2>2. balloc \notin Copies /\ balloc \notin Tables
    BY <1>4, <2>1 DEF Meta
  <2>4. data'[balloc] = OldData
    BY <1>1, <1>4, <2>1
  <2>5. Right(data'[balloc], balloc)
    BY <2>2, <2>4 DEF Right, Intact
  <2>3. ASSUME NEW b \in others \union Tables PROVE Right(data'[b], b)
    BY <1>1, <1>2, <1>4, <2>1, <2>3 DEF Meta
  <2> QED BY <2>1, <2>3, <2>5
<1>7. CASE UNCHANGED others /\ data' = WriteSupers(data)
  <2>1. ASSUME NEW b \in others \union Tables PROVE Right(data'[b], b)
    <3>1. data'[b] = IF b \in SuperBlocks THEN SuperData ELSE data[b]
      BY <1>2, <1>7 DEF WriteSupers
    <3>2. CASE b \in SuperBlocks /\ b \in Copies
      BY <3>1, <3>2 DEF Right, Intact
    <3>3. CASE b \in SuperBlocks /\ b \notin Copies
      BY <3>3 DEF Right, Stray
    <3>4. CASE b \notin SuperBlocks
      BY <1>2, <3>1, <3>4
    <3> QED BY <3>2, <3>3, <3>4
  <2> QED BY <1>7, <2>1
<1>8. CASE mknodGrows
  <2>1. balloc # 0 /\ UNCHANGED others /\ data' = [data EXCEPT ![balloc] = Entries]
    BY <1>8, Zenon DEF mknodGrows
  <2>2. ASSUME NEW b \in others \union Tables PROVE Right(data'[b], b)
    BY <1>1, <1>2, <1>4, <2>1 DEF Meta
  <2> QED BY <2>1, <2>2
<1>9. CASE ext2_bwrite
  <2> DEFINE a == ext2_blkno(ptr, ip, blkno)
  <2>1. /\ pc = "write" /\ blkno < nblocks /\ UNCHANGED others
        /\ data' = [data EXCEPT ![a] = << run, blkno >>]
    BY <1>9 DEF ext2_bwrite
  <2>2. a \in Run
    <3>1. blkno \in 0 .. nblocks - 1
      BY <2>1, BoundsAssumption DEF IInv, TypeOK
    <3> QED BY <2>1, <3>1, WritesRun
  <2>3. a \notin others \union Meta
    BY <1>3, <2>1, <2>2, MineRun
  <2> HIDE DEF a
  <2>4. ASSUME NEW b \in others \union Tables PROVE Right(data'[b], b)
    BY <1>1, <1>2, <2>1, <2>3 DEF Meta
  <2> QED BY <2>1, <2>4
<1>10. \/ UNCHANGED << data, others >> \/ othersGrow \/ mknodGrows \/ ext2_bwrite
       \/ UNCHANGED others /\ data' = WriteSupers(data)
  BY Zenon DEF Next, noInput, start, nameiHangs, nameiFinds, nameiCrashes, nameiRefuses,
    nameiMisses, ext2_truncate, mknodInPlace, AddIndirect, mknodNoSpace, fillFails, fillBlocks,
    fillIndirect, fillCrashes, finishCrashes, finish, disk
<1> QED BY <1>5, <1>6, <1>7, <1>8, <1>9, <1>10

LEMMA NextBoot ==
  ASSUME IInv, Next
  PROVE  BootBlockRight'
<1> SUFFICES ASSUME outcome' = "installed" PROVE BootBlockRight'
  BY DEF BootBlockRight
<1>1. pc' \in {"off", "ruined"}
  BY NextTypes DEF Shapes
<1>2. finish
  BY <1>1 DEF Next, othersGrow, noInput, start, nameiHangs, nameiFinds, nameiCrashes, nameiRefuses,
    nameiMisses, ext2_truncate, mknodInPlace, AddIndirect, mknodGrows, mknodNoSpace, fillFails,
    fillBlocks, fillIndirect, fillCrashes, ext2_bwrite, finishCrashes, Exit, Created
<1>3. /\ pc = "write" /\ blkno = nblocks /\ data' = WriteSupers(data) /\ UNCHANGED run
      /\ boot' = [lbn |-> bs_start * SectorsPerBlk, count |-> nblocks * SectorsPerBlk]
  BY <1>2 DEF finish
<1>4. /\ nblocks \in 0 .. MaxBlks /\ bs_start \in Blks
      /\ \A k \in 0 .. nblocks - 1 : data[bs_start + k] = << run, k >>
  BY <1>3 DEF IInv, Laid, TypeOK
<1>5. ASSUME NEW k \in 0 .. nblocks - 1
      PROVE  bs_start + k \in Blks /\ (data'[bs_start + k] = << run', k >> \/ bs_start + k \in Stray)
  <2>1. bs_start + k \in Blks \ Meta
    BY <1>3, WritesRun
  <2>2. bs_start + k \notin SuperBlocks => data'[bs_start + k] = data[bs_start + k]
    BY <1>3, <2>1 DEF WriteSupers
  <2>3. bs_start + k \in SuperBlocks => bs_start + k \in Stray
    BY <2>1 DEF Stray, Meta
  <2> QED BY <1>3, <1>4, <2>1, <2>2, <2>3
<1>6. \E n \in 0 .. MaxBlks, b \in Blks :
        /\ boot' = [lbn |-> b * SectorsPerBlk, count |-> n * SectorsPerBlk]
        /\ \A k \in 0 .. n - 1 :
             b + k \in Blks /\ (data'[b + k] = << run', k >> \/ b + k \in Stray)
  BY <1>3, <1>4, <1>5, Zenon
<1> QED BY <1>6, Zenon DEF BootBlockRight

LEMMA InitIInv == Init => IInv
<1> SUFFICES ASSUME Init PROVE IInv
  OBVIOUS
<1>1. PICK l \in Layouts :
        /\ others = l.others /\ inodemap = l.inodes /\ dirent = l.dirent
        /\ inode = l.inode /\ ptr = l.ptr /\ dip = l.dip
        /\ blockmap = Meta \union l.others \union Blocks(l.ptr, l.dip.ip) \union FileBlocks(l)
  BY DEF Init
<1>2. /\ bg_free_blocks_count = [g \in Groups |-> ZeroCount(blockmap, g, BlocksPerGroup)]
      /\ s_free_blocks_count = Cardinality(Blks \ blockmap)
      /\ bg_free_inodes_count = [g \in Groups |-> ZeroCount(inodemap, g, InodesPerGroup)]
      /\ s_free_inodes_count = Cardinality(Inums \ inodemap)
      /\ data = [b \in Blks |-> Intact(b)]
      /\ pc = "off" /\ ino = 0 /\ ip = Unused
      /\ nblocks = 0 /\ blkno = 0 /\ bs_start = 0
      /\ run = 0 /\ outcome = "none" /\ failed = {}
  BY DEF Init
<1>3. /\ others \subseteq Blks /\ inodemap \subseteq Inums
      /\ inode \in [Places -> Inodes] /\ \A p \in Places : PointedAt(inode[p]) \intersect Meta = {}
      /\ ptr \in [Blks -> Pointers] /\ \A b \in Blks, k \in Offsets : ptr[b][k] \notin Meta
      /\ dip \in [ip : Inodes, room : BOOLEAN] /\ PointedAt(dip.ip) \intersect Meta = {}
      /\ DirWhole(ptr, dip.ip) /\ dirent \in Inums \union {NoEntry}
      /\ dirent # NoEntry => /\ dirent \in inodemap /\ Place(dirent) \in Places
                             /\ inode[Place(dirent)].links # 0
      /\ FileBlocks(l) \intersect (Meta \union others \union Blocks(ptr, dip.ip)) = {}
      /\ Blocks(ptr, dip.ip) \intersect (Meta \union others) = {}
  BY <1>1, LayoutsAssumption
<1>4. Clean(ptr) /\ dip.ip \in Inodes /\ dip.room \in BOOLEAN
  BY <1>3 DEF Clean
<1>5. Mine = FileBlocks(l)
  <2>1. Mine = Blocks(ptr, IF dirent = NoEntry THEN Unused ELSE inode[Place(dirent)])
    BY <1>2 DEF Mine, Owner, OnDisk
  <2> QED BY <1>1, <2>1, UnusedBlocks DEF FileBlocks
<1>6. FileBlocks(l) \subseteq Blks /\ Blocks(ptr, dip.ip) \subseteq Blks
  <2>1. Blocks(ptr, dip.ip) \subseteq Blks
    BY <1>3, <1>4, BlocksIn
  <2>2. CASE dirent = NoEntry
    BY <1>1, <2>1, <2>2 DEF FileBlocks
  <2>3. CASE dirent # NoEntry
    <3>1. Blocks(ptr, inode[Place(dirent)]) \subseteq Blks
      BY <1>3, <1>4, <2>3, BlocksIn
    <3> QED BY <1>1, <2>1, <2>3, <3>1 DEF FileBlocks
  <2> QED BY <2>2, <2>3
<1>7. blockmap \subseteq Blks /\ Meta \subseteq blockmap
  BY <1>1, <1>3, <1>6, MetaAssumption DEF Meta
<1>8. BlocksOwned
  BY <1>1, <1>3, <1>5, OwnedMeans DEF Owned
<1>9. /\ Cardinality(Blks \ blockmap) \in Nat /\ Cardinality(Inums \ inodemap) \in Nat
  BY BlksFinite, FS_Difference, FS_CardinalityType
<1>10. ASSUME NEW m, NEW n \in Nat \ {0}, NEW g \in Groups PROVE ZeroCount(m, g, n) \in Nat
  <2>1. IsFiniteSet(GroupSet(g, n))
    BY GroupFinite
  <2>2. IsFiniteSet(GroupSet(g, n) \ m)
    BY <2>1, FS_Difference
  <2> QED BY <2>2, ZeroCountIs, FS_CardinalityType
<1>11. bg_free_blocks_count \in [Groups -> Nat] /\ bg_free_inodes_count \in [Groups -> Nat]
  BY <1>2, <1>10, GroupsAssumption
<1>12. ip \in Inodes /\ PointedAt(ip) \intersect Meta = {}
  BY <1>2, UnusedClean, CleanInode
<1>13. TypeOK
  BY <1>2, <1>3, <1>4, <1>7, <1>9, <1>11, <1>12, BoundsAssumption DEF TypeOK
<1>14. Shapes
  <2>1. data \in [Blks -> Contents]
    BY <1>2 DEF Contents, Intact
  <2>2. Place(ino) \in Places
    BY <1>2, PlaceZero
  <2> QED BY <1>2, <1>3, <2>1, <2>2 DEF Shapes
<1>15. MetaSafe
  BY <1>3, <1>7, <1>12 DEF MetaSafe
<1>16. Counts /\ CountsKept
  BY <1>2, <1>9 DEF Counts, CountsKept, CountsRight
<1>17. Laid
  BY <1>2 DEF Laid
<1>18. Healthy
  BY <1>2, <1>3 DEF Healthy, InFile, Inums, NoEntry
<1>19. NewInodeAtHome /\ BootBlockRight
  BY <1>2 DEF NewInodeAtHome, BootBlockRight
<1>20. OthersKept
  BY <1>2, <1>3, MetaAssumption DEF OthersKept, Intact
<1> QED BY <1>8, <1>13, <1>14, <1>15, <1>16, <1>17, <1>18, <1>19, <1>20 DEF IInv

LEMMA NextIInv == IInv /\ [Next]_vars => IInv'
<1> SUFFICES ASSUME IInv, [Next]_vars PROVE IInv'
  OBVIOUS
<1>1. CASE Next
  BY <1>1, NextTypes, NextMeta, NextCounts, NextLaid, NextHealthy, NextOwned, NextHome,
    NextOthers, NextBoot DEF IInv
<1> QED BY <1>1, Stutter

LEMMA Invariance == Spec => []IInv
BY InitIInv, NextIInv, PTL DEF Spec
-----------------------------------------------------------------------------
(* Results *)

(* As long as no allocation has failed, what fsck looks at is consistent at *)
(* every step of ext2_truncate, ext2_mknod and ext2_fill_contiguous and     *)
(* between runs: each marked block has one owner and each owner's blocks    *)
(* are marked, the free counts are those of the bitmaps, and the inode that *)
(* ext2_ialloc returns is where its bit says.                               *)
THEOREM StaysConsistent == Spec => []FsConsistent
<1>1. IInv => FsConsistent
  BY DEF IInv, FsConsistent
<1> QED BY <1>1, Invariance, PTL

(* As long as no allocation has failed, e2writeboot overwrites a bitmap, an *)
(* inode table or a block of another file only where ext2_close writes a    *)
(* copy of superblock or descriptors into a group without reserved blocks;  *)
(* on a volume that reserves them in every group it overwrites none.        *)
THEOREM OthersStayWhole == Spec => []OthersKept
<1>1. IInv => OthersKept
  BY DEF IInv
<1> QED BY <1>1, Invariance, PTL

(* After an installation the sectors the boot block names hold the          *)
(* bootstrap of that run, whatever failed in runs before, except where      *)
(* ext2_close has put a stray copy of superblock or descriptors over it.    *)
THEOREM BootBlockDescribes == Spec => []BootBlockRight
<1>1. IInv => BootBlockRight
  BY DEF IInv
<1> QED BY <1>1, Invariance, PTL

(* A run that never leaves the directory search follows a failed            *)
(* allocation, and so does a run that crashes, unless its bootstrap is too  *)
(* small to fill the cache before bwrite(0, ...).                           *)
THEOREM StopsAfterFailure == Spec => []StopsOnlyAfterFailure
<1>1. IInv => StopsOnlyAfterFailure
  BY DEF IInv, Healthy, StopsOnlyAfterFailure
<1> QED BY <1>1, Invariance, PTL
=============================================================================
