--------------------------- MODULE MCE2writeboot ---------------------------
(* Three groups of eight blocks in words of two, two direct blocks, three   *)
(* pointers per indirect block, four inodes per group of which one is left. *)
(* Bits 0 and 1 of the first two groups are for superblock and descriptors; *)
(* as with sparse_super the third group has none, so that blocks 17 and 18  *)
(* belong to anybody.  Block 11 is a bitmap, block 3 is the directory's.    *)
EXTENDS E2writeboot

MCCopies == {1, 2, 9, 10}
MCTables == {11}

(* The third group full. *)
Third == 17 .. 24

Ptrs(a, b, c) == [k \in Offsets |-> CASE k = 0 -> a [] k = 1 -> b [] k = 2 -> c]
Direct(a, b) == [k \in 0 .. NDir - 1 |-> IF k = 0 THEN a ELSE b]

File(blk, i, d, t) ==
  [mode |-> "reg", links |-> 1, size |-> 2, block |-> blk, ind |-> i, dind |-> d, tind |-> t]

(* The directory has one block and room or not, or two and needs an         *)
(* indirect block to grow.                                                  *)
Dir(n, room) ==
  [ip |-> [mode |-> "other", links |-> 1, size |-> n,
           block |-> Direct(3, IF n > 1 THEN 4 ELSE 0), ind |-> 0, dind |-> 0, tind |-> 0],
   room |-> room]

(* An earlier /linuxboot: none, two scattered blocks, or one with trees of  *)
(* one, two and three levels.                                               *)
None  == Unused
Small == File(Direct(6, 12), 0, 0, 0)
Large == File(Direct(5, 0), 6, 15, 13)

MCPtr == [b \in Blks |->
  CASE b = 6 -> Ptrs(7, 0, 0) [] b = 15 -> Ptrs(12, 0, 0) [] b = 13 -> Ptrs(14, 0, 0)
    [] b = 14 -> Ptrs(16, 0, 0) [] OTHER -> NoPointers]

Layout(o, inodes, d, entry, file, last) ==
  [others |-> o, inodes |-> inodes, dirent |-> entry, dip |-> d, ptr |-> MCPtr,
   inode |-> [p \in Places |->
     IF entry # NoEntry /\ p = Place(entry) THEN file
     ELSE IF p = << 0, 3 >> THEN last ELSE Unused]]

(* The last inode of group 0 is that of the file with block 8. *)
Last == File(Direct(8, 0), 0, 0, 0)

(* The directory with its only block in the third group. *)
StrayDir == [Dir(1, TRUE) EXCEPT !.ip.block = Direct(17, 0)]

(* With the third group full, as every inode of it is in use; then with     *)
(* room in it: /linuxboot goes there, or its indirect block, or both.       *)
MCLayouts ==
  {Layout(o \union Third, {1, 2} \union 9 .. 12, Dir(1, r), NoEntry, None, None) :
       o \in SUBSET {6, 12} \union {5 .. 8 \union 12 .. 16, 4 .. 8 \union 12 .. 16}, r \in BOOLEAN}
    \union {Layout(l.others \union Third, l.inodes \union 9 .. 12, l.dip, l.dirent,
                   l.inode[Place(IF l.dirent = NoEntry THEN 5 ELSE l.dirent)], l.inode[<< 0, 3 >>]) : l \in
            {Layout({}, {1, 2}, Dir(2, FALSE), NoEntry, None, None),
            Layout({8}, {1, 2, 3}, Dir(1, TRUE), 3, Small, None),
            Layout({4, 8, 14, 16}, {1, 2, 3}, Dir(1, TRUE), 3, Small, None),
            Layout({8}, {1, 2, 3}, Dir(1, TRUE), 3, Large, None),
            Layout({8}, {1, 2, 3, 4, 6, 7, 8}, Dir(1, TRUE), NoEntry, None, Last),
            Layout({4, 6, 8, 12, 14, 16}, {1, 2, 3, 5, 6, 7, 8}, Dir(1, TRUE), NoEntry, None, None),
            Layout({}, {1, 2, 3}, Dir(1, TRUE), 3, [Unused EXCEPT !.mode = "other", !.links = 1], None)}}
    \union {Layout(4 .. 8 \union 12 .. 16, {1, 2}, Dir(1, TRUE), NoEntry, None, None),
            Layout(4 .. 8 \union 12 .. 17, {1, 2}, Dir(1, TRUE), NoEntry, None, None),
            Layout(4 .. 7 \union 12 .. 16 \union {20}, {1, 2}, Dir(1, TRUE), NoEntry, None, None),
            Layout({}, {1, 2}, StrayDir, NoEntry, None, None)}
=============================================================================
