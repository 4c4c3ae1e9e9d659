------------------------------- MODULE MCUfs -------------------------------
(* A volume with a file through all three indirect levels, a short file cut *)
(* to fragments, a directory that needs an indirect block, and a link; and  *)
(* one that is no volume.                                                   *)
EXTENDS Ufs, TLC

File(ino, mode, size, db, ib) ==
  [ino |-> ino, mode |-> mode, size |-> size, db |-> db, ib |-> ib]
Entry(ino, name, len) == [ino |-> ino, name |-> name, reclen |-> len]
Deleted(name, len) == Entry(0, name, len)

(* Inode 5 has a run 20-23, a hole, a run 24-27 that starts in the single   *)
(* indirect block and goes on in the double one, and a last block behind    *)
(* the triple.                                                              *)
inode ==
  0 :> NoInode
  @@ 2 :> File(2, "dir", 3, << 10, 0 >>, << 0, 0, 0 >>)
  @@ 3 :> File(3, "dir", 9, << 12, 14 >>, << 50, 0, 0 >>)
  @@ 4 :> File(4, "file", 6, << 18, 40 >>, << 0, 0, 0 >>)
  @@ 5 :> File(5, "file", 33, << 20, 22 >>, << 51, 52, 54 >>)
  @@ 6 :> File(6, "link", 1, << 46, 0 >>, << 0, 0, 0 >>)

ind ==
  50 :> << 16, 0 >>
  @@ 51 :> << 0, 24 >>
  @@ 52 :> << 53, 55 >>
  @@ 53 :> << 26, 30 >>
  @@ 54 :> << 56, 0 >>
  @@ 55 :> << 32, 0 >>
  @@ 56 :> << 57, 0 >>
  @@ 57 :> << 34, 0 >>

cell ==
  10 :> << Deleted("small", 1), Entry(3, "dir", 1) >>
  @@ 11 :> << Entry(4, "small", 1), Junk >>
  @@ 12 :> << Entry(2, "up", 1), Deleted("large", 1) >>
  @@ 13 :> << Entry(6, "link", 2), Junk >>
  @@ 14 :> << Deleted("a", 2), Junk >>
  @@ 15 :> << Entry(4, "other", 1), Entry(5, "large", 1) >>
  @@ 16 :> << Entry(4, "last", 1), Junk >>
  @@ 17 :> << Junk, Junk >>

where ==
  << >> :> 2 @@ << "small" >> :> 4 @@ << "dir" >> :> 3 @@ << "dir", "large" >> :> 5
  @@ << "dir", "last" >> :> 4 @@ << "dir", "link" >> :> 6

Volume == [magic |-> TRUE, inode |-> inode, ind |-> ind, cell |-> cell, where |-> where,
           deep |-> {<< "dir", "last" >>},
           want |-> DOMAIN where \cup {<< "missing" >>, << "small", "missing" >>}]
MCVols == {Volume, [Volume EXCEPT !.magic = FALSE]}
============================================================================
