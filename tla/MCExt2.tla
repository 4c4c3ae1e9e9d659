------------------------------- MODULE MCExt2 -------------------------------
(* Two volumes with one direct block per inode and two pointers per block.  *)
(* The root directory has a file b with a direct block, an indirect and a   *)
(* double-indirect one and a hole, a file e with an extent, a directory d   *)
(* with a relative link m to its own e, a link l to itself and a link n to  *)
(* m.  The volumes use the same indirect blocks for different pointers.     *)
EXTENDS Ext2

MCInos  == 2 .. 8
MCNames == {"b", "e", "d", "l", "m", "n"}
MCBlk   == 3 .. 9

Plain(t, size, b, i, d) ==
  [type |-> t, size |-> size, extents |-> FALSE, block |-> [k \in {0} |-> b],
   ind |-> i, dind |-> d, start |-> 3, len |-> 0, long |-> FALSE]

MCInode == [v \in Vols |-> [n \in MCInos |->
  CASE n = 2 -> Plain("dir", 2, 3, 0, 0)
    [] n = 3 -> Plain("file", 10, 3, 8, 9)
    [] n = 4 -> [Plain("file", 3, 3, 0, 0) EXCEPT !.extents = TRUE, !.start = 5, !.len = 2]
    [] n = 5 -> Plain("dir", 2, 4, 0, 0)
    [] n = 6 -> [Plain("link", 1, 5, 0, 0) EXCEPT !.long = TRUE]
    [] n \in {7, 8} -> Plain("link", 1, 0, 0, 0)]]

MCEntry == [v \in Vols |-> [n \in MCInos |-> [x \in MCNames |->
  CASE n = 2 /\ x = "b" -> 3 [] n = 2 /\ x = "e" -> 3 [] n = 2 /\ x = "d" -> 5
    [] n = 2 /\ x = "l" -> 7 [] n = 5 /\ x = "m" -> 6 [] n = 5 /\ x = "e" -> 4
    [] n = 2 /\ x = "n" -> 8
    [] OTHER -> NoIno]]]

MCLink == [v \in Vols |-> [n \in MCInos |->
  CASE n = 6 -> [abs |-> FALSE, path |-> << "e" >>]
    [] n = 8 -> [abs |-> TRUE, path |-> << "d", "m" >>]
    [] OTHER -> [abs |-> TRUE, path |-> << "l" >>]]]

Ptr(a, b) == [k \in 0 .. 1 |-> IF k = 0 THEN a ELSE b]

MCPointers == [v \in Vols |-> [b \in MCBlk |->
  CASE b = 8 -> (IF v = 1 THEN Ptr(4, 0) ELSE Ptr(6, 5))
    [] b = 9 -> Ptr(7, 0)
    [] b = 7 -> (IF v = 1 THEN Ptr(5, 6) ELSE Ptr(0, 4))
    [] OTHER -> Ptr(0, 0)]]

MCPaths == {<< >>, << "b" >>, << "d", "m" >>, << "l" >>, << "n" >>}
=============================================================================
