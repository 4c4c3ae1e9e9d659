---------------------------- MODULE MCLabelTools ----------------------------
(* A disk of seven sectors of two bytes, two partitions, ints of five bits. *)
EXTENDS LabelTools

Image(name, len, part) == [name |-> name, len |-> len, part |-> part]
MCImages == {Image("aboot", 4, 2), Image("other", 3, NoMagic)}

Arg(num, off, size) == [num |-> num, off |-> off, size |-> size]
MCPartArgs == {Arg(0, 2, 3), Arg(0, 2, 2), Arg(0, 2, 15), Arg(1, 5, 2), Arg(0, 9, 1)}

Old == [id |-> << "old", 0 >>, part |-> NoMagic]
NoBoot == [size |-> 0, sect |-> 0, flags |-> 0]
Blank == [b \in Bytes |-> Old]

(* The bootstrap that e2writeboot installed in the file system at sector 4. *)
InFile(p) == [Blank EXCEPT ![8] = [id |-> << "aboot", 0 >>, part |-> p],
                           ![9] = [id |-> << "aboot", 1 >>, part |-> NoMagic]]

OnePart == [ZeroLabel EXCEPT !.n = 1, !.part[0] = [off |-> 4, size |-> 3]]
NoLabel == [ZeroLabel EXCEPT !.ok = FALSE]

Disk(l, h, bytes, right) ==
  [lab |-> l, hdr |-> h, data |-> bytes, sum |-> IF right THEN << l, h >> ELSE << "wrong" >>]

(* Never labelled; with garbage for bootsect; with a bootstrap in a file. *)
MCDisks ==
  {Disk(NoLabel, NoBoot, Blank, FALSE),
   Disk(OnePart, [NoBoot EXCEPT !.sect = 9], Blank, FALSE),
   Disk(OnePart, [size |-> 1, sect |-> 4, flags |-> 0], InFile(1), TRUE)}
=============================================================================
