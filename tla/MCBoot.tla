------------------------------- MODULE MCBoot -------------------------------
(***************************************************************************)
(* A labelled disk with an ext2 partition 1, a ufs partition 2 and an      *)
(* unknown one, and kernels of every sort: plain with a bss (k), plain     *)
(* without (n), compressed (z) also under a name without ".gz", one whose  *)
(* second header is refused (t), and something that is no kernel at all.   *)
(***************************************************************************)
EXTENDS Boot, SequencesExt

W(t, p, c) == [t |-> t, p |-> p, c |-> c]
F(p, n)    == [part |-> p, name |-> n]
L(f, a)    == [file |-> f, args |-> a]
Seg(m, b)  == [mem |-> m, bss |-> b]

MCNames   == {"k", "n", "z.gz", "t", "r", "-"}
MCGzNames == {"z.gz"}
MCChars   == {"i", "0", "1"}
MCTexts   == {"a", "b"}
MCImages  == {"K", "N", "Z", "T", "J"}
MCKind    == [x \in MCImages |-> CASE x = "Z" -> "gz" [] x = "J" -> "junk"
                                   [] OTHER -> "elf"]
MCSegs    == [x \in MCImages |->
                CASE x = "K" -> << Seg(TRUE, FALSE), Seg(TRUE, TRUE) >>
                  [] x = "N" -> << Seg(TRUE, FALSE) >>
                  [] x = "Z" -> << Seg(TRUE, TRUE) >>
                  [] x = "T" -> << Seg(TRUE, TRUE), Seg(FALSE, FALSE) >>
                  [] x = "J" -> << >>]
(* A bss lies over every other kernel, but that of T not over N. *)
MCBssHits == {h \in {"K", "Z", "T"} \X MCImages : h[1] # h[2]} \ {<< "T", "N" >>}
MCDir     == [v \in Vols |-> [x \in MCNames |->
                CASE v = 0 -> "K"
                  [] v = 1 -> (CASE x = "k" -> "K" [] x = "n" -> "N"
                                 [] x = "t" -> "T" [] x = "r" -> "J"
                                 [] x = "z.gz" -> "Z" [] OTHER -> NoImage)
                  [] v = 2 -> (CASE x = "k" -> "Z" [] x = "z.gz" -> "N"
                                 [] x = "r" -> "J" [] OTHER -> NoImage)
                  [] OTHER -> NoImage]]
MCFsType  == [v \in Vols |-> CASE v = 0 -> "dummy" [] v = 1 -> "ext2"
                               [] v = 2 -> "ufs" [] OTHER -> "none"]
MCConfig  == [v \in Vols |-> [x \in MCChars |->
                CASE v = 1 /\ x = "0" -> L(F(NoPart, "k"), << >>)
                  [] v = 1 /\ x = "1" -> L(F(2, "k"), << W("plain", 0, "a") >>)
                  [] v = 2 /\ x = "1" -> L(F(1, "z.gz"), << W("plain", 0, "a") >>)
                  [] OTHER -> NoLine]]
MCSize    == [x \in MCNames |-> IF x = "r" THEN 10 ELSE 18]
(* Words of two characters, and then "b" as a long option. *)
WordLen(w, b) == CASE w.t = "single" -> 1 [] w.t = "pair" -> 3
                   [] w.t = "initrd" -> 8 [] w.t = "plain" -> IF w.c = "b" THEN b ELSE 2
StrLen(s, b)  == LET Plus(n, w) == n + WordLen(w, b) + 1   \* a word, a separator
                 IN  IF s = << >> THEN 0 ELSE FoldLeft(Plus, 0, s) - 1
MCLength(s)   == StrLen(s, 2)
LongLength(s) == StrLen(s, 9)
MCGarbage == {21}
MCFlags   == {<< >>, << W("single", 0, "0") >>,
              << W("single", 0, "1"), W("plain", 0, "b") >>,
              << W("pair", 2, "1") >>, << W("pair", 3, "0") >>,
              << W("plain", 0, "a") >>}
MCSrmFiles == {F(2, "z.gz")}
MCArgs    == {<< >>, << W("plain", 0, "b") >>}
MCFiles   == {F(NoPart, "k"), F(1, "n"), F(1, "t"), F(0, "-")}
MCInitrds == {"r"}
MCParts   == {2}

(* A floppy: no disklabel, an ext2 file system at offset 0, a              *)
(* config_file_partition of 0 or 1, long options, and ramdisks named by    *)
(* flag, by aboot.conf line and by command.                                *)
FloppyFsType == [v \in Vols |-> CASE v = 0 -> "dummy" [] v = Whole -> "ext2"
                                  [] OTHER -> "none"]
FloppyDir    == [v \in Vols |-> [x \in MCNames |->
                   CASE v = 0 -> "K"
                     [] v = Whole -> (CASE x = "k" -> "Z" [] x = "n" -> "N"
                                        [] x = "r" -> "J" [] OTHER -> NoImage)
                     [] OTHER -> NoImage]]
FloppyConfig == [v \in Vols |-> [x \in MCChars |->
                   CASE v = Whole /\ x = "0" -> L(F(NoPart, "k"), << >>)
                     [] v = Whole /\ x = "1" -> L(F(NoPart, "k"), << W("initrd", 0, "r") >>)
                     [] OTHER -> NoLine]]
FloppyFlags  == {FlagI, << W("single", 0, "0"), W("plain", 0, "b") >>,
                 << W("pair", 9, "1") >>, << W("plain", 0, "a"), W("initrd", 0, "r") >>,
                 << W("single", 0, "0"), W("initrd", 0, "r") >>}
FloppyFiles  == {F(NoPart, "k"), F(3, "n"), F(0, "n")}
FloppyArgs   == {<< >>}
FloppyInitrds == {"r", NoFile}

(* A ramdisk of four blocks and a half, the block size being four. *)
TailSize == [x \in MCNames |-> 18]
=============================================================================
