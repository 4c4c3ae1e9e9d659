----------------------------- MODULE ConfigFile -----------------------------
(***************************************************************************)
(* get_default_args of disk.c: the line of aboot.conf that a preset names, *)
(* found by a scanner that sees the file one block at a time.              *)
(*                                                                         *)
(* Characters are classes: "n" is the one that is looked for, "x" any      *)
(* other than the ones below.  A driver's bread returns 0 at the end of    *)
(* the file, except that of ufs, which has no such test: it takes every    *)
(* block behind the end for a hole and returns a count for it.             *)
(***************************************************************************)
EXTENDS Naturals, Sequences

CONSTANTS Files,      \* contents of aboot.conf
          blocksize,  \* fs->blocksize
          NDADDR      \* number of direct blocks of a file on ufs: 12

Alphabet == {"n", "x", "#", "-", ":", "nl", "nul"}

ASSUME ConfigAssumption ==
  Files \subseteq Seq(Alphabet) /\ blocksize \in Nat \ {0} /\ NDADDR \in Nat

VARIABLES
  file, ufs,          \* aboot.conf, and whether it is on a ufs volume
  at, blkno, nread, p, state, d, readfailed

scanvars == << file, ufs, at, blkno, nread, p, state, d, readfailed >>

(* The scanner is in one of its states, and never looks behind its block. *)
ScanTypeOK ==
  /\ file \in Seq(Alphabet) /\ ufs \in BOOLEAN
  /\ at \in {"open", "read", "scan", "done"}
  /\ blkno \in Nat
  /\ nread \in 0 .. blocksize /\ p \in 0 .. nread
  /\ state \in 0 .. 5 /\ d \in Seq(Alphabet \ {"nl", "nul"})
  /\ readfailed \in BOOLEAN

ScanInit ==
  /\ file \in Files /\ ufs \in BOOLEAN /\ at = "open"
  /\ blkno = 0 /\ nread = 0 /\ p = 0 /\ state = 2 /\ d = << >>
  /\ readfailed = FALSE

(* open_config_file: one of the four names can be opened, or none can. *)
OpenConfigFile ==
  /\ at = "open"
  /\ \/ at' = "read" /\ UNCHANGED readfailed
     \/ at' = "done" /\ readfailed' = TRUE
  /\ UNCHANGED << file, ufs, blkno, nread, p, state, d >>

Left == Len(file) - blkno * blocksize

(* What bread returns for block blkno: nothing behind the end, but on ufs  *)
(* what blksize makes of the block, be it behind the end or not: the rest  *)
(* of the file's size for a direct block, a whole block for another.       *)
(* (blksize rounds up to fragments; their rest is NULs, like the holes.)   *)
BlkSize == IF blkno >= NDADDR THEN blocksize ELSE Len(file) % blocksize

Count == CASE Left >= blocksize -> blocksize
           [] Left > 0 /\ Left < blocksize ->
                IF ufs /\ blkno >= NDADDR THEN blocksize ELSE Left
           [] Left <= 0 -> IF ufs THEN BlkSize ELSE 0

(* ext2_breadi and iso_breadi round (size + blocksize) / blocksize down: a *)
(* file of whole blocks has one more, which is taken for a hole.           *)
OneMore == ~ufs /\ Left = 0

(* Behind the end and the direct blocks, one block is like another: blkno  *)
(* is not counted any further.                                             *)
Endless == ufs /\ blkno > NDADDR /\ Left + blocksize <= 0

(* An error is -1, treated like the 0 at the end of the file. *)
ReadBlock ==
  /\ at = "read"
  /\ \/ nread' = Count /\ UNCHANGED readfailed
     \/ OneMore /\ nread' = blocksize /\ UNCHANGED readfailed
     \/ nread' = 0 /\ readfailed' = TRUE
  /\ p' = 0 /\ blkno' = (IF Endless THEN blkno ELSE blkno + 1) /\ at' = "scan"
  /\ UNCHANGED << file, ufs, state, d >>

Pos(n) == (blkno - 1) * blocksize + n

Char == IF Pos(p) < Len(file) THEN file[Pos(p) + 1] ELSE "nul"

InBlock == p < nread /\ Char # "nul" /\ state # 5

(* Mutant: a comment ends at any character. *)
SkipLineShort == state' = 2 /\ UNCHANGED d

SkipLine ==                  \* states 0 and 1
  /\ state' = IF Char = "nl" THEN 2 ELSE state
  /\ UNCHANGED d

AtLineStart ==               \* state 2
  /\ state' = CASE Char = "n" -> 3 [] Char = "#" -> 1 [] Char = "-" -> 5
                [] OTHER -> 0
  /\ UNCHANGED d

AfterNumber ==               \* state 3; the text calls its "2" "ignore rest"
  /\ state' = IF Char = ":" THEN 4 ELSE 2
  /\ UNCHANGED d

(* Mutant: the newline is copied too. *)
CopyWithNewline ==
  /\ d' = Append(d, Char)
  /\ state' = IF Char = "nl" THEN 5 ELSE state

(* Mutant: the end of the block ends the string. *)
CopyToBlockEnd ==
  /\ d' = IF Char = "nl" THEN d ELSE Append(d, Char)
  /\ state' = IF Char = "nl" \/ p + 1 = nread THEN 5 ELSE state

CopyString ==                \* state 4
  IF Char = "nl" THEN state' = 5 /\ UNCHANGED d
                 ELSE d' = Append(d, Char) /\ UNCHANGED state

ScanChar ==
  /\ at = "scan" /\ InBlock
  /\ \/ state \in {0, 1} /\ SkipLine
     \/ state = 2 /\ AtLineStart
     \/ state = 3 /\ AfterNumber
     \/ state = 4 /\ CopyString
  /\ p' = p + 1
  /\ UNCHANGED << file, ufs, at, blkno, nread, readfailed >>

(* Mutant: the loop only ends when the line is found. *)
EndBlockNoEof ==
  /\ at = "scan" /\ ~InBlock
  /\ at' = IF state # 5 THEN "read" ELSE "done"
  /\ blkno' = IF at' = "read" /\ nread = 0 THEN blkno - 1 ELSE blkno
  /\ UNCHANGED << file, ufs, nread, p, state, d, readfailed >>

EndBlock ==
  /\ at = "scan" /\ ~InBlock
  /\ at' = IF nread > 0 /\ state # 5 THEN "read" ELSE "done"
  /\ UNCHANGED << file, ufs, blkno, nread, p, state, d, readfailed >>

(* get_default_args has returned: 0 if state is 5, -1 otherwise. *)
Returned == at = "done" /\ UNCHANGED scanvars

ScanNext == OpenConfigFile \/ ReadBlock \/ ScanChar \/ EndBlock \/ Returned

ScanSpec == ScanInit /\ [][ScanNext]_scanvars /\ WF_scanvars(ScanNext)
-----------------------------------------------------------------------------
(* What the file says, without blocks and states *)

IsLineStart(k) == k = 1 \/ file[k - 1] = "nl"

(* A configuration is defined at k, and its string ends before e. *)
Defines(k, e) ==
  /\ k + 1 < e /\ e \in DOMAIN file
  /\ file[k] = "n" /\ file[k + 1] = ":" /\ file[e] = "nl"
  /\ \A j \in k .. e - 1 : file[j] # "nl"

DefinedAt(k, e) == Defines(k, e) /\ IsLineStart(k)

MarkAt(k) == file[k] = "-" /\ IsLineStart(k)

HasColon(k) == k + 1 \in DOMAIN file /\ file[k + 1] = ":"

(* No empty line, no line that starts with the number and has no colon,    *)
(* no NUL.                                                                 *)
Tidy ==
  /\ \A k \in DOMAIN file : file[k] # "nul"
  /\ \A k \in DOMAIN file : IsLineStart(k) =>
       /\ file[k] # "nl"
       /\ file[k] = "n" => HasColon(k)

Success == at = "done" /\ state = 5

(* In a tidy file the string of the first line that defines the preset is  *)
(* returned, wherever the block boundaries fall; if the end mark or the    *)
(* end of the file comes first, nothing is copied.                         *)
FindsFirstLine ==
  at = "done" /\ Tidy /\ ~readfailed =>
    \/ \E k, e \in DOMAIN file :
         /\ DefinedAt(k, e)
         /\ \A j \in 1 .. k - 1 : ~MarkAt(j) /\ \A f \in DOMAIN file : ~DefinedAt(j, f)
         /\ state = 5 /\ d = SubSeq(file, k + 2, e - 1)
    \/ /\ \A k, e \in DOMAIN file : DefinedAt(k, e) => \E j \in 1 .. k - 1 : MarkAt(j)
       /\ state = 5 => d = << >> /\ \E j \in DOMAIN file : MarkAt(j)

(* Whatever the file, a string that is returned follows the number and a   *)
(* colon in the file and is complete up to the end of its line.            *)
CopiesWholeLine ==
  Success /\ d # << >> /\ (\A k \in DOMAIN file : file[k] # "nul")
    => \E k, e \in DOMAIN file : Defines(k, e) /\ d = SubSeq(file, k + 2, e - 1)

(* A file whose end bread does not report: one on ufs that is not made up  *)
(* of less than NDADDR whole blocks.                                       *)
NoEof == ufs /\ (Len(file) % blocksize # 0 \/ Len(file) >= NDADDR * blocksize)

RunsOn == NoEof /\ Left <= 0 /\ state # 5

(* The search ends, with or without read errors; but in a file whose end   *)
(* is not reported it only ends when the line or the end mark is found or  *)
(* a read fails, and runs on over the blocks behind the end otherwise.     *)
Terminates == <>[](at = "done" \/ RunsOn)

(* What get_default_args has in hand, while it scans and when it returns:  *)
(* a whole line's string of the file, and in a tidy file the first one.    *)
ScanRight == ScanTypeOK /\ CopiesWholeLine /\ FindsFirstLine
=============================================================================
