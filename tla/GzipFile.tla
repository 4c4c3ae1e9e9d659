------------------------------ MODULE GzipFile ------------------------------
(* What a gzip file holds and what it stands for, and which files the       *)
(* decompressor is meant for, broken ones included.                         *)
(*                                                                          *)
(* A file has blocks, a block its bytes or its codes, as they were put in:  *)
(* [sym, ext, dsym, dext] is a literal or a length with its extra bits and  *)
(* a distance with its; [j, x] a code for lengths with its extra bits.      *)
EXTENDS Deflate, SequencesExt

CONSTANTS
  Files,            \* the files there are; see MCGunzip
  WSIZE,            \* window size
  MemTop            \* last address of memory

EOB == 256
-----------------------------------------------------------------------------
(* What the codes of a file stand for: literals as they are, and copies of  *)
(* what came that many bytes before.                                        *)
IsCopy(t) == t.sym \in 257 .. 285 /\ t.dsym < 30
Written(t) ==
  IF t.sym < EOB THEN [lit |-> << t.sym >>, len |-> 0, back |-> 1]
  ELSE IF IsCopy(t)
       THEN [lit |-> << >>, len |-> cplens[t.sym - EOB] + t.ext,
             back |-> cpdist[t.dsym + 1] + t.dext]
       ELSE [lit |-> << >>, len |-> 0, back |-> 1]
After(out, r) ==
  out \o r.lit \o [i \in 1 .. r.len |-> out[Len(out) - r.back + 1 + ((i - 1) % r.back)]]

(* What is put out after k codes of a block, and before block n. *)
Expanded(out, toks, k) ==
  LET e[i \in 0 .. Len(toks)] == IF i = 0 THEN out ELSE After(e[i - 1], Written(toks[i]))
  IN  e[k]
TokensOf(block) ==
  CASE block.type = 0 -> [j \in DOMAIN block.data |-> [sym |-> block.data[j]]]
    [] block.type \in 1 .. 2 -> block.toks
    [] OTHER -> << >>
Before(blocks, n) ==
  LET e[i \in 1 .. Len(blocks) + 1] ==
        IF i = 1 THEN << >>
        ELSE LET toks == TokensOf(blocks[i - 1]) IN Expanded(e[i - 1], toks, Len(toks))
  IN  e[n]
Expansion(blocks) == Before(blocks, Len(blocks) + 1)

(* What the first k codes for the lengths stand for. *)
RunAfter(lens, op) ==
  CASE op.j < 16 -> << op.j >>
    [] op.j = 16 -> [r \in 1 .. 3 + op.x |-> Last(lens)]
    [] op.j = 17 -> [r \in 1 .. 3 + op.x |-> 0]
    [] OTHER -> [r \in 1 .. 11 + op.x |-> 0]
LengthsNext(lens, op) == lens \o RunAfter(lens, op)
LengthsAfter(ops, k) ==
  LET lens[i \in 0 .. Len(ops)] == IF i = 0 THEN << >> ELSE LengthsNext(lens[i - 1], ops[i])
  IN  lens[k]
LengthsOf(ops) == LengthsAfter(ops, Len(ops))
-----------------------------------------------------------------------------
(* The files the decompressor is meant for *)

Byte == 0 .. 255
IsSeq(s) == s \in Seq({s[i] : i \in DOMAIN s})

(* The last code of a block, and no other, is its end. *)
TokensSound(toks) ==
  /\ IsSeq(toks) /\ toks # << >>
  /\ \A i \in DOMAIN toks :
       /\ toks[i].sym \in 0 .. 287 /\ (toks[i].sym = EOB <=> i = Len(toks))
       /\ {toks[i].ext, toks[i].dsym, toks[i].dext} \subseteq Nat

(* Every symbol sent has a code, unless it is none that a distance has. *)
Coded(toks, ls, ds) ==
  \A i \in DOMAIN toks :
    /\ toks[i].sym < Len(ls) /\ ls[toks[i].sym + 1] # 0
    /\ toks[i].sym > EOB /\ toks[i].dsym < Len(ds) => ds[toks[i].dsym + 1] # 0

(* The lengths sent are as many as announced, or the last run has too many. *)
LengthsSound(block) ==
  LET ops == block.ops
      all == LengthsOf(ops)
      count == block.nl + block.nd
  IN /\ ops # << >> /\ ops[1].j # 16
     /\ \A k \in 0 .. Len(ops) - 1 : Len(LengthsAfter(ops, k)) < count
     /\ Len(all) >= count
     /\ Coded(block.toks, SubSeq(all, 1, block.nl), SubSeq(all, block.nl + 1, count))

BlockSound(block) ==
  /\ block.type \in 0 .. 3
  /\ block.type = 0 => block.data \in Seq(Byte)
  /\ block.type \in 1 .. 2 => TokensSound(block.toks)
  /\ block.type = 1 => Coded(block.toks, FixedLengths, FixedDistances)
  /\ block.type = 2 =>
       /\ block.nl \in Nat /\ block.nd \in Nat /\ block.nb \in 0 .. 19
       /\ \A j \in 1 .. block.nb : block.clens[j] \in 0 .. 7
       /\ IsSeq(block.ops)
       /\ \A i \in DOMAIN block.ops : block.ops[i].j \in 0 .. 18 /\ block.ops[i].x \in Nat
       /\ block.nl <= 286 /\ block.nd <= 30 => LengthsSound(block)

(* A copy reaches back no further than what was put out, nor a window. *)
CopiesSound(blocks) ==
  \A n \in DOMAIN blocks : LET toks == TokensOf(blocks[n]) IN
    \A k \in DOMAIN toks : toks[k].sym > EOB /\ IsCopy(toks[k]) =>
      Written(toks[k]).back \in 1 .. Min({WSIZE, Len(Expanded(Before(blocks, n), toks, k - 1))})

(* Segments are in the file, and ascend there and in memory, as             *)
(* is_loadable_elf assumes: "assume they are sorted", aboot.c:104.          *)
ImageSound(image, out) ==
  LET cs == image.chunks IN
  /\ {image.elf, image.fits} \subseteq BOOLEAN /\ {image.hdr, image.bss} \subseteq Nat
  /\ IsSeq(cs)
  /\ \A s \in DOMAIN cs :
       /\ {cs[s].addr, cs[s].offset, cs[s].size} \subseteq Nat
       /\ cs[s].offset + cs[s].size <= Len(out)
       /\ image.fits => cs[s].addr + cs[s].size <= MemTop + 1
  /\ \A s, t \in DOMAIN cs : s < t =>
       /\ cs[s].offset + cs[s].size <= cs[t].offset
       /\ cs[s].addr + cs[s].size <= cs[t].addr

(* A trailer that agrees with itself is that of what was compressed.  A ufs *)
(* volume has fragments of frag bytes; the extents of an ext4 inode are     *)
(* told from the block map of an ext2 one.                                  *)
FileSound(f) ==
  /\ f.head \in Seq(Byte) /\ f.bs \in Nat \ {0} /\ {f.size, f.trailer} \subseteq Nat
  /\ f.fs \in {"ext2", "ext4", "iso", "ufs"} /\ f.frag \in 1 .. f.bs
  /\ IsSeq(f.blocks) /\ f.blocks # << >>
  /\ \A i \in DOMAIN f.blocks : BlockSound(f.blocks[i])
  /\ CopiesSound(f.blocks)
  /\ f.out = Expansion(f.blocks)
  /\ Len(f.sum) = f.len => f.sum = f.out
  /\ ImageSound(f.image, f.out)

ASSUME WindowAssumption == WSIZE \in Nat \ {0} /\ MemTop \in Nat
ASSUME FilesAssumption == Files # {} /\ \A f \in Files : FileSound(f)
=============================================================================
