------------------------------ MODULE MCGunzip ------------------------------
(* Small gzip files: sound ones with blocks of all three types and with a   *)
(* header of every length modulo the input buffer, and one file for every   *)
(* error the decompressor looks for.                                        *)
EXTENDS Gunzip

CONSTANT Pads       \* lengths of the original name in the header

Lit(v) == [sym |-> v, ext |-> 0, dsym |-> 0, dext |-> 0]
Cpy(sym, dsym, dext) == [sym |-> sym, ext |-> 0, dsym |-> dsym, dext |-> dext]
End == Lit(EOB)
Len3 == 257
Len4 == 258
Len10 == 264

Stored(data) == [type |-> 0, data |-> data, complement |-> TRUE]
Fixed(toks) == [type |-> 1, toks |-> Append(toks, End)]
Dynamic(nl, nd, nb, clens, ops, toks) ==
  [type |-> 2, nl |-> nl, nd |-> nd, nb |-> nb, clens |-> clens, ops |-> ops,
   toks |-> Append(toks, End)]
Op(j, x) == [j |-> j, x |-> x]

(* Literals 65 to 68 of 3 bits, the end and copies of 3 bytes of 2 bits,    *)
(* distances 1 and 2 of 1 bit.                                              *)
ShortLens == << 3, 0, 2, 0, 0, 0, 0, 0, 0, 0, 0, 0, 0, 2, 0, 2, 0, 3 >>
ShortOps == << Op(18, 54), Op(3, 0), Op(16, 0), Op(18, 127), Op(18, 38), Op(2, 0), Op(2, 0),
               Op(1, 0), Op(1, 0) >>
Short(toks) == Dynamic(258, 2, 18, ShortLens, ShortOps, toks)

(* Literals 65 to 75 of 1 to 11 bits and the end of 11: longer than lbits;  *)
(* no distance at all.                                                      *)
LongLens == << 0, 0, 3, 3, 4, 4, 4, 4, 4, 4, 4, 4, 0, 4, 0, 4, 0, 3 >>
LongOps == << Op(18, 54) >> \o [i \in 1 .. 11 |-> Op(i, 0)]
             \o << Op(18, 127), Op(18, 31), Op(11, 0), Op(0, 0) >>
Long(toks) == Dynamic(257, 1, 18, LongLens, LongOps, toks)

----------------------------------------------------------------------------
(* Bits of a file, and with them the place of its trailer and its size. *)
SumSeq(s) == FoldLeft(LAMBDA x, y : x + y, 0, s)
TokenBits(t, ls, ds) ==
  ls[t.sym + 1]
    + IF t.sym > EOB /\ t.sym < 286 /\ t.dsym < 30
      THEN cplext[t.sym - EOB] + ds[t.dsym + 1] + cpdext[t.dsym + 1] ELSE 0
BitLengthsOf(blk_) ==
  [t \in 0 .. 18 |-> IF \E j \in 1 .. blk_.nb : border[j] = t
                     THEN blk_.clens[CHOOSE j \in 1 .. blk_.nb : border[j] = t] ELSE 0]
BlockEnd(blk_, pos) ==
  CASE blk_.type = 0 -> NextByte(pos + 3) + 32 + 8 * Len(blk_.data)
    [] blk_.type = 1 ->
         pos + 3 + SumSeq([i \in DOMAIN blk_.toks |->
                             TokenBits(blk_.toks[i], FixedLengths, FixedDistances)])
    [] blk_.type = 2 ->
         LET all == LengthsOf(blk_.ops)
             cl == BitLengthsOf(blk_)
         IN  pos + 3 + 14 + 3 * blk_.nb
               + SumSeq([i \in DOMAIN blk_.ops |->
                           cl[blk_.ops[i].j] + RepeatBits(blk_.ops[i].j)])
               + SumSeq([i \in DOMAIN blk_.toks |->
                           TokenBits(blk_.toks[i], SubSeq(all, 1, blk_.nl),
                                     SubSeq(all, blk_.nl + 1, Len(all)))])
    [] OTHER -> pos + 3
StreamEnd(blocks, from) ==
  LET end[i \in 0 .. Len(blocks)] == IF i = 0 THEN from ELSE BlockEnd(blocks[i], end[i - 1])
  IN  NextByte(end[Len(blocks)]) \div 8

Segment(addr, offset, size) == [addr |-> addr, offset |-> offset, size |-> size]
OneSegment(out) == << Segment(2, 3, Len(out) - 4) >>
Elf(segments, bss) == [elf |-> TRUE, hdr |-> 3, fits |-> TRUE, bss |-> bss, chunks |-> segments]

Gz(head, blocks, image) ==
  LET out == Expansion(blocks)
      trailer == StreamEnd(blocks, 8 * Len(head))
  IN  [head |-> head, blocks |-> blocks, out |-> out, sum |-> out, len |-> Len(out),
       trailer |-> trailer, size |-> trailer + 8, bs |-> 4, fs |-> "ext2", frag |-> 2, sound |-> TRUE, image |-> image]

Plain(flags_) == << 31, 139, 8, flags_, 0, 0, 0, 0, 0, 3 >>
Named(len) == Plain(8) \o [i \in 1 .. len |-> 118] \o << 0 >>
Everything == Plain(4 + 8 + 16) \o << 2, 0, 1, 1 >> \o << 118, 0 >> \o << 0 >>

----------------------------------------------------------------------------
(* Copies that overlap, that reach back a whole window, that wrap and that  *)
(* are longer than a window.                                                *)
Copies == << Fixed(<< Lit(65), Lit(200), Cpy(Len3, 0, 0), Lit(66), Cpy(Len4, 3, 0),
                      Cpy(Len3, 5, 1), Cpy(Len10, 2, 0), Cpy(Len3, 5, 0), Lit(67) >>) >>
Blocks == << Stored(<< 70, 71, 72, 73, 74, 75, 76, 77, 78 >>),
             Short(<< Lit(65), Lit(68), Cpy(Len3, 1, 0), Cpy(Len3, 0, 0) >>),
             Stored(<< >>), Fixed(<< Lit(80), Cpy(Len3, 4, 1) >>) >>
LongCodes == << Fixed(<< Lit(81), Lit(82), Lit(83) >>),
                Long(<< Lit(65), Lit(75), Lit(73), Lit(66), Lit(74), Lit(67), Lit(65) >>) >>

Good(blocks, head) == Gz(head, blocks, Elf(OneSegment(Expansion(blocks)), 1))
Base == Good(Copies, Plain(0))

Bad == {
  "magic", "flags", "method", "crc", "len", "cut", "cutufs", "cutshort", "blocksize", "noelf",
  "headers", "memory", "type", "complement", "literal", "distance", "many", "tree", "over", "incomplete", "repeat" }
Sound ==
  ({"copies"} \X Pads) \cup { << "ufs", 1 >>, << "ufs", 3 >>, << "blocks", 0 >>, << "long", 0 >>,
                         << "segments", 0 >>, << "gaps", 0 >>, << "shared", 0 >> }
BadBlock(like, block) ==
  LET f == Gz(Plain(0), << like >>, Elf(<< >>, 0)) IN
  [f EXCEPT !.blocks = << block >>, !.out = Expansion(<< block >>), !.sum = Expansion(<< block >>),
            !.len = Len(Expansion(<< block >>)), !.sound = FALSE]
ShortBut == Short(<< Lit(65) >>)

BadFile(k) ==
  CASE k = "magic" -> [Base EXCEPT !.head[2] = 0, !.sound = FALSE]
    [] k = "flags" -> [Base EXCEPT !.head[4] = 32, !.sound = FALSE]
    [] k = "method" -> [Base EXCEPT !.head[3] = 7, !.sound = FALSE]
    [] k = "crc" -> [Base EXCEPT !.sum = Tail(@), !.sound = FALSE]
    [] k = "len" -> [Base EXCEPT !.len = @ + 1, !.sound = FALSE]
    [] k = "cut" -> [Base EXCEPT !.size = @ - 12, !.sound = FALSE]
    [] k = "cutufs" -> [Base EXCEPT !.size = @ - 12, !.sound = FALSE, !.fs = "ufs"]
    [] k = "cutshort" -> [Base EXCEPT !.size = @ - 12, !.sound = FALSE, !.fs = "ufs", !.bs = 8]
    [] k = "blocksize" -> [Base EXCEPT !.bs = 3, !.sound = FALSE]
    [] k = "noelf" -> [Base EXCEPT !.image.elf = FALSE, !.sound = FALSE]
    [] k = "headers" -> [Base EXCEPT !.image.hdr = 9, !.sound = FALSE]
    [] k = "memory" -> [Base EXCEPT !.image.fits = FALSE, !.sound = FALSE]
    [] k = "type" -> BadBlock(Stored(<< >>), [type |-> 3])
    [] k = "complement" -> BadBlock(Stored(<< 70 >>), [Stored(<< 70 >>) EXCEPT !.complement = FALSE])
    [] k = "literal" -> BadBlock(Fixed(<< Lit(286) >>), Fixed(<< Lit(286) >>))
    [] k = "distance" -> BadBlock(Fixed(<< Lit(65) >>), Fixed(<< Lit(65), Cpy(Len3, 30, 0) >>))
    [] k = "many" -> BadBlock(ShortBut, [ShortBut EXCEPT !.nl = 287])
    [] k = "tree" -> BadBlock(ShortBut, [ShortBut EXCEPT !.clens[1] = 2])
    [] k = "over" -> BadBlock(ShortBut, [ShortBut EXCEPT !.ops[2] = Op(2, 0)])
    [] k = "incomplete" -> BadBlock(ShortBut, [ShortBut EXCEPT !.ops[8] = Op(2, 0)])
    [] k = "repeat" -> BadBlock(ShortBut, [ShortBut EXCEPT !.ops[9] = Op(18, 0)])

SoundFile(k, pad) ==
  CASE k = "copies" -> Good(Copies, Named(pad))
    [] k = "ufs" -> [Good(Copies, Named(pad)) EXCEPT !.fs = "ufs"]
    [] k = "blocks" -> [Good(Blocks, Everything) EXCEPT !.fs = "ext4"]
    [] k = "long" -> Good(LongCodes, Plain(0))
    [] k = "segments" ->
         Gz(Plain(0), Copies, Elf(<< Segment(2, 3, 13), Segment(16, 18, 7) >>, 0))
    [] k = "shared" ->
         Gz(Plain(0), Copies, Elf(<< Segment(2, 3, 8), Segment(12, 12, 10) >>, 0))
    [] k = "gaps" -> Gz(Plain(0), Copies, Elf(<< Segment(2, 3, 5), Segment(20, 19, 3) >>, 0))

MCFiles == {BadFile(k) : k \in Bad} \cup {SoundFile(k[1], k[2]) : k \in Sound}
============================================================================
