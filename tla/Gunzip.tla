------------------------------- MODULE Gunzip -------------------------------
(* uncompress_kernel: zip/misc.c, zip/unzip.c and zip/inflate.c.  A gzip    *)
(* file is read a buffer of whole blocks at a time, its header skipped, its *)
(* deflate blocks expanded through the bit buffer into the window, and each *)
(* window copied to the segments its ELF header names.  An error leaves     *)
(* through longjmp and the next attempt starts with the statics it left.    *)
(*                                                                          *)
(* A byte of the input is the place it has in the file, 0 for whatever      *)
(* memory held; a bit likewise, -1.  What code is next in the file is in    *)
(* file; reading it depends on the bits in hand being the bits it is        *)
(* written in.  A crc is the output it was computed from.                   *)
EXTENDS GzipFile

CONSTANTS
  INBUFSIZ,         \* input buffer size
  NDADDR,           \* direct blocks of an inode on ufs
  MaxOut,           \* bound on the output followed behind the end of a file
  MaxTries,         \* bound on the attempts to load a kernel
  MaxFailures       \* bound on the reads that fail

ASSUME SizesAssumption ==
  /\ INBUFSIZ \in Nat \ {0} /\ MaxTries \in Nat /\ MaxFailures \in Nat
  /\ NDADDR \in Nat /\ MaxOut \in Nat

VARIABLES
  file,             \* the file being uncompressed
  tries, failures,
  failed,           \* history: a read failed in this attempt
  spent,            \* history: bss_size when this attempt began
  touched,          \* history: the segments named by headers so far
  pc, ret,          \* where uncompress_kernel is, and where to after a flush
  inbuf, insize, inptr, block_number,
  todo, method,     \* get_method: what of the header is still to come
  b, reads,         \* bit buffer; pending NEEDBITS and DUMPBITS
  at, blk, tok,     \* where in the file: bit, block, code of that block
  ll, last, lit, dist,    \* lengths read so far, decoding tables in use
  slide, w, n, d,   \* window, its position, copy length left and index
  outcnt, bytes_out, crc, buf,
  chunk, chunks, file_offset, bss_size,
  mem               \* where the kernel goes

input == << inbuf, insize, inptr, block_number, failures, failed >>
header == << todo, method >>
codes == << ll, last, lit, dist >>
window == << slide, w, n, d >>
flushing == << ret, outcnt, bytes_out, crc, chunk, chunks, file_offset, bss_size, touched, mem >>
attempt == << file, tries, spent >>
vars == << attempt, input, header, codes, window, flushing, pc, b, reads, at, blk, tok, buf >>

NoTable == [lens |-> << >>, bits |-> 0, longest |-> 0]
Untouched == -2
Past == -3          \* what lies behind the window

Init ==
  /\ file = (CHOOSE k \in Files : TRUE) /\ tries = 0 /\ failures = 0 /\ failed = FALSE
  /\ spent = 0 /\ touched = {}
  /\ pc = "idle" /\ ret = "idle"
  /\ inbuf = [i \in 0 .. INBUFSIZ - 1 |-> 0]
  /\ insize = 0 /\ inptr = 0 /\ block_number = 0
  /\ todo = << >> /\ method = 0
  /\ b = << >> /\ reads = << >> /\ at = 0 /\ blk = 0 /\ tok = 0
  /\ ll = << >> /\ last = 0 /\ lit = NoTable /\ dist = NoTable
  /\ slide = [i \in 0 .. WSIZE - 1 |-> -1]
  /\ w = 0 /\ n = 0 /\ d = 0
  /\ outcnt = 0 /\ bytes_out = 0 /\ crc = << >> /\ buf = << >>
  /\ chunk = 0 /\ chunks = << >> /\ file_offset = 0 /\ bss_size = 0
  /\ mem = [i \in 0 .. MemTop |-> Untouched]

Block == file.blocks[blk]
Image == file.image

(* unzip_error: longjmp out of uncompress_kernel. *)
Fail == pc' = "fail"

(* Mutant: block_number is left as the last attempt left it. *)
clear_bufsBlockStays ==
  /\ outcnt' = 0 /\ insize' = 0 /\ inptr' = 0 /\ block_number' = block_number
  /\ bytes_out' = 0 /\ chunk' = 0 /\ file_offset' = 0
clear_bufs ==
  /\ outcnt' = 0 /\ insize' = 0 /\ inptr' = 0 /\ block_number' = 0
  /\ bytes_out' = 0 /\ chunk' = 0 /\ file_offset' = 0

(* uncompress_kernel: new buffers, as memory was, clear_bufs, and locals    *)
(* of the functions it is about to call.                                    *)
uncompress_kernel ==
  /\ pc \in {"idle", "fail"}
  /\ tries < MaxTries
  /\ tries' = tries + 1
  /\ file' \in Files
  /\ spent' = bss_size
  /\ failed' = FALSE
  /\ inbuf' = [i \in 0 .. INBUFSIZ - 1 |-> 0]
  /\ slide' = [i \in 0 .. WSIZE - 1 |-> -1]
  /\ clear_bufs
  /\ todo' = << << "id1", 0 >>, << "id2", 0 >>, << "method", 0 >>, << "flags", 0 >> >>
  /\ method' = 0 /\ ll' = << >> /\ last' = 0 /\ lit' = NoTable /\ dist' = NoTable
  /\ w' = 0 /\ n' = 0 /\ d' = 0 /\ buf' = << >>
  /\ at' = 0 /\ blk' = 0 /\ tok' = 0
  /\ pc' = "header"
  /\ UNCHANGED << failures, touched, ret, b, reads, crc, chunks, bss_size, mem >>

----------------------------------------------------------------------------
(* What bread delivers when asked for a buffer full from block_number on,   *)
(* in bytes; nothing of it when the read fails.  An extent has the file's   *)
(* blocks, ext2_breadi and iso_breadi go one on if the last one is full.    *)
(* ufs has no test for the end: a block behind it is as large as blksize    *)
(* says, the rest of the file's size in whole fragments for a direct block  *)
(* and a full block for another.                                            *)
BlocksThere ==
  IF file.fs = "ext4" THEN (file.size + file.bs - 1) \div file.bs
                      ELSE (file.size + file.bs) \div file.bs
LastBlkSize == file.frag * (((file.size % file.bs) + file.frag - 1) \div file.frag)
BlkSize(k) ==
  IF k >= NDADDR \/ file.size >= (k + 1) * file.bs THEN file.bs ELSE LastBlkSize
Asked == INBUFSIZ \div file.bs
Delivered ==
  IF file.fs = "ufs"
  THEN MapThenSumSet(BlkSize, block_number .. block_number + Asked - 1)
  ELSE file.bs * Min({Asked, Max({BlocksThere - block_number, 0})})

(* On ufs the end goes unnoticed when no block behind it is short; past the *)
(* direct blocks one is then like another, and they are not counted.        *)
NoEof == file.fs = "ufs" /\ (file.size \div file.bs >= NDADDR \/ LastBlkSize = file.bs)
Endless == NoEof /\ block_number >= NDADDR /\ block_number * file.bs >= file.size
Place(i) ==
  LET p == block_number * file.bs + i + 1 IN IF p <= file.size THEN p ELSE 0
CanFill == INBUFSIZ % file.bs = 0 /\ block_number >= 0

(* A short read is the end of the file; insize is a full buffer even so.    *)
fill_inbuf(got) ==
  /\ inbuf' = [i \in 0 .. INBUFSIZ - 1 |-> IF i < got THEN Place(i) ELSE inbuf[i]]
  /\ insize' = INBUFSIZ
  /\ block_number' = IF got < INBUFSIZ THEN -1
                     ELSE IF Endless THEN block_number
                     ELSE block_number + INBUFSIZ \div file.bs
  /\ inptr' = 1

(* get_byte, and what becomes of the byte, P. *)
get_byte(P(_)) ==
  \/ /\ inptr < insize
     /\ inptr' = inptr + 1
     /\ P(inbuf[inptr])
     /\ UNCHANGED << inbuf, insize, block_number, failures, failed >>
  \/ /\ inptr >= insize
     /\ CanFill
     /\ \/ /\ fill_inbuf(Delivered)
           /\ P(IF Delivered > 0 THEN Place(0) ELSE inbuf[0])
           /\ UNCHANGED << failures, failed >>
        \/ /\ failures < MaxFailures
           /\ failures' = failures + 1
           /\ failed' = TRUE
           /\ fill_inbuf(0)
           /\ P(inbuf[0])

(* get_byte finds no byte: "attempted to read past eof", "bad block-size". *)
no_byte == inptr >= insize /\ ~CanFill

(* What a byte of the header may be when it is not one. *)
Values(p) == IF p \in 1 .. Len(file.head) THEN {file.head[p]} ELSE {0, 8, 31}

Flag(v, bit) == (v \div 2 ^ bit) % 2 = 1
ENCRYPTED == 5
CONTINUATION == 1
EXTRA_FIELD == 2
ORIG_NAME == 3
COMMENT == 4
BadFlags(v) == Flag(v, ENCRYPTED) \/ Flag(v, CONTINUATION) \/ Flag(v, 6) \/ Flag(v, 7)

Skip(len) == [i \in 1 .. len |-> << "skip", 0 >>]
Optional(v, bit, what) == IF Flag(v, bit) THEN what ELSE << >>
AfterFlags(v) ==
  Skip(6) \o Optional(v, EXTRA_FIELD, << << "len1", 0 >>, << "len2", 0 >> >>)
          \o Optional(v, ORIG_NAME, << << "text", 0 >> >>)
          \o Optional(v, COMMENT, << << "text", 0 >> >>)

(* What follows in the header after a byte v of the part it starts with. *)
HeaderRest(v) ==
  CASE Head(todo)[1] = "flags" -> AfterFlags(v)
    [] Head(todo)[1] = "len1" -> << << "len2", v >> >> \o SubSeq(todo, 3, Len(todo))
    [] Head(todo)[1] = "len2" -> Skip(Head(todo)[2] + 256 * v) \o Tail(todo)
    [] Head(todo)[1] = "text" /\ v # 0 -> todo
    [] OTHER -> Tail(todo)
HeaderBad(v) ==
  \/ Head(todo)[1] = "id1" /\ v # 31
  \/ Head(todo)[1] = "id2" /\ v \notin {139, 158}
  \/ Head(todo)[1] = "flags" /\ BadFlags(v)
HeaderByte(p) ==
  \E v \in Values(p) :
    IF HeaderBad(v)
    THEN Fail /\ UNCHANGED header
    ELSE /\ todo' = HeaderRest(v)
         /\ method' = IF Head(todo)[1] = "method" THEN v ELSE method
         /\ UNCHANGED pc

get_method ==
  /\ pc = "header"
  /\ todo # << >>
  /\ \/ get_byte(HeaderByte)
     \/ no_byte /\ Fail /\ UNCHANGED << input, header >>
  /\ UNCHANGED << attempt, codes, window, flushing, b, reads, at, blk, tok, buf >>

(* unzip and the beginning of inflate: initialize crc, window, bit buffer. *)
DEFLATED == 8
inflate ==
  /\ pc = "header"
  /\ todo = << >>
  /\ crc' = << >>
  /\ IF method # DEFLATED
     THEN Fail /\ UNCHANGED << w, b, at, blk >>
     ELSE /\ pc' = "block"
          /\ w' = 0 /\ b' = << >>
          /\ at' = 8 * Len(file.head)
          /\ blk' = 0
  /\ UNCHANGED << attempt, input, header, codes, slide, n, d, ret, outcnt, bytes_out, chunk,
                  chunks, file_offset, bss_size, touched, mem, reads, tok, buf >>

----------------------------------------------------------------------------
(* NEEDBITS: a byte into the bit buffer while it holds too few bits. *)
Bits(p) == [i \in 1 .. 8 |-> IF p = 0 THEN -1 ELSE 8 * (p - 1) + i - 1]
IntoBits(p) == b' = b \o Bits(p) /\ UNCHANGED pc
NEEDBITS ==
  /\ pc \notin {"idle", "fail", "ok"}
  /\ reads # << >>
  /\ Len(b) < Head(reads)[1]
  /\ \/ get_byte(IntoBits)
     \/ no_byte /\ Fail /\ UNCHANGED << input, b >>
  /\ reads' = IF pc' = "fail" THEN << >> ELSE reads
  /\ UNCHANGED << attempt, header, codes, window, flushing, at, blk, tok, buf >>

(* DUMPBITS: the bits of the code are used.  When they are not the bits the *)
(* file has next, what is decoded is anything, an error included.           *)
Drop(count) == SubSeq(b, count + 1, Len(b))
InStep(used) == \A i \in 1 .. used : b[i] = at + i - 1
DUMPBITS ==
  /\ reads # << >>
  /\ Len(b) >= Head(reads)[1]
  /\ \E used \in {Head(reads)[2]} :
       /\ b' = Drop(used)
       /\ IF InStep(used)
          THEN /\ at' = at + used
               /\ reads' = Tail(reads)
               /\ UNCHANGED pc
          ELSE /\ at' = -1
               /\ reads' = << >>
               /\ pc' \in {"lost", "fail"}
  /\ UNCHANGED << attempt, input, header, codes, window, flushing, blk, tok, buf >>

(* All that was asked for is read. *)
Ready(where) == pc = where /\ reads = << >>

(* The decoding tables huft_build makes of a list, as far as they decide    *)
(* how many bits are read; what they decode to is in module Huffman.        *)
huft_build(lens, m) ==
  [lens |-> lens, bits |-> LookupBits(lens, m), longest |-> Max({0} \cup Lengths(lens))]

(* The reads of a code of table t: one longer than the table's bits goes on *)
(* in a second table, of no more bits than the longest code needs.          *)
CodeReads(t, sym, second) ==
  LET len == t.lens[sym + 1]
  IN  IF len <= t.bits THEN << << t.bits, len >> >>
      ELSE << << t.bits, t.bits >>, << second - t.bits, len - t.bits >> >>
Second(t, sym) == IF t.lens[sym + 1] <= t.bits THEN {0} ELSE t.lens[sym + 1] .. t.longest
Extra(bits) == << << bits, bits >> >>

----------------------------------------------------------------------------
inflate_block ==
  /\ Ready("block")
  /\ blk' = blk + 1
  /\ tok' = 1
  /\ reads' = Extra(1) \o Extra(2)
  /\ pc' = "type"
  /\ UNCHANGED << attempt, input, header, codes, window, flushing, b, at, buf >>

(* inflate_stored goes to a byte boundary: it drops the bits left of the    *)
(* last byte, where the file has padding.                                   *)
NextByte(bit) == 8 * ((bit + 7) \div 8)
AlignBits == b' = Drop(Len(b) % 8) /\ at' = NextByte(at)

BlockType ==
  /\ Ready("type")
  /\ CASE Block.type = 0 -> /\ AlignBits
                             /\ reads' = Extra(16) \o Extra(16)
                             /\ pc' = "stored_length"
                             /\ UNCHANGED << lit, dist >>
       [] Block.type = 1 -> /\ lit' = huft_build(FixedLengths, 7)
                            /\ dist' = huft_build(FixedDistances, 5)
                            /\ pc' = "codes"
                            /\ UNCHANGED << b, at, reads >>
       [] Block.type = 2 -> /\ reads' = Extra(5) \o Extra(5) \o Extra(4)
                            /\ pc' = "dynamic"
                            /\ UNCHANGED << b, at, lit, dist >>
       [] OTHER -> Fail /\ UNCHANGED << b, at, reads, lit, dist >>
  /\ UNCHANGED << attempt, input, header, ll, last, window, flushing, blk, tok, buf >>

EndBlock == IF blk = Len(file.blocks) THEN "undo" ELSE "block"

(* Mutant: a full window is not flushed. *)
OutputNoFlush(v, next) ==
  /\ slide' = [slide EXCEPT ![w] = v]
  /\ w' = w + 1
  /\ pc' = next
  /\ UNCHANGED << ret, outcnt >>

(* slide[w++] = v, and flush_output when that fills the window. *)
Output(v, next) ==
  /\ slide' = [slide EXCEPT ![w] = v]
  /\ w' = w + 1
  /\ IF w + 1 = WSIZE THEN pc' = "flush" /\ ret' = next /\ outcnt' = w + 1
                      ELSE pc' = next /\ UNCHANGED << ret, outcnt >>
outputs == << bytes_out, crc, chunk, chunks, file_offset, bss_size, touched, mem >>

StoredLength ==
  /\ Ready("stored_length")
  /\ IF Block.complement THEN pc' = "stored" ELSE Fail
  /\ n' = Len(Block.data)
  /\ UNCHANGED << attempt, input, header, codes, slide, w, d, flushing, b, reads, at, blk, tok, buf >>

inflate_stored ==
  /\ Ready("stored")
  /\ IF n > 0 THEN pc' = "stored_byte" /\ reads' = Extra(8)
              ELSE pc' = EndBlock /\ UNCHANGED reads
  /\ UNCHANGED << attempt, input, header, codes, window, flushing, b, at, blk, tok, buf >>

StoredByte ==
  /\ Ready("stored_byte")
  /\ Output(Block.data[Len(Block.data) - n + 1], "stored")
  /\ n' = n - 1
  /\ UNCHANGED << attempt, input, header, codes, d, outputs, b, reads, at, blk, tok, buf >>

----------------------------------------------------------------------------
(* inflate_dynamic: the lengths of the codes for the lengths, nb of them... *)
inflate_dynamic ==
  /\ Ready("dynamic")
  /\ IF Block.nl > 286 \/ Block.nd > 30
     THEN Fail /\ UNCHANGED reads
     ELSE /\ reads' = [j \in 1 .. Block.nb |-> << 3, 3 >>]
          /\ pc' = "tree"
  /\ UNCHANGED << attempt, input, header, codes, window, flushing, b, at, blk, tok, buf >>

(* ... of which those not sent are 0. *)
BitLengths ==
  [t \in 1 .. 19 |-> IF \E j \in 1 .. Block.nb : border[j] = t - 1
                     THEN Block.clens[CHOOSE j \in 1 .. Block.nb : border[j] = t - 1] ELSE 0]

BuildTree ==
  /\ Ready("tree")
  /\ IF Verdict(BitLengths) # 0 THEN Fail ELSE pc' = "lengths"
  /\ lit' = huft_build(BitLengths, 7)
  /\ ll' = << >>
  /\ last' = 0
  /\ UNCHANGED << attempt, input, header, dist, window, flushing, b, reads, at, blk, tok, buf >>

(* The code lengths come as lengths and as repeats of the last one or of 0. *)
RepeatBits(j) == CASE j = 16 -> 2 [] j = 17 -> 3 [] j = 18 -> 7 [] OTHER -> 0
ReadLength ==
  /\ Ready("lengths")
  /\ Len(ll) < Block.nl + Block.nd
  /\ \E j \in {Block.ops[tok].j} :
       reads' = CodeReads(lit, j, 0) \o Extra(RepeatBits(j))
  /\ pc' = "length"
  /\ UNCHANGED << attempt, input, header, codes, window, flushing, b, at, blk, tok, buf >>

(* Mutant: 16 repeats 0 and not the last length. *)
RunOfZeros(j, x) ==
  CASE j < 16 -> << j >>
    [] j \in 16 .. 17 -> [i \in 1 .. 3 + x |-> 0]
    [] OTHER -> [i \in 1 .. 11 + x |-> 0]
Run(j, x) ==
  CASE j < 16 -> << j >>
    [] j = 16 -> [i \in 1 .. 3 + x |-> last]
    [] j = 17 -> [i \in 1 .. 3 + x |-> 0]
    [] OTHER -> [i \in 1 .. 11 + x |-> 0]
LengthRun ==
  /\ Ready("length")
  /\ \E j \in {Block.ops[tok].j}, run \in {Run(Block.ops[tok].j, Block.ops[tok].x)} :
       IF Len(ll) + Len(run) > Block.nl + Block.nd
       THEN Fail /\ UNCHANGED << ll, last >>
       ELSE /\ ll' = ll \o run
            /\ last' = IF j < 16 THEN j ELSE IF j = 16 THEN last ELSE 0
            /\ pc' = "lengths"
  /\ tok' = tok + 1
  /\ UNCHANGED << attempt, input, header, lit, dist, window, flushing, b, reads, at, blk, buf >>

lbits == 9
dbits == 6

(* Both decoding tables; a list that is not complete is an error. *)
BuildCodes ==
  /\ Ready("lengths")
  /\ Len(ll) = Block.nl + Block.nd
  /\ lit' = huft_build(SubSeq(ll, 1, Block.nl), lbits)
  /\ dist' = huft_build(SubSeq(ll, Block.nl + 1, Len(ll)), dbits)
  /\ IF Verdict(lit'.lens) # 0 \/ Verdict(dist'.lens) # 0 THEN Fail ELSE pc' = "codes"
  /\ tok' = 1
  /\ UNCHANGED << attempt, input, header, ll, last, window, flushing, b, reads, at, blk, buf >>

----------------------------------------------------------------------------
(* inflate_codes: a literal, the end of the block, or a copy; no code has   *)
(* the meaning of literals 286 and 287 and distances 30 and 31.             *)
Token == Block.toks[tok]

CopyReads(second) ==
  Extra(cplext[Token.sym - EOB])
    \o IF Token.dsym < Len(dist.lens)
       THEN CodeReads(dist, Token.dsym, second) \o Extra(cpdext[Token.dsym + 1])
       ELSE << << dist.bits, 0 >> >>
inflate_codes ==
  /\ Ready("codes")
  /\ \E sl \in Second(lit, Token.sym) :
       IF Token.sym <= EOB \/ cplext[Token.sym - EOB] = 99
       THEN reads' = CodeReads(lit, Token.sym, sl)
       ELSE \E sd \in IF Token.dsym < Len(dist.lens) THEN Second(dist, Token.dsym) ELSE {0} :
              reads' = CodeReads(lit, Token.sym, sl) \o CopyReads(sd)
  /\ pc' = "token"
  /\ UNCHANGED << attempt, input, header, codes, window, flushing, b, at, blk, tok, buf >>

Invalid == Token.sym > EOB /\ (cplext[Token.sym - EOB] = 99 \/ Token.dsym >= Len(dist.lens))
CopyLength == cplens[Token.sym - EOB] + Token.ext
CopyDistance == cpdist[Token.dsym + 1] + Token.dext

Literal ==
  /\ Ready("token")
  /\ Token.sym < EOB
  /\ Output(Token.sym, "codes")
  /\ tok' = tok + 1
  /\ UNCHANGED << attempt, input, header, codes, n, d, outputs, b, reads, at, blk, buf >>

EndOfBlock ==
  /\ Ready("token")
  /\ Token.sym = EOB
  /\ pc' = EndBlock
  /\ UNCHANGED << attempt, input, header, codes, window, flushing, b, reads, at, blk, tok, buf >>

StartCopy ==
  /\ Ready("token")
  /\ Token.sym > EOB
  /\ IF Invalid
     THEN Fail /\ UNCHANGED << n, d, tok >>
     ELSE /\ n' = CopyLength
          /\ d' = (w - CopyDistance) % WSIZE
          /\ tok' = tok + 1
          /\ pc' = "copy"
  /\ UNCHANGED << attempt, input, header, codes, slide, w, flushing, b, reads, at, blk, buf >>

(* Mutant: memcpy also when the ranges overlap. *)
CopiedAtOnce(from, e) ==
  [i \in DOMAIN slide |-> IF i \notin w .. w + e - 1 THEN slide[i] ELSE slide[from + i - w]]

(* Copy until the source or the destination is at the window's end: by      *)
(* memcpy when the two do not overlap, else byte by byte, so that bytes     *)
(* just written are copied again.                                           *)
Copied(from, e) ==
  [i \in DOMAIN slide |->
     IF i \notin w .. w + e - 1 THEN slide[i]
     ELSE IF from > w \/ w - from >= e THEN slide[from + i - w]
     ELSE IF from = w THEN slide[i] ELSE slide[from + ((i - w) % (w - from))]]
Copy ==
  /\ pc = "copy"
  /\ \E from \in {d % WSIZE} : \E e \in {Min({n, WSIZE - Max({from, w})})} :
       /\ slide' = Copied(from, e)
       /\ w' = w + e
       /\ d' = from + e
       /\ n' = n - e
       /\ \E next \in {IF n = e THEN "codes" ELSE "copy"} :
            IF w + e = WSIZE THEN pc' = "flush" /\ ret' = next /\ outcnt' = WSIZE
                             ELSE pc' = next /\ UNCHANGED << ret, outcnt >>
  /\ UNCHANGED << attempt, input, header, codes, outputs, b, reads, at, blk, tok, buf >>

(* What bits out of step decode to: literals, and the end of the last block *)
(* (or an error, see DUMPBITS).                                             *)
OutForever == Endless /\ bytes_out > MaxOut
LostLiteral ==
  /\ pc = "lost" /\ ~OutForever
  /\ IF Len(b) < 8 THEN reads' = << << 8, 0 >> >> /\ UNCHANGED << b, slide, w, pc, ret, outcnt >>
     ELSE /\ b' = Drop(8)
          /\ Output(-1, "lost")
          /\ UNCHANGED reads
  /\ reads = << >>
  /\ UNCHANGED << attempt, input, header, codes, n, d, outputs, at, blk, tok, buf >>

(* ... or none, where the end of the file goes unnoticed: the decoder may   *)
(* go on over what lies behind it for ever.                                 *)
LostEnd ==
  /\ Ready("lost")
  /\ pc' = "undo" \/ (OutForever /\ pc' = "runaway")
  /\ UNCHANGED << attempt, input, header, codes, window, flushing, b, reads, at, blk, tok, buf >>

----------------------------------------------------------------------------
(* inflate: undo too much lookahead and flush out slide. *)
UndoLookahead ==
  /\ Ready("undo")
  /\ inptr' = inptr - Len(b) \div 8
  /\ b' = SubSeq(b, 1, Len(b) % 8)
  /\ outcnt' = w
  /\ pc' = "flush"
  /\ ret' = "trailer"
  /\ buf' = << >>
  /\ UNCHANGED << attempt, inbuf, insize, block_number, failures, failed, header, codes,
                  window, outputs, reads, at, blk, tok >>

(* flush_window: crc, the headers in the first window... *)
Flushed == SubSeq([i \in 1 .. WSIZE |-> slide[i - 1]], 1, outcnt)
is_loadable_elf ==
  /\ Image.elf
  /\ Image.hdr <= outcnt
  /\ Image.fits
  /\ ~(Image.bss > 0 /\ bss_size > 0)

(* A refusal at a later segment leaves the bss of an earlier one set. *)
BssRefused ==
  IF Image.elf /\ Image.hdr <= outcnt /\ bss_size = 0 THEN {0, Image.bss} ELSE {bss_size}

FlushDone == pc' = ret /\ w' = 0
flush_window ==
  /\ Ready("flush")
  /\ IF outcnt = 0
     THEN FlushDone /\ UNCHANGED << crc, bytes_out, chunks, bss_size, touched >>
     ELSE /\ crc' = crc \o Flushed
          /\ UNCHANGED w
          /\ IF bytes_out = 0 /\ ~is_loadable_elf
             THEN Fail /\ bss_size' \in BssRefused /\ UNCHANGED << bytes_out, chunks, touched >>
             ELSE /\ pc' = "chunks"
                  /\ bytes_out' = bytes_out + outcnt
                  /\ IF bytes_out = 0
                     THEN /\ chunks' = Image.chunks
                          /\ bss_size' = bss_size + Image.bss
                          /\ touched' = touched \cup ToSet(Image.chunks)
                     ELSE UNCHANGED << chunks, bss_size, touched >>
  /\ UNCHANGED << attempt, input, header, codes, slide, n, d, ret, outcnt, chunk, file_offset,
                  mem, b, reads, at, blk, tok, buf >>

(* Mutants: a source one byte early, a destination below the segment, the   *)
(* same segment again.                                                      *)
SourceEarly(offset) == IF offset < 0 THEN -offset - 1 ELSE 0
DestinationBelow(c, offset) == c.addr + offset
NextChunkSame == chunk

(* ... and what of the window is part of a segment, one segment a step.     *)
(* memcpy starts offset bytes into the window when the segment does, and    *)
(* takes as many bytes as if it had not.                                    *)
Source(offset) == IF offset < 0 THEN -offset ELSE 0
Destination(c, offset) == IF offset < 0 THEN c.addr ELSE c.addr + offset
NextChunk == chunk + 1
InWindow(i) == IF i < WSIZE THEN slide[i] ELSE Past
CopyChunk ==
  /\ pc = "chunks"
  /\ chunk < Len(chunks)
  /\ LET c == chunks[chunk + 1]
         offset == file_offset - c.offset
         src == Source(offset)
         dest == Destination(c, offset)
         to_copy == Min({c.offset + c.size - file_offset, outcnt})
     IN  IF src >= outcnt
         THEN /\ file_offset' = file_offset + outcnt
              /\ FlushDone
              /\ UNCHANGED << mem, outcnt, chunk >>
         ELSE /\ mem' = [i \in DOMAIN mem |-> IF i \in dest .. dest + to_copy - 1
                                             THEN InWindow(src + i - dest) ELSE mem[i]]
              /\ file_offset' = file_offset + to_copy
              /\ IF to_copy < outcnt
                 THEN /\ outcnt' = outcnt - to_copy
                      /\ chunk' = NextChunk
                      /\ UNCHANGED << pc, w >>
                 ELSE FlushDone /\ UNCHANGED << outcnt, chunk >>
  /\ UNCHANGED << attempt, input, header, codes, slide, n, d, ret, bytes_out, crc, chunks,
                  bss_size, touched, b, reads, at, blk, tok, buf >>

NoChunkLeft ==
  /\ pc = "chunks"
  /\ chunk >= Len(chunks)
  /\ FlushDone
  /\ UNCHANGED << attempt, input, header, codes, slide, n, d, ret, outcnt, outputs, b, reads,
                  at, blk, tok, buf >>

(* unzip: the crc and the length at the end of the file. *)
IntoBuf(p) == buf' = Append(buf, p) /\ UNCHANGED pc
ReadTrailer ==
  /\ pc = "trailer"
  /\ Len(buf) < 8
  /\ \/ get_byte(IntoBuf)
     \/ no_byte /\ Fail /\ UNCHANGED << input, buf >>
  /\ UNCHANGED << attempt, header, codes, window, flushing, b, reads, at, blk, tok >>

(* The bytes read are the trailer, and say what was put out. *)
CrcRight == buf = [i \in 1 .. 8 |-> file.trailer + i] /\ crc = file.sum
LengthRight == bytes_out = file.len
Validate ==
  /\ pc = "trailer"
  /\ Len(buf) = 8
  /\ pc' = IF CrcRight /\ LengthRight THEN "ok" ELSE "fail"
  /\ UNCHANGED << attempt, input, header, codes, window, flushing, b, reads, at, blk, tok, buf >>

Step ==
  \/ get_method \/ inflate \/ NEEDBITS \/ DUMPBITS
  \/ inflate_block \/ BlockType \/ StoredLength \/ inflate_stored \/ StoredByte
  \/ inflate_dynamic \/ BuildTree \/ ReadLength \/ LengthRun \/ BuildCodes
  \/ inflate_codes \/ Literal \/ EndOfBlock \/ StartCopy \/ Copy
  \/ LostLiteral \/ LostEnd
  \/ UndoLookahead \/ flush_window \/ CopyChunk \/ NoChunkLeft
  \/ ReadTrailer \/ Validate
Next == uncompress_kernel \/ Step
Spec == Init /\ [][Next]_vars /\ WF_vars(Step)

----------------------------------------------------------------------------
Bytes == {-1} \cup 0 .. 255

(* Types and the bounds of the buffers: giving back the bytes the decoder   *)
(* read ahead never takes inptr below the start of the buffer, the bit      *)
(* buffer holds less than the 32 bits b is masked as, and the window        *)
(* position stays inside the window between two codes.                      *)
TypeOK ==
  /\ tries \in 0 .. MaxTries /\ failures \in 0 .. MaxFailures
  /\ insize \in {0, INBUFSIZ} /\ inptr \in 0 .. INBUFSIZ
  /\ block_number \in Int /\ block_number >= -1
  /\ Len(b) < 32
  /\ \A i \in DOMAIN slide : slide[i] \in Bytes
  /\ w \in 0 .. WSIZE
  /\ pc \in {"codes", "copy", "stored", "token", "block", "lost"} => w < WSIZE
  /\ n \in Nat /\ d \in 0 .. WSIZE
  /\ Len(ll) <= 286 + 30
  /\ chunk \in 0 .. Len(chunks)
  /\ bss_size \in Nat /\ bytes_out \in Nat /\ file_offset \in Nat

(* A sound file is loaded when none of its reads fails, wherever its blocks *)
(* and its trailer lie in the input buffer, and also after an attempt that  *)
(* failed half way; only a bss left over from such an attempt stops it.     *)
GoodFileLoads ==
  pc = "fail" => \/ ~file.sound
                 \/ failed
                 \/ spent > 0 /\ Image.bss > 0

(* While the bits are those of the file, what has left the window is the    *)
(* beginning of what the file stands for: the circular window, its wrapping *)
(* and overlapping copies and the blocks of all three types come to plain   *)
(* expansion of the codes.                                                  *)
OutputIsExpansion ==
  at >= 0 /\ bytes_out > 0 /\ pc # "idle" => IsPrefix(crc, file.out)

(* When all lengths of the codes are read, they are those the block sends:  *)
(* repeats take the length before them, also after a run of zeros.          *)
LengthsRight ==
  pc = "lengths" /\ Len(ll) = Block.nl + Block.nd => ll = LengthsOf(Block.ops)

(* A kernel that uncompress_kernel reports as loaded is in memory as it is  *)
(* in the file, byte by byte, when no segment starts in the window another  *)
(* one ends in: flush_window takes both from the beginning of the window.   *)
EndsApart(cs) ==
  \A s \in DOMAIN cs : s < Len(cs) => (cs[s].offset + cs[s].size) % WSIZE = 0
ImageLoaded ==
  pc = "ok" /\ EndsApart(Image.chunks) =>
    \A s \in DOMAIN Image.chunks : LET c == Image.chunks[s] IN
      \A i \in 0 .. c.size - 1 : mem[c.addr + i] = file.out[c.offset + i + 1]

(* flush_window writes nothing below a segment and nothing further behind   *)
(* one than a window: what it copies too much is the segment's distance     *)
(* from the beginning of the window.                                        *)
MemoryKept ==
  \A i \in DOMAIN mem :
    mem[i] # Untouched =>
      \E c \in touched : i \in c.addr .. c.addr + c.size + (c.offset % WSIZE) - 1

(* Every attempt ends, also on a file cut short or a disk that fails: the   *)
(* end of the file stops whatever the decoder makes of stale bytes.  Not so *)
(* for a file cut short whose end goes unnoticed, on ufs: what lies behind  *)
(* it may be decoded for ever.                                              *)
Cut == file.size < file.trailer + 8
AttemptEnds ==
  pc \notin {"idle", "ok", "fail"} /\ ~(Cut /\ NoEof) ~> pc \in {"ok", "fail"}

(* inflate: buffers, window and bit buffer stay within their limits, the    *)
(* code lengths are those sent, and the output is the codes' expansion.     *)
InflatesRight == TypeOK /\ LengthsRight /\ OutputIsExpansion

(* flush_window: what is in memory is the image, and nothing else was       *)
(* touched than it allows for.                                              *)
MemoryRight == MemoryKept /\ ImageLoaded
============================================================================
