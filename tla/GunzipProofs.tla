---------------------------- MODULE GunzipProofs ----------------------------
(* The decompressor, for every set of files, every size of the window and   *)
(* the input buffer and every sequence of attempts and failing reads: what  *)
(* flush_window copies where, and that the image of a kernel it reports as  *)
(* loaded is the one in the file.                                           *)
EXTENDS Gunzip, TLAPS, SequenceTheorems, WellFoundedInduction

USE WindowAssumption, SizesAssumption

(*** Places and types ***)

(* Where bits are asked for, where a window is being filled, where emptied. *)
Asking == {"type", "stored_length", "stored_byte", "dynamic", "tree", "length", "token", "lost"}
Decoding == Asking \cup {"block", "stored", "lengths", "codes", "copy", "undo"}
Flushing == {"flush", "chunks"}
Places == {"idle", "fail", "ok", "runaway", "header", "trailer"} \cup Decoding \cup Flushing
Returns == {"codes", "copy", "stored", "lost", "trailer"}

(* At one of the places in S, or on the way back to it. *)
Going(S) == pc \in S \/ (pc \in Flushing /\ ret \in S)

PlaceTypes ==
  /\ file \in Files
  /\ pc \in Places
  /\ pc \in Flushing => ret \in Returns
  /\ reads # << >> => pc \in Asking
  /\ blk \in 0 .. Len(file.blocks)
  /\ pc = "block" => blk < Len(file.blocks)
  /\ pc \in {"type", "dynamic", "tree"} => tok = 1
  /\ Going({"type", "stored_length", "stored", "stored_byte", "dynamic", "tree", "lengths",
            "length", "codes", "token", "copy"}) => blk > 0
  /\ Going({"stored_length", "stored", "stored_byte"}) => Block.type = 0
  /\ Going({"stored", "stored_byte"}) => n \in 0 .. Len(Block.data)
  /\ pc = "stored_byte" => n # 0
  /\ pc \in {"dynamic", "tree", "lengths", "length"} => Block.type = 2
  /\ pc \in {"tree", "lengths", "length"} => Block.nl <= 286 /\ Block.nd <= 30
  /\ Going({"codes", "token", "copy"}) =>
       Block.type \in 1 .. 2 /\ tok \in DOMAIN Block.toks /\ n \in Nat

(* The lengths read are those of the codes read, and all there can be.      *)
TableTypes ==
  /\ ll \in Seq(0 .. 15) /\ Len(ll) <= 286 + 30 /\ last \in 0 .. 15
  /\ dist.lens \in Seq(0 .. 15) /\ Len(dist.lens) <= 30
  /\ pc \in {"lengths", "length"} =>
       /\ tok \in 1 .. Len(Block.ops) + 1
       /\ ll = LengthsAfter(Block.ops, tok - 1)
       /\ tok # 1 => ll # << >> /\ last = Last(ll)
  /\ pc = "length" => tok \in 1 .. Len(Block.ops)

WindowTypes ==
  /\ slide \in [0 .. WSIZE - 1 -> Bytes]
  /\ w \in 0 .. WSIZE
  /\ pc \in Decoding => w < WSIZE
  /\ n \in Nat /\ d \in 0 .. WSIZE
  /\ pc = "flush" => outcnt = w
  /\ pc \in Flushing /\ ret # "trailer" => w = WSIZE

Types == PlaceTypes /\ TableTypes /\ WindowTypes
-----------------------------------------------------------------------------
(* The files *)

LEMMA IsSeqFacts ==
  ASSUME NEW s, IsSeq(s)
  PROVE  /\ Len(s) \in Nat /\ DOMAIN s = 1 .. Len(s)
         /\ s # << >> => Len(s) > 0
BY DEF IsSeq

LEMMA FileFacts ==
  ASSUME file \in Files
  PROVE  /\ FileSound(file)
         /\ Len(file.blocks) \in Nat \ {0} /\ DOMAIN file.blocks = 1 .. Len(file.blocks)
<1>1. FileSound(file) BY FilesAssumption
<1>2. IsSeq(file.blocks) /\ file.blocks # << >> BY <1>1 DEF FileSound
<1> QED BY <1>1, <1>2, IsSeqFacts

LEMMA BlockFacts ==
  ASSUME file \in Files, blk \in 1 .. Len(file.blocks)
  PROVE  /\ BlockSound(Block)
         /\ Block.type \in 0 .. 3
         /\ Block.type = 0 => Block.data \in Seq(Byte)
         /\ Block.type \in 1 .. 2 => TokensSound(Block.toks)
         /\ Block.type = 2 => Block.nl \in Nat /\ Block.nd \in Nat
<1>1. blk \in DOMAIN file.blocks BY FileFacts
<1>2. BlockSound(file.blocks[blk]) BY <1>1, FileFacts DEF FileSound
<1> QED BY <1>2 DEF BlockSound, Block

(* Every code of a block but the last is followed by another. *)
LEMMA TokenFacts ==
  ASSUME NEW toks, TokensSound(toks)
  PROVE  /\ Len(toks) \in Nat \ {0} /\ DOMAIN toks = 1 .. Len(toks)
         /\ \A i \in DOMAIN toks :
              /\ toks[i].sym \in 0 .. 287 /\ (toks[i].sym = EOB <=> i = Len(toks))
              /\ toks[i].ext \in Nat /\ toks[i].dsym \in Nat /\ toks[i].dext \in Nat
              /\ toks[i].sym # EOB => i + 1 \in DOMAIN toks
<1>1. Len(toks) \in Nat \ {0} /\ DOMAIN toks = 1 .. Len(toks)
  BY IsSeqFacts DEF TokensSound
<1>2. ASSUME NEW i \in DOMAIN toks
      PROVE  /\ toks[i].sym \in 0 .. 287 /\ (toks[i].sym = EOB <=> i = Len(toks))
             /\ toks[i].ext \in Nat /\ toks[i].dsym \in Nat /\ toks[i].dext \in Nat
             /\ toks[i].sym # EOB => i + 1 \in DOMAIN toks
  <2>1. toks[i].sym \in 0 .. 287 /\ (toks[i].sym = EOB <=> i = Len(toks))
    BY DEF TokensSound
  <2>2. {toks[i].ext, toks[i].dsym, toks[i].dext} \subseteq Nat BY DEF TokensSound
  <2>3. toks[i].sym # EOB => i + 1 \in DOMAIN toks BY <1>1, <2>1
  <2> QED BY <2>1, <2>2, <2>3
<1> QED BY <1>1, <1>2

(* The tables of the format: what a valid code for a copy stands for. *)
LEMMA CopyCodes == \A s \in 1 .. 31 : cplext[s] # 99 => s <= 29
BY DEF cplext

LEMMA CopyLengths == \A s \in 1 .. 29 : cplens[s] \in 1 .. 258
BY DEF cplens

LEMMA CopyDistances == \A s \in 1 .. 30 : cpdist[s] \in Nat \ {0}
<1>1. \A s \in 1 .. 15 : cpdist[s] \in Nat \ {0} BY DEF cpdist
<1>2. \A s \in 16 .. 30 : cpdist[s] \in Nat \ {0} BY DEF cpdist
<1> QED BY <1>1, <1>2
-----------------------------------------------------------------------------
(* What a file stands for, code by code *)

LEMMA SetInduction ==
  ASSUME NEW m \in Nat, NEW S, 0 \in S, \A i \in 0 .. m - 1 : i \in S => i + 1 \in S
  PROVE  0 .. m \subseteq S
<1> DEFINE T == {i \in 0 .. m : i \notin S}
           R == OpToRel(<, Nat)
<1>1. IsWellFoundedOn(R, Nat) BY NatLessThanWellFounded, Zenon
<1>2. R = {ss \in Nat \X Nat : ss[1] < ss[2]} BY Zenon DEF OpToRel
<1>3. T \subseteq Nat OBVIOUS
<1> SUFFICES ASSUME T # {} PROVE FALSE OBVIOUS
<1> HIDE DEF R
<1>4. PICK x \in T : \A y \in T : ~(<< y, x >> \in R)
  <2> HIDE DEF T
  <2>1. \E x \in T : \A y \in T : ~(<< y, x >> \in R) BY <1>1, <1>3, WFMin, Zenon
  <2> QED BY <2>1
<1>5. x # 0 /\ x \in 0 .. m /\ x \notin S OBVIOUS
<1>6. x - 1 \in 0 .. m - 1 BY <1>5
<1>7. << x - 1, x >> \in R BY <1>2, <1>5, <1>6
<1>8. x - 1 \notin T BY <1>4, <1>7
<1>9. x - 1 \in S BY <1>6, <1>8
<1>10. (x - 1) + 1 \in S BY <1>6, <1>9
<1> QED BY <1>5, <1>10

LengthsFun(ops, m, f) ==
  f = [i \in 0 .. m |-> IF i = 0 THEN << >> ELSE LengthsNext(f[i - 1], ops[i])]

LEMMA LengthsHas ==
  ASSUME NEW ops, Len(ops) \in Nat
  PROVE  \E f : LengthsFun(ops, Len(ops), f) /\ \A k : LengthsAfter(ops, k) = f[k]
<1> DEFINE m == Len(ops)
           S == {k \in 0 .. m : \E f : LengthsFun(ops, k, f)}
<1>1. 0 \in S
  <2>1. LengthsFun(ops, 0, [i \in 0 .. 0 |-> << >>]) BY DEF LengthsFun
  <2> QED BY <2>1
<1>2. ASSUME NEW k \in 0 .. m - 1, k \in S PROVE k + 1 \in S
  <2>1. PICK f : LengthsFun(ops, k, f) BY <1>2
  <2> DEFINE g == [i \in 0 .. k + 1 |-> IF i = k + 1 THEN LengthsNext(f[k], ops[k + 1]) ELSE f[i]]
  <2>2. f = [i \in 0 .. k |-> IF i = 0 THEN << >> ELSE LengthsNext(f[i - 1], ops[i])]
    BY <2>1 DEF LengthsFun
  <2>3. g = [i \in 0 .. k + 1 |-> IF i = 0 THEN << >> ELSE LengthsNext(g[i - 1], ops[i])]
    BY <2>2
  <2> HIDE DEF g
  <2>4. LengthsFun(ops, k + 1, g) BY <2>3 DEF LengthsFun
  <2> QED BY <2>4
<1>3. \E f : LengthsFun(ops, m, f)
  <2>0. m \in Nat OBVIOUS
  <2> HIDE DEF S, m
  <2>1. 0 .. m \subseteq S BY <1>1, <1>2, <2>0, SetInduction
  <2>2. m \in S BY <2>0, <2>1
  <2> QED BY <2>2 DEF S
<1>4. \A k : LengthsAfter(ops, k) = (CHOOSE f : LengthsFun(ops, m, f))[k]
  BY Zenon DEF LengthsAfter, LengthsFun
<1> HIDE DEF m
<1> QED BY <1>3, <1>4, Zenon DEF m

LEMMA LengthsStep ==
  ASSUME NEW ops, Len(ops) \in Nat
  PROVE  /\ LengthsAfter(ops, 0) = << >>
         /\ \A k \in 1 .. Len(ops) :
              LengthsAfter(ops, k) = LengthsNext(LengthsAfter(ops, k - 1), ops[k])
<1>1. PICK f : LengthsFun(ops, Len(ops), f) /\ \A k : LengthsAfter(ops, k) = f[k] BY LengthsHas, Zenon
<1>2. f[0] = << >> BY <1>1 DEF LengthsFun
<1>3. \A k \in 1 .. Len(ops) : f[k] = LengthsNext(f[k - 1], ops[k]) BY <1>1 DEF LengthsFun
<1>4. LengthsAfter(ops, 0) = << >> BY <1>1, <1>2
<1>5. ASSUME NEW k \in 1 .. Len(ops)
      PROVE  LengthsAfter(ops, k) = LengthsNext(LengthsAfter(ops, k - 1), ops[k])
  BY <1>1, <1>3, Zenon
<1> QED BY <1>4, <1>5

ExpandedFun(out, toks, m, f) ==
  f = [i \in 0 .. m |-> IF i = 0 THEN out ELSE After(f[i - 1], Written(toks[i]))]

LEMMA ExpandedHas ==
  ASSUME NEW out, NEW toks, Len(toks) \in Nat
  PROVE  \E f : ExpandedFun(out, toks, Len(toks), f) /\ \A k : Expanded(out, toks, k) = f[k]
<1> DEFINE m == Len(toks)
           S == {k \in 0 .. m : \E f : ExpandedFun(out, toks, k, f)}
<1>1. 0 \in S
  <2>1. ExpandedFun(out, toks, 0, [i \in 0 .. 0 |-> out]) BY DEF ExpandedFun
  <2> QED BY <2>1
<1>2. ASSUME NEW k \in 0 .. m - 1, k \in S PROVE k + 1 \in S
  <2>1. PICK f : ExpandedFun(out, toks, k, f) BY <1>2
  <2> DEFINE g == [i \in 0 .. k + 1 |-> IF i = k + 1 THEN After(f[k], Written(toks[k + 1])) ELSE f[i]]
  <2>2. f = [i \in 0 .. k |-> IF i = 0 THEN out ELSE After(f[i - 1], Written(toks[i]))]
    BY <2>1 DEF ExpandedFun
  <2>3. g = [i \in 0 .. k + 1 |-> IF i = 0 THEN out ELSE After(g[i - 1], Written(toks[i]))]
    BY <2>2
  <2> HIDE DEF g
  <2>4. ExpandedFun(out, toks, k + 1, g) BY <2>3 DEF ExpandedFun
  <2> QED BY <2>4
<1>3. \E f : ExpandedFun(out, toks, m, f)
  <2>0. m \in Nat OBVIOUS
  <2> HIDE DEF S, m
  <2>1. 0 .. m \subseteq S BY <1>1, <1>2, <2>0, SetInduction
  <2>2. m \in S BY <2>0, <2>1
  <2> QED BY <2>2 DEF S
<1>4. \A k : Expanded(out, toks, k) = (CHOOSE f : ExpandedFun(out, toks, m, f))[k]
  BY Zenon DEF Expanded, ExpandedFun
<1> HIDE DEF m
<1> QED BY <1>3, <1>4, Zenon DEF m

LEMMA ExpandedStep ==
  ASSUME NEW out, NEW toks, Len(toks) \in Nat
  PROVE  /\ Expanded(out, toks, 0) = out
         /\ \A k \in 1 .. Len(toks) :
              Expanded(out, toks, k) = After(Expanded(out, toks, k - 1), Written(toks[k]))
<1>1. PICK f : ExpandedFun(out, toks, Len(toks), f) /\ \A k : Expanded(out, toks, k) = f[k]
  BY ExpandedHas, Zenon
<1>2. f[0] = out BY <1>1 DEF ExpandedFun
<1>3. \A k \in 1 .. Len(toks) : f[k] = After(f[k - 1], Written(toks[k])) BY <1>1 DEF ExpandedFun
<1>4. Expanded(out, toks, 0) = out BY <1>1, <1>2
<1>5. ASSUME NEW k \in 1 .. Len(toks)
      PROVE  Expanded(out, toks, k) = After(Expanded(out, toks, k - 1), Written(toks[k]))
  BY <1>1, <1>3, Zenon
<1> QED BY <1>4, <1>5

-----------------------------------------------------------------------------
LEMMA InitTypes == Init => Types
<1> SUFFICES ASSUME Init PROVE Types OBVIOUS
<1>1. file \in Files BY FilesAssumption DEF Init
<1>2. Len(file.blocks) \in Nat BY <1>1, FileFacts
<1>3. PlaceTypes BY <1>1, <1>2 DEF Init, PlaceTypes, Places, Flushing, Going
<1>4. TableTypes BY DEF Init, TableTypes, NoTable
<1>5. WindowTypes BY DEF Init, WindowTypes, Decoding, Asking, Flushing, Bytes
<1> QED BY <1>3, <1>4, <1>5 DEF Types

(* What the steps that read a byte do besides reading it. *)
LEMMA HeaderFrame ==
  ASSUME get_method
  PROVE  /\ pc = "header" /\ pc' \in {"header", "fail"}
         /\ UNCHANGED << attempt, codes, window, flushing, b, reads, at, blk, tok, buf >>
<1>1. pc = "header" /\ UNCHANGED << attempt, codes, window, flushing, b, reads, at, blk, tok, buf >>
  BY DEF get_method
<1>2. CASE get_byte(HeaderByte)
  <2>1. \E p : HeaderByte(p) BY <1>2 DEF get_byte
  <2>2. pc' \in {pc, "fail"} BY <2>1 DEF HeaderByte, Fail
  <2> QED BY <1>1, <2>2
<1>3. CASE Fail BY <1>1, <1>3 DEF Fail
<1> QED BY <1>1, <1>2, <1>3 DEF get_method

LEMMA NeedFrame ==
  ASSUME NEEDBITS
  PROVE  /\ reads # << >> /\ pc' \in {pc, "fail"} /\ reads' \in {reads, << >>}
         /\ pc' = "fail" => reads' = << >>
         /\ UNCHANGED << attempt, header, codes, window, flushing, at, blk, tok, buf >>
<1>1. /\ reads # << >> /\ reads' = IF pc' = "fail" THEN << >> ELSE reads
      /\ UNCHANGED << attempt, header, codes, window, flushing, at, blk, tok, buf >>
  BY DEF NEEDBITS
<1>2. CASE get_byte(IntoBits)
  <2>1. \E p : IntoBits(p) BY <1>2 DEF get_byte
  <2>2. pc' = pc BY <2>1 DEF IntoBits
  <2> QED BY <1>1, <2>2
<1>3. CASE Fail BY <1>1, <1>3 DEF Fail
<1> QED BY <1>1, <1>2, <1>3 DEF NEEDBITS

LEMMA TrailerFrame ==
  ASSUME ReadTrailer
  PROVE  /\ pc = "trailer" /\ pc' \in {"trailer", "fail"}
         /\ UNCHANGED << attempt, header, codes, window, flushing, b, reads, at, blk, tok >>
<1>1. /\ pc = "trailer"
      /\ UNCHANGED << attempt, header, codes, window, flushing, b, reads, at, blk, tok >>
  BY DEF ReadTrailer
<1>2. CASE get_byte(IntoBuf)
  <2>1. \E p : IntoBuf(p) BY <1>2 DEF get_byte
  <2>2. pc' = pc BY <2>1 DEF IntoBuf
  <2> QED BY <1>1, <2>2
<1>3. CASE Fail BY <1>1, <1>3 DEF Fail
<1> QED BY <1>1, <1>2, <1>3 DEF ReadTrailer

LEMMA DumpFrame ==
  ASSUME DUMPBITS
  PROVE  /\ reads # << >>
         /\ \/ pc' = pc
            \/ pc' \in {"lost", "fail"} /\ reads' = << >>
         /\ UNCHANGED << attempt, input, header, codes, window, flushing, blk, tok, buf >>
BY DEF DUMPBITS

LEMMA DivMod ==
  ASSUME NEW x \in Nat, NEW y \in Nat \ {0}
  PROVE  x \div y \in Nat /\ x % y \in 0 .. y - 1 /\ x = (x \div y) * y + (x % y)
OBVIOUS

LEMMA DivModOf ==
  ASSUME NEW y \in Nat \ {0}, NEW q \in Nat, NEW r \in 0 .. y - 1
  PROVE  (q * y + r) \div y = q /\ (q * y + r) % y = r
OBVIOUS

LEMMA Product == ASSUME NEW x \in Nat, NEW y \in Nat PROVE x * y \in Nat
OBVIOUS

LEMMA ModRange == ASSUME NEW a \in Int, NEW m \in Nat \ {0} PROVE a % m \in 0 .. m - 1
OBVIOUS

LEMMA MaxOfTwo ==
  ASSUME NEW x \in Int, NEW y \in Int
  PROVE  Max({x, y}) \in {x, y} /\ Max({x, y}) >= x /\ Max({x, y}) >= y
<1>1. \E z \in {x, y} : \A u \in {x, y} : z >= u OBVIOUS
<1> QED BY <1>1 DEF Max

LEMMA MinOfTwo ==
  ASSUME NEW x \in Int, NEW y \in Int
  PROVE  Min({x, y}) \in {x, y} /\ Min({x, y}) <= x /\ Min({x, y}) <= y
<1>1. \E z \in {x, y} : \A u \in {x, y} : z <= u OBVIOUS
<1> QED BY <1>1 DEF Min

(* A copy goes on to the end of the window, from or to, or is done. *)
LEMMA CopyStep ==
  ASSUME WindowTypes, Copy
  PROVE  \E from, e \in 0 .. WSIZE : \E next \in {"codes", "copy"} :
            /\ from = d % WSIZE /\ from < WSIZE /\ next = IF n = e THEN "codes" ELSE "copy"
            /\ e <= n /\ w + e <= WSIZE /\ from + e <= WSIZE
            /\ e = n \/ w + e = WSIZE \/ from + e = WSIZE
            /\ slide' = Copied(from, e) /\ w' = w + e /\ d' = from + e /\ n' = n - e /\ n' \in Nat
            /\ IF w + e = WSIZE THEN pc' = "flush" /\ ret' = next /\ outcnt' = WSIZE
                                ELSE pc' = next /\ UNCHANGED << ret, outcnt >>
<1>1. PICK from \in {d % WSIZE} : \E e \in {Min({n, WSIZE - Max({from, w})})} :
        /\ slide' = Copied(from, e)
        /\ w' = w + e
        /\ d' = from + e
        /\ n' = n - e
        /\ \E next \in {IF n = e THEN "codes" ELSE "copy"} :
             IF w + e = WSIZE THEN pc' = "flush" /\ ret' = next /\ outcnt' = WSIZE
                              ELSE pc' = next /\ UNCHANGED << ret, outcnt >>
  BY DEF Copy
<1>2. from = d % WSIZE /\ from \in 0 .. WSIZE - 1 BY <1>1, ModRange DEF WindowTypes
<1>3. pc = "copy" /\ w \in 0 .. WSIZE - 1 /\ n \in Nat BY DEF Copy, WindowTypes, Decoding
<1>4. Max({from, w}) \in {from, w} /\ Max({from, w}) >= from /\ Max({from, w}) >= w
  <2>1. from \in Int /\ w \in Int BY <1>2, <1>3
  <2> QED BY <2>1, MaxOfTwo, Zenon
<1> DEFINE left == WSIZE - Max({from, w})
           e == Min({n, left})
<1>5. left \in 1 .. WSIZE BY <1>2, <1>3, <1>4
<1>6. e \in {n, left} /\ e <= n /\ e <= left
  <2>1. n \in Int /\ left \in Int BY <1>3, <1>5
  <2> QED BY <2>1, MinOfTwo, Zenon
<1>7. e \in 0 .. WSIZE /\ w + e <= WSIZE /\ from + e <= WSIZE
  BY <1>2, <1>3, <1>4, <1>5, <1>6
<1>8. e = n \/ w + e = WSIZE \/ from + e = WSIZE BY <1>2, <1>3, <1>4, <1>6
<1>9. n - e \in Nat BY <1>3, <1>6, <1>7
<1> DEFINE next == IF n = e THEN "codes" ELSE "copy"
<1>10. /\ slide' = Copied(from, e) /\ w' = w + e /\ d' = from + e /\ n' = n - e
       /\ IF w + e = WSIZE THEN pc' = "flush" /\ ret' = next /\ outcnt' = WSIZE
                           ELSE pc' = next /\ UNCHANGED << ret, outcnt >>
  BY <1>1
<1> HIDE DEF e
<1>11. next \in {"codes", "copy"} OBVIOUS
<1>12. from \in 0 .. WSIZE BY <1>2
<1> QED BY <1>2, <1>6, <1>7, <1>8, <1>9, <1>10, <1>11, <1>12


(* The code at hand, when it is one for a copy. *)
LEMMA CopyFacts ==
  ASSUME PlaceTypes, TableTypes, pc = "token", Token.sym > EOB
  PROVE  /\ tok + 1 \in DOMAIN Block.toks
         /\ ~Invalid => /\ CopyLength \in Nat /\ CopyDistance \in Nat
                        /\ Token.sym \in 257 .. 285 /\ Token.dsym < 30
<1>1. tok \in DOMAIN Block.toks BY DEF PlaceTypes, Places, Going, Flushing, Decoding, Asking, Returns
<1>2. TokensSound(Block.toks) BY FileFacts, BlockFacts DEF PlaceTypes, Places, Going, Flushing, Decoding, Asking, Returns
<1>3. /\ Token.sym \in 0 .. 287 /\ Token.ext \in Nat /\ Token.dsym \in Nat /\ Token.dext \in Nat
      /\ Token.sym # EOB => tok + 1 \in DOMAIN Block.toks
  BY <1>1, <1>2, TokenFacts, ZenonT(30) DEF Token
<1>4. Token.sym > 256 BY DEF EOB
<1>5. Token.sym # EOB BY <1>3, <1>4 DEF EOB
<1> DEFINE s == Token.sym - EOB
           t == Token.dsym + 1
<1>6. s \in 1 .. 31 /\ t \in Nat \ {0} BY <1>3, <1>4 DEF EOB
<1>7. CopyLength = cplens[s] + Token.ext /\ CopyDistance = cpdist[t] + Token.dext
  BY DEF CopyLength, CopyDistance
<1>8. ASSUME ~Invalid PROVE cplext[s] # 99 /\ ~(Token.dsym >= Len(dist.lens)) BY <1>8 DEF Invalid
<1>9. Len(dist.lens) \in 0 .. 30
  <2>1. dist.lens \in Seq(0 .. 15) /\ Len(dist.lens) <= 30 BY DEF TableTypes
  <2>2. Len(dist.lens) \in Nat BY <2>1
  <2>3. \A x \in Nat : x <= 30 => x \in 0 .. 30 OBVIOUS
  <2> QED BY <2>1, <2>2, <2>3, Zenon
<1>10. ASSUME ~Invalid
       PROVE  CopyLength \in Nat /\ CopyDistance \in Nat /\ Token.sym \in 257 .. 285 /\ Token.dsym < 30
  <2>1. Token.dsym < 30
    <3>1. \A x \in Nat, y \in 0 .. 30 : x >= y \/ x < 30 OBVIOUS
    <3> QED BY <1>3, <1>8, <1>9, <1>10, <3>1, Zenon
  <2>2. t \in 1 .. 30 BY <1>3, <2>1
  <2>3. cplext[s] # 99 BY <1>8, <1>10
  <2>4. Token.sym = s + 256 BY <1>3 DEF EOB
  <2> HIDE DEF s, t
  <2>5. s \in 1 .. 29 BY <1>6, <2>3, CopyCodes
  <2>6. cplens[s] \in 1 .. 258 BY <2>5, CopyLengths, Zenon
  <2>7. cpdist[t] \in Nat BY <2>2, CopyDistances
  <2> QED BY <1>3, <1>7, <2>1, <2>4, <2>5, <2>6, <2>7
<1> QED BY <1>3, <1>5, <1>10

LEMMA NextPlace == Types /\ [Next]_vars => PlaceTypes'
<1> SUFFICES ASSUME Types, [Next]_vars PROVE PlaceTypes' OBVIOUS
<1> USE DEF Types
<1>1. CASE UNCHANGED vars BY <1>1 DEF vars, attempt, input, header, codes, window, flushing, outputs, PlaceTypes, Places, Going, Flushing, Decoding, Asking, Returns, Block
<1>2. CASE uncompress_kernel BY <1>2, FileFacts, BlockFacts DEF uncompress_kernel, Ready, Fail, Output, FlushDone, EndBlock, Token, attempt, input, header, codes, window, flushing, outputs, PlaceTypes, Places, Going, Flushing, Decoding, Asking, Returns, Block
<1>3. CASE get_method BY <1>3, HeaderFrame DEF attempt, codes, window, flushing, PlaceTypes, Places, Going, Flushing, Decoding, Asking, Returns, Block
<1>4. CASE inflate BY <1>4, FileFacts, BlockFacts DEF inflate, Ready, Fail, Output, FlushDone, EndBlock, Token, attempt, input, header, codes, window, flushing, outputs, PlaceTypes, Places, Going, Flushing, Decoding, Asking, Returns, Block
<1>5. CASE NEEDBITS BY <1>5, NeedFrame DEF attempt, codes, window, flushing, PlaceTypes, Places, Going, Flushing, Decoding, Asking, Returns, Block
<1>6. CASE DUMPBITS BY <1>6, DumpFrame DEF attempt, codes, window, flushing, PlaceTypes, Places, Going, Flushing, Decoding, Asking, Returns, Block
<1>7. CASE inflate_block BY <1>7, FileFacts, BlockFacts DEF inflate_block, Ready, Fail, Output, FlushDone, EndBlock, Token, attempt, input, header, codes, window, flushing, outputs, PlaceTypes, Places, Going, Flushing, Decoding, Asking, Returns, Block
<1>8. CASE BlockType
  <2>1. blk \in 1 .. Len(file.blocks) /\ pc = "type" BY <1>8, FileFacts DEF BlockType, Ready, PlaceTypes, Places, Going, Flushing, Decoding, Asking, Returns
  <2>2. Block.type \in 0 .. 3 /\ (Block.type \in 1 .. 2 => 1 \in DOMAIN Block.toks)
    BY <2>1, BlockFacts, TokenFacts DEF PlaceTypes
  <2>3. file' = file /\ blk' = blk /\ tok' = tok /\ ret' = ret /\ n' = n /\ Block' = Block
    BY <1>8 DEF BlockType, attempt, flushing, window, Block
  <2>4. /\ reads = << >>
        /\ \/ Block.type = 0 /\ pc' = "stored_length"
           \/ Block.type = 1 /\ pc' = "codes" /\ reads' = reads
           \/ Block.type = 2 /\ pc' = "dynamic"
           \/ pc' = "fail" /\ reads' = reads
    <3>1. pc = "type" /\ reads = << >> BY <1>8 DEF BlockType, Ready
    <3>2. CASE Block.type = 0 BY <1>8, <3>1, <3>2 DEF BlockType
    <3>3. CASE Block.type = 1 BY <1>8, <3>1, <3>3 DEF BlockType
    <3>4. CASE Block.type = 2 BY <1>8, <3>1, <3>4 DEF BlockType
    <3>5. CASE Block.type = 3 BY <1>8, <3>1, <3>5 DEF BlockType, Fail
    <3> QED BY <2>2, <3>1, <3>2, <3>3, <3>4, <3>5
  <2> QED BY <2>1, <2>2, <2>3, <2>4 DEF WindowTypes, PlaceTypes, Places, Going, Flushing, Decoding, Asking, Returns
<1>9. CASE StoredLength BY <1>9, FileFacts, BlockFacts DEF StoredLength, Ready, Fail, Output, FlushDone, EndBlock, Token, attempt, input, header, codes, window, flushing, outputs, PlaceTypes, Places, Going, Flushing, Decoding, Asking, Returns, Block
<1>10. CASE inflate_stored BY <1>10, FileFacts, BlockFacts DEF inflate_stored, Ready, Fail, Output, FlushDone, EndBlock, Token, attempt, input, header, codes, window, flushing, outputs, PlaceTypes, Places, Going, Flushing, Decoding, Asking, Returns, Block
<1>11. CASE StoredByte
  <2>1. /\ pc = "stored_byte" /\ reads = << >> /\ reads' = reads /\ n' = n - 1
        /\ file' = file /\ blk' = blk /\ tok' = tok /\ Block' = Block
    BY <1>11 DEF StoredByte, Ready, attempt, Block
  <2>2. pc' = "stored" \/ (pc' = "flush" /\ ret' = "stored") BY <1>11 DEF StoredByte, Output
  <2>3. blk > 0 /\ Block.type = 0 /\ Block.data \in Seq(Byte) /\ n \in 1 .. Len(Block.data)
    BY <2>1, FileFacts, BlockFacts DEF PlaceTypes, Places, Going, Flushing, Decoding, Asking, Returns
  <2> QED BY <2>1, <2>2, <2>3 DEF PlaceTypes, Places, Going, Flushing, Decoding, Asking, Returns
<1>12. CASE inflate_dynamic
  <2>1. /\ pc = "dynamic" /\ reads = << >>
        /\ file' = file /\ blk' = blk /\ tok' = tok /\ ret' = ret /\ n' = n /\ Block' = Block
    BY <1>12 DEF inflate_dynamic, Ready, attempt, flushing, window, Block
  <2>2. Block.type = 2 /\ blk \in 1 .. Len(file.blocks) /\ Block.nl \in Nat /\ Block.nd \in Nat
    BY <2>1, FileFacts, BlockFacts DEF PlaceTypes, Places, Going, Flushing, Decoding, Asking, Returns
  <2>3. \/ pc' = "fail" /\ reads' = reads
        \/ pc' = "tree" /\ Block.nl <= 286 /\ Block.nd <= 30
    BY <1>12, <2>2 DEF inflate_dynamic, Fail
  <2> QED BY <2>1, <2>2, <2>3 DEF PlaceTypes, Places, Going, Flushing, Decoding, Asking, Returns
<1>13. CASE BuildTree BY <1>13, FileFacts, BlockFacts DEF BuildTree, Ready, Fail, Output, FlushDone, EndBlock, Token, attempt, input, header, codes, window, flushing, outputs, PlaceTypes, Places, Going, Flushing, Decoding, Asking, Returns, Block
<1>14. CASE ReadLength BY <1>14, FileFacts, BlockFacts, SMTT(30) DEF ReadLength, Ready, Fail, Output, FlushDone, EndBlock, Token, attempt, input, header, codes, window, flushing, outputs, PlaceTypes, Places, Going, Flushing, Decoding, Asking, Returns, Block
<1>15. CASE LengthRun BY <1>15, FileFacts, BlockFacts DEF LengthRun, Ready, Fail, Output, FlushDone, EndBlock, Token, attempt, input, header, codes, window, flushing, outputs, PlaceTypes, Places, Going, Flushing, Decoding, Asking, Returns, Block
<1>16. CASE BuildCodes
  <2>1. /\ pc = "lengths" /\ reads = << >> /\ reads' = reads /\ pc' \in {"fail", "codes"}
        /\ tok' = 1
        /\ file' = file /\ blk' = blk /\ ret' = ret /\ n' = n /\ Block' = Block
    BY <1>16 DEF BuildCodes, Ready, attempt, flushing, window, Block, Fail
  <2>2. Block.type = 2 /\ blk \in 1 .. Len(file.blocks) /\ 1 \in DOMAIN Block.toks
    BY <2>1, FileFacts, BlockFacts, TokenFacts, SMTT(30) DEF PlaceTypes, Places, Going, Flushing, Decoding, Asking, Returns
  <2> QED BY <2>1, <2>2 DEF WindowTypes, PlaceTypes, Places, Going, Flushing, Decoding, Asking, Returns
<1>17. CASE inflate_codes BY <1>17, FileFacts, BlockFacts DEF inflate_codes, Ready, Fail, Output, FlushDone, EndBlock, Token, attempt, input, header, codes, window, flushing, outputs, PlaceTypes, Places, Going, Flushing, Decoding, Asking, Returns, Block
<1>18. CASE Literal
  <2>1. /\ pc = "token" /\ reads = << >> /\ reads' = reads /\ n' = n
        /\ tok' = tok + 1 /\ Token.sym < EOB
        /\ file' = file /\ blk' = blk /\ Block' = Block
    BY <1>18 DEF Literal, Ready, attempt, Block
  <2>2. pc' = "codes" \/ (pc' = "flush" /\ ret' = "codes") BY <1>18 DEF Literal, Output
  <2>3. blk > 0 /\ Block.type \in 1 .. 2 /\ tok + 1 \in DOMAIN Block.toks
    BY <2>1, FileFacts, BlockFacts, TokenFacts DEF PlaceTypes, Places, Going, Flushing, Decoding, Asking, Returns, Token, EOB
  <2> QED BY <2>1, <2>2, <2>3 DEF PlaceTypes, Places, Going, Flushing, Decoding, Asking, Returns, WindowTypes
<1>19. CASE EndOfBlock BY <1>19, FileFacts, BlockFacts DEF EndOfBlock, Ready, Fail, Output, FlushDone, EndBlock, Token, attempt, input, header, codes, window, flushing, outputs, PlaceTypes, Places, Going, Flushing, Decoding, Asking, Returns, Block
<1>20. CASE StartCopy
  <2>1. /\ pc = "token" /\ reads = << >> /\ reads' = reads
        /\ Token.sym > EOB
        /\ file' = file /\ blk' = blk /\ ret' = ret /\ Block' = Block
    BY <1>20 DEF StartCopy, Ready, attempt, flushing, Block
  <2>2. \/ pc' = "fail"
        \/ pc' = "copy" /\ tok' = tok + 1 /\ n' = CopyLength /\ ~Invalid
    BY <1>20 DEF StartCopy, Fail
  <2>3. blk > 0 /\ Block.type \in 1 .. 2 BY <2>1 DEF PlaceTypes, Places, Going, Flushing, Decoding, Asking, Returns
  <2>4. tok + 1 \in DOMAIN Block.toks /\ (~Invalid => CopyLength \in Nat) BY <2>1, CopyFacts
  <2> QED BY <2>1, <2>2, <2>3, <2>4 DEF PlaceTypes, Places, Going, Flushing, Decoding, Asking, Returns
<1>21. CASE Copy
  <2>1. /\ pc = "copy" /\ reads' = reads /\ tok' = tok
        /\ file' = file /\ blk' = blk /\ Block' = Block
    BY <1>21 DEF Copy, attempt, Block
  <2>2. PICK next \in {"codes", "copy"} :
          pc' = next \/ (pc' = "flush" /\ ret' = next)
    BY <1>21 DEF Copy
  <2>3. n' \in Nat BY <1>21, CopyStep
  <2> QED BY <2>1, <2>2, <2>3 DEF PlaceTypes, Places, Going, Flushing, Decoding, Asking, Returns
<1>22. CASE LostLiteral BY <1>22, FileFacts, BlockFacts DEF LostLiteral, Ready, Fail, Output, FlushDone, EndBlock, Token, attempt, input, header, codes, window, flushing, outputs, PlaceTypes, Places, Going, Flushing, Decoding, Asking, Returns, Block
<1>23. CASE LostEnd BY <1>23, FileFacts, BlockFacts DEF LostEnd, Ready, Fail, Output, FlushDone, EndBlock, Token, attempt, input, header, codes, window, flushing, outputs, PlaceTypes, Places, Going, Flushing, Decoding, Asking, Returns, Block
<1>24. CASE UndoLookahead BY <1>24, FileFacts, BlockFacts DEF UndoLookahead, Ready, Fail, Output, FlushDone, EndBlock, Token, attempt, input, header, codes, window, flushing, outputs, PlaceTypes, Places, Going, Flushing, Decoding, Asking, Returns, Block
<1>25. CASE flush_window BY <1>25, FileFacts, BlockFacts DEF flush_window, Ready, Fail, Output, FlushDone, EndBlock, Token, attempt, input, header, codes, window, flushing, outputs, PlaceTypes, Places, Going, Flushing, Decoding, Asking, Returns, Block
<1>26. CASE CopyChunk BY <1>26, FileFacts, BlockFacts DEF CopyChunk, Ready, Fail, Output, FlushDone, EndBlock, Token, attempt, input, header, codes, window, flushing, outputs, PlaceTypes, Places, Going, Flushing, Decoding, Asking, Returns, Block
<1>27. CASE NoChunkLeft BY <1>27, FileFacts, BlockFacts DEF NoChunkLeft, Ready, Fail, Output, FlushDone, EndBlock, Token, attempt, input, header, codes, window, flushing, outputs, PlaceTypes, Places, Going, Flushing, Decoding, Asking, Returns, Block
<1>28. CASE ReadTrailer BY <1>28, TrailerFrame DEF attempt, codes, window, flushing, PlaceTypes, Places, Going, Flushing, Decoding, Asking, Returns, Block
<1>29. CASE Validate BY <1>29, FileFacts, BlockFacts DEF Validate, Ready, Fail, Output, FlushDone, EndBlock, Token, attempt, input, header, codes, window, flushing, outputs, PlaceTypes, Places, Going, Flushing, Decoding, Asking, Returns, Block
<1> QED BY <1>1, <1>2, <1>3, <1>4, <1>5, <1>6, <1>7, <1>8, <1>9, <1>10, <1>11, <1>12, <1>13, <1>14, <1>15, <1>16, <1>17, <1>18, <1>19, <1>20, <1>21, <1>22, <1>23, <1>24, <1>25, <1>26, <1>27, <1>28, <1>29 DEF Next, Step

(* A step that touches neither tables nor lengths. *)
LEMMA TablesKept ==
  ASSUME TableTypes, codes' = codes,
         \/ pc' \notin {"lengths", "length"}
         \/ pc' = pc /\ file' = file /\ blk' = blk /\ tok' = tok
  PROVE  TableTypes'
<1>1. UNCHANGED << ll, last, dist >> BY DEF codes
<1>2. CASE pc' \notin {"lengths", "length"} BY <1>1, <1>2 DEF TableTypes
<1>3. CASE pc' = pc /\ file' = file /\ blk' = blk /\ tok' = tok
  <2>1. Block' = Block BY <1>3 DEF Block
  <2> QED BY <1>1, <1>3, <2>1 DEF TableTypes
<1> QED BY <1>2, <1>3

(* The lengths of a block whose lengths are read. *)
LEMMA OpsFacts ==
  ASSUME file \in Files, blk \in 1 .. Len(file.blocks), Block.type = 2,
         Block.nl <= 286, Block.nd <= 30
  PROVE  LET ops == Block.ops IN
         /\ Len(ops) \in Nat \ {0} /\ Block.nl + Block.nd \in 0 .. 316
         /\ \A i \in 1 .. Len(ops) : ops[i].j \in 0 .. 18 /\ ops[i].x \in Nat
         /\ ops[1].j # 16
         /\ \A k \in 0 .. Len(ops) - 1 : Len(LengthsAfter(ops, k)) < Block.nl + Block.nd
         /\ Len(LengthsAfter(ops, Len(ops))) >= Block.nl + Block.nd
<1>1. BlockSound(Block) /\ Block.nl \in Nat /\ Block.nd \in Nat BY BlockFacts
<1>2. /\ IsSeq(Block.ops) /\ LengthsSound(Block)
      /\ \A i \in DOMAIN Block.ops : Block.ops[i].j \in 0 .. 18 /\ Block.ops[i].x \in Nat
  BY <1>1 DEF BlockSound
<1>3. Block.ops # << >> BY <1>2 DEF LengthsSound
<1>4. Len(Block.ops) \in Nat \ {0} /\ DOMAIN Block.ops = 1 .. Len(Block.ops)
  BY <1>2, <1>3, IsSeqFacts
<1>5. /\ Block.ops[1].j # 16
      /\ \A k \in 0 .. Len(Block.ops) - 1 : Len(LengthsAfter(Block.ops, k)) < Block.nl + Block.nd
      /\ Len(LengthsAfter(Block.ops, Len(Block.ops))) >= Block.nl + Block.nd
  BY <1>2 DEF LengthsSound, LengthsOf
<1>6. Block.nl + Block.nd \in 0 .. 316
  <2>1. \A x, y \in Nat : x <= 286 /\ y <= 30 => x + y \in 0 .. 316 OBVIOUS
  <2> QED BY <1>1, <2>1, Zenon
<1> QED BY <1>2, <1>4, <1>5, <1>6

LEMMA RunFacts ==
  ASSUME NEW op, op.j \in 0 .. 18, op.x \in Nat, last \in 0 .. 15,
         NEW lens, op.j = 16 => last = Last(lens)
  PROVE  /\ Run(op.j, op.x) = RunAfter(lens, op)
         /\ Run(op.j, op.x) \in Seq(0 .. 15) /\ Len(Run(op.j, op.x)) > 0
         /\ Last(Run(op.j, op.x)) = IF op.j < 16 THEN op.j ELSE IF op.j = 16 THEN last ELSE 0
<1>1. CASE op.j < 16
  <2>1. Run(op.j, op.x) = << op.j >> /\ RunAfter(lens, op) = << op.j >> BY <1>1 DEF Run, RunAfter
  <2> QED BY <1>1, <2>1 DEF Last
<1>2. CASE op.j = 16
  <2> DEFINE r == [i \in 1 .. 3 + op.x |-> last]
  <2>1. Run(op.j, op.x) = r /\ RunAfter(lens, op) = r BY <1>2 DEF Run, RunAfter
  <2>2. r \in Seq(0 .. 15) /\ Len(r) = 3 + op.x
    <3>1. 3 + op.x \in Nat /\ r \in [1 .. 3 + op.x -> 0 .. 15] OBVIOUS
    <3> QED BY <3>1, SMTT(30)
  <2>3. r[Len(r)] = last BY <2>2
  <2> QED BY <1>2, <2>1, <2>2, <2>3 DEF Last
<1>3. CASE op.j = 17
  <2> DEFINE r == [i \in 1 .. 3 + op.x |-> 0]
  <2>1. Run(op.j, op.x) = r /\ RunAfter(lens, op) = r BY <1>3 DEF Run, RunAfter
  <2>2. r \in Seq(0 .. 15) /\ Len(r) = 3 + op.x /\ r[Len(r)] = 0 BY SMTT(30)
  <2> QED BY <1>3, <2>1, <2>2 DEF Last
<1>4. CASE op.j = 18
  <2> DEFINE r == [i \in 1 .. 11 + op.x |-> 0]
  <2>1. Run(op.j, op.x) = r /\ RunAfter(lens, op) = r BY <1>4 DEF Run, RunAfter
  <2>2. r \in Seq(0 .. 15) /\ Len(r) = 11 + op.x /\ r[Len(r)] = 0 BY SMTT(30)
  <2> QED BY <1>4, <2>1, <2>2 DEF Last
<1> QED BY <1>1, <1>2, <1>3, <1>4, SMTT(30)

LEMMA LastOfTwo ==
  ASSUME NEW S, NEW s \in Seq(S), NEW t \in Seq(S), Len(t) > 0
  PROVE  /\ s \o t \in Seq(S) /\ Len(s \o t) = Len(s) + Len(t) /\ s \o t # << >>
         /\ Last(s \o t) = Last(t)
BY DEF Last

LEMMA NextTables == Types /\ [Next]_vars => TableTypes'
<1> SUFFICES ASSUME Types, [Next]_vars PROVE TableTypes' OBVIOUS
<1> USE DEF Types
<1>1. CASE UNCHANGED vars
  <2>1. codes' = codes /\ pc' = pc /\ file' = file /\ blk' = blk /\ tok' = tok
    BY <1>1 DEF vars, attempt
  <2> QED BY <2>1, TablesKept
<1>2. CASE uncompress_kernel
  <2>1. pc' = "header" /\ ll' = << >> /\ last' = 0 /\ dist' = NoTable BY <1>2 DEF uncompress_kernel
  <2>2. << >> \in Seq(0 .. 15) /\ Len(<< >>) = 0 OBVIOUS
  <2> QED BY <2>1, <2>2 DEF TableTypes, NoTable
<1>3. CASE get_method
  <2>1. codes' = codes /\ (pc' \in {"header", "trailer", "lost", "fail"} \/ pc' = pc)
        /\ file' = file /\ blk' = blk /\ tok' = tok
    BY <1>3, HeaderFrame DEF attempt
  <2> QED BY <2>1, TablesKept
<1>4. CASE inflate
  <2>1. codes' = codes /\ pc' \notin {"lengths", "length"}
    BY <1>4 DEF inflate, Ready, Fail, Output, EndBlock
  <2> QED BY <2>1, TablesKept
<1>5. CASE NEEDBITS
  <2>1. codes' = codes /\ (pc' \in {"header", "trailer", "lost", "fail"} \/ pc' = pc)
        /\ file' = file /\ blk' = blk /\ tok' = tok
    BY <1>5, NeedFrame DEF attempt
  <2> QED BY <2>1, TablesKept
<1>6. CASE DUMPBITS
  <2>1. codes' = codes /\ (pc' \in {"header", "trailer", "lost", "fail"} \/ pc' = pc)
        /\ file' = file /\ blk' = blk /\ tok' = tok
    BY <1>6, DumpFrame DEF attempt
  <2> QED BY <2>1, TablesKept
<1>7. CASE inflate_block
  <2>1. codes' = codes /\ pc' \notin {"lengths", "length"}
    BY <1>7 DEF inflate_block, Ready, Fail, Output, EndBlock
  <2> QED BY <2>1, TablesKept
<1>8. CASE BlockType
  <2>1. pc = "type" /\ ll' = ll /\ last' = last BY <1>8 DEF BlockType, Ready
  <2>2. Block.type \in 0 .. 3 BY <2>1, FileFacts, BlockFacts DEF PlaceTypes, Places, Going, Flushing, Decoding, Asking, Returns
  <2>3. \/ dist' = dist /\ pc' \in {"stored_length", "dynamic", "fail"}
        \/ dist' = huft_build(FixedDistances, 5) /\ pc' = "codes"
    <3>1. CASE Block.type = 0 BY <1>8, <3>1 DEF BlockType
    <3>2. CASE Block.type = 1 BY <1>8, <3>2 DEF BlockType
    <3>3. CASE Block.type = 2 BY <1>8, <3>3 DEF BlockType
    <3>4. CASE Block.type = 3 BY <1>8, <3>4 DEF BlockType, Fail
    <3> QED BY <2>2, <3>1, <3>2, <3>3, <3>4
  <2>4. FixedDistances \in Seq(0 .. 15) /\ Len(FixedDistances) = 30 BY DEF FixedDistances
  <2>5. huft_build(FixedDistances, 5).lens = FixedDistances BY DEF huft_build
  <2>6. dist'.lens \in Seq(0 .. 15) /\ Len(dist'.lens) <= 30
    <3>1. CASE dist' = dist BY <3>1 DEF TableTypes
    <3>2. CASE dist' = huft_build(FixedDistances, 5)
      <4>1. dist'.lens = FixedDistances BY <2>5, <3>2
      <4>2. Len(FixedDistances) <= 30 BY <2>4
      <4> QED BY <2>4, <4>1, <4>2, Zenon
    <3> QED BY <2>3, <3>1, <3>2
  <2>7. pc' \notin {"lengths", "length"} BY <2>3
  <2> QED BY <2>1, <2>6, <2>7 DEF TableTypes
<1>9. CASE StoredLength
  <2>1. codes' = codes /\ pc' \notin {"lengths", "length"}
    BY <1>9 DEF StoredLength, Ready, Fail, Output, EndBlock
  <2> QED BY <2>1, TablesKept
<1>10. CASE inflate_stored
  <2>1. codes' = codes /\ pc' \notin {"lengths", "length"}
    BY <1>10 DEF inflate_stored, Ready, Fail, Output, EndBlock
  <2> QED BY <2>1, TablesKept
<1>11. CASE StoredByte
  <2>1. codes' = codes /\ pc' \notin {"lengths", "length"}
    BY <1>11 DEF StoredByte, Ready, Fail, Output, EndBlock
  <2> QED BY <2>1, TablesKept
<1>12. CASE inflate_dynamic
  <2>1. codes' = codes /\ pc' \notin {"lengths", "length"}
    BY <1>12 DEF inflate_dynamic, Ready, Fail, Output, EndBlock
  <2> QED BY <2>1, TablesKept
<1>13. CASE BuildTree
  <2>1. /\ pc = "tree" /\ ll' = << >> /\ last' = 0 /\ dist' = dist /\ tok' = tok
        /\ file' = file /\ blk' = blk /\ Block' = Block /\ pc' \in {"fail", "lengths"}
    BY <1>13 DEF BuildTree, Ready, attempt, Fail, Block
  <2>2. tok = 1 BY <2>1 DEF PlaceTypes
  <2>3. Len(Block.ops) \in Nat /\ LengthsAfter(Block.ops, 0) = << >>
    <3>1. blk \in 1 .. Len(file.blocks) /\ Block.type = 2 /\ Block.nl <= 286 /\ Block.nd <= 30 /\ file \in Files
      BY <2>1, FileFacts DEF PlaceTypes, Places, Going, Flushing, Decoding, Asking, Returns
    <3>2. Len(Block.ops) \in Nat BY <3>1, OpsFacts
    <3> QED BY <3>2, LengthsStep
  <2>4. << >> \in Seq(0 .. 15) /\ Len(<< >>) = 0 OBVIOUS
  <2> QED BY <2>1, <2>2, <2>3, <2>4 DEF TableTypes
<1>14. CASE ReadLength
  <2>1. /\ pc = "lengths" /\ pc' = "length" /\ ll' = ll /\ last' = last /\ dist' = dist
        /\ file' = file /\ blk' = blk /\ tok' = tok /\ Block' = Block
        /\ Len(ll) < Block.nl + Block.nd
    BY <1>14 DEF ReadLength, Ready, attempt, codes, Block
  <2>2. /\ Len(Block.ops) \in Nat \ {0} /\ Block.nl + Block.nd \in 0 .. 316
        /\ Len(LengthsAfter(Block.ops, Len(Block.ops))) >= Block.nl + Block.nd
    <3>1. blk \in 1 .. Len(file.blocks) /\ Block.type = 2 /\ Block.nl <= 286 /\ Block.nd <= 30 /\ file \in Files
      BY <2>1, FileFacts DEF PlaceTypes, Places, Going, Flushing, Decoding, Asking, Returns
    <3> QED BY <3>1, OpsFacts
  <2>3. tok \in 1 .. Len(Block.ops) + 1 /\ ll = LengthsAfter(Block.ops, tok - 1)
    BY <2>1 DEF TableTypes
  <2>4. tok # Len(Block.ops) + 1
    <3>1. SUFFICES ASSUME tok = Len(Block.ops) + 1 PROVE FALSE OBVIOUS
    <3>2. tok - 1 = Len(Block.ops) BY <2>2, <3>1
    <3>3. Len(ll) >= Block.nl + Block.nd BY <2>2, <2>3, <3>2
    <3>4. Len(ll) \in Nat BY DEF TableTypes
    <3>5. \A x \in Nat, y \in 0 .. 316 : ~(x < y /\ x >= y) OBVIOUS
    <3> QED BY <2>1, <2>2, <3>3, <3>4, <3>5, Zenon
  <2>5. tok \in 1 .. Len(Block.ops) BY <2>2, <2>3, <2>4
  <2> QED BY <2>1, <2>3, <2>5 DEF TableTypes
<1>15. CASE LengthRun
  <2> DEFINE op == Block.ops[tok]
             run == Run(op.j, op.x)
  <2>1. /\ pc = "length" /\ dist' = dist /\ tok' = tok + 1
        /\ file' = file /\ blk' = blk /\ Block' = Block
    BY <1>15 DEF LengthRun, Ready, attempt, Block
  <2>3. tok \in 1 .. Len(Block.ops) /\ ll = LengthsAfter(Block.ops, tok - 1)
    BY <2>1 DEF TableTypes
  <2>4. /\ Len(Block.ops) \in Nat \ {0} /\ Block.nl + Block.nd \in 0 .. 316
        /\ op.j \in 0 .. 18 /\ op.x \in Nat
        /\ Block.ops[1].j # 16
    <3>1. blk \in 1 .. Len(file.blocks) /\ Block.type = 2 /\ Block.nl <= 286 /\ Block.nd <= 30 /\ file \in Files
      BY <2>1, FileFacts DEF PlaceTypes, Places, Going, Flushing, Decoding, Asking, Returns
    <3> QED BY <2>3, <3>1, OpsFacts
  <2>5. /\ run = RunAfter(ll, op) /\ run \in Seq(0 .. 15) /\ Len(run) > 0
        /\ Last(run) = IF op.j < 16 THEN op.j ELSE IF op.j = 16 THEN last ELSE 0
    <3>1. op.j = 16 => last = Last(ll)
      <4>1. op.j = 16 => tok # 1 BY <2>4
      <4> QED BY <2>1, <4>1 DEF TableTypes
    <3>2. last \in 0 .. 15 BY DEF TableTypes
    <3> HIDE DEF op
    <3> QED BY <2>4, <3>1, <3>2, RunFacts
  <2>6. \/ pc' = "fail" /\ UNCHANGED << ll, last >>
        \/ /\ pc' = "lengths" /\ Len(ll) + Len(run) <= Block.nl + Block.nd
           /\ ll' = ll \o run /\ last' = IF op.j < 16 THEN op.j ELSE IF op.j = 16 THEN last ELSE 0
    <3>1. PICK j \in {op.j}, r \in {run} :
            IF Len(ll) + Len(r) > Block.nl + Block.nd
            THEN Fail /\ UNCHANGED << ll, last >>
            ELSE /\ ll' = ll \o r
                 /\ last' = IF j < 16 THEN j ELSE IF j = 16 THEN last ELSE 0
                 /\ pc' = "lengths"
      BY <1>15 DEF LengthRun
    <3>2. CASE Len(ll) + Len(run) > Block.nl + Block.nd BY <3>1, <3>2 DEF Fail
    <3>3. CASE ~(Len(ll) + Len(run) > Block.nl + Block.nd)
      <4>1. Len(ll) + Len(run) <= Block.nl + Block.nd
        <5>1. Len(ll) \in Nat /\ Len(run) \in Nat BY <2>5 DEF TableTypes
        <5>2. \A x, y \in Nat, z \in 0 .. 316 : x + y > z \/ x + y <= z OBVIOUS
        <5> HIDE DEF run
        <5> QED BY <2>4, <3>3, <5>1, <5>2, Zenon
      <4> HIDE DEF run, op
      <4> QED BY <3>1, <3>3, <4>1
    <3> QED BY <3>2, <3>3
  <2>7. CASE pc' = "fail" /\ UNCHANGED << ll, last >> BY <2>1, <2>7 DEF TableTypes
  <2> DEFINE lens == ll \o run
  <2>8. CASE /\ pc' = "lengths" /\ Len(ll) + Len(run) <= Block.nl + Block.nd
             /\ ll' = lens /\ last' = IF op.j < 16 THEN op.j ELSE IF op.j = 16 THEN last ELSE 0
    <3>1. lens \in Seq(0 .. 15) /\ Len(lens) = Len(ll) + Len(run) /\ lens # << >> /\ Last(lens) = Last(run)
      <4> HIDE DEF run
      <4> QED BY <2>5, LastOfTwo DEF TableTypes
    <3>2. Len(lens) <= 316
      <4>1. Len(ll) \in Nat /\ Len(run) \in Nat BY <2>5 DEF TableTypes
      <4>2. \A x, y \in Nat, z \in 0 .. 316 : x + y <= z => x + y <= 316 OBVIOUS
      <4>3. Len(ll) + Len(run) <= 316
        <5> HIDE DEF run
        <5> QED BY <2>4, <2>8, <4>1, <4>2, Zenon
      <4> HIDE DEF lens, run
      <4> QED BY <3>1, <4>3
    <3>3. last' = Last(lens) /\ last' \in 0 .. 15
      <4>1. last' = Last(lens)
        <5> HIDE DEF lens, run, op
        <5> QED BY <2>5, <2>8, <3>1
      <4>2. last \in 0 .. 15 BY DEF TableTypes
      <4>3. op.j \in Nat /\ (op.j < 16 => op.j \in 0 .. 15)
        <5>1. \A j \in 0 .. 18 : j \in Nat /\ (j < 16 => j \in 0 .. 15) OBVIOUS
        <5> HIDE DEF op
        <5> QED BY <2>4, <5>1, Zenon
      <4> HIDE DEF op
      <4> QED BY <2>8, <4>1, <4>2, <4>3
    <3>4. LengthsAfter(Block.ops, tok) = lens
      BY <2>3, <2>4, <2>5, LengthsStep, Zenon DEF LengthsNext
    <3>5. tok' - 1 = tok /\ tok' \in 1 .. Len(Block.ops) + 1 BY <2>1, <2>3, <2>4
    <3> HIDE DEF lens
    <3> QED BY <2>1, <2>8, <3>1, <3>2, <3>3, <3>4, <3>5, SMTT(30) DEF TableTypes
  <2> QED BY <2>6, <2>7, <2>8, SMTT(30)
<1>16. CASE BuildCodes
  <2>1. /\ pc = "lengths" /\ Len(ll) = Block.nl + Block.nd /\ pc' \in {"fail", "codes"}
        /\ ll' = ll /\ last' = last
        /\ dist' = huft_build(SubSeq(ll, Block.nl + 1, Len(ll)), dbits)
    BY <1>16 DEF BuildCodes, Ready, Fail
  <2>2. Block.nl \in Nat /\ Block.nd \in Nat /\ Block.nd <= 30
    BY <2>1, FileFacts, BlockFacts DEF PlaceTypes, Places, Going, Flushing, Decoding, Asking, Returns
  <2> DEFINE ds == SubSeq(ll, Block.nl + 1, Len(ll))
  <2>3. ds \in Seq(0 .. 15) /\ Len(ds) = Block.nd
    <3>1. ll \in Seq(0 .. 15) BY DEF TableTypes
    <3>2. PICK nl \in Nat, nd \in Nat : nl = Block.nl /\ nd = Block.nd BY <2>2
    <3>3. Len(ll) = nl + nd BY <2>1, <3>2
    <3>4. SubSeq(ll, nl + 1, Len(ll)) \in Seq(0 .. 15) /\ Len(SubSeq(ll, nl + 1, Len(ll))) = nd
      BY <3>1, <3>3
    <3> QED BY <3>2, <3>4
  <2>4. dist'.lens = ds BY <2>1 DEF huft_build
  <2> HIDE DEF ds
  <2> QED BY <2>1, <2>2, <2>3, <2>4 DEF TableTypes
<1>17. CASE inflate_codes
  <2>1. codes' = codes /\ pc' \notin {"lengths", "length"}
    BY <1>17 DEF inflate_codes, Ready, Fail, Output, EndBlock
  <2> QED BY <2>1, TablesKept
<1>18. CASE Literal
  <2>1. codes' = codes /\ pc' \notin {"lengths", "length"}
    BY <1>18 DEF Literal, Ready, Fail, Output, EndBlock
  <2> QED BY <2>1, TablesKept
<1>19. CASE EndOfBlock
  <2>1. codes' = codes /\ pc' \notin {"lengths", "length"}
    BY <1>19 DEF EndOfBlock, Ready, Fail, Output, EndBlock
  <2> QED BY <2>1, TablesKept
<1>20. CASE StartCopy
  <2>1. codes' = codes /\ pc' \notin {"lengths", "length"}
    BY <1>20 DEF StartCopy, Ready, Fail, Output, EndBlock
  <2> QED BY <2>1, TablesKept
<1>21. CASE Copy
  <2>1. codes' = codes /\ pc' \notin {"lengths", "length"}
    BY <1>21 DEF Copy, Ready, Fail, Output, EndBlock
  <2> QED BY <2>1, TablesKept
<1>22. CASE LostLiteral
  <2>1. codes' = codes /\ pc' \notin {"lengths", "length"}
    BY <1>22 DEF LostLiteral, Ready, Fail, Output, EndBlock
  <2> QED BY <2>1, TablesKept
<1>23. CASE LostEnd
  <2>1. codes' = codes /\ pc' \notin {"lengths", "length"}
    BY <1>23 DEF LostEnd, Ready, Fail, Output, EndBlock
  <2> QED BY <2>1, TablesKept
<1>24. CASE UndoLookahead
  <2>1. codes' = codes /\ pc' \notin {"lengths", "length"}
    BY <1>24 DEF UndoLookahead, Ready, Fail, Output, EndBlock
  <2> QED BY <2>1, TablesKept
<1>25. CASE flush_window
  <2>1. codes' = codes /\ pc' \in Returns \cup {"chunks", "fail"}
    BY <1>25 DEF flush_window, Ready, FlushDone, Fail, PlaceTypes, Places, Going, Flushing, Decoding, Asking, Returns
  <2> QED BY <2>1, TablesKept DEF Returns
<1>26. CASE CopyChunk
  <2>1. codes' = codes /\ pc' \in Returns \cup {"chunks", "fail"}
    BY <1>26 DEF CopyChunk, Ready, FlushDone, Fail, PlaceTypes, Places, Going, Flushing, Decoding, Asking, Returns
  <2> QED BY <2>1, TablesKept DEF Returns
<1>27. CASE NoChunkLeft
  <2>1. codes' = codes /\ pc' \in Returns \cup {"chunks", "fail"}
    BY <1>27 DEF NoChunkLeft, Ready, FlushDone, Fail, PlaceTypes, Places, Going, Flushing, Decoding, Asking, Returns
  <2> QED BY <2>1, TablesKept DEF Returns
<1>28. CASE ReadTrailer
  <2>1. codes' = codes /\ (pc' \in {"header", "trailer", "lost", "fail"} \/ pc' = pc)
        /\ file' = file /\ blk' = blk /\ tok' = tok
    BY <1>28, TrailerFrame DEF attempt
  <2> QED BY <2>1, TablesKept
<1>29. CASE Validate
  <2>1. codes' = codes /\ pc' \notin {"lengths", "length"}
    BY <1>29 DEF Validate, Ready, Fail, Output, EndBlock
  <2> QED BY <2>1, TablesKept
<1> QED BY <1>1, <1>2, <1>3, <1>4, <1>5, <1>6, <1>7, <1>8, <1>9, <1>10, <1>11, <1>12, <1>13, <1>14, <1>15, <1>16, <1>17, <1>18, <1>19, <1>20, <1>21, <1>22, <1>23, <1>24, <1>25, <1>26, <1>27, <1>28, <1>29 DEF Next, Step

(* A step that leaves the window alone. *)
LEMMA WindowKept ==
  ASSUME WindowTypes, window' = window, pc' \notin Flushing, pc' \in Decoding => pc \in Decoding
  PROVE  WindowTypes'
<1>1. UNCHANGED << slide, w, n, d >> BY DEF window
<1> QED BY <1>1 DEF WindowTypes, Flushing

LEMMA OutputTypes ==
  ASSUME WindowTypes, pc \in Decoding, NEW v \in Bytes, NEW next \in Returns \ {"trailer"},
         Output(v, next), n' \in Nat, d' = d
  PROVE  WindowTypes'
<1>1. w \in 0 .. WSIZE - 1 BY DEF WindowTypes
<1>2. slide' = [slide EXCEPT ![w] = v] /\ w' = w + 1 BY DEF Output
<1>3. slide' \in [0 .. WSIZE - 1 -> Bytes] BY <1>1, <1>2 DEF WindowTypes
<1>4. w' \in 0 .. WSIZE BY <1>1, <1>2
<1>5. \/ w' = WSIZE /\ pc' = "flush" /\ ret' = next /\ outcnt' = w'
      \/ w' < WSIZE /\ pc' = next
  BY <1>1, <1>2 DEF Output
<1>6. pc' \in Flushing => pc' = "flush" /\ w' = WSIZE /\ outcnt' = w' BY <1>5 DEF Flushing, Returns
<1>7. pc' \in Decoding => w' < WSIZE BY <1>5 DEF Decoding, Asking
<1>8. n' \in Nat /\ d' \in 0 .. WSIZE BY DEF WindowTypes
<1> QED BY <1>3, <1>4, <1>6, <1>7, <1>8 DEF WindowTypes, Flushing

(* Bytes copied come from inside the window. *)
LEMMA CopiedTypes ==
  ASSUME WindowTypes, NEW from \in 0 .. WSIZE - 1, NEW e \in 0 .. WSIZE,
         w + e <= WSIZE, from + e <= WSIZE
  PROVE  Copied(from, e) \in [0 .. WSIZE - 1 -> Bytes]
<1>1. DOMAIN slide = 0 .. WSIZE - 1 /\ w \in 0 .. WSIZE /\ \A i \in 0 .. WSIZE - 1 : slide[i] \in Bytes
  BY DEF WindowTypes
<1>2. ASSUME NEW i \in 0 .. WSIZE - 1 PROVE Copied(from, e)[i] \in Bytes
  <2>1. CASE i \notin w .. w + e - 1 BY <1>1, <2>1 DEF Copied
  <2>2. CASE i \in w .. w + e - 1
    <3>1. i - w \in 0 .. e - 1 BY <1>1, <2>2
    <3>2. CASE from > w \/ w - from >= e
      <4>1. from + i - w \in 0 .. WSIZE - 1 BY <1>1, <3>1
      <4> QED BY <1>1, <2>2, <3>2, <4>1 DEF Copied
    <3>3. CASE from = w
      <4>1. ~(from > w \/ w - from >= e) BY <1>1, <2>2, <3>3
      <4> QED BY <1>1, <2>2, <3>3, <4>1 DEF Copied
    <3>4. CASE from < w /\ w - from < e
      <4>1. w - from \in Nat \ {0} /\ w - from <= e - 1 /\ i - w \in Int BY <1>1, <3>1, <3>4
      <4>2. (i - w) % (w - from) \in 0 .. w - from - 1 BY <4>1, ModRange
      <4>3. from + ((i - w) % (w - from)) \in 0 .. WSIZE - 1 BY <1>1, <3>4, <4>1, <4>2
      <4>4. ~(from > w \/ w - from >= e) /\ from # w BY <1>1, <3>4
      <4> QED BY <1>1, <2>2, <4>3, <4>4 DEF Copied
    <3> QED BY <1>1, <3>2, <3>3, <3>4
  <2> QED BY <2>1, <2>2
<1>3. Copied(from, e) = [i \in 0 .. WSIZE - 1 |-> Copied(from, e)[i]] BY <1>1 DEF Copied
<1> QED BY <1>2, <1>3

LEMMA NextWindow == Types /\ [Next]_vars => WindowTypes'
<1> SUFFICES ASSUME Types, [Next]_vars PROVE WindowTypes' OBVIOUS
<1> USE DEF Types
<1>1. CASE UNCHANGED vars
  <2>1. UNCHANGED << slide, w, n, d, pc, ret, outcnt >> BY <1>1 DEF vars, window, flushing
  <2> QED BY <2>1 DEF WindowTypes
<1>2. CASE uncompress_kernel
  <2>1. slide' = [i \in 0 .. WSIZE - 1 |-> -1] /\ w' = 0 /\ n' = 0 /\ d' = 0 /\ pc' = "header"
    BY <1>2 DEF uncompress_kernel
  <2> QED BY <2>1 DEF WindowTypes, Bytes, Flushing, Decoding, Asking
<1>3. CASE get_method
  <2>1. window' = window /\ pc' \notin Flushing /\ (pc' \in Decoding => pc \in Decoding)
    BY <1>3, HeaderFrame DEF PlaceTypes, Places, Going, Flushing, Decoding, Asking, Returns
  <2> QED BY <2>1, WindowKept
<1>4. CASE inflate
  <2>1. UNCHANGED << slide, n, d >> /\ ((pc' = "fail" /\ w' = w) \/ (pc' = "block" /\ w' = 0))
    BY <1>4 DEF inflate, Fail
  <2> QED BY <2>1 DEF WindowTypes, Flushing, Decoding, Asking
<1>5. CASE NEEDBITS
  <2>1. window' = window /\ pc' \notin Flushing /\ (pc' \in Decoding => pc \in Decoding)
    BY <1>5, NeedFrame DEF PlaceTypes, Places, Going, Flushing, Decoding, Asking, Returns
  <2> QED BY <2>1, WindowKept
<1>6. CASE DUMPBITS
  <2>1. window' = window /\ pc' \notin Flushing /\ (pc' \in Decoding => pc \in Decoding)
    BY <1>6, DumpFrame DEF PlaceTypes, Places, Going, Flushing, Decoding, Asking, Returns
  <2> QED BY <2>1, WindowKept
<1>7. CASE inflate_block
  <2>1. window' = window /\ pc' \notin Flushing /\ (pc' \in Decoding => pc \in Decoding)
    BY <1>7 DEF inflate_block, Ready, Fail, EndBlock, Places, Going, Flushing, Decoding, Asking, Returns
  <2> QED BY <2>1, WindowKept
<1>8. CASE BlockType
  <2>1. window' = window /\ pc' \notin Flushing /\ (pc' \in Decoding => pc \in Decoding)
    BY <1>8 DEF BlockType, Ready, Fail, EndBlock, Places, Going, Flushing, Decoding, Asking, Returns
  <2> QED BY <2>1, WindowKept
<1>9. CASE StoredLength
  <2>1. UNCHANGED << slide, w, d >> /\ pc = "stored_length" /\ pc' \in {"stored", "fail"}
    BY <1>9 DEF StoredLength, Ready, Fail
  <2>2. n' \in Nat
    <3>1. n' = Len(Block.data) BY <1>9 DEF StoredLength
    <3>2. Block.data \in Seq(Byte) BY <2>1, FileFacts, BlockFacts DEF PlaceTypes, Places, Going, Flushing, Decoding, Asking, Returns
    <3> QED BY <3>1, <3>2
  <2> QED BY <2>1, <2>2 DEF WindowTypes, Flushing, Decoding, Asking
<1>10. CASE inflate_stored
  <2>1. window' = window /\ pc' \notin Flushing /\ (pc' \in Decoding => pc \in Decoding)
    BY <1>10 DEF inflate_stored, Ready, Fail, EndBlock, Places, Going, Flushing, Decoding, Asking, Returns
  <2> QED BY <2>1, WindowKept
<1>11. CASE StoredByte
  <2> DEFINE v == Block.data[Len(Block.data) - n + 1]
  <2>1. /\ Output(v, "stored")
        /\ n' = n - 1 /\ d' = d /\ pc = "stored_byte"
    BY <1>11 DEF StoredByte, Ready
  <2>2. Block.data \in Seq(Byte) /\ n \in 0 .. Len(Block.data) /\ n # 0
    BY <2>1, FileFacts, BlockFacts DEF PlaceTypes, Places, Going, Flushing, Decoding, Asking, Returns
  <2>3. n' \in Nat BY <2>1, <2>2
  <2>4. v \in Bytes
    <3>1. Len(Block.data) - n + 1 \in 1 .. Len(Block.data) BY <2>2
    <3>2. v \in Byte BY <2>2, <3>1
    <3> QED BY <3>2 DEF Byte, Bytes
  <2>5. pc \in Decoding /\ "stored" \in Returns \ {"trailer"} BY <2>1 DEF Decoding, Asking, Returns
  <2> HIDE DEF v
  <2> QED BY <2>1, <2>3, <2>4, <2>5, OutputTypes
<1>12. CASE inflate_dynamic
  <2>1. window' = window /\ pc' \notin Flushing /\ (pc' \in Decoding => pc \in Decoding)
    BY <1>12 DEF inflate_dynamic, Ready, Fail, EndBlock, Places, Going, Flushing, Decoding, Asking, Returns
  <2> QED BY <2>1, WindowKept
<1>13. CASE BuildTree
  <2>1. window' = window /\ pc' \notin Flushing /\ (pc' \in Decoding => pc \in Decoding)
    BY <1>13 DEF BuildTree, Ready, Fail, EndBlock, Places, Going, Flushing, Decoding, Asking, Returns
  <2> QED BY <2>1, WindowKept
<1>14. CASE ReadLength
  <2>1. window' = window /\ pc' \notin Flushing /\ (pc' \in Decoding => pc \in Decoding)
    BY <1>14 DEF ReadLength, Ready, Fail, EndBlock, Places, Going, Flushing, Decoding, Asking, Returns
  <2> QED BY <2>1, WindowKept
<1>15. CASE LengthRun
  <2>1. window' = window /\ pc' \notin Flushing /\ (pc' \in Decoding => pc \in Decoding)
    BY <1>15 DEF LengthRun, Ready, Fail, EndBlock, Places, Going, Flushing, Decoding, Asking, Returns
  <2> QED BY <2>1, WindowKept
<1>16. CASE BuildCodes
  <2>1. window' = window /\ pc' \notin Flushing /\ (pc' \in Decoding => pc \in Decoding)
    BY <1>16 DEF BuildCodes, Ready, Fail, EndBlock, Places, Going, Flushing, Decoding, Asking, Returns
  <2> QED BY <2>1, WindowKept
<1>17. CASE inflate_codes
  <2>1. window' = window /\ pc' \notin Flushing /\ (pc' \in Decoding => pc \in Decoding)
    BY <1>17 DEF inflate_codes, Ready, Fail, EndBlock, Places, Going, Flushing, Decoding, Asking, Returns
  <2> QED BY <2>1, WindowKept
<1>18. CASE Literal
  <2>1. Output(Token.sym, "codes") /\ n' = n /\ d' = d /\ pc = "token" /\ Token.sym < EOB
    BY <1>18 DEF Literal, Ready
  <2>2. Token.sym \in 0 .. 287
    <3>1. tok \in DOMAIN Block.toks BY <2>1 DEF PlaceTypes, Places, Going, Flushing, Decoding, Asking, Returns
    <3>2. TokensSound(Block.toks) BY <2>1, FileFacts, BlockFacts DEF PlaceTypes, Places, Going, Flushing, Decoding, Asking, Returns
    <3> QED BY <3>1, <3>2, TokenFacts, Zenon DEF Token
  <2>3. Token.sym \in Bytes
    <3>1. \A x \in 0 .. 287 : x < 256 => x \in Bytes BY DEF Bytes
    <3> QED BY <2>1, <2>2, <3>1, Zenon DEF EOB
  <2>4. n' \in Nat BY <2>1 DEF WindowTypes
  <2>5. pc \in Decoding /\ "codes" \in Returns \ {"trailer"} BY <2>1 DEF Decoding, Asking, Returns
  <2> QED BY <2>1, <2>3, <2>4, <2>5, OutputTypes
<1>19. CASE EndOfBlock
  <2>1. window' = window /\ pc' \notin Flushing /\ (pc' \in Decoding => pc \in Decoding)
    BY <1>19 DEF EndOfBlock, Ready, Fail, EndBlock, Places, Going, Flushing, Decoding, Asking, Returns
  <2> QED BY <2>1, WindowKept
<1>20. CASE StartCopy
  <2>1. UNCHANGED << slide, w >> /\ pc = "token" /\ Token.sym > EOB
    BY <1>20 DEF StartCopy, Ready
  <2>2. \/ pc' = "fail" /\ UNCHANGED << n, d >>
        \/ pc' = "copy" /\ n' = CopyLength /\ d' = (w - CopyDistance) % WSIZE /\ ~Invalid
    BY <1>20 DEF StartCopy, Fail
  <2>3. CASE pc' = "fail" /\ UNCHANGED << n, d >>
    BY <2>1, <2>3 DEF WindowTypes, Flushing, Decoding, Asking
  <2>4. CASE pc' = "copy" /\ n' = CopyLength /\ d' = (w - CopyDistance) % WSIZE /\ ~Invalid
    <3>1. CopyLength \in Nat /\ CopyDistance \in Nat BY <2>1, <2>4, CopyFacts
    <3>2. w \in 0 .. WSIZE - 1 BY <2>1 DEF WindowTypes, Decoding, Asking
    <3>3. d' \in 0 .. WSIZE - 1
      <4>1. w - CopyDistance \in Int BY <3>1, <3>2
      <4> QED BY <2>4, <4>1, ModRange
    <3> QED BY <2>1, <2>4, <3>1, <3>2, <3>3 DEF WindowTypes, Flushing
  <2> QED BY <2>2, <2>3, <2>4
<1>21. CASE Copy
  <2>1. PICK from, e \in 0 .. WSIZE : \E next \in {"codes", "copy"} :
          /\ from < WSIZE /\ w + e <= WSIZE /\ from + e <= WSIZE
          /\ slide' = Copied(from, e) /\ w' = w + e /\ d' = from + e /\ n' \in Nat
          /\ IF w + e = WSIZE THEN pc' = "flush" /\ ret' = next /\ outcnt' = WSIZE
                              ELSE pc' = next /\ UNCHANGED << ret, outcnt >>
    BY <1>21, CopyStep
  <2>2. from \in 0 .. WSIZE - 1 BY <2>1
  <2>3. slide' \in [0 .. WSIZE - 1 -> Bytes] BY <2>1, <2>2, CopiedTypes
  <2>4. w' \in 0 .. WSIZE /\ d' \in 0 .. WSIZE
    <3>1. w \in 0 .. WSIZE - 1 BY <1>21 DEF Copy, WindowTypes, Decoding
    <3> QED BY <2>1, <3>1
  <2>5. CASE w + e = WSIZE BY <2>1, <2>3, <2>4, <2>5 DEF WindowTypes, Flushing, Decoding, Asking
  <2>6. CASE w + e # WSIZE
    <3>1. w' < WSIZE BY <2>1, <2>4, <2>6
    <3> QED BY <2>1, <2>3, <2>4, <2>6, <3>1 DEF WindowTypes, Flushing
  <2> QED BY <2>5, <2>6
<1>22. CASE LostLiteral
  <2>1. n' = n /\ d' = d /\ pc = "lost" BY <1>22 DEF LostLiteral
  <2>2. CASE Len(b) < 8
    <3>1. UNCHANGED << slide, w, pc >> BY <1>22, <2>2 DEF LostLiteral
    <3> QED BY <2>1, <3>1 DEF WindowTypes, Flushing
  <2>3. CASE ~(Len(b) < 8)
    <3>1. Output(-1, "lost") BY <1>22, <2>3 DEF LostLiteral
    <3>2. pc \in Decoding /\ "lost" \in Returns \ {"trailer"} /\ -1 \in Bytes /\ n' \in Nat
      BY <2>1 DEF Decoding, Asking, Returns, Bytes, WindowTypes
    <3> QED BY <2>1, <3>1, <3>2, OutputTypes
  <2> QED BY <2>2, <2>3
<1>23. CASE LostEnd
  <2>1. window' = window /\ pc' \notin Flushing /\ (pc' \in Decoding => pc \in Decoding)
    BY <1>23 DEF LostEnd, Ready, Fail, EndBlock, Places, Going, Flushing, Decoding, Asking, Returns
  <2> QED BY <2>1, WindowKept
<1>24. CASE UndoLookahead
  <2>1. window' = window /\ outcnt' = w /\ pc' = "flush" /\ ret' = "trailer"
    BY <1>24 DEF UndoLookahead
  <2>2. UNCHANGED << slide, w, n, d >> BY <2>1 DEF window
  <2> QED BY <2>1, <2>2 DEF WindowTypes, Decoding, Asking
<1>25. CASE flush_window
  <2>1. /\ UNCHANGED << slide, n, d, ret >> /\ pc \in Flushing
        /\ \/ pc' = ret /\ w' = 0
           \/ pc' = "fail" /\ w' = w
           \/ pc' = "chunks" /\ w' = w
    BY <1>25 DEF flush_window, Ready, FlushDone, Fail, Flushing
  <2>2. ret \in Returns BY <2>1 DEF PlaceTypes
  <2> QED BY <2>1, <2>2 DEF WindowTypes, Flushing, Decoding, Asking, Returns
<1>26. CASE CopyChunk
  <2>1. /\ UNCHANGED << slide, n, d, ret >> /\ pc \in Flushing
        /\ \/ pc' = ret /\ w' = 0
           \/ pc' = "fail" /\ w' = w
           \/ pc' = "chunks" /\ w' = w
    BY <1>26 DEF CopyChunk, Ready, FlushDone, Fail, Flushing
  <2>2. ret \in Returns BY <2>1 DEF PlaceTypes
  <2> QED BY <2>1, <2>2 DEF WindowTypes, Flushing, Decoding, Asking, Returns
<1>27. CASE NoChunkLeft
  <2>1. /\ UNCHANGED << slide, n, d, ret >> /\ pc \in Flushing
        /\ \/ pc' = ret /\ w' = 0
           \/ pc' = "fail" /\ w' = w
           \/ pc' = "chunks" /\ w' = w
    BY <1>27 DEF NoChunkLeft, Ready, FlushDone, Fail, Flushing
  <2>2. ret \in Returns BY <2>1 DEF PlaceTypes
  <2> QED BY <2>1, <2>2 DEF WindowTypes, Flushing, Decoding, Asking, Returns
<1>28. CASE ReadTrailer
  <2>1. window' = window /\ pc' \notin Flushing /\ (pc' \in Decoding => pc \in Decoding)
    BY <1>28, TrailerFrame DEF PlaceTypes, Places, Going, Flushing, Decoding, Asking, Returns
  <2> QED BY <2>1, WindowKept
<1>29. CASE Validate
  <2>1. window' = window /\ pc' \notin Flushing /\ (pc' \in Decoding => pc \in Decoding)
    BY <1>29 DEF Validate, Ready, Fail, EndBlock, Places, Going, Flushing, Decoding, Asking, Returns
  <2> QED BY <2>1, WindowKept
<1> QED BY <1>1, <1>2, <1>3, <1>4, <1>5, <1>6, <1>7, <1>8, <1>9, <1>10, <1>11, <1>12, <1>13, <1>14, <1>15, <1>16, <1>17, <1>18, <1>19, <1>20, <1>21, <1>22, <1>23, <1>24, <1>25, <1>26, <1>27, <1>28, <1>29 DEF Next, Step

LEMMA NextTypes == Types /\ [Next]_vars => Types'
BY NextPlace, NextTables, NextWindow DEF Types
-----------------------------------------------------------------------------
(*** flush_window ***)

(* A window begins where a number of whole windows have been put out. *)
Whole(x) == x % WSIZE = 0

LEMMA WholeFacts ==
  /\ Whole(0)
  /\ \A x \in Nat : Whole(x) => Whole(x + WSIZE)
  /\ \A x \in Nat, k \in 0 .. WSIZE - 1 : Whole(x) => (x + k) % WSIZE = k
<1>1. ASSUME NEW x \in Nat, NEW k \in 0 .. WSIZE - 1, Whole(x) PROVE (x + k) % WSIZE = k
  <2> DEFINE q == x \div WSIZE
  <2>1. q \in Nat /\ x = q * WSIZE + (x % WSIZE) BY DivMod
  <2>2. x = q * WSIZE + 0 BY <1>1, <2>1 DEF Whole
  <2> HIDE DEF q
  <2>3. (q * WSIZE + k) % WSIZE = k BY <2>1, DivModOf
  <2>4. q * WSIZE \in Nat BY <2>1, Product
  <2>5. x + k = q * WSIZE + k BY <2>2, <2>4
  <2> QED BY <2>3, <2>5
<1>2. ASSUME NEW x \in Nat, Whole(x) PROVE Whole(x + WSIZE)
  <2> DEFINE q == x \div WSIZE
  <2>1. q \in Nat /\ x = q * WSIZE + (x % WSIZE) BY DivMod
  <2>2. x = q * WSIZE + 0 BY <1>2, <2>1 DEF Whole
  <2> HIDE DEF q
  <2>3. q + 1 \in Nat /\ 0 \in 0 .. WSIZE - 1 BY <2>1
  <2>4. ((q + 1) * WSIZE + 0) % WSIZE = 0 BY <2>3, DivModOf
  <2>5. (q + 1) * WSIZE = q * WSIZE + WSIZE BY <2>1
  <2>6. q * WSIZE \in Nat BY <2>1, Product
  <2>7. x + WSIZE = (q + 1) * WSIZE + 0 BY <2>2, <2>5, <2>6
  <2> QED BY <2>4, <2>7 DEF Whole
<1>3. Whole(0)
  <2>1. (0 * WSIZE + 0) % WSIZE = 0 BY DivModOf
  <2> QED BY <2>1 DEF Whole
<1> QED BY <1>1, <1>2, <1>3

(* The end of a segment in the file. *)
EndOf(c) == c.offset + c.size

(* What of the segments lies before file_offset is in memory. *)
Loaded ==
  \A s \in DOMAIN Image.chunks : LET c == Image.chunks[s] IN
    \A i \in 0 .. c.size - 1 :
      c.offset + i < file_offset => mem[c.addr + i] = crc[c.offset + i + 1]

(* Segments before chunk are done with and the next one is not, and, until  *)
(* all are, file_offset is where the rest of the window begins in the file. *)
Running == pc \notin {"idle", "fail", "header"}
SegmentsInv ==
  /\ crc \in Seq(Bytes) /\ Len(crc) = bytes_out
  /\ chunk \in 0 .. Len(Image.chunks)
  /\ bytes_out = 0 => chunk = 0 /\ file_offset = 0
  /\ bytes_out # 0 => /\ chunks = Image.chunks /\ Image.fits
                      /\ \A s \in DOMAIN Image.chunks : Image.chunks[s] \in touched
  /\ file_offset <= bytes_out
  /\ chunk < Len(Image.chunks) => file_offset <= EndOf(Image.chunks[chunk + 1])
  /\ chunk # 0 => EndOf(Image.chunks[chunk]) <= file_offset
  /\ EndsApart(Image.chunks) => Loaded
ChunksInv ==
  /\ bytes_out # 0 /\ w <= bytes_out /\ outcnt \in 1 .. w /\ Whole(bytes_out - w)
  /\ chunk < Len(Image.chunks) => file_offset + outcnt = bytes_out
  /\ chunk < Len(Image.chunks) /\ EndsApart(Image.chunks) => outcnt = w
  /\ \A i \in 0 .. w - 1 : crc[bytes_out - w + i + 1] = slide[i]

FlushInv ==
  /\ bytes_out \in Nat /\ file_offset \in Nat /\ bss_size \in Nat
  /\ chunk \in 0 .. Len(chunks)
  /\ DOMAIN mem = 0 .. MemTop
  /\ pc = "header" => bytes_out = 0 /\ chunk = 0 /\ file_offset = 0
  /\ Running => SegmentsInv
  /\ Running /\ pc \notin {"chunks", "trailer", "ok"} => Whole(bytes_out)
  /\ Running /\ pc # "chunks" /\ chunk < Len(Image.chunks) => file_offset = bytes_out
  /\ pc = "chunks" => ChunksInv
-----------------------------------------------------------------------------
LEMMA ImageFacts ==
  ASSUME file \in Files
  PROVE  LET cs == Image.chunks IN
         /\ Image.bss \in Nat /\ Image.hdr \in Nat
         /\ Len(cs) \in Nat /\ DOMAIN cs = 1 .. Len(cs)
         /\ \A s \in 1 .. Len(cs) :
              /\ cs[s].addr \in Nat /\ cs[s].offset \in Nat /\ cs[s].size \in Nat
              /\ EndOf(cs[s]) <= Len(file.out)
              /\ Image.fits => cs[s].addr + cs[s].size <= MemTop + 1
         /\ \A s, t \in 1 .. Len(cs) : s < t =>
              EndOf(cs[s]) <= cs[t].offset /\ cs[s].addr + cs[s].size <= cs[t].addr
<1>1. ImageSound(Image, file.out) BY FileFacts DEF FileSound, Image
<1>2. Image.bss \in Nat /\ Image.hdr \in Nat /\ IsSeq(Image.chunks) BY <1>1 DEF ImageSound
<1>3. Len(Image.chunks) \in Nat /\ DOMAIN Image.chunks = 1 .. Len(Image.chunks) BY <1>2, IsSeqFacts
<1> QED BY <1>1, <1>2, <1>3 DEF ImageSound, EndOf

LEMMA InitFlush == Init => FlushInv
<1> SUFFICES ASSUME Init PROVE FlushInv OBVIOUS
<1>1. Len(<< >>) = 0 OBVIOUS
<1> QED BY <1>1 DEF Init, FlushInv, Running

(* A step that leaves what flush_window works on alone. *)
LEMMA FlushKept ==
  ASSUME FlushInv, outputs' = outputs, file' = file,
         \/ pc' = "fail"
         \/ pc = "header" /\ pc' = "header"
         \/ /\ Running /\ pc # "chunks" /\ pc' \notin {"idle", "fail", "header", "chunks"}
            /\ pc \in {"trailer", "ok"} => pc' \in {"trailer", "ok"}
  PROVE  FlushInv'
<1>1. UNCHANGED << bytes_out, crc, chunk, chunks, file_offset, bss_size, touched, mem >> BY DEF outputs
<1>2. Image' = Image BY DEF Image
<1>3. SegmentsInv => SegmentsInv' BY <1>1, <1>2 DEF SegmentsInv, Loaded
<1>4. pc' # "chunks" BY DEF Running
<1>5. Running' => Running \/ pc' = "header" BY DEF Running
<1> QED BY <1>1, <1>2, <1>3, <1>4, <1>5 DEF FlushInv, Running

(* What flush_window puts out is what is in the window. *)
LEMMA FlushedFacts ==
  ASSUME WindowTypes, outcnt = w
  PROVE  /\ Flushed \in Seq(Bytes) /\ Len(Flushed) = w
         /\ \A i \in 0 .. w - 1 : Flushed[i + 1] = slide[i]
<1> DEFINE all == [i \in 1 .. WSIZE |-> slide[i - 1]]
<1>1. slide \in [0 .. WSIZE - 1 -> Bytes] /\ w \in 0 .. WSIZE BY DEF WindowTypes
<1>2. all \in Seq(Bytes) /\ Len(all) = WSIZE
  <2>1. all \in [1 .. WSIZE -> Bytes] BY <1>1
  <2> QED BY <2>1
<1>3. \A i \in 0 .. w - 1 : all[i + 1] = slide[i] BY <1>1
<1>4. Flushed = SubSeq(all, 1, w) BY DEF Flushed
<1> HIDE DEF all
<1>5. SubSeq(all, 1, w) \in Seq(Bytes) /\ Len(SubSeq(all, 1, w)) = w BY <1>1, <1>2
<1>6. \A i \in 0 .. w - 1 : SubSeq(all, 1, w)[i + 1] = all[i + 1] BY <1>1, <1>2
<1> QED BY <1>3, <1>4, <1>5, <1>6

LEMMA ConcatFacts ==
  ASSUME NEW S, NEW s \in Seq(S), NEW t \in Seq(S)
  PROVE  /\ s \o t \in Seq(S) /\ Len(s \o t) = Len(s) + Len(t)
         /\ \A i \in 1 .. Len(s) : (s \o t)[i] = s[i]
         /\ \A i \in 1 .. Len(t) : (s \o t)[Len(s) + i] = t[i]
OBVIOUS

(* The first window of a kernel, and any other. *)
LEMMA FlushStep ==
  ASSUME Types, FlushInv, flush_window, outcnt # 0, pc' = "chunks"
  PROVE  FlushInv'
<1>1. /\ pc = "flush" /\ file' = file /\ crc' = crc \o Flushed /\ w' = w /\ slide' = slide
      /\ bytes_out' = bytes_out + outcnt /\ outcnt' = outcnt /\ chunk' = chunk
      /\ file_offset' = file_offset /\ mem' = mem
      /\ bytes_out = 0 => /\ chunks' = Image.chunks /\ bss_size' = bss_size + Image.bss
                          /\ touched' = touched \cup ToSet(Image.chunks) /\ Image.fits
      /\ bytes_out # 0 => UNCHANGED << chunks, bss_size, touched >>
  BY DEF flush_window, Ready, Fail, attempt, is_loadable_elf
<1>2. /\ outcnt = w /\ w \in 1 .. WSIZE /\ file \in Files /\ Image' = Image
      /\ Running /\ Running'
  BY <1>1 DEF Types, WindowTypes, PlaceTypes, Image, Running
<1>3. /\ SegmentsInv /\ Whole(bytes_out) /\ bytes_out \in Nat /\ file_offset \in Nat /\ bss_size \in Nat
      /\ chunk < Len(Image.chunks) => file_offset = bytes_out
  BY <1>1, <1>2 DEF FlushInv
<1>4. Flushed \in Seq(Bytes) /\ Len(Flushed) = w /\ \A i \in 0 .. w - 1 : Flushed[i + 1] = slide[i]
  BY <1>2, FlushedFacts DEF Types
<1>5. crc \in Seq(Bytes) /\ Len(crc) = bytes_out BY <1>3 DEF SegmentsInv
<1>6. /\ crc' \in Seq(Bytes) /\ Len(crc') = bytes_out'
      /\ \A i \in 1 .. bytes_out : crc'[i] = crc[i]
      /\ \A i \in 1 .. w : crc'[bytes_out + i] = Flushed[i]
  <2>1. /\ crc \o Flushed \in Seq(Bytes) /\ Len(crc \o Flushed) = Len(crc) + Len(Flushed)
        /\ \A i \in 1 .. Len(crc) : (crc \o Flushed)[i] = crc[i]
        /\ \A i \in 1 .. Len(Flushed) : (crc \o Flushed)[Len(crc) + i] = Flushed[i]
    <3>1. crc \in Seq(Bytes) /\ Flushed \in Seq(Bytes) BY <1>4, <1>5
    <3> QED BY <3>1
  <2> QED BY <1>1, <1>2, <1>4, <1>5, <2>1
<1>7. /\ chunks' = Image.chunks /\ Image.fits /\ \A s \in DOMAIN Image.chunks : Image.chunks[s] \in touched'
      /\ bss_size' \in Nat
  <2>1. CASE bytes_out = 0
    <3>1. Image.bss \in Nat BY <1>2, ImageFacts
    <3>2. \A s \in DOMAIN Image.chunks : Image.chunks[s] \in ToSet(Image.chunks) BY DEF ToSet
    <3> QED BY <1>1, <1>3, <2>1, <3>1, <3>2
  <2>2. CASE bytes_out # 0 BY <1>1, <1>3, <2>2 DEF SegmentsInv
  <2> QED BY <2>1, <2>2
<1>8. bytes_out' \in Nat \ {0} /\ file_offset' <= bytes_out' /\ bytes_out' - w = bytes_out
      /\ w <= bytes_out' /\ file_offset <= bytes_out
  BY <1>1, <1>2, <1>3 DEF SegmentsInv
<1>9. EndsApart(Image.chunks) => Loaded'
  <2> SUFFICES ASSUME EndsApart(Image.chunks), NEW s \in DOMAIN Image.chunks,
                      NEW i \in 0 .. Image.chunks[s].size - 1, Image.chunks[s].offset + i < file_offset
               PROVE  mem[Image.chunks[s].addr + i] = crc'[Image.chunks[s].offset + i + 1]
    BY <1>1, <1>2 DEF Loaded
  <2>1. mem[Image.chunks[s].addr + i] = crc[Image.chunks[s].offset + i + 1]
    BY <1>3 DEF SegmentsInv, Loaded
  <2>2. Image.chunks[s].offset \in Nat BY <1>2, ImageFacts
  <2>3. \A o \in Nat, j \in Nat : o + j < file_offset => o + j + 1 \in 1 .. bytes_out BY <1>3, <1>8
  <2>4. Image.chunks[s].offset + i + 1 \in 1 .. bytes_out BY <2>2, <2>3
  <2> QED BY <1>6, <2>1, <2>4
<1>10. SegmentsInv'
  BY <1>1, <1>2, <1>3, <1>6, <1>7, <1>8, <1>9 DEF SegmentsInv
<1>11. ChunksInv'
  <2>1. \A i \in 0 .. w - 1 : crc'[bytes_out + i + 1] = slide[i]
    <3> TAKE i \in 0 .. w - 1
    <3>1. i + 1 \in 1 .. w /\ bytes_out + (i + 1) = bytes_out + i + 1 BY <1>2, <1>3
    <3> QED BY <1>4, <1>6, <3>1
  <2>2. bytes_out' - w' = bytes_out BY <1>1, <1>8
  <2>3. \A i \in 0 .. w' - 1 : crc'[bytes_out' - w' + i + 1] = slide'[i] BY <1>1, <2>1, <2>2
  <2>4. /\ bytes_out' # 0 /\ w' <= bytes_out' /\ outcnt' \in 1 .. w' /\ Whole(bytes_out' - w')
        /\ chunk' < Len(Image'.chunks) => file_offset' + outcnt' = bytes_out'
        /\ outcnt' = w'
    BY <1>1, <1>2, <1>3, <1>8, <2>2
  <2> QED BY <2>3, <2>4 DEF ChunksInv
<1>12. chunk' \in 0 .. Len(chunks') BY <1>1, <1>3, <1>7 DEF SegmentsInv
<1> QED BY <1>1, <1>2, <1>3, <1>7, <1>8, <1>10, <1>11, <1>12 DEF FlushInv

(* A step over a window: the segment begins behind it, or k bytes of the    *)
(* window go to the segment, from its beginning or from the window's.       *)
Skipped(o) ==
  /\ o >= bytes_out /\ file_offset' = bytes_out
  /\ FlushDone /\ mem' = mem /\ outcnt' = outcnt /\ chunk' = chunk
Moved(o, z, dest, src, k) ==
  /\ o < bytes_out /\ k \in 0 .. outcnt /\ file_offset + k <= o + z
  /\ mem' = [i \in DOMAIN mem |-> IF i \in dest .. dest + k - 1 THEN InWindow(src + i - dest) ELSE mem[i]]
  /\ file_offset' = file_offset + k
  /\ \/ /\ k < outcnt /\ file_offset + k = o + z
        /\ outcnt' = outcnt - k /\ chunk' = chunk + 1 /\ pc' = pc /\ w' = w
     \/ k = outcnt /\ FlushDone /\ outcnt' = outcnt /\ chunk' = chunk

LEMMA ChunkStep ==
  ASSUME Types, FlushInv, CopyChunk,
         NEW o \in Nat, NEW z \in Nat, NEW a \in Nat,
         o = Image.chunks[chunk + 1].offset, z = Image.chunks[chunk + 1].size,
         a = Image.chunks[chunk + 1].addr
  PROVE  \/ Skipped(o)
         \/ \E k \in Nat :
              \/ o >= file_offset /\ Moved(o, z, a, o - file_offset, k)
              \/ o < file_offset /\ Moved(o, z, a + (file_offset - o), 0, k)
<1> DEFINE c == chunks[chunk + 1]
           offset == file_offset - o
           src == Source(offset)
           dest == Destination(c, offset)
           k == Min({o + z - file_offset, outcnt})
<1>1. /\ pc = "chunks" /\ chunk < Len(chunks) /\ Running BY DEF CopyChunk, Running
<1>2. /\ SegmentsInv /\ ChunksInv /\ chunks = Image.chunks
      /\ file_offset \in Nat /\ bytes_out \in Nat
  BY <1>1 DEF FlushInv, SegmentsInv, ChunksInv
<1>3. c.offset = o /\ c.size = z /\ c.addr = a BY <1>2
<1>4. /\ outcnt \in Nat \ {0} /\ file_offset + outcnt = bytes_out /\ file_offset <= o + z
  <2>1. outcnt \in Nat \ {0} BY <1>2 DEF ChunksInv, Types, WindowTypes
  <2> QED BY <1>1, <1>2, <2>1 DEF ChunksInv, SegmentsInv, EndOf
<1>5. IF src >= outcnt
      THEN /\ file_offset' = file_offset + outcnt
           /\ FlushDone
           /\ UNCHANGED << mem, outcnt, chunk >>
      ELSE /\ mem' = [i \in DOMAIN mem |-> IF i \in dest .. dest + k - 1
                                          THEN InWindow(src + i - dest) ELSE mem[i]]
           /\ file_offset' = file_offset + k
           /\ IF k < outcnt
              THEN /\ outcnt' = outcnt - k
                   /\ chunk' = NextChunk
                   /\ UNCHANGED << pc, w >>
              ELSE FlushDone /\ UNCHANGED << outcnt, chunk >>
  BY <1>3, Zenon DEF CopyChunk
<1>6. k \in {o + z - file_offset, outcnt} /\ k <= o + z - file_offset /\ k <= outcnt
  <2>1. o + z - file_offset \in Int /\ outcnt \in Int BY <1>2, <1>4
  <2> QED BY <2>1, MinOfTwo, Zenon
<1>7. k \in 0 .. outcnt /\ file_offset + k <= o + z /\ (k # outcnt => file_offset + k = o + z)
  <2> HIDE DEF k
  <2> QED BY <1>2, <1>4, <1>6
<1>8. CASE src >= outcnt
  <2>1. o - file_offset >= outcnt BY <1>2, <1>4, <1>8 DEF Source
  <2>2. o >= bytes_out BY <1>2, <1>4, <2>1
  <2> QED BY <1>4, <1>5, <1>8, <2>2 DEF Skipped
<1>9. CASE ~(src >= outcnt)
  <2>1. o < bytes_out BY <1>2, <1>4, <1>9 DEF Source
  <2>2. /\ mem' = [i \in DOMAIN mem |-> IF i \in dest .. dest + k - 1
                                       THEN InWindow(src + i - dest) ELSE mem[i]]
        /\ file_offset' = file_offset + k
    BY <1>5, <1>9
  <2>3. \/ /\ k < outcnt /\ file_offset + k = o + z
           /\ outcnt' = outcnt - k /\ chunk' = chunk + 1 /\ pc' = pc /\ w' = w
        \/ k = outcnt /\ FlushDone /\ outcnt' = outcnt /\ chunk' = chunk
    <3> HIDE DEF k, src, dest, c
    <3>1. CASE k < outcnt BY <1>4, <1>5, <1>7, <1>9, <3>1 DEF NextChunk
    <3>2. CASE ~(k < outcnt)
      <4>1. k = outcnt BY <1>4, <1>7, <3>2
      <4> QED BY <1>5, <1>9, <3>2, <4>1
    <3> QED BY <3>1, <3>2
  <2>4. Moved(o, z, dest, src, k)
    <3> HIDE DEF k, src, dest, c
    <3> QED BY <1>7, <2>1, <2>2, <2>3 DEF Moved
  <2>5. k \in Nat BY <1>4, <1>7
  <2>6. CASE o > file_offset
    <3>1. offset < 0 BY <1>2, <2>6
    <3>2. src = o - file_offset /\ dest = a BY <1>2, <1>3, <3>1 DEF Source, Destination
    <3> HIDE DEF k, src, dest, c
    <3> QED BY <1>2, <2>4, <2>5, <2>6, <3>2
  <2>7. CASE o = file_offset
    <3>1. offset = 0 BY <1>2, <2>7
    <3>2. src = o - file_offset /\ dest = a BY <1>2, <1>3, <2>7, <3>1 DEF Source, Destination
    <3> HIDE DEF k, src, dest, c
    <3> QED BY <1>2, <2>4, <2>5, <2>7, <3>2
  <2>8. CASE o < file_offset
    <3>1. offset > 0 BY <1>2, <2>8
    <3>2. src = 0 /\ dest = a + (file_offset - o) BY <1>2, <1>3, <3>1 DEF Source, Destination
    <3> HIDE DEF k, src, dest, c
    <3> QED BY <2>4, <2>5, <2>8, <3>2
  <2> QED BY <1>2, <2>6, <2>7, <2>8
<1> QED BY <1>8, <1>9

(* Where the segments lie about the one at hand. *)
LEMMA SegmentOrder ==
  ASSUME file \in Files, SegmentsInv, file_offset \in Nat, chunk < Len(Image.chunks),
         NEW o \in Nat, NEW z \in Nat, NEW a \in Nat,
         o = Image.chunks[chunk + 1].offset, z = Image.chunks[chunk + 1].size,
         a = Image.chunks[chunk + 1].addr
  PROVE  LET cs == Image.chunks IN
         /\ chunk + 1 \in 1 .. Len(cs)
         /\ \A s \in 1 .. Len(cs) :
              /\ s \in Int /\ cs[s].addr \in Nat /\ cs[s].offset \in Nat /\ cs[s].size \in Nat
              /\ s <= chunk => /\ cs[s].offset + cs[s].size <= file_offset
                               /\ cs[s].addr + cs[s].size <= a
              /\ s > chunk + 1 => o + z <= cs[s].offset
<1> DEFINE cs == Image.chunks
<1>1. Len(cs) \in Nat /\ chunk \in 0 .. Len(cs) BY ImageFacts DEF SegmentsInv
<1>2. chunk + 1 \in 1 .. Len(cs) BY <1>1
<1>3. ASSUME NEW s \in 1 .. Len(cs)
      PROVE  /\ s \in Int /\ cs[s].addr \in Nat /\ cs[s].offset \in Nat /\ cs[s].size \in Nat
             /\ s <= chunk => /\ cs[s].offset + cs[s].size <= file_offset
                              /\ cs[s].addr + cs[s].size <= a
             /\ s > chunk + 1 => o + z <= cs[s].offset
  <2>1. s \in Int /\ cs[s].addr \in Nat /\ cs[s].offset \in Nat /\ cs[s].size \in Nat
    BY <1>1, ImageFacts
  <2>2. ASSUME s > chunk + 1 PROVE o + z <= cs[s].offset
    <3>1. EndOf(cs[chunk + 1]) <= cs[s].offset BY <1>2, <2>2, ImageFacts
    <3> QED BY <3>1 DEF EndOf
  <2>3. ASSUME s <= chunk PROVE cs[s].addr + cs[s].size <= a
    <3>1. s < chunk + 1 BY <1>1, <2>3
    <3>2. cs[s].addr + cs[s].size <= cs[chunk + 1].addr BY <1>2, <3>1, ImageFacts
    <3> QED BY <3>2
  <2>4. ASSUME s <= chunk PROVE cs[s].offset + cs[s].size <= file_offset
    <3>1. chunk \in 1 .. Len(cs) /\ chunk # 0 BY <1>1, <2>4
    <3>2. EndOf(cs[chunk]) <= file_offset BY <3>1 DEF SegmentsInv
    <3>3. CASE s = chunk BY <3>2, <3>3 DEF EndOf
    <3>4. CASE s # chunk
      <4>1. s < chunk BY <1>1, <2>4, <3>4
      <4>2. EndOf(cs[s]) <= cs[chunk].offset BY <3>1, <4>1, ImageFacts
      <4>3. cs[chunk].offset \in Nat /\ cs[chunk].size \in Nat BY <3>1, ImageFacts
      <4>4. PICK x \in Nat, y \in Nat, u \in Nat, v \in Nat :
              x = cs[s].offset /\ y = cs[s].size /\ u = cs[chunk].offset /\ v = cs[chunk].size
        BY <2>1, <4>3
      <4>5. x + y <= u /\ u + v <= file_offset BY <3>2, <4>2, <4>4 DEF EndOf
      <4>6. x + y <= file_offset BY <4>5
      <4> QED BY <4>4, <4>6
    <3> QED BY <3>3, <3>4
  <2> QED BY <2>1, <2>2, <2>3, <2>4
<1> QED BY <1>2, <1>3

(* After a step the bytes before file_offset are in memory. *)
LEMMA LoadedStep ==
  ASSUME Types, FlushInv, CopyChunk, EndsApart(Image.chunks), chunk < Len(Image.chunks)
  PROVE  Loaded'
<1> DEFINE cs == Image.chunks
<1>1. /\ pc = "chunks" /\ Running /\ SegmentsInv /\ ChunksInv /\ file \in Files
      /\ file_offset \in Nat /\ bytes_out \in Nat /\ DOMAIN mem = 0 .. MemTop /\ Loaded
  BY DEF CopyChunk, Running, FlushInv, Types, PlaceTypes, SegmentsInv
<1>2. crc' = crc /\ Image' = Image BY DEF CopyChunk, attempt, Image
<1>3. chunk + 1 \in 1 .. Len(cs) BY <1>1, ImageFacts DEF SegmentsInv
<1>4. PICK o \in Nat, z \in Nat, a \in Nat :
        o = cs[chunk + 1].offset /\ z = cs[chunk + 1].size /\ a = cs[chunk + 1].addr
  BY <1>1, <1>3, ImageFacts
<1>5. /\ outcnt = w /\ w \in 1 .. WSIZE /\ file_offset = bytes_out - w
      /\ Image.fits /\ slide \in [0 .. WSIZE - 1 -> Bytes]
  <2>1. outcnt = w /\ outcnt \in 1 .. w /\ file_offset + outcnt = bytes_out /\ w \in 0 .. WSIZE
    BY <1>1 DEF ChunksInv, Types, WindowTypes
  <2>2. Image.fits /\ slide \in [0 .. WSIZE - 1 -> Bytes]
    BY <1>1 DEF ChunksInv, SegmentsInv, Types, WindowTypes
  <2> QED BY <1>1, <2>1, <2>2
<1>6. \A i \in 0 .. w - 1 : InWindow(i) = crc[file_offset + i + 1]
  <2> TAKE i \in 0 .. w - 1
  <2>1. crc[bytes_out - w + i + 1] = slide[i] BY <1>1 DEF ChunksInv
  <2>2. InWindow(i) = slide[i] BY <1>5 DEF InWindow
  <2> QED BY <1>5, <2>1, <2>2
<1> SUFFICES ASSUME NEW s \in 1 .. Len(cs), NEW i \in 0 .. cs[s].size - 1, cs[s].offset + i < file_offset'
             PROVE  mem'[cs[s].addr + i] = crc[cs[s].offset + i + 1]
  BY <1>1, <1>2, ImageFacts DEF Loaded
<1>7. PICK ad \in Nat, of \in Nat, sz \in Nat : ad = cs[s].addr /\ of = cs[s].offset /\ sz = cs[s].size
  BY <1>1, ImageFacts
<1>8. /\ s \in Int /\ (s <= chunk => of + sz <= file_offset /\ ad + sz <= a)
      /\ (s > chunk + 1 => o + z <= of) /\ chunk \in Nat
  <2>1. chunk \in Nat /\ s \in Int BY <1>1, ImageFacts DEF SegmentsInv
  <2>2. /\ s <= chunk => /\ cs[s].offset + cs[s].size <= file_offset
                         /\ cs[s].addr + cs[s].size <= a
        /\ s > chunk + 1 => o + z <= cs[s].offset
    BY <1>1, <1>4, SegmentOrder
  <2> QED BY <1>7, <2>1, <2>2
<1>9. i \in Nat /\ i < sz /\ of + i < file_offset' BY <1>7
<1>10. ad + i \in DOMAIN mem
  <2>1. ad + sz <= MemTop + 1 BY <1>1, <1>5, <1>7, ImageFacts
  <2> QED BY <1>1, <1>9, <2>1
<1>11. of + i < file_offset => mem[ad + i] = crc[of + i + 1]
  BY <1>1, <1>7, <1>9, ImageFacts DEF Loaded
<1>12. s <= chunk \/ s = chunk + 1 \/ s > chunk + 1 BY <1>8
<1>13. s = chunk + 1 => of = o /\ sz = z /\ ad = a BY <1>4, <1>7
<1> HIDE DEF cs
<1>14. CASE Skipped(o)
  <2>1. mem' = mem /\ file_offset' = bytes_out /\ o >= bytes_out BY <1>14 DEF Skipped
  <2>2. of + i < file_offset BY <1>1, <1>8, <1>9, <1>12, <1>13, <2>1
  <2> QED BY <1>7, <1>11, <2>1, <2>2
<1>15. ASSUME NEW k \in Nat, NEW dest \in Nat, NEW src \in Nat, Moved(o, z, dest, src, k),
              \/ o >= file_offset /\ dest = a /\ src = o - file_offset
              \/ o < file_offset /\ dest = a + (file_offset - o) /\ src = 0
       PROVE  mem'[ad + i] = crc[of + i + 1]
  <2>1. /\ file_offset' = file_offset + k /\ k <= w /\ file_offset + k <= o + z
        /\ mem' = [j \in DOMAIN mem |-> IF j \in dest .. dest + k - 1 THEN InWindow(src + j - dest) ELSE mem[j]]
    BY <1>5, <1>15 DEF Moved
  <2>2. mem'[ad + i] = IF ad + i \in dest .. dest + k - 1 THEN InWindow(src + (ad + i) - dest) ELSE mem[ad + i]
    BY <1>10, <2>1
  <2>3. CASE s <= chunk
    <3>1. ad + i < dest BY <1>1, <1>8, <1>9, <1>15, <2>3
    <3>2. of + i < file_offset BY <1>8, <1>9, <1>1, <2>3
    <3> QED BY <1>9, <1>11, <2>2, <3>1, <3>2
  <2>4. CASE s = chunk + 1
    <3>1. CASE o + i < file_offset
      <4>1. ad + i < dest BY <1>1, <1>9, <1>13, <1>15, <2>4, <3>1, SMTT(30)
      <4> QED BY <1>9, <1>11, <1>13, <2>2, <2>4, <3>1, <4>1
    <3>2. CASE o + i >= file_offset
      <4> DEFINE j == o + i - file_offset
      <4>1. ad + i \in dest .. dest + k - 1 BY <1>1, <1>9, <1>13, <1>15, <2>1, <2>4, <3>2
      <4>2. src + (ad + i) - dest = j
        <5>1. of = o /\ ad = a BY <1>13, <2>4
        <5>2. CASE dest = a /\ src = o - file_offset BY <1>1, <1>9, <5>1, <5>2
        <5>3. CASE dest = a + (file_offset - o) /\ src = 0 BY <1>1, <1>9, <5>1, <5>3
        <5> QED BY <1>15, <5>2, <5>3
      <4>3. j \in 0 .. w - 1 BY <1>1, <1>5, <1>9, <1>13, <2>1, <2>4, <3>2
      <4>4. file_offset + j + 1 = of + i + 1 BY <1>1, <1>9, <1>13, <2>4
      <4> HIDE DEF j
      <4>5. InWindow(j) = crc[file_offset + j + 1] BY <1>6, <4>3
      <4> QED BY <2>2, <4>1, <4>2, <4>4, <4>5
    <3> QED BY <1>1, <1>9, <3>1, <3>2
  <2>5. CASE s > chunk + 1 BY <1>1, <1>8, <1>9, <2>1, <2>5
  <2> QED BY <1>12, <2>3, <2>4, <2>5
<1>16. \/ Skipped(o)
       \/ \E k \in Nat :
            \/ o >= file_offset /\ Moved(o, z, a, o - file_offset, k)
            \/ o < file_offset /\ Moved(o, z, a + (file_offset - o), 0, k)
  BY <1>4, ChunkStep DEF cs
<1>17. CASE \E k \in Nat :
              \/ o >= file_offset /\ Moved(o, z, a, o - file_offset, k)
              \/ o < file_offset /\ Moved(o, z, a + (file_offset - o), 0, k)
  <2>1. PICK k \in Nat : \/ o >= file_offset /\ Moved(o, z, a, o - file_offset, k)
                         \/ o < file_offset /\ Moved(o, z, a + (file_offset - o), 0, k)
    BY <1>17
  <2>2. CASE o >= file_offset /\ Moved(o, z, a, o - file_offset, k)
    <3>1. o - file_offset \in Nat BY <1>1, <2>2
    <3> QED BY <1>7, <1>15, <2>2, <3>1
  <2>3. CASE o < file_offset /\ Moved(o, z, a + (file_offset - o), 0, k)
    <3>1. a + (file_offset - o) \in Nat BY <1>1, <2>3
    <3> QED BY <1>7, <1>15, <2>3, <3>1
  <2> QED BY <2>1, <2>2, <2>3
<1> QED BY <1>14, <1>16, <1>17

(* The segment at hand, when the window is being copied to it. *)
LEMMA AtChunk ==
  ASSUME Types, FlushInv, CopyChunk
  PROVE  /\ Running /\ SegmentsInv /\ ChunksInv /\ chunks = Image.chunks /\ file \in Files
         /\ file_offset \in Nat /\ bytes_out \in Nat /\ w \in 1 .. WSIZE /\ outcnt \in 1 .. w
         /\ file_offset + outcnt = bytes_out
         /\ chunk \in Nat /\ Len(Image.chunks) \in Nat /\ chunk + 1 \in 1 .. Len(Image.chunks)
<1>1. pc = "chunks" /\ Running /\ chunk < Len(chunks) BY DEF CopyChunk, Running
<1>2. /\ SegmentsInv /\ ChunksInv /\ chunks = Image.chunks /\ file_offset \in Nat /\ bytes_out \in Nat
      /\ file \in Files /\ w \in 0 .. WSIZE
  BY <1>1 DEF FlushInv, SegmentsInv, ChunksInv, Types, PlaceTypes, WindowTypes
<1>3. Len(Image.chunks) \in Nat /\ chunk \in 0 .. Len(Image.chunks) BY <1>2, ImageFacts DEF SegmentsInv
<1>4. outcnt \in 1 .. w /\ file_offset + outcnt = bytes_out BY <1>1, <1>2 DEF ChunksInv
<1> QED BY <1>1, <1>2, <1>3, <1>4

(* A segment is written in its place, and behind it no further than it      *)
(* begins in the window.                                                    *)
LEMMA CopyKeeps ==
  ASSUME Types, FlushInv, CopyChunk, MemoryKept
  PROVE  MemoryKept'
<1>1. /\ Running /\ SegmentsInv /\ ChunksInv /\ file \in Files
      /\ file_offset \in Nat /\ bytes_out \in Nat /\ w \in 1 .. WSIZE /\ outcnt \in 1 .. w
      /\ file_offset + outcnt = bytes_out /\ chunk + 1 \in 1 .. Len(Image.chunks)
  BY AtChunk
<1>2. PICK o \in Nat, z \in Nat, a \in Nat :
        /\ o = Image.chunks[chunk + 1].offset /\ z = Image.chunks[chunk + 1].size
        /\ a = Image.chunks[chunk + 1].addr
  BY <1>1, ImageFacts
<1>3. touched' = touched BY DEF CopyChunk
<1>4. Image.chunks[chunk + 1] \in touched
  BY <1>1, ImageFacts DEF SegmentsInv, ChunksInv
<1>5. ASSUME o < bytes_out, o >= file_offset PROVE o - file_offset <= o % WSIZE
  <2> DEFINE base == bytes_out - w
             k == o - base
  <2>1. base \in Nat /\ Whole(base) /\ base <= file_offset BY <1>1 DEF ChunksInv
  <2>2. k \in 0 .. WSIZE - 1 /\ o = base + k BY <1>1, <1>5, <2>1
  <2>3. k >= o - file_offset BY <1>1, <2>1
  <2> HIDE DEF base, k
  <2>4. (base + k) % WSIZE = k BY <2>1, <2>2, WholeFacts
  <2> QED BY <2>2, <2>3, <2>4
<1>6. o % WSIZE \in Nat BY ModRange
<1>7. ASSUME NEW k \in Nat, NEW dest \in Nat, NEW src \in Nat, Moved(o, z, dest, src, k),
             \/ o >= file_offset /\ dest = a
             \/ o < file_offset /\ dest = a + (file_offset - o)
      PROVE  MemoryKept'
  <2>1. /\ o < bytes_out /\ file_offset + k <= o + z
        /\ mem' = [j \in DOMAIN mem |-> IF j \in dest .. dest + k - 1 THEN InWindow(src + j - dest) ELSE mem[j]]
    BY <1>7 DEF Moved
  <2>2. DOMAIN mem = 0 .. MemTop /\ DOMAIN mem' = DOMAIN mem BY <2>1 DEF FlushInv
  <2> SUFFICES ASSUME NEW i \in DOMAIN mem, mem'[i] # Untouched
               PROVE  \E c \in touched : i \in c.addr .. c.addr + c.size + (c.offset % WSIZE) - 1
    BY <1>3, <2>2 DEF MemoryKept
  <2>3. CASE i \in dest .. dest + k - 1
    <3> DEFINE m == o % WSIZE
    <3>1. m \in Nat BY <1>6
    <3>2. i \in a .. a + z + m - 1
      <4> HIDE DEF m
      <4>1. CASE o >= file_offset /\ dest = a
        <5>1. o - file_offset <= m BY <1>5, <2>1, <4>1 DEF m
        <5>2. k <= m + z BY <1>1, <2>1, <3>1, <4>1, <5>1
        <5> QED BY <2>2, <2>3, <3>1, <4>1, <5>2
      <4>2. CASE o < file_offset /\ dest = a + (file_offset - o)
        <5>1. (file_offset - o) + k <= z BY <1>1, <2>1
        <5> QED BY <1>1, <2>2, <2>3, <3>1, <4>2, <5>1
      <4> QED BY <1>7, <4>1, <4>2
    <3>3. i \in Image.chunks[chunk + 1].addr ..
                  Image.chunks[chunk + 1].addr + Image.chunks[chunk + 1].size
                    + (Image.chunks[chunk + 1].offset % WSIZE) - 1
      BY <1>2, <3>2
    <3> QED BY <1>4, <3>3
  <2>4. CASE i \notin dest .. dest + k - 1
    <3>1. mem[i] # Untouched BY <2>1, <2>4
    <3> QED BY <3>1 DEF MemoryKept
  <2> QED BY <2>3, <2>4
<1>8. \/ Skipped(o)
      \/ \E k \in Nat :
           \/ o >= file_offset /\ Moved(o, z, a, o - file_offset, k)
           \/ o < file_offset /\ Moved(o, z, a + (file_offset - o), 0, k)
  BY <1>2, ChunkStep
<1>9. CASE Skipped(o)
  <2>1. mem' = mem BY <1>9 DEF Skipped
  <2> QED BY <1>3, <2>1 DEF MemoryKept
<1>10. ASSUME NEW k \in Nat, o >= file_offset, Moved(o, z, a, o - file_offset, k) PROVE MemoryKept'
  <2>1. o - file_offset \in Nat BY <1>1, <1>10
  <2> QED BY <1>7, <1>10, <2>1
<1>11. ASSUME NEW k \in Nat, o < file_offset, Moved(o, z, a + (file_offset - o), 0, k) PROVE MemoryKept'
  <2>1. a + (file_offset - o) \in Nat BY <1>1, <1>11
  <2> QED BY <1>7, <1>11, <2>1
<1> QED BY <1>8, <1>9, <1>10, <1>11

LEMMA NextKept == Types /\ FlushInv /\ MemoryKept /\ [Next]_vars => MemoryKept'
<1> SUFFICES ASSUME Types, FlushInv, MemoryKept, [Next]_vars PROVE MemoryKept' OBVIOUS
<1>1. ASSUME mem' = mem, touched \subseteq touched' PROVE MemoryKept' BY <1>1 DEF MemoryKept
<1>2. CASE UNCHANGED vars BY <1>1, <1>2 DEF vars, flushing
<1>3. CASE uncompress_kernel BY <1>1, <1>3 DEF uncompress_kernel
<1>4. CASE Step
  <2>1. CASE flush_window BY <1>1, <2>1 DEF flush_window
  <2>2. CASE CopyChunk BY <2>2, CopyKeeps
  <2>3. CASE get_method BY <1>1, <2>3, HeaderFrame DEF flushing
  <2>4. CASE inflate BY <1>1, <2>4 DEF inflate, flushing, outputs
  <2>5. CASE NEEDBITS BY <1>1, <2>5, NeedFrame DEF flushing
  <2>6. CASE DUMPBITS BY <1>1, <2>6, DumpFrame DEF flushing
  <2>7. CASE inflate_block BY <1>1, <2>7 DEF inflate_block, flushing, outputs
  <2>8. CASE BlockType BY <1>1, <2>8 DEF BlockType, flushing, outputs
  <2>9. CASE StoredLength BY <1>1, <2>9 DEF StoredLength, flushing, outputs
  <2>10. CASE inflate_stored BY <1>1, <2>10 DEF inflate_stored, flushing, outputs
  <2>11. CASE StoredByte BY <1>1, <2>11 DEF StoredByte, flushing, outputs
  <2>12. CASE inflate_dynamic BY <1>1, <2>12 DEF inflate_dynamic, flushing, outputs
  <2>13. CASE BuildTree BY <1>1, <2>13 DEF BuildTree, flushing, outputs
  <2>14. CASE ReadLength BY <1>1, <2>14 DEF ReadLength, flushing, outputs
  <2>15. CASE LengthRun BY <1>1, <2>15 DEF LengthRun, flushing, outputs
  <2>16. CASE BuildCodes BY <1>1, <2>16 DEF BuildCodes, flushing, outputs
  <2>17. CASE inflate_codes BY <1>1, <2>17 DEF inflate_codes, flushing, outputs
  <2>18. CASE Literal BY <1>1, <2>18 DEF Literal, flushing, outputs
  <2>19. CASE EndOfBlock BY <1>1, <2>19 DEF EndOfBlock, flushing, outputs
  <2>20. CASE StartCopy BY <1>1, <2>20 DEF StartCopy, flushing, outputs
  <2>21. CASE Copy BY <1>1, <2>21 DEF Copy, flushing, outputs
  <2>22. CASE LostLiteral BY <1>1, <2>22 DEF LostLiteral, flushing, outputs
  <2>23. CASE LostEnd BY <1>1, <2>23 DEF LostEnd, flushing, outputs
  <2>24. CASE UndoLookahead BY <1>1, <2>24 DEF UndoLookahead, flushing, outputs
  <2>25. CASE NoChunkLeft BY <1>1, <2>25 DEF NoChunkLeft, flushing, outputs
  <2>26. CASE ReadTrailer BY <1>1, <2>26, TrailerFrame DEF flushing
  <2>27. CASE Validate BY <1>1, <2>27 DEF Validate, flushing, outputs
  <2> QED BY <1>4, <2>1, <2>2, <2>3, <2>4, <2>5, <2>6, <2>7, <2>8, <2>9, <2>10, <2>11, <2>12, <2>13, <2>14, <2>15, <2>16, <2>17, <2>18, <2>19, <2>20, <2>21, <2>22, <2>23, <2>24, <2>25, <2>26, <2>27 DEF Step
<1> QED BY <1>2, <1>3, <1>4 DEF Next

LEMMA CopyFlush ==
  ASSUME Types, FlushInv, CopyChunk
  PROVE  FlushInv'
<1> DEFINE cs == Image.chunks
<1>1. /\ Running /\ SegmentsInv /\ ChunksInv /\ chunks = cs /\ file \in Files
      /\ file_offset \in Nat /\ bytes_out \in Nat /\ w \in 1 .. WSIZE /\ outcnt \in 1 .. w
      /\ file_offset + outcnt = bytes_out
      /\ chunk \in Nat /\ Len(cs) \in Nat /\ chunk + 1 \in 1 .. Len(cs)
  BY AtChunk
<1>2. /\ crc' = crc /\ Image' = Image /\ file' = file /\ bytes_out' = bytes_out /\ chunks' = chunks
      /\ touched' = touched /\ bss_size' = bss_size /\ slide' = slide /\ pc = "chunks" /\ ret' = ret
  BY DEF CopyChunk, attempt, Image
<1>3. PICK o \in Nat, z \in Nat, a \in Nat :
        o = cs[chunk + 1].offset /\ z = cs[chunk + 1].size /\ a = cs[chunk + 1].addr
  BY <1>1, ImageFacts
<1>4. /\ bss_size \in Nat /\ DOMAIN mem = 0 .. MemTop /\ ret \in Returns
      /\ (ret # "trailer" => w = WSIZE) /\ bytes_out # 0 /\ w <= bytes_out /\ Whole(bytes_out - w)
  BY <1>1, <1>2 DEF FlushInv, Types, PlaceTypes, WindowTypes, Flushing, ChunksInv
<1>5. ret # "trailer" => Whole(bytes_out)
  <2>1. ASSUME ret # "trailer" PROVE Whole(bytes_out)
    <3>1. w = WSIZE /\ bytes_out - WSIZE \in Nat /\ Whole(bytes_out - WSIZE) BY <1>1, <1>4, <2>1
    <3>2. Whole((bytes_out - WSIZE) + WSIZE) BY <3>1, WholeFacts
    <3>3. (bytes_out - WSIZE) + WSIZE = bytes_out BY <1>1
    <3> QED BY <3>2, <3>3
  <2> QED BY <2>1
<1>6. /\ chunk # 0 => EndOf(cs[chunk]) <= file_offset
      /\ EndOf(cs[chunk + 1]) = o + z
  BY <1>1, <1>3 DEF SegmentsInv, EndOf
<1>7. EndsApart(cs) => Loaded' BY <1>1, LoadedStep
<1>8. chunk # 0 => EndOf(cs[chunk]) \in Nat
  <2>1. chunk # 0 => chunk \in 1 .. Len(cs) BY <1>1
  <2> QED BY <1>1, <2>1, ImageFacts DEF EndOf
<1> HIDE DEF cs
(* The window is done with. *)
<1>9. ASSUME file_offset' = bytes_out, chunk' = chunk, FlushDone, file_offset' <= o + z, DOMAIN mem' = 0 .. MemTop
      PROVE  FlushInv'
  <2>1. pc' = ret /\ w' = 0 BY <1>9 DEF FlushDone
  <2>2. /\ Running' /\ pc' \notin {"chunks", "header", "ok"} /\ (pc' \notin {"trailer", "ok"} => Whole(bytes_out))
    BY <1>4, <1>5, <2>1 DEF Running, Returns
  <2>3. chunk # 0 => EndOf(cs[chunk]) <= file_offset' BY <1>1, <1>6, <1>8, <1>9
  <2>4. file_offset' <= EndOf(cs[chunk + 1]) BY <1>6, <1>9
  <2>5. SegmentsInv' BY <1>1, <1>2, <1>4, <1>7, <1>9, <2>3, <2>4 DEF SegmentsInv, cs
  <2>6. chunk \in 0 .. Len(chunks) BY <1>1
  <2> QED BY <1>1, <1>2, <1>4, <1>9, <2>2, <2>5, <2>6 DEF FlushInv
(* The segment is, and some of the window is left. *)
<1>10. ASSUME NEW k \in Nat, k < outcnt, file_offset + k = o + z, file_offset' = file_offset + k,
              outcnt' = outcnt - k, chunk' = chunk + 1, pc' = pc, w' = w, DOMAIN mem' = 0 .. MemTop
       PROVE  FlushInv'
  <2>1. Running' /\ pc' = "chunks" BY <1>1, <1>2, <1>10 DEF Running
  <2>2. chunk' \in 1 .. Len(cs) /\ file_offset' \in Nat /\ file_offset' <= bytes_out /\ outcnt' \in 1 .. w
        /\ file_offset' + outcnt' = bytes_out
    BY <1>1, <1>10
  <2>3. chunk' < Len(cs) => file_offset' <= EndOf(cs[chunk' + 1])
    <3>1. SUFFICES ASSUME chunk' < Len(cs) PROVE file_offset' <= EndOf(cs[chunk' + 1]) OBVIOUS
    <3>2. chunk' + 1 \in 1 .. Len(cs) /\ chunk + 1 < chunk' + 1 BY <1>1, <1>10, <3>1
    <3>3. EndOf(cs[chunk + 1]) <= cs[chunk' + 1].offset BY <1>1, <3>2, ImageFacts DEF cs
    <3>4. PICK u \in Nat, v \in Nat : u = cs[chunk' + 1].offset /\ v = cs[chunk' + 1].size
      BY <1>1, <3>2, ImageFacts DEF cs
    <3>5. o + z <= u BY <1>6, <3>3, <3>4
    <3>6. o + z <= u + v BY <3>5
    <3> QED BY <1>10, <3>4, <3>6 DEF EndOf
  <2>4. EndOf(cs[chunk']) <= file_offset' BY <1>1, <1>6, <1>10
  <2>5. SegmentsInv' BY <1>1, <1>2, <1>4, <1>7, <2>2, <2>3, <2>4 DEF SegmentsInv, cs
  <2>6. chunk' < Len(cs) /\ EndsApart(cs) => outcnt' = w
    <3>1. SUFFICES ASSUME chunk' < Len(cs), EndsApart(cs) PROVE k = 0 BY <1>1, <1>10, SMTT(30)
    <3>2. outcnt = w BY <1>1, <3>1, <1>10 DEF ChunksInv, cs
    <3>3. file_offset \in Nat /\ Whole(file_offset)
      <4>1. file_offset = bytes_out - w BY <1>1, <3>2
      <4> QED BY <1>1, <1>4, <4>1
    <3>4. (o + z) % WSIZE = 0
      <4>1. chunk + 1 \in DOMAIN cs /\ chunk + 1 < Len(cs) BY <1>1, <1>10, <3>1, ImageFacts DEF cs
      <4> QED BY <1>3, <3>1, <4>1 DEF EndsApart
    <3>5. k \in 0 .. WSIZE - 1 BY <1>1, <1>10
    <3>6. (file_offset + k) % WSIZE = k BY <3>3, <3>5, WholeFacts
    <3> QED BY <1>10, <3>4, <3>6
  <2>7. \A i \in 0 .. w' - 1 : crc'[bytes_out' - w' + i + 1] = slide'[i]
    BY <1>1, <1>2, <1>10 DEF ChunksInv
  <2>8. ChunksInv' BY <1>2, <1>4, <1>10, <2>2, <2>6, <2>7 DEF ChunksInv, cs
  <2>9. chunk' \in 0 .. Len(chunks') BY <1>1, <1>2, <2>2
  <2> QED BY <1>1, <1>2, <1>4, <1>10, <2>1, <2>2, <2>5, <2>8, <2>9 DEF FlushInv
<1>11. \/ Skipped(o)
       \/ \E k \in Nat : \E dest, src : Moved(o, z, dest, src, k)
  BY <1>3, ChunkStep DEF cs
<1>12. CASE Skipped(o)
  <2>1. file_offset' = bytes_out /\ chunk' = chunk /\ FlushDone /\ mem' = mem /\ o >= bytes_out
    BY <1>12 DEF Skipped
  <2> QED BY <1>1, <1>4, <1>9, <2>1
<1>13. ASSUME NEW k \in Nat, NEW dest, NEW src, Moved(o, z, dest, src, k) PROVE FlushInv'
  <2>1. DOMAIN mem' = 0 .. MemTop BY <1>4, <1>13 DEF Moved
  <2>2. CASE k = outcnt /\ FlushDone /\ outcnt' = outcnt /\ chunk' = chunk
    <3>1. file_offset' = bytes_out /\ file_offset' <= o + z BY <1>1, <1>13, <2>2 DEF Moved
    <3> QED BY <1>9, <2>1, <2>2, <3>1
  <2>3. CASE /\ k < outcnt /\ file_offset + k = o + z
             /\ outcnt' = outcnt - k /\ chunk' = chunk + 1 /\ pc' = pc /\ w' = w
    <3>1. file_offset' = file_offset + k BY <1>13 DEF Moved
    <3> QED BY <1>10, <2>1, <2>3, <3>1
  <2> QED BY <1>13, <2>2, <2>3 DEF Moved
<1> QED BY <1>11, <1>12, <1>13

(* All segments are done with. *)
LEMMA NoneLeftFlush ==
  ASSUME Types, FlushInv, NoChunkLeft
  PROVE  FlushInv'
<1>1. /\ pc = "chunks" /\ pc' = ret /\ chunk >= Len(chunks) /\ Running
      /\ UNCHANGED << file, bytes_out, crc, chunk, chunks, file_offset, bss_size, touched, mem >>
  BY DEF NoChunkLeft, FlushDone, outputs, attempt, Running
<1>2. /\ SegmentsInv /\ ChunksInv /\ bytes_out \in Nat /\ ret \in Returns /\ w \in 0 .. WSIZE
      /\ (ret # "trailer" => w = WSIZE)
  BY <1>1 DEF FlushInv, Types, PlaceTypes, WindowTypes, Flushing
<1>3. chunks = Image.chunks /\ w <= bytes_out /\ Whole(bytes_out - w) BY <1>2 DEF SegmentsInv, ChunksInv
<1>4. ret # "trailer" => Whole(bytes_out)
  <2>1. ASSUME ret # "trailer" PROVE Whole(bytes_out)
    <3>1. w = WSIZE /\ bytes_out - WSIZE \in Nat /\ Whole(bytes_out - WSIZE) BY <1>2, <1>3, <2>1
    <3>2. Whole((bytes_out - WSIZE) + WSIZE) BY <3>1, WholeFacts
    <3>3. (bytes_out - WSIZE) + WSIZE = bytes_out BY <1>2
    <3> QED BY <3>2, <3>3
  <2> QED BY <2>1
<1>5. Image' = Image BY <1>1 DEF Image
<1>6. SegmentsInv' BY <1>1, <1>2, <1>5 DEF SegmentsInv, Loaded
<1>7. Running' /\ pc' \notin {"header", "chunks", "ok"} BY <1>1, <1>2 DEF Running, Returns
<1>8. Len(Image.chunks) \in Nat BY <1>2, ImageFacts DEF Types, PlaceTypes
<1>9. ~(chunk < Len(Image.chunks))
  <2>1. chunk \in Int BY <1>2 DEF SegmentsInv
  <2> QED BY <1>1, <1>3, <1>8, <2>1
<1> QED BY <1>1, <1>2, <1>4, <1>5, <1>6, <1>7, <1>9 DEF FlushInv

LEMMA InflateFlush ==
  ASSUME Types, FlushInv, inflate
  PROVE  FlushInv'
<1>1. /\ pc = "header" /\ crc' = << >> /\ pc' \in {"block", "fail"}
      /\ UNCHANGED << file, bytes_out, chunk, chunks, file_offset, bss_size, touched, mem >>
  BY DEF inflate, Fail, attempt
<1>2. bytes_out = 0 /\ chunk = 0 /\ file_offset = 0 /\ Image' = Image /\ file \in Files
  BY <1>1 DEF FlushInv, Image, Types, PlaceTypes
<1>3. << >> \in Seq(Bytes) /\ Len(<< >>) = 0 /\ Len(Image.chunks) \in Nat BY <1>2, ImageFacts
<1>4. Loaded'
  <2>1. \A s \in DOMAIN Image.chunks : Image.chunks[s].offset \in Nat BY <1>2, ImageFacts
  <2>2. \A x, i \in Nat : ~(x + i < 0) OBVIOUS
  <2> SUFFICES ASSUME NEW s \in DOMAIN Image.chunks, NEW i \in 0 .. Image.chunks[s].size - 1
               PROVE  ~(Image.chunks[s].offset + i < 0)
    BY <1>1, <1>2, Zenon DEF Loaded
  <2> QED BY <2>1, <2>2
<1>5. 0 < Len(Image.chunks) => 0 <= EndOf(Image.chunks[1])
  <2>1. 0 < Len(Image.chunks) => 1 \in 1 .. Len(Image.chunks) BY <1>3
  <2> QED BY <1>2, <2>1, ImageFacts DEF EndOf
<1>6. SegmentsInv' BY <1>1, <1>2, <1>3, <1>4, <1>5 DEF SegmentsInv
<1> QED BY <1>1, <1>2, <1>6, WholeFacts DEF FlushInv, Running

LEMMA NextFlush == Types /\ FlushInv /\ [Next]_vars => FlushInv'
<1> SUFFICES ASSUME Types, FlushInv, [Next]_vars PROVE FlushInv' OBVIOUS
<1>1. CASE UNCHANGED vars
  <2>1. UNCHANGED << file, ret, outcnt, bytes_out, crc, chunk, chunks, file_offset, bss_size, touched,
                     mem, pc, slide, w >>
    BY <1>1 DEF vars, attempt, flushing, window
  <2>2. Image' = Image BY <2>1 DEF Image
  <2>3. SegmentsInv = SegmentsInv' BY <2>1, <2>2 DEF SegmentsInv, Loaded
  <2>4. ChunksInv = ChunksInv' BY <2>1, <2>2 DEF ChunksInv
  <2> QED BY <2>1, <2>2, <2>3, <2>4 DEF FlushInv, Running
<1>2. CASE uncompress_kernel
  <2>1. /\ pc' = "header" /\ bytes_out' = 0 /\ chunk' = 0 /\ file_offset' = 0
        /\ UNCHANGED << chunks, bss_size, mem >>
    BY <1>2 DEF uncompress_kernel, clear_bufs
  <2>2. 0 \in 0 .. Len(chunks) BY DEF FlushInv
  <2> QED BY <2>1, <2>2 DEF FlushInv, Running
<1>3. ASSUME outputs' = outputs, file' = file, pc \in Decoding, pc' \in Decoding \cup {"flush", "fail", "runaway"}
      PROVE  FlushInv'
  BY <1>3, FlushKept DEF Decoding, Asking, Running
<1>4. CASE Step
  <2>1. CASE flush_window
    <3>1. /\ pc = "flush" /\ outcnt = w /\ w \in 0 .. WSIZE /\ (ret # "trailer" => w = WSIZE)
          /\ ret \in Returns /\ file' = file
      BY <2>1 DEF flush_window, Ready, Types, WindowTypes, PlaceTypes, Flushing, attempt
    <3>2. CASE outcnt = 0
      <4>1. ret = "trailer" BY <3>1, <3>2
      <4>2. pc' = "trailer" /\ outputs' = outputs BY <2>1, <3>2, <4>1 DEF flush_window, FlushDone, outputs
      <4> QED BY <3>1, <4>2, FlushKept DEF Running
    <3>3. CASE outcnt # 0 /\ pc' = "chunks" BY <2>1, <3>3, FlushStep
    <3>4. CASE outcnt # 0 /\ pc' # "chunks"
      <4>1. /\ pc' = "fail" /\ bss_size' \in BssRefused
            /\ UNCHANGED << bytes_out, chunk, chunks, file_offset, mem >>
        BY <2>1, <3>4 DEF flush_window, Fail
      <4>2. Image.bss \in Nat BY ImageFacts DEF Types, PlaceTypes
      <4>3. bss_size' \in Nat BY <4>1, <4>2 DEF BssRefused, FlushInv
      <4> QED BY <4>1, <4>3 DEF FlushInv, Running
    <3> QED BY <3>2, <3>3, <3>4
  <2>2. CASE CopyChunk BY <2>2, CopyFlush
  <2>3. CASE NoChunkLeft BY <2>3, NoneLeftFlush
  <2>4. CASE inflate BY <2>4, InflateFlush
  <2>5. CASE get_method
    <3>1. outputs' = outputs /\ file' = file BY <2>5, HeaderFrame DEF outputs, flushing, attempt
    <3> QED BY <2>5, <3>1, HeaderFrame, FlushKept
  <2>6. CASE NEEDBITS
    <3>1. outputs' = outputs /\ file' = file BY <2>6, NeedFrame DEF outputs, flushing, attempt
    <3>2. pc \in Decoding /\ pc' \in Decoding \cup {"flush", "fail", "runaway"}
      BY <2>6, NeedFrame DEF Types, PlaceTypes, Decoding
    <3> QED BY <1>3, <3>1, <3>2
  <2>7. CASE DUMPBITS
    <3>1. outputs' = outputs /\ file' = file BY <2>7, DumpFrame DEF outputs, flushing, attempt
    <3>2. pc \in Decoding /\ pc' \in Decoding \cup {"flush", "fail", "runaway"}
      BY <2>7, DumpFrame DEF Types, PlaceTypes, Decoding, Asking
    <3> QED BY <1>3, <3>1, <3>2
  <2>8. CASE ReadTrailer
    <3>1. outputs' = outputs /\ file' = file BY <2>8, TrailerFrame DEF outputs, flushing, attempt
    <3> QED BY <2>8, <3>1, TrailerFrame, FlushKept DEF Running
  <2>9. CASE Validate
    <3>1. outputs' = outputs /\ file' = file /\ pc = "trailer" /\ pc' \in {"ok", "fail"}
      BY <2>9 DEF Validate, outputs, flushing, attempt
    <3> QED BY <3>1, FlushKept DEF Running
  <2>10. CASE inflate_block
    <3>1. /\ outputs' = outputs /\ file' = file
          /\ pc \in Decoding /\ pc' \in Decoding \cup {"flush", "fail", "runaway"}
      BY <2>10 DEF inflate_block, Ready, Fail, outputs, flushing, attempt, Decoding, Asking
    <3> QED BY <1>3, <3>1
  <2>11. CASE BlockType
    <3>1. /\ outputs' = outputs /\ file' = file
          /\ pc \in Decoding /\ pc' \in Decoding \cup {"flush", "fail", "runaway"}
      BY <2>11 DEF BlockType, Ready, Fail, outputs, flushing, attempt, Decoding, Asking
    <3> QED BY <1>3, <3>1
  <2>12. CASE StoredLength
    <3>1. /\ outputs' = outputs /\ file' = file
          /\ pc \in Decoding /\ pc' \in Decoding \cup {"flush", "fail", "runaway"}
      BY <2>12 DEF StoredLength, Ready, Fail, outputs, flushing, attempt, Decoding, Asking
    <3> QED BY <1>3, <3>1
  <2>13. CASE inflate_stored
    <3>1. /\ outputs' = outputs /\ file' = file
          /\ pc \in Decoding /\ pc' \in Decoding \cup {"flush", "fail", "runaway"}
      BY <2>13 DEF inflate_stored, Ready, Fail, outputs, flushing, attempt, Decoding, Asking, EndBlock
    <3> QED BY <1>3, <3>1
  <2>14. CASE StoredByte
    <3>1. /\ outputs' = outputs /\ file' = file
          /\ pc \in Decoding /\ pc' \in Decoding \cup {"flush", "fail", "runaway"}
      BY <2>14 DEF StoredByte, Ready, Fail, outputs, flushing, attempt, Decoding, Asking, Output
    <3> QED BY <1>3, <3>1
  <2>15. CASE inflate_dynamic
    <3>1. /\ outputs' = outputs /\ file' = file
          /\ pc \in Decoding /\ pc' \in Decoding \cup {"flush", "fail", "runaway"}
      BY <2>15 DEF inflate_dynamic, Ready, Fail, outputs, flushing, attempt, Decoding, Asking
    <3> QED BY <1>3, <3>1
  <2>16. CASE BuildTree
    <3>1. /\ outputs' = outputs /\ file' = file
          /\ pc \in Decoding /\ pc' \in Decoding \cup {"flush", "fail", "runaway"}
      BY <2>16 DEF BuildTree, Ready, Fail, outputs, flushing, attempt, Decoding, Asking
    <3> QED BY <1>3, <3>1
  <2>17. CASE ReadLength
    <3>1. /\ outputs' = outputs /\ file' = file
          /\ pc \in Decoding /\ pc' \in Decoding \cup {"flush", "fail", "runaway"}
      BY <2>17 DEF ReadLength, Ready, Fail, outputs, flushing, attempt, Decoding, Asking
    <3> QED BY <1>3, <3>1
  <2>18. CASE LengthRun
    <3>1. /\ outputs' = outputs /\ file' = file
          /\ pc \in Decoding /\ pc' \in Decoding \cup {"flush", "fail", "runaway"}
      BY <2>18 DEF LengthRun, Ready, Fail, outputs, flushing, attempt, Decoding, Asking
    <3> QED BY <1>3, <3>1
  <2>19. CASE BuildCodes
    <3>1. /\ outputs' = outputs /\ file' = file
          /\ pc \in Decoding /\ pc' \in Decoding \cup {"flush", "fail", "runaway"}
      BY <2>19 DEF BuildCodes, Ready, Fail, outputs, flushing, attempt, Decoding, Asking
    <3> QED BY <1>3, <3>1
  <2>20. CASE inflate_codes
    <3>1. /\ outputs' = outputs /\ file' = file
          /\ pc \in Decoding /\ pc' \in Decoding \cup {"flush", "fail", "runaway"}
      BY <2>20 DEF inflate_codes, Ready, Fail, outputs, flushing, attempt, Decoding, Asking
    <3> QED BY <1>3, <3>1
  <2>21. CASE Literal
    <3>1. /\ outputs' = outputs /\ file' = file
          /\ pc \in Decoding /\ pc' \in Decoding \cup {"flush", "fail", "runaway"}
      BY <2>21 DEF Literal, Ready, Fail, outputs, flushing, attempt, Decoding, Asking, Output
    <3> QED BY <1>3, <3>1
  <2>22. CASE EndOfBlock
    <3>1. /\ outputs' = outputs /\ file' = file
          /\ pc \in Decoding /\ pc' \in Decoding \cup {"flush", "fail", "runaway"}
      BY <2>22 DEF EndOfBlock, Ready, Fail, outputs, flushing, attempt, Decoding, Asking, EndBlock
    <3> QED BY <1>3, <3>1
  <2>23. CASE StartCopy
    <3>1. /\ outputs' = outputs /\ file' = file
          /\ pc \in Decoding /\ pc' \in Decoding \cup {"flush", "fail", "runaway"}
      BY <2>23 DEF StartCopy, Ready, Fail, outputs, flushing, attempt, Decoding, Asking
    <3> QED BY <1>3, <3>1
  <2>24. CASE Copy
    <3>1. /\ outputs' = outputs /\ file' = file
          /\ pc \in Decoding /\ pc' \in Decoding \cup {"flush", "fail", "runaway"}
      BY <2>24 DEF Copy, Ready, Fail, outputs, flushing, attempt, Decoding, Asking
    <3> QED BY <1>3, <3>1
  <2>25. CASE LostLiteral
    <3>1. /\ outputs' = outputs /\ file' = file
          /\ pc \in Decoding /\ pc' \in Decoding \cup {"flush", "fail", "runaway"}
      BY <2>25 DEF LostLiteral, Ready, Fail, outputs, flushing, attempt, Decoding, Asking, Output
    <3> QED BY <1>3, <3>1
  <2>26. CASE LostEnd
    <3>1. /\ outputs' = outputs /\ file' = file
          /\ pc \in Decoding /\ pc' \in Decoding \cup {"flush", "fail", "runaway"}
      BY <2>26 DEF LostEnd, Ready, Fail, outputs, flushing, attempt, Decoding, Asking
    <3> QED BY <1>3, <3>1
  <2>27. CASE UndoLookahead
    <3>1. /\ outputs' = outputs /\ file' = file
          /\ pc \in Decoding /\ pc' \in Decoding \cup {"flush", "fail", "runaway"}
      BY <2>27 DEF UndoLookahead, Ready, Fail, outputs, flushing, attempt, Decoding, Asking
    <3> QED BY <1>3, <3>1
  <2> QED BY <1>4, <2>1, <2>2, <2>3, <2>4, <2>5, <2>6, <2>7, <2>8, <2>9, <2>10, <2>11, <2>12, <2>13, <2>14, <2>15, <2>16, <2>17, <2>18, <2>19, <2>20, <2>21, <2>22, <2>23, <2>24, <2>25, <2>26, <2>27 DEF Step
<1> QED BY <1>1, <1>2, <1>4 DEF Next

(*** The kernel that was loaded ***)

(* What uncompress_kernel reports as loaded is what was compressed. *)
Validated == pc = "ok" => crc = file.sum /\ bytes_out = file.len

LEMMA NextValidated == Types /\ Validated /\ [Next]_vars => Validated'
<1> SUFFICES ASSUME Types, Validated, [Next]_vars, pc' = "ok" PROVE crc' = file'.sum /\ bytes_out' = file'.len
  BY DEF Validated
<1>1. CASE pc = "ok"
  <2>1. UNCHANGED vars
    <3>1. reads = << >> BY <1>1 DEF Types, PlaceTypes, Asking
    <3> QED BY <1>1, <3>1 DEF Next, Step, uncompress_kernel, get_method, inflate, NEEDBITS, DUMPBITS,
          inflate_block, BlockType, StoredLength, inflate_stored, StoredByte, inflate_dynamic, BuildTree,
          ReadLength, LengthRun, BuildCodes, inflate_codes, Literal, EndOfBlock, StartCopy, Copy,
          LostLiteral, LostEnd, UndoLookahead, flush_window, CopyChunk, NoChunkLeft, ReadTrailer,
          Validate, Ready
  <2> QED BY <1>1, <2>1 DEF vars, flushing, attempt, Validated
<1>2. CASE pc # "ok"
  <2>1. ~UNCHANGED vars BY <1>2 DEF vars
  <2>2. Step BY <2>1 DEF Next, uncompress_kernel
  <2>3. CASE Validate BY <2>3 DEF Validate, flushing, attempt, CrcRight, LengthRight
  <2>4. CASE get_method BY <2>4, HeaderFrame
  <2>5. CASE NEEDBITS BY <1>2, <2>5, NeedFrame
  <2>6. CASE DUMPBITS BY <1>2, <2>6, DumpFrame
  <2>7. CASE ReadTrailer BY <2>7, TrailerFrame
  <2>8. CASE flush_window BY <2>8 DEF flush_window, FlushDone, Fail, Ready, Types, PlaceTypes, Flushing, Returns
  <2>9. CASE CopyChunk BY <1>2, <2>9 DEF CopyChunk, FlushDone, Types, PlaceTypes, Flushing, Returns
  <2>10. CASE NoChunkLeft BY <2>10 DEF NoChunkLeft, FlushDone, Types, PlaceTypes, Flushing, Returns
  <2>11. CASE inflate BY <1>2, <2>11 DEF inflate, Fail
  <2>12. CASE inflate_block BY <1>2, <2>12 DEF inflate_block, Fail
  <2>13. CASE BlockType BY <1>2, <2>13 DEF BlockType, Fail
  <2>14. CASE StoredLength BY <1>2, <2>14 DEF StoredLength, Fail
  <2>15. CASE inflate_stored BY <1>2, <2>15 DEF inflate_stored, Fail, EndBlock
  <2>16. CASE StoredByte BY <1>2, <2>16 DEF StoredByte, Fail, Output
  <2>17. CASE inflate_dynamic BY <1>2, <2>17 DEF inflate_dynamic, Fail
  <2>18. CASE BuildTree BY <1>2, <2>18 DEF BuildTree, Fail
  <2>19. CASE ReadLength BY <1>2, <2>19 DEF ReadLength, Fail
  <2>20. CASE LengthRun BY <1>2, <2>20 DEF LengthRun, Fail
  <2>21. CASE BuildCodes BY <1>2, <2>21 DEF BuildCodes, Fail
  <2>22. CASE inflate_codes BY <1>2, <2>22 DEF inflate_codes, Fail
  <2>23. CASE Literal BY <1>2, <2>23 DEF Literal, Fail, Output
  <2>24. CASE EndOfBlock BY <1>2, <2>24 DEF EndOfBlock, Fail, EndBlock
  <2>25. CASE StartCopy BY <1>2, <2>25 DEF StartCopy, Fail
  <2>26. CASE Copy BY <1>2, <2>26 DEF Copy, Fail
  <2>27. CASE LostLiteral BY <1>2, <2>27 DEF LostLiteral, Fail, Output
  <2>28. CASE LostEnd BY <1>2, <2>28 DEF LostEnd, Fail
  <2>29. CASE UndoLookahead BY <1>2, <2>29 DEF UndoLookahead, Fail
  <2> QED BY <2>2, <2>3, <2>4, <2>5, <2>6, <2>7, <2>8, <2>9, <2>10, <2>11, <2>12, <2>13, <2>14, <2>15, <2>16, <2>17, <2>18, <2>19, <2>20, <2>21, <2>22, <2>23, <2>24, <2>25, <2>26, <2>27, <2>28, <2>29 DEF Step
<1> QED BY <1>1, <1>2

LEMMA LoadedAtOk == Types /\ FlushInv /\ Validated => ImageLoaded
<1> DEFINE cs == Image.chunks
<1> SUFFICES ASSUME Types, FlushInv, Validated, pc = "ok", EndsApart(cs),
                    NEW s \in DOMAIN cs, NEW i \in 0 .. cs[s].size - 1
             PROVE  mem[cs[s].addr + i] = file.out[cs[s].offset + i + 1]
  BY DEF ImageLoaded
<1>1. file \in Files /\ Running BY DEF Types, PlaceTypes, Running
<1>2. SegmentsInv /\ bytes_out \in Nat /\ file_offset \in Nat
      /\ (chunk < Len(cs) => file_offset = bytes_out)
  BY <1>1 DEF FlushInv
<1>3. Loaded /\ Len(crc) = bytes_out /\ chunk \in 0 .. Len(cs) /\ (chunk # 0 => EndOf(cs[chunk]) <= file_offset)
  BY <1>2 DEF SegmentsInv
<1>4. file.out = crc /\ Len(file.out) = bytes_out
  <2>1. crc = file.sum /\ bytes_out = file.len BY DEF Validated
  <2>2. Len(file.sum) = file.len => file.sum = file.out BY <1>1, FileFacts DEF FileSound
  <2> QED BY <1>3, <2>1, <2>2
<1>5. Len(cs) \in Nat /\ s \in 1 .. Len(cs) BY <1>1, ImageFacts
<1>6. PICK o \in Nat, z \in Nat : o = cs[s].offset /\ z = cs[s].size BY <1>1, <1>5, ImageFacts
<1>7. o + z <= file_offset
  <2>1. CASE chunk < Len(cs)
    <3>1. EndOf(cs[s]) <= Len(file.out) BY <1>1, <1>5, ImageFacts
    <3> QED BY <1>2, <1>4, <1>6, <2>1, <3>1 DEF EndOf
  <2>2. CASE ~(chunk < Len(cs))
    <3>1. chunk = Len(cs) /\ chunk \in 1 .. Len(cs) /\ (s = chunk \/ s < chunk) BY <1>3, <1>5, <2>2
    <3>2. CASE s = chunk BY <1>3, <1>6, <3>1, <3>2 DEF EndOf
    <3>3. CASE s < chunk
      <4>1. EndOf(cs[s]) <= cs[chunk].offset BY <1>1, <1>5, <3>1, <3>3, ImageFacts
      <4>2. PICK u \in Nat, v \in Nat : u = cs[chunk].offset /\ v = cs[chunk].size
        BY <1>1, <3>1, ImageFacts
      <4>3. o + z <= u BY <1>6, <4>1, <4>2 DEF EndOf
      <4>4. u + v <= file_offset BY <1>3, <3>1, <4>2 DEF EndOf
      <4> QED BY <1>2, <4>3, <4>4
    <3> QED BY <3>1, <3>2, <3>3
  <2> QED BY <2>1, <2>2
<1>8. o + i < file_offset BY <1>2, <1>6, <1>7
<1>9. mem[cs[s].addr + i] = crc[cs[s].offset + i + 1] BY <1>3, <1>6, <1>8 DEF Loaded
<1> QED BY <1>4, <1>9
-----------------------------------------------------------------------------
(*** The code lengths ***)

(* When there are as many lengths as the block announced, all are read.     *)
LEMMA LengthsAreSent == ASSUME Types PROVE LengthsRight
<1> SUFFICES ASSUME pc = "lengths", Len(ll) = Block.nl + Block.nd PROVE ll = LengthsOf(Block.ops)
  BY DEF LengthsRight
<1>1. /\ file \in Files /\ blk \in 1 .. Len(file.blocks) /\ Block.type = 2
      /\ Block.nl <= 286 /\ Block.nd <= 30
      /\ tok \in 1 .. Len(Block.ops) + 1 /\ ll = LengthsAfter(Block.ops, tok - 1)
  BY DEF Types, PlaceTypes, TableTypes, Going
<1>2. PICK many \in Nat \ {0} : many = Len(Block.ops) BY <1>1, OpsFacts
<1>3. tok - 1 \in 0 .. many BY <1>1, <1>2
<1>4. CASE tok - 1 = many BY <1>1, <1>2, <1>4 DEF LengthsOf
<1>5. CASE tok - 1 \in 0 .. many - 1
  <2>1. Len(LengthsAfter(Block.ops, tok - 1)) < Block.nl + Block.nd BY <1>1, <1>2, <1>5, OpsFacts
  <2>2. Block.nl + Block.nd \in Int BY <1>1, OpsFacts
  <2>3. \A x \in Int : ~(x < x) OBVIOUS
  <2> QED BY <1>1, <2>1, <2>2, <2>3, Zenon
<1> QED BY <1>2, <1>3, <1>4, <1>5

(*** The input buffer ***)

(* Where bytes may be given back, one has been taken from the buffer.       *)
InputInv ==
  /\ tries \in 0 .. MaxTries /\ failures \in 0 .. MaxFailures
  /\ insize \in {0, INBUFSIZ} /\ inptr \in 0 .. INBUFSIZ
  /\ block_number \in Int /\ block_number >= -1
  /\ pc = "header" /\ todo = << >> => inptr >= 1
  /\ pc \in Decoding \/ (pc \in Flushing /\ ret # "trailer") => inptr >= 1

(* A byte is taken from the buffer, or the buffer filled for it. *)
ByteRead ==
  \/ /\ inptr < insize /\ inptr' = inptr + 1
     /\ UNCHANGED << insize, block_number, failures >>
  \/ /\ inptr >= insize /\ CanFill
     /\ \E got \in {Delivered, 0} : fill_inbuf(got)
     /\ failures' = failures \/ (failures < MaxFailures /\ failures' = failures + 1)

LEMMA ByteReadStep ==
  ASSUME get_method \/ NEEDBITS \/ ReadTrailer
  PROVE  ByteRead \/ (pc' = "fail" /\ UNCHANGED << inptr, insize, block_number, failures >>)
<1>1. CASE get_method
  <2>1. CASE get_byte(HeaderByte) BY <2>1 DEF get_byte, ByteRead
  <2>2. CASE Fail /\ UNCHANGED << input, header >> BY <2>2 DEF Fail, input
  <2> QED BY <1>1, <2>1, <2>2 DEF get_method
<1>2. CASE NEEDBITS
  <2>1. CASE get_byte(IntoBits) BY <2>1 DEF get_byte, ByteRead
  <2>2. CASE Fail /\ UNCHANGED << input, b >> BY <2>2 DEF Fail, input
  <2> QED BY <1>2, <2>1, <2>2 DEF NEEDBITS
<1>3. CASE ReadTrailer
  <2>1. CASE get_byte(IntoBuf) BY <2>1 DEF get_byte, ByteRead
  <2>2. CASE Fail /\ UNCHANGED << input, buf >> BY <2>2 DEF Fail, input
  <2> QED BY <1>3, <2>1, <2>2 DEF ReadTrailer
<1> QED BY <1>1, <1>2, <1>3

LEMMA BufferFacts ==
  ASSUME file \in Files
  PROVE  INBUFSIZ \div file.bs \in Nat
<1>1. PICK bs \in Nat \ {0} : bs = file.bs BY FileFacts DEF FileSound
<1>2. INBUFSIZ \div bs \in Nat BY <1>1
<1> QED BY <1>1, <1>2

(* The bytes of the input stay within the buffer. *)
LEMMA ByteReadKeeps ==
  ASSUME Types, InputInv, ByteRead
  PROVE  /\ failures' \in 0 .. MaxFailures
         /\ insize' \in {0, INBUFSIZ} /\ inptr' \in 1 .. INBUFSIZ
         /\ block_number' \in Int /\ block_number' >= -1
<1> USE DEF InputInv
<1>1. CASE inptr < insize /\ inptr' = inptr + 1 /\ UNCHANGED << insize, block_number, failures >>
  BY <1>1
<1>2. CASE /\ inptr >= insize /\ CanFill /\ \E got \in {Delivered, 0} : fill_inbuf(got)
           /\ failures' = failures \/ (failures < MaxFailures /\ failures' = failures + 1)
  <2>1. insize' = INBUFSIZ /\ inptr' = 1 BY <1>2 DEF fill_inbuf
  <2>2. \/ block_number' = -1 \/ block_number' = block_number
        \/ block_number' = block_number + INBUFSIZ \div file.bs
    BY <1>2 DEF fill_inbuf, Asked
  <2>3. INBUFSIZ \div file.bs \in Nat BY BufferFacts DEF Types, PlaceTypes
  <2>4. block_number' \in Int /\ block_number' >= -1
    <3> DEFINE more == INBUFSIZ \div file.bs
    <3>1. more \in Nat BY <2>3
    <3>2. \/ block_number' = -1 \/ block_number' = block_number
          \/ block_number' = block_number + more
      BY <2>2
    <3> HIDE DEF more
    <3> QED BY <3>1, <3>2
  <2>5. failures' \in 0 .. MaxFailures BY <1>2
  <2> QED BY <2>1, <2>4, <2>5
<1> QED BY <1>1, <1>2 DEF ByteRead

LEMMA InputKept ==
  ASSUME InputInv, UNCHANGED << tries, inptr, insize, block_number, failures >>,
         pc' = "header" /\ todo' = << >> => pc = "header" /\ todo = << >>,
         pc' \in Decoding \/ (pc' \in Flushing /\ ret' # "trailer") =>
           \/ pc \in Decoding \/ (pc \in Flushing /\ ret # "trailer")
           \/ pc = "header" /\ todo = << >>
  PROVE  InputInv'
BY DEF InputInv

-----------------------------------------------------------------------------
(*** The bit buffer ***)

LEMMA SmallestOf ==
  ASSUME NEW S, S \subseteq Nat, S # {}
  PROVE  \E x \in S : \A y \in S : x <= y
<1> DEFINE R == OpToRel(<, Nat)
<1>1. IsWellFoundedOn(R, Nat) BY NatLessThanWellFounded, Zenon
<1>2. R = {ss \in Nat \X Nat : ss[1] < ss[2]} BY Zenon DEF OpToRel
<1> HIDE DEF R
<1>3. \E x \in S : \A y \in S : ~(<< y, x >> \in R) BY <1>1, WFMin, Zenon
<1>4. PICK x \in S : \A y \in S : ~(<< y, x >> \in R) BY <1>3
<1>5. ASSUME NEW y \in S PROVE x <= y
  <2>1. x \in Nat /\ y \in Nat OBVIOUS
  <2>2. ~(<< y, x >> \in R) BY <1>4
  <2>3. ~(y < x) BY <1>2, <2>1, <2>2
  <2> QED BY <2>1, <2>3
<1> QED BY <1>5

LEMMA MinFacts ==
  ASSUME NEW S, S \subseteq Nat, S # {}
  PROVE  Min(S) \in S /\ \A y \in S : Min(S) <= y
<1>1. \E x \in S : \A y \in S : x <= y BY SmallestOf
<1> QED BY <1>1 DEF Min

LEMMA MaxFacts ==
  ASSUME NEW m \in Nat, NEW S, S \subseteq 0 .. m, S # {}
  PROVE  Max(S) \in S /\ \A y \in S : Max(S) >= y
<1> DEFINE T == {m - x : x \in S}
<1>0. \A x \in S : x \in 0 .. m OBVIOUS
<1>1. T \subseteq Nat /\ T # {}
  <2>1. \A x \in S : m - x \in Nat BY <1>0
  <2> QED BY <2>1
<1>2. \E x \in T : \A y \in T : x <= y
  <2> HIDE DEF T
  <2> QED BY <1>1, SmallestOf
<1>3. \E x \in S : \A y \in S : x >= y
  <2>1. PICK x \in S : \A y \in T : m - x <= y BY <1>2
  <2>2. ASSUME NEW y \in S PROVE x >= y
    <3>1. m - x <= m - y BY <2>1
    <3>2. x \in 0 .. m /\ y \in 0 .. m OBVIOUS
    <3> QED BY <3>1, <3>2
  <2> QED BY <2>2
<1> QED BY <1>3 DEF Max

(* A read asks for no more bits than the bit buffer may hold, and leaves at *)
(* most a byte of them; only a code without a meaning may leave them all.   *)
Fine == {r \in (0 .. 16) \X (0 .. 16) : r[2] <= r[1] /\ r[1] - r[2] <= 8}
Answers == {r \in (0 .. 16) \X (0 .. 16) : r \in Fine \/ r[2] = 0}

(* The bits looked up for a code of a table, at once or in a second one,    *)
(* are at most a byte more than the code's.                                 *)
TableFits(t) ==
  /\ t.lens \in Seq(0 .. 15) /\ t.bits \in 0 .. 15 /\ t.longest \in 0 .. 15
  /\ \A i \in 1 .. Len(t.lens) : LET len == t.lens[i] IN
       /\ len <= t.longest
       /\ len <= t.bits /\ len # 0 => t.bits - len <= 8
       /\ len > t.bits => t.longest - len <= 8

LEMMA LengthsFacts ==
  ASSUME NEW lens, NEW m \in Nat, lens \in Seq(0 .. m)
  PROVE  /\ Lengths(lens) \subseteq 1 .. m
         /\ \A i \in 1 .. Len(lens) : lens[i] # 0 => lens[i] \in Lengths(lens)
         /\ (Symbols(lens) = {} <=> Lengths(lens) = {})
<1>1. Len(lens) \in Nat /\ \A i \in 1 .. Len(lens) : lens[i] \in 0 .. m OBVIOUS
<1>2. \A t \in Symbols(lens) : t \in 0 .. Len(lens) - 1 /\ lens[t + 1] # 0 BY DEF Symbols
<1>3. ASSUME NEW t \in Symbols(lens) PROVE lens[t + 1] \in 1 .. m
  <2>1. t + 1 \in 1 .. Len(lens) BY <1>1, <1>2
  <2> QED BY <1>1, <1>2, <2>1
<1>4. ASSUME NEW i \in 1 .. Len(lens), lens[i] # 0 PROVE lens[i] \in Lengths(lens)
  <2>1. i - 1 \in 0 .. Len(lens) - 1 /\ (i - 1) + 1 = i BY <1>1
  <2>2. i - 1 \in Symbols(lens) BY <1>4, <2>1 DEF Symbols
  <2> QED BY <2>1, <2>2 DEF Lengths
<1>5. Lengths(lens) \subseteq 1 .. m BY <1>3 DEF Lengths
<1>6. Symbols(lens) = {} <=> Lengths(lens) = {} BY DEF Lengths
<1> QED BY <1>4, <1>5, <1>6

LEMMA SeqOfFunction ==
  ASSUME NEW m \in Nat, NEW S, NEW f \in [1 .. m -> S]
  PROVE  f \in Seq(S) /\ Len(f) = m
OBVIOUS

LEMMA LongerSet ==
  ASSUME NEW m \in Nat, NEW S, NEW T, S \subseteq T, NEW f \in [1 .. m -> S]
  PROVE  f \in Seq(T)
<1>1. f \in [1 .. m -> T]
  <2>1. DOMAIN f = 1 .. m /\ \A i \in 1 .. m : f[i] \in T OBVIOUS
  <2>2. f = [i \in 1 .. m |-> f[i]] OBVIOUS
  <2> QED BY <2>1, <2>2
<1> QED BY <1>1, SeqOfFunction

(* huft_build looks up as many bits as asked for, within the codes'. *)
LEMMA LookupFacts ==
  ASSUME NEW m \in 0 .. 15, NEW lens, lens \in Seq(0 .. m), NEW k \in 5 .. 9
  PROVE  LET bits == LookupBits(lens, k) IN
         /\ bits \in 0 .. m
         /\ \A i \in 1 .. Len(lens) : lens[i] # 0 =>
              /\ bits <= k \/ bits <= lens[i]
              /\ lens[i] > bits => bits >= k
<1>1. /\ Lengths(lens) \subseteq 1 .. m
      /\ \A i \in 1 .. Len(lens) : lens[i] # 0 => lens[i] \in Lengths(lens)
      /\ (Symbols(lens) = {} <=> Lengths(lens) = {})
  <2>1. m \in Nat OBVIOUS
  <2> QED BY <2>1, LengthsFacts
<1>2. CASE Symbols(lens) = {}
  <2>1. LookupBits(lens, k) = 0 BY <1>2 DEF LookupBits
  <2>2. \A i \in 1 .. Len(lens) : lens[i] = 0 BY <1>1, <1>2
  <2> QED BY <2>1, <2>2
<1>3. CASE Symbols(lens) # {}
  <2> DEFINE S == Lengths(lens)
             hi == Max(S)
             lo == Min(S)
             x == Min({k, hi})
             bits == Max({x, lo})
  <2>1. LookupBits(lens, k) = bits BY <1>3 DEF LookupBits
  <2>2. S \subseteq 0 .. m /\ S \subseteq Nat /\ S # {} /\ m \in Nat BY <1>1, <1>3
  <2>3. hi \in S /\ \A y \in S : hi >= y
    <3> HIDE DEF S
    <3> QED BY <2>2, MaxFacts
  <2>4. lo \in S /\ \A y \in S : lo <= y
    <3> HIDE DEF S
    <3> QED BY <2>2, MinFacts
  <2>5. hi \in 0 .. m /\ lo \in 0 .. m BY <2>2, <2>3, <2>4
  <2> HIDE DEF hi, lo
  <2>6. x \in {k, hi} /\ x <= k /\ x <= hi
    <3>1. k \in Int /\ hi \in Int BY <2>5
    <3> QED BY <3>1, MinOfTwo, Zenon
  <2> HIDE DEF x
  <2>7. bits \in {x, lo} /\ bits >= x /\ bits >= lo
    <3>1. x \in Int /\ lo \in Int BY <2>5, <2>6
    <3> QED BY <3>1, MaxOfTwo, Zenon
  <2> HIDE DEF bits
  <2>8. bits \in 0 .. m BY <2>5, <2>6, <2>7
  <2>9. ASSUME NEW i \in 1 .. Len(lens), lens[i] # 0
        PROVE  /\ bits <= k \/ bits <= lens[i]
               /\ lens[i] > bits => bits >= k
    <3>1. PICK l \in 0 .. m : l = lens[i] OBVIOUS
    <3>2. l \in S BY <1>1, <2>9, <3>1
    <3>3. hi >= l /\ lo <= l BY <2>3, <2>4, <3>2
    <3>4. (bits <= k \/ bits <= l) /\ (l > bits => bits >= k) BY <2>5, <2>6, <2>7, <2>8, <3>3
    <3> QED BY <3>1, <3>4
  <2> QED BY <2>1, <2>8, <2>9
<1> QED BY <1>2, <1>3

LEMMA TableBuilt ==
  ASSUME NEW lens, NEW m \in 0 .. 15, lens \in Seq(0 .. m), NEW k \in 5 .. 9, m <= k + 9
  PROVE  /\ TableFits(huft_build(lens, k)) /\ huft_build(lens, k).lens = lens
         /\ huft_build(lens, k).bits \in 0 .. m
<1> DEFINE t == huft_build(lens, k)
           bits == LookupBits(lens, k)
           longest == Max({0} \cup Lengths(lens))
<1>1. t.lens = lens /\ t.bits = bits /\ t.longest = longest BY DEF huft_build
<1> HIDE DEF t
<1>2. /\ bits \in 0 .. m
      /\ \A i \in 1 .. Len(lens) : lens[i] # 0 =>
           /\ bits <= k \/ bits <= lens[i]
           /\ lens[i] > bits => bits >= k
  BY LookupFacts
<1>3. /\ longest \in 0 .. m
      /\ \A i \in 1 .. Len(lens) : lens[i] <= longest
  <2> DEFINE S == {0} \cup Lengths(lens)
  <2>1. /\ Lengths(lens) \subseteq 1 .. m
        /\ \A i \in 1 .. Len(lens) : lens[i] # 0 => lens[i] \in Lengths(lens)
    <3>1. m \in Nat OBVIOUS
    <3> QED BY <3>1, LengthsFacts
  <2>2. S \subseteq 0 .. m /\ S # {} /\ m \in Nat BY <2>1
  <2>3. \A i \in 1 .. Len(lens) : lens[i] \in S BY <2>1
  <2> HIDE DEF S
  <2>4. Max(S) \in S /\ \A y \in S : Max(S) >= y BY <2>2, MaxFacts
  <2>5. longest = Max(S) BY DEF S
  <2>6. longest \in 0 .. m BY <2>2, <2>4, <2>5
  <2>7. ASSUME NEW i \in 1 .. Len(lens) PROVE lens[i] <= longest
    <3>1. PICK l \in 0 .. m : l = lens[i] OBVIOUS
    <3>2. Max(S) >= l BY <2>3, <2>4, <3>1
    <3> QED BY <2>5, <2>6, <3>1, <3>2
  <2> QED BY <2>6, <2>7
<1> HIDE DEF bits, longest
<1>4. ASSUME NEW i \in 1 .. Len(lens)
      PROVE  LET len == lens[i] IN
             /\ len <= longest
             /\ len <= bits /\ len # 0 => bits - len <= 8
             /\ len > bits => longest - len <= 8
  <2>1. PICK l \in 0 .. m : l = lens[i] OBVIOUS
  <2>2. l <= longest BY <1>3, <2>1
  <2>3. l # 0 => (bits <= k \/ bits <= l) /\ (l > bits => bits >= k) BY <1>2, <2>1
  <2>4. l <= bits /\ l # 0 => bits - l <= 8 BY <1>2, <2>3
  <2>5. l > bits => longest - l <= 8 BY <1>2, <1>3, <2>3
  <2> QED BY <2>1, <2>2, <2>4, <2>5
<1>5. lens \in Seq(0 .. 15)
  <2>1. lens \in [1 .. Len(lens) -> 0 .. m] /\ Len(lens) \in Nat OBVIOUS
  <2>2. 0 .. m \subseteq 0 .. 15 OBVIOUS
  <2> QED BY <2>1, <2>2, LongerSet
<1>6. bits \in 0 .. 15 /\ longest \in 0 .. 15 BY <1>2, <1>3
<1>7. TableFits(t)
  <2>1. \A i \in 1 .. Len(t.lens) : LET len == t.lens[i] IN
          /\ len <= t.longest
          /\ len <= t.bits /\ len # 0 => t.bits - len <= 8
          /\ len > t.bits => t.longest - len <= 8
    BY <1>1, <1>4, Zenon
  <2>2. t.lens \in Seq(0 .. 15) /\ t.bits \in 0 .. 15 /\ t.longest \in 0 .. 15
    BY <1>1, <1>5, <1>6
  <2> QED BY <2>1, <2>2, Zenon DEF TableFits
<1>8. t.lens = lens /\ t.bits \in 0 .. m BY <1>1, <1>2
<1> QED BY <1>7, <1>8 DEF t

(* The tables in use, of lengths that can be looked up; they have the codes *)
(* the block at hand uses.                                                  *)
TablesInv ==
  /\ TableFits(lit) /\ TableFits(dist)
  /\ pc \in {"lengths", "length"} =>
       Len(lit.lens) = 19 /\ lit.bits <= 7 /\ \A i \in 1 .. 19 : lit.lens[i] <= lit.bits
  /\ Going({"codes", "token", "copy"}) => Coded(Block.toks, lit.lens, dist.lens)

LEMMA TablesStay ==
  ASSUME TablesInv, lit' = lit, dist' = dist,
         pc' \in {"lengths", "length"} => pc \in {"lengths", "length"},
         Going({"codes", "token", "copy"})' => Going({"codes", "token", "copy"}) /\ Block' = Block
  PROVE  TablesInv'
BY DEF TablesInv

LEMMA FixedTables ==
  /\ TableFits(huft_build(FixedLengths, 7)) /\ huft_build(FixedLengths, 7).lens = FixedLengths
  /\ TableFits(huft_build(FixedDistances, 5)) /\ huft_build(FixedDistances, 5).lens = FixedDistances
<1>1. FixedLengths \in Seq(0 .. 9) BY DEF FixedLengths
<1>2. FixedDistances \in Seq(0 .. 5) BY DEF FixedDistances
<1>3. 9 \in 0 .. 15 /\ 5 \in 0 .. 15 /\ 7 \in 5 .. 9 /\ 5 \in 5 .. 9 /\ 9 <= 7 + 9 /\ 5 <= 5 + 9 OBVIOUS
<1> QED BY <1>1, <1>2, <1>3, TableBuilt

LEMMA TreeTable ==
  ASSUME file \in Files, blk \in 1 .. Len(file.blocks), Block.type = 2
  PROVE  LET t == huft_build(BitLengths, 7) IN
         /\ TableFits(t) /\ Len(t.lens) = 19 /\ t.bits <= 7
         /\ \A i \in 1 .. 19 : t.lens[i] <= t.bits
<1>1. \A j \in 1 .. Block.nb : Block.clens[j] \in 0 .. 7 BY BlockFacts DEF BlockSound
<1>2. ASSUME NEW t \in 1 .. 19 PROVE BitLengths[t] \in 0 .. 7
  <2>1. CASE \E j \in 1 .. Block.nb : border[j] = t - 1
    <3>1. (CHOOSE j \in 1 .. Block.nb : border[j] = t - 1) \in 1 .. Block.nb BY <2>1
    <3>2. BitLengths[t] = Block.clens[CHOOSE j \in 1 .. Block.nb : border[j] = t - 1]
      BY <2>1 DEF BitLengths
    <3> QED BY <1>1, <3>1, <3>2
  <2>2. CASE ~ \E j \in 1 .. Block.nb : border[j] = t - 1
    <3>1. BitLengths[t] = 0 BY <2>2 DEF BitLengths
    <3> QED BY <3>1
  <2> QED BY <2>1, <2>2
<1>3. BitLengths \in Seq(0 .. 7) /\ Len(BitLengths) = 19
  <2>1. DOMAIN BitLengths = 1 .. 19 /\ BitLengths = [t \in 1 .. 19 |-> BitLengths[t]] BY DEF BitLengths
  <2>2. BitLengths \in [1 .. 19 -> 0 .. 7] BY <1>2, <2>1
  <2>3. 19 \in Nat OBVIOUS
  <2> QED BY <2>2, <2>3, SeqOfFunction
<1>4. 7 \in 0 .. 15 /\ 7 \in 5 .. 9 /\ 7 <= 7 + 9 OBVIOUS
<1>5. /\ TableFits(huft_build(BitLengths, 7)) /\ huft_build(BitLengths, 7).lens = BitLengths
      /\ huft_build(BitLengths, 7).bits \in 0 .. 7
  BY <1>3, <1>4, TableBuilt
<1>6. huft_build(BitLengths, 7).bits = LookupBits(BitLengths, 7) BY DEF huft_build
<1>7. \A i \in 1 .. 19 : BitLengths[i] # 0 =>
        (BitLengths[i] > LookupBits(BitLengths, 7) => LookupBits(BitLengths, 7) >= 7)
  BY <1>3, <1>4, LookupFacts
<1>8. PICK bits \in 0 .. 7 : bits = huft_build(BitLengths, 7).bits BY <1>5
<1>9. ASSUME NEW i \in 1 .. 19 PROVE BitLengths[i] <= bits
  <2>1. PICK l \in 0 .. 7 : l = BitLengths[i] BY <1>2
  <2>2. l # 0 /\ l > bits => bits >= 7 BY <1>6, <1>7, <1>8, <2>1
  <2> QED BY <2>1, <2>2
<1>10. bits <= 7 OBVIOUS
<1> QED BY <1>3, <1>5, <1>8, <1>9, <1>10, Zenon

(* The tables of a block that sends its codes are for the codes it uses. *)
LEMMA SentTables ==
  ASSUME Types, pc = "lengths", Len(ll) = Block.nl + Block.nd
  PROVE  LET l == huft_build(SubSeq(ll, 1, Block.nl), lbits)
             m == huft_build(SubSeq(ll, Block.nl + 1, Len(ll)), dbits)
         IN  TableFits(l) /\ TableFits(m) /\ Coded(Block.toks, l.lens, m.lens)
<1>1. /\ file \in Files /\ blk \in 1 .. Len(file.blocks) /\ Block.type = 2
      /\ Block.nl <= 286 /\ Block.nd <= 30
      /\ ll \in Seq(0 .. 15)
  BY DEF Types, PlaceTypes, TableTypes, Going
<1>2. LengthsSound(Block) BY <1>1, BlockFacts DEF BlockSound
<1>3. LengthsRight BY LengthsAreSent
<1>4. ll = LengthsOf(Block.ops) BY <1>3 DEF LengthsRight
<1>5. Coded(Block.toks, SubSeq(ll, 1, Block.nl), SubSeq(ll, Block.nl + 1, Len(ll)))
  BY <1>2, <1>4 DEF LengthsSound
<1>6. PICK nl \in Nat : nl = Block.nl BY <1>1, BlockFacts
<1>7. PICK nd \in Nat : nd = Block.nd BY <1>1, BlockFacts
<1>8. Len(ll) = nl + nd BY <1>6, <1>7
<1>9. SubSeq(ll, 1, nl) \in Seq(0 .. 15) /\ SubSeq(ll, nl + 1, Len(ll)) \in Seq(0 .. 15)
  BY <1>1, <1>8, SMTT(30)
<1>10. 15 \in 0 .. 15 /\ lbits \in 5 .. 9 /\ dbits \in 5 .. 9 /\ 15 <= lbits + 9 /\ 15 <= dbits + 9
  BY DEF lbits, dbits
<1> DEFINE l == huft_build(SubSeq(ll, 1, nl), lbits)
           m == huft_build(SubSeq(ll, nl + 1, Len(ll)), dbits)
<1>11. TableFits(l) /\ l.lens = SubSeq(ll, 1, nl) BY <1>9, <1>10, TableBuilt
<1>12. TableFits(m) /\ m.lens = SubSeq(ll, nl + 1, Len(ll)) BY <1>9, <1>10, TableBuilt
<1> HIDE DEF l, m
<1>13. TableFits(l) /\ TableFits(m) /\ Coded(Block.toks, l.lens, m.lens) BY <1>5, <1>6, <1>11, <1>12
<1> QED BY <1>6, <1>13 DEF l, m

LEMMA NextFits == Types /\ TablesInv /\ [Next]_vars => TablesInv'
<1> SUFFICES ASSUME Types, TablesInv, [Next]_vars PROVE TablesInv' OBVIOUS
<1> DEFINE Stay == /\ lit' = lit /\ dist' = dist
                   /\ pc' \in {"lengths", "length"} => pc \in {"lengths", "length"}
                   /\ Going({"codes", "token", "copy"})' => Going({"codes", "token", "copy"}) /\ Block' = Block
<1>1. ASSUME Stay PROVE TablesInv' BY <1>1, TablesStay
<1> USE DEF Types
<1>2. CASE UNCHANGED vars
  <2>1. Stay BY <1>2 DEF vars, attempt, codes, flushing, Going, Block
  <2> QED BY <1>1, <2>1
<1>3. CASE uncompress_kernel
  <2>1. lit' = NoTable /\ dist' = NoTable /\ pc' = "header" BY <1>3 DEF uncompress_kernel
  <2>2. TableFits(NoTable) BY DEF TableFits, NoTable
  <2> QED BY <2>1, <2>2 DEF TablesInv, Going, Flushing
<1>4. CASE get_method \/ NEEDBITS \/ ReadTrailer \/ DUMPBITS
  <2>1. /\ codes' = codes /\ file' = file /\ blk' = blk /\ ret' = ret
        /\ pc' = pc \/ pc' \in {"header", "trailer", "lost", "fail"}
    BY <1>4, HeaderFrame, NeedFrame, TrailerFrame, DumpFrame DEF attempt, flushing
  <2>2. Stay BY <2>1 DEF codes, Going, Block, Flushing
  <2> QED BY <1>1, <2>2
<1>5. CASE BlockType
  <2>1. /\ pc = "type" /\ file' = file /\ blk' = blk /\ ret' = ret
        /\ Block.type \in 0 .. 3 /\ blk \in 1 .. Len(file.blocks) /\ Block' = Block
    BY <1>5, FileFacts, BlockFacts DEF BlockType, Ready, attempt, flushing, Block, PlaceTypes, Going
  <2>2. CASE Block.type # 1
    <3>1. lit' = lit /\ dist' = dist /\ pc' \in {"stored_length", "dynamic", "fail"}
      <4>1. CASE Block.type = 0 BY <1>5, <4>1 DEF BlockType
      <4>2. CASE Block.type = 2 BY <1>5, <4>2 DEF BlockType
      <4>3. CASE Block.type = 3 BY <1>5, <4>3 DEF BlockType, Fail
      <4> QED BY <2>1, <2>2, <4>1, <4>2, <4>3
    <3>2. Stay BY <3>1 DEF Going, Flushing
    <3> QED BY <1>1, <3>2
  <2>3. CASE Block.type = 1
    <3>1. /\ lit' = huft_build(FixedLengths, 7) /\ dist' = huft_build(FixedDistances, 5)
          /\ pc' = "codes"
      BY <1>5, <2>3 DEF BlockType
    <3>2. Coded(Block.toks, FixedLengths, FixedDistances) BY <2>1, <2>3, BlockFacts DEF BlockSound, PlaceTypes
    <3>3. TableFits(lit') /\ TableFits(dist') /\ Coded(Block.toks, lit'.lens, dist'.lens)
      BY <3>1, <3>2, FixedTables
    <3> QED BY <2>1, <3>1, <3>3 DEF TablesInv
  <2> QED BY <2>2, <2>3
<1>6. CASE BuildTree
  <2>1. /\ pc = "tree" /\ pc' \in {"fail", "lengths"}
        /\ lit' = huft_build(BitLengths, 7) /\ dist' = dist
    BY <1>6 DEF BuildTree, Ready, Fail
  <2>2. blk \in 1 .. Len(file.blocks) /\ Block.type = 2 /\ file \in Files
    BY <2>1, FileFacts DEF PlaceTypes, Going
  <2>3. /\ TableFits(lit') /\ Len(lit'.lens) = 19 /\ lit'.bits <= 7
        /\ \A i \in 1 .. 19 : lit'.lens[i] <= lit'.bits
    BY <2>1, <2>2, TreeTable
  <2>4. TableFits(dist') BY <2>1 DEF TablesInv
  <2> QED BY <2>1, <2>3, <2>4 DEF TablesInv, Going, Flushing
<1>7. CASE BuildCodes
  <2>1. /\ pc = "lengths" /\ Len(ll) = Block.nl + Block.nd /\ pc' \in {"fail", "codes"}
        /\ lit' = huft_build(SubSeq(ll, 1, Block.nl), lbits)
        /\ dist' = huft_build(SubSeq(ll, Block.nl + 1, Len(ll)), dbits)
        /\ Block' = Block
    BY <1>7 DEF BuildCodes, Ready, Fail, Block, attempt
  <2>2. TableFits(lit') /\ TableFits(dist') /\ Coded(Block.toks, lit'.lens, dist'.lens)
    BY <2>1, SentTables
  <2> QED BY <2>1, <2>2 DEF TablesInv
<1>8. CASE inflate
  <2>1. Stay
    BY <1>8 DEF inflate, Ready, Fail, Output, FlushDone, EndBlock, attempt, codes, flushing, outputs, PlaceTypes, Places, Going, Flushing, Decoding, Asking, Returns, Block
  <2> QED BY <1>1, <2>1
<1>9. CASE inflate_block
  <2>1. Stay
    BY <1>9 DEF inflate_block, Ready, Fail, Output, FlushDone, EndBlock, attempt, codes, flushing, outputs, PlaceTypes, Places, Going, Flushing, Decoding, Asking, Returns, Block
  <2> QED BY <1>1, <2>1
<1>10. CASE StoredLength
  <2>1. Stay
    BY <1>10 DEF StoredLength, Ready, Fail, Output, FlushDone, EndBlock, attempt, codes, flushing, outputs, PlaceTypes, Places, Going, Flushing, Decoding, Asking, Returns, Block
  <2> QED BY <1>1, <2>1
<1>11. CASE inflate_stored
  <2>1. Stay
    BY <1>11 DEF inflate_stored, Ready, Fail, Output, FlushDone, EndBlock, attempt, codes, flushing, outputs, PlaceTypes, Places, Going, Flushing, Decoding, Asking, Returns, Block
  <2> QED BY <1>1, <2>1
<1>12. CASE StoredByte
  <2>1. Stay
    BY <1>12 DEF StoredByte, Ready, Fail, Output, FlushDone, EndBlock, attempt, codes, flushing, outputs, PlaceTypes, Places, Going, Flushing, Decoding, Asking, Returns, Block
  <2> QED BY <1>1, <2>1
<1>13. CASE inflate_dynamic
  <2>1. Stay
    BY <1>13 DEF inflate_dynamic, Ready, Fail, Output, FlushDone, EndBlock, attempt, codes, flushing, outputs, PlaceTypes, Places, Going, Flushing, Decoding, Asking, Returns, Block
  <2> QED BY <1>1, <2>1
<1>14. CASE ReadLength
  <2>1. Stay
    BY <1>14, SMTT(30) DEF ReadLength, Ready, Fail, Output, FlushDone, EndBlock, attempt, codes, flushing, outputs, PlaceTypes, Places, Going, Flushing, Decoding, Asking, Returns, Block
  <2> QED BY <1>1, <2>1
<1>15. CASE LengthRun
  <2>1. Stay
    BY <1>15 DEF LengthRun, Ready, Fail, Output, FlushDone, EndBlock, attempt, codes, flushing, outputs, PlaceTypes, Places, Going, Flushing, Decoding, Asking, Returns, Block
  <2> QED BY <1>1, <2>1
<1>16. CASE inflate_codes
  <2>1. Stay
    BY <1>16 DEF inflate_codes, Ready, Fail, Output, FlushDone, EndBlock, attempt, codes, flushing, outputs, PlaceTypes, Places, Going, Flushing, Decoding, Asking, Returns, Block
  <2> QED BY <1>1, <2>1
<1>17. CASE Literal
  <2>1. Stay
    BY <1>17 DEF Literal, Ready, Fail, Output, FlushDone, EndBlock, attempt, codes, flushing, outputs, PlaceTypes, Places, Going, Flushing, Decoding, Asking, Returns, Block
  <2> QED BY <1>1, <2>1
<1>18. CASE EndOfBlock
  <2>1. Stay
    BY <1>18 DEF EndOfBlock, Ready, Fail, Output, FlushDone, EndBlock, attempt, codes, flushing, outputs, PlaceTypes, Places, Going, Flushing, Decoding, Asking, Returns, Block
  <2> QED BY <1>1, <2>1
<1>19. CASE StartCopy
  <2>1. Stay
    BY <1>19 DEF StartCopy, Ready, Fail, Output, FlushDone, EndBlock, attempt, codes, flushing, outputs, PlaceTypes, Places, Going, Flushing, Decoding, Asking, Returns, Block
  <2> QED BY <1>1, <2>1
<1>20. CASE Copy
  <2>1. Stay
    BY <1>20 DEF Copy, Ready, Fail, Output, FlushDone, EndBlock, attempt, codes, flushing, outputs, PlaceTypes, Places, Going, Flushing, Decoding, Asking, Returns, Block
  <2> QED BY <1>1, <2>1
<1>21. CASE LostLiteral
  <2>1. Stay
    BY <1>21 DEF LostLiteral, Ready, Fail, Output, FlushDone, EndBlock, attempt, codes, flushing, outputs, PlaceTypes, Places, Going, Flushing, Decoding, Asking, Returns, Block
  <2> QED BY <1>1, <2>1
<1>22. CASE LostEnd
  <2>1. Stay
    BY <1>22 DEF LostEnd, Ready, Fail, Output, FlushDone, EndBlock, attempt, codes, flushing, outputs, PlaceTypes, Places, Going, Flushing, Decoding, Asking, Returns, Block
  <2> QED BY <1>1, <2>1
<1>23. CASE UndoLookahead
  <2>1. Stay
    BY <1>23 DEF UndoLookahead, Ready, Fail, Output, FlushDone, EndBlock, attempt, codes, flushing, outputs, PlaceTypes, Places, Going, Flushing, Decoding, Asking, Returns, Block
  <2> QED BY <1>1, <2>1
<1>24. CASE flush_window
  <2>1. Stay
    BY <1>24 DEF flush_window, Ready, Fail, Output, FlushDone, EndBlock, attempt, codes, flushing, outputs, PlaceTypes, Places, Going, Flushing, Decoding, Asking, Returns, Block
  <2> QED BY <1>1, <2>1
<1>25. CASE CopyChunk
  <2>1. Stay
    BY <1>25 DEF CopyChunk, Ready, Fail, Output, FlushDone, EndBlock, attempt, codes, flushing, outputs, PlaceTypes, Places, Going, Flushing, Decoding, Asking, Returns, Block
  <2> QED BY <1>1, <2>1
<1>26. CASE NoChunkLeft
  <2>1. Stay
    BY <1>26 DEF NoChunkLeft, Ready, Fail, Output, FlushDone, EndBlock, attempt, codes, flushing, outputs, PlaceTypes, Places, Going, Flushing, Decoding, Asking, Returns, Block
  <2> QED BY <1>1, <2>1
<1>27. CASE Validate
  <2>1. Stay
    BY <1>27 DEF Validate, Ready, Fail, Output, FlushDone, EndBlock, attempt, codes, flushing, outputs, PlaceTypes, Places, Going, Flushing, Decoding, Asking, Returns, Block
  <2> QED BY <1>1, <2>1
<1> QED BY <1>2, <1>3, <1>4, <1>5, <1>6, <1>7, <1>8, <1>9, <1>10, <1>11, <1>12, <1>13, <1>14, <1>15, <1>16, <1>17, <1>18, <1>19, <1>20, <1>21, <1>22, <1>23, <1>24, <1>25, <1>26, <1>27 DEF Next, Step

(* Only the last read of a code without a meaning is not fine. *)
Mostly(rs) == rs \in Seq(Answers) /\ \A i \in 1 .. Len(rs) - 1 : rs[i] \in Fine

(* What is asked for: fine, but for the last read of an invalid code.       *)
ReadsInv == reads \in Seq(Fine) \/ (pc = "token" /\ Invalid /\ Mostly(reads))

LEMMA FineIs ==
  /\ \A need, used \in 0 .. 16 : used <= need /\ need - used <= 8 => << need, used >> \in Fine
  /\ \A need \in 0 .. 16 : << need, 0 >> \in Answers
  /\ \A x \in Fine : << x >> \in Seq(Fine)
  /\ \A x, y \in Fine : << x, y >> \in Seq(Fine)
<1>1. ASSUME NEW need \in 0 .. 16, NEW used \in 0 .. 16, used <= need, need - used <= 8
      PROVE  << need, used >> \in Fine
  <2> DEFINE r == << need, used >>
  <2>1. r[1] = need /\ r[2] = used /\ r \in (0 .. 16) \X (0 .. 16) OBVIOUS
  <2>2. r[2] <= r[1] /\ r[1] - r[2] <= 8 BY <1>1, <2>1
  <2> HIDE DEF r
  <2>3. r \in Fine BY <2>1, <2>2 DEF Fine
  <2> QED BY <2>3 DEF r
<1>2. ASSUME NEW need \in 0 .. 16 PROVE << need, 0 >> \in Answers
  <2> DEFINE r == << need, 0 >>
  <2>1. r[2] = 0 /\ r \in (0 .. 16) \X (0 .. 16) OBVIOUS
  <2> HIDE DEF r
  <2>2. r \in Answers BY <2>1 DEF Answers
  <2> QED BY <2>2 DEF r
<1>3. \A x \in Fine : << x >> \in Seq(Fine) OBVIOUS
<1>4. \A x, y \in Fine : << x, y >> \in Seq(Fine) OBVIOUS
<1> QED BY <1>1, <1>2, <1>3, <1>4

LEMMA ExtraFine == ASSUME NEW bits \in 0 .. 16 PROVE Extra(bits) \in Seq(Fine)
<1>1. << bits, bits >> \in Fine
  <2>1. bits <= bits /\ bits - bits <= 8 OBVIOUS
  <2> QED BY <2>1, FineIs
<1> QED BY <1>1, FineIs DEF Extra

LEMMA CodeFine ==
  ASSUME NEW t, TableFits(t), NEW sym \in Nat, sym < Len(t.lens), t.lens[sym + 1] # 0,
         NEW second \in Second(t, sym)
  PROVE  CodeReads(t, sym, second) \in Seq(Fine)
<1>1. sym + 1 \in 1 .. Len(t.lens) BY DEF TableFits
<1>2. PICK len \in 0 .. 15 : len = t.lens[sym + 1] BY <1>1 DEF TableFits
<1>3. PICK bits \in 0 .. 15 : bits = t.bits BY DEF TableFits
<1>4. PICK longest \in 0 .. 15 : longest = t.longest BY DEF TableFits
<1>5. /\ len # 0 /\ len <= longest
      /\ len <= bits => bits - len <= 8
      /\ len > bits => longest - len <= 8
  BY <1>1, <1>2, <1>3, <1>4, Zenon DEF TableFits
<1>6. CASE len <= bits
  <2>1. CodeReads(t, sym, second) = << << bits, len >> >> BY <1>2, <1>3, <1>6 DEF CodeReads
  <2>2. bits \in 0 .. 16 /\ len \in 0 .. 16 OBVIOUS
  <2>3. << bits, len >> \in Fine BY <1>5, <1>6, <2>2, FineIs
  <2> QED BY <2>1, <2>3, FineIs
<1>7. CASE ~(len <= bits)
  <2>1. CodeReads(t, sym, second) = << << bits, bits >>, << second - bits, len - bits >> >>
    BY <1>2, <1>3, <1>7 DEF CodeReads
  <2>2. second \in len .. longest BY <1>2, <1>3, <1>4, <1>7 DEF Second
  <2>3. << bits, bits >> \in Fine
    <3>1. bits \in 0 .. 16 /\ bits <= bits /\ bits - bits <= 8 OBVIOUS
    <3> QED BY <3>1, FineIs
  <2>4. /\ second - bits \in 0 .. 16 /\ len - bits \in 0 .. 16
        /\ len - bits <= second - bits /\ (second - bits) - (len - bits) <= 8
    BY <1>5, <1>7, <2>2
  <2>5. << second - bits, len - bits >> \in Fine BY <2>4, FineIs
  <2> QED BY <2>1, <2>3, <2>5, FineIs
<1> QED BY <1>6, <1>7

LEMMA MostlyFacts ==
  /\ \A f \in Seq(Fine), r \in Seq(Fine) : f \o r \in Seq(Fine)
  /\ \A f \in Seq(Fine), x \in Answers : Mostly(f \o << x >>)
  /\ \A f, g \in Seq(Fine), x \in Answers : Mostly(f \o (g \o << x >>))
<1>1. Fine \subseteq Answers BY DEF Answers, Fine
<1>2. \A f \in Seq(Fine), r \in Seq(Fine) : f \o r \in Seq(Fine) OBVIOUS
<1>3. ASSUME NEW f \in Seq(Fine), NEW x \in Answers PROVE Mostly(f \o << x >>)
  <2>1. f \in Seq(Answers) /\ << x >> \in Seq(Answers) BY <1>1
  <2>2. f \o << x >> \in Seq(Answers) /\ Len(f \o << x >>) = Len(f) + 1 BY <2>1
  <2>3. \A i \in 1 .. Len(f) : (f \o << x >>)[i] = f[i] /\ f[i] \in Fine OBVIOUS
  <2>4. Len(f) + 1 - 1 = Len(f) OBVIOUS
  <2> QED BY <2>2, <2>3, <2>4 DEF Mostly
<1>4. ASSUME NEW f \in Seq(Fine), NEW g \in Seq(Fine), NEW x \in Answers
      PROVE  Mostly(f \o (g \o << x >>))
  <2>1. f \o (g \o << x >>) = (f \o g) \o << x >>
    <3>1. f \in Seq(Answers) /\ g \in Seq(Answers) /\ << x >> \in Seq(Answers) BY <1>1
    <3> QED BY <3>1, ConcatAssociative
  <2>2. f \o g \in Seq(Fine) BY <1>2
  <2> QED BY <1>3, <2>1, <2>2
<1> QED BY <1>2, <1>3, <1>4

LEMMA ExtraBits ==
  /\ \A s \in 1 .. 31 : cplext[s] # 99 => cplext[s] \in 0 .. 16
  /\ \A s \in 1 .. 30 : cpdext[s] \in 0 .. 16
<1>1. \A s \in 1 .. 31 : cplext[s] # 99 => cplext[s] \in 0 .. 16 BY DEF cplext
<1>2. \A s \in 1 .. 30 : cpdext[s] \in 0 .. 16 BY DEF cpdext
<1> QED BY <1>1, <1>2

(* What is read of a literal, the end of a block or a copy. *)
LEMMA CodesReads ==
  ASSUME Types, TablesInv, inflate_codes
  PROVE  ReadsInv'
<1>1. /\ pc = "codes" /\ pc' = "token" /\ codes' = codes /\ file' = file /\ blk' = blk /\ tok' = tok
  BY DEF inflate_codes, Ready, attempt
<1>2. /\ file \in Files /\ blk \in 1 .. Len(file.blocks) /\ Block.type \in 1 .. 2
      /\ tok \in DOMAIN Block.toks
  BY <1>1, FileFacts DEF Types, PlaceTypes, Going
<1>3. TableFits(lit) /\ TableFits(dist) /\ Coded(Block.toks, lit.lens, dist.lens)
  BY <1>1 DEF TablesInv, Going
<1>4. TokensSound(Block.toks) BY <1>2, BlockFacts
<1>5. Token.sym \in 0 .. 287 /\ Token.dsym \in Nat BY <1>2, <1>4, TokenFacts, ZenonT(30) DEF Token
<1>6. /\ Token.sym < Len(lit.lens) /\ lit.lens[Token.sym + 1] # 0
      /\ Token.sym > EOB /\ Token.dsym < Len(dist.lens) => dist.lens[Token.dsym + 1] # 0
  BY <1>2, <1>3, Zenon DEF Coded, Token
<1>7. PICK sl \in Second(lit, Token.sym) :
       IF Token.sym <= EOB \/ cplext[Token.sym - EOB] = 99
       THEN reads' = CodeReads(lit, Token.sym, sl)
       ELSE \E sd \in IF Token.dsym < Len(dist.lens) THEN Second(dist, Token.dsym) ELSE {0} :
              reads' = CodeReads(lit, Token.sym, sl) \o CopyReads(sd)
  BY DEF inflate_codes
<1> DEFINE first == CodeReads(lit, Token.sym, sl)
           s == Token.sym - EOB
<1>8. first \in Seq(Fine)
  <2>1. Token.sym \in Nat BY <1>5
  <2> QED BY <1>3, <1>6, <2>1, CodeFine
<1> HIDE DEF first
<1>9. CASE Token.sym <= EOB \/ cplext[s] = 99
  <2>1. reads' = first BY <1>7, <1>9 DEF first
  <2> QED BY <1>8, <2>1 DEF ReadsInv
<1>10. CASE ~(Token.sym <= EOB \/ cplext[s] = 99)
  <2>1. PICK sd \in IF Token.dsym < Len(dist.lens) THEN Second(dist, Token.dsym) ELSE {0} :
               reads' = first \o CopyReads(sd)
    BY <1>7, <1>10 DEF first
  <2>2. Token.sym > EOB /\ s \in 1 .. 31
    <3>1. ~(Token.sym <= EOB) BY <1>10
    <3>2. \A x \in 0 .. 287 : ~(x <= EOB) => x > EOB /\ x - EOB \in 1 .. 31 BY DEF EOB
    <3> QED BY <1>5, <3>1, <3>2, Zenon
  <2>3. Extra(cplext[s]) \in Seq(Fine)
    <3>1. cplext[s] \in 0 .. 16 BY <1>10, <2>2, ExtraBits
    <3> QED BY <3>1, ExtraFine
  <2>4. Len(dist.lens) \in 0 .. 30
    <3>1. dist.lens \in Seq(0 .. 15) /\ Len(dist.lens) <= 30 BY DEF Types, TableTypes
    <3>2. Len(dist.lens) \in Nat BY <3>1
    <3>3. \A x \in Nat : x <= 30 => x \in 0 .. 30 OBVIOUS
    <3> QED BY <3>1, <3>2, <3>3, Zenon
  <2>5. CASE Token.dsym < Len(dist.lens)
    <3>1. sd \in Second(dist, Token.dsym) BY <2>1, <2>5
    <3>2. CodeReads(dist, Token.dsym, sd) \in Seq(Fine) BY <1>3, <1>5, <1>6, <2>2, <2>5, <3>1, CodeFine
    <3>3. Token.dsym + 1 \in 1 .. 30
      <4>1. \A x \in Nat, y \in 0 .. 30 : x < y => x + 1 \in 1 .. 30 OBVIOUS
      <4> QED BY <1>5, <2>4, <2>5, <4>1, Zenon
    <3>4. cpdext[Token.dsym + 1] \in 0 .. 16 BY <3>3, ExtraBits
    <3>5. Extra(cpdext[Token.dsym + 1]) \in Seq(Fine) BY <3>4, ExtraFine
    <3>6. CopyReads(sd) = Extra(cplext[s]) \o (CodeReads(dist, Token.dsym, sd) \o Extra(cpdext[Token.dsym + 1]))
      BY <2>5 DEF CopyReads
    <3>7. CopyReads(sd) \in Seq(Fine) BY <2>3, <3>2, <3>5, <3>6, MostlyFacts
    <3>8. reads' \in Seq(Fine) BY <1>8, <2>1, <3>7, MostlyFacts
    <3> QED BY <3>8 DEF ReadsInv
  <2>6. CASE ~(Token.dsym < Len(dist.lens))
    <3>1. CopyReads(sd) = Extra(cplext[s]) \o << << dist.bits, 0 >> >> BY <2>6 DEF CopyReads
    <3>2. << dist.bits, 0 >> \in Answers
      <4>1. PICK bits \in 0 .. 15 : bits = dist.bits BY <1>3 DEF TableFits
      <4>2. bits \in 0 .. 16 OBVIOUS
      <4> QED BY <4>1, <4>2, FineIs
    <3>3. Mostly(reads') BY <1>8, <2>1, <2>3, <3>1, <3>2, MostlyFacts
    <3>4. Token.dsym >= Len(dist.lens) BY <1>5, <2>4, <2>6
    <3>5. Invalid BY <2>2, <3>4 DEF Invalid
    <3>6. Invalid' BY <1>1, <3>5 DEF Invalid, Token, Block, codes
    <3> QED BY <1>1, <3>3, <3>6 DEF ReadsInv
  <2> QED BY <2>5, <2>6
<1> QED BY <1>9, <1>10

(* One of the codes for code lengths is no longer than what is looked up. *)
LEMMA LengthReads ==
  ASSUME Types, TablesInv, ReadLength
  PROVE  reads' \in Seq(Fine)
<1> DEFINE j == Block.ops[tok].j
<1>1. pc = "lengths" /\ reads' = CodeReads(lit, j, 0) \o Extra(RepeatBits(j))
  BY DEF ReadLength, Ready
<1>2. TableTypes' BY NextTables DEF Next, Step
<1>3. tok \in 1 .. Len(Block.ops)
  <2>1. pc' = "length" /\ tok' = tok /\ Block' = Block BY DEF ReadLength, Block, attempt
  <2> QED BY <1>2, <2>1 DEF TableTypes
<1>4. j \in 0 .. 18
  <2>1. /\ file \in Files /\ blk \in 1 .. Len(file.blocks) /\ Block.type = 2
        /\ Block.nl <= 286 /\ Block.nd <= 30
    BY <1>1, FileFacts DEF Types, PlaceTypes, Going
  <2> QED BY <1>3, <2>1, OpsFacts
<1>5. /\ TableFits(lit) /\ Len(lit.lens) = 19 /\ lit.bits <= 7
      /\ \A i \in 1 .. 19 : lit.lens[i] <= lit.bits
  BY <1>1 DEF TablesInv
<1> HIDE DEF j
<1>6. j + 1 \in 1 .. 19 BY <1>4
<1>7. PICK bits \in 0 .. 7 : bits = lit.bits
  <2>1. PICK x \in 0 .. 15 : x = lit.bits BY <1>5 DEF TableFits
  <2>2. x <= 7 BY <1>5, <2>1
  <2> QED BY <2>1, <2>2
<1>8. PICK len \in 0 .. 15 : len = lit.lens[j + 1]
  <2>1. lit.lens \in Seq(0 .. 15) BY <1>5 DEF TableFits
  <2>2. PICK lens \in Seq(0 .. 15) : lens = lit.lens BY <2>1
  <2>3. Len(lens) = 19 BY <1>5, <2>2
  <2>4. \A i \in 1 .. 19 : lens[i] \in 0 .. 15
    <3>1. \A i \in 1 .. Len(lens) : lens[i] \in 0 .. 15 OBVIOUS
    <3> QED BY <2>3, <3>1
  <2>5. lens[j + 1] \in 0 .. 15 BY <1>6, <2>4
  <2> QED BY <2>2, <2>5
<1>9. len <= bits BY <1>5, <1>6, <1>7, <1>8
<1>10. CodeReads(lit, j, 0) = << << bits, len >> >> BY <1>7, <1>8, <1>9 DEF CodeReads
<1>11. << bits, len >> \in Fine
  <2>1. bits \in 0 .. 16 /\ len \in 0 .. 16 /\ bits - len <= 8 BY <1>9
  <2> QED BY <1>9, <2>1, FineIs
<1>12. CodeReads(lit, j, 0) \in Seq(Fine) BY <1>10, <1>11, FineIs
<1>13. RepeatBits(j) \in 0 .. 16 BY <1>4 DEF RepeatBits
<1> QED BY <1>1, <1>12, <1>13, ExtraFine, MostlyFacts

LEMMA NextReads == Types /\ TablesInv /\ ReadsInv /\ [Next]_vars => ReadsInv'
<1> SUFFICES ASSUME Types, TablesInv, ReadsInv, [Next]_vars PROVE ReadsInv' OBVIOUS
<1> USE DEF Types
<1>1. ASSUME reads' \in Seq(Fine) PROVE ReadsInv' BY <1>1 DEF ReadsInv
<1>2. ASSUME pc' = pc, reads' = reads \/ (reads # << >> /\ reads' = Tail(reads)),
           codes' = codes, file' = file, blk' = blk, tok' = tok
      PROVE  ReadsInv'
  <2>1. Invalid' = Invalid BY <1>2 DEF Invalid, Token, Block, codes
  <2>2. CASE reads \in Seq(Fine)
    <3>1. reads' \in Seq(Fine)
      <4>1. CASE reads' = reads BY <2>2, <4>1
      <4>2. CASE reads' # reads
        <5>1. reads' = Tail(reads) /\ reads # << >> BY <1>2, <2>2, <4>2
        <5> QED BY <2>2, <5>1
      <4> QED BY <4>1, <4>2
    <3> QED BY <1>1, <3>1
  <2>3. CASE pc = "token" /\ Invalid /\ Mostly(reads)
    <3>1. Mostly(reads')
      <4>1. CASE reads' = reads BY <2>3, <4>1
      <4>2. CASE reads' # reads
        <5>1. reads' = Tail(reads) /\ reads # << >> BY <1>2, <2>3, <4>2 DEF Mostly
        <5>2. reads \in Seq(Answers) /\ \A i \in 1 .. Len(reads) - 1 : reads[i] \in Fine
          BY <2>3 DEF Mostly
        <5>3. reads' \in Seq(Answers) /\ Len(reads') = Len(reads) - 1 BY <5>1, <5>2
        <5>4. ASSUME NEW i \in 1 .. Len(reads') - 1 PROVE reads'[i] \in Fine
          <6>1. reads'[i] = reads[i + 1] /\ i + 1 \in 1 .. Len(reads) - 1 BY <5>1, <5>2, <5>3
          <6> QED BY <5>2, <6>1
        <5> QED BY <5>3, <5>4 DEF Mostly
      <4> QED BY <4>1, <4>2
    <3> QED BY <1>2, <2>1, <2>3, <3>1 DEF ReadsInv
  <2> QED BY <2>2, <2>3 DEF ReadsInv
<1>3. << >> \in Seq(Fine) OBVIOUS
<1>4. CASE UNCHANGED vars
  <2>1. /\ reads' = reads /\ pc' = pc /\ codes' = codes /\ file' = file /\ blk' = blk /\ tok' = tok
    BY <1>4 DEF vars, attempt, codes
  <2> QED BY <1>1, <1>2, <1>3, <2>1
<1>5. CASE NEEDBITS
  <2>1. /\ codes' = codes /\ file' = file /\ blk' = blk /\ tok' = tok
        /\ reads' = << >> \/ (pc' = pc /\ reads' = reads)
    BY <1>5, NeedFrame DEF attempt
  <2> QED BY <1>1, <1>2, <1>3, <2>1
<1>6. CASE DUMPBITS
  <2>1. /\ codes' = codes /\ file' = file /\ blk' = blk /\ tok' = tok
        /\ reads' = << >> \/ (pc' = pc /\ reads # << >> /\ reads' = Tail(reads))
    BY <1>6 DEF DUMPBITS, attempt
  <2> QED BY <1>1, <1>2, <1>3, <2>1
<1>7. CASE inflate_block
  <2>1. reads' = Extra(1) \o Extra(2) BY <1>7 DEF inflate_block
  <2>2. 1 \in 0 .. 16 /\ 2 \in 0 .. 16 OBVIOUS
  <2> QED BY <1>1, <2>1, <2>2, ExtraFine, MostlyFacts
<1>8. CASE BlockType
  <2>1. \/ reads' = << >> \/ reads' = Extra(16) \o Extra(16)
        \/ reads' = Extra(5) \o Extra(5) \o Extra(4)
    <3>1. Block.type \in 0 .. 3 BY <1>8, FileFacts, BlockFacts DEF BlockType, Ready, PlaceTypes, Going
    <3>2. CASE Block.type = 0 BY <1>8, <3>2 DEF BlockType
    <3>3. CASE Block.type = 1 BY <1>8, <3>3 DEF BlockType, Ready
    <3>4. CASE Block.type = 2 BY <1>8, <3>4, SMTT(30) DEF BlockType
    <3>5. CASE Block.type = 3 BY <1>8, <3>5 DEF BlockType, Ready
    <3>6. \A x \in 0 .. 3 : x = 0 \/ x = 1 \/ x = 2 \/ x = 3 OBVIOUS
    <3> QED BY <3>1, <3>2, <3>3, <3>4, <3>5, <3>6, Zenon
  <2>2. 16 \in 0 .. 16 /\ 5 \in 0 .. 16 /\ 4 \in 0 .. 16 OBVIOUS
  <2>3. Extra(16) \in Seq(Fine) /\ Extra(5) \in Seq(Fine) /\ Extra(4) \in Seq(Fine)
    BY <2>2, ExtraFine
  <2>4. Extra(16) \o Extra(16) \in Seq(Fine) /\ Extra(5) \o Extra(5) \in Seq(Fine)
    BY <2>3, MostlyFacts
  <2>5. Extra(5) \o Extra(5) \o Extra(4) \in Seq(Fine) BY <2>3, <2>4, MostlyFacts
  <2> QED BY <1>1, <1>3, <2>1, <2>4, <2>5
<1>9. CASE inflate_stored
  <2>1. reads' = << >> \/ reads' = Extra(8) BY <1>9 DEF inflate_stored, Ready
  <2>2. 8 \in 0 .. 16 OBVIOUS
  <2> QED BY <1>1, <1>3, <2>1, <2>2, ExtraFine
<1>10. CASE inflate_dynamic
  <2>1. CASE reads' = << >> BY <1>1, <1>3, <2>1
  <2>2. CASE reads' # << >>
    <3>1. pc = "dynamic" /\ reads' = [j \in 1 .. Block.nb |-> << 3, 3 >>]
      BY <1>10, <2>2 DEF inflate_dynamic, Ready
    <3>2. PICK nb \in Nat : nb = Block.nb
      <4>1. BlockSound(Block) /\ Block.type = 2 BY <3>1, FileFacts, BlockFacts DEF PlaceTypes, Going
      <4>2. Block.nb \in 0 .. 19 BY <4>1 DEF BlockSound
      <4> QED BY <4>2
    <3>3. << 3, 3 >> \in Fine BY DEF Fine
    <3>4. [j \in 1 .. nb |-> << 3, 3 >>] \in [1 .. nb -> Fine] BY <3>3
    <3> QED BY <1>1, <3>1, <3>2, <3>4, SeqOfFunction
  <2> QED BY <2>1, <2>2
<1>11. CASE ReadLength BY <1>1, <1>11, LengthReads
<1>12. CASE inflate_codes BY <1>12, CodesReads
<1>13. CASE LostLiteral
  <2>1. reads' = << >> \/ reads' = << << 8, 0 >> >> BY <1>13 DEF LostLiteral
  <2>2. << 8, 0 >> \in Fine
    <3>1. 8 \in 0 .. 16 /\ 0 \in 0 .. 16 /\ 0 <= 8 /\ 8 - 0 <= 8 OBVIOUS
    <3> QED BY <3>1, FineIs
  <2>3. << << 8, 0 >> >> \in Seq(Fine) BY <2>2, FineIs
  <2> QED BY <1>1, <1>3, <2>1, <2>3
<1>14. CASE uncompress_kernel
  <2>1. reads' = << >>
    BY <1>14 DEF uncompress_kernel, Ready, PlaceTypes, Places, Flushing, Decoding, Asking
  <2> QED BY <1>1, <1>3, <2>1
<1>15. CASE get_method
  <2>1. reads' = << >>
    BY <1>15, HeaderFrame DEF get_method, Ready, PlaceTypes, Places, Flushing, Decoding, Asking
  <2> QED BY <1>1, <1>3, <2>1
<1>16. CASE inflate
  <2>1. reads' = << >>
    BY <1>16 DEF inflate, Ready, PlaceTypes, Places, Flushing, Decoding, Asking
  <2> QED BY <1>1, <1>3, <2>1
<1>17. CASE StoredLength
  <2>1. reads' = << >>
    BY <1>17 DEF StoredLength, Ready, PlaceTypes, Places, Flushing, Decoding, Asking
  <2> QED BY <1>1, <1>3, <2>1
<1>18. CASE StoredByte
  <2>1. reads' = << >>
    BY <1>18 DEF StoredByte, Ready, PlaceTypes, Places, Flushing, Decoding, Asking
  <2> QED BY <1>1, <1>3, <2>1
<1>19. CASE BuildTree
  <2>1. reads' = << >>
    BY <1>19 DEF BuildTree, Ready, PlaceTypes, Places, Flushing, Decoding, Asking
  <2> QED BY <1>1, <1>3, <2>1
<1>20. CASE LengthRun
  <2>1. reads' = << >>
    BY <1>20 DEF LengthRun, Ready, PlaceTypes, Places, Flushing, Decoding, Asking
  <2> QED BY <1>1, <1>3, <2>1
<1>21. CASE BuildCodes
  <2>1. reads' = << >>
    BY <1>21 DEF BuildCodes, Ready, PlaceTypes, Places, Flushing, Decoding, Asking
  <2> QED BY <1>1, <1>3, <2>1
<1>22. CASE Literal
  <2>1. reads' = << >>
    BY <1>22 DEF Literal, Ready, PlaceTypes, Places, Flushing, Decoding, Asking
  <2> QED BY <1>1, <1>3, <2>1
<1>23. CASE EndOfBlock
  <2>1. reads' = << >>
    BY <1>23 DEF EndOfBlock, Ready, PlaceTypes, Places, Flushing, Decoding, Asking
  <2> QED BY <1>1, <1>3, <2>1
<1>24. CASE StartCopy
  <2>1. reads' = << >>
    BY <1>24 DEF StartCopy, Ready, PlaceTypes, Places, Flushing, Decoding, Asking
  <2> QED BY <1>1, <1>3, <2>1
<1>25. CASE Copy
  <2>1. reads' = << >>
    BY <1>25 DEF Copy, Ready, PlaceTypes, Places, Flushing, Decoding, Asking
  <2> QED BY <1>1, <1>3, <2>1
<1>26. CASE LostEnd
  <2>1. reads' = << >>
    BY <1>26 DEF LostEnd, Ready, PlaceTypes, Places, Flushing, Decoding, Asking
  <2> QED BY <1>1, <1>3, <2>1
<1>27. CASE UndoLookahead
  <2>1. reads' = << >>
    BY <1>27 DEF UndoLookahead, Ready, PlaceTypes, Places, Flushing, Decoding, Asking
  <2> QED BY <1>1, <1>3, <2>1
<1>28. CASE flush_window
  <2>1. reads' = << >>
    BY <1>28 DEF flush_window, Ready, PlaceTypes, Places, Flushing, Decoding, Asking
  <2> QED BY <1>1, <1>3, <2>1
<1>29. CASE CopyChunk
  <2>1. reads' = << >>
    BY <1>29 DEF CopyChunk, Ready, PlaceTypes, Places, Flushing, Decoding, Asking
  <2> QED BY <1>1, <1>3, <2>1
<1>30. CASE NoChunkLeft
  <2>1. reads' = << >>
    BY <1>30 DEF NoChunkLeft, Ready, PlaceTypes, Places, Flushing, Decoding, Asking
  <2> QED BY <1>1, <1>3, <2>1
<1>31. CASE ReadTrailer
  <2>1. reads' = << >>
    BY <1>31, TrailerFrame DEF ReadTrailer, Ready, PlaceTypes, Places, Flushing, Decoding, Asking
  <2> QED BY <1>1, <1>3, <2>1
<1>32. CASE Validate
  <2>1. reads' = << >>
    BY <1>32 DEF Validate, Ready, PlaceTypes, Places, Flushing, Decoding, Asking
  <2> QED BY <1>1, <1>3, <2>1
<1> QED BY <1>4, <1>5, <1>6, <1>7, <1>8, <1>9, <1>10, <1>11, <1>12, <1>13, <1>14, <1>15, <1>16, <1>17, <1>18, <1>19, <1>20, <1>21, <1>22, <1>23, <1>24, <1>25, <1>26, <1>27, <1>28, <1>29, <1>30, <1>31, <1>32 DEF Next, Step

(* Where what is in the bit buffer will be given back. *)
Filling == pc \in Decoding \/ (pc \in Flushing /\ ret # "trailer")

(* What is read ahead is less than two bytes, but while more is asked for.  *)
Lookahead ==
  \/ Len(b) <= 15
  \/ reads # << >> /\ Len(b) <= Head(reads)[1] + 7
  \/ reads = << >> /\ pc = "token" /\ Invalid

(* The bit buffer, which is 32 bits in the code.                            *)
BitsInv == IsSeq(b) /\ Len(b) <= 23 /\ (Filling => Lookahead)

LEMMA AnySeq ==
  ASSUME NEW S, NEW s \in Seq(S)
  PROVE  IsSeq(s)
<1>1. Len(s) \in Nat /\ DOMAIN s = 1 .. Len(s) /\ s = [i \in 1 .. Len(s) |-> s[i]] OBVIOUS
<1>2. s \in [1 .. Len(s) -> {s[i] : i \in DOMAIN s}]
  <2> DEFINE T == {s[i] : i \in DOMAIN s}
  <2>1. \A i \in 1 .. Len(s) : s[i] \in T BY <1>1
  <2> HIDE DEF T
  <2>2. s \in [1 .. Len(s) -> T] BY <1>1, <2>1
  <2> QED BY <2>2 DEF T
<1>3. s \in Seq({s[i] : i \in DOMAIN s})
  <2> DEFINE T == {s[i] : i \in DOMAIN s}
  <2>1. s \in [1 .. Len(s) -> T] BY <1>2
  <2> HIDE DEF T
  <2>2. s \in Seq(T) BY <1>1, <2>1, SeqOfFunction
  <2> QED BY <2>2 DEF T
<1> QED BY <1>3 DEF IsSeq

LEMMA AnyConcat ==
  ASSUME NEW s, NEW t, IsSeq(s), IsSeq(t)
  PROVE  IsSeq(s \o t) /\ Len(s \o t) = Len(s) + Len(t)
<1> DEFINE S == {s[i] : i \in DOMAIN s}
           T == {t[i] : i \in DOMAIN t}
<1>1. s \in Seq(S) /\ t \in Seq(T) BY DEF IsSeq
<1> HIDE DEF S, T
<1>2. s \in Seq(S \cup T) /\ t \in Seq(S \cup T)
  <2>1. s \in [1 .. Len(s) -> S] /\ Len(s) \in Nat /\ S \subseteq S \cup T BY <1>1
  <2>2. t \in [1 .. Len(t) -> T] /\ Len(t) \in Nat /\ T \subseteq S \cup T BY <1>1
  <2> QED BY <2>1, <2>2, LongerSet
<1>3. s \o t \in Seq(S \cup T) /\ Len(s \o t) = Len(s) + Len(t) BY <1>2
<1> QED BY <1>3, AnySeq

LEMMA AnyPart ==
  ASSUME NEW s, IsSeq(s), NEW m \in 1 .. Len(s) + 1, NEW k \in m - 1 .. Len(s)
  PROVE  IsSeq(SubSeq(s, m, k)) /\ Len(SubSeq(s, m, k)) = k - m + 1
<1> DEFINE S == {s[i] : i \in DOMAIN s}
<1>1. s \in Seq(S) BY DEF IsSeq
<1> HIDE DEF S
<1>2. SubSeq(s, m, k) \in Seq(S) /\ Len(SubSeq(s, m, k)) = k - m + 1 BY <1>1
<1> QED BY <1>2, AnySeq

LEMMA Dropped ==
  ASSUME IsSeq(b), NEW count \in 0 .. Len(b)
  PROVE  IsSeq(Drop(count)) /\ Len(Drop(count)) = Len(b) - count
<1>1. Len(b) \in Nat BY IsSeqFacts
<1>2. count + 1 \in 1 .. Len(b) + 1 /\ Len(b) \in (count + 1) - 1 .. Len(b) BY <1>1
<1>3. IsSeq(SubSeq(b, count + 1, Len(b))) /\ Len(SubSeq(b, count + 1, Len(b))) = Len(b) - (count + 1) + 1
  BY <1>2, AnyPart
<1> QED BY <1>1, <1>3 DEF Drop

(* A byte more where there were too few bits, *)
LEMMA NeedBits ==
  ASSUME Types, ReadsInv, BitsInv, NEEDBITS
  PROVE  BitsInv'
<1>1. /\ reads # << >> /\ Len(b) < Head(reads)[1]
      /\ reads' = IF pc' = "fail" THEN << >> ELSE reads
      /\ codes' = codes /\ ret' = ret
  BY DEF NEEDBITS, flushing
<1>2. Head(reads)[1] \in 0 .. 16
  <2>1. Fine \subseteq Answers BY DEF Answers, Fine
  <2>2. reads[1] \in Answers
    <3>1. CASE reads \in Seq(Fine)
      <4>1. reads[1] \in Fine BY <1>1, <3>1
      <4> QED BY <2>1, <4>1
    <3>2. CASE Mostly(reads)
      <4>1. reads \in Seq(Answers) BY <3>2 DEF Mostly
      <4> QED BY <1>1, <4>1
    <3> QED BY <3>1, <3>2 DEF ReadsInv
  <2> QED BY <2>2 DEF Answers
<1>3. PICK need \in 0 .. 16 : need = Head(reads)[1] BY <1>2
<1>4. Len(b) \in Nat /\ Len(b) < need BY <1>1, <1>3, IsSeqFacts DEF BitsInv
<1>5. CASE get_byte(IntoBits)
  <2>1. PICK p : IntoBits(p) BY <1>5 DEF get_byte
  <2>2. b' = b \o Bits(p) /\ pc' = pc BY <2>1 DEF IntoBits
  <2>3. IsSeq(Bits(p)) /\ Len(Bits(p)) = 8
    <3> DEFINE bit(i) == IF p = 0 THEN -1 ELSE 8 * (p - 1) + i - 1
               f == [i \in 1 .. 8 |-> bit(i)]
               S == {bit(i) : i \in 1 .. 8}
    <3>1. f \in [1 .. 8 -> S]
      <4> HIDE DEF bit
      <4> QED OBVIOUS
    <3>2. Bits(p) = f BY Zenon DEF Bits
    <3>3. 8 \in Nat OBVIOUS
    <3> HIDE DEF f, S
    <3>4. f \in Seq(S) /\ Len(f) = 8 BY <3>1, <3>3, SeqOfFunction
    <3> QED BY <3>2, <3>4, AnySeq
  <2>4. IsSeq(b') /\ Len(b') = Len(b) + 8
    <3>1. IsSeq(b) BY DEF BitsInv
    <3> QED BY <2>2, <2>3, <3>1, AnyConcat
  <2>5. pc \in Asking BY <1>1 DEF Types, PlaceTypes
  <2>6. reads' = reads BY <1>1, <2>2, <2>5 DEF Asking
  <2>7. Len(b') <= 23 /\ Len(b') <= need + 7 BY <1>4, <2>4
  <2>8. Lookahead' BY <1>1, <1>3, <2>6, <2>7 DEF Lookahead
  <2> QED BY <2>4, <2>7, <2>8 DEF BitsInv
<1>6. CASE Fail /\ UNCHANGED << input, b >>
  <2>1. pc' = "fail" /\ b' = b BY <1>6 DEF Fail
  <2> QED BY <2>1 DEF BitsInv, Filling, Decoding, Asking, Flushing
<1> QED BY <1>5, <1>6 DEF NEEDBITS

(* and no more than a byte left when a code is found in them. *)
LEMMA DumpBits ==
  ASSUME Types, ReadsInv, BitsInv, DUMPBITS
  PROVE  BitsInv' /\ Head(reads)[2] \in Nat
<1>1. /\ reads # << >> /\ Len(b) >= Head(reads)[1] /\ b' = Drop(Head(reads)[2])
      /\ codes' = codes /\ ret' = ret
      /\ \/ pc' = pc /\ reads' = Tail(reads)
         \/ pc' \in {"lost", "fail"} /\ reads' = << >> /\ ~InStep(Head(reads)[2])
  BY DEF DUMPBITS, flushing
<1>2. /\ file' = file /\ blk' = blk /\ tok' = tok BY DEF DUMPBITS, attempt
<1>3. Invalid' = Invalid BY <1>1, <1>2 DEF Invalid, Token, Block, codes
<1>4. IsSeq(b) /\ Len(b) \in Nat /\ Len(b) <= 23 BY IsSeqFacts DEF BitsInv
<1>5. pc \in Asking BY <1>1 DEF Types, PlaceTypes
<1>6. Lookahead BY <1>5 DEF BitsInv, Filling, Decoding
<1>7. \/ Head(reads) \in Fine
      \/ /\ Head(reads) \in Answers /\ Head(reads)[2] = 0 /\ pc = "token" /\ Invalid
         /\ Tail(reads) = << >>
  <2>1. CASE reads \in Seq(Fine)
    <3>1. Head(reads) \in Fine BY <1>1, <2>1
    <3> QED BY <3>1
  <2>2. CASE pc = "token" /\ Invalid /\ Mostly(reads)
    <3>1. reads \in Seq(Answers) /\ \A i \in 1 .. Len(reads) - 1 : reads[i] \in Fine
      BY <2>2 DEF Mostly
    <3>2. Head(reads) \in Answers /\ Head(reads) = reads[1] /\ Len(reads) \in Nat \ {0} BY <1>1, <3>1
    <3>3. CASE Len(reads) = 1
      <4>1. Tail(reads) = << >>
        <5>1. Tail(reads) \in Seq(Answers) /\ Len(Tail(reads)) = 0 BY <1>1, <3>1, <3>3
        <5> QED BY <5>1, EmptySeq
      <4>2. Head(reads) \in Fine \/ Head(reads)[2] = 0 BY <3>2 DEF Answers
      <4> QED BY <2>2, <3>2, <4>1, <4>2
    <3>4. CASE Len(reads) # 1
      <4>1. reads[1] \in Fine
        <5>1. \A x \in Nat \ {0} : x # 1 => 1 \in 1 .. x - 1 OBVIOUS
        <5>2. 1 \in 1 .. Len(reads) - 1 BY <3>2, <3>4, <5>1
        <5> QED BY <3>1, <5>2
      <4> QED BY <3>2, <4>1
    <3> QED BY <3>3, <3>4
  <2> QED BY <2>1, <2>2 DEF ReadsInv
<1>8. PICK need \in 0 .. 16, used \in 0 .. 16 :
        need = Head(reads)[1] /\ used = Head(reads)[2] /\ used <= need
  <2>1. CASE Head(reads) \in Fine BY <2>1 DEF Fine
  <2>2. CASE Head(reads) \in Answers /\ Head(reads)[2] = 0
    <3>1. Head(reads)[1] \in 0 .. 16 BY <2>2 DEF Answers
    <3>2. 0 \in 0 .. 16 /\ \A x \in 0 .. 16 : 0 <= x OBVIOUS
    <3> QED BY <2>2, <3>1, <3>2, Zenon
  <2> QED BY <1>7, <2>1, <2>2
<1>9. need - used <= 8 \/ (used = 0 /\ pc = "token" /\ Invalid /\ Tail(reads) = << >>)
  <2>1. CASE Head(reads) \in Fine BY <1>8, <2>1 DEF Fine
  <2>2. CASE ~(Head(reads) \in Fine) BY <1>7, <1>8, <2>2
  <2> QED BY <2>1, <2>2
<1>10. Len(b) >= need BY <1>1, <1>8
<1>11. used \in 0 .. Len(b) BY <1>4, <1>8, <1>10, SMTT(30)
<1>12. IsSeq(b') /\ Len(b') = Len(b) - used BY <1>1, <1>4, <1>8, <1>11, Dropped
<1>13. Len(b') <= 23 BY <1>4, <1>12
<1>14. Len(b) <= 15 \/ Len(b) <= need + 7 BY <1>1, <1>6, <1>8 DEF Lookahead
<1>17. Head(reads)[2] \in Nat
  <2>1. used \in Nat OBVIOUS
  <2> QED BY <1>8, <2>1
<1>15. CASE need - used <= 8
  <2>1. Len(b') <= 15 BY <1>4, <1>12, <1>14, <1>15
  <2>2. Lookahead' BY <2>1 DEF Lookahead
  <2> QED BY <1>12, <1>13, <1>17, <2>2 DEF BitsInv
<1>16. CASE used = 0 /\ pc = "token" /\ Invalid /\ Tail(reads) = << >>
  <2>1. InStep(Head(reads)[2]) BY <1>8, <1>16 DEF InStep
  <2>2. reads' = << >> /\ pc' = pc BY <1>1, <1>16, <2>1
  <2>3. Lookahead' BY <1>3, <1>16, <2>2 DEF Lookahead
  <2> QED BY <1>12, <1>13, <1>17, <2>3 DEF BitsInv
<1> QED BY <1>9, <1>15, <1>16

LEMMA TokenShort ==
  ASSUME Types, pc = "token", Token.sym < EOB \/ Token.sym = EOB
  PROVE  ~(Token.sym > EOB)
<1>1. /\ file \in Files /\ blk \in 1 .. Len(file.blocks) /\ Block.type \in 1 .. 2
      /\ tok \in DOMAIN Block.toks
  BY FileFacts DEF Types, PlaceTypes, Going
<1>2. TokensSound(Block.toks) BY <1>1, BlockFacts
<1>3. PICK sym \in 0 .. 287 : sym = Token.sym BY <1>1, <1>2, TokenFacts, ZenonT(30) DEF Token
<1>4. sym < EOB \/ sym = EOB BY <1>3
<1>5. ~(sym > EOB) BY <1>4 DEF EOB
<1> QED BY <1>3, <1>5

LEMMA NextBits == Types /\ ReadsInv /\ BitsInv /\ [Next]_vars => BitsInv'
<1> SUFFICES ASSUME Types, ReadsInv, BitsInv, [Next]_vars PROVE BitsInv' OBVIOUS
<1>1. ASSUME b' = b, Filling' => Filling /\ reads = << >> /\ ~(pc = "token" /\ Invalid) PROVE BitsInv'
  <2>1. Filling' => Len(b) <= 15 BY <1>1 DEF BitsInv, Lookahead
  <2> QED BY <1>1, <2>1 DEF BitsInv, Lookahead
<1>2. ASSUME IsSeq(b'), Len(b') <= 15 PROVE BitsInv'
  <2>1. Len(b') \in Nat BY <1>2, IsSeqFacts
  <2>2. Len(b') <= 23 BY <1>2, <2>1
  <2> QED BY <1>2, <2>2 DEF BitsInv, Lookahead
<1> USE DEF Types
<1>3. CASE UNCHANGED vars
  <2>1. UNCHANGED << b, reads, pc, ret, codes, file, blk, tok >> BY <1>3 DEF vars, attempt, flushing, codes
  <2>2. Invalid' = Invalid BY <2>1 DEF Invalid, Token, Block, codes
  <2> QED BY <2>1, <2>2 DEF BitsInv, Filling, Lookahead
<1>4. CASE uncompress_kernel
  <2>1. b' = b /\ pc' = "header" BY <1>4 DEF uncompress_kernel
  <2> QED BY <1>1, <2>1 DEF Filling, Decoding, Asking, Flushing
<1>5. CASE get_method \/ ReadTrailer
  <2>1. b' = b /\ pc' \in {"header", "trailer", "fail"}
    BY <1>5, HeaderFrame, TrailerFrame
  <2> QED BY <1>1, <2>1 DEF Filling, Decoding, Asking, Flushing
<1>6. CASE inflate
  <2>1. (pc' = "fail" /\ b' = b) \/ b' = << >> BY <1>6 DEF inflate, Fail
  <2>2. IsSeq(<< >>) /\ Len(<< >>) <= 15
    <3>1. << >> \in Seq({}) /\ Len(<< >>) = 0 OBVIOUS
    <3>2. IsSeq(<< >>) BY <3>1, AnySeq
    <3>3. 0 <= 15 OBVIOUS
    <3> QED BY <3>1, <3>2, <3>3, Zenon
  <2> QED BY <1>1, <1>2, <2>1, <2>2 DEF Filling, Decoding, Asking, Flushing
<1>7. CASE NEEDBITS BY <1>7, NeedBits
<1>8. CASE DUMPBITS BY <1>8, DumpBits
<1>9. ASSUME pc \in Decoding \ {"token"}, reads = << >>
      PROVE  IsSeq(b) /\ Len(b) \in 0 .. 15 /\ Len(b) <= 15
  <2>1. Filling BY <1>9 DEF Filling
  <2>2. Len(b) <= 15 BY <1>9, <2>1 DEF BitsInv, Lookahead
  <2>3. IsSeq(b) /\ Len(b) \in Nat BY IsSeqFacts DEF BitsInv
  <2>4. \A x \in Nat : x <= 15 => x \in 0 .. 15 OBVIOUS
  <2> QED BY <2>2, <2>3, <2>4, Zenon
<1>10. CASE BlockType
  <2>1. pc = "type" /\ reads = << >> BY <1>10 DEF BlockType, Ready
  <2>2. IsSeq(b) /\ Len(b) \in 0 .. 15 /\ Len(b) <= 15 BY <1>9, <2>1 DEF Decoding, Asking
  <2>3. b' = b \/ b' = Drop(Len(b) % 8)
    <3>1. Block.type \in 0 .. 3 BY <2>1, FileFacts, BlockFacts DEF PlaceTypes, Going
    <3>2. CASE Block.type = 0 BY <1>10, <3>2 DEF BlockType, AlignBits
    <3>3. CASE Block.type = 1 BY <1>10, <3>3 DEF BlockType
    <3>4. CASE Block.type = 2 BY <1>10, <3>4 DEF BlockType
    <3>5. CASE Block.type = 3 BY <1>10, <3>5 DEF BlockType
    <3>6. \A x \in 0 .. 3 : x = 0 \/ x = 1 \/ x = 2 \/ x = 3 OBVIOUS
    <3> QED BY <3>1, <3>2, <3>3, <3>4, <3>5, <3>6, Zenon
  <2>4. CASE b' = b BY <1>2, <2>2, <2>4
  <2>5. CASE b' = Drop(Len(b) % 8)
    <3>1. Len(b) % 8 \in 0 .. Len(b) BY <2>2
    <3>2. IsSeq(b') /\ Len(b') = Len(b) - (Len(b) % 8) BY <2>2, <2>5, <3>1, Dropped
    <3>3. \A x \in 0 .. 15, y \in Nat : y \in 0 .. x => x - y <= 15 OBVIOUS
    <3>4. Len(b) % 8 \in Nat BY <2>2
    <3>5. Len(b') <= 15 BY <2>2, <3>1, <3>2, <3>3, <3>4
    <3> QED BY <1>2, <3>2, <3>5
  <2> QED BY <2>3, <2>4, <2>5
<1>11. CASE LostLiteral
  <2>1. pc = "lost" /\ reads = << >> BY <1>11 DEF LostLiteral
  <2>2. IsSeq(b) /\ Len(b) \in 0 .. 15 /\ Len(b) <= 15 BY <1>9, <2>1 DEF Decoding, Asking
  <2>3. CASE Len(b) < 8
    <3>1. b' = b BY <1>11, <2>3 DEF LostLiteral
    <3> QED BY <1>2, <2>2, <3>1
  <2>4. CASE ~(Len(b) < 8)
    <3>1. b' = Drop(8) BY <1>11, <2>4 DEF LostLiteral
    <3>2. 8 \in 0 .. Len(b) BY <2>2, <2>4
    <3>3. IsSeq(b') /\ Len(b') = Len(b) - 8 BY <2>2, <3>1, <3>2, Dropped
    <3>4. Len(b') <= 15
      <4>1. \A x \in 0 .. 15 : x - 8 <= 15 OBVIOUS
      <4> QED BY <2>2, <3>3, <4>1
    <3> QED BY <1>2, <3>3, <3>4
  <2> QED BY <2>3, <2>4
<1>12. CASE UndoLookahead
  <2>1. pc = "undo" /\ reads = << >> /\ b' = SubSeq(b, 1, Len(b) % 8) BY <1>12 DEF UndoLookahead, Ready
  <2>2. IsSeq(b) /\ Len(b) \in 0 .. 15 /\ Len(b) <= 15 BY <1>9, <2>1 DEF Decoding
  <2>3. Len(b) % 8 \in 1 - 1 .. Len(b) /\ Len(b) % 8 <= 15 /\ 1 \in 1 .. Len(b) + 1 BY <2>2
  <2>4. IsSeq(b') /\ Len(b') = (Len(b) % 8) - 1 + 1 BY <2>1, <2>2, <2>3, AnyPart
  <2>5. Len(b') <= 15 BY <2>2, <2>3, <2>4
  <2> QED BY <1>2, <2>4, <2>5
<1>13. CASE inflate_block
  <2>1. b' = b /\ (Filling' => Filling) /\ reads = << >> /\ pc # "token"
    BY <1>13 DEF inflate_block, Ready, Fail, Output, FlushDone, EndBlock, Filling, flushing, outputs, PlaceTypes, Places, Flushing, Decoding, Asking
  <2> QED BY <1>1, <2>1
<1>14. CASE StoredLength
  <2>1. b' = b /\ (Filling' => Filling) /\ reads = << >> /\ pc # "token"
    BY <1>14 DEF StoredLength, Ready, Fail, Output, FlushDone, EndBlock, Filling, flushing, outputs, PlaceTypes, Places, Flushing, Decoding, Asking
  <2> QED BY <1>1, <2>1
<1>15. CASE inflate_stored
  <2>1. b' = b /\ (Filling' => Filling) /\ reads = << >> /\ pc # "token"
    BY <1>15 DEF inflate_stored, Ready, Fail, Output, FlushDone, EndBlock, Filling, flushing, outputs, PlaceTypes, Places, Flushing, Decoding, Asking
  <2> QED BY <1>1, <2>1
<1>16. CASE StoredByte
  <2>1. b' = b /\ (Filling' => Filling) /\ reads = << >> /\ pc # "token"
    BY <1>16 DEF StoredByte, Ready, Fail, Output, FlushDone, EndBlock, Filling, flushing, outputs, PlaceTypes, Places, Flushing, Decoding, Asking
  <2> QED BY <1>1, <2>1
<1>17. CASE inflate_dynamic
  <2>1. b' = b /\ (Filling' => Filling) /\ reads = << >> /\ pc # "token"
    BY <1>17 DEF inflate_dynamic, Ready, Fail, Output, FlushDone, EndBlock, Filling, flushing, outputs, PlaceTypes, Places, Flushing, Decoding, Asking
  <2> QED BY <1>1, <2>1
<1>18. CASE BuildTree
  <2>1. b' = b /\ (Filling' => Filling) /\ reads = << >> /\ pc # "token"
    BY <1>18 DEF BuildTree, Ready, Fail, Output, FlushDone, EndBlock, Filling, flushing, outputs, PlaceTypes, Places, Flushing, Decoding, Asking
  <2> QED BY <1>1, <2>1
<1>19. CASE ReadLength
  <2>1. b' = b /\ (Filling' => Filling) /\ reads = << >> /\ pc # "token"
    BY <1>19 DEF ReadLength, Ready, Fail, Output, FlushDone, EndBlock, Filling, flushing, outputs, PlaceTypes, Places, Flushing, Decoding, Asking
  <2> QED BY <1>1, <2>1
<1>20. CASE LengthRun
  <2>1. b' = b /\ (Filling' => Filling) /\ reads = << >> /\ pc # "token"
    BY <1>20 DEF LengthRun, Ready, Fail, Output, FlushDone, EndBlock, Filling, flushing, outputs, PlaceTypes, Places, Flushing, Decoding, Asking
  <2> QED BY <1>1, <2>1
<1>21. CASE BuildCodes
  <2>1. b' = b /\ (Filling' => Filling) /\ reads = << >> /\ pc # "token"
    BY <1>21 DEF BuildCodes, Ready, Fail, Output, FlushDone, EndBlock, Filling, flushing, outputs, PlaceTypes, Places, Flushing, Decoding, Asking
  <2> QED BY <1>1, <2>1
<1>22. CASE inflate_codes
  <2>1. b' = b /\ (Filling' => Filling) /\ reads = << >> /\ pc # "token"
    BY <1>22 DEF inflate_codes, Ready, Fail, Output, FlushDone, EndBlock, Filling, flushing, outputs, PlaceTypes, Places, Flushing, Decoding, Asking
  <2> QED BY <1>1, <2>1
<1>23. CASE Literal
  <2>1. b' = b /\ pc = "token" /\ reads = << >> /\ (Token.sym < EOB \/ Token.sym = EOB)
    BY <1>23 DEF Literal, Ready
  <2>2. ~Invalid BY <2>1, TokenShort DEF Invalid
  <2> QED BY <1>1, <2>1, <2>2 DEF Filling, Decoding, Asking
<1>24. CASE EndOfBlock
  <2>1. b' = b /\ pc = "token" /\ reads = << >> /\ (Token.sym < EOB \/ Token.sym = EOB)
    BY <1>24 DEF EndOfBlock, Ready
  <2>2. ~Invalid BY <2>1, TokenShort DEF Invalid
  <2> QED BY <1>1, <2>1, <2>2 DEF Filling, Decoding, Asking
<1>25. CASE StartCopy
  <2>1. b' = b /\ pc = "token" /\ reads = << >> /\ (pc' = "fail" \/ ~Invalid)
    BY <1>25 DEF StartCopy, Ready, Fail
  <2> QED BY <1>1, <2>1 DEF Filling, Decoding, Asking, Flushing
<1>26. CASE Copy
  <2>1. b' = b /\ (Filling' => Filling) /\ reads = << >> /\ pc # "token"
    BY <1>26 DEF Copy, Ready, Fail, Output, FlushDone, EndBlock, Filling, flushing, outputs, PlaceTypes, Places, Flushing, Decoding, Asking
  <2> QED BY <1>1, <2>1
<1>27. CASE LostEnd
  <2>1. b' = b /\ (Filling' => Filling) /\ reads = << >> /\ pc # "token"
    BY <1>27 DEF LostEnd, Ready, Fail, Output, FlushDone, EndBlock, Filling, flushing, outputs, PlaceTypes, Places, Flushing, Decoding, Asking
  <2> QED BY <1>1, <2>1
<1>28. CASE flush_window
  <2>1. b' = b /\ (Filling' => Filling) /\ reads = << >> /\ pc # "token"
    BY <1>28 DEF flush_window, Ready, Fail, Output, FlushDone, EndBlock, Filling, flushing, outputs, PlaceTypes, Places, Flushing, Decoding, Asking
  <2> QED BY <1>1, <2>1
<1>29. CASE CopyChunk
  <2>1. b' = b /\ (Filling' => Filling) /\ reads = << >> /\ pc # "token"
    BY <1>29 DEF CopyChunk, Ready, Fail, Output, FlushDone, EndBlock, Filling, flushing, outputs, PlaceTypes, Places, Flushing, Decoding, Asking
  <2> QED BY <1>1, <2>1
<1>30. CASE NoChunkLeft
  <2>1. b' = b /\ (Filling' => Filling) /\ reads = << >> /\ pc # "token"
    BY <1>30 DEF NoChunkLeft, Ready, Fail, Output, FlushDone, EndBlock, Filling, flushing, outputs, PlaceTypes, Places, Flushing, Decoding, Asking
  <2> QED BY <1>1, <2>1
<1>31. CASE Validate
  <2>1. b' = b /\ (Filling' => Filling) /\ reads = << >> /\ pc # "token"
    BY <1>31 DEF Validate, Ready, Fail, Output, FlushDone, EndBlock, Filling, flushing, outputs, PlaceTypes, Places, Flushing, Decoding, Asking
  <2> QED BY <1>1, <2>1
<1> QED BY <1>3, <1>4, <1>5, <1>6, <1>7, <1>8, <1>10, <1>11, <1>12, <1>13, <1>14, <1>15, <1>16, <1>17, <1>18, <1>19, <1>20, <1>21, <1>22, <1>23, <1>24, <1>25, <1>26, <1>27, <1>28, <1>29, <1>30, <1>31 DEF Next, Step
LEMMA NextInput == Types /\ InputInv /\ BitsInv /\ [Next]_vars => InputInv'
<1> SUFFICES ASSUME Types, InputInv, BitsInv, [Next]_vars PROVE InputInv' OBVIOUS
<1> DEFINE Filled == pc \in Decoding \/ (pc \in Flushing /\ ret # "trailer")
           Kept == /\ UNCHANGED << tries, inptr, insize, block_number, failures >>
                   /\ pc' # "header"
                   /\ Filled' => Filled \/ (pc = "header" /\ todo = << >>)
<1>1. ASSUME Kept PROVE InputInv' BY <1>1, InputKept
<1> USE DEF Types
<1>2. CASE UNCHANGED vars
  <2>1. UNCHANGED << tries, inptr, insize, block_number, failures, pc, todo, ret >>
    BY <1>2 DEF vars, attempt, input, header, flushing
  <2> QED BY <2>1 DEF InputInv
<1>3. CASE uncompress_kernel
  <2>1. /\ tries < MaxTries /\ tries' = tries + 1 /\ failures' = failures /\ insize' = 0 /\ inptr' = 0
        /\ block_number' = 0 /\ pc' = "header" /\ todo' # << >>
    BY <1>3 DEF uncompress_kernel, clear_bufs
  <2> QED BY <2>1 DEF InputInv, Decoding, Asking, Flushing
<1>4. CASE get_method \/ NEEDBITS \/ ReadTrailer
  <2>1. tries' = tries BY <1>4, HeaderFrame, NeedFrame, TrailerFrame DEF attempt
  <2>2. CASE ByteRead BY <2>1, <2>2, ByteReadKeeps DEF InputInv
  <2>3. CASE pc' = "fail" /\ UNCHANGED << inptr, insize, block_number, failures >>
    <3>1. Kept BY <2>1, <2>3 DEF Decoding, Asking, Flushing
    <3> QED BY <1>1, <3>1
  <2> QED BY <1>4, <2>2, <2>3, ByteReadStep
<1>5. CASE UndoLookahead
  <2>1. /\ pc = "undo" /\ reads = << >> /\ tries' = tries /\ inptr' = inptr - Len(b) \div 8
        /\ UNCHANGED << insize, block_number, failures >> /\ pc' = "flush" /\ ret' = "trailer"
    BY <1>5 DEF UndoLookahead, Ready, attempt
  <2>2. Len(b) <= 15 BY <2>1 DEF BitsInv, Filling, Lookahead, Decoding
  <2>3. PICK len \in Nat : len = Len(b) /\ len <= 15 BY <2>2, IsSeqFacts DEF BitsInv
  <2>4. len \div 8 \in 0 .. 1 BY <2>3
  <2>5. inptr \in 1 .. INBUFSIZ BY <2>1 DEF InputInv, Decoding
  <2>6. inptr' = inptr - (len \div 8) BY <2>1, <2>3
  <2> HIDE DEF InputInv
  <2>7. inptr' \in 0 .. INBUFSIZ BY <2>4, <2>5, <2>6
  <2> QED BY <2>1, <2>7 DEF InputInv, Decoding, Asking, Flushing
<1>6. CASE inflate
  <2>1. Kept
    BY <1>6 DEF inflate, Ready, Fail, Output, FlushDone, EndBlock, attempt, input, flushing, outputs, PlaceTypes, Places, Flushing, Decoding, Asking, Returns
  <2> QED BY <1>1, <2>1
<1>7. CASE DUMPBITS
  <2>1. Kept
    BY <1>7 DEF DUMPBITS, Ready, Fail, Output, FlushDone, EndBlock, attempt, input, flushing, outputs, PlaceTypes, Places, Flushing, Decoding, Asking, Returns
  <2> QED BY <1>1, <2>1
<1>8. CASE inflate_block
  <2>1. Kept
    BY <1>8 DEF inflate_block, Ready, Fail, Output, FlushDone, EndBlock, attempt, input, flushing, outputs, PlaceTypes, Places, Flushing, Decoding, Asking, Returns
  <2> QED BY <1>1, <2>1
<1>9. CASE BlockType
  <2>1. Kept
    BY <1>9 DEF BlockType, Ready, Fail, Output, FlushDone, EndBlock, attempt, input, flushing, outputs, PlaceTypes, Places, Flushing, Decoding, Asking, Returns
  <2> QED BY <1>1, <2>1
<1>10. CASE StoredLength
  <2>1. Kept
    BY <1>10 DEF StoredLength, Ready, Fail, Output, FlushDone, EndBlock, attempt, input, flushing, outputs, PlaceTypes, Places, Flushing, Decoding, Asking, Returns
  <2> QED BY <1>1, <2>1
<1>11. CASE inflate_stored
  <2>1. Kept
    BY <1>11 DEF inflate_stored, Ready, Fail, Output, FlushDone, EndBlock, attempt, input, flushing, outputs, PlaceTypes, Places, Flushing, Decoding, Asking, Returns
  <2> QED BY <1>1, <2>1
<1>12. CASE StoredByte
  <2>1. Kept
    BY <1>12 DEF StoredByte, Ready, Fail, Output, FlushDone, EndBlock, attempt, input, flushing, outputs, PlaceTypes, Places, Flushing, Decoding, Asking, Returns
  <2> QED BY <1>1, <2>1
<1>13. CASE inflate_dynamic
  <2>1. Kept
    BY <1>13 DEF inflate_dynamic, Ready, Fail, Output, FlushDone, EndBlock, attempt, input, flushing, outputs, PlaceTypes, Places, Flushing, Decoding, Asking, Returns
  <2> QED BY <1>1, <2>1
<1>14. CASE BuildTree
  <2>1. Kept
    BY <1>14 DEF BuildTree, Ready, Fail, Output, FlushDone, EndBlock, attempt, input, flushing, outputs, PlaceTypes, Places, Flushing, Decoding, Asking, Returns
  <2> QED BY <1>1, <2>1
<1>15. CASE ReadLength
  <2>1. Kept
    BY <1>15 DEF ReadLength, Ready, Fail, Output, FlushDone, EndBlock, attempt, input, flushing, outputs, PlaceTypes, Places, Flushing, Decoding, Asking, Returns
  <2> QED BY <1>1, <2>1
<1>16. CASE LengthRun
  <2>1. Kept
    BY <1>16 DEF LengthRun, Ready, Fail, Output, FlushDone, EndBlock, attempt, input, flushing, outputs, PlaceTypes, Places, Flushing, Decoding, Asking, Returns
  <2> QED BY <1>1, <2>1
<1>17. CASE BuildCodes
  <2>1. Kept
    BY <1>17 DEF BuildCodes, Ready, Fail, Output, FlushDone, EndBlock, attempt, input, flushing, outputs, PlaceTypes, Places, Flushing, Decoding, Asking, Returns
  <2> QED BY <1>1, <2>1
<1>18. CASE inflate_codes
  <2>1. Kept
    BY <1>18 DEF inflate_codes, Ready, Fail, Output, FlushDone, EndBlock, attempt, input, flushing, outputs, PlaceTypes, Places, Flushing, Decoding, Asking, Returns
  <2> QED BY <1>1, <2>1
<1>19. CASE Literal
  <2>1. Kept
    BY <1>19 DEF Literal, Ready, Fail, Output, FlushDone, EndBlock, attempt, input, flushing, outputs, PlaceTypes, Places, Flushing, Decoding, Asking, Returns
  <2> QED BY <1>1, <2>1
<1>20. CASE EndOfBlock
  <2>1. Kept
    BY <1>20 DEF EndOfBlock, Ready, Fail, Output, FlushDone, EndBlock, attempt, input, flushing, outputs, PlaceTypes, Places, Flushing, Decoding, Asking, Returns
  <2> QED BY <1>1, <2>1
<1>21. CASE StartCopy
  <2>1. Kept
    BY <1>21 DEF StartCopy, Ready, Fail, Output, FlushDone, EndBlock, attempt, input, flushing, outputs, PlaceTypes, Places, Flushing, Decoding, Asking, Returns
  <2> QED BY <1>1, <2>1
<1>22. CASE Copy
  <2>1. Kept
    BY <1>22 DEF Copy, Ready, Fail, Output, FlushDone, EndBlock, attempt, input, flushing, outputs, PlaceTypes, Places, Flushing, Decoding, Asking, Returns
  <2> QED BY <1>1, <2>1
<1>23. CASE LostLiteral
  <2>1. Kept
    BY <1>23 DEF LostLiteral, Ready, Fail, Output, FlushDone, EndBlock, attempt, input, flushing, outputs, PlaceTypes, Places, Flushing, Decoding, Asking, Returns
  <2> QED BY <1>1, <2>1
<1>24. CASE LostEnd
  <2>1. Kept
    BY <1>24 DEF LostEnd, Ready, Fail, Output, FlushDone, EndBlock, attempt, input, flushing, outputs, PlaceTypes, Places, Flushing, Decoding, Asking, Returns
  <2> QED BY <1>1, <2>1
<1>25. CASE flush_window
  <2>1. Kept
    BY <1>25 DEF flush_window, Ready, Fail, Output, FlushDone, EndBlock, attempt, input, flushing, outputs, PlaceTypes, Places, Flushing, Decoding, Asking, Returns
  <2> QED BY <1>1, <2>1
<1>26. CASE CopyChunk
  <2>1. Kept
    BY <1>26 DEF CopyChunk, Ready, Fail, Output, FlushDone, EndBlock, attempt, input, flushing, outputs, PlaceTypes, Places, Flushing, Decoding, Asking, Returns
  <2> QED BY <1>1, <2>1
<1>27. CASE NoChunkLeft
  <2>1. Kept
    BY <1>27 DEF NoChunkLeft, Ready, Fail, Output, FlushDone, EndBlock, attempt, input, flushing, outputs, PlaceTypes, Places, Flushing, Decoding, Asking, Returns
  <2> QED BY <1>1, <2>1
<1>28. CASE Validate
  <2>1. Kept
    BY <1>28 DEF Validate, Ready, Fail, Output, FlushDone, EndBlock, attempt, input, flushing, outputs, PlaceTypes, Places, Flushing, Decoding, Asking, Returns
  <2> QED BY <1>1, <2>1
<1> QED BY <1>2, <1>3, <1>4, <1>5, <1>6, <1>7, <1>8, <1>9, <1>10, <1>11, <1>12, <1>13, <1>14, <1>15, <1>16, <1>17, <1>18, <1>19, <1>20, <1>21, <1>22, <1>23, <1>24, <1>25, <1>26, <1>27, <1>28 DEF Next, Step

-----------------------------------------------------------------------------
(*** The output ***)

(* Where the bits may no longer be the file's. *)
MayBeLost == pc \in {"fail", "ok", "runaway", "undo"} \/ Going({"lost", "trailer"})

(* The bits are out of step only where the decoder is lost or done.         *)
LostInv ==
  /\ at \in Nat \cup {-1}
  /\ at = -1 => MayBeLost
  /\ Going({"lost"}) => at = -1
  /\ pc = "lost" => reads \in {<< >>, << << 8, 0 >> >>}

LEMMA NextLost == Types /\ ReadsInv /\ BitsInv /\ LostInv /\ [Next]_vars => LostInv'
<1> SUFFICES ASSUME Types, ReadsInv, BitsInv, LostInv, [Next]_vars PROVE LostInv' OBVIOUS
<1>1. ASSUME at' = at, MayBeLost => MayBeLost', Going({"lost"})' => Going({"lost"}),
             pc' = "lost" => reads' \in {<< >>, << << 8, 0 >> >>}
      PROVE  LostInv'
  BY <1>1 DEF LostInv
<1>2. ASSUME at' \in Nat, pc' \notin Flushing, pc' # "lost" PROVE LostInv'
  <2>1. at' # -1 BY <1>2
  <2> QED BY <1>2, <2>1 DEF LostInv, Going
<1> USE DEF Types
<1>3. CASE UNCHANGED vars
  <2>1. UNCHANGED << at, pc, ret, reads >> BY <1>3 DEF vars, flushing
  <2> QED BY <2>1 DEF LostInv, MayBeLost, Going
<1>4. CASE uncompress_kernel
  <2>1. at' = 0 /\ pc' = "header" BY <1>4 DEF uncompress_kernel
  <2> QED BY <1>2, <2>1 DEF Flushing
<1>5. CASE inflate
  <2>1. pc = "header" /\ ((pc' = "fail" /\ at' = at) \/ (pc' = "block" /\ at' = 8 * Len(file.head)))
    BY <1>5 DEF inflate, Fail
  <2>2. CASE pc' = "fail" /\ at' = at BY <1>1, <2>2 DEF MayBeLost, Going, Flushing
  <2>3. CASE pc' = "block" /\ at' = 8 * Len(file.head)
    <3>1. file.head \in Seq(Byte) BY FileFacts DEF FileSound, PlaceTypes
    <3>2. Len(file.head) \in Nat BY <3>1
    <3>3. 8 * Len(file.head) \in Nat BY <3>2
    <3> QED BY <1>2, <2>3, <3>3 DEF Flushing
  <2> QED BY <2>1, <2>2, <2>3
<1>6. CASE NEEDBITS
  <2>1. /\ at' = at /\ ret' = ret /\ pc \in Asking
        /\ (pc' = "fail" /\ reads' = << >>) \/ (pc' = pc /\ reads' = reads)
    <3>1. /\ reads # << >> /\ reads' = IF pc' = "fail" THEN << >> ELSE reads
          /\ at' = at /\ ret' = ret
      BY <1>6 DEF NEEDBITS, flushing
    <3> QED BY <1>6, <3>1, NeedFrame DEF PlaceTypes, Asking
  <2>2. CASE pc' = "fail" BY <1>1, <2>1, <2>2 DEF MayBeLost, Going, Flushing
  <2>3. CASE pc' = pc /\ reads' = reads BY <1>1, <2>1, <2>3 DEF LostInv, MayBeLost, Going, Flushing
  <2> QED BY <2>1, <2>2, <2>3
<1>7. CASE DUMPBITS
  <2> DEFINE used == Head(reads)[2]
  <2>1. /\ reads # << >> /\ ret' = ret
        /\ \/ pc' = pc /\ reads' = Tail(reads) /\ at' = at + used
           \/ pc' \in {"lost", "fail"} /\ reads' = << >> /\ at' = -1
    BY <1>7 DEF DUMPBITS, flushing
  <2>2. pc \in Asking /\ used \in Nat BY <1>7, <2>1, DumpBits DEF PlaceTypes
  <2>3. CASE pc' \in {"lost", "fail"} /\ reads' = << >> /\ at' = -1
    BY <2>3 DEF LostInv, MayBeLost, Going, Flushing
  <2>4. CASE pc' = pc /\ reads' = Tail(reads) /\ at' = at + used
    <3>1. CASE pc = "lost"
      <4>1. reads = << << 8, 0 >> >> /\ at = -1 BY <2>1, <3>1 DEF LostInv, Going
      <4>2. used = 0 /\ Tail(reads) = << >> BY <4>1
      <4>3. at' = -1 BY <2>4, <4>1, <4>2
      <4> QED BY <2>4, <3>1, <4>2, <4>3 DEF LostInv, MayBeLost, Going
    <3>2. CASE pc # "lost"
      <4>1. ~MayBeLost BY <2>2, <3>2 DEF MayBeLost, Going, Asking, Flushing
      <4>2. at \in Nat BY <4>1 DEF LostInv
      <4>3. at' \in Nat BY <2>2, <2>4, <4>2
      <4> QED BY <1>2, <2>2, <2>4, <3>2, <4>3 DEF Asking, Flushing
    <3> QED BY <3>1, <3>2
  <2> QED BY <2>1, <2>3, <2>4
<1>8. CASE BlockType
  <2>1. pc = "type" /\ reads = << >> BY <1>8 DEF BlockType, Ready
  <2>2. ~MayBeLost BY <2>1 DEF MayBeLost, Going, Flushing
  <2>3. at \in Nat BY <2>2 DEF LostInv
  <2>4. (at' = at \/ at' = NextByte(at)) /\ pc' \in {"stored_length", "codes", "dynamic", "fail"}
    <3>1. Block.type \in 0 .. 3 BY <2>1, FileFacts, BlockFacts DEF PlaceTypes, Going
    <3>2. CASE Block.type = 0 BY <1>8, <3>2 DEF BlockType, AlignBits
    <3>3. CASE Block.type = 1 BY <1>8, <3>3 DEF BlockType
    <3>4. CASE Block.type = 2 BY <1>8, <3>4 DEF BlockType
    <3>5. CASE Block.type = 3 BY <1>8, <3>5 DEF BlockType, Fail
    <3>6. \A x \in 0 .. 3 : x = 0 \/ x = 1 \/ x = 2 \/ x = 3 OBVIOUS
    <3> QED BY <3>1, <3>2, <3>3, <3>4, <3>5, <3>6, Zenon
  <2>5. NextByte(at) \in Nat BY <2>3 DEF NextByte
  <2> QED BY <1>2, <2>3, <2>4, <2>5 DEF Flushing
<1>9. CASE get_method
  <2>1. /\ at' = at /\ (MayBeLost => MayBeLost') /\ (Going({"lost"})' => Going({"lost"}))
        /\ pc' = "lost" => reads' \in {<< >>, << << 8, 0 >> >>}
    BY <1>9, HeaderFrame DEF get_method, Ready, Fail, Output, FlushDone, EndBlock, flushing, outputs, PlaceTypes, MayBeLost, Going, Flushing, Decoding, Asking, Returns
  <2> QED BY <1>1, <2>1
<1>10. CASE inflate_block
  <2>1. /\ at' = at /\ (MayBeLost => MayBeLost') /\ (Going({"lost"})' => Going({"lost"}))
        /\ pc' = "lost" => reads' \in {<< >>, << << 8, 0 >> >>}
    BY <1>10 DEF inflate_block, Ready, Fail, Output, FlushDone, EndBlock, flushing, outputs, PlaceTypes, MayBeLost, Going, Flushing, Decoding, Asking, Returns
  <2> QED BY <1>1, <2>1
<1>11. CASE StoredLength
  <2>1. /\ at' = at /\ (MayBeLost => MayBeLost') /\ (Going({"lost"})' => Going({"lost"}))
        /\ pc' = "lost" => reads' \in {<< >>, << << 8, 0 >> >>}
    BY <1>11 DEF StoredLength, Ready, Fail, Output, FlushDone, EndBlock, flushing, outputs, PlaceTypes, MayBeLost, Going, Flushing, Decoding, Asking, Returns
  <2> QED BY <1>1, <2>1
<1>12. CASE inflate_stored
  <2>1. /\ at' = at /\ (MayBeLost => MayBeLost') /\ (Going({"lost"})' => Going({"lost"}))
        /\ pc' = "lost" => reads' \in {<< >>, << << 8, 0 >> >>}
    BY <1>12 DEF inflate_stored, Ready, Fail, Output, FlushDone, EndBlock, flushing, outputs, PlaceTypes, MayBeLost, Going, Flushing, Decoding, Asking, Returns
  <2> QED BY <1>1, <2>1
<1>13. CASE StoredByte
  <2>1. /\ at' = at /\ (MayBeLost => MayBeLost') /\ (Going({"lost"})' => Going({"lost"}))
        /\ pc' = "lost" => reads' \in {<< >>, << << 8, 0 >> >>}
    BY <1>13 DEF StoredByte, Ready, Fail, Output, FlushDone, EndBlock, flushing, outputs, PlaceTypes, MayBeLost, Going, Flushing, Decoding, Asking, Returns
  <2> QED BY <1>1, <2>1
<1>14. CASE inflate_dynamic
  <2>1. /\ at' = at /\ (MayBeLost => MayBeLost') /\ (Going({"lost"})' => Going({"lost"}))
        /\ pc' = "lost" => reads' \in {<< >>, << << 8, 0 >> >>}
    BY <1>14 DEF inflate_dynamic, Ready, Fail, Output, FlushDone, EndBlock, flushing, outputs, PlaceTypes, MayBeLost, Going, Flushing, Decoding, Asking, Returns
  <2> QED BY <1>1, <2>1
<1>15. CASE BuildTree
  <2>1. /\ at' = at /\ (MayBeLost => MayBeLost') /\ (Going({"lost"})' => Going({"lost"}))
        /\ pc' = "lost" => reads' \in {<< >>, << << 8, 0 >> >>}
    BY <1>15 DEF BuildTree, Ready, Fail, Output, FlushDone, EndBlock, flushing, outputs, PlaceTypes, MayBeLost, Going, Flushing, Decoding, Asking, Returns
  <2> QED BY <1>1, <2>1
<1>16. CASE ReadLength
  <2>1. /\ at' = at /\ (MayBeLost => MayBeLost') /\ (Going({"lost"})' => Going({"lost"}))
        /\ pc' = "lost" => reads' \in {<< >>, << << 8, 0 >> >>}
    BY <1>16 DEF ReadLength, Ready, Fail, Output, FlushDone, EndBlock, flushing, outputs, PlaceTypes, MayBeLost, Going, Flushing, Decoding, Asking, Returns
  <2> QED BY <1>1, <2>1
<1>17. CASE LengthRun
  <2>1. /\ at' = at /\ (MayBeLost => MayBeLost') /\ (Going({"lost"})' => Going({"lost"}))
        /\ pc' = "lost" => reads' \in {<< >>, << << 8, 0 >> >>}
    BY <1>17 DEF LengthRun, Ready, Fail, Output, FlushDone, EndBlock, flushing, outputs, PlaceTypes, MayBeLost, Going, Flushing, Decoding, Asking, Returns
  <2> QED BY <1>1, <2>1
<1>18. CASE BuildCodes
  <2>1. /\ at' = at /\ (MayBeLost => MayBeLost') /\ (Going({"lost"})' => Going({"lost"}))
        /\ pc' = "lost" => reads' \in {<< >>, << << 8, 0 >> >>}
    BY <1>18 DEF BuildCodes, Ready, Fail, Output, FlushDone, EndBlock, flushing, outputs, PlaceTypes, MayBeLost, Going, Flushing, Decoding, Asking, Returns
  <2> QED BY <1>1, <2>1
<1>19. CASE inflate_codes
  <2>1. /\ at' = at /\ (MayBeLost => MayBeLost') /\ (Going({"lost"})' => Going({"lost"}))
        /\ pc' = "lost" => reads' \in {<< >>, << << 8, 0 >> >>}
    BY <1>19 DEF inflate_codes, Ready, Fail, Output, FlushDone, EndBlock, flushing, outputs, PlaceTypes, MayBeLost, Going, Flushing, Decoding, Asking, Returns
  <2> QED BY <1>1, <2>1
<1>20. CASE Literal
  <2>1. /\ at' = at /\ (MayBeLost => MayBeLost') /\ (Going({"lost"})' => Going({"lost"}))
        /\ pc' = "lost" => reads' \in {<< >>, << << 8, 0 >> >>}
    BY <1>20 DEF Literal, Ready, Fail, Output, FlushDone, EndBlock, flushing, outputs, PlaceTypes, MayBeLost, Going, Flushing, Decoding, Asking, Returns
  <2> QED BY <1>1, <2>1
<1>21. CASE EndOfBlock
  <2>1. /\ at' = at /\ (MayBeLost => MayBeLost') /\ (Going({"lost"})' => Going({"lost"}))
        /\ pc' = "lost" => reads' \in {<< >>, << << 8, 0 >> >>}
    BY <1>21 DEF EndOfBlock, Ready, Fail, Output, FlushDone, EndBlock, flushing, outputs, PlaceTypes, MayBeLost, Going, Flushing, Decoding, Asking, Returns
  <2> QED BY <1>1, <2>1
<1>22. CASE StartCopy
  <2>1. /\ at' = at /\ (MayBeLost => MayBeLost') /\ (Going({"lost"})' => Going({"lost"}))
        /\ pc' = "lost" => reads' \in {<< >>, << << 8, 0 >> >>}
    BY <1>22 DEF StartCopy, Ready, Fail, Output, FlushDone, EndBlock, flushing, outputs, PlaceTypes, MayBeLost, Going, Flushing, Decoding, Asking, Returns
  <2> QED BY <1>1, <2>1
<1>23. CASE Copy
  <2>1. /\ at' = at /\ (MayBeLost => MayBeLost') /\ (Going({"lost"})' => Going({"lost"}))
        /\ pc' = "lost" => reads' \in {<< >>, << << 8, 0 >> >>}
    BY <1>23 DEF Copy, Ready, Fail, Output, FlushDone, EndBlock, flushing, outputs, PlaceTypes, MayBeLost, Going, Flushing, Decoding, Asking, Returns
  <2> QED BY <1>1, <2>1
<1>24. CASE LostLiteral
  <2>1. /\ at' = at /\ (MayBeLost => MayBeLost') /\ (Going({"lost"})' => Going({"lost"}))
        /\ pc' = "lost" => reads' \in {<< >>, << << 8, 0 >> >>}
    BY <1>24 DEF LostLiteral, Ready, Fail, Output, FlushDone, EndBlock, flushing, outputs, PlaceTypes, MayBeLost, Going, Flushing, Decoding, Asking, Returns
  <2> QED BY <1>1, <2>1
<1>25. CASE LostEnd
  <2>1. /\ at' = at /\ (MayBeLost => MayBeLost') /\ (Going({"lost"})' => Going({"lost"}))
        /\ pc' = "lost" => reads' \in {<< >>, << << 8, 0 >> >>}
    BY <1>25 DEF LostEnd, Ready, Fail, Output, FlushDone, EndBlock, flushing, outputs, PlaceTypes, MayBeLost, Going, Flushing, Decoding, Asking, Returns
  <2> QED BY <1>1, <2>1
<1>26. CASE UndoLookahead
  <2>1. /\ at' = at /\ (MayBeLost => MayBeLost') /\ (Going({"lost"})' => Going({"lost"}))
        /\ pc' = "lost" => reads' \in {<< >>, << << 8, 0 >> >>}
    BY <1>26 DEF UndoLookahead, Ready, Fail, Output, FlushDone, EndBlock, flushing, outputs, PlaceTypes, MayBeLost, Going, Flushing, Decoding, Asking, Returns
  <2> QED BY <1>1, <2>1
<1>27. CASE flush_window
  <2>1. /\ at' = at /\ (MayBeLost => MayBeLost') /\ (Going({"lost"})' => Going({"lost"}))
        /\ pc' = "lost" => reads' \in {<< >>, << << 8, 0 >> >>}
    BY <1>27 DEF flush_window, Ready, Fail, Output, FlushDone, EndBlock, flushing, outputs, PlaceTypes, MayBeLost, Going, Flushing, Decoding, Asking, Returns
  <2> QED BY <1>1, <2>1
<1>28. CASE CopyChunk
  <2>1. /\ at' = at /\ (MayBeLost => MayBeLost') /\ (Going({"lost"})' => Going({"lost"}))
        /\ pc' = "lost" => reads' \in {<< >>, << << 8, 0 >> >>}
    BY <1>28 DEF CopyChunk, Ready, Fail, Output, FlushDone, EndBlock, flushing, outputs, PlaceTypes, MayBeLost, Going, Flushing, Decoding, Asking, Returns
  <2> QED BY <1>1, <2>1
<1>29. CASE NoChunkLeft
  <2>1. /\ at' = at /\ (MayBeLost => MayBeLost') /\ (Going({"lost"})' => Going({"lost"}))
        /\ pc' = "lost" => reads' \in {<< >>, << << 8, 0 >> >>}
    BY <1>29 DEF NoChunkLeft, Ready, Fail, Output, FlushDone, EndBlock, flushing, outputs, PlaceTypes, MayBeLost, Going, Flushing, Decoding, Asking, Returns
  <2> QED BY <1>1, <2>1
<1>30. CASE ReadTrailer
  <2>1. /\ at' = at /\ (MayBeLost => MayBeLost') /\ (Going({"lost"})' => Going({"lost"}))
        /\ pc' = "lost" => reads' \in {<< >>, << << 8, 0 >> >>}
    BY <1>30, TrailerFrame DEF ReadTrailer, Ready, Fail, Output, FlushDone, EndBlock, flushing, outputs, PlaceTypes, MayBeLost, Going, Flushing, Decoding, Asking, Returns
  <2> QED BY <1>1, <2>1
<1>31. CASE Validate
  <2>1. /\ at' = at /\ (MayBeLost => MayBeLost') /\ (Going({"lost"})' => Going({"lost"}))
        /\ pc' = "lost" => reads' \in {<< >>, << << 8, 0 >> >>}
    BY <1>31 DEF Validate, Ready, Fail, Output, FlushDone, EndBlock, flushing, outputs, PlaceTypes, MayBeLost, Going, Flushing, Decoding, Asking, Returns
  <2> QED BY <1>1, <2>1
<1> QED BY <1>3, <1>4, <1>5, <1>6, <1>7, <1>8, <1>9, <1>10, <1>11, <1>12, <1>13, <1>14, <1>15, <1>16, <1>17, <1>18, <1>19, <1>20, <1>21, <1>22, <1>23, <1>24, <1>25, <1>26, <1>27, <1>28, <1>29, <1>30, <1>31 DEF Next, Step

-----------------------------------------------------------------------------
(*** What the file stands for, block by block ***)

(* What all codes of a block add to what was put out before it.             *)
AllOf(out, block) == LET toks == TokensOf(block) IN Expanded(out, toks, Len(toks))
BeforeFun(blocks, m, f) ==
  f = [i \in 1 .. m + 1 |-> IF i = 1 THEN << >> ELSE LET toks == TokensOf(blocks[i - 1]) IN Expanded(f[i - 1], toks, Len(toks))]

LEMMA BeforeHas ==
  ASSUME NEW blocks, Len(blocks) \in Nat
  PROVE  \E f : BeforeFun(blocks, Len(blocks), f) /\ \A k : Before(blocks, k) = f[k]
<1> DEFINE m == Len(blocks)
           S == {k \in 0 .. m : \E f : BeforeFun(blocks, k, f)}
<1>1. 0 \in S
  <2>1. BeforeFun(blocks, 0, [i \in 1 .. 0 + 1 |-> << >>]) BY DEF BeforeFun
  <2> QED BY <2>1
<1>2. ASSUME NEW k \in 0 .. m - 1, k \in S PROVE k + 1 \in S
  <2>1. PICK f : BeforeFun(blocks, k, f) BY <1>2
  <2> DEFINE g == [i \in 1 .. k + 2 |-> IF i = k + 2 THEN AllOf(f[k + 1], blocks[k + 1]) ELSE f[i]]
  <2>2. f = [i \in 1 .. k + 1 |-> IF i = 1 THEN << >> ELSE AllOf(f[i - 1], blocks[i - 1])]
    BY <2>1, Zenon DEF BeforeFun, AllOf
  <2>3. g = [i \in 1 .. k + 2 |-> IF i = 1 THEN << >> ELSE AllOf(g[i - 1], blocks[i - 1])]
    BY <2>2
  <2> HIDE DEF g
  <2>4. k + 2 = k + 1 + 1 OBVIOUS
  <2>5. g = [i \in 1 .. k + 1 + 1 |-> IF i = 1 THEN << >> ELSE AllOf(g[i - 1], blocks[i - 1])]
    BY <2>3, <2>4, Zenon
  <2>6. BeforeFun(blocks, k + 1, g) BY <2>5, Zenon DEF BeforeFun, AllOf
  <2> QED BY <2>6
<1>3. \E f : BeforeFun(blocks, m, f)
  <2>0. m \in Nat OBVIOUS
  <2> HIDE DEF S, m
  <2>1. 0 .. m \subseteq S BY <1>1, <1>2, <2>0, SetInduction
  <2>2. m \in S BY <2>0, <2>1
  <2> QED BY <2>2 DEF S
<1>4. \A k : Before(blocks, k) = (CHOOSE f : BeforeFun(blocks, m, f))[k]
  BY Zenon DEF Before, BeforeFun
<1> HIDE DEF m
<1> QED BY <1>3, <1>4, Zenon DEF m

LEMMA BeforeStep ==
  ASSUME NEW blocks, Len(blocks) \in Nat
  PROVE  /\ Before(blocks, 1) = << >>
         /\ \A k \in 1 .. Len(blocks) : Before(blocks, k + 1) = AllOf(Before(blocks, k), blocks[k])
<1>1. PICK f : BeforeFun(blocks, Len(blocks), f) /\ \A k : Before(blocks, k) = f[k] BY BeforeHas, Zenon
<1>2. f = [i \in 1 .. Len(blocks) + 1 |-> IF i = 1 THEN << >> ELSE AllOf(f[i - 1], blocks[i - 1])]
  BY <1>1, Zenon DEF BeforeFun, AllOf
<1>3. f[1] = << >> BY <1>2
<1>4. ASSUME NEW k \in 1 .. Len(blocks) PROVE f[k + 1] = AllOf(f[k], blocks[k])
  <2>1. k + 1 \in 1 .. Len(blocks) + 1 /\ k + 1 # 1 /\ (k + 1) - 1 = k OBVIOUS
  <2>2. f[k + 1] = AllOf(f[(k + 1) - 1], blocks[(k + 1) - 1]) BY <1>2, <2>1
  <2> QED BY <2>1, <2>2
<1>5. Before(blocks, 1) = << >> BY <1>1, <1>3
<1>6. ASSUME NEW k \in 1 .. Len(blocks) PROVE Before(blocks, k + 1) = AllOf(Before(blocks, k), blocks[k])
  <2>1. f[k + 1] = AllOf(f[k], blocks[k]) BY <1>4
  <2> QED BY <1>1, <2>1, Zenon
<1> QED BY <1>5, <1>6

(* A code that puts out bytes, or copies what was put out. *)
Puts(r, out) ==
  /\ r.lit \in Seq(Byte) /\ r.len \in Nat /\ r.back \in Nat \ {0}
  /\ r.len # 0 => r.back <= Len(out)
(* s is the beginning of t.                                                 *)
Prefix(s, t) == Len(s) <= Len(t) /\ \A i \in 1 .. Len(s) : s[i] = t[i]

LEMMA AfterFacts ==
  ASSUME NEW out \in Seq(Byte), NEW r, Puts(r, out)
  PROVE  LET all == After(out, r) IN
         /\ all \in Seq(Byte) /\ Len(all) = Len(out) + Len(r.lit) + r.len
         /\ Prefix(out, all)
         /\ \A i \in 1 .. Len(r.lit) : all[Len(out) + i] = r.lit[i]
         /\ r.lit = << >> => \A i \in 1 .. r.len :
              all[Len(out) + i] = out[Len(out) - r.back + 1 + ((i - 1) % r.back)]
<1> DEFINE src(i) == Len(out) - r.back + 1 + ((i - 1) % r.back)
           t == [i \in 1 .. r.len |-> out[src(i)]]
<1>1. PICK len \in Nat : len = r.len BY DEF Puts
<1>2. PICK back \in Nat \ {0} : back = r.back BY DEF Puts
<1>3. PICK lit1 \in Seq(Byte) : lit1 = r.lit BY DEF Puts
<1>4. PICK o \in Nat : o = Len(out) OBVIOUS
<1>5. ASSUME NEW i \in 1 .. len PROVE src(i) \in 1 .. o
  <2>1. (i - 1) % back \in 0 .. back - 1
    <3>1. i - 1 \in Int OBVIOUS
    <3> QED BY <3>1, ModRange
  <2>2. back <= o BY <1>1, <1>2, <1>4 DEF Puts
  <2>3. o - back + 1 + ((i - 1) % back) \in 1 .. o BY <2>1, <2>2
  <2> QED BY <1>2, <1>4, <2>3
<1>6. t = [i \in 1 .. len |-> out[src(i)]] BY <1>1
<1> HIDE DEF src, t
<1>7. t \in [1 .. len -> Byte] BY <1>4, <1>5, <1>6
<1>8. t \in Seq(Byte) /\ Len(t) = len BY <1>7, SeqOfFunction
<1>9. After(out, r) = (out \o lit1) \o t BY <1>3, Zenon DEF After, t, src
<1> DEFINE u == out \o lit1
<1>10. /\ u \in Seq(Byte) /\ Len(u) = o + Len(lit1)
       /\ \A i \in 1 .. o : u[i] = out[i]
       /\ \A i \in 1 .. Len(lit1) : u[o + i] = lit1[i]
  BY <1>4, ConcatFacts
<1>11. lit1 = << >> => Len(lit1) = 0 OBVIOUS
<1> HIDE DEF u
<1> DEFINE all == u \o t
<1>12. /\ all \in Seq(Byte) /\ Len(all) = Len(u) + len
       /\ \A i \in 1 .. Len(u) : all[i] = u[i]
       /\ \A i \in 1 .. len : all[Len(u) + i] = t[i]
  <2>1. /\ all \in Seq(Byte) /\ Len(all) = Len(u) + Len(t)
        /\ \A i \in 1 .. Len(u) : all[i] = u[i]
        /\ \A i \in 1 .. Len(t) : all[Len(u) + i] = t[i]
    <3>1. u \in Seq(Byte) /\ t \in Seq(Byte) BY <1>8, <1>10
    <3>2. /\ u \o t \in Seq(Byte) /\ Len(u \o t) = Len(u) + Len(t)
          /\ \A i \in 1 .. Len(u) : (u \o t)[i] = u[i]
          /\ \A i \in 1 .. Len(t) : (u \o t)[Len(u) + i] = t[i]
      BY <3>1, ConcatFacts
    <3> QED BY <3>2, Zenon
  <2> HIDE DEF all
  <2> QED BY <1>8, <2>1, Zenon
<1>13. After(out, r) = all BY <1>9 DEF u
<1> HIDE DEF all
<1>14. Len(lit1) \in Nat OBVIOUS
<1>15. Len(all) = o + Len(lit1) + len BY <1>10, <1>12, <1>14
<1>16. ASSUME NEW i \in 1 .. o PROVE out[i] = all[i] BY <1>10, <1>12, <1>14
<1>17. Prefix(out, all) BY <1>4, <1>14, <1>15, <1>16 DEF Prefix
<1>18. ASSUME NEW i \in 1 .. Len(lit1) PROVE all[o + i] = lit1[i]
  <2>1. o + i \in 1 .. Len(u) BY <1>10, <1>14
  <2> QED BY <1>10, <1>12, <2>1
<1>19. ASSUME lit1 = << >>, NEW i \in 1 .. len PROVE all[o + i] = out[src(i)]
  <2>1. Len(u) = o BY <1>10, <1>11, <1>19
  <2> QED BY <1>6, <1>12, <2>1
<1>20. \A i \in 1 .. Len(r.lit) : all[Len(out) + i] = r.lit[i] BY <1>3, <1>4, <1>18
<1>21. r.lit = << >> => \A i \in 1 .. r.len :
              all[Len(out) + i] = out[Len(out) - r.back + 1 + ((i - 1) % r.back)]
  BY <1>1, <1>3, <1>4, <1>19, Zenon DEF src
<1>22. Len(all) = Len(out) + Len(r.lit) + r.len BY <1>1, <1>3, <1>4, <1>15
<1> QED BY <1>12, <1>13, <1>17, <1>20, <1>21, <1>22

LEMMA PrefixFacts ==
  ASSUME NEW s \in Seq(Byte)
  PROVE  /\ Prefix(s, s)
         /\ \A t \in Seq(Byte) : Prefix(s, t) => IsPrefix(s, t)
         /\ \A t, u \in Seq(Byte) : Prefix(s, t) /\ Prefix(t, u) => Prefix(s, u)
<1>1. Prefix(s, s) BY DEF Prefix
<1>2. ASSUME NEW t \in Seq(Byte), Prefix(s, t) PROVE IsPrefix(s, t)
  <2>1. Len(s) \in Nat /\ Len(t) \in Nat /\ Len(s) <= Len(t) BY <1>2 DEF Prefix
  <2>2. SubSeq(s, 1, Len(s)) = SubSeq(t, 1, Len(s)) BY <1>2, <2>1 DEF Prefix
  <2> QED BY <2>1, <2>2 DEF IsPrefix
<1>3. ASSUME NEW t \in Seq(Byte), NEW u \in Seq(Byte), Prefix(s, t), Prefix(t, u) PROVE Prefix(s, u)
  BY <1>3 DEF Prefix
<1> QED BY <1>1, <1>2, <1>3

-----------------------------------------------------------------------------
(* The codes of a block, a stored one's bytes among them. *)
CodesOf(block) == Len(TokensOf(block))

LEMMA TokensCounted ==
  ASSUME NEW block, BlockSound(block)
  PROVE  CodesOf(block) \in Nat /\ DOMAIN TokensOf(block) = 1 .. CodesOf(block)
<1>1. block.type \in 0 .. 3 BY DEF BlockSound
<1>2. CASE block.type = 0
  <2>1. TokensOf(block) = [j \in DOMAIN block.data |-> [sym |-> block.data[j]]] BY <1>2 DEF TokensOf
  <2>2. block.data \in Seq(Byte) BY <1>2 DEF BlockSound
  <2>3. DOMAIN block.data = 1 .. Len(block.data) /\ Len(block.data) \in Nat BY <2>2
  <2> DEFINE S == {[sym |-> x] : x \in Byte}
  <2>4. [j \in 1 .. Len(block.data) |-> [sym |-> block.data[j]]] \in [1 .. Len(block.data) -> S]
    BY <2>2
  <2>5. TokensOf(block) \in [1 .. Len(block.data) -> S] BY <2>1, <2>3, <2>4
  <2> HIDE DEF S
  <2>6. Len(TokensOf(block)) = Len(block.data) BY <2>3, <2>5, SeqOfFunction
  <2>7. DOMAIN TokensOf(block) = 1 .. Len(block.data) BY <2>5
  <2> QED BY <2>3, <2>6, <2>7 DEF CodesOf
<1>3. CASE block.type \in 1 .. 2
  <2>1. TokensOf(block) = block.toks BY <1>3 DEF TokensOf
  <2>2. IsSeq(block.toks) BY <1>3 DEF BlockSound, TokensSound
  <2> QED BY <2>1, <2>2, IsSeqFacts DEF CodesOf
<1>4. CASE block.type = 3
  <2>1. TokensOf(block) = << >> BY <1>4 DEF TokensOf
  <2> QED BY <2>1 DEF CodesOf
<1> QED BY <1>1, <1>2, <1>3, <1>4

LEMMA LiteralsAreLess == \A x \in Byte : x < EOB
BY DEF Byte, EOB

(* The symbols a code may have: no literal starts a copy, which has a length. *)
CodeSymbols == 0 .. 287
LEMMA LiteralIs ==
  \A t : t.sym \in CodeSymbols /\ t.sym < EOB => t.sym \in Byte /\ t.sym # EOB /\ ~IsCopy(t)
<1>1. \A x \in CodeSymbols : x < EOB => x \in Byte /\ x # EOB /\ x \notin 257 .. 285
  BY DEF CodeSymbols, Byte, EOB
<1> QED BY <1>1, SMT DEF IsCopy

LEMMA CopyIsLong ==
  \A t : IsCopy(t) => t.sym > EOB /\ t.sym # EOB /\ t.sym - EOB \in 1 .. 29 /\ cplens[t.sym - EOB] \in Nat
<1>1. \A x \in 1 .. 258 : x \in Nat OBVIOUS
<1>2. \A s \in 1 .. 29 : cplens[s] \in Nat BY <1>1, CopyLengths, Zenon
<1>3. \A x \in 257 .. 285 : x > EOB /\ x # EOB /\ x - EOB \in 1 .. 29 BY DEF EOB
<1>4. \A t : IsCopy(t) => t.sym > EOB /\ t.sym # EOB /\ t.sym - EOB \in 1 .. 29 BY <1>3, SMT DEF IsCopy
<1> QED BY <1>2, <1>4, Zenon

(* What a code puts out: a byte, nothing, or as long a copy from as far     *)
(* back as the decoder computes it.                                         *)
LEMMA WrittenFacts ==
  ASSUME file \in Files, NEW m \in 1 .. Len(file.blocks), NEW k \in 1 .. CodesOf(file.blocks[m]),
         NEW out \in Seq(Byte), out = Expanded(Before(file.blocks, m), TokensOf(file.blocks[m]), k - 1)
  PROVE  LET block == file.blocks[m]
             r == Written(TokensOf(block)[k])
             t == block.toks[k]
         IN  /\ Puts(r, out)
             /\ block.type = 0 => r.lit = << block.data[k] >> /\ r.len = 0
             /\ block.type \in 1 .. 2 =>
                  /\ t.sym < EOB => r.lit = << t.sym >> /\ r.len = 0
                  /\ t.sym = EOB => r.lit = << >> /\ r.len = 0
                  /\ IsCopy(t) => /\ r.lit = << >> /\ r.len = cplens[t.sym - EOB] + t.ext
                                  /\ r.back = cpdist[t.dsym + 1] + t.dext
                                  /\ r.back \in 1 .. WSIZE /\ r.back <= Len(out)
<1> DEFINE block == file.blocks[m]
           r == Written(TokensOf(block)[k])
           t == block.toks[k]
<1>1. m \in DOMAIN file.blocks /\ BlockSound(block) /\ CopiesSound(file.blocks)
  BY FileFacts DEF FileSound
<1>2. block.type \in 0 .. 3 BY <1>1 DEF BlockSound
<1>3. k \in 1 .. CodesOf(block) /\ CodesOf(block) \in Nat /\ DOMAIN TokensOf(block) = 1 .. CodesOf(block)
  BY <1>1, TokensCounted
<1>4. << >> \in Seq(Byte) /\ 0 \in Nat /\ 1 \in Nat \ {0} OBVIOUS
<1>5. CASE block.type = 0
  <2>1. TokensOf(block) = [j \in DOMAIN block.data |-> [sym |-> block.data[j]]] BY <1>5 DEF TokensOf
  <2>2. block.data \in Seq(Byte) BY <1>1, <1>5 DEF BlockSound
  <2>3. k \in DOMAIN block.data BY <1>3, <2>1
  <2>4. block.data[k] \in Byte BY <2>2, <2>3
  <2>5. TokensOf(block)[k] = [sym |-> block.data[k]] BY <2>1, <2>3
  <2>6. PICK v \in Byte : v = block.data[k] BY <2>4
  <2>7. v < EOB BY LiteralsAreLess
  <2>8. r = [lit |-> << v >>, len |-> 0, back |-> 1] BY <2>5, <2>6, <2>7 DEF Written
  <2> HIDE DEF r, block
  <2>9. r.lit = << v >> /\ r.len = 0 /\ r.back = 1 BY <2>8
  <2>10. << v >> \in Seq(Byte) OBVIOUS
  <2>11. Puts(r, out) BY <1>4, <2>9, <2>10, SMTT(30) DEF Puts
  <2>12. ~(block.type \in 1 .. 2) BY <1>5
  <2> QED BY <2>6, <2>9, <2>11, <2>12 DEF r, block
<1>6. CASE block.type \in 1 .. 2
  <2>1. TokensOf(block) = block.toks BY <1>6 DEF TokensOf
  <2>2. TokensSound(block.toks) BY <1>1, <1>6 DEF BlockSound
  <2>3. k \in DOMAIN block.toks BY <1>3, <2>1
  <2>4. t.sym \in CodeSymbols /\ t.ext \in Nat /\ t.dsym \in Nat /\ t.dext \in Nat
    BY <2>2, <2>3, TokenFacts, Zenon DEF CodeSymbols
  <2>5. block.type # 0 BY <1>6
  <2>6. r = Written(t) BY <2>1
  <2>7. t.sym > EOB /\ IsCopy(t) => Written(t).back \in 1 .. Min({WSIZE, Len(out)})
    BY <1>1, <2>1, <2>3, Zenon DEF CopiesSound
  <2> HIDE DEF r, t, block
  <2>8. CASE t.sym < EOB
    <3>1. r = [lit |-> << t.sym >>, len |-> 0, back |-> 1] BY <2>6, <2>8 DEF Written
    <3>2. r.lit = << t.sym >> /\ r.len = 0 /\ r.back = 1 BY <3>1
    <3>3. t.sym \in Byte /\ t.sym # EOB /\ ~IsCopy(t) BY <2>4, <2>8, LiteralIs, Zenon
    <3>4. << t.sym >> \in Seq(Byte) BY <3>3
    <3>5. Puts(r, out) BY <1>4, <3>2, <3>4 DEF Puts
    <3> QED BY <2>5, <3>2, <3>3, <3>5 DEF r, t, block
  <2>9. CASE ~(t.sym < EOB) /\ ~IsCopy(t)
    <3>1. r = [lit |-> << >>, len |-> 0, back |-> 1] BY <2>6, <2>9 DEF Written
    <3>2. r.lit = << >> /\ r.len = 0 /\ r.back = 1 BY <3>1
    <3>3. Puts(r, out) BY <1>4, <3>2 DEF Puts
    <3> QED BY <2>5, <2>9, <3>2, <3>3 DEF r, t, block
  <2>10. CASE ~(t.sym < EOB) /\ IsCopy(t)
    <3>1. r = [lit |-> << >>, len |-> cplens[t.sym - EOB] + t.ext, back |-> cpdist[t.dsym + 1] + t.dext]
      BY <2>6, <2>10 DEF Written
    <3>2. r.lit = << >> /\ r.len = cplens[t.sym - EOB] + t.ext /\ r.back = cpdist[t.dsym + 1] + t.dext
      BY <3>1
    <3>3. IsCopy(t) BY <2>10
    <3>4. t.sym > EOB /\ t.sym # EOB /\ t.sym - EOB \in 1 .. 29 /\ cplens[t.sym - EOB] \in Nat
      BY <3>3, CopyIsLong, Zenon
    <3>5. r.len \in Nat BY <2>4, <3>2, <3>4
    <3>6. r.back \in 1 .. Min({WSIZE, Len(out)}) BY <2>6, <2>7, <2>10, <3>4
    <3>7. PICK many \in Nat : many = Len(out) OBVIOUS
    <3>8. Min({WSIZE, many}) \in {WSIZE, many} /\ Min({WSIZE, many}) <= WSIZE /\ Min({WSIZE, many}) <= many
      <4>1. WSIZE \in Int /\ many \in Int OBVIOUS
      <4> QED BY <4>1, MinOfTwo, Zenon
    <3> DEFINE most == Min({WSIZE, many})
    <3> HIDE DEF most
    <3>9. r.back \in 1 .. most BY <3>6, <3>7 DEF most
    <3>10. most \in Nat /\ most <= WSIZE /\ most <= many BY <3>8 DEF most
    <3>11. r.back \in Nat \ {0} /\ r.back \in 1 .. WSIZE /\ r.back <= many BY <3>9, <3>10
    <3>12. Puts(r, out) BY <1>4, <3>2, <3>5, <3>7, <3>11 DEF Puts
    <3> QED BY <2>5, <2>10, <3>2, <3>4, <3>7, <3>11, <3>12 DEF r, t, block
  <2> QED BY <2>8, <2>9, <2>10
<1>7. CASE block.type = 3
  <2>1. TokensOf(block) = << >> BY <1>7 DEF TokensOf
  <2> QED BY <1>3, <2>1 DEF CodesOf
<1> QED BY <1>2, <1>5, <1>6, <1>7

(* What is put out first stays the beginning of what is put out. *)
LEMMA PrefixChain ==
  ASSUME NEW m \in Nat, NEW f, \A i \in 0 .. m : f[i] \in Seq(Byte),
         \A i \in 1 .. m : Prefix(f[i - 1], f[i])
  PROVE  \A i, j \in 0 .. m : i <= j => Prefix(f[i], f[j])
<1> SUFFICES ASSUME NEW i \in 0 .. m PROVE \A j \in 0 .. m : i <= j => Prefix(f[i], f[j]) OBVIOUS
<1> DEFINE S == {j \in 0 .. m : i <= j => Prefix(f[i], f[j])}
<1>1. Prefix(f[i], f[i]) BY PrefixFacts
<1>2. 0 \in S
  <2>1. 0 \in 0 .. m /\ (i <= 0 => i = 0) OBVIOUS
  <2>2. i <= 0 => Prefix(f[i], f[0]) BY <1>1, <2>1, Zenon
  <2> QED BY <2>1, <2>2
<1>3. ASSUME NEW j \in 0 .. m - 1, j \in S PROVE j + 1 \in S
  <2>1. j + 1 \in 1 .. m /\ j \in 0 .. m /\ (j + 1) - 1 = j /\ (i <= j + 1 => i <= j \/ i = j + 1) OBVIOUS
  <2>2. Prefix(f[j], f[j + 1])
    <3>1. Prefix(f[(j + 1) - 1], f[j + 1]) BY <2>1
    <3> QED BY <2>1, <3>1
  <2>3. CASE i <= j
    <3>1. Prefix(f[i], f[j]) BY <1>3, <2>3
    <3>2. j + 1 \in 0 .. m BY <2>1
    <3>3. f[i] \in Seq(Byte) /\ f[j] \in Seq(Byte) /\ f[j + 1] \in Seq(Byte) BY <2>1, <3>2
    <3>4. Prefix(f[i], f[j + 1]) BY <2>2, <3>1, <3>3, PrefixFacts
    <3> QED BY <3>2, <3>4
  <2>4. CASE i = j + 1
    <3>1. Prefix(f[i], f[j + 1]) BY <1>1, <2>4
    <3> QED BY <2>1, <3>1
  <2>5. CASE ~(i <= j + 1) BY <2>1, <2>5
  <2> QED BY <2>1, <2>3, <2>4, <2>5
<1> HIDE DEF S
<1>4. 0 .. m \subseteq S BY <1>2, <1>3, SetInduction
<1>5. ASSUME NEW j \in 0 .. m, i <= j PROVE Prefix(f[i], f[j])
  <2>1. j \in S BY <1>4
  <2> QED BY <1>5, <2>1 DEF S
<1> QED BY <1>5

(* The codes of a block, put out one after the other. *)
LEMMA CodesPutOut ==
  ASSUME file \in Files, NEW m \in 1 .. Len(file.blocks), Before(file.blocks, m) \in Seq(Byte)
  PROVE  LET block == file.blocks[m]
             PutOutBy(k) == Expanded(Before(file.blocks, m), TokensOf(block), k)
         IN  /\ CodesOf(block) \in Nat
             /\ PutOutBy(0) = Before(file.blocks, m)
             /\ PutOutBy(CodesOf(block)) = Before(file.blocks, m + 1)
             /\ \A k \in 0 .. CodesOf(block) : PutOutBy(k) \in Seq(Byte)
             /\ \A k \in 1 .. CodesOf(block) :
                  PutOutBy(k) = After(PutOutBy(k - 1), Written(TokensOf(block)[k]))
             /\ \A j, k \in 0 .. CodesOf(block) : j <= k => Prefix(PutOutBy(j), PutOutBy(k))
<1> DEFINE block == file.blocks[m]
           toks == TokensOf(block)
           many == CodesOf(block)
           out == Before(file.blocks, m)
           PutOutBy(k) == Expanded(out, toks, k)
           f == [k \in 0 .. many |-> PutOutBy(k)]
           S == {k \in 0 .. many : PutOutBy(k) \in Seq(Byte)}
<1>1. m \in DOMAIN file.blocks /\ BlockSound(block) /\ Len(file.blocks) \in Nat
  BY FileFacts DEF FileSound
<1>2. many \in Nat /\ Len(toks) = many BY <1>1, TokensCounted DEF CodesOf
<1>3. PutOutBy(0) = out /\ \A k \in 1 .. many : PutOutBy(k) = After(PutOutBy(k - 1), Written(toks[k]))
  <2>1. Len(toks) \in Nat BY <1>2
  <2> HIDE DEF toks, out, many
  <2>2. /\ Expanded(out, toks, 0) = out
        /\ \A k \in 1 .. Len(toks) :
             Expanded(out, toks, k) = After(Expanded(out, toks, k - 1), Written(toks[k]))
    BY <2>1, ExpandedStep, Zenon
  <2> QED BY <1>2, <2>2, Zenon
<1>4. PutOutBy(many) = Before(file.blocks, m + 1)
  <2>1. Before(file.blocks, m + 1) = AllOf(out, block) BY <1>1, BeforeStep, Zenon
  <2> QED BY <1>2, <2>1, Zenon DEF AllOf
<1>5. ASSUME NEW k \in 1 .. many, PutOutBy(k - 1) \in Seq(Byte)
      PROVE  PutOutBy(k) \in Seq(Byte) /\ Prefix(PutOutBy(k - 1), PutOutBy(k))
  <2> DEFINE was == PutOutBy(k - 1)
             r == Written(toks[k])
  <2>1. was \in Seq(Byte) BY <1>5
  <2>2. Puts(r, was)
    <3>1. was = Expanded(Before(file.blocks, m), TokensOf(file.blocks[m]), k - 1) BY DEF was
    <3> HIDE DEF was
    <3> QED BY <2>1, <3>1, WrittenFacts
  <2>3. PutOutBy(k) = After(was, r) BY <1>3
  <2> HIDE DEF was, r
  <2>4. After(was, r) \in Seq(Byte) /\ Prefix(was, After(was, r)) BY <2>1, <2>2, AfterFacts
  <2> QED BY <2>3, <2>4 DEF was
<1> HIDE DEF many, toks, out
<1>6. 0 \in S BY <1>2, <1>3 DEF out
<1>7. ASSUME NEW k \in 0 .. many - 1, k \in S PROVE k + 1 \in S
  <2>1. k + 1 \in 1 .. many /\ (k + 1) - 1 = k /\ k + 1 \in 0 .. many BY <1>2
  <2>2. PutOutBy((k + 1) - 1) \in Seq(Byte) BY <1>7, <2>1, Zenon
  <2>3. PutOutBy(k + 1) \in Seq(Byte) BY <1>5, <2>1, <2>2, Zenon
  <2> QED BY <2>1, <2>3
<1> HIDE DEF S
<1>8. 0 .. many \subseteq S BY <1>2, <1>6, <1>7, SetInduction
<1>9. ASSUME NEW k \in 0 .. many PROVE PutOutBy(k) \in Seq(Byte)
  <2>1. k \in S BY <1>8
  <2> QED BY <2>1 DEF S
<1>10. ASSUME NEW k \in 1 .. many PROVE Prefix(f[k - 1], f[k])
  <2>1. k - 1 \in 0 .. many /\ k \in 0 .. many BY <1>2
  <2>2. Prefix(PutOutBy(k - 1), PutOutBy(k)) BY <1>5, <1>9, <2>1, Zenon
  <2> QED BY <2>1, <2>2
<1>11. \A j, k \in 0 .. many : j <= k => Prefix(PutOutBy(j), PutOutBy(k))
  <2>1. \A k \in 0 .. many : f[k] \in Seq(Byte) BY <1>9
  <2>2. \A k \in 0 .. many : f[k] = PutOutBy(k) OBVIOUS
  <2> HIDE DEF f
  <2>3. \A j, k \in 0 .. many : j <= k => Prefix(f[j], f[k]) BY <1>2, <1>10, <2>1, PrefixChain, Zenon
  <2> QED BY <2>2, <2>3, Zenon
<1> QED BY <1>2, <1>3, <1>4, <1>9, <1>11, Zenon DEF many, toks, out

(* ... and its blocks. *)
LEMMA BlocksPutOut ==
  ASSUME file \in Files
  PROVE  /\ \A m \in 1 .. Len(file.blocks) + 1 : Before(file.blocks, m) \in Seq(Byte)
         /\ Before(file.blocks, 1) = << >> /\ Before(file.blocks, Len(file.blocks) + 1) = file.out
         /\ \A m \in 1 .. Len(file.blocks) + 1 : Prefix(Before(file.blocks, m), file.out)
<1> DEFINE many == Len(file.blocks)
           out(m) == Before(file.blocks, m)
           S == {k \in 0 .. many : out(k + 1) \in Seq(Byte)}
           f == [k \in 0 .. many |-> out(k + 1)]
<1>1. many \in Nat /\ file.out = Before(file.blocks, many + 1)
  BY FileFacts DEF FileSound, Expansion
<1>2. out(1) = << >> BY <1>1, BeforeStep
<1>3. ASSUME NEW m \in 1 .. many, out(m) \in Seq(Byte)
      PROVE  out(m + 1) \in Seq(Byte) /\ Prefix(out(m), out(m + 1))
  <2> DEFINE p(k) == Expanded(Before(file.blocks, m), TokensOf(file.blocks[m]), k)
             codes1 == CodesOf(file.blocks[m])
  <2>1. /\ codes1 \in Nat /\ p(0) = out(m) /\ p(codes1) = out(m + 1)
        /\ \A k \in 0 .. codes1 : p(k) \in Seq(Byte)
        /\ \A j, k \in 0 .. codes1 : j <= k => Prefix(p(j), p(k))
    BY <1>3, CodesPutOut, Zenon
  <2> HIDE DEF p, codes1
  <2>2. 0 \in 0 .. codes1 /\ codes1 \in 0 .. codes1 /\ 0 <= codes1 BY <2>1
  <2>3. p(codes1) \in Seq(Byte) /\ Prefix(p(0), p(codes1)) BY <2>1, <2>2, Zenon
  <2> QED BY <2>1, <2>3
<1> HIDE DEF out, many
<1>4. 0 \in S
  <2>1. << >> \in Seq(Byte) /\ 0 + 1 = 1 /\ 0 \in 0 .. many BY <1>1
  <2>2. out(0 + 1) \in Seq(Byte) BY <1>2, <2>1
  <2> QED BY <2>1, <2>2
<1>5. ASSUME NEW k \in 0 .. many - 1, k \in S PROVE k + 1 \in S
  <2>1. k + 1 \in 1 .. many /\ k + 1 \in 0 .. many BY <1>1
  <2>2. out(k + 1) \in Seq(Byte) BY <1>5
  <2>3. out((k + 1) + 1) \in Seq(Byte) BY <1>3, <2>1, <2>2, Zenon
  <2> QED BY <2>1, <2>3
<1> HIDE DEF S
<1>6. 0 .. many \subseteq S BY <1>1, <1>4, <1>5, SetInduction
<1>7. ASSUME NEW m \in 1 .. many + 1 PROVE out(m) \in Seq(Byte)
  <2>1. m - 1 \in 0 .. many /\ (m - 1) + 1 = m BY <1>1
  <2>2. m - 1 \in S BY <1>6, <2>1
  <2>3. out((m - 1) + 1) \in Seq(Byte) BY <2>2 DEF S
  <2> QED BY <2>1, <2>3
<1>8. \A k \in 0 .. many : f[k] = out(k + 1) OBVIOUS
<1>9. ASSUME NEW k \in 1 .. many PROVE Prefix(f[k - 1], f[k])
  <2>1. k - 1 \in 0 .. many /\ k \in 0 .. many /\ (k - 1) + 1 = k /\ k \in 1 .. many + 1 BY <1>1
  <2>2. Prefix(out(k), out(k + 1)) BY <1>3, <1>7, <2>1, Zenon
  <2>3. f[k - 1] = out(k) BY <1>8, <2>1
  <2> QED BY <1>8, <2>1, <2>2, <2>3
<1>10. \A k \in 0 .. many : f[k] \in Seq(Byte)
  <2>1. \A k \in 0 .. many : k + 1 \in 1 .. many + 1 BY <1>1
  <2> QED BY <1>7, <1>8, <2>1
<1> HIDE DEF f
<1>11. \A j, k \in 0 .. many : j <= k => Prefix(f[j], f[k]) BY <1>1, <1>9, <1>10, PrefixChain, Zenon
<1>12. ASSUME NEW m \in 1 .. many + 1 PROVE Prefix(out(m), out(many + 1))
  <2>1. m - 1 \in 0 .. many /\ (m - 1) + 1 = m /\ many \in 0 .. many /\ m - 1 <= many BY <1>1
  <2>2. Prefix(f[m - 1], f[many]) BY <1>11, <2>1, Zenon
  <2>3. f[m - 1] = out(m) /\ f[many] = out(many + 1) BY <1>8, <2>1
  <2> QED BY <2>2, <2>3
<1> QED BY <1>1, <1>2, <1>7, <1>12 DEF out, many

-----------------------------------------------------------------------------
(*** The window ***)

(* The window sl, filled up to wpos, holds the end of the first put bytes   *)
(* of out, and ahead of wpos what is one window back.                       *)
HasPut(sl, wpos, out, base, put) ==
  /\ base \in Nat /\ Whole(base) /\ wpos \in 0 .. WSIZE /\ base + wpos = put /\ put <= Len(out)
  /\ \A i \in 0 .. wpos - 1 : sl[i] = out[base + i + 1]
  /\ base > 0 => \A i \in wpos .. WSIZE - 1 : sl[i] = out[base - WSIZE + i + 1]

LEMMA WholeIsMore == \A x \in Nat : Whole(x) /\ x > 0 => x >= WSIZE
<1> SUFFICES ASSUME NEW x \in Nat, Whole(x), x > 0, ~(x >= WSIZE) PROVE FALSE OBVIOUS
<1>1. x \in 0 .. WSIZE - 1 /\ 0 \in Nat OBVIOUS
<1>2. (0 + x) % WSIZE = x BY <1>1, WholeFacts
<1>3. 0 + x = x OBVIOUS
<1> QED BY <1>2, <1>3 DEF Whole

(* What is put out later does not matter. *)
LEMMA PutPrefix ==
  ASSUME NEW sl, NEW wpos, NEW out \in Seq(Byte), NEW longer \in Seq(Byte), NEW base, NEW put,
         HasPut(sl, wpos, out, base, put), Prefix(out, longer)
  PROVE  HasPut(sl, wpos, longer, base, put)
<1>1. /\ base \in Nat /\ wpos \in 0 .. WSIZE /\ base + wpos = put /\ put <= Len(out) /\ Whole(base)
      /\ base > 0 => base >= WSIZE
  BY WholeIsMore DEF HasPut
<1>2. Len(out) \in Nat /\ Len(longer) \in Nat /\ Len(out) <= Len(longer)
      /\ \A i \in 1 .. Len(out) : out[i] = longer[i]
  BY DEF Prefix
<1>3. ASSUME NEW i \in 0 .. wpos - 1 PROVE sl[i] = longer[base + i + 1]
  <2>1. base + i + 1 \in 1 .. Len(out) BY <1>1, <1>2
  <2>2. sl[i] = out[base + i + 1] BY DEF HasPut
  <2> QED BY <1>2, <2>1, <2>2
<1>4. ASSUME base > 0, NEW i \in wpos .. WSIZE - 1 PROVE sl[i] = longer[base - WSIZE + i + 1]
  <2>1. base - WSIZE + i + 1 \in 1 .. Len(out) BY <1>1, <1>2, <1>4
  <2>2. sl[i] = out[base - WSIZE + i + 1] BY <1>4 DEF HasPut
  <2> QED BY <1>2, <2>1, <2>2
<1>5. put <= Len(longer) BY <1>1, <1>2
<1> QED BY <1>1, <1>3, <1>4, <1>5 DEF HasPut

(* A byte more. *)
LEMMA PutByte ==
  ASSUME NEW sl \in [0 .. WSIZE - 1 -> Bytes], NEW wpos \in 0 .. WSIZE - 1,
         NEW out \in Seq(Byte), NEW longer \in Seq(Byte), NEW base,
         HasPut(sl, wpos, out, base, Len(out)), Prefix(out, longer), Len(longer) = Len(out) + 1,
         NEW v, v = longer[Len(out) + 1]
  PROVE  HasPut([sl EXCEPT ![wpos] = v], wpos + 1, longer, base, Len(longer))
<1> DEFINE sl2 == [sl EXCEPT ![wpos] = v]
<1>1. HasPut(sl, wpos, longer, base, Len(out)) BY PutPrefix
<1>2. /\ base \in Nat /\ Whole(base) /\ base + wpos = Len(out)
      /\ \A i \in 0 .. wpos - 1 : sl[i] = longer[base + i + 1]
      /\ base > 0 => \A i \in wpos .. WSIZE - 1 : sl[i] = longer[base - WSIZE + i + 1]
  BY <1>1 DEF HasPut
<1>3. sl2[wpos] = v /\ \A i \in 0 .. WSIZE - 1 : i # wpos => sl2[i] = sl[i] OBVIOUS
<1> HIDE DEF sl2
<1>4. ASSUME NEW i \in 0 .. wpos PROVE sl2[i] = longer[base + i + 1]
  <2>1. CASE i = wpos
    <3>1. base + i + 1 = Len(out) + 1 BY <1>2, <2>1
    <3> QED BY <1>3, <2>1, <3>1
  <2>2. CASE i # wpos
    <3>1. i \in 0 .. wpos - 1 /\ i \in 0 .. WSIZE - 1 BY <2>2
    <3> QED BY <1>2, <1>3, <2>2, <3>1
  <2> QED BY <2>1, <2>2
<1>5. ASSUME base > 0, NEW i \in wpos + 1 .. WSIZE - 1 PROVE sl2[i] = longer[base - WSIZE + i + 1]
  <2>1. i \in wpos .. WSIZE - 1 /\ i \in 0 .. WSIZE - 1 /\ i # wpos OBVIOUS
  <2> QED BY <1>2, <1>3, <1>5, <2>1
<1>6. base + (wpos + 1) = Len(longer) /\ wpos + 1 \in 0 .. WSIZE /\ Len(longer) <= Len(longer)
  <2>1. PICK o \in Nat, l \in Nat : o = Len(out) /\ l = Len(longer) OBVIOUS
  <2>2. base + wpos = o /\ l = o + 1 BY <1>2, <2>1
  <2>3. base + (wpos + 1) = l /\ l <= l BY <1>2, <2>2
  <2>4. wpos + 1 \in 0 .. WSIZE OBVIOUS
  <2> QED BY <2>1, <2>3, <2>4
<1>7. (wpos + 1) - 1 = wpos OBVIOUS
<1>8. \A i \in 0 .. (wpos + 1) - 1 : sl2[i] = longer[base + i + 1] BY <1>4, <1>7
<1> QED BY <1>2, <1>5, <1>6, <1>8 DEF HasPut, sl2

(* A window that is full begins again. *)
LEMMA PutAround ==
  ASSUME NEW sl, NEW out \in Seq(Byte), NEW base, NEW put, HasPut(sl, WSIZE, out, base, put)
  PROVE  HasPut(sl, 0, out, base + WSIZE, put)
<1>1. /\ base \in Nat /\ Whole(base) /\ base + WSIZE = put /\ put <= Len(out)
      /\ \A i \in 0 .. WSIZE - 1 : sl[i] = out[base + i + 1]
  BY DEF HasPut
<1>2. Whole(base + WSIZE) BY <1>1, WholeFacts
<1>3. (base + WSIZE) - WSIZE = base /\ base + WSIZE \in Nat /\ (base + WSIZE) + 0 = put BY <1>1
<1>4. \A i \in 0 .. WSIZE - 1 : sl[i] = out[(base + WSIZE) - WSIZE + i + 1] BY <1>1, <1>3
<1> QED BY <1>1, <1>2, <1>3, <1>4 DEF HasPut

LEMMA ModLess ==
  ASSUME NEW k \in Nat, NEW m \in Nat \ {0}, k >= m
  PROVE  k % m = (k - m) % m
<1> DEFINE x == k - m
<1>1. x \in Nat /\ x + m = k OBVIOUS
<1>2. PICK q \in Nat, r \in 0 .. m - 1 : q = x \div m /\ r = x % m /\ x = q * m + r
  <2>1. x \div m \in Nat /\ x % m \in 0 .. m - 1 /\ x = (x \div m) * m + (x % m) BY <1>1, DivMod
  <2> QED BY <2>1, Zenon
<1> HIDE DEF x
<1>3. q + 1 \in Nat /\ q * m \in Nat /\ (q + 1) * m = q * m + m
  <2>1. (q + 1) * m = q * m + m OBVIOUS
  <2> QED BY <2>1, Product
<1>4. ((q + 1) * m + r) % m = r BY <1>3, DivModOf
<1>5. k = (q + 1) * m + r BY <1>1, <1>2, <1>3
<1>6. k % m = r BY <1>4, <1>5
<1> QED BY <1>2, <1>6 DEF x

LEMMA ModSmall == ASSUME NEW m \in Nat \ {0}, NEW k \in 0 .. m - 1 PROVE k % m = k
OBVIOUS

(* Each byte of a copy is the one that far back, copied or not. *)
LEMMA CopiesRepeat ==
  ASSUME NEW out \in Seq(Byte), NEW r, Puts(r, out), r.lit = << >>, r.len # 0
  PROVE  \A p \in Len(out) + 1 .. Len(out) + r.len : After(out, r)[p] = After(out, r)[p - r.back]
<1>1. PICK o \in Nat : o = Len(out) OBVIOUS
<1>2. PICK back \in Nat \ {0}, len \in Nat : back = r.back /\ len = r.len BY DEF Puts
<1> DEFINE all == After(out, r)
<1>3. back <= o BY <1>1, <1>2 DEF Puts
<1>4. /\ \A i \in 1 .. o : out[i] = all[i]
      /\ \A i \in 1 .. len : all[o + i] = out[o - back + 1 + ((i - 1) % back)]
  <2>1. /\ Prefix(out, all)
        /\ \A i \in 1 .. r.len : all[Len(out) + i] = out[Len(out) - r.back + 1 + ((i - 1) % r.back)]
    BY AfterFacts, Zenon
  <2> HIDE DEF all
  <2>2. \A i \in 1 .. o : out[i] = all[i] BY <1>1, <2>1 DEF Prefix
  <2> QED BY <1>1, <1>2, <2>1, <2>2, Zenon
<1> HIDE DEF all
<1>5. ASSUME NEW i \in 1 .. len PROVE all[o + i] = all[o + i - back]
  <2>1. CASE i <= back
    <3>1. i - 1 \in 0 .. back - 1 BY <2>1
    <3>2. (i - 1) % back = i - 1 BY <3>1, ModSmall
    <3>3. o - back + 1 + (i - 1) = o + i - back /\ o + i - back \in 1 .. o BY <1>3, <2>1
    <3>4. all[o + i] = out[o - back + 1 + (i - 1)] BY <1>4, <3>2
    <3> QED BY <1>4, <3>3, <3>4
  <2>2. CASE i > back
    <3>1. i - back \in 1 .. len /\ i - 1 \in Nat /\ i - 1 >= back /\ (i - 1) - back = (i - back) - 1
      BY <2>2
    <3>2. (i - 1) % back = ((i - back) - 1) % back
      <4>1. (i - 1) % back = ((i - 1) - back) % back BY <3>1, ModLess
      <4> QED BY <3>1, <4>1
    <3>3. all[o + (i - back)] = out[o - back + 1 + (((i - back) - 1) % back)] BY <1>4, <3>1
    <3>4. all[o + i] = out[o - back + 1 + ((i - 1) % back)] BY <1>4
    <3>5. o + (i - back) = o + i - back OBVIOUS
    <3>6. out[o - back + 1 + (((i - back) - 1) % back)] = out[o - back + 1 + ((i - 1) % back)] BY <3>2
    <3> QED BY <3>3, <3>4, <3>5, <3>6
  <2> QED BY <2>1, <2>2
<1>6. ASSUME NEW p \in o + 1 .. o + len PROVE all[p] = all[p - back]
  <2>1. p - o \in 1 .. len /\ o + (p - o) = p /\ o + (p - o) - back = p - back OBVIOUS
  <2>2. all[o + (p - o)] = all[o + (p - o) - back] BY <1>5, <2>1
  <2> QED BY <2>1, <2>2
<1> QED BY <1>1, <1>2, <1>6 DEF all

(* The bytes of out behind the first had repeat those back before them. *)
Repeats(out, had, back) == \A p \in had + 1 .. Len(out) : out[p] = out[p - back]

(* Bytes that repeat those back before them repeat the first back of them.  *)
Again(out, put, back, e) == \A j \in 0 .. e - 1 : out[put + j + 1] = out[(put + j + 1) - back]
FirstAgain(out, put, back, e) ==
  \A j \in 0 .. e - 1 : out[put + j + 1] = out[put - back + 1 + (j % back)]

LEMMA RepeatsFirst ==
  ASSUME NEW out, NEW put \in Nat, NEW back \in Nat \ {0}, NEW e \in Nat, Again(out, put, back, e)
  PROVE  FirstAgain(out, put, back, e)
<1> USE DEF Again, FirstAgain
<1> DEFINE Right(j) == out[put + j + 1] = out[put - back + 1 + (j % back)]
           S == {k \in 0 .. e : \A j \in 0 .. k - 1 : Right(j)}
<1>1. 0 \in S OBVIOUS
<1>2. ASSUME NEW k \in 0 .. e - 1, k \in S PROVE k + 1 \in S
  <2>1. out[put + k + 1] = out[put + k + 1 - back] OBVIOUS
  <2>2. ASSUME k < back PROVE Right(k)
    <3>1. k % back = k
      <4>1. k \in 0 .. back - 1 BY <2>2
      <4> QED BY <4>1, ModSmall
    <3>2. put - back + 1 + k = put + k + 1 - back OBVIOUS
    <3>3. put - back + 1 + (k % back) = put + k + 1 - back BY <3>1, <3>2
    <3> QED BY <2>1, <3>3
  <2>3. ASSUME k >= back PROVE Right(k)
    <3>1. k - back \in 0 .. k - 1 BY <2>3
    <3>2. out[put + (k - back) + 1] = out[put - back + 1 + ((k - back) % back)]
      <4>1. Right(k - back) BY <1>2, <3>1
      <4> QED BY <4>1
    <3>3. (k - back) % back = k % back
      <4>1. k \in Nat /\ k >= back BY <2>3
      <4>2. k % back = (k - back) % back BY <4>1, ModLess, Zenon
      <4> QED BY <4>2
    <3>4. put + (k - back) + 1 = put + k + 1 - back OBVIOUS
    <3> QED BY <2>1, <3>2, <3>3, <3>4
  <2>4. Right(k) BY <2>2, <2>3
  <2> HIDE DEF Right
  <2>5. \A j \in 0 .. (k + 1) - 1 : Right(j)
    <3>1. \A j \in 0 .. k - 1 : Right(j) BY <1>2
    <3>2. \A j \in 0 .. (k + 1) - 1 : j \in 0 .. k - 1 \/ j = k OBVIOUS
    <3> QED BY <2>4, <3>1, <3>2, Zenon
  <2> QED BY <2>5
<1> HIDE DEF S
<1>3. 0 .. e \subseteq S BY <1>1, <1>2, SetInduction
<1>4. e \in S BY <1>3
<1> QED BY <1>4 DEF S

(* A copy's bytes are taken from where they are in the window, those just   *)
(* copied among them.                                                       *)
LEMMA PutCopied ==
  ASSUME WindowTypes, NEW out \in Seq(Byte), NEW base, NEW put, HasPut(slide, w, out, base, put),
         NEW back \in 1 .. WSIZE, NEW had \in Nat, back <= had, had <= put,
         Repeats(out, had, back),
         NEW from \in 0 .. WSIZE - 1, from = IF back <= w THEN w - back ELSE w - back + WSIZE,
         NEW e \in 0 .. WSIZE, put + e <= Len(out), w + e <= WSIZE, from + e <= WSIZE
  PROVE  HasPut(Copied(from, e), w + e, out, base, put + e)
<1>1. base \in Nat /\ Whole(base) /\ w \in 0 .. WSIZE /\ base + w = put BY DEF HasPut
<1>0. /\ \A i \in 0 .. w - 1 : slide[i] = out[base + i + 1]
      /\ base > 0 => \A i \in w .. WSIZE - 1 : slide[i] = out[base - WSIZE + i + 1]
  BY DEF HasPut
<1>2. Len(out) \in Nat /\ put \in Nat BY <1>1
<1>3. DOMAIN slide = 0 .. WSIZE - 1 BY DEF WindowTypes
<1> DEFINE sl2 == Copied(from, e)
<1>4. ASSUME NEW i \in 0 .. WSIZE - 1, i \notin w .. w + e - 1 PROVE sl2[i] = slide[i]
  BY <1>3, <1>4 DEF Copied
<1>5. ASSUME NEW j \in 0 .. e - 1 PROVE out[put + j + 1] = out[(put + j + 1) - back]
  <2> DEFINE p == put + j + 1
  <2>1. p \in had + 1 .. Len(out) BY <1>2
  <2> HIDE DEF p
  <2>2. out[p] = out[p - back] BY <2>1, Zenon DEF Repeats
  <2> QED BY <2>2, Zenon DEF p
<1>6. ASSUME NEW i \in w .. w + e - 1 PROVE sl2[i] = out[base + i + 1]
  <2> DEFINE j == i - w
  <2>1. j \in 0 .. e - 1 /\ i \in 0 .. WSIZE - 1 /\ base + i + 1 = put + j + 1 /\ w + j = i
    <3>1. j \in 0 .. e - 1 /\ i \in 0 .. WSIZE - 1 /\ w + j = i BY <1>1
    <3>2. base + i + 1 = (base + w) + j + 1 BY <1>1, <3>1
    <3> QED BY <1>1, <3>1, <3>2
  <2>2. out[base + i + 1] = out[(put + j + 1) - back]
    <3>1. out[put + j + 1] = out[(put + j + 1) - back] BY <1>5, <2>1
    <3> QED BY <2>1, <3>1
  <2>3. CASE from >= w
    <3>2. from = w - back + WSIZE /\ base > 0
      <4>1. back > w BY <1>1, <2>3
      <4> QED BY <1>1, <4>1
    <3>3. from + j \in w .. WSIZE - 1 /\ from + i - w = from + j BY <1>1, <2>1, <2>3
    <3>4. sl2[i] = slide[from + j]
      <4>1. CASE from > w
        <5>1. sl2[i] = slide[from + i - w] BY <1>3, <2>1, <4>1 DEF Copied
        <5> QED BY <3>3, <5>1
      <4>2. CASE from = w
        <5>1. w - from = 0 /\ ~(from > w) /\ ~(w - from >= e) BY <1>1, <2>1, <4>2
        <5>2. sl2[i] = slide[i] BY <1>3, <2>1, <4>2, <5>1 DEF Copied
        <5>3. from + j = i BY <2>1, <4>2
        <5> QED BY <5>2, <5>3
      <4>3. from > w \/ from = w
        <5>1. w \in Int /\ from \in Int BY <1>1
        <5> QED BY <2>3, <5>1
      <4> QED BY <4>1, <4>2, <4>3, Zenon
    <3>5. slide[from + j] = out[base - WSIZE + (from + j) + 1] BY <1>0, <3>2, <3>3
    <3>6. base - WSIZE + (from + j) + 1 = (put + j + 1) - back BY <1>1, <2>1, <3>2
    <3> QED BY <2>2, <3>4, <3>5, <3>6
  <2>4. CASE from < w
    <3>1. from = w - back /\ w - from = back BY <1>1, <2>4
    <3>2. ASSUME NEW x \in 0 .. w - from - 1 PROVE slide[from + x] = out[put - back + x + 1]
      <4>1. from + x \in 0 .. w - 1 BY <1>1, <2>4, <3>2
      <4>2. base + (from + x) + 1 = put - back + x + 1 BY <1>1, <3>1
      <4>3. slide[from + x] = out[base + (from + x) + 1] BY <1>0, <4>1
      <4> QED BY <4>2, <4>3
    <3>3. CASE w - from >= e
      <4>1. sl2[i] = slide[from + i - w] BY <1>3, <2>1, <3>3 DEF Copied
      <4>2. from + i - w = from + j /\ j \in 0 .. w - from - 1 BY <1>1, <2>1, <3>3
      <4>3. put - back + j + 1 = (put + j + 1) - back BY <1>2, <2>1
      <4>4. slide[from + j] = out[put - back + j + 1] BY <3>2, <4>2
      <4> QED BY <2>2, <4>1, <4>2, <4>3, <4>4
    <3>4. CASE ~(w - from >= e)
      <4>1. sl2[i] = slide[from + ((i - w) % (w - from))]
        <5>1. ~(from > w) /\ from # w BY <1>1, <2>4
        <5> QED BY <1>3, <2>1, <3>4, <5>1 DEF Copied
      <4>2. j % back \in 0 .. back - 1
        <5>1. j \in Int /\ back \in Nat \ {0} BY <2>1
        <5> QED BY <5>1, ModRange
      <4>3. (i - w) % (w - from) = j % back BY <3>1
      <4>4. slide[from + (j % back)] = out[put - back + (j % back) + 1] BY <3>1, <3>2, <4>2
      <4>5. out[put + j + 1] = out[put - back + 1 + (j % back)]
        <5>1. back \in Nat \ {0} /\ e \in Nat OBVIOUS
        <5>3. Again(out, put, back, e) BY <1>5, Zenon DEF Again
        <5>2. FirstAgain(out, put, back, e) BY <1>2, <5>1, <5>3, RepeatsFirst
        <5>4. j \in 0 .. e - 1 BY <2>1
        <5> QED BY <5>2, <5>4, Zenon DEF FirstAgain
      <4> DEFINE m == j % back
      <4> HIDE DEF m
      <4>6. m \in Int BY <4>2 DEF m
      <4>7. put - back + m + 1 = put - back + 1 + m BY <1>2, <4>6
      <4>8. out[put - back + m + 1] = out[put - back + 1 + m] BY <4>7
      <4>9. sl2[i] = out[put - back + m + 1] BY <4>1, <4>3, <4>4 DEF m
      <4>10. out[put + j + 1] = out[put - back + 1 + m] BY <4>5 DEF m
      <4>11. base + i + 1 = put + j + 1 BY <2>1
      <4> QED BY <4>8, <4>9, <4>10, <4>11
    <3> QED BY <3>3, <3>4
  <2> QED BY <1>1, <2>3, <2>4, SMTT(30)
<1> HIDE DEF sl2
<1>7. ASSUME NEW i \in 0 .. (w + e) - 1 PROVE sl2[i] = out[base + i + 1]
  <2>1. CASE i < w
    <3>1. i \in 0 .. w - 1 /\ i \in 0 .. WSIZE - 1 /\ i \notin w .. w + e - 1 BY <1>1, <2>1
    <3> QED BY <1>0, <1>4, <3>1
  <2>2. CASE i >= w
    <3>1. i \in w .. w + e - 1 BY <1>1, <2>2
    <3> QED BY <1>6, <3>1
  <2> QED BY <1>1, <2>1, <2>2
<1>8. ASSUME base > 0, NEW i \in w + e .. WSIZE - 1 PROVE sl2[i] = out[base - WSIZE + i + 1]
  <2>1. i \in w .. WSIZE - 1 /\ i \in 0 .. WSIZE - 1 /\ i \notin w .. w + e - 1 BY <1>1
  <2> QED BY <1>0, <1>4, <1>8, <2>1
<1>9. w + e \in 0 .. WSIZE /\ base + (w + e) = put + e BY <1>1
<1> QED BY <1>1, <1>7, <1>8, <1>9 DEF HasPut, sl2

(* Where the copy has to go on: so far back in the circular window.         *)
LEMMA BackOf ==
  ASSUME NEW x \in 0 .. WSIZE - 1, NEW back \in 1 .. WSIZE
  PROVE  (x - back) % WSIZE = IF back <= x THEN x - back ELSE x - back + WSIZE
<1>1. CASE back <= x
  <2>1. x - back \in 0 .. WSIZE - 1 BY <1>1
  <2> QED BY <1>1, <2>1, ModSmall
<1>2. CASE ~(back <= x)
  <2> DEFINE y == x - back + WSIZE
  <2>1. y \in 0 .. WSIZE - 1 BY <1>2
  <2>2. (x - back) % WSIZE = y BY <2>1
  <2> QED BY <1>2, <2>2
<1> QED BY <1>1, <1>2

-----------------------------------------------------------------------------
(*** What the codes at hand put out ***)

(* What the first k codes of the block at hand put out. *)
PutOut(k) == Expanded(Before(file.blocks, blk), TokensOf(Block), k)

(* One byte more; and what a code says of its copy.                         *)
OneMore(s, t, v) == Prefix(s, t) /\ Len(t) = Len(s) + 1 /\ t[Len(s) + 1] = v
LengthOf(t) == cplens[t.sym - EOB] + t.ext
DistanceOf(t) == cpdist[t.dsym + 1] + t.dext

LEMMA PutOutFacts ==
  ASSUME file \in Files, blk \in 1 .. Len(file.blocks)
  PROVE  /\ CodesOf(Block) \in Nat
         /\ PutOut(0) = Before(file.blocks, blk)
         /\ PutOut(CodesOf(Block)) = Before(file.blocks, blk + 1)
         /\ \A k \in 0 .. CodesOf(Block) : PutOut(k) \in Seq(Byte) /\ Prefix(PutOut(k), file.out)
         /\ \A k \in 1 .. CodesOf(Block) : PutOut(k) = After(PutOut(k - 1), Written(TokensOf(Block)[k]))
<1> DEFINE many == CodesOf(Block)
<1>0. Len(file.blocks) \in Nat BY FileFacts
<1>1. blk \in 1 .. Len(file.blocks) + 1 /\ blk + 1 \in 1 .. Len(file.blocks) + 1 BY <1>0
<1>2. /\ Before(file.blocks, blk) \in Seq(Byte) /\ Before(file.blocks, blk + 1) \in Seq(Byte)
      /\ Prefix(Before(file.blocks, blk + 1), file.out)
      /\ file.out \in Seq(Byte)
  <2>1. Len(file.blocks) + 1 \in 1 .. Len(file.blocks) + 1 BY <1>0
  <2> QED BY <1>1, <2>1, BlocksPutOut, Zenon
<1>3. /\ many \in Nat
      /\ PutOut(0) = Before(file.blocks, blk)
      /\ PutOut(many) = Before(file.blocks, blk + 1)
      /\ \A k \in 0 .. many : PutOut(k) \in Seq(Byte)
      /\ \A k \in 1 .. many : PutOut(k) = After(PutOut(k - 1), Written(TokensOf(Block)[k]))
      /\ \A j, k \in 0 .. many : j <= k => Prefix(PutOut(j), PutOut(k))
  BY <1>2, CodesPutOut, Zenon DEF PutOut, Block
<1> HIDE DEF many
<1>4. ASSUME NEW k \in 0 .. many PROVE Prefix(PutOut(k), file.out)
  <2>1. many \in 0 .. many /\ k <= many BY <1>3
  <2>2. Prefix(PutOut(k), PutOut(many)) BY <1>3, <2>1, Zenon
  <2>3. Prefix(PutOut(k), Before(file.blocks, blk + 1)) BY <1>3, <2>2
  <2>4. PutOut(k) \in Seq(Byte) BY <1>3
  <2> QED BY <1>2, <2>3, <2>4, PrefixFacts, Zenon
<1> QED BY <1>3, <1>4, Zenon DEF many

(* The codes are the bytes of a stored block, or as they are. *)
LEMMA CodesAre ==
  ASSUME file \in Files, blk \in 1 .. Len(file.blocks)
  PROVE  /\ Block.type = 0 => CodesOf(Block) = Len(Block.data) /\ Len(Block.data) \in Nat
         /\ Block.type \in 1 .. 2 => /\ TokensOf(Block) = Block.toks /\ TokensSound(Block.toks)
                                     /\ CodesOf(Block) = Len(Block.toks)
                                     /\ DOMAIN Block.toks = 1 .. CodesOf(Block)
<1>1. BlockSound(Block) /\ (Block.type = 0 => Block.data \in Seq(Byte))
      /\ (Block.type \in 1 .. 2 => TokensSound(Block.toks))
  BY BlockFacts
<1>2. CodesOf(Block) \in Nat /\ DOMAIN TokensOf(Block) = 1 .. CodesOf(Block) BY <1>1, TokensCounted
<1>3. ASSUME Block.type = 0 PROVE CodesOf(Block) = Len(Block.data) /\ Len(Block.data) \in Nat
  <2>1. TokensOf(Block) = [j \in DOMAIN Block.data |-> [sym |-> Block.data[j]]] BY <1>3 DEF TokensOf
  <2>2. PICK many \in Nat : many = Len(Block.data) /\ DOMAIN Block.data = 1 .. many BY <1>1, <1>3
  <2>3. 1 .. many = 1 .. CodesOf(Block) BY <1>2, <2>1, <2>2
  <2>4. many = CodesOf(Block) BY <1>2, <2>3
  <2> QED BY <2>2, <2>4
<1>4. ASSUME Block.type \in 1 .. 2
      PROVE  TokensOf(Block) = Block.toks /\ TokensSound(Block.toks)
  BY <1>1, <1>4 DEF TokensOf
<1>5. ASSUME Block.type \in 1 .. 2
      PROVE  CodesOf(Block) = Len(Block.toks) /\ DOMAIN Block.toks = 1 .. CodesOf(Block)
  BY <1>2, <1>4, <1>5, Zenon DEF CodesOf
<1> QED BY <1>3, <1>4, <1>5

(* What the k-th code of the block puts out. *)
LEMMA CodePutsOut ==
  ASSUME file \in Files, blk \in 1 .. Len(file.blocks), NEW k \in 1 .. CodesOf(Block)
  PROVE  LET was == PutOut(k - 1)
             now == PutOut(k)
             t == Block.toks[k]
         IN  /\ was \in Seq(Byte) /\ now \in Seq(Byte) /\ Prefix(was, now)
             /\ Block.type = 0 => OneMore(was, now, Block.data[k])
             /\ Block.type \in 1 .. 2 =>
                  /\ t.sym < EOB => OneMore(was, now, t.sym)
                  /\ t.sym = EOB => Len(now) = Len(was)
                  /\ IsCopy(t) => /\ LengthOf(t) \in Nat /\ Len(now) = Len(was) + LengthOf(t)
                                  /\ DistanceOf(t) \in 1 .. WSIZE /\ DistanceOf(t) <= Len(was)
                                  /\ Repeats(now, Len(was), DistanceOf(t))
<1> DEFINE was == PutOut(k - 1)
           now == PutOut(k)
           t == Block.toks[k]
           r == Written(TokensOf(Block)[k])
<1>1. CodesOf(Block) \in Nat BY PutOutFacts
<1>2. k - 1 \in 0 .. CodesOf(Block) /\ k \in 0 .. CodesOf(Block) BY <1>1
<1>3. was \in Seq(Byte) /\ now \in Seq(Byte) /\ now = After(was, r) BY <1>2, PutOutFacts, Zenon
<1>4. was = Expanded(Before(file.blocks, blk), TokensOf(file.blocks[blk]), k - 1) BY Zenon DEF PutOut, Block
<1> HIDE DEF was, now
<1>5. /\ Puts(r, was)
      /\ Block.type = 0 => r.lit = << Block.data[k] >> /\ r.len = 0
      /\ Block.type \in 1 .. 2 =>
           /\ t.sym < EOB => r.lit = << t.sym >> /\ r.len = 0
           /\ t.sym = EOB => r.lit = << >> /\ r.len = 0
           /\ IsCopy(t) => /\ r.lit = << >> /\ r.len = LengthOf(t) /\ r.back = DistanceOf(t)
                           /\ r.back \in 1 .. WSIZE /\ r.back <= Len(was)
  <2>1. k \in 1 .. CodesOf(file.blocks[blk]) BY DEF Block
  <2> QED BY <1>3, <1>4, <2>1, WrittenFacts, Zenon DEF Block, LengthOf, DistanceOf
<1> HIDE DEF r, t
<1>6. /\ Len(now) = Len(was) + Len(r.lit) + r.len /\ Prefix(was, now)
      /\ \A i \in 1 .. Len(r.lit) : now[Len(was) + i] = r.lit[i]
  BY <1>3, <1>5, AfterFacts
<1>7. r.len \in Nat /\ r.back \in Nat \ {0} /\ Len(was) \in Nat BY <1>3, <1>5 DEF Puts
<1>8. ASSUME NEW v, r.lit = << v >>, r.len = 0 PROVE OneMore(was, now, v)
  <2>1. Len(<< v >>) = 1 /\ << v >>[1] = v /\ 1 \in 1 .. 1 OBVIOUS
  <2>2. Len(r.lit) = 1 /\ r.lit[1] = v BY <1>8, <2>1
  <2>3. 1 \in 1 .. Len(r.lit) BY <2>2
  <2>4. now[Len(was) + 1] = v BY <1>6, <2>2, <2>3
  <2>5. Len(now) = Len(was) + 1 BY <1>6, <1>7, <1>8, <2>2
  <2> QED BY <1>6, <2>4, <2>5 DEF OneMore
<1>9. ASSUME r.lit = << >> PROVE Len(now) = Len(was) + r.len
  <2>1. Len(r.lit) = 0 BY <1>9
  <2> QED BY <1>6, <1>7, <2>1
<1>10. ASSUME r.lit = << >> PROVE Repeats(now, Len(was), r.back)
  <2>1. CASE r.len = 0
    <3>1. Len(now) = Len(was) BY <1>7, <1>9, <1>10, <2>1
    <3>2. Len(was) + 1 .. Len(now) = {} BY <1>7, <3>1
    <3> QED BY <3>2 DEF Repeats
  <2>2. CASE r.len # 0
    <3>1. \A p \in Len(was) + 1 .. Len(was) + r.len : After(was, r)[p] = After(was, r)[p - r.back]
      BY <1>3, <1>5, <1>10, <2>2, CopiesRepeat, Zenon
    <3> QED BY <1>3, <1>9, <1>10, <3>1, Zenon DEF Repeats
  <2> QED BY <2>1, <2>2
<1>11. Block.type = 0 => OneMore(was, now, Block.data[k]) BY <1>5, <1>8
<1>12. ASSUME Block.type \in 1 .. 2
       PROVE  /\ t.sym < EOB => OneMore(was, now, t.sym)
              /\ t.sym = EOB => Len(now) = Len(was)
              /\ IsCopy(t) => /\ LengthOf(t) \in Nat /\ Len(now) = Len(was) + LengthOf(t)
                              /\ DistanceOf(t) \in 1 .. WSIZE /\ DistanceOf(t) <= Len(was)
                              /\ Repeats(now, Len(was), DistanceOf(t))
  <2>1. t.sym < EOB => OneMore(was, now, t.sym) BY <1>5, <1>8, <1>12
  <2>2. t.sym = EOB => Len(now) = Len(was)
    <3>1. ASSUME t.sym = EOB PROVE Len(now) = Len(was)
      <4>1. r.lit = << >> /\ r.len = 0 BY <1>5, <1>12, <3>1
      <4> QED BY <1>7, <1>9, <4>1
    <3> QED BY <3>1
  <2>3. ASSUME IsCopy(t)
        PROVE  /\ LengthOf(t) \in Nat /\ Len(now) = Len(was) + LengthOf(t)
               /\ DistanceOf(t) \in 1 .. WSIZE /\ DistanceOf(t) <= Len(was)
               /\ Repeats(now, Len(was), DistanceOf(t))
    <3>1. /\ r.lit = << >> /\ r.len = LengthOf(t) /\ r.back = DistanceOf(t)
          /\ r.back \in 1 .. WSIZE /\ r.back <= Len(was)
      BY <1>5, <1>12, <2>3, Zenon
    <3>2. Len(now) = Len(was) + r.len /\ Repeats(now, Len(was), r.back) BY <1>9, <1>10, <3>1
    <3> QED BY <1>7, <3>1, <3>2, Zenon
  <2> QED BY <2>1, <2>2, <2>3, Zenon
<1> QED BY <1>3, <1>6, <1>11, <1>12, Zenon DEF was, now, t

-----------------------------------------------------------------------------
(* What the codes read so far put out, the copy under way as if it were     *)
(* done; what of the copy is left; and where in it the window begins.       *)
ReachedAt(place) ==
  IF place = "block" THEN Before(file.blocks, blk + 1)
  ELSE IF place \in {"type", "stored_length", "dynamic", "tree", "lengths", "length"}
  THEN Before(file.blocks, blk)
  ELSE IF place \in {"stored", "stored_byte"} THEN PutOut(Len(Block.data) - n)
  ELSE IF place \in {"codes", "token", "copy"} THEN PutOut(tok - 1)
  ELSE file.out
Where == IF pc \in Flushing THEN ret ELSE pc
Reached == ReachedAt(Where)
Left == IF Where = "copy" THEN n ELSE 0
Start == IF pc = "chunks" THEN bytes_out - w ELSE bytes_out

(* The window holds the end of what the codes read so far put out, but for  *)
(* what of the copy under way is left.                                      *)
PointInv ==
  at # -1 /\ pc \in Decoding \cup Flushing =>
    HasPut(slide, w, Reached, Start, Len(Reached) - Left)

(* A copy under way is that of the code before, and goes on as far back in  *)
(* the window as the code says.                                             *)
Behind(back, pos) == IF back <= pos THEN pos - back ELSE pos - back + WSIZE
Copying(t) == IsCopy(t) /\ n <= LengthOf(t) /\ d % WSIZE = Behind(DistanceOf(t), w)
CopyInv == Going({"copy"}) => tok > 1 /\ Copying(Block.toks[tok - 1])

LEMMA ReachedAtFacts ==
  ASSUME PlaceTypes, NEW place, Going({place}), place \in Decoding \cup {"trailer"}
  PROVE  ReachedAt(place) \in Seq(Byte) /\ Prefix(ReachedAt(place), file.out)
<1>1. file \in Files /\ Len(file.blocks) \in Nat \ {0} BY FileFacts DEF PlaceTypes
<1>2. /\ \A m \in 1 .. Len(file.blocks) + 1 : Before(file.blocks, m) \in Seq(Byte)
      /\ \A m \in 1 .. Len(file.blocks) + 1 : Prefix(Before(file.blocks, m), file.out)
      /\ file.out \in Seq(Byte)
  <2>1. Len(file.blocks) + 1 \in 1 .. Len(file.blocks) + 1 BY <1>1
  <2> QED BY <1>1, <2>1, BlocksPutOut, Zenon
<1>3. CASE place = "block"
  <2>1. pc = "block" BY <1>3 DEF Going, PlaceTypes, Returns, Flushing
  <2>2. blk + 1 \in 1 .. Len(file.blocks) + 1 BY <1>1, <2>1 DEF PlaceTypes
  <2>3. ReachedAt(place) = Before(file.blocks, blk + 1) BY <1>3 DEF ReachedAt
  <2> QED BY <1>2, <2>2, <2>3
<1>4. CASE place \in {"type", "stored_length", "dynamic", "tree", "lengths", "length"}
  <2>1. blk \in 1 .. Len(file.blocks) + 1 BY <1>1, <1>4 DEF Going, PlaceTypes
  <2>2. ReachedAt(place) = Before(file.blocks, blk) BY <1>4 DEF ReachedAt
  <2> QED BY <1>2, <2>1, <2>2
<1>5. CASE place \in {"stored", "stored_byte"}
  <2>1. blk \in 1 .. Len(file.blocks) /\ Block.type = 0 /\ n \in 0 .. Len(Block.data)
    BY <1>1, <1>5 DEF Going, PlaceTypes
  <2>2. ReachedAt(place) = PutOut(Len(Block.data) - n) BY <1>5 DEF ReachedAt
  <2>3. Len(Block.data) - n \in 0 .. CodesOf(Block) BY <1>1, <2>1, CodesAre
  <2> QED BY <1>1, <2>1, <2>2, <2>3, PutOutFacts
<1>6. CASE place \in {"codes", "token", "copy"}
  <2>1. blk \in 1 .. Len(file.blocks) /\ Block.type \in 1 .. 2 /\ tok \in DOMAIN Block.toks
    BY <1>1, <1>6 DEF Going, PlaceTypes
  <2>2. ReachedAt(place) = PutOut(tok - 1) BY <1>6 DEF ReachedAt
  <2>3. CodesOf(Block) \in Nat BY <1>1, <2>1, PutOutFacts
  <2>4. tok \in 1 .. CodesOf(Block) BY <1>1, <2>1, CodesAre
  <2>5. tok - 1 \in 0 .. CodesOf(Block) BY <2>3, <2>4
  <2> QED BY <1>1, <2>1, <2>2, <2>5, PutOutFacts
<1>7. CASE place \in {"lost", "undo", "trailer"}
  <2>1. ReachedAt(place) = file.out BY <1>7 DEF ReachedAt
  <2> QED BY <1>2, <2>1, PrefixFacts
<1> QED BY <1>3, <1>4, <1>5, <1>6, <1>7 DEF Decoding, Asking

LEMMA WhereFacts ==
  ASSUME PlaceTypes, pc \in Decoding \cup Flushing
  PROVE  /\ Going({Where}) /\ Where \in Decoding \cup {"trailer"}
         /\ Reached \in Seq(Byte) /\ Prefix(Reached, file.out)
<1>1. Going({Where}) /\ Where \in Decoding \cup {"trailer"}
  BY DEF Where, Going, PlaceTypes, Returns, Decoding, Asking, Flushing
<1> QED BY <1>1, ReachedAtFacts DEF Reached

LEMMA ReachedTyped == PlaceTypes /\ pc \in Decoding \cup Flushing => Reached \in Seq(Byte)
BY WhereFacts

LEMMA ReachedNext == (PlaceTypes /\ pc \in Decoding \cup Flushing => Reached \in Seq(Byte))'
BY ReachedTyped, PTL

(* A step that puts nothing out. *)
LEMMA PointFrame ==
  ASSUME PointInv, at' # -1 => at # -1, slide' = slide, w' = w,
         pc' \in Decoding \cup Flushing =>
           pc \in Decoding \cup Flushing /\ Reached' = Reached /\ Left' = Left /\ Start' = Start
  PROVE  PointInv'
BY Zenon DEF PointInv

LEMMA NotDecoding == ASSUME pc' \notin Decoding \cup Flushing PROVE PointInv'
BY DEF PointInv

(* A step from one place of the decoder to another. *)
LEMMA PointOn ==
  ASSUME PlaceTypes, PlaceTypes', PointInv, at' # -1 => at # -1, slide' = slide, w' = w,
         bytes_out' = bytes_out, pc \in Decoding \ {"copy"}, pc' \notin Flushing,
         pc' \in Decoding => Prefix(Reached, Reached') /\ Len(Reached') - Left' = Len(Reached)
  PROVE  PointInv'
<1> SUFFICES ASSUME at' # -1, pc' \in Decoding
             PROVE  HasPut(slide', w', Reached', Start', Len(Reached') - Left')
  BY DEF PointInv
<1>1. pc \notin Flushing /\ Where = pc /\ Left = 0 /\ Start = bytes_out
  BY DEF Where, Left, Start, Decoding, Asking, Flushing
<1>2. Reached \in Seq(Byte) BY WhereFacts
<1>3. HasPut(slide, w, Reached, bytes_out, Len(Reached))
  <2>1. HasPut(slide, w, Reached, Start, Len(Reached) - Left) BY DEF PointInv
  <2>2. Len(Reached) - 0 = Len(Reached) BY <1>2
  <2> QED BY <1>1, <2>1, <2>2
<1>4. Start' = bytes_out BY DEF Start, Flushing
<1>5. Reached' \in Seq(Byte) BY ReachedNext
<1>6. HasPut(slide, w, Reached', bytes_out, Len(Reached)) BY <1>2, <1>3, <1>5, PutPrefix
<1> QED BY <1>4, <1>6

LEMMA PointSame ==
  ASSUME PlaceTypes, PlaceTypes', PointInv, at' # -1 => at # -1, slide' = slide, w' = w,
         bytes_out' = bytes_out, pc \in Decoding \ {"copy"}, pc' \notin Flushing \cup {"copy"},
         pc' \in Decoding => Reached' = Reached
  PROVE  PointInv'
<1>1. Reached \in Seq(Byte) BY WhereFacts
<1>2. Left' = 0 BY DEF Left, Where, Flushing
<1>3. Prefix(Reached, Reached) /\ Len(Reached) - 0 = Len(Reached) BY <1>1, PrefixFacts
<1>4. pc' \in Decoding => Prefix(Reached, Reached') /\ Len(Reached') - Left' = Len(Reached)
  BY <1>2, <1>3
<1> QED BY <1>4, PointOn

(* A byte goes into the window, which is flushed when that fills it. *)
LEMMA PointOutput ==
  ASSUME PlaceTypes, PlaceTypes', WindowTypes, PointInv, at' = at, bytes_out' = bytes_out,
         pc \in Decoding \ {"copy"}, NEW v, NEW next \in {"codes", "stored"}, Output(v, next),
         OneMore(Reached, ReachedAt(next)', v)
  PROVE  PointInv'
<1>1. w \in 0 .. WSIZE - 1 /\ slide \in [0 .. WSIZE - 1 -> Bytes] BY DEF WindowTypes
<1>2. slide' = [slide EXCEPT ![w] = v] /\ w' = w + 1 /\ ((pc' = "flush" /\ ret' = next) \/ pc' = next)
  BY DEF Output
<1>3. pc' \in Decoding \cup Flushing /\ Where' = next /\ Left' = 0 /\ Start' = bytes_out
  BY <1>2 DEF Where, Left, Start, Decoding, Asking, Flushing
<1>4. Reached' = ReachedAt(next)' BY <1>3 DEF Reached
<1>5. Reached \in Seq(Byte) /\ Reached' \in Seq(Byte) BY <1>3, WhereFacts, ReachedNext
<1> SUFFICES ASSUME at # -1 PROVE HasPut(slide', w', Reached', bytes_out, Len(Reached'))
  <2>1. Len(Reached') - 0 = Len(Reached') BY <1>5
  <2> QED BY <1>3, <2>1 DEF PointInv
<1>6. HasPut(slide, w, Reached, bytes_out, Len(Reached))
  <2>1. HasPut(slide, w, Reached, Start, Len(Reached) - Left) BY DEF PointInv
  <2>2. Len(Reached) - 0 = Len(Reached) BY <1>5
  <2>3. Left = 0 /\ Start = bytes_out BY DEF Where, Left, Start, Decoding, Asking, Flushing
  <2> QED BY <2>1, <2>2, <2>3
<1>7. Prefix(Reached, Reached') /\ Len(Reached') = Len(Reached) + 1 /\ v = Reached'[Len(Reached) + 1]
  BY <1>4 DEF OneMore
<1>8. HasPut([slide EXCEPT ![w] = v], w + 1, Reached', bytes_out, Len(Reached'))
  BY <1>1, <1>5, <1>6, <1>7, PutByte
<1> QED BY <1>2, <1>8

(* Where the decoder has got to, place by place. *)
Told ==
  pc \notin Flushing =>
    /\ pc = "block" => Reached = Before(file.blocks, blk + 1)
    /\ pc \in {"type", "stored_length", "dynamic", "tree", "lengths", "length"} =>
         Reached = Before(file.blocks, blk)
    /\ pc \in {"stored", "stored_byte"} =>
         Reached = Expanded(Before(file.blocks, blk), TokensOf(file.blocks[blk]), Len(file.blocks[blk].data) - n)
    /\ pc \in {"codes", "token", "copy"} =>
         Reached = Expanded(Before(file.blocks, blk), TokensOf(file.blocks[blk]), tok - 1)
    /\ pc = "undo" => Reached = file.out
    /\ Left = IF pc = "copy" THEN n ELSE 0
    /\ pc # "chunks" => Start = bytes_out

LEMMA ReachedIs == Told
BY DEF Told, Reached, ReachedAt, Where, Left, Start, PutOut, Block, Flushing

LEMMA ReachedWillBe == Told'
BY ReachedIs, PTL

(* A window is done with: filling it begins again. *)
LEMMA PointAround ==
  ASSUME PlaceTypes, PlaceTypes', WindowTypes, PointInv, at' = at, pc = "chunks", FlushDone,
         bytes_out \in Nat,
         UNCHANGED << slide, bytes_out, file, blk, tok, n, ret >>
  PROVE  PointInv'
<1>1. pc' = ret /\ w' = 0 /\ ret \in Returns BY DEF FlushDone, PlaceTypes, Flushing
<1>2. CASE ret = "trailer" BY <1>1, <1>2, NotDecoding DEF Decoding, Asking, Flushing
<1>3. CASE ret # "trailer"
  <2>1. w = WSIZE BY <1>3 DEF WindowTypes, Flushing
  <2>2. ret \notin Flushing /\ ret # "chunks" BY <1>1 DEF Returns, Flushing
  <2>3. Where = ret /\ Where' = ret /\ Start = bytes_out - w /\ Start' = bytes_out
    BY <1>1, <2>2 DEF Where, Start, Flushing
  <2>4. Reached' = Reached /\ Left' = Left BY <2>3 DEF Reached, ReachedAt, Left, PutOut, Block
  <2>5. Reached \in Seq(Byte) BY WhereFacts DEF Flushing
  <2> SUFFICES ASSUME at # -1 PROVE HasPut(slide, 0, Reached, bytes_out, Len(Reached) - Left)
    BY <1>1, <2>3, <2>4 DEF PointInv
  <2>6. HasPut(slide, WSIZE, Reached, Start, Len(Reached) - Left)
    BY <2>1 DEF PointInv, Flushing
  <2>7. HasPut(slide, 0, Reached, Start + WSIZE, Len(Reached) - Left) BY <2>5, <2>6, PutAround
  <2>8. Start + WSIZE = bytes_out BY <2>1, <2>3
  <2> QED BY <2>7, <2>8
<1> QED BY <1>2, <1>3

LEMMA NextPoint ==
  Types /\ Types' /\ FlushInv /\ LostInv /\ LostInv' /\ CopyInv /\ PointInv /\ [Next]_vars => PointInv'
<1> SUFFICES ASSUME Types, Types', FlushInv, LostInv, LostInv', CopyInv, PointInv, [Next]_vars PROVE PointInv'
  OBVIOUS
<1>0. PlaceTypes /\ PlaceTypes' /\ WindowTypes /\ file \in Files /\ Told /\ Told'
  BY ReachedIs, ReachedWillBe DEF Types, PlaceTypes
<1>1. CASE UNCHANGED vars
  <2>1. UNCHANGED << slide, w, pc, ret, at, file, blk, tok, n, bytes_out >>
    BY <1>1 DEF vars, attempt, window, flushing
  <2>2. /\ Reached' = Reached /\ Left' = Left /\ Start' = Start
    BY <2>1 DEF Reached, ReachedAt, Where, Left, Start, PutOut, Block
  <2> QED BY <2>1, <2>2, PointFrame
<1>2. CASE uncompress_kernel \/ get_method \/ ReadTrailer \/ Validate
  <2>1. pc' \in {"header", "fail", "trailer", "ok"}
    BY <1>2, HeaderFrame, TrailerFrame DEF uncompress_kernel, Validate
  <2> QED BY <2>1, NotDecoding DEF Decoding, Asking, Flushing
<1>3. CASE inflate
  <2>1. /\ pc = "header" /\ (pc' = "fail" \/ (pc' = "block" /\ w' = 0 /\ blk' = 0))
        /\ bytes_out' = bytes_out
    BY <1>3 DEF inflate, Fail, flushing
  <2>2. CASE pc' = "fail" BY <2>2, NotDecoding DEF Decoding, Asking, Flushing
  <2>3. CASE pc' = "block" /\ w' = 0 /\ blk' = 0
    <3>1. bytes_out = 0 BY <2>1 DEF FlushInv
    <3>2. Reached' = << >>
      <4>1. Reached' = Before(file.blocks', 0 + 1) BY <1>0, <2>3 DEF Told, Flushing
      <4>2. Before(file.blocks', 1) = << >>
        <5>1. file' \in Files BY <1>0 DEF PlaceTypes
        <5>2. file' = file BY <1>3 DEF inflate, attempt
        <5> QED BY <1>0, <5>2, BlocksPutOut
      <4> QED BY <4>1, <4>2
    <3>3. Left' = 0 /\ Start' = 0 BY <1>0, <2>1, <2>3, <3>1 DEF Told, Flushing
    <3>4. << >> \in Seq(Byte) /\ Len(<< >>) = 0 OBVIOUS
    <3>5. HasPut(slide', 0, << >>, 0, 0)
      <4>1. Whole(0) BY WholeFacts
      <4>2. 0 .. 0 - 1 = {} OBVIOUS
      <4> QED BY <3>4, <4>1, <4>2 DEF HasPut
    <3>6. Len(Reached') - Left' = 0 BY <3>2, <3>3, <3>4
    <3> QED BY <2>3, <3>2, <3>3, <3>5, <3>6 DEF PointInv
  <2> QED BY <2>1, <2>2, <2>3
<1>4. CASE NEEDBITS
  <2>1. /\ UNCHANGED << at, slide, w, bytes_out, file, blk, tok, n >> /\ pc \in Asking /\ pc' \in {pc, "fail"}
    BY <1>0, <1>4, NeedFrame DEF attempt, window, flushing, PlaceTypes
  <2>2. pc \in Decoding \ {"copy"} /\ pc' \notin Flushing \cup {"copy"}
    BY <2>1 DEF Decoding, Asking, Flushing
  <2>3. pc' \in Decoding => Reached' = Reached
    <3>1. pc' \in Decoding => pc' = pc BY <2>1 DEF Decoding, Asking
    <3>2. pc \notin Flushing BY <2>2 DEF Decoding, Asking, Flushing
    <3> QED BY <2>1, <3>1, <3>2 DEF Reached, ReachedAt, Where, PutOut, Block
  <2> QED BY <1>0, <2>1, <2>2, <2>3, PointSame
<1>5. CASE DUMPBITS
  <2>1. /\ UNCHANGED << slide, w, bytes_out, file, blk, tok, n >> /\ pc \in Asking
        /\ (pc' = pc \/ pc' \in {"lost", "fail"})
    BY <1>0, <1>5, DumpFrame DEF attempt, window, flushing, PlaceTypes
  <2>2. pc \in Decoding \ {"copy"} /\ pc' \notin Flushing \cup {"copy"}
    BY <2>1 DEF Decoding, Asking, Flushing
  <2>3. CASE pc' \in {"lost", "fail"}
    <3>1. pc' = "lost" => at' = -1 BY DEF LostInv, Going
    <3> QED BY <2>3, <3>1 DEF PointInv, Decoding, Asking, Flushing
  <2>4. CASE pc' = pc /\ pc # "lost"
    <3>1. at # -1 BY <2>1, <2>4 DEF LostInv, MayBeLost, Going, Asking, Flushing
    <3>2. Reached' = Reached
      <4>1. pc \notin Flushing BY <2>2 DEF Decoding, Asking, Flushing
      <4> QED BY <2>1, <2>4, <4>1 DEF Reached, ReachedAt, Where, PutOut, Block
    <3> QED BY <1>0, <2>1, <2>2, <3>1, <3>2, PointSame
  <2> QED BY <2>1, <2>3, <2>4
<1>6. CASE inflate_block
  <2>1. /\ UNCHANGED << at, slide, w, bytes_out, file >> /\ pc = "block" /\ pc' = "type" /\ blk' = blk + 1
    BY <1>6 DEF inflate_block, Ready, attempt, window, flushing
  <2>2. pc \notin Flushing /\ pc' \notin Flushing BY <2>1 DEF Flushing
  <2>9. pc' \in Decoding => Reached' = Reached BY <1>0, <2>1, <2>2 DEF Told
  <2> QED BY <1>0, <2>1, <2>9, PointSame DEF Decoding, Asking, Flushing
<1>7. CASE BlockType
  <2>1. /\ UNCHANGED << slide, w, bytes_out, file, blk, tok >> /\ pc = "type"
    BY <1>7 DEF BlockType, Ready, attempt, window, flushing
  <2>2. pc' \in {"stored_length", "codes", "dynamic", "fail"}
    <3>1. Block.type \in 0 .. 3 BY <1>0, <2>1, FileFacts, BlockFacts DEF PlaceTypes, Going
    <3>2. CASE Block.type = 0 BY <1>7, <3>2 DEF BlockType
    <3>3. CASE Block.type = 1 BY <1>7, <3>3 DEF BlockType
    <3>4. CASE Block.type = 2 BY <1>7, <3>4 DEF BlockType
    <3>5. CASE Block.type = 3 BY <1>7, <3>5 DEF BlockType, Fail
    <3>6. \A x \in 0 .. 3 : x = 0 \/ x = 1 \/ x = 2 \/ x = 3 OBVIOUS
    <3> QED BY <3>1, <3>2, <3>3, <3>4, <3>5, <3>6, Zenon
  <2>3. at # -1 BY <2>1 DEF LostInv, MayBeLost, Going, Flushing
  <2>4. pc \notin Flushing /\ pc' \notin Flushing BY <2>1, <2>2 DEF Flushing
  <2>5. Reached = Before(file.blocks, blk) BY <1>0, <2>1, <2>4 DEF Told
  <2>6. CASE pc' = "codes"
    <3>1. tok = 1 /\ blk \in 1 .. Len(file.blocks) BY <1>0, <2>1, FileFacts DEF PlaceTypes, Going
    <3>2. Reached' = Expanded(Before(file.blocks, blk), TokensOf(file.blocks[blk]), tok - 1)
      BY <1>0, <2>1, <2>4, <2>6 DEF Told
    <3>3. tok - 1 = 0 BY <3>1
    <3>4. Expanded(Before(file.blocks, blk), TokensOf(file.blocks[blk]), 0) = Before(file.blocks, blk)
      BY <1>0, <3>1, PutOutFacts DEF PutOut, Block
    <3> QED BY <1>0, <2>1, <2>3, <2>4, <2>5, <2>6, <3>2, <3>3, <3>4, PointSame DEF Decoding, Asking, Flushing
  <2>7. CASE pc' \in {"stored_length", "dynamic"}
    <3>1. Reached' = Before(file.blocks, blk) BY <1>0, <2>1, <2>4, <2>7 DEF Told
    <3> QED BY <1>0, <2>1, <2>3, <2>4, <2>5, <2>7, <3>1, PointSame DEF Decoding, Asking, Flushing
  <2>8. CASE pc' = "fail" BY <2>8, NotDecoding DEF Decoding, Asking, Flushing
  <2> QED BY <2>2, <2>6, <2>7, <2>8
<1>8. CASE StoredLength
  <2>1. /\ UNCHANGED << at, slide, w, bytes_out, file, blk >> /\ pc = "stored_length" /\ n' = Len(Block.data)
        /\ pc' \in {"stored", "fail"}
    BY <1>8 DEF StoredLength, Ready, Fail, attempt, window, flushing
  <2>2. pc \notin Flushing /\ pc' \notin Flushing BY <2>1 DEF Flushing
  <2>3. blk \in 1 .. Len(file.blocks) /\ Block.type = 0 BY <1>0, <2>1, FileFacts DEF PlaceTypes, Going
  <2>4. Len(Block.data) \in Nat BY <1>0, <2>3, CodesAre
  <2>9. ASSUME pc' \in Decoding PROVE Reached' = Reached
    <3>1. pc' = "stored" BY <2>1, <2>9 DEF Decoding, Asking
    <3>2. Reached = Before(file.blocks, blk) BY <1>0, <2>1, <2>2 DEF Told
    <3>3. Reached' = Expanded(Before(file.blocks, blk), TokensOf(file.blocks[blk]), Len(file.blocks[blk].data) - Len(Block.data))
      BY <1>0, <2>1, <2>2, <3>1 DEF Told
    <3>4. Len(file.blocks[blk].data) - Len(Block.data) = 0 BY <2>4 DEF Block
    <3>5. PutOut(0) = Before(file.blocks, blk) BY <1>0, <2>3, PutOutFacts
    <3> QED BY <3>2, <3>3, <3>4, <3>5 DEF PutOut, Block
  <2> QED BY <1>0, <2>1, <2>9, PointSame DEF Decoding, Asking, Flushing
<1>9. CASE inflate_dynamic
  <2>1. /\ UNCHANGED << at, slide, w, bytes_out, file, blk >> /\ pc = "dynamic"
        /\ pc' \in {"tree", "fail"}
    BY <1>9 DEF inflate_dynamic, Ready, Fail, attempt, window, flushing
  <2>2. pc \notin Flushing /\ pc' \notin Flushing BY <2>1 DEF Flushing
  <2>9. pc' \in Decoding => Reached' = Reached BY <1>0, <2>1, <2>2 DEF Told, Decoding, Asking
  <2> QED BY <1>0, <2>1, <2>9, PointSame DEF Decoding, Asking, Flushing
<1>10. CASE BuildTree
  <2>1. /\ UNCHANGED << at, slide, w, bytes_out, file, blk >> /\ pc = "tree"
        /\ pc' \in {"lengths", "fail"}
    BY <1>10 DEF BuildTree, Ready, Fail, attempt, window, flushing
  <2>2. pc \notin Flushing /\ pc' \notin Flushing BY <2>1 DEF Flushing
  <2>9. pc' \in Decoding => Reached' = Reached BY <1>0, <2>1, <2>2 DEF Told, Decoding, Asking
  <2> QED BY <1>0, <2>1, <2>9, PointSame DEF Decoding, Asking, Flushing
<1>11. CASE ReadLength
  <2>1. /\ UNCHANGED << at, slide, w, bytes_out, file, blk >> /\ pc = "lengths"
        /\ pc' \in {"length", "fail"}
    BY <1>11 DEF ReadLength, Ready, Fail, attempt, window, flushing
  <2>2. pc \notin Flushing /\ pc' \notin Flushing BY <2>1 DEF Flushing
  <2>9. pc' \in Decoding => Reached' = Reached BY <1>0, <2>1, <2>2 DEF Told, Decoding, Asking
  <2> QED BY <1>0, <2>1, <2>9, PointSame DEF Decoding, Asking, Flushing
<1>12. CASE LengthRun
  <2>1. /\ UNCHANGED << at, slide, w, bytes_out, file, blk >> /\ pc = "length"
        /\ pc' \in {"lengths", "fail"}
    BY <1>12 DEF LengthRun, Ready, Fail, attempt, window, flushing
  <2>2. pc \notin Flushing /\ pc' \notin Flushing BY <2>1 DEF Flushing
  <2>9. pc' \in Decoding => Reached' = Reached BY <1>0, <2>1, <2>2 DEF Told, Decoding, Asking
  <2> QED BY <1>0, <2>1, <2>9, PointSame DEF Decoding, Asking, Flushing
<1>13. CASE BuildCodes
  <2>1. /\ UNCHANGED << at, slide, w, bytes_out, file, blk >> /\ pc = "lengths" /\ tok' = 1
        /\ pc' \in {"codes", "fail"}
    BY <1>13 DEF BuildCodes, Ready, Fail, attempt, window, flushing
  <2>2. pc \notin Flushing /\ pc' \notin Flushing BY <2>1 DEF Flushing
  <2>3. blk \in 1 .. Len(file.blocks) BY <1>0, <2>1, FileFacts DEF PlaceTypes, Going
  <2>9. ASSUME pc' \in Decoding PROVE Reached' = Reached
    <3>1. pc' = "codes" BY <2>1, <2>9 DEF Decoding, Asking
    <3>2. Reached = Before(file.blocks, blk) BY <1>0, <2>1, <2>2 DEF Told
    <3>3. Reached' = Expanded(Before(file.blocks, blk), TokensOf(file.blocks[blk]), 1 - 1)
      BY <1>0, <2>1, <2>2, <3>1 DEF Told
    <3>4. PutOut(0) = Before(file.blocks, blk) /\ 1 - 1 = 0 BY <1>0, <2>3, PutOutFacts
    <3> QED BY <3>2, <3>3, <3>4 DEF PutOut, Block
  <2> QED BY <1>0, <2>1, <2>9, PointSame DEF Decoding, Asking, Flushing
<1>14. CASE inflate_codes
  <2>1. /\ UNCHANGED << at, slide, w, bytes_out, file, blk, tok >> /\ pc = "codes" /\ pc' = "token"
    BY <1>14 DEF inflate_codes, Ready, attempt, window, flushing
  <2>2. pc \notin Flushing /\ pc' \notin Flushing BY <2>1 DEF Flushing
  <2>9. pc' \in Decoding => Reached' = Reached BY <1>0, <2>1, <2>2 DEF Told
  <2> QED BY <1>0, <2>1, <2>9, PointSame DEF Decoding, Asking, Flushing
<1>15. CASE LostEnd \/ LostLiteral
  <2>1. pc = "lost" /\ at' = at BY <1>15 DEF LostEnd, LostLiteral, Ready
  <2>2. at = -1 BY <2>1 DEF LostInv, Going
  <2> QED BY <2>1, <2>2 DEF PointInv
<1>16. CASE inflate_stored
  <2>1. /\ UNCHANGED << at, slide, w, bytes_out, file, blk, n >> /\ pc = "stored"
        /\ (n > 0 /\ pc' = "stored_byte") \/ (~(n > 0) /\ pc' = EndBlock)
    BY <1>16 DEF inflate_stored, Ready, attempt, window, flushing
  <2>2. pc' \in {"stored_byte", "undo", "block"} BY <2>1 DEF EndBlock
  <2>3. pc \notin Flushing /\ pc' \notin Flushing BY <2>1, <2>2 DEF Flushing
  <2>4. Reached = Expanded(Before(file.blocks, blk), TokensOf(file.blocks[blk]), Len(file.blocks[blk].data) - n)
    BY <1>0, <2>1, <2>3 DEF Told
  <2>9. pc' \in Decoding => Reached' = Reached
    <3>1. CASE pc' = "stored_byte" BY <1>0, <2>1, <2>3, <2>4, <3>1 DEF Told
    <3>2. CASE ~(n > 0) /\ pc' = EndBlock
      <4>1. blk \in 1 .. Len(file.blocks) /\ Block.type = 0 /\ n \in 0 .. Len(Block.data)
        BY <1>0, <2>1, FileFacts DEF PlaceTypes, Going
      <4>2. CodesOf(Block) = Len(Block.data) /\ Len(Block.data) \in Nat BY <1>0, <4>1, CodesAre
      <4>3. Len(Block.data) - n = CodesOf(Block) BY <3>2, <4>1, <4>2
      <4>4. Reached = Before(file.blocks, blk + 1)
        BY <1>0, <2>4, <4>1, <4>3, PutOutFacts DEF PutOut, Block
      <4> QED BY <1>0, <2>1, <2>3, <3>2, <4>4, BlocksPutOut DEF Told, EndBlock
    <3> QED BY <2>1, <3>1, <3>2
  <2> QED BY <1>0, <2>1, <2>2, <2>9, PointSame DEF Decoding, Asking, Flushing
<1>17. CASE StoredByte
  <2> DEFINE k == Len(Block.data) - n + 1
  <2>1. /\ UNCHANGED << at, bytes_out, file, blk >> /\ pc = "stored_byte" /\ n' = n - 1
        /\ Output(Block.data[k], "stored")
    BY <1>17 DEF StoredByte, Ready, attempt, outputs
  <2>2. blk \in 1 .. Len(file.blocks) /\ Block.type = 0 /\ n \in 0 .. Len(Block.data) /\ n # 0
    BY <1>0, <2>1, FileFacts DEF PlaceTypes, Going
  <2>3. CodesOf(Block) = Len(Block.data) /\ Len(Block.data) \in Nat BY <1>0, <2>2, CodesAre
  <2>4. k \in 1 .. CodesOf(Block) /\ Len(Block.data) - n = k - 1 /\ Len(Block.data) - (n - 1) = k
    BY <2>2, <2>3
  <2> HIDE DEF k
  <2>5. OneMore(PutOut(k - 1), PutOut(k), Block.data[k]) BY <1>0, <2>2, <2>4, CodePutsOut
  <2>6. Reached = PutOut(k - 1) BY <1>0, <2>1, <2>4 DEF Told, Flushing, PutOut, Block
  <2>7. ReachedAt("stored")' = PutOut(k) BY <2>1, <2>4 DEF ReachedAt, PutOut, Block
  <2>8. OneMore(Reached, ReachedAt("stored")', Block.data[k]) BY <2>5, <2>6, <2>7
  <2> QED BY <1>0, <2>1, <2>8, PointOutput DEF Decoding, Asking
<1>18. CASE Literal
  <2>1. /\ UNCHANGED << at, bytes_out, file, blk >> /\ pc = "token" /\ tok' = tok + 1
        /\ Output(Token.sym, "codes") /\ Token.sym < EOB
    BY <1>18 DEF Literal, Ready, attempt, outputs
  <2>2. blk \in 1 .. Len(file.blocks) /\ Block.type \in 1 .. 2 /\ tok \in DOMAIN Block.toks
    BY <1>0, <2>1, FileFacts DEF PlaceTypes, Going
  <2>3. tok \in 1 .. CodesOf(Block) BY <1>0, <2>2, CodesAre
  <2>4. OneMore(PutOut(tok - 1), PutOut(tok), Token.sym) BY <1>0, <2>1, <2>2, <2>3, CodePutsOut DEF Token
  <2>5. Reached = PutOut(tok - 1) BY <1>0, <2>1 DEF Told, Flushing, PutOut, Block
  <2>6. ReachedAt("codes")' = PutOut(tok)
    <3>1. (tok + 1) - 1 = tok
      <4>1. CodesOf(Block) \in Nat BY <1>0, <2>2, PutOutFacts
      <4> QED BY <2>3, <4>1
    <3> QED BY <2>1, <3>1 DEF ReachedAt, PutOut, Block
  <2>7. OneMore(Reached, ReachedAt("codes")', Token.sym) BY <2>4, <2>5, <2>6
  <2> QED BY <1>0, <2>1, <2>7, PointOutput DEF Decoding, Asking
<1>19. CASE EndOfBlock
  <2>1. /\ UNCHANGED << at, slide, w, bytes_out, file, blk >> /\ pc = "token" /\ pc' = EndBlock
        /\ Token.sym = EOB
    BY <1>19 DEF EndOfBlock, Ready, attempt, window, flushing
  <2>2. pc' \in {"undo", "block"} BY <2>1 DEF EndBlock
  <2>3. pc \notin Flushing /\ pc' \notin Flushing BY <2>1, <2>2 DEF Flushing
  <2>4. blk \in 1 .. Len(file.blocks) /\ Block.type \in 1 .. 2 /\ tok \in DOMAIN Block.toks
    BY <1>0, <2>1, FileFacts DEF PlaceTypes, Going
  <2>5. tok \in 1 .. CodesOf(Block) /\ CodesOf(Block) = Len(Block.toks) /\ TokensSound(Block.toks)
    BY <1>0, <2>4, CodesAre
  <2>6. tok = CodesOf(Block) BY <2>1, <2>4, <2>5 DEF TokensSound, Token
  <2>7. /\ Prefix(PutOut(tok - 1), PutOut(tok)) /\ Len(PutOut(tok)) = Len(PutOut(tok - 1))
        /\ PutOut(tok - 1) \in Seq(Byte)
    BY <1>0, <2>1, <2>4, <2>5, CodePutsOut DEF Token
  <2>8. PutOut(tok) = Before(file.blocks, blk + 1) BY <1>0, <2>4, <2>6, PutOutFacts
  <2>9. Reached = PutOut(tok - 1) BY <1>0, <2>1, <2>3 DEF Told, PutOut, Block
  <2>10. Reached' = Before(file.blocks, blk + 1)
    BY <1>0, <2>1, <2>3, BlocksPutOut DEF Told, EndBlock
  <2>11. Prefix(Reached, Reached') /\ Len(Reached') = Len(Reached) /\ Len(Reached) \in Nat /\ Left' = 0
    BY <1>0, <2>2, <2>3, <2>7, <2>8, <2>9, <2>10 DEF Told
  <2>12. Len(Reached') - Left' = Len(Reached) BY <2>11
  <2> QED BY <1>0, <2>1, <2>3, <2>11, <2>12, PointOn DEF Decoding, Asking
<1>20. CASE StartCopy
  <2>1. /\ UNCHANGED << at, slide, w, bytes_out, file, blk >> /\ pc = "token" /\ Token.sym > EOB
        /\ \/ Invalid /\ pc' = "fail"
           \/ ~Invalid /\ n' = CopyLength /\ tok' = tok + 1 /\ pc' = "copy"
    BY <1>20 DEF StartCopy, Ready, Fail, attempt, flushing
  <2>2. CASE pc' = "fail" BY <2>2, NotDecoding DEF Decoding, Asking, Flushing
  <2>3. CASE ~Invalid /\ n' = CopyLength /\ tok' = tok + 1 /\ pc' = "copy"
    <3>1. blk \in 1 .. Len(file.blocks) /\ Block.type \in 1 .. 2 /\ tok \in DOMAIN Block.toks
      BY <1>0, <2>1, FileFacts DEF PlaceTypes, Going
    <3>2. tok \in 1 .. CodesOf(Block) /\ CodesOf(Block) \in Nat BY <1>0, <3>1, CodesAre, PutOutFacts
    <3>3. Token.sym \in 257 .. 285 /\ Token.dsym < 30 BY <2>1, <2>3, CopyFacts DEF Types
    <3>4. IsCopy(Token) BY <3>3 DEF IsCopy
    <3>5. /\ Prefix(PutOut(tok - 1), PutOut(tok)) /\ PutOut(tok - 1) \in Seq(Byte)
          /\ LengthOf(Token) \in Nat /\ Len(PutOut(tok)) = Len(PutOut(tok - 1)) + LengthOf(Token)
      BY <1>0, <3>1, <3>2, <3>4, CodePutsOut DEF Token
    <3>6. pc \notin Flushing /\ pc' \notin Flushing BY <2>1, <2>3 DEF Flushing
    <3>7. Reached = PutOut(tok - 1) BY <1>0, <2>1, <3>6 DEF Told, PutOut, Block
    <3>8. Reached' = PutOut(tok)
      <4>1. (tok + 1) - 1 = tok BY <3>2
      <4> QED BY <1>0, <2>1, <2>3, <3>6, <4>1 DEF Told, PutOut, Block
    <3>9. Left' = LengthOf(Token)
      <4>1. Left' = CopyLength BY <1>0, <2>3, <3>6 DEF Told
      <4> QED BY <4>1 DEF CopyLength, LengthOf
    <3>10. Len(Reached') - Left' = Len(Reached)
      <4>1. PICK x \in Nat, y \in Nat : x = Len(PutOut(tok - 1)) /\ y = LengthOf(Token) BY <3>5
      <4>2. Len(Reached') = x + y /\ Left' = y /\ Len(Reached) = x BY <3>5, <3>7, <3>8, <3>9, <4>1
      <4> QED BY <4>2
    <3>11. Prefix(Reached, Reached') BY <3>5, <3>7, <3>8
    <3> QED BY <1>0, <2>1, <2>3, <3>6, <3>10, <3>11, PointOn DEF Decoding, Asking
  <2> QED BY <2>1, <2>2, <2>3
<1>21. CASE UndoLookahead
  <2>1. /\ UNCHANGED << at, slide, w, bytes_out, file, blk, tok, n >> /\ pc = "undo" /\ pc' = "flush"
        /\ ret' = "trailer"
    BY <1>21 DEF UndoLookahead, Ready, attempt, window, outputs
  <2>2. Reached = file.out /\ Reached' = file.out BY <2>1 DEF Reached, ReachedAt, Where, Flushing
  <2>3. Left = 0 /\ Left' = 0 /\ Start' = Start BY <2>1 DEF Left, Start, Where, Flushing
  <2> QED BY <2>1, <2>2, <2>3, PointFrame DEF Decoding, Asking, Flushing
<1>22. CASE flush_window
  <2>1. /\ UNCHANGED << at, slide, file, blk, tok, n, ret >> /\ pc = "flush"
        /\ \/ outcnt = 0 /\ pc' = ret
           \/ pc' = "fail"
           \/ pc' = "chunks" /\ bytes_out' = bytes_out + outcnt /\ w' = w
    BY <1>22 DEF flush_window, Ready, Fail, FlushDone, attempt
  <2>2. outcnt = w /\ w \in 0 .. WSIZE /\ (ret # "trailer" => w = WSIZE) /\ bytes_out \in Nat
    BY <1>0, <2>1 DEF WindowTypes, FlushInv, Flushing
  <2>3. CASE outcnt = 0 /\ pc' = ret
    <3>1. ret = "trailer" BY <2>2, <2>3
    <3> QED BY <2>3, <3>1, NotDecoding DEF Decoding, Asking, Flushing
  <2>4. CASE pc' = "fail" BY <2>4, NotDecoding DEF Decoding, Asking, Flushing
  <2>5. CASE pc' = "chunks" /\ bytes_out' = bytes_out + outcnt /\ w' = w
    <3>1. Where = ret /\ Where' = ret BY <2>1, <2>5 DEF Where, Flushing
    <3>2. Reached' = Reached /\ Left' = Left BY <2>1, <3>1 DEF Reached, ReachedAt, Left, PutOut, Block
    <3>3. Start' = Start
      <4>1. Start = bytes_out /\ Start' = (bytes_out + w) - w BY <2>1, <2>2, <2>5 DEF Start
      <4> QED BY <2>2, <4>1
    <3> QED BY <2>1, <2>5, <3>2, <3>3, PointFrame DEF Flushing
  <2> QED BY <2>1, <2>3, <2>4, <2>5
<1>23. CASE NoChunkLeft
  <2>1. /\ at' = at /\ pc = "chunks" /\ FlushDone
        /\ UNCHANGED << slide, bytes_out, file, blk, tok, n, ret >>
    BY <1>23 DEF NoChunkLeft, attempt, outputs
  <2>2. bytes_out \in Nat BY DEF FlushInv
  <2> QED BY <1>0, <2>1, <2>2, PointAround
<1>24. CASE CopyChunk
  <2>1. /\ at' = at /\ pc = "chunks" /\ (FlushDone \/ UNCHANGED << pc, w >>)
        /\ UNCHANGED << slide, bytes_out, file, blk, tok, n, ret >>
    BY <1>24 DEF CopyChunk, attempt
  <2>2. bytes_out \in Nat BY DEF FlushInv
  <2>3. CASE FlushDone BY <1>0, <2>1, <2>2, <2>3, PointAround
  <2>4. CASE UNCHANGED << pc, w >>
    <3>1. Reached' = Reached /\ Left' = Left /\ Start' = Start
      BY <2>1, <2>4 DEF Reached, ReachedAt, Where, Left, Start, PutOut, Block
    <3> QED BY <2>1, <2>4, <3>1, PointFrame
  <2> QED BY <2>1, <2>3, <2>4
<1>25. CASE Copy
  <2> DEFINE t == Block.toks[tok - 1]
  <2>1. PICK from, e \in 0 .. WSIZE : \E next \in {"codes", "copy"} :
            /\ from = d % WSIZE /\ from < WSIZE /\ next = IF n = e THEN "codes" ELSE "copy"
            /\ e <= n /\ w + e <= WSIZE /\ from + e <= WSIZE
            /\ slide' = Copied(from, e) /\ w' = w + e /\ n' = n - e
            /\ (pc' = "flush" /\ ret' = next) \/ (pc' = next)
    BY <1>0, <1>25, CopyStep
  <2>2. PICK next \in {"codes", "copy"} :
            /\ from = d % WSIZE /\ from < WSIZE /\ next = IF n = e THEN "codes" ELSE "copy"
            /\ e <= n /\ w + e <= WSIZE /\ from + e <= WSIZE
            /\ slide' = Copied(from, e) /\ w' = w + e /\ n' = n - e
            /\ (pc' = "flush" /\ ret' = next) \/ (pc' = next)
    BY <2>1
  <2>3. UNCHANGED << at, bytes_out, file, blk, tok >> /\ pc = "copy"
    BY <1>25 DEF Copy, attempt, outputs
  <2>4. /\ blk \in 1 .. Len(file.blocks) /\ Block.type \in 1 .. 2 /\ tok \in DOMAIN Block.toks /\ n \in Nat
        /\ tok > 1 /\ Copying(t)
    BY <1>0, <2>3, FileFacts DEF PlaceTypes, Going, CopyInv
  <2>5. tok - 1 \in 1 .. CodesOf(Block)
    <3>1. tok \in 1 .. CodesOf(Block) /\ CodesOf(Block) \in Nat BY <1>0, <2>4, CodesAre, PutOutFacts
    <3> QED BY <2>4, <3>1
  <2> DEFINE had == PutOut((tok - 1) - 1)
             all == PutOut(tok - 1)
             back == DistanceOf(t)
             len == LengthOf(t)
  <2>6. /\ had \in Seq(Byte) /\ all \in Seq(Byte) /\ len \in Nat /\ Len(all) = Len(had) + len
        /\ back \in 1 .. WSIZE /\ back <= Len(had) /\ Repeats(all, Len(had), back)
    BY <1>0, <2>4, <2>5, CodePutsOut DEF Copying
  <2>7. n <= len /\ from = Behind(back, w) BY <2>2, <2>4 DEF Copying
  <2>8. Reached = all /\ Left = n /\ Start = bytes_out
    BY <1>0, <2>3 DEF Told, Flushing, PutOut, Block
  <2>9. Where' = next /\ Start' = bytes_out
    BY <2>2, <2>3 DEF Where, Start, Flushing
  <2>10. Reached' = all BY <2>3, <2>9 DEF Reached, ReachedAt, PutOut, Block
  <2>11. Left' = n - e
    <3>1. n - e = 0 \/ next = "copy" BY <2>2, <2>4
    <3>2. next = "codes" => n = e BY <2>2
    <3> QED BY <2>2, <2>4, <2>9, <3>1, <3>2 DEF Left
  <2> SUFFICES ASSUME at # -1 PROVE HasPut(Copied(from, e), w + e, all, bytes_out, Len(all) - (n - e))
    BY <2>2, <2>3, <2>9, <2>10, <2>11 DEF PointInv
  <2>12. HasPut(slide, w, all, bytes_out, Len(all) - n)
    BY <2>3, <2>8 DEF PointInv, Decoding
  <2> HIDE DEF had, all, back, len
  <2>13. Len(had) \in Nat /\ Len(all) \in Nat BY <2>6
  <2> DEFINE put == Len(all) - n
  <2>14. put \in Nat /\ Len(had) <= put /\ put + e <= Len(all) /\ Len(all) - (n - e) = put + e
    <3>1. PICK x \in Nat, y \in Nat, z \in Nat : x = Len(had) /\ y = Len(all) /\ z = len BY <2>6, <2>13
    <3>2. y = x + z /\ n <= z /\ e <= n /\ n \in Nat BY <2>2, <2>4, <2>6, <2>7, <3>1
    <3>3. y - n \in Nat /\ x <= y - n /\ (y - n) + e <= y /\ y - (n - e) = (y - n) + e BY <3>2
    <3> QED BY <3>1, <3>3
  <2> HIDE DEF put
  <2>15. from \in 0 .. WSIZE - 1 /\ from = IF back <= w THEN w - back ELSE w - back + WSIZE
    BY <2>2, <2>7 DEF Behind
  <2>16. HasPut(slide, w, all, bytes_out, put) BY <2>12 DEF put
  <2>17. HasPut(Copied(from, e), w + e, all, bytes_out, put + e)
    BY <1>0, <2>2, <2>6, <2>13, <2>14, <2>15, <2>16, PutCopied
  <2> QED BY <2>14, <2>17
<1> QED BY <1>1, <1>2, <1>3, <1>4, <1>5, <1>6, <1>7, <1>8, <1>9, <1>10, <1>11, <1>12, <1>13, <1>14, <1>15,
           <1>16, <1>17, <1>18, <1>19, <1>20, <1>21, <1>22, <1>23, <1>24, <1>25 DEF Next, Step

-----------------------------------------------------------------------------
LEMMA BehindStep ==
  ASSUME NEW pos \in 0 .. WSIZE - 1, NEW back \in 1 .. WSIZE, NEW e \in 0 .. WSIZE,
         pos + e <= WSIZE, Behind(back, pos) + e <= WSIZE
  PROVE  (Behind(back, pos) + e) % WSIZE = Behind(back, pos + e)
<1> DEFINE from == Behind(back, pos)
<1>1. CASE back <= pos
  <2>1. from + e = pos + e - back /\ from + e \in 0 .. WSIZE - 1 BY <1>1 DEF Behind
  <2> HIDE DEF from
  <2>2. (from + e) % WSIZE = from + e BY <2>1, ModSmall
  <2>3. Behind(back, pos + e) = pos + e - back BY <1>1 DEF Behind
  <2> QED BY <2>1, <2>2, <2>3 DEF from
<1>2. CASE ~(back <= pos)
  <2>1. from = pos - back + WSIZE BY <1>2 DEF Behind
  <2>2. CASE pos + e = back
    <3>1. from + e = 0 + WSIZE BY <2>1, <2>2
    <3>2. Whole(0 + WSIZE) BY WholeFacts
    <3>3. Behind(back, pos + e) = 0 BY <2>2 DEF Behind
    <3> QED BY <3>1, <3>2, <3>3 DEF Whole
  <2>3. CASE pos + e < back
    <3>1. from + e \in 0 .. WSIZE - 1 /\ from + e = pos + e - back + WSIZE BY <2>1, <2>3
    <3> HIDE DEF from
    <3>2. (from + e) % WSIZE = from + e BY <3>1, ModSmall
    <3>3. Behind(back, pos + e) = pos + e - back + WSIZE BY <2>3 DEF Behind
    <3> QED BY <3>1, <3>2, <3>3 DEF from
  <2> QED BY <1>2, <2>1, <2>2, <2>3
<1> QED BY <1>1, <1>2

LEMMA BehindStart ==
  ASSUME NEW pos \in 0 .. WSIZE - 1, NEW back \in 1 .. WSIZE
  PROVE  ((pos - back) % WSIZE) % WSIZE = Behind(back, pos)
<1> DEFINE x == (pos - back) % WSIZE
<1>1. x \in 0 .. WSIZE - 1
  <2>1. pos - back \in Int OBVIOUS
  <2> QED BY <2>1, ModRange
<1>2. x = Behind(back, pos) BY BackOf DEF Behind
<1> HIDE DEF x
<1>3. x % WSIZE = x BY <1>1, ModSmall
<1> QED BY <1>2, <1>3 DEF x

LEMMA NoCopy == ASSUME ~Going({"copy"})' PROVE CopyInv'
BY DEF CopyInv

(* What a copy under way copies. *)
LEMMA CopyIs ==
  ASSUME PlaceTypes, CopyInv, Going({"copy"})
  PROVE  LET t == Block.toks[tok - 1] IN
         Copying(t) /\ DistanceOf(t) \in 1 .. WSIZE /\ LengthOf(t) \in Nat /\ tok > 1
<1>1. /\ blk \in 1 .. Len(file.blocks) /\ Block.type \in 1 .. 2 /\ tok \in DOMAIN Block.toks
      /\ tok > 1 /\ Copying(Block.toks[tok - 1]) /\ file \in Files
  BY FileFacts DEF PlaceTypes, Going, CopyInv
<1>2. tok \in 1 .. CodesOf(Block) /\ CodesOf(Block) \in Nat BY <1>1, CodesAre, PutOutFacts
<1>3. tok - 1 \in 1 .. CodesOf(Block) BY <1>1, <1>2
<1>4. IsCopy(Block.toks[tok - 1]) BY <1>1 DEF Copying
<1>5. DistanceOf(Block.toks[tok - 1]) \in 1 .. WSIZE /\ LengthOf(Block.toks[tok - 1]) \in Nat
  BY <1>1, <1>3, <1>4, CodePutsOut
<1> QED BY <1>1, <1>5

LEMMA CopyAround ==
  ASSUME PlaceTypes, WindowTypes, CopyInv, pc = "chunks", FlushDone,
         UNCHANGED << file, blk, tok, n, d, ret >>
  PROVE  CopyInv'
<1>1. CASE ret # "copy"
  <2>1. pc' = ret /\ ret \in Returns BY DEF FlushDone, PlaceTypes, Flushing
  <2> QED BY <1>1, <2>1, NoCopy DEF Going, Returns, Flushing
<1>2. CASE ret = "copy"
  <2> DEFINE t == Block.toks[tok - 1]
  <2>1. Going({"copy"}) BY <1>2 DEF Going, Flushing
  <2>2. Copying(t) /\ DistanceOf(t) \in 1 .. WSIZE /\ tok > 1 BY <2>1, CopyIs
  <2>3. w = WSIZE /\ w' = 0 BY <1>2 DEF WindowTypes, Flushing, FlushDone
  <2>4. PICK back \in 1 .. WSIZE : back = DistanceOf(t) BY <2>2
  <2>5. d % WSIZE = WSIZE - back BY <2>2, <2>3, <2>4 DEF Copying, Behind
  <2>6. Behind(back, 0) = WSIZE - back BY DEF Behind
  <2>7. Copying(t)' /\ tok' > 1
    <3>1. t' = t BY DEF Block
    <3> HIDE DEF t
    <3>2. d' % WSIZE = Behind(DistanceOf(t), w') BY <2>3, <2>4, <2>5, <2>6
    <3> QED BY <2>2, <3>1, <3>2 DEF Copying
  <2> QED BY <2>7 DEF CopyInv
<1> QED BY <1>1, <1>2

LEMMA NextCopy == Types /\ CopyInv /\ [Next]_vars => CopyInv'
<1> SUFFICES ASSUME Types, CopyInv, [Next]_vars PROVE CopyInv' OBVIOUS
<1>0. PlaceTypes /\ WindowTypes /\ TableTypes /\ file \in Files BY DEF Types, PlaceTypes
<1>1. CASE UNCHANGED vars
  <2>1. UNCHANGED << file, blk, tok, n, d, w, pc, ret >> BY <1>1 DEF vars, attempt, window, flushing
  <2> QED BY <2>1 DEF CopyInv, Copying, Going, Block
<1>2. CASE get_method \/ ReadTrailer
  <2>1. pc' \in {"header", "trailer", "fail"} BY <1>2, HeaderFrame, TrailerFrame
  <2> QED BY <2>1, NoCopy DEF Going, Flushing
<1>3. CASE NEEDBITS
  <2>1. pc \in Asking /\ pc' \in {pc, "fail"} BY <1>0, <1>3, NeedFrame DEF PlaceTypes
  <2> QED BY <2>1, NoCopy DEF Going, Asking, Flushing
<1>4. CASE DUMPBITS
  <2>1. pc \in Asking /\ pc' \in {pc, "lost", "fail"} BY <1>0, <1>4, DumpFrame DEF PlaceTypes
  <2> QED BY <2>1, NoCopy DEF Going, Asking, Flushing
<1>5. CASE BlockType
  <2>1. pc' \in {"stored_length", "codes", "dynamic", "fail"}
    <3>1. pc = "type" BY <1>5 DEF BlockType, Ready
    <3>2. Block.type \in 0 .. 3 BY <1>0, <3>1, FileFacts, BlockFacts DEF PlaceTypes, Going
    <3>3. CASE Block.type = 0 BY <1>5, <3>3 DEF BlockType
    <3>4. CASE Block.type = 1 BY <1>5, <3>4 DEF BlockType
    <3>5. CASE Block.type = 2 BY <1>5, <3>5 DEF BlockType
    <3>6. CASE Block.type = 3 BY <1>5, <3>6 DEF BlockType, Fail
    <3>7. \A x \in 0 .. 3 : x = 0 \/ x = 1 \/ x = 2 \/ x = 3 OBVIOUS
    <3> QED BY <3>2, <3>3, <3>4, <3>5, <3>6, <3>7, Zenon
  <2> QED BY <2>1, NoCopy DEF Going, Flushing
<1>6. CASE inflate \/ inflate_block \/ StoredLength \/ inflate_stored \/ inflate_dynamic \/ BuildTree \/ ReadLength
             \/ LengthRun \/ BuildCodes \/ inflate_codes \/ EndOfBlock \/ LostEnd \/ uncompress_kernel \/ Validate
  <2>1. pc' \notin Flushing \cup {"copy"}
    BY <1>6 DEF inflate, inflate_block, StoredLength, inflate_stored, inflate_dynamic, BuildTree, ReadLength, LengthRun, BuildCodes, inflate_codes, EndOfBlock, LostEnd, uncompress_kernel, Validate, Ready, Fail, EndBlock, Flushing
  <2> QED BY <2>1, NoCopy, SMTT(30) DEF Going, Flushing
<1>7. CASE StoredByte
  <2>1. pc' # "copy" /\ (pc' \in Flushing => ret' # "copy")
    BY <1>7 DEF StoredByte, Output, Ready, Flushing
  <2> QED BY <2>1, NoCopy DEF Going, Flushing
<1>8. CASE Literal
  <2>1. pc' # "copy" /\ (pc' \in Flushing => ret' # "copy")
    BY <1>8 DEF Literal, Output, Ready, Flushing
  <2> QED BY <2>1, NoCopy DEF Going, Flushing
<1>9. CASE LostLiteral
  <2>1. pc' # "copy" /\ (pc' \in Flushing => ret' # "copy")
    BY <1>9 DEF LostLiteral, Output, Ready, Flushing
  <2> QED BY <2>1, NoCopy DEF Going, Flushing
<1>10. CASE UndoLookahead
  <2>1. pc' # "copy" /\ (pc' \in Flushing => ret' # "copy")
    BY <1>10 DEF UndoLookahead, Output, Ready, Flushing
  <2> QED BY <2>1, NoCopy DEF Going, Flushing
<1>11. CASE StartCopy
  <2>1. /\ UNCHANGED << file, blk, w >> /\ pc = "token" /\ Token.sym > EOB
        /\ \/ Invalid /\ pc' = "fail"
           \/ /\ ~Invalid /\ n' = CopyLength /\ tok' = tok + 1 /\ pc' = "copy"
              /\ d' = (w - CopyDistance) % WSIZE
    BY <1>11 DEF StartCopy, Ready, Fail, attempt, flushing
  <2>2. CASE pc' = "fail" BY <2>2, NoCopy DEF Going, Flushing
  <2>3. CASE ~Invalid /\ n' = CopyLength /\ tok' = tok + 1 /\ pc' = "copy" /\ d' = (w - CopyDistance) % WSIZE
    <3>1. blk \in 1 .. Len(file.blocks) /\ Block.type \in 1 .. 2 /\ tok \in DOMAIN Block.toks
      BY <1>0, <2>1, FileFacts DEF PlaceTypes, Going
    <3>2. tok \in 1 .. CodesOf(Block) /\ CodesOf(Block) \in Nat BY <1>0, <3>1, CodesAre, PutOutFacts
    <3>3. Token.sym \in 257 .. 285 /\ Token.dsym < 30 BY <1>0, <2>1, <2>3, CopyFacts
    <3>4. IsCopy(Token) BY <3>3 DEF IsCopy
    <3>5. LengthOf(Token) \in Nat /\ DistanceOf(Token) \in 1 .. WSIZE
      BY <1>0, <3>1, <3>2, <3>4, CodePutsOut DEF Token
    <3>6. tok' - 1 = tok /\ tok' > 1 BY <2>3, <3>2
    <3>7. Block'.toks[tok' - 1] = Token BY <2>1, <3>6 DEF Block, Token
    <3>8. CopyLength = LengthOf(Token) /\ CopyDistance = DistanceOf(Token)
      BY DEF CopyLength, CopyDistance, LengthOf, DistanceOf
    <3>9. n' = LengthOf(Token) /\ n' <= LengthOf(Token) BY <2>3, <3>5, <3>8
    <3>10. w \in 0 .. WSIZE - 1 BY <1>0, <2>1 DEF WindowTypes, Decoding, Asking
    <3>11. d' % WSIZE = Behind(DistanceOf(Token), w') BY <2>1, <2>3, <3>5, <3>8, <3>10, BehindStart
    <3> QED BY <3>4, <3>6, <3>7, <3>9, <3>11 DEF CopyInv, Copying
  <2> QED BY <2>1, <2>2, <2>3
<1>12. CASE Copy
  <2> DEFINE t == Block.toks[tok - 1]
  <2>1. PICK from, e \in 0 .. WSIZE : \E next \in {"codes", "copy"} :
            /\ from = d % WSIZE /\ from < WSIZE
            /\ e <= n /\ w + e <= WSIZE /\ from + e <= WSIZE
            /\ w' = w + e /\ d' = from + e /\ n' = n - e
    BY <1>0, <1>12, CopyStep
  <2>2. /\ from = d % WSIZE /\ e <= n /\ w + e <= WSIZE /\ from + e <= WSIZE
        /\ w' = w + e /\ d' = from + e /\ n' = n - e
    BY <2>1
  <2>3. UNCHANGED << file, blk, tok >> /\ pc = "copy" BY <1>12 DEF Copy, attempt
  <2>4. Copying(t) /\ DistanceOf(t) \in 1 .. WSIZE /\ LengthOf(t) \in Nat /\ tok > 1
    BY <1>0, <2>3, CopyIs DEF Going
  <2>5. w \in 0 .. WSIZE - 1 /\ n \in Nat BY <1>0, <2>3 DEF WindowTypes, Decoding
  <2>6. PICK back \in 1 .. WSIZE : back = DistanceOf(t) BY <2>4
  <2>7. from = Behind(back, w) /\ n <= LengthOf(t) /\ IsCopy(t) BY <2>2, <2>4, <2>6 DEF Copying
  <2>8. (Behind(back, w) + e) % WSIZE = Behind(back, w + e) BY <2>2, <2>5, <2>7, BehindStep
  <2>9. t' = t /\ tok' = tok BY <2>3 DEF Block
  <2> HIDE DEF t
  <2>10. d' % WSIZE = Behind(DistanceOf(t), w') BY <2>2, <2>6, <2>7, <2>8
  <2>11. n' <= LengthOf(t) BY <2>2, <2>4, <2>5, <2>7
  <2>12. Copying(t)' /\ tok' > 1 BY <2>4, <2>7, <2>9, <2>10, <2>11 DEF Copying
  <2> QED BY <2>12 DEF CopyInv, t
<1>13. CASE flush_window
  <2>1. /\ UNCHANGED << file, blk, tok, n, d, ret >> /\ pc = "flush"
        /\ \/ outcnt = 0 /\ pc' = ret
           \/ pc' = "fail"
           \/ pc' = "chunks" /\ w' = w
    BY <1>13 DEF flush_window, Ready, Fail, FlushDone, attempt
  <2>2. CASE outcnt = 0 /\ pc' = ret
    <3>1. ret = "trailer" BY <1>0, <2>1, <2>2 DEF WindowTypes, Flushing
    <3> QED BY <2>2, <3>1, NoCopy DEF Going, Flushing
  <2>3. CASE pc' = "fail" BY <2>3, NoCopy DEF Going, Flushing
  <2>4. CASE pc' = "chunks" /\ w' = w
    <3>1. Going({"copy"})' => Going({"copy"}) BY <2>1, <2>4 DEF Going, Flushing
    <3> QED BY <2>1, <2>4, <3>1 DEF CopyInv, Copying, Block
  <2> QED BY <2>1, <2>2, <2>3, <2>4
<1>14. CASE NoChunkLeft
  <2>1. pc = "chunks" /\ FlushDone /\ UNCHANGED << file, blk, tok, n, d, ret >>
    BY <1>14 DEF NoChunkLeft, attempt
  <2> QED BY <1>0, <2>1, CopyAround
<1>15. CASE CopyChunk
  <2>1. pc = "chunks" /\ (FlushDone \/ UNCHANGED << pc, w >>) /\ UNCHANGED << file, blk, tok, n, d, ret >>
    BY <1>15 DEF CopyChunk, attempt
  <2>2. CASE FlushDone BY <1>0, <2>1, <2>2, CopyAround
  <2>3. CASE UNCHANGED << pc, w >>
    BY <2>1, <2>3 DEF CopyInv, Copying, Going, Block
  <2> QED BY <2>1, <2>2, <2>3
<1> QED BY <1>1, <1>2, <1>3, <1>4, <1>5, <1>6, <1>7, <1>8, <1>9, <1>10, <1>11, <1>12, <1>13, <1>14, <1>15
        DEF Next, Step

(* What has left the window is the beginning of the output.                 *)
OutputInv == at # -1 /\ bytes_out > 0 => crc \in Seq(Bytes) /\ Prefix(crc, file.out)

LEMMA OutputIs == ASSUME PlaceTypes, OutputInv PROVE OutputIsExpansion
<1> SUFFICES ASSUME at >= 0, bytes_out > 0 PROVE IsPrefix(crc, file.out) BY DEF OutputIsExpansion
<1>1. at # -1 OBVIOUS
<1>2. crc \in Seq(Bytes) /\ Prefix(crc, file.out) BY <1>1 DEF OutputInv
<1>3. file.out \in Seq(Byte)
  <2>1. file \in Files BY DEF PlaceTypes
  <2>2. Len(file.blocks) + 1 \in 1 .. Len(file.blocks) + 1 BY <2>1, FileFacts
  <2> QED BY <2>1, <2>2, BlocksPutOut, Zenon
<1>4. Len(crc) \in Nat /\ Len(file.out) \in Nat /\ Len(crc) <= Len(file.out) BY <1>2, <1>3 DEF Prefix
<1>5. SubSeq(crc, 1, Len(crc)) = SubSeq(file.out, 1, Len(crc)) BY <1>2, <1>3, <1>4 DEF Prefix
<1> QED BY <1>4, <1>5 DEF IsPrefix

LEMMA OutputSame ==
  ASSUME OutputInv, UNCHANGED << bytes_out, crc, file >>, at' # -1 => at # -1
  PROVE  OutputInv'
BY DEF OutputInv

(* flush_window puts out the window, which is what the codes before the     *)
(* place reached have put out.                                              *)
LEMMA FlushPutsOut ==
  ASSUME Types, FlushInv, FlushInv', PointInv, OutputInv, flush_window, pc' = "chunks"
  PROVE  OutputInv'
<1> SUFFICES ASSUME at # -1 PROVE crc' \in Seq(Bytes) /\ Prefix(crc', file.out)
  BY DEF OutputInv, flush_window, attempt
<1>1. /\ pc = "flush" /\ file' = file /\ slide' = slide
      /\ crc' = crc \o Flushed /\ bytes_out' = bytes_out + outcnt /\ w' = w
  <2>1. ret # "chunks" BY DEF Types, PlaceTypes, Returns, flush_window, Ready, Flushing
  <2> QED BY <2>1 DEF flush_window, Ready, FlushDone, Fail, attempt
<1>2. outcnt = w /\ w \in 0 .. WSIZE /\ bytes_out \in Nat /\ PlaceTypes /\ WindowTypes
  BY <1>1 DEF Types, WindowTypes, FlushInv
<1>3. crc \in Seq(Bytes) /\ Len(crc) = bytes_out
  BY <1>1 DEF FlushInv, Running, SegmentsInv
<1>4. crc' \in Seq(Bytes) /\ Len(crc') = bytes_out + w
  BY <1>1, <1>2 DEF FlushInv, Running, SegmentsInv
<1>5. ASSUME NEW i \in 0 .. w - 1 PROVE crc'[bytes_out + i + 1] = slide[i]
  <2>1. crc'[bytes_out' - w' + i + 1] = slide'[i] BY <1>1 DEF FlushInv, ChunksInv
  <2>2. bytes_out' - w' + i + 1 = bytes_out + i + 1 BY <1>1, <1>2
  <2> QED BY <1>1, <2>1, <2>2
<1>6. ASSUME NEW i \in 1 .. bytes_out PROVE crc'[i] = crc[i]
  <2>1. Flushed \in Seq(Bytes) BY <1>2, FlushedFacts
  <2>2. \A j \in 1 .. Len(crc) : (crc \o Flushed)[j] = crc[j] BY <1>3, <2>1, ConcatFacts
  <2> QED BY <1>1, <1>3, <2>2
<1>7. Reached \in Seq(Byte) /\ Prefix(Reached, file.out) BY <1>1, <1>2, WhereFacts DEF Flushing
<1>8. /\ bytes_out + w <= Len(Reached)
      /\ \A i \in 0 .. w - 1 : slide[i] = Reached[bytes_out + i + 1]
  <2>1. HasPut(slide, w, Reached, Start, Len(Reached) - Left) BY <1>1 DEF PointInv, Flushing
  <2>2. Start = bytes_out BY <1>1 DEF Start
  <2> QED BY <2>1, <2>2 DEF HasPut
<1>9. Len(Reached) \in Nat /\ Len(Reached) <= Len(file.out)
      /\ \A i \in 1 .. Len(Reached) : Reached[i] = file.out[i]
  BY <1>7 DEF Prefix
<1>10. ASSUME NEW i \in 1 .. bytes_out + w PROVE crc'[i] = file.out[i]
  <2>1. CASE i <= bytes_out
    <3>1. i \in 1 .. bytes_out /\ bytes_out > 0 BY <1>2, <2>1
    <3>2. crc[i] = file.out[i] BY <1>3, <3>1 DEF OutputInv, Prefix
    <3> QED BY <1>6, <3>1, <3>2
  <2>2. CASE i > bytes_out
    <3> DEFINE j == i - bytes_out - 1
    <3>1. j \in 0 .. w - 1 /\ bytes_out + j + 1 = i /\ i \in 1 .. Len(Reached) BY <1>2, <1>8, <1>9, <2>2
    <3> HIDE DEF j
    <3>2. crc'[i] = slide[j] BY <1>5, <3>1
    <3>3. slide[j] = Reached[i] BY <1>8, <3>1
    <3> QED BY <1>9, <3>1, <3>2, <3>3
  <2> QED BY <1>2, <2>1, <2>2
<1>11. bytes_out + w <= Len(file.out) BY <1>2, <1>8, <1>9
<1> QED BY <1>4, <1>10, <1>11 DEF Prefix

LEMMA NextOutput ==
  Types /\ FlushInv /\ FlushInv' /\ LostInv /\ LostInv' /\ PointInv /\ OutputInv /\ [Next]_vars => OutputInv'
<1> SUFFICES ASSUME Types, FlushInv, FlushInv', LostInv, LostInv', PointInv, OutputInv, [Next]_vars
             PROVE  OutputInv'
  OBVIOUS
<1>0. PlaceTypes BY DEF Types
<1>1. CASE UNCHANGED vars BY <1>1, OutputSame DEF vars, attempt, flushing
<1>2. CASE uncompress_kernel
  <2>1. bytes_out' = 0 BY <1>2 DEF uncompress_kernel, clear_bufs
  <2> QED BY <2>1 DEF OutputInv
<1>3. CASE inflate
  <2>1. bytes_out' = 0 BY <1>3 DEF inflate, FlushInv
  <2> QED BY <2>1 DEF OutputInv
<1>4. CASE DUMPBITS
  <2>1. UNCHANGED << bytes_out, crc, file >> /\ pc \in Asking /\ pc' \in {pc, "lost", "fail"}
    BY <1>0, <1>4, DumpFrame DEF attempt, flushing, PlaceTypes
  <2>2. at' # -1 => at # -1
    <3>1. CASE pc = "lost"
      <4>1. CASE pc' = "lost" BY <4>1 DEF LostInv, Going
      <4>2. CASE pc' # "lost"
        <5>1. at' = -1 BY <1>4, <3>1, <4>2 DEF DUMPBITS
        <5> QED BY <5>1
      <4> QED BY <4>1, <4>2
    <3>2. CASE pc # "lost" BY <2>1, <3>2 DEF LostInv, MayBeLost, Going, Asking, Flushing
    <3> QED BY <3>1, <3>2
  <2> QED BY <2>1, <2>2, OutputSame
<1>5. CASE BlockType
  <2>1. UNCHANGED << bytes_out, crc, file >> /\ pc = "type" BY <1>5 DEF BlockType, Ready, attempt, flushing
  <2>2. at # -1 BY <2>1 DEF LostInv, MayBeLost, Going, Flushing
  <2> QED BY <2>1, <2>2, OutputSame
<1>6. CASE flush_window
  <2>1. at' = at /\ file' = file BY <1>6 DEF flush_window, attempt
  <2>2. CASE outcnt = 0 BY <1>6, <2>1, <2>2, OutputSame DEF flush_window
  <2>3. CASE outcnt # 0 /\ pc' = "chunks" BY <1>6, <2>3, FlushPutsOut
  <2>4. CASE outcnt # 0 /\ pc' # "chunks"
    <3>1. bytes_out = 0 /\ bytes_out' = bytes_out BY <1>6, <2>4 DEF flush_window
    <3> QED BY <3>1 DEF OutputInv
  <2> QED BY <2>2, <2>3, <2>4
<1>7. CASE get_method
  <2>1. UNCHANGED << at, bytes_out, crc, file >> BY <1>7, HeaderFrame DEF get_method, attempt, flushing, outputs
  <2> QED BY <2>1, OutputSame
<1>8. CASE NEEDBITS
  <2>1. UNCHANGED << at, bytes_out, crc, file >> BY <1>8, NeedFrame DEF NEEDBITS, attempt, flushing, outputs
  <2> QED BY <2>1, OutputSame
<1>9. CASE inflate_block
  <2>1. UNCHANGED << at, bytes_out, crc, file >> BY <1>9 DEF inflate_block, attempt, flushing, outputs
  <2> QED BY <2>1, OutputSame
<1>10. CASE StoredLength
  <2>1. UNCHANGED << at, bytes_out, crc, file >> BY <1>10 DEF StoredLength, attempt, flushing, outputs
  <2> QED BY <2>1, OutputSame
<1>11. CASE inflate_stored
  <2>1. UNCHANGED << at, bytes_out, crc, file >> BY <1>11 DEF inflate_stored, attempt, flushing, outputs
  <2> QED BY <2>1, OutputSame
<1>12. CASE StoredByte
  <2>1. UNCHANGED << at, bytes_out, crc, file >> BY <1>12 DEF StoredByte, attempt, flushing, outputs
  <2> QED BY <2>1, OutputSame
<1>13. CASE inflate_dynamic
  <2>1. UNCHANGED << at, bytes_out, crc, file >> BY <1>13 DEF inflate_dynamic, attempt, flushing, outputs
  <2> QED BY <2>1, OutputSame
<1>14. CASE BuildTree
  <2>1. UNCHANGED << at, bytes_out, crc, file >> BY <1>14 DEF BuildTree, attempt, flushing, outputs
  <2> QED BY <2>1, OutputSame
<1>15. CASE ReadLength
  <2>1. UNCHANGED << at, bytes_out, crc, file >> BY <1>15 DEF ReadLength, attempt, flushing, outputs
  <2> QED BY <2>1, OutputSame
<1>16. CASE LengthRun
  <2>1. UNCHANGED << at, bytes_out, crc, file >> BY <1>16 DEF LengthRun, attempt, flushing, outputs
  <2> QED BY <2>1, OutputSame
<1>17. CASE BuildCodes
  <2>1. UNCHANGED << at, bytes_out, crc, file >> BY <1>17 DEF BuildCodes, attempt, flushing, outputs
  <2> QED BY <2>1, OutputSame
<1>18. CASE inflate_codes
  <2>1. UNCHANGED << at, bytes_out, crc, file >> BY <1>18 DEF inflate_codes, attempt, flushing, outputs
  <2> QED BY <2>1, OutputSame
<1>19. CASE Literal
  <2>1. UNCHANGED << at, bytes_out, crc, file >> BY <1>19 DEF Literal, attempt, flushing, outputs
  <2> QED BY <2>1, OutputSame
<1>20. CASE EndOfBlock
  <2>1. UNCHANGED << at, bytes_out, crc, file >> BY <1>20 DEF EndOfBlock, attempt, flushing, outputs
  <2> QED BY <2>1, OutputSame
<1>21. CASE StartCopy
  <2>1. UNCHANGED << at, bytes_out, crc, file >> BY <1>21 DEF StartCopy, attempt, flushing, outputs
  <2> QED BY <2>1, OutputSame
<1>22. CASE Copy
  <2>1. UNCHANGED << at, bytes_out, crc, file >> BY <1>22 DEF Copy, attempt, flushing, outputs
  <2> QED BY <2>1, OutputSame
<1>23. CASE LostLiteral
  <2>1. UNCHANGED << at, bytes_out, crc, file >> BY <1>23 DEF LostLiteral, attempt, flushing, outputs
  <2> QED BY <2>1, OutputSame
<1>24. CASE LostEnd
  <2>1. UNCHANGED << at, bytes_out, crc, file >> BY <1>24 DEF LostEnd, attempt, flushing, outputs
  <2> QED BY <2>1, OutputSame
<1>25. CASE UndoLookahead
  <2>1. UNCHANGED << at, bytes_out, crc, file >> BY <1>25 DEF UndoLookahead, attempt, flushing, outputs
  <2> QED BY <2>1, OutputSame
<1>26. CASE CopyChunk
  <2>1. UNCHANGED << at, bytes_out, crc, file >> BY <1>26 DEF CopyChunk, attempt, flushing, outputs
  <2> QED BY <2>1, OutputSame
<1>27. CASE NoChunkLeft
  <2>1. UNCHANGED << at, bytes_out, crc, file >> BY <1>27 DEF NoChunkLeft, attempt, flushing, outputs
  <2> QED BY <2>1, OutputSame
<1>28. CASE ReadTrailer
  <2>1. UNCHANGED << at, bytes_out, crc, file >> BY <1>28, TrailerFrame DEF ReadTrailer, attempt, flushing, outputs
  <2> QED BY <2>1, OutputSame
<1>29. CASE Validate
  <2>1. UNCHANGED << at, bytes_out, crc, file >> BY <1>29 DEF Validate, attempt, flushing, outputs
  <2> QED BY <2>1, OutputSame
<1> QED BY <1>1, <1>2, <1>3, <1>4, <1>5, <1>6, <1>7, <1>8, <1>9, <1>10, <1>11, <1>12, <1>13, <1>14, <1>15,
           <1>16, <1>17, <1>18, <1>19, <1>20, <1>21, <1>22, <1>23, <1>24, <1>25, <1>26, <1>27, <1>28, <1>29 DEF Next, Step

-----------------------------------------------------------------------------
(*** The invariant ***)

(* Window, bit buffer and output: what InflatesRight needs.                 *)
DecoderInv ==
  /\ InputInv /\ TablesInv /\ ReadsInv /\ BitsInv
  /\ LostInv /\ PointInv /\ CopyInv /\ OutputInv
IInv == Types /\ FlushInv /\ MemoryKept /\ Validated /\ DecoderInv

LEMMA InitDecoder == Init => DecoderInv
<1> SUFFICES ASSUME Init PROVE DecoderInv OBVIOUS
<1> USE DEF Init
<1>1. /\ tries = 0 /\ failures = 0 /\ insize = 0 /\ inptr = 0 /\ block_number = 0
      /\ pc = "idle" /\ ret = "idle" /\ at = 0 /\ bytes_out = 0
      /\ reads = << >> /\ b = << >> /\ lit = NoTable /\ dist = NoTable
  OBVIOUS
<1>2. pc \notin Decoding \cup Flushing /\ pc # "header"
  BY <1>1 DEF Decoding, Asking, Flushing
<1> HIDE DEF Init
<1>3. InputInv BY <1>1, <1>2, SizesAssumption DEF InputInv
<1>4. TablesInv
  <2>1. NoTable.lens = << >> /\ NoTable.bits = 0 /\ NoTable.longest = 0 BY DEF NoTable
  <2>2. TableFits(NoTable) BY <2>1 DEF TableFits
  <2> QED BY <1>1, <1>2, <2>2 DEF TablesInv, Going, Decoding, Asking
<1>5. ReadsInv BY <1>1 DEF ReadsInv
<1>6. BitsInv
  <2>1. << >> \in Seq(Nat) OBVIOUS
  <2>2. IsSeq(<< >>) BY <2>1, AnySeq
  <2> QED BY <1>1, <1>2, <2>2 DEF BitsInv, Filling
<1>7. LostInv BY <1>1, <1>2 DEF LostInv, Going
<1>8. PointInv BY <1>2 DEF PointInv
<1>9. CopyInv BY <1>1, <1>2 DEF CopyInv, Going
<1>10. OutputInv BY <1>1 DEF OutputInv
<1> QED BY <1>3, <1>4, <1>5, <1>6, <1>7, <1>8, <1>9, <1>10 DEF DecoderInv

LEMMA NextDecoder ==
  /\ Types /\ Types' /\ FlushInv /\ FlushInv' /\ DecoderInv
  /\ [Next]_vars
  => DecoderInv'
<1> SUFFICES ASSUME Types, Types', FlushInv, FlushInv', DecoderInv, [Next]_vars PROVE DecoderInv'
  OBVIOUS
<1>1. /\ InputInv /\ TablesInv /\ ReadsInv /\ BitsInv
      /\ LostInv /\ PointInv /\ CopyInv /\ OutputInv
  BY DEF DecoderInv
<1>2. InputInv' BY <1>1, NextInput
<1>3. TablesInv' BY <1>1, NextFits
<1>4. ReadsInv' BY <1>1, NextReads
<1>5. BitsInv' BY <1>1, NextBits
<1>6. LostInv' BY <1>1, NextLost
<1>7. PointInv' BY <1>1, <1>6, NextPoint
<1>8. CopyInv' BY <1>1, NextCopy
<1>9. OutputInv' BY <1>1, <1>6, NextOutput
<1> QED BY <1>2, <1>3, <1>4, <1>5, <1>6, <1>7, <1>8, <1>9 DEF DecoderInv

LEMMA InitIInv == Init => IInv
<1> SUFFICES ASSUME Init PROVE IInv OBVIOUS
<1>1. MemoryKept BY DEF Init, MemoryKept
<1>2. Validated BY DEF Init, Validated
<1> QED BY <1>1, <1>2, InitTypes, InitFlush, InitDecoder DEF IInv

LEMMA NextIInv == IInv /\ [Next]_vars => IInv'
BY NextTypes, NextFlush, NextKept, NextValidated, NextDecoder DEF IInv

LEMMA SpecIInv == Spec => []IInv
BY InitIInv, NextIInv, PTL DEF Spec

(* The bounds of the buffers.                                               *)
LEMMA BoundsKept == ASSUME Types, FlushInv, InputInv, BitsInv PROVE TypeOK
<1>1. /\ tries \in 0 .. MaxTries /\ failures \in 0 .. MaxFailures
      /\ insize \in {0, INBUFSIZ} /\ inptr \in 0 .. INBUFSIZ
      /\ block_number \in Int /\ block_number >= -1
  BY DEF InputInv
<1>2. Len(b) < 32
  <2>1. Len(b) \in Nat BY IsSeqFacts DEF BitsInv
  <2> QED BY <2>1 DEF BitsInv
<1>3. \A i \in DOMAIN slide : slide[i] \in Bytes BY DEF Types, WindowTypes
<1>4. w \in 0 .. WSIZE /\ n \in Nat /\ d \in 0 .. WSIZE BY DEF Types, WindowTypes
<1>5. pc \in {"codes", "copy", "stored", "token", "block", "lost"} => w < WSIZE
  BY DEF Types, WindowTypes, Decoding, Asking
<1>6. Len(ll) <= 286 + 30 BY DEF Types, TableTypes
<1>7. chunk \in 0 .. Len(chunks) /\ bss_size \in Nat /\ bytes_out \in Nat /\ file_offset \in Nat
  BY DEF FlushInv
<1> QED BY <1>1, <1>2, <1>3, <1>4, <1>5, <1>6, <1>7 DEF TypeOK

(* flush_window touches no memory below a segment, and behind it no more    *)
(* than the segment's place in its window; the kernel that                  *)
(* uncompress_kernel reports as loaded, after however many attempts that    *)
(* failed, is in memory as it is in the file, however its segments lie in   *)
(* the windows the crc was computed from.                                   *)
THEOREM KernelIsLoaded == Spec => []MemoryRight
<1>1. IInv => MemoryRight BY LoadedAtOk DEF IInv, MemoryRight
<1> QED BY <1>1, SpecIInv, PTL

(* inflate_dynamic: code lengths are repeated so that, when there are as    *)
(* many as the block announced, they are those that were sent.              *)
THEOREM CodeLengthsAreThoseSent == Spec => []LengthsRight
<1>1. IInv => LengthsRight BY LengthsAreSent DEF IInv
<1> QED BY <1>1, SpecIInv, PTL

(* inflate: as long as it decodes the bits the file has, whatever buffer,   *)
(* window and blocks, what has left the window is the beginning of what the *)
(* codes of the file stand for: copies that overlap, that wrap around in    *)
(* the window or that a flush interrupts included.  The window position,    *)
(* the bit buffer, the code lengths and the bytes given back at the end     *)
(* stay within their limits, in step or not.                                *)
THEOREM DecodesWhatIsWritten == Spec => []InflatesRight
<1>1. IInv => TypeOK BY BoundsKept DEF IInv, DecoderInv
<1>2. IInv => LengthsRight BY LengthsAreSent DEF IInv
<1>3. IInv => OutputIsExpansion BY OutputIs DEF IInv, DecoderInv, Types
<1>4. IInv => InflatesRight BY <1>1, <1>2, <1>3 DEF InflatesRight
<1> QED BY <1>4, SpecIInv, PTL
=============================================================================
