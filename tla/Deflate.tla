------------------------------ MODULE Deflate ------------------------------
(* What the deflate format says, as zip/inflate.c has it in its tables, and *)
(* what a list of code lengths means: the shared ground of the decoding     *)
(* tables (Huffman) and of the decompressor that looks codes up (Gunzip).   *)
(*                                                                          *)
(* A list of code lengths is a sequence: lens[t + 1] is the length of the   *)
(* code of symbol t, 0 if t has none.                                       *)
EXTENDS Integers, Sequences, FiniteSets, FiniteSetsExt

BMAX == 16              \* maximum bit length of any code
N_MAX == 288            \* maximum number of codes in any set

(* Order of the bit length code lengths. *)
border == << 16, 17, 18, 0, 8, 7, 9, 6, 10, 5, 11, 4, 12, 3, 13, 2, 14, 1, 15 >>

(* Base and extra bits of the copy lengths, literal codes 257 on, and of    *)
(* the distances; 99 extra bits make a code invalid.                        *)
cplens == << 3, 4, 5, 6, 7, 8, 9, 10, 11, 13, 15, 17, 19, 23, 27, 31, 35, 43, 51,
             59, 67, 83, 99, 115, 131, 163, 195, 227, 258, 0, 0 >>
cplext == << 0, 0, 0, 0, 0, 0, 0, 0, 1, 1, 1, 1, 2, 2, 2, 2, 3, 3, 3, 3,
             4, 4, 4, 4, 5, 5, 5, 5, 0, 99, 99 >>
cpdist == << 1, 2, 3, 4, 5, 7, 9, 13, 17, 25, 33, 49, 65, 97, 129, 193, 257, 385,
             513, 769, 1025, 1537, 2049, 3073, 4097, 6145, 8193, 12289, 16385, 24577 >>
cpdext == << 0, 0, 0, 0, 1, 1, 2, 2, 3, 3, 4, 4, 5, 5, 6, 6, 7, 7, 8, 8,
             9, 9, 10, 10, 11, 11, 12, 12, 13, 13 >>

(* The code lengths of a block with fixed codes: 288 literals and lengths,  *)
(* "a complete, but wrong code set", and 30 distances, an incomplete one.   *)
FixedLengths == [t \in 1 .. 288 |-> IF t <= 144 THEN 8 ELSE IF t <= 256 THEN 9
                                    ELSE IF t <= 280 THEN 7 ELSE 8]
FixedDistances == [t \in 1 .. 30 |-> 5]

----------------------------------------------------------------------------
Symbols(lens) == {t \in 0 .. Len(lens) - 1 : lens[t + 1] # 0}
Lengths(lens) == {lens[t + 1] : t \in Symbols(lens)}

(* Patterns of BMAX bits that begin with a code of the list. *)
Covered(lens) ==
  MapThenSumSet(LAMBDA n : Cardinality({t \in Symbols(lens) : lens[t + 1] = n})
                             * 2 ^ (BMAX - n),
                Lengths(lens))

Oversubscribed(lens) == Covered(lens) > 2 ^ BMAX
Incomplete(lens) == Covered(lens) < 2 ^ BMAX

(* What huft_build returns: 0 for a usable list, 1 for one that leaves      *)
(* patterns without a code, 2 for one with more codes than patterns.  A     *)
(* list with no code at all, and one with codes of length 1 only, is let    *)
(* through.                                                                 *)
Verdict(lens) ==
  CASE Symbols(lens) = {} -> 0
    [] Symbols(lens) # {} /\ Oversubscribed(lens) -> 2
    [] Symbols(lens) # {} /\ Incomplete(lens) /\ Lengths(lens) # {1} -> 1
    [] OTHER -> 0

(* Bits looked up at once when bits are asked for: *m as huft_build leaves  *)
(* it, within the shortest and the longest code.                            *)
LookupBits(lens, bits) ==
  IF Symbols(lens) = {} THEN 0
  ELSE Max({Min({bits, Max(Lengths(lens))}), Min(Lengths(lens))})
============================================================================
