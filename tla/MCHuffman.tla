----------------------------- MODULE MCHuffman -----------------------------
(* huft_build on the two lists of inflate_fixed as they are, on every list  *)
(* of up to MaxSymbols distance codes, and on longer ones that need several *)
(* levels of tables.  As for the callers of huft_build, there are fewer     *)
(* symbols than patterns of the bits asked for, except in the fixed lists.  *)
EXTENDS Huffman

CONSTANT MaxSymbols, MaxLength, Bits

Literals(lens, m) == [lens |-> lens, s |-> 257, base |-> cplens, ext |-> cplext, m |-> m]
Distances(lens, m) == [lens |-> lens, s |-> 0, base |-> cpdist, ext |-> cpdext, m |-> m]
BitLengths(lens, m) == [lens |-> lens, s |-> Len(lens), base |-> << >>, ext |-> << >>, m |-> m]

(* Codes of 1, 2, ... bits, the longest twice: levels - 1 links on the way. *)
Staircase(n) == [t \in 1 .. n |-> IF t = n THEN n - 1 ELSE t]

MCInputs ==
  {Literals(FixedLengths, 7), Distances(FixedDistances, 5)}
    \cup {Distances(lens, Bits) :
            lens \in UNION {[1 .. n -> 0 .. MaxLength] : n \in 1 .. MaxSymbols}}
    \cup {BitLengths(Staircase(12), 4),
          BitLengths(Reverse(Staircase(12)), 4),
          BitLengths(<< 6, 2, 6, 0, 3, 6, 7, 1, 7, 6 >>, 4),
          BitLengths(<< 5, 5, 5, 5, 5, 5, 5, 5, 2, 2, 2 >>, 4),
          Literals([t \in 1 .. 259 |-> IF t \in {1, 66, 68} THEN 3
                                       ELSE IF t = 257 THEN 3 ELSE IF t = 258 THEN 1 ELSE 0], 9)}
============================================================================
