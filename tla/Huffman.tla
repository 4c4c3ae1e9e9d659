------------------------------ MODULE Huffman ------------------------------
(* huft_build of zip/inflate.c: from a list of code lengths to the linked   *)
(* tables that inflate_codes decodes with.  The loops of the function are   *)
(* the actions: one step per table made and one per code entered.           *)
(*                                                                          *)
(* A table is a function from patterns to entries; a pointer to a table is  *)
(* its number, in the order they are allocated.  The code in hand is i, its *)
(* first bit lowest, as it comes out of the bit buffer.                     *)
EXTENDS Deflate, SequencesExt

CONSTANT Inputs     \* arguments: lens (b and n), s, base and ext (d and e), m

VARIABLES
  in,               \* the arguments
  pc,
  c,                \* bit length count table
  g, l, y,          \* maximum length, bits per table, dummy codes added
  v, p,             \* values in order of bit length, and the next of them
  k, a,             \* length in hand, codes of that length left
  i,                \* the code in hand
  h, w,             \* table level, bits before this table
  q, z,             \* the current table and its number of entries
  u, x,             \* table stack, code stack
  tabs,             \* the tables made
  result            \* what is returned

vars == << in, pc, c, g, l, y, v, p, k, a, i, h, w, q, z, u, x, tabs, result >>

(* An entry nothing was written to, and one made from a v[] nothing was     *)
(* written to: each may be anything.                                        *)
Unset == [b |-> 0, e |-> -1, v |-> 0]
Junk(bits) == [b |-> bits, e |-> -2, v |-> 0]

Init ==
  /\ in \in Inputs
  /\ pc = "count"
  /\ c = << >> /\ g = 0 /\ l = 0 /\ y = 0
  /\ v = << >> /\ p = 1 /\ k = 0 /\ a = 0 /\ i = 0
  /\ h = -1 /\ w = 0 /\ q = 0 /\ z = 0
  /\ u = [n \in 0 .. BMAX - 1 |-> 0]
  /\ x = [n \in 0 .. BMAX |-> 0]
  /\ tabs = << >> /\ result = -1

N == Len(in.lens)
Counts == [n \in 0 .. BMAX |-> Cardinality({t \in 1 .. N : in.lens[t] = n})]

(* Mutant: y is not doubled from one length to the next. *)
LeftNoShift(cnt, from) ==
  LET left[n \in 0 .. BMAX] ==
        IF n < from THEN 2 ^ n ELSE IF n = from THEN 2 ^ n - cnt[n] ELSE left[n - 1] - cnt[n]
  IN left

(* Codes of length n left when those up to it are taken, per length from    *)
(* the shortest, from: negative when there are more codes than bits.        *)
Left(cnt, from) ==
  LET left[n \in 0 .. BMAX] ==
        IF n < from THEN 2 ^ n ELSE 2 * left[n - 1] - cnt[n]
  IN left

(* Mutant: no dummy codes. *)
FilledOutNot(cnt, m, n) == cnt

(* The last length m gets the patterns left, n of them, as dummy codes. *)
FilledOut(cnt, m, n) == [cnt EXCEPT ![m] = @ + n]

(* Count the lengths, bound *m by the shortest and the longest, and fill    *)
(* out the last length with dummy codes.                                    *)
Count ==
  /\ pc = "count"
  /\ \E cnt \in {Counts} :
       IF cnt[0] = N
       THEN /\ pc' = "done"
            /\ result' = 0
            /\ l' = 0
            /\ UNCHANGED << c, g, y, k >>
       ELSE \E j \in {Min({n \in 1 .. BMAX : cnt[n] # 0})},
               m \in {Max({n \in 1 .. BMAX : cnt[n] # 0})} :
              /\ l' = Min({Max({in.m, j}), m})
              /\ k' = j
              /\ g' = m
              /\ \E left \in {Left(cnt, j)} :
                   IF \E n \in j .. m : left[n] < 0
                   THEN pc' = "done" /\ result' = 2 /\ UNCHANGED << c, y >>
                   ELSE /\ pc' = "order"
                        /\ y' = left[m]
                        /\ c' = FilledOut(cnt, m, left[m])
                        /\ UNCHANGED result
  /\ UNCHANGED << in, v, p, a, i, h, w, q, z, u, x, tabs >>

(* Make a table of values in order of bit lengths; v[] has N elements and   *)
(* those behind the last value are left as they are.                        *)
Order ==
  /\ pc = "order"
  /\ v' = FlattenSeq([n \in 1 .. BMAX |->
             SelectSeq([t \in 1 .. N |-> t - 1], LAMBDA t : in.lens[t + 1] = n)])
  /\ a' = c[k]
  /\ w' = -l
  /\ pc' = "codes"
  /\ UNCHANGED << in, c, g, l, y, p, k, i, h, q, z, u, x, tabs, result >>

(* Bits of a new table that starts after before bits: as few as use up the  *)
(* codes left, starting from the length in hand.                            *)
TableBits(before) ==
  LET upper == Min({g - before, l})
      try[j \in 0 .. BMAX + 1, f \in Int] ==     \* f patterns left of j - 1 bits
        IF j >= upper THEN j
        ELSE IF 2 * f <= c[before + j] THEN j
        ELSE try[j + 1, 2 * f - c[before + j]]
      first == k - before
  IN  IF 2 ^ first > a THEN try[first + 1, 2 ^ first - a] ELSE first

(* Make tables up to the required level, and link each to the one before. *)
MakeTable ==
  /\ pc = "codes"
  /\ a > 0
  /\ k > w + l
  /\ h' = h + 1
  /\ w' = w + l
  /\ q' = Len(tabs) + 1
  /\ u' = [u EXCEPT ![h + 1] = Len(tabs) + 1]
  /\ \E j \in {TableBits(w + l)} :
       /\ z' = 2 ^ j
       /\ LET new == [n \in 0 .. 2 ^ j - 1 |-> Unset]
              link == [b |-> l, e |-> 16 + j, v |-> Len(tabs) + 1]
          IN IF h = -1
             THEN /\ tabs' = Append(tabs, new)
                  /\ UNCHANGED x
             ELSE /\ tabs' = Append([tabs EXCEPT ![u[h]][i \div 2 ^ w] = link], new)
                  /\ x' = [x EXCEPT ![h + 1] = i]
  /\ UNCHANGED << in, pc, c, g, l, y, v, p, k, a, i, result >>

EntryOf(bits) ==
  IF v[p] < in.s
  THEN [b |-> bits, e |-> IF v[p] < 256 THEN 16 ELSE 15, v |-> v[p]]
  ELSE [b |-> bits, e |-> in.ext[v[p] - in.s + 1], v |-> in.base[v[p] - in.s + 1]]

(* Mutants: no entry is invalid; an entry takes the bits of the whole code. *)
EntryNoInvalid == IF p > Len(v) THEN Junk(k - w) ELSE EntryOf(k - w)
EntryWholeLength ==
  CASE p > N -> [b |-> k, e |-> 99, v |-> 0]
    [] p \in Len(v) + 1 .. N -> Junk(k)
    [] p <= Len(v) -> EntryOf(k)

(* The entry of the code in hand: an invalid one when p has gone past all N *)
(* elements of v[].                                                         *)
Entry ==
  CASE p > N -> [b |-> k - w, e |-> 99, v |-> 0]
    [] p \in Len(v) + 1 .. N -> Junk(k - w)
    [] p <= Len(v) -> EntryOf(k - w)

Bit(n, j) == (n \div 2 ^ j) % 2
(* Mutant: the code is incremented at its near end. *)
BackwardsIncrementForward(code) == code + 1

(* The k-bit code after code, added at the far end: the ones from bit k - 1 *)
(* down are cleared and the zero below them is set.                         *)
BackwardsIncrement(code) ==
  LET ones == Max({n \in 0 .. k : \A j \in k - n .. k - 1 : Bit(code, j) = 1})
  IN  code - (2 ^ k - 2 ^ (k - ones)) + (IF ones < k THEN 2 ^ (k - ones - 1) ELSE 0)

(* The level to go on at: back up over finished tables. *)
BackUp(code) ==
  Max({n \in 0 .. h : code % 2 ^ (l * n) = x[n]})

(* Fill code-like entries of the current table and go on to the next code. *)
Fill ==
  /\ pc = "codes"
  /\ a > 0
  /\ k <= w + l
  /\ \E r \in {Entry} :
       tabs' = [tabs EXCEPT ![q] =
                 [n \in DOMAIN @ |->
                    IF /\ n \in i \div 2 ^ w .. z - 1
                       /\ (n - i \div 2 ^ w) % 2 ^ (k - w) = 0
                    THEN r ELSE @[n]]]
  /\ p' = IF p > N THEN p ELSE p + 1
  /\ i' = BackwardsIncrement(i)
  /\ h' = BackUp(BackwardsIncrement(i))
  /\ w' = l * BackUp(BackwardsIncrement(i))
  /\ a' = a - 1
  /\ UNCHANGED << in, pc, c, g, l, y, v, k, q, z, u, x, result >>

(* Mutant: the length is not incremented. *)
NextLengthSame ==
  /\ pc = "codes"
  /\ a = 0
  /\ a' = c[k]
  /\ UNCHANGED << in, pc, c, g, l, y, v, p, k, i, h, w, q, z, u, x, tabs, result >>

NextLength ==
  /\ pc = "codes"
  /\ a = 0
  /\ IF k < g
     THEN /\ k' = k + 1
          /\ a' = c[k + 1]
          /\ UNCHANGED << pc, result >>
     ELSE /\ pc' = "done"
          /\ result' = IF y # 0 /\ g # 1 THEN 1 ELSE 0
          /\ UNCHANGED << k, a >>
  /\ UNCHANGED << in, c, g, l, y, v, p, i, h, w, q, z, u, x, tabs >>

Next == Count \/ Order \/ MakeTable \/ Fill \/ NextLength
Spec == Init /\ [][Next]_vars /\ WF_vars(Next)

----------------------------------------------------------------------------
(* Looking a pattern up, as inflate_codes does: the entry it ends at and    *)
(* the bits it takes.                                                       *)
RECURSIVE Lookup(_, _, _, _)
Lookup(t, bits, pattern, taken) ==
  LET n == pattern % 2 ^ bits
  IN  IF t \notin DOMAIN tabs \/ n \notin DOMAIN tabs[t]
      THEN [entry |-> Unset, bits |-> taken]
      ELSE IF tabs[t][n].e > 16 /\ tabs[t][n].e # 99
           THEN Lookup(tabs[t][n].v, tabs[t][n].e - 16,
                       pattern \div 2 ^ tabs[t][n].b, taken + tabs[t][n].b)
           ELSE [entry |-> tabs[t][n], bits |-> taken + tabs[t][n].b]

(* The code of symbol t: symbols are ordered by length and then by number,  *)
(* each taking the next code of its length; its first bit comes first.      *)
CodeNumber(lens, t) ==
  MapThenSumSet(LAMBDA r : 2 ^ (lens[t + 1] - lens[r + 1]),
                {r \in Symbols(lens) : \/ lens[r + 1] < lens[t + 1]
                                       \/ lens[r + 1] = lens[t + 1] /\ r < t})
Reversed(n, bits) ==
  MapThenSumSet(LAMBDA j : Bit(n, j) * 2 ^ (bits - 1 - j), 0 .. bits - 1)
Codes(lens) ==
  [t \in Symbols(lens) |-> Reversed(CodeNumber(lens, t), lens[t + 1])]

(* What a symbol stands for, by the rule the tables of lengths and          *)
(* distances follow: extra bits grow by one every four lengths or every two *)
(* distances, and the ranges lie one behind the other.                      *)
Meaning(t) ==
  LET n == t - in.s
      len == IF n < 8 THEN << 0, 3 + n >>
             ELSE IF n < 28 THEN << n \div 4 - 1, 3 + (4 + (n % 4)) * 2 ^ (n \div 4 - 1) >>
             ELSE IF n = 28 THEN << 0, 258 >> ELSE << 99, 0 >>
      dist == IF n < 4 THEN << 0, n + 1 >>
              ELSE << n \div 2 - 1, 1 + (2 + (n % 2)) * 2 ^ (n \div 2 - 1) >>
  IN  IF t < in.s THEN << IF t < 256 THEN 16 ELSE 15, t >>
      ELSE IF in.s = 257 THEN len ELSE dist

Built == pc = "done" /\ tabs # << >>

----------------------------------------------------------------------------
(* Types, and the indices of huft_build: the code in hand has k bits, the   *)
(* levels lie within u[] and x[], and every link and entry is written       *)
(* inside its table.                                                        *)
TypeOK ==
  /\ pc \in {"count", "order", "codes", "done"}
  /\ result \in -1 .. 2
  /\ h \in -1 .. BMAX - 1
  /\ l \in 0 .. BMAX /\ g \in 0 .. BMAX /\ k \in 0 .. BMAX
  /\ pc = "codes" => i \in 0 .. 2 ^ k - 1
  /\ p \in 1 .. N + 1
  /\ \A t \in DOMAIN tabs : \E n \in 0 .. BMAX : DOMAIN tabs[t] = 0 .. 2 ^ n - 1

(* huft_build tells a complete list from an incomplete and from an          *)
(* oversubscribed one, as Kraft's sum does, whatever the order and the gaps *)
(* of the lengths; and leaves in *m the bits its first table is looked up   *)
(* with.                                                                    *)
ResultRight ==
  pc = "done" => result = Verdict(in.lens) /\ l = LookupBits(in.lens, in.m)

(* Whatever bits follow it, the code of every symbol leads through the      *)
(* linked tables to that symbol's entry and takes exactly its own bits.     *)
DecodesEverySymbol ==
  Built =>
    \E codes \in {Codes(in.lens)} :
      \A t \in DOMAIN codes : \A pad \in 0 .. 2 ^ (g - in.lens[t + 1]) - 1 :
        \E r \in {Lookup(1, l, codes[t] + pad * 2 ^ in.lens[t + 1], 0)} :
          /\ << r.entry.e, r.entry.v >> = Meaning(t)
          /\ r.bits = in.lens[t + 1]

(* No pattern of bits leads to an entry that was never written: the tables  *)
(* come from malloc as the memory was.                                      *)
NoEntryUnset ==
  Built => \A n \in 0 .. 2 ^ g - 1 : Lookup(1, l, n, 0).entry # Unset

(* A pattern that begins with no code of the list is an invalid code, 99,   *)
(* on which inflate_codes gives up, if the list gives every symbol a code,  *)
(* as the fixed distances do.  For others p >= v + n counts symbols where v *)
(* has values, and what malloc left in v is taken for a symbol.             *)
Unassigned(codes, n) == \A t \in DOMAIN codes : n % 2 ^ in.lens[t + 1] # codes[t]
UnusedIsInvalid ==
  Built /\ (\A t \in DOMAIN in.lens : in.lens[t] # 0) =>
    \E codes \in {Codes(in.lens)} :
      \A n \in 0 .. 2 ^ g - 1 :
        Unassigned(codes, n) => Lookup(1, l, n, 0).entry.e = 99

(* The loops of huft_build end. *)
Ends == <>(pc = "done")

(* huft_build: its verdict on the list is right, every pattern of bits      *)
(* leads to an entry that was written, a code to its symbol, and anything   *)
(* else, where the code provides for it, to the invalid one.                *)
BuildsRight ==
  TypeOK /\ ResultRight /\ NoEntryUnset /\ UnusedIsInvalid /\ DecodesEverySymbol
============================================================================
