------------------------------ MODULE IsoRock ------------------------------
(* What lib/isolib.c makes of one directory record: the names that match    *)
(* it, its type and size, and the text of a link, most of which the Rock    *)
(* Ridge entries in its system use area give.                               *)
(*                                                                          *)
(* The area is a sequence of entries [sig |-> ..., ...].  An entry "CE"     *)
(* names a continuation area, where the walk goes on when the entries at    *)
(* hand are used up; "ZERO" is an entry of length 0.  Names and link texts  *)
(* are sequences of short strings, each of which counts as one byte.        *)
EXTENDS Integers, Sequences, SequencesExt

CONSTANTS
  Lower,            \* Lower[u]: lower case of a part of a name
  CruftLimit,       \* 700000000: a larger file is taken for a defect
  CruftMod,         \* 2^24, what is left of a size after that
  NameMax,          \* 254, where a name is cut off
  MaxAreas          \* bound on the length of a chain of continuation areas

NoArea == "none"

(* Step, from the left, over a sequence. *)
Fold(Step(_, _), start, s) ==
  LET f[i \in 0 .. Len(s)] == IF i = 0 THEN start ELSE Step(f[i - 1], s[i])
  IN f[Len(s)]

(* One pass of the loop over the entries at hand.  A step may stop the loop *)
(* ("skip") or the walk ("out").                                            *)
Segment(Step(_, _), acc, entries) ==
  Fold(LAMBDA a, e : IF a.st = "run" THEN Step(a, e) ELSE a,
           [acc EXCEPT !.st = "run", !.cont = NoArea], entries)

(* The walk through an area and its continuations, MAYBE_CONTINUE: Text(c)  *)
(* is what the reader sees of the area that entry c names, bad the set of   *)
(* areas that cannot be read, and failed how the walk ends there.           *)
Walk(Step(_, _), Text(_), start, su, bad, failed) ==
  Fold(LAMBDA a, i :
             IF a.st \in {"out", "end"} \/ a.cont = NoArea THEN a
             ELSE IF a.cont \in bad THEN [a EXCEPT !.st = failed]
             ELSE Segment(Step, a, Text(a.cont)),
           Segment(Step, start, su), [i \in 1 .. MaxAreas |-> i])
-----------------------------------------------------------------------------
(* get_rock_ridge_filename: the parts of the name in the NM entries, << >>  *)
(* if there is none.                                                        *)

AppendName(a, part) ==
  LET whole == a.name \o part IN
  IF Len(whole) >= NameMax
  THEN [a EXCEPT !.name = SubSeq(whole, 1, NameMax), !.truncate = TRUE]
  ELSE [a EXCEPT !.name = whole]

(* NM entries for "." and ".." are passed over: the caller knows those. *)
NameStep(a, e) ==
  CASE e.sig = "ZERO" -> [a EXCEPT !.st = "skip"]
    [] \/ e.sig = "RR" /\ "NM" \notin e.flags
       \/ e.sig = "SP" /\ ~e.magic
       \/ e.sig = "RE" -> [a EXCEPT !.st = "out"]
    [] e.sig = "CE" -> [a EXCEPT !.cont = e.area]
    [] e.sig = "NM" /\ ~a.truncate /\ ~e.dots -> AppendName(a, e.name)
    [] OTHER -> a

(* chr = buffer + cont_offset, although the buffer was filled from          *)
(* cont_offset on: an area that starts later in its block is not seen, but  *)
(* whatever lies behind the buffer is.                                      *)
get_rock_ridge_filename(su, areas, heap, bad) ==
  LET Text(c) == IF areas[c].offset = 0 THEN areas[c].entries ELSE heap
      end == Walk(NameStep, Text,
                  [st |-> "run", cont |-> NoArea, name |-> << >>, truncate |-> FALSE],
                  su, bad, "out")
  IN IF end.st = "out" THEN << >> ELSE end.name
-----------------------------------------------------------------------------
(* Names of records without Rock Ridge: lower case, ";1" dropped, another   *)
(* ";" shown as a period.  A record's name << "0" >> is its directory,      *)
(* << "1" >> the parent.                                                    *)
Mapped(name) ==
  LET n == Len(name)
      bare == IF n >= 2 /\ name[n - 1] = ";" /\ name[n] = "1"
              THEN SubSeq(name, 1, n - 2) ELSE name
  IN [i \in DOMAIN bare |-> IF bare[i] = ";" THEN "." ELSE Lower[bare[i]]]

(* A trailing period need not be asked for. *)
Spellings(name) ==
  {Mapped(name)} \union
  IF Mapped(name) # << >> /\ Last(Mapped(name)) = "." THEN {Front(Mapped(name))} ELSE {}

(* iso_match, for a record shown as one of names. *)
iso_match(want, names) ==
  \/ want \in names
  \/ << "0" >> \in names /\ want \in {<< >>, << "." >>}
  \/ << "1" >> \in names /\ want = << ".." >>

Shown(r, rock, areas, heap, bad) ==
  LET rr == IF rock THEN get_rock_ridge_filename(r.su, areas, heap, bad) ELSE << >>
  IN IF rr # << >> THEN {rr} ELSE Spellings(r.name)
-----------------------------------------------------------------------------
(* The components of a link: text, "." (2), ".." (4), "/" (8), others. *)

CompText(c) ==
  CASE c.kind = "text" -> c.text
    [] c.kind = "cur" -> << "." >>
    [] c.kind = "par" -> << ".." >>
    [] c.kind = "root" -> << "/" >>
    [] OTHER -> << >>

(* Mutant: ".." does not count. *)
CompLenNoParent(c) ==
  CASE c.kind = "text" -> Len(c.text)
    [] c.kind \in {"cur", "root"} -> 1
    [] OTHER -> 0

CompLen(c) ==
  CASE c.kind = "text" -> Len(c.text)
    [] c.kind = "cur" -> 1
    [] c.kind = "par" -> 1               \* ".." is one short string here
    [] c.kind = "root" -> 1
    [] OTHER -> 0

(* Whether a slash follows component i of an SL entry: not within a         *)
(* component that is continued, and at the end only if another SL follows.  *)
Slash(sl, i) ==
  /\ ~sl.comps[i].more
  /\ IF i = Len(sl.comps) THEN sl.more ELSE sl.comps[i].kind # "root"

(* parse_rock_ridge_inode: type, number of links and size of the file. *)
ParseStep(a, e) ==
  CASE \/ e.sig = "ZERO"
       \/ e.sig = "RR" /\ e.flags \intersect {"PX", "TF", "SL", "CL"} = {}
       \/ e.sig = "SP" /\ ~e.magic
       \/ e.sig = "RE" -> [a EXCEPT !.st = "out"]
    [] e.sig = "CE" -> [a EXCEPT !.cont = e.area]
    [] e.sig = "PX" -> [a EXCEPT !.mode = e.mode, !.nlink = e.nlink]
    [] e.sig = "SL" ->
         LET len == Fold(LAMBDA n, i : n + CompLen(e.comps[i])
                                             + IF Slash(e, i) THEN 1 ELSE 0,
                             a.symlink_len, [i \in 1 .. Len(e.comps) |-> i])
         IN [a EXCEPT !.size = len, !.symlink_len = len]
    [] OTHER -> a

parse_rock_ridge_inode(su, areas, bad, mode, size) ==
  LET Text(c) == areas[c].entries
      end == Walk(ParseStep, Text,
                  [st |-> "run", cont |-> NoArea, mode |-> mode, nlink |-> 1,
                   size |-> size, symlink_len |-> 0], su, bad, "end")
  IN [mode |-> end.mode, nlink |-> end.nlink, size |-> end.size]

(* get_rock_ridge_symlink: the text of the link; NoText if there is none. *)
NoText == << "no text" >>

LinkStep(a, e) ==
  CASE \/ e.sig = "ZERO"
       \/ e.sig = "RR" /\ "SL" \notin e.flags
       \/ e.sig = "SP" /\ ~e.magic -> [a EXCEPT !.st = "out"]
    [] e.sig = "CE" -> [a EXCEPT !.cont = e.area]
    [] e.sig = "SL" /\ e.comps # << >> ->
         [a EXCEPT !.any = TRUE, !.text =
            Fold(LAMBDA t, i : t \o CompText(e.comps[i])
                                     \o IF Slash(e, i) THEN << "/" >> ELSE << >>,
                     a.text, [i \in 1 .. Len(e.comps) |-> i])]
    [] OTHER -> a

get_rock_ridge_symlink(su, areas, bad) ==
  LET Text(c) == areas[c].entries
      end == Walk(LinkStep, Text,
                  [st |-> "run", cont |-> NoArea, any |-> FALSE, text |-> << >>],
                  su, bad, "end")
  IN IF end.st = "out" \/ ~end.any THEN NoText ELSE end.text
-----------------------------------------------------------------------------
(* iso_iget: the size in the record, cut after a defect, and the type, both *)
(* as Rock Ridge has them if it is there.                                   *)
Defective(r) == r.size > CruftLimit

SizeField(r, cruft) ==
  IF r.interleave THEN 0
  ELSE IF cruft \/ Defective(r) THEN r.size % CruftMod ELSE r.size

TypeAndSize(r, rock, areas, cruft, bad) ==
  LET mode == IF r.dir THEN "dir" ELSE "file"
      size == SizeField(r, cruft)
  IN IF rock THEN parse_rock_ridge_inode(r.su, areas, bad, mode, size)
     ELSE [mode |-> mode, nlink |-> 1, size |-> size]
=============================================================================
