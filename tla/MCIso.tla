------------------------------- MODULE MCIso -------------------------------
(* Five discs and one that is none, in blocks of four cells: Rock Ridge,    *)
(* plain ISO 9660, and Rock Ridge with a link to itself, with a name that   *)
(* goes on behind the beginning of a sector and with a full directory.      *)
EXTENDS Iso

Record(len, name, isdir, extent, size, su, known, link) ==
  [len |-> len, name |-> name, dir |-> isdir, hidden |-> FALSE, extent |-> extent,
   size |-> size, interleave |-> FALSE, su |-> su, known |-> known, link |-> link]

NM(name) == [sig |-> "NM", dots |-> FALSE, name |-> name]
NMDots == [sig |-> "NM", dots |-> TRUE, name |-> << >>]
PX(mode) == [sig |-> "PX", mode |-> mode, nlink |-> 1]
CE(a) == [sig |-> "CE", area |-> a]
RRIP(flags) == [sig |-> "RR", flags |-> flags]
SP == [sig |-> "SP", magic |-> TRUE]
Other == [sig |-> "ER"]
SL(comps, more) == [sig |-> "SL", comps |-> comps, more |-> more]
Comp(kind, text, more) == [kind |-> kind, text |-> text, more |-> more]
Text(t) == Comp("text", t, FALSE)

(* A record of l cells. *)
Cells(r, l) == [k \in 1 .. l |-> << r, k - 1 >>]
Zeros(n) == [k \in 1 .. n |-> << >>]

DotDir(extent, size) == Record(1, << "0" >>, TRUE, extent, size,
                               << PX("dir"), NMDots >>, {}, << >>)
DotDot(extent, size) == Record(1, << "1" >>, TRUE, extent, size,
                               << PX("dir"), NMDots >>, {}, << >>)
Dir(name, rr, extent, size) ==
  Record(1, name, TRUE, extent, size, << RRIP({"PX", "NM"}), PX("dir"), NM(rr) >>, {rr}, << >>)
File(len, name, rr, extent, size) ==
  Record(len, name, FALSE, extent, size, << RRIP({"PX", "NM"}), PX("file"), NM(rr) >>,
         {rr}, << >>)
Link(len, name, rr, sl, text) ==
  Record(len, name, FALSE, 0, 0,
         << RRIP({"PX", "NM", "SL"}), PX("link"), NM(rr) >> \o sl, {rr}, text)

(* "/" has a directory of one sector, in which the record of the link       *)
(* vmlinuz -> boot/k spans the two blocks; /boot has two sectors, and in    *)
(* the first one the record of k ends with the first block.                 *)
RockDisc ==
  [vds |-> << [id |-> "other", primary |-> FALSE, zone |-> 0, root |-> 0],
              [id |-> "CD001", primary |-> TRUE, zone |-> 8, root |-> 1] >>,
   cell |-> Zeros(8)
     \o Cells("dot", 1) \o Cells("dotdot", 1) \o Cells("boot", 1) \o Cells("vmlinuz", 2)
     \o Cells("conf", 1) \o Zeros(2)
     \o Cells("bdot", 1) \o Cells("bdotdot", 1) \o Cells("k", 2) \o Zeros(4)
     \o Cells("hid", 1) \o Cells("ln", 1) \o Cells("long", 1) \o Zeros(5)
     \o Zeros(24),
   rec |->
     [dot |-> [DotDir(1, 8) EXCEPT !.su = << SP, PX("dir"), CE("er") >>],
      dotdot |-> DotDot(1, 8),
      boot |-> Dir(<< "BOOT" >>, << "boot" >>, 2, 16),
      vmlinuz |-> Link(2, << "VML", ";", "1" >>, << "vm" >>,
                       << SL(<< Text(<< "boot" >>), Text(<< "k" >>) >>, FALSE) >>,
                       << "boot", "/", "k" >>),
      conf |-> File(1, << "CONF", ";", "1" >>, << "co", "nf" >>, 5, 4),
      bdot |-> DotDir(2, 16),
      bdotdot |-> DotDot(1, 8),
      k |-> File(2, << "K", ".", ";", "1" >>, << "k" >>, 4, 5),
      hid |-> [File(1, << "HID" >>, << "hid" >>, 6, 2) EXCEPT !.hidden = TRUE],
      ln |-> Link(1, << "LN" >>, << "ln" >>,
                  << CE("sl"), SL(<< Comp("par", << >>, FALSE) >>, TRUE) >>,
                  << "..", "/", "co", "nf" >>),
      long |-> [File(1, << "LONG" >>, << "lo" >>, 6, 3) EXCEPT
                  !.su = << PX("file"), NM(<< "lo" >>), CE("nm") >>,
                  !.known = {<< "lo", "ng" >>}]],
   area |-> [er |-> [offset |-> 0, entries |-> << Other >>],
             sl |-> [offset |-> 0, entries |-> << SL(<< Comp("text", << "co" >>, TRUE),
                                                        Text(<< "nf" >>) >>, FALSE) >>],
             nm |-> [offset |-> 0, entries |-> << NM(<< "ng" >>), NM(<< "er" >>) >>]]]

(* Without Rock Ridge: names in upper case with a version, one file of more *)
(* than CruftMod, one of an impossible size, and an interleaved one.        *)
PlainRecord(len, name, isdir, extent, size, known) ==
  Record(len, name, isdir, extent, size, << >>, known, << >>)
PlainDisc ==
  [vds |-> << [id |-> "CD001", primary |-> TRUE, zone |-> 4, root |-> 2] >>,
   cell |-> Zeros(8)
     \o Cells("dot", 1) \o Cells("dotdot", 1) \o Cells("big", 1) \o Zeros(5)
     \o Cells("odd", 3) \o Cells("conf", 1) \o Cells("int", 1) \o Zeros(3)
     \o Zeros(12),
   rec |->
     [dot |-> PlainRecord(1, << "0" >>, TRUE, 2, 16, {}),
      dotdot |-> PlainRecord(1, << "1" >>, TRUE, 2, 16, {}),
      big |-> PlainRecord(1, << "K", ".", ";", "1" >>, FALSE, 6, 40,
                          {<< "k" >>, << "k", "." >>}),
      odd |-> PlainRecord(3, << "HID", ";", "2" >>, FALSE, 7, 70, {<< "hid", ".", "2" >>}),
      conf |-> PlainRecord(1, << "CONF", ";", "1" >>, FALSE, 8, 4, {<< "conf" >>}),
      int |-> [PlainRecord(1, << "LN" >>, FALSE, 7, 3, {<< "ln" >>})
                 EXCEPT !.interleave = TRUE]],
   area |-> << >>]

LoopDisc ==
  [vds |-> << [id |-> "CD001", primary |-> TRUE, zone |-> 8, root |-> 1] >>,
   cell |-> Zeros(8)
     \o Cells("dot", 1) \o Cells("dotdot", 1) \o Cells("vm", 1) \o Cells("conf", 1) \o Zeros(4),
   rec |->
     [dot |-> DotDir(1, 8), dotdot |-> DotDot(1, 8),
      vm |-> Link(1, << "VM" >>, << "vm" >>,
                  << SL(<< Comp("root", << >>, FALSE), Text(<< "vm" >>) >>, FALSE) >>,
                  << "/", "vm" >>),
      conf |-> File(1, << "CONF" >>, << "conf" >>, 0, 0)],
   area |-> << >>]

(* The loop's disc with a name that goes on in an area at offset 1. *)
FarDisc ==
  [LoopDisc EXCEPT
     !.rec.vm = [File(1, << "VM" >>, << "lo" >>, 0, 0) EXCEPT
                   !.su = << PX("file"), NM(<< "lo" >>), CE("nm") >>,
                   !.known = {<< "lo", "ng" >>}],
     !.area = [nm |-> [offset |-> 1, entries |-> << NM(<< "ng" >>) >>]]]

(* A directory of one sector that is full.  The record of conf ends the     *)
(* first half, and of the second half all but the last record is kept.      *)
FullDisc ==
  [vds |-> << [id |-> "CD001", primary |-> TRUE, zone |-> 8, root |-> 1] >>,
   cell |-> Zeros(8)
     \o Cells("dot", 1) \o Cells("dotdot", 1) \o Cells("vm", 1) \o Cells("conf", 1)
     \o Cells("k", 1) \o Cells("hid", 1) \o Cells("ln", 1) \o Cells("long", 1) \o Zeros(8),
   rec |->
     [dot |-> DotDir(1, 8), dotdot |-> DotDot(1, 8),
      vm |-> File(1, << "VM" >>, << "vm" >>, 2, 3),
      conf |-> File(1, << "CONF" >>, << "co", "nf" >>, 2, 4),
      k |-> File(1, << "K" >>, << "k" >>, 2, 5),
      hid |-> File(1, << "HID" >>, << "hid" >>, 2, 1),
      ln |-> File(1, << "LN" >>, << "ln" >>, 2, 2),
      long |-> File(1, << "LONG" >>, << "lo", "ng" >>, 2, 8)],
   area |-> << >>]

HighSierra == [PlainDisc EXCEPT !.vds = << [id |-> "CDROM", primary |-> FALSE, zone |-> 8, root |-> 1] >>]

MCHeapTexts == {<< >>, << NM(<< "no" >>) >>}

MCDiscs == {"rock", "plain", "loop", "far", "full", "none"}
MCDisc == [rock |-> RockDisc, plain |-> PlainDisc, loop |-> LoopDisc,
           far |-> FarDisc, full |-> FullDisc, none |-> HighSierra]

MCLower == [u \in {"BOOT", "VML", "VM", "CONF", "K", "HID", "LN", "LONG", ".", "1", "2",
                   "0", ";"} |->
              CASE u = "BOOT" -> "boot" [] u = "VML" -> "vml" [] u = "VM" -> "vm"
                [] u = "CONF" -> "conf" [] u = "K" -> "k" [] u = "HID" -> "hid"
                [] u = "LN" -> "ln" [] u = "LONG" -> "long" [] OTHER -> u]

MCRequests ==
  { << "/" >>, << "vm" >>, << "/", "boot" >>, << "/", "boot", "/", "k" >>,
    << "/", "boot", "/", "ln" >>, << "/", "no", "/", "conf" >>, << "k" >>,
    << "/", "boot", "/", "lo", "ng" >>, << "hid", ".", "2" >>,
    << "ln" >>, << "lo", "ng" >>, << "boot", "/", "..", "/", "co", "nf" >> }
=============================================================================
