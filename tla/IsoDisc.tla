------------------------------ MODULE IsoDisc ------------------------------
(* What an ISO 9660 disc holds and what names on it stand for, from its     *)
(* contents: a record's known names and its link text are what its author   *)
(* meant, whatever the driver makes of the record's fields.  And which      *)
(* discs the driver is meant for.                                           *)
(*                                                                          *)
(* A disc is an array of cells, BlockCells to a block of 1024 bytes and     *)
(* twice that to a sector of 2048.  A cell is a part << r, k >> of          *)
(* directory record r, or zero, << >>.  Positions and sizes are counted in  *)
(* cells.                                                                   *)
EXTENDS IsoRock, FiniteSets

CONSTANTS
  Discs, Disc,      \* Disc[d]: vds, cell, rec, area
  BlockCells,       \* sb.s_blocksize
  HeapTexts,        \* what may lie in the memory behind a buffer
  Requests,         \* names the boot loop opens
  MaxHops           \* bound on the links in a chain

SectorCells == 2 * BlockCells

(* The first volume descriptor of a known standard decides; it must be      *)
(* primary, and its logical block size one of three.                        *)
Descriptors(d) == {i \in DOMAIN d.vds : d.vds[i].id \in {"CDROM", "CD001"}}
Known(d, i) == i \in Descriptors(d) /\ \A j \in Descriptors(d) : i <= j

SuperOk(d) ==
  \E i \in DOMAIN d.vds :
    /\ Known(d, i) /\ d.vds[i].primary
    /\ d.vds[i].zone \in {BlockCells \div 2, BlockCells, SectorCells}

(* High Sierra, "CDROM", has no Rock Ridge. *)
Volume(d) == d.vds[CHOOSE i \in DOMAIN d.vds : Known(d, i)]
Zone(d) == Volume(d).zone
Rock(d) == Volume(d).id = "CD001"
RootPlace(d) == Volume(d).root * Zone(d)

(* Whether a name goes on in an area behind the beginning of a sector.      *)
(* Such a name is not seen: get_rock_ridge_filename adds cont_offset to a   *)
(* buffer that starts there already.                                        *)
FarName(d, r) ==
  \E k \in DOMAIN d.rec[r].su :
    LET e == d.rec[r].su[k] IN e.sig = "CE" /\ d.area[e.area].offset # 0
-----------------------------------------------------------------------------
(* Directories *)

NoRec == "none"

Place(d, r) == d.rec[r].extent * Zone(d)
CellOf(d, r, p) == d.cell[Place(d, r) + p + 1]
Begins(c) == c # << >> /\ c[2] = 0
StartsIn(d, r) == {p \in 0 .. d.rec[r].size - 1 : Begins(CellOf(d, r, p))}
Members(d, r) == {CellOf(d, r, p)[1] : p \in StartsIn(d, r)}

(* A directory has several records: one in its parent, its own "." and a    *)
(* ".." in each of its subdirectories.  It is known by its own.             *)
Home(d, r) == IF d.rec[r].dir THEN CellOf(d, r, 0)[1] ELSE r

Stands(d, r, n) ==
  IF n = << ".." >> THEN d.rec[r].name = << "1" >>
  ELSE n \in d.rec[r].known /\ ~d.rec[r].hidden

Child(d, r, n) ==
  IF r = NoRec \/ ~d.rec[r].dir THEN NoRec
  ELSE IF n \in {<< >>, << "." >>} THEN r
  ELSE LET cs == {c \in Members(d, r) : Stands(d, c, n)}
       IN IF cs = {} THEN NoRec ELSE Home(d, CHOOSE c \in cs : TRUE)
-----------------------------------------------------------------------------
(* Names *)

(* The parts of a name between slashes. *)
Split(name) ==
  Fold(LAMBDA parts, u :
             IF u = "/" THEN Append(parts, << >>)
             ELSE [parts EXCEPT ![Len(parts)] = Append(@, u)],
           << << >> >>, name)

RootRec(d) == d.cell[RootPlace(d) + 1][1]
Down(d, r, comps) == Fold(LAMBDA a, n : Child(d, a, n), r, comps)
Reached(d, comps) == Down(d, RootRec(d), comps)

(* A link stands for its text, seen from the directory the link is in. *)
LinkOf(d, r) == IF r = NoRec THEN << >> ELSE d.rec[r].link
Absolute(link) == link # << >> /\ Head(link) = "/"
Hop(d, comps) ==
  LET link == LinkOf(d, Reached(d, comps)) IN
  IF link = << >> THEN comps
  ELSE IF Absolute(link) THEN Split(link) ELSE Front(comps) \o Split(link)

Chain(d, name) ==
  LET c[i \in 0 .. MaxHops] == IF i = 0 THEN Split(name) ELSE Hop(d, c[i - 1])
  IN c
Target(d, name) == Reached(d, Chain(d, name)[MaxHops])
Circular(d, r) == LinkOf(d, r) # << >>
-----------------------------------------------------------------------------
(* Listings *)

Dots(d, r) == d.rec[r].name \in {<< "0" >>, << "1" >>}
VisibleIn(d, r) ==
  {p \in StartsIn(d, r) : LET m == CellOf(d, r, p)[1] IN ~Dots(d, m) /\ ~d.rec[m].hidden}

(* Only a name that Rock Ridge gives is listed.  get_rock_ridge_filename    *)
(* returns 0 for a record without one, and that 0 is then the length of the *)
(* record's own name.                                                       *)
HasNM(d, r) ==
  Rock(d) /\ \E heap \in HeapTexts : get_rock_ridge_filename(d.rec[r].su, d.area, heap, {}) # << >>
Listed(d, r) == {p \in VisibleIn(d, r) : HasNM(d, CellOf(d, r, p)[1])}

(* The records that reach the end of a sector's first half.  Only a block's *)
(* length from there is copied back to data_block, less the record itself:  *)
(* what comes later in the sector is lost, unless it is all zero.           *)
LenAt(d, r, p) == d.rec[CellOf(d, r, p)[1]].len
Lossy(d, r) ==
  {p \in StartsIn(d, r) :
     /\ p % SectorCells < BlockCells /\ (p % SectorCells) + LenAt(d, r, p) >= BlockCells
     /\ CellOf(d, r, p + BlockCells - 1) # << >>}
Legible(d, r, p) == \A q \in Lossy(d, r) : p + LenAt(d, r, p) <= q + BlockCells
-----------------------------------------------------------------------------
(* The discs the driver is meant for *)

IsSeq(s) == s \in Seq({s[i] : i \in DOMAIN s})

EntriesSound(d, su) ==
  /\ IsSeq(su)
  /\ \A k \in DOMAIN su :
       /\ su[k].sig = "CE" => su[k].area \in DOMAIN d.area
       /\ su[k].sig = "PX" => su[k].mode \in {"dir", "file", "link"}
       /\ su[k].sig = "SL" =>
            /\ IsSeq(su[k].comps)
            /\ \A i \in DOMAIN su[k].comps :
                 su[k].comps[i].kind = "text" => IsSeq(su[k].comps[i].text)

(* Extents are on the disc and begin with a block, although with logical    *)
(* blocks of 512 bytes the standard does not ask for that.                  *)
RecordsSound(d) ==
  /\ NoRec \notin DOMAIN d.rec
  /\ \A m \in DOMAIN d.rec :
       /\ d.rec[m].len \in Nat \ {0} /\ d.rec[m].extent \in Nat /\ d.rec[m].size \in Nat
       /\ Place(d, m) % BlockCells = 0 /\ Place(d, m) < Len(d.cell)
       /\ {d.rec[m].dir, d.rec[m].hidden, d.rec[m].interleave} \subseteq BOOLEAN
       /\ EntriesSound(d, d.rec[m].su)
  /\ \A a \in DOMAIN d.area : EntriesSound(d, d.area[a].entries)
  /\ IsSeq(d.cell) /\ d.cell # << >>
  /\ \A i \in DOMAIN d.cell : d.cell[i] # << >> => d.cell[i][1] \in DOMAIN d.rec

(* A directory has whole sectors; the records in one follow one another and *)
(* the rest of it is zero.  Its first record is its own.                    *)
DirSound(d, r) ==
  LET At(p) == CellOf(d, r, p)
      size == d.rec[r].size
      Same(p, q) == p \div SectorCells = q \div SectorCells
  IN /\ Place(d, r) > 0 /\ Place(d, r) % SectorCells = 0 /\ Place(d, r) + size <= Len(d.cell)
     /\ size > 0 /\ size % SectorCells = 0 /\ size < CruftMod /\ size <= CruftLimit
     /\ ~d.rec[r].interleave /\ ~FarName(d, r)
     /\ Begins(At(0)) /\ d.rec[At(0)[1]].name = << "0" >> /\ ~d.rec[At(0)[1]].hidden
     /\ d.rec[At(0)[1]].dir
     /\ d.rec[At(0)[1]].extent = d.rec[r].extent /\ d.rec[At(0)[1]].size = size
     /\ \A p \in 0 .. size - 1 :
          /\ At(p) = << >> => \A q \in p .. size - 1 : Same(p, q) => At(q) = << >>
          /\ Begins(At(p)) =>
               LET m == At(p)[1]
                   next == p + d.rec[m].len
               IN /\ (p % SectorCells) + d.rec[m].len <= SectorCells
                  /\ \A q \in p + 1 .. next - 1 : At(q) = << m, q - p >>
                  /\ next % SectorCells = 0 \/ At(next) = << >> \/ Begins(At(next))
          /\ p % SectorCells = 0 => At(p) = << >> \/ Begins(At(p))

(* Other files hold nothing that looks like a record. *)
Extent(d, r) == IF d.rec[r].link = << >> THEN d.rec[r].size ELSE Len(d.rec[r].link)
FileSound(d, r) ==
  \A p \in 0 .. Extent(d, r) - 1 :
    Place(d, r) + p + 1 \in DOMAIN d.cell => CellOf(d, r, p) = << >>

RootSound(d) ==
  /\ IsSeq(d.vds) /\ Volume(d).root \in Nat
  /\ RootPlace(d) + 1 \in DOMAIN d.cell /\ Begins(d.cell[RootPlace(d) + 1])
  /\ d.rec[RootRec(d)].dir /\ Place(d, RootRec(d)) = RootPlace(d)

(* The parts of names that are asked for. *)
Parts(name) == LET s == Split(name) IN {s[i] : i \in DOMAIN s}
Asked(d) ==
  UNION {Parts(name) : name \in Requests \union {d.rec[m].link : m \in DOMAIN d.rec}}

Meant(d, r, n) ==
  IF n \in {<< >>, << "." >>} THEN d.rec[r].name = << "0" >> ELSE Stands(d, r, n)

(* Each record shows the names that are known, no two in a directory the    *)
(* same, and where a name goes on too far, none that is asked for.  The     *)
(* parent of the root is the root.                                          *)
NamesSound(d, r) ==
  /\ \A m \in Members(d, r) :
       /\ d.rec[m].name # << >>
       /\ Dots(d, m) => d.rec[m].dir /\ ~d.rec[m].hidden /\ d.rec[m].known = {}
       /\ d.rec[m].name = << "1" >> /\ Place(d, r) = RootPlace(d) => Place(d, m) = RootPlace(d)
       /\ \A heap \in HeapTexts :
            /\ ~d.rec[m].hidden => \A n \in Asked(d) :
                 LET shown == iso_match(n, Shown(d.rec[m], Rock(d), d.area, heap, {})) IN
                 (shown => Meant(d, m, n)) /\ (Meant(d, m, n) => shown \/ FarName(d, m))
            /\ ~Dots(d, m) /\ HasNM(d, m) =>
                 LET name == get_rock_ridge_filename(d.rec[m].su, d.area, heap, {}) IN
                 name # << >> /\ (name \in d.rec[m].known \/ FarName(d, m))
  /\ \A m, o \in Members(d, r) : \A n \in Asked(d) :
       Stands(d, m, n) /\ Stands(d, o, n) => m = o

(* The mark of a directory that was moved ends one of the two walks over a  *)
(* link's record.                                                           *)
NotMoved(su) == \A k \in DOMAIN su : su[k].sig # "RE"

LinkSound(d, r) ==
  LET f(cruft) == TypeAndSize(d.rec[r], Rock(d), d.area, cruft, {})
      link == d.rec[r].link
  IN /\ IsSeq(link) /\ link # NoText
     /\ link = << >> => \A cruft \in BOOLEAN :
          /\ f(cruft).mode = IF d.rec[r].dir THEN "dir" ELSE "file"
          /\ f(cruft).size = SizeField(d.rec[r], cruft)
     /\ link # << >> =>
          /\ Rock(d) /\ ~d.rec[r].dir /\ ~FarName(d, r)
          /\ \A cruft \in BOOLEAN : f(cruft).mode = "link"
          /\ get_rock_ridge_symlink(d.rec[r].su, d.area, {}) = link
          /\ NotMoved(d.rec[r].su) /\ \A a \in DOMAIN d.area : NotMoved(d.area[a].entries)

(* A chain of links ends or comes back to a name it went through.           *)
(* iso_follow_link looks from the directory of the name that was opened,    *)
(* also for a link that another link led to: that one is absolute or in the *)
(* same directory.                                                          *)
ChainSound(d, name) ==
  LET c == Chain(d, name) IN
  /\ IsSeq(name)
  /\ Hop(d, c[MaxHops]) \in {c[i] : i \in 0 .. MaxHops}
  /\ \A i \in 0 .. MaxHops :
       LET link == LinkOf(d, Reached(d, c[i])) IN
       link # << >> => Absolute(link) \/ Front(c[i]) = Front(c[0])

Sound(d) ==
  /\ RecordsSound(d) /\ RootSound(d)
  /\ \A m \in DOMAIN d.rec :
       /\ LinkSound(d, m)
       /\ IF d.rec[m].dir THEN DirSound(d, m) /\ NamesSound(d, m) ELSE FileSound(d, m)
  /\ \A name \in Requests : ChainSound(d, name)

ASSUME SizesAssumption ==
  /\ BlockCells \in Nat \ {0} /\ CruftMod \in Nat \ {0} /\ CruftLimit \in Nat
  /\ MaxHops \in Nat /\ MaxAreas \in Nat
ASSUME DiscsAssumption == \A x \in Discs : SuperOk(Disc[x]) => Sound(Disc[x])
=============================================================================
