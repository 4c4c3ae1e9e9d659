-------------------------------- MODULE Iso --------------------------------
(* The ISO 9660 driver, lib/isolib.c and fs/iso.c: the inode table with its *)
(* MAX_OPEN_FILES slots, path lookup and Rock Ridge links, the scan of a    *)
(* directory block by block, its listing, and reading a file.               *)
(*                                                                          *)
(* A disc is an array of cells, BlockCells to a block of 1024 bytes and     *)
(* twice that to a sector of 2048.  A cell is a part << r, k >> of          *)
(* directory record r, or zero, << >>.  Inode numbers, positions and sizes  *)
(* are counted in cells.  Every device read may fail, MaxFailures times.    *)
(* A Rock Ridge name is taken to be no longer than its record, into which   *)
(* iso_find_entry and iso_readdir_i copy it.                                *)
EXTENDS IsoDisc

CONSTANTS
  MAX_OPEN_FILES,
  MaxOpens,         \* bound on the calls of iso_open
  MaxFailures,      \* bound on the reads that fail
  MaxBlkno, MaxRun  \* bounds on the blocks asked for in one bread

Slots == 0 .. MAX_OPEN_FILES - 1
NoSlot == -1
NoNode == [free |-> 1, inumber |-> 0, mode |-> "none", size |-> 0, first_extent |-> 0]
NoFile == [used |-> 0, wanted |-> "none", ino |-> -1, part |-> FALSE]

ASSUME SlotsAssumption == MAX_OPEN_FILES \in Nat \ {0}
ASSUME BoundsAssumption ==
  MaxOpens \in Nat /\ MaxFailures \in Nat /\ MaxBlkno \in Nat /\ MaxRun \in Nat

VARIABLES
  disc,             \* the disc in the drive
  sb,               \* the super block and root_inode
  cruft,            \* sb.s_cruft = 'y'
  table,            \* inode_table: the inode in a slot, NoNode if it is free
  pc,               \* what the driver is doing
  filename,         \* iso_open: filename
  path,             \* iso_lookup: what is left of the name
  dir,              \* iso_lookup: slot of the directory
  root,             \* iso_follow_link: slot of the root
  oldinode,         \* iso_open: slot of the link followed
  scan,             \* locals of iso_find_entry
  data_block,       \* the block last read
  ls,               \* statics and locals of iso_readdir_i
  ret,              \* the last call and what it returned
  open,             \* history: how an open descriptor was opened
  seen,             \* history: what went wrong since the call began
  past,             \* history: what went wrong since the mount
  opens, failures

openvars == << filename, path, dir, root, oldinode, scan >>
vars == << disc, sb, cruft, table, pc, openvars, data_block, ls, ret, open,
           seen, past, opens, failures >>

D == Disc[disc]
NoScan == [f_pos |-> 0, offset |-> 0, block |-> 0, ino |-> 0]
NoList == [fd |-> NoSlot, blockoffset |-> 0, diroffset |-> 0, names |-> << >>]
NoRet == [call |-> "none", wanted |-> "none", val |-> 0, room |-> 0]

Init ==
  /\ disc \in Discs
  /\ sb = [ok |-> FALSE, rock |-> FALSE, zone |-> 1, root_inode |-> 0]
  /\ cruft = FALSE /\ table = [s \in Slots |-> NoNode] /\ pc = "idle"
  /\ filename = << >> /\ path = << >>
  /\ dir = NoSlot /\ root = NoSlot /\ oldinode = NoSlot
  /\ scan = NoScan /\ data_block = << >> /\ ls = NoList /\ ret = NoRet
  /\ open = [s \in Slots |-> NoFile] /\ seen = {} /\ past = {}
  /\ opens = 0 /\ failures = 0
-----------------------------------------------------------------------------
(* Device reads *)

(* The reads of one step that fail: of an inode, a directory block or a     *)
(* link, or of a continuation area.                                         *)
ReadPoints == {"inode", "dir", "link"} \union DOMAIN D.area
FailedReads ==
  {{}} \union IF failures < MaxFailures THEN {{x} : x \in ReadPoints} ELSE {}

(* The areas among them. *)
Lost(bad) == bad \intersect DOMAIN D.area

Note(bad, what) ==
  /\ failures' = failures + Cardinality(bad)
  /\ seen' = seen \union what \union (IF bad = {} THEN {} ELSE {"read"})
                               \union (IF Lost(bad) = {} THEN {} ELSE {"part"})

OnDisc(b) == (b + 1) * BlockCells <= Len(D.cell)
Block(b) == [i \in 0 .. BlockCells - 1 |-> D.cell[b * BlockCells + i + 1]]

(* The record at a position; bytes of zero make an empty file. *)
ZeroRec ==
  [len |-> 0, name |-> << >>, dir |-> FALSE, hidden |-> FALSE, extent |-> 0,
   size |-> 0, interleave |-> FALSE, su |-> << >>]
RecordOf(cell) == IF cell = << >> THEN ZeroRec ELSE D.rec[cell[1]]
RecordAt(ino) == RecordOf(D.cell[ino + 1])

iso_bmap(node, block) == (node.first_extent \div BlockCells) + block

(* Mutants: not rounded; the start of the same sector. *)
SectorAfterUnrounded(pos) == pos + SectorCells
SectorAfterSame(pos) == (pos \div SectorCells) * SectorCells

(* The start of the sector after the one of pos. *)
SectorAfter(pos) == (pos \div SectorCells) * SectorCells + SectorCells
-----------------------------------------------------------------------------
(* Mounting *)

(* Mutant: a defect noted on one mount stays for the next. *)
ReadSuperCruftStays ==
  \E i \in DOMAIN D.vds :
    /\ Known(D, i)
    /\ sb' = [ok |-> TRUE, rock |-> D.vds[i].id = "CD001", zone |-> D.vds[i].zone,
              root_inode |-> D.vds[i].root * D.vds[i].zone]
    /\ UNCHANGED cruft

ReadSuper ==
  \E i \in DOMAIN D.vds :
    /\ Known(D, i)
    /\ sb' = [ok |-> TRUE, rock |-> D.vds[i].id = "CD001", zone |-> D.vds[i].zone,
              root_inode |-> D.vds[i].root * D.vds[i].zone]
    /\ cruft' = FALSE

iso_mount ==
  /\ pc = "idle"
  /\ table' = [s \in Slots |-> NoNode] /\ open' = [s \in Slots |-> NoFile]
  /\ past' = {}
  /\ \/ /\ SuperOk(D) /\ ReadSuper /\ ret' = [NoRet EXCEPT !.call = "mount"]
        /\ Note({}, {})
     \/ /\ ~SuperOk(D) \/ failures < MaxFailures
        /\ sb' = [sb EXCEPT !.ok = FALSE]
        /\ ret' = [NoRet EXCEPT !.call = "mount", !.val = -1]
        /\ Note(IF SuperOk(D) THEN {"super"} ELSE {}, {})
        /\ UNCHANGED cruft
  /\ UNCHANGED << disc, pc, openvars, data_block, ls, opens >>
-----------------------------------------------------------------------------
(* Slots *)

FreeSlots(t) == {s \in Slots : t[s].free = 1}
FirstFree(t) ==
  IF FreeSlots(t) = {} THEN NoSlot
  ELSE CHOOSE s \in FreeSlots(t) : \A u \in FreeSlots(t) : s <= u

(* Mutant: the slot is not marked free. *)
iso_iputHeld(t, s) == [t EXCEPT ![s] = [NoNode EXCEPT !.free = 0]]

iso_iput(t, s) == [t EXCEPT ![s] = NoNode]

Node(ino, bad) ==
  LET r == RecordAt(ino)
      f == TypeAndSize(r, sb.rock, D.area, cruft, Lost(bad))
  IN [free |-> 0, inumber |-> ino, mode |-> f.mode, size |-> f.size,
      first_extent |-> r.extent * sb.zone]

(* iso_iget: the slot it finds, and the table and s_cruft after it. *)
SlotGot(t, ino, bad) ==
  IF "inode" \in bad THEN NoSlot ELSE FirstFree(t)
Got(t, ino, bad) ==
  IF SlotGot(t, ino, bad) = NoSlot THEN t
  ELSE [t EXCEPT ![SlotGot(t, ino, bad)] = Node(ino, bad)]
NoteDefect(ino, s) ==
  LET new == s # NoSlot /\ Defective(RecordAt(ino))
  IN /\ cruft' = (cruft \/ new)
     /\ past' = IF new THEN past \union {"defect"} ELSE past
-----------------------------------------------------------------------------
(* Mutant: the link's slot is kept. *)
LeaveLinkHeld(t, s) ==
  LET u == IF oldinode = NoSlot THEN t ELSE iso_iput(t, root)
  IN /\ table' = u /\ root' = NoSlot /\ dir' = NoSlot /\ path' = << >>
     /\ scan' = NoScan
     /\ IF s # NoSlot /\ t[s].mode = "link"
        THEN /\ pc' = "follow" /\ oldinode' = s
             /\ UNCHANGED << filename, ret, open >>
        ELSE /\ pc' = "idle" /\ oldinode' = NoSlot /\ filename' = << >>
             /\ ret' = [ret EXCEPT !.val = s]
             /\ open' = IF s = NoSlot THEN open
                        ELSE [open EXCEPT ![s] = [used |-> 1, wanted |-> ret.wanted,
                                            ino |-> t[s].inumber, part |-> "part" \in seen']]

(* The end of iso_lookup: with the inode in slot s, NoSlot for none, and    *)
(* table t.  In iso_follow_link the root's slot, which iso_lookup gave      *)
(* back, is given back again, then in iso_open that of the link; the caller *)
(* goes on following links or returns.                                      *)
Leave(t, s) ==
  LET u == IF oldinode = NoSlot THEN t ELSE iso_iput(iso_iput(t, root), oldinode)
  IN /\ table' = u /\ root' = NoSlot /\ dir' = NoSlot /\ path' = << >>
     /\ scan' = NoScan
     /\ IF s # NoSlot /\ t[s].mode = "link"
        THEN /\ pc' = "follow" /\ oldinode' = s
             /\ UNCHANGED << filename, ret, open >>
        ELSE /\ pc' = "idle" /\ oldinode' = NoSlot /\ filename' = << >>
             /\ ret' = [ret EXCEPT !.val = s]
             /\ open' = IF s = NoSlot THEN open
                        ELSE [open EXCEPT ![s] = [used |-> 1, wanted |-> ret.wanted,
                                            ino |-> t[s].inumber, part |-> "part" \in seen']]

iso_open(name) ==
  /\ pc = "idle" /\ sb.ok /\ opens < MaxOpens /\ opens' = opens + 1
  /\ ret' = [call |-> "open", wanted |-> Target(D, name), val |-> NoSlot,
             room |-> Cardinality(FreeSlots(table))]
  /\ \E bad \in {b \in FailedReads : b \subseteq {"inode"}} :
       LET s == SlotGot(table, sb.root_inode, bad) IN
       /\ failures' = failures + Cardinality(bad)
       /\ seen' = IF bad = {} THEN {} ELSE {"read"}
       /\ NoteDefect(sb.root_inode, s)
       /\ IF s = NoSlot \/ Node(sb.root_inode, bad).mode # "dir"
          THEN UNCHANGED << table, pc, openvars >>
          ELSE /\ table' = Got(table, sb.root_inode, bad)
               /\ pc' = "look" /\ dir' = s /\ path' = Split(name) /\ filename' = name
               /\ UNCHANGED << root, oldinode, scan >>
  /\ UNCHANGED << disc, sb, data_block, ls, open >>
-----------------------------------------------------------------------------
(* iso_find_entry *)

(* Its start: read the directory's first block. *)
FindStart ==
  /\ pc = "look"
  /\ \E bad \in {b \in FailedReads : b \subseteq {"dir"}} :
       LET b == iso_bmap(table[dir], 0) IN
       /\ Note(bad, {})
       /\ IF table[dir].first_extent = 0 \/ b = 0 \/ ~OnDisc(b) \/ bad # {}
          THEN pc' = "missing" /\ UNCHANGED << scan, data_block >>
          ELSE /\ pc' = "scan" /\ data_block' = Block(b)
               /\ scan' = [NoScan EXCEPT !.block = b]
  /\ UNCHANGED << disc, sb, cruft, table, filename, path, dir, root, oldinode,
                  ls, ret, open, past, opens >>

(* Mutant: the place where the record ends. *)
InodeNumberLate(r) ==
  CASE r.name = << "0" >> -> table[dir].inumber
    [] r.name = << "1" >> -> r.extent * sb.zone
    [] OTHER -> scan.block * BlockCells + scan.offset + r.len

(* The inode number of a record: its place, but of "." and ".." that of the *)
(* directory they stand for.                                                *)
InodeNumber(r) ==
  CASE r.name = << "0" >> -> table[dir].inumber
    [] r.name = << "1" >> /\ table[dir].inumber # sb.root_inode -> r.extent * sb.zone
    [] r.name = << "1" >> /\ table[dir].inumber = sb.root_inode -> table[dir].inumber
    [] OTHER -> scan.block * BlockCells + scan.offset

Missing == pc' = "missing" /\ UNCHANGED << scan, data_block >>

ScanEnd ==
  /\ pc = "scan" /\ scan.f_pos >= table[dir].size
  /\ Missing /\ Note({}, {})

(* A zero byte: nothing more in this sector. *)
ScanSector ==
  /\ pc = "scan" /\ scan.f_pos < table[dir].size /\ data_block[scan.offset] = << >>
  /\ \E bad \in {b \in FailedReads : b \subseteq {"dir"}} :
       LET next == SectorAfter(scan.f_pos)
           b == iso_bmap(table[dir], next \div BlockCells)
       IN /\ Note(bad, {})
          /\ IF ~OnDisc(b) \/ bad # {} THEN Missing
             ELSE /\ data_block' = Block(b) /\ UNCHANGED pc
                  /\ scan' = [scan EXCEPT !.f_pos = next, !.offset = 0, !.block = b]

(* Whether a record reaches the end of the block in the buffer. *)
Spans(r) == scan.offset + r.len >= BlockCells

(* A record; when it reaches the end of the block the next one is read      *)
(* first, and if that fails the call returns success with inode number 0.   *)
ScanRecord ==
  /\ pc = "scan" /\ scan.f_pos < table[dir].size /\ data_block[scan.offset] # << >>
  /\ \E bad \in {b \in FailedReads : b \subseteq {"dir"} \union DOMAIN D.area} :
     \E heap \in HeapTexts :
       LET r == RecordOf(data_block[scan.offset])
           next == scan.f_pos + r.len
           b == IF Spans(r) THEN iso_bmap(table[dir], next \div BlockCells)
                            ELSE scan.block
           matches == /\ ~r.hidden
                      /\ iso_match(path[1], Shown(r, sb.rock, D.area, heap, Lost(bad)))
       IN IF Spans(r) /\ (~OnDisc(b) \/ "dir" \in bad)
          THEN /\ pc' = "found" /\ scan' = [scan EXCEPT !.ino = 0]
               /\ Note(bad, {"part"}) /\ UNCHANGED data_block
          ELSE /\ data_block' = Block(b)
               /\ scan' = [f_pos |-> next, block |-> b,
                           offset |-> IF Spans(r) THEN next % BlockCells
                                      ELSE scan.offset + r.len,
                           ino |-> IF matches THEN InodeNumber(r) ELSE 0]
               /\ pc' = IF matches THEN "found" ELSE "scan"
               /\ Note(bad, {})

iso_find_entry ==
  /\ ScanEnd \/ ScanSector \/ ScanRecord
  /\ UNCHANGED << disc, sb, cruft, table, filename, path, dir, root, oldinode,
                  ls, ret, open, past, opens >>
-----------------------------------------------------------------------------
(* iso_lookup after iso_find_entry.  A directory on the way that does not   *)
(* exist leaves its parent's slot in use.                                   *)
LookupMissing ==
  /\ pc = "missing"
  /\ Leave(IF Len(path) > 1 THEN table ELSE iso_iput(table, dir), NoSlot)
  /\ past' = IF Len(path) > 1 /\ oldinode = NoSlot THEN past \union {"lost"} ELSE past
  /\ UNCHANGED << disc, sb, cruft, data_block, ls, seen, opens, failures >>

(* A directory on the way: exchange its slot for that of its parent. *)
LookupDir ==
  /\ pc = "found" /\ Len(path) > 1
  /\ \E bad \in {b \in FailedReads : b \subseteq {"inode"} \union DOMAIN D.area} :
       LET t == iso_iput(table, dir)
           s == SlotGot(t, scan.ino, bad)
       IN /\ Note(bad, {}) /\ NoteDefect(scan.ino, s)
          /\ IF s = NoSlot THEN Leave(t, NoSlot)
             ELSE /\ table' = Got(t, scan.ino, bad) /\ dir' = s /\ path' = Tail(path)
                  /\ pc' = "look" /\ scan' = NoScan
                  /\ UNCHANGED << filename, root, oldinode, ret, open >>
  /\ UNCHANGED << disc, sb, data_block, ls, opens >>

(* Mutant: the directory's slot is given back too early. *)
LookupLastPutFirst ==
  /\ pc = "found" /\ Len(path) = 1
  /\ \E bad \in {b \in FailedReads : b \subseteq {"inode"} \union DOMAIN D.area} :
       LET s == SlotGot(iso_iput(table, dir), scan.ino, bad)
           t == Got(iso_iput(table, dir), scan.ino, bad)
       IN Note(bad, {}) /\ NoteDefect(scan.ino, s) /\ Leave(t, s)
  /\ UNCHANGED << disc, sb, data_block, ls, opens >>

(* The last part of the name. *)
LookupLast ==
  /\ pc = "found" /\ Len(path) = 1
  /\ \E bad \in {b \in FailedReads : b \subseteq {"inode"} \union DOMAIN D.area} :
       LET s == SlotGot(table, scan.ino, bad)
           t == Got(table, scan.ino, bad)
       IN /\ Note(bad, {}) /\ NoteDefect(scan.ino, s)
          /\ Leave(iso_iput(t, dir), s)
  /\ UNCHANGED << disc, sb, data_block, ls, opens >>
-----------------------------------------------------------------------------
(* iso_follow_link *)

(* Up to the last slash of the name that was opened. *)
DirName(name) ==
  LET slashes == {i \in DOMAIN name : name[i] = "/"}
  IN IF slashes = {} THEN << >>
     ELSE SubSeq(name, 1, CHOOSE i \in slashes : \A j \in slashes : j <= i)

(* The text of the link in slot oldinode; its record lies in one sector. *)
LinkText(bad) ==
  LET ino == table[oldinode].inumber
      r == RecordAt(ino)
  IN IF "link" \in bad \/ (ino % SectorCells) + r.len > SectorCells THEN NoText
     ELSE get_rock_ridge_symlink(r.su, D.area, Lost(bad))

iso_follow_link ==
  /\ pc = "follow"
  /\ \E bad \in {b \in FailedReads : b \subseteq {"inode", "link"} \union DOMAIN D.area} :
     \E text \in {LinkText(bad)} :
       LET s == SlotGot(table, sb.root_inode, bad)
           t == Got(table, sb.root_inode, bad)
           node == table[oldinode]
           link == SubSeq(text, 1, IF Len(text) < node.size THEN Len(text) ELSE node.size)
       IN /\ cruft' = (cruft \/ (s # NoSlot /\ Defective(RecordAt(sb.root_inode))))
          /\ IF node.size = 0 \/ text = NoText
             THEN \* returns without giving back the root's slot
                  /\ Note(bad, {})
                  /\ table' = iso_iput(t, oldinode) /\ pc' = "idle"
                  /\ past' = IF s = NoSlot THEN past ELSE past \union {"lost"}
                  /\ oldinode' = NoSlot /\ filename' = << >>
                  /\ ret' = [ret EXCEPT !.val = NoSlot]
                  /\ UNCHANGED << path, dir, root >>
             ELSE /\ Note(bad, IF Len(text) > node.size THEN {"overrun"} ELSE {})
                  /\ table' = t /\ root' = s /\ dir' = s
                  /\ path' = Split(IF link[1] = "/" THEN link ELSE DirName(filename) \o link)
                  /\ pc' = IF s = NoSlot THEN "dead" ELSE "look"
                  /\ UNCHANGED << filename, oldinode, ret, past >>
  /\ UNCHANGED << disc, sb, scan, data_block, ls, open, opens >>
-----------------------------------------------------------------------------
(* Calls on an open descriptor *)

IsOpen(fd) == open[fd].used = 1

iso_close(fd) ==
  /\ pc = "idle" /\ IsOpen(fd)
  /\ table' = iso_iput(table, fd) /\ open' = [open EXCEPT ![fd] = NoFile]
  /\ ret' = [NoRet EXCEPT !.call = "close"]
  /\ UNCHANGED << disc, sb, cruft, pc, openvars, data_block, ls, seen, past, opens, failures >>

(* Mutant: the last block is missed if it is not full. *)
BlocksFull(node, blkno, nblks) ==
  IF (blkno + nblks) * BlockCells > node.size
  THEN (node.size \div BlockCells) - blkno
  ELSE nblks

(* The number of blocks iso_breadi asks the device for. *)
Blocks(node, blkno, nblks) ==
  IF (blkno + nblks) * BlockCells > node.size
  THEN ((node.size + BlockCells) \div BlockCells) - blkno
  ELSE nblks

(* A read returns the first block on the disc and the number of blocks, -1  *)
(* for an error.  A range that begins beyond the block after the file's     *)
(* end, which load_uncompressed may seek to, makes the count negative: the  *)
(* console is then handed a negative length and refuses.                    *)
iso_bread(fd, blkno, nblks) ==
  /\ pc = "idle" /\ IsOpen(fd) /\ table[fd].mode = "file"
  /\ \E bad \in IF failures < MaxFailures THEN BOOLEAN ELSE {FALSE} :
       /\ failures' = IF bad THEN failures + 1 ELSE failures
       /\ ret' = [call |-> "bread", fd |-> fd, blkno |-> blkno, nblks |-> nblks,
                  first |-> iso_bmap(table[fd], blkno),
                  val |-> LET n == Blocks(table[fd], blkno, nblks) IN
                          IF bad \/ table[fd].first_extent = 0 \/ n < 0 THEN -1 ELSE n]
  /\ UNCHANGED << disc, sb, cruft, table, pc, openvars, data_block, ls, open,
                  seen, past, opens >>

iso_fstat(fd) ==
  /\ pc = "idle" /\ IsOpen(fd)
  /\ ret' = [call |-> "fstat", fd |-> fd, val |-> table[fd].size]
  /\ UNCHANGED << disc, sb, cruft, table, pc, openvars, data_block, ls, open,
                  seen, past, opens, failures >>
-----------------------------------------------------------------------------
(* iso_readdir_i, as list_directory calls it: once with rewind, then until  *)
(* it returns NULL.                                                         *)

EndOfList(names) ==
  /\ pc' = "idle" /\ ls' = NoList
  /\ ret' = [call |-> "list", fd |-> ls.fd, val |-> names]

ListStart(fd) ==
  /\ pc = "idle" /\ IsOpen(fd)
  /\ \E bad \in {b \in FailedReads : b \subseteq {"dir"}} :
       LET b == iso_bmap(table[fd], 0) IN
       /\ failures' = failures + Cardinality(bad)
       /\ seen' = IF bad = {} THEN {} ELSE {"read"}
       /\ IF table[fd].mode # "dir" \/ b = 0 \/ ~OnDisc(b) \/ bad # {}
          THEN /\ ret' = [call |-> "list", fd |-> fd, val |-> << >>]
               /\ UNCHANGED << pc, data_block, ls >>
          ELSE /\ pc' = "list" /\ data_block' = Block(b)
               /\ ls' = [NoList EXCEPT !.fd = fd] /\ ret' = NoRet
  /\ UNCHANGED << disc, sb, cruft, table, openvars, open, past, opens >>

(* Bytes in the middle of a record, read as a record. *)
Garbled == [ZeroRec EXCEPT !.len = 1, !.name = << "?" >>]
ListedAs(cell) ==
  IF cell # << >> /\ cell[2] # 0 THEN Garbled ELSE RecordOf(cell)

(* Mutant: hidden files too. *)
ListNameHidden(r, heap, bad) ==
  IF r.name \in {<< "0" >>, << "1" >>, << >>} \/ ~sb.rock THEN << >>
  ELSE get_rock_ridge_filename(r.su, D.area, heap, Lost(bad))

(* The name listed, if any: records without a Rock Ridge name are skipped.  *)
ListName(r, heap, bad) ==
  IF r.name \in {<< "0" >>, << "1" >>, << >>} \/ r.hidden \/ ~sb.rock THEN << >>
  ELSE get_rock_ridge_filename(r.su, D.area, heap, Lost(bad))

(* One turn of the loop for the record at offset off of block blk, whose    *)
(* place in the directory is pos.  A record that reaches the end of the     *)
(* block is put together in big_data_block; what follows it there is copied *)
(* back to the front of data_block, up to where the block would have ended, *)
(* and behind that data_block keeps what it had.  A record that runs into   *)
(* such bytes has any name or none.                                         *)
ListRecord(blk, off, pos) ==
  \E bad \in {b \in FailedReads : b \subseteq {"dir"} \union DOMAIN D.area} :
  \E heap \in HeapTexts :
    LET r == ListedAs(blk[off])
        end == pos + r.len
        b == iso_bmap(table[ls.fd], end \div BlockCells)
        frag == BlockCells - off
        big == [i \in 0 .. frag + BlockCells - 1 |->
                  IF i < frag THEN blk[off + i] ELSE Block(b)[i - frag]]
        spans == off + r.len >= BlockCells
        whole == \A i \in 1 .. r.len - 1 :
                   i \in DOMAIN big /\ (i < frag \/ OnDisc(b)) /\ big[i] = << blk[off][1], i >>
    IN \E name \in IF whole THEN {ListName(r, heap, bad)} ELSE {<< >>, << "?" >>} :
       /\ Note(bad, {})
       /\ IF spans /\ (~OnDisc(b) \/ "dir" \in bad)
          THEN EndOfList(ls.names) /\ data_block' = blk
          ELSE /\ data_block' =
                    IF spans THEN [i \in DOMAIN blk |->
                                     IF i < BlockCells - r.len THEN big[r.len + i] ELSE blk[i]]
                    ELSE blk
               /\ ls' = [ls EXCEPT !.diroffset = end,
                                   !.blockoffset = IF spans THEN 0 ELSE off + r.len,
                                   !.names = IF name = << >> THEN @ ELSE Append(@, name)]
               /\ UNCHANGED << pc, ret >>

iso_readdir ==
  /\ pc = "list"
  /\ IF data_block[ls.blockoffset] # << >>
     THEN ListRecord(data_block, ls.blockoffset, ls.diroffset)
     ELSE LET next == SectorAfter(ls.diroffset)
              b == iso_bmap(table[ls.fd], next \div BlockCells)
          IN
          \/ /\ next < table[ls.fd].size /\ OnDisc(b)
             /\ ListRecord(Block(b), 0, next)
          \/ /\ EndOfList(ls.names) /\ UNCHANGED data_block
             /\ IF next < table[ls.fd].size /\ OnDisc(b)
                THEN failures < MaxFailures /\ Note({"dir"}, {})
                ELSE Note({}, {})
  /\ UNCHANGED << disc, sb, cruft, table, openvars, open, past, opens >>
-----------------------------------------------------------------------------
Driver ==
  \/ FindStart \/ iso_find_entry \/ LookupMissing \/ LookupDir \/ LookupLast
  \/ iso_follow_link \/ iso_readdir

User ==
  \/ iso_mount
  \/ \E name \in Requests : iso_open(name)
  \/ \E fd \in Slots :
       \/ iso_close(fd) \/ iso_fstat(fd) \/ ListStart(fd)
       \/ \E blkno \in 0 .. MaxBlkno, nblks \in 1 .. MaxRun : iso_bread(fd, blkno, nblks)

(* The boot loop may leave the driver alone, and must when the driver died. *)
Rest == pc \in {"idle", "dead"} /\ UNCHANGED vars

Next == Driver \/ User \/ Rest

(* A call is not abandoned halfway.  This is WF_vars(Driver) with ENABLED   *)
(* spelled out: Driver's steps are those from busy states, and as no state  *)
(* deadlocks it is enabled in all of them.                                  *)
Busy == pc \notin {"idle", "dead"}
Fairness == []<>~Busy \/ []<><<Busy>>_vars

Spec == Init /\ [][Next]_vars /\ Fairness
-----------------------------------------------------------------------------
TypeOK ==
  /\ disc \in Discs /\ cruft \in BOOLEAN
  /\ DOMAIN table = Slots /\ DOMAIN open = Slots
  /\ \A s \in Slots : \/ table[s] = NoNode
                      \/ /\ table[s].inumber >= 0 /\ table[s].size >= 0
                         /\ table[s].mode \in {"dir", "file", "link"}
  /\ pc \in {"idle", "look", "scan", "missing", "found", "follow", "list", "dead"}
  /\ {dir, root, oldinode} \subseteq Slots \union {NoSlot}
  /\ opens \in 0 .. MaxOpens /\ failures \in 0 .. MaxFailures
  /\ seen \subseteq {"read", "part", "overrun"} /\ past \subseteq {"lost", "defect"}

(* The slot of an open descriptor holds the inode that was opened until it  *)
(* is closed, whatever is opened, fails or is followed meanwhile; in        *)
(* iso_follow_link the root's slot is given back twice, and the second time *)
(* must not hit the slot of the file that was found.                        *)
FdKept ==
  \A s \in Slots : IsOpen(s) =>
    /\ table[s].free = 0 /\ table[s].inumber = open[s].ino
    /\ s \notin {dir, root, oldinode}

(* iso_open returns the file the name stands for, even if reads failed on   *)
(* the way, except when a part of a record could not be read: for its       *)
(* second half iso_find_entry reports success with inode number 0, and a    *)
(* link whose continuation area is lost ends there.                         *)
NamedFile ==
  \A s \in Slots : IsOpen(s) /\ ~open[s].part =>
    LET r == open[s].wanted IN
    r # NoRec /\ table[s].first_extent = Place(D, r)

(* A file that exists is opened if no read fails and three slots are free,  *)
(* wherever in a block or sector its record and those before it lie.        *)
FindsFile ==
  ret.call = "open" /\ pc = "idle" /\ ret.val = NoSlot /\ ret.room >= 3 /\ seen = {}
    => ret.wanted = NoRec \/ Circular(D, ret.wanted) \/ FarName(D, ret.wanted)

(* Between calls the slots in use are those of open descriptors, as long as *)
(* no directory on the way was missing and every link could be read.        *)
SlotsAccounted ==
  pc = "idle" /\ "lost" \notin past
    => \A s \in Slots : table[s].free = 1 \/ IsOpen(s)

(* The text of a link fits into the buffer that get_rock_ridge_symlink      *)
(* allocates for the size found by parse_rock_ridge_inode, unless a         *)
(* continuation area could be read only the second time.                    *)
LinkFits == "overrun" \in seen => "part" \in seen

(* A listing has the visible records that Rock Ridge names, each once and   *)
(* in order, up to the first place where copying back big_data_block leaves *)
(* bytes of an earlier record in data_block; and nothing else, where no     *)
(* sector of the directory is lost in this way.                             *)
ListingRight ==
  ret.call = "list" /\ seen = {} /\ ~open[ret.fd].part
    => LET r == open[ret.fd].wanted
           v == Listed(D, r)
       IN IF ~D.rec[r].dir THEN ret.val = << >>
          ELSE /\ Lossy(D, r) = {} => Len(ret.val) = Cardinality(v)
               /\ \A p \in v : Legible(D, r, p) =>
                    LET k == Cardinality({q \in v : q <= p})
                        m == CellOf(D, r, p)[1]
                    IN k <= Len(ret.val) /\ (ret.val[k] \in D.rec[m].known \/ FarName(D, m))

(* A read fits into the caller's buffer, starts at the right block, covers  *)
(* what the file has of the range, and goes at most one block past the end. *)
ReadCovers ==
  ret.call = "bread" /\ ret.val # -1 =>
    LET node == table[ret.fd]
        end == (ret.blkno + ret.val) * BlockCells
    IN /\ ret.val \in 0 .. ret.nblks
       /\ ret.first * BlockCells = node.first_extent + ret.blkno * BlockCells
       /\ end >= node.size \/ ret.val = ret.nblks
       /\ end <= node.size + BlockCells \/ ret.val = 0

(* A file keeps its size, large ones too, as long as no defective record    *)
(* was read since the mount.                                                *)
SizeKept ==
  \A s \in Slots : IsOpen(s) /\ ~open[s].part /\ past \intersect {"defect"} = {} =>
    LET r == D.rec[open[s].wanted] IN
    table[s].size = IF r.interleave THEN 0 ELSE r.size

(* Every call returns, unless the name stands for a link to itself or the   *)
(* root's inode could not be read in iso_follow_link.                       *)
CallsReturn ==
  (pc # "idle" /\ ~Circular(D, ret.wanted)) ~> (pc \in {"idle", "dead"})

(* iso_open: it opens the file that was named and nothing else, it does     *)
(* open it unless a read or a known defect is in the way, and the two walks *)
(* over a link's record agree on its length.                                *)
OpensRight == TypeOK /\ NamedFile /\ FindsFile /\ LinkFits

(* iso_bread, with the size that iso_iget took from the record: all of the  *)
(* file in the range asked for is read.                                     *)
ReadsRight == ReadCovers /\ SizeKept
=============================================================================
