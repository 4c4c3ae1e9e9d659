---------------------------- MODULE LabelProofs ----------------------------
(* Proofs about LabelTools, for every disk, label, bootstrap and bound. *)
EXTENDS LabelTools, TLAPS

USE SizesAssumption DEF BOOT_SECTOR

LEMMA MagicTypes == NoMagic \in PartWord /\ Nat \subseteq PartWord
BY DEF PartWord

(* The conversion to int leaves a number that fits alone. *)
LEMMA IntFits ==
  ASSUME NEW v \in Nat, 2 * v < IntSize
  PROVE  ToInt(v) = v
<1>1. v % IntSize = v
  OBVIOUS
<1> QED
  BY <1>1 DEF ToInt

(* A length in sectors covers the length in bytes. *)
LEMMA SectorsCover ==
  ASSUME NEW len \in Nat
  PROVE  Sectors(len) \in Nat /\ Sectors(len) * SECT_SIZE >= len
<1>1. DEFINE q == Sectors(len)
<1>2. q \in Int /\ q * SECT_SIZE <= len + SECT_SIZE - 1 /\ len + SECT_SIZE - 1 < q * SECT_SIZE + SECT_SIZE
  BY DEF Sectors
<1>3. q >= 0
  BY DEF Sectors
<1> QED
  BY <1>2, <1>3

(* does_overlap finds every range that shares a sector with another one     *)
(* but is not the same.                                                     *)
LEMMA OverlapFound ==
  ASSUME NEW a1 \in Nat, NEW a2 \in Nat, NEW b1 \in Nat, NEW b2 \in Nat,
         NEW s \in a1 .. a2 - 1, s \in b1 .. b2 - 1,
         ~(a1 = b1 /\ a2 = b2)
  PROVE  does_overlap(a1, a2, b1, b2)
BY DEF does_overlap

(* What swriteboot copies lands in the boot area. *)
LEMMA LandsInArea ==
  ASSUME TypeOK, NEW b \in Bytes, FileByte(b) \in 0 .. Total(opt) - 1
  PROVE  SectorOf(b) \in BootArea
<1> DEFINE s == SectorOf(b)
           i == bootsize(opt)
           k == Sectors(opt.kern)
<1>1. opt.img.len \in Nat /\ opt.kern \in Nat
  BY DEF TypeOK, ImageFile
<1>2. /\ i \in Nat /\ i * SECT_SIZE >= opt.img.len
      /\ k \in Nat /\ k * SECT_SIZE >= opt.kern
  BY <1>1, SectorsCover DEF bootsize
<1>3. b \in Nat /\ b >= BOOT_SECTOR * SECT_SIZE /\ b < BOOT_SECTOR * SECT_SIZE + opt.img.len + opt.kern
  BY <1>1 DEF Bytes, FileByte, Total
<1>4. s \in Int /\ s * SECT_SIZE <= b /\ b < s * SECT_SIZE + SECT_SIZE
  BY <1>3 DEF SectorOf
<1>5. s >= BOOT_SECTOR
  BY <1>3, <1>4
<1>6. b < (i + BOOT_SECTOR + k) * SECT_SIZE
  BY <1>1, <1>2, <1>3
<1>7. s < i + BOOT_SECTOR + k
  BY <1>2, <1>3, <1>4, <1>6
<1> QED
  BY <1>2, <1>4, <1>5, <1>7 DEF BootArea, Endplace

(* Once the check is passed, the boot area shares no sector with a          *)
(* partition that is protected and is not the boot area itself.             *)
LEMMA AreaApart ==
  ASSUME TypeOK, overlaplabel(lab, BOOT_SECTOR, Endplace(opt), opt.f) = {},
         NEW x \in Protected, ~IsBootArea(lab.part[x]),
         NEW s \in PartSectors(lab.part[x])
  PROVE  s \notin BootArea
<1> DEFINE p == lab.part[x]
<1>1. x \in Parts /\ x < lab.n /\ x \notin opt.f /\ Fits(p)
  BY DEF Protected
<1>2. p.off \in Nat /\ p.size \in Nat
  BY <1>1 DEF TypeOK, Labels, Words
<1>3. ToInt(p.off) = p.off /\ ToInt(p.off + p.size) = p.off + p.size
  BY <1>1, <1>2, IntFits DEF Fits
<1>4. Endplace(opt) \in Nat
  BY SectorsCover DEF TypeOK, ImageFile, Endplace, bootsize
<1>5. ASSUME s \in BootArea PROVE FALSE
  <2>1. s \in p.off .. p.off + p.size - 1 /\ s \in BOOT_SECTOR .. Endplace(opt) - 1
    BY <1>5 DEF PartSectors, BootArea
  <2>2. does_overlap(p.off, p.off + p.size, BOOT_SECTOR, Endplace(opt))
    <3> DEFINE e == p.off + p.size
               f == Endplace(opt)
    <3>1. e \in Nat /\ BOOT_SECTOR \in Nat /\ ~(p.off = BOOT_SECTOR /\ e = f)
      BY <1>2 DEF IsBootArea
    <3>2. s \in p.off .. e - 1 /\ s \in BOOT_SECTOR .. f - 1 /\ p.off \in Nat /\ f \in Nat
      BY <1>2, <1>4, <2>1
    <3> HIDE DEF e, f, p, BOOT_SECTOR
    <3>3. does_overlap(p.off, e, BOOT_SECTOR, f)
      BY <3>1, <3>2, OverlapFound
    <3> QED
      BY <3>3 DEF e, f
  <2>3. p.off + p.size > 0
    BY <1>2, <2>1
  <2>4. x \in overlaplabel(lab, BOOT_SECTOR, Endplace(opt), opt.f)
    BY <1>1, <1>3, <2>2, <2>3 DEF overlaplabel
  <2> QED
    BY <2>4
<1> QED
  BY <1>5

(* The values of the state before any run. *)
LEMMA Blank ==
  /\ ZeroLabel \in Labels /\ Listed(ZeroLabel)
  /\ NoOpt \in [img : ImageFile, kern : Nat, f : SUBSET Parts, c : Nat]
  /\ Total(NoOpt) = 1
<1>1. NoPart \in [off : Nat, size : Words]
  BY DEF NoPart, Words
<1>2. ZeroLabel \in Labels
  BY <1>1 DEF ZeroLabel, Labels
<1>3. Listed(ZeroLabel)
  BY DEF ZeroLabel, Listed
<1>4. NoOpt.img \in ImageFile
  <2>1. "none" \in FileNames
    BY DEF FileNames
  <2>2. 1 \in Nat \ {0}
    OBVIOUS
  <2> QED
    BY <2>1, <2>2, MagicTypes DEF NoOpt, ImageFile
<1>5. NoOpt \in [img : ImageFile, kern : Nat, f : SUBSET Parts, c : Nat]
  BY <1>4 DEF NoOpt
<1>6. Total(NoOpt) = 1
  BY DEF NoOpt, Total
<1> QED
  BY <1>2, <1>3, <1>5, <1>6

LEMMA InitInv == Init => IInv
<1> SUFFICES ASSUME Init PROVE IInv
  OBVIOUS
<1>1. lab \in Labels /\ Listed(lab) /\ hdr \in Headers /\ data \in [Bytes -> Content]
  BY DisksAssumption DEF Init
<1>2. TypeOK
  <2>1. pos \in 0 .. Total(opt)
    BY Blank DEF Init
  <2>2. total_disk_size \in Nat /\ args \in Nat /\ bootpart \in Nat
    BY DEF Init
  <2>3. force \in BOOLEAN /\ label_modified \in BOOLEAN /\ sized \in BOOLEAN
    BY Zenon DEF Init
  <2> QED
    BY <1>1, <2>1, <2>2, <2>3, Blank DEF Init, TypeOK
<1>3. PartsListed /\ MemoryListed
  BY <1>1, Blank DEF Init, PartsListed, MemoryListed
<1> QED
  BY <1>2, <1>3 DEF Init, IInv, ToolMatches, InSwriteboot, LabelPending, Checked, SumRight, FailureLeavesDisk, UnforcedKept, ForceRecorded

(* SetMagic and Piece keep the types. *)
LEMMA SetMagicType ==
  ASSUME TypeOK, NEW s \in Nat, NEW p \in Nat
  PROVE  SetMagic(s, p) \in [Bytes -> Content]
BY MagicTypes DEF SetMagic, TypeOK, Content, Magic

LEMMA PieceType ==
  ASSUME TypeOK, NEW k \in 0 .. Total(opt) - 1
  PROVE  Piece(opt, k) \in Content
<1>1. /\ opt.img.name \in FileNames /\ opt.img.part \in PartWord
      /\ opt.img.len \in Nat /\ k \in Nat
  BY DEF TypeOK, ImageFile
<1>2. CASE k < opt.img.len
  BY <1>1, <1>2, MagicTypes DEF Piece, Content
<1>3. CASE ~(k < opt.img.len)
  <2>1. k - opt.img.len \in Nat
    BY <1>1, <1>3
  <2>2. "kernel" \in FileNames
    BY DEF FileNames
  <2> QED
    BY <1>3, <2>1, <2>2, MagicTypes DEF Piece, Content
<1> QED
  BY <1>2, <1>3

(* The label with one more partition. *)
LEMMA SetEntryType ==
  ASSUME TypeOK, NEW a \in PartArgs, a.num \in Parts
  PROVE  SetEntry(a) \in Labels
<1>1. a.off \in Nat /\ a.size \in Nat /\ total_disk_size \in Nat
  BY ArgsAssumption DEF TypeOK
<1>2. Entry(a) \in [off : Nat, size : Words]
  BY <1>1 DEF Entry, Words
<1>3. d.n \in 0 .. MAXPARTITIONS /\ d.ok \in BOOLEAN /\ d.part \in [Parts -> [off : Nat, size : Words]]
  BY DEF TypeOK, Labels
<1>4. [d.part EXCEPT ![a.num] = Entry(a)] \in [Parts -> [off : Nat, size : Words]]
  BY <1>2, <1>3
<1>5. (IF a.num = d.n THEN d.n + 1 ELSE d.n) \in 0 .. MAXPARTITIONS
  BY <1>3 DEF Parts
<1> QED
  BY <1>3, <1>4, <1>5 DEF SetEntry, TypeOK, Labels

(* The end of a process leaves the types. *)
LEMMA EndType ==
  ASSUME TypeOK, NEW o, End(o), lab' \in Labels, hdr' \in Headers, data' \in [Bytes -> Content],
         opt' = opt \/ opt' = NoOpt
  PROVE  TypeOK'
<1>1. Total(opt') \in Nat
  BY Blank DEF TypeOK, Total, ImageFile
<1>2. pos' \in 0 .. Total(opt)'
  BY <1>1 DEF End, Total
<1> QED
  BY <1>2, Blank DEF End, TypeOK

(* Arguments of the tools. *)
LEMMA ArgTypes ==
  /\ \A i \in Images : i \in ImageFile
  /\ \A k \in Kernels : k \in Nat
  /\ \A p \in Confs : p \in Nat
  /\ \A n \in SizeArgs : n \in Nat
BY ArgsAssumption, Zenon

LEMMA OptionsTyped ==
  \A o \in Options : o \in [img : ImageFile, kern : Nat, f : SUBSET Parts, c : Nat]
BY ArgTypes DEF Options

LEMMA NextType == TypeOK /\ [Next]_vars => TypeOK'
<1> SUFFICES ASSUME TypeOK, [Next]_vars PROVE TypeOK'
  OBVIOUS
<1> USE DEF disk, sdvars, swvars, hist
<1>1. CASE sdStart
  <2>1. pos' \in 0 .. Total(opt)' /\ pos' = 0 /\ bootpart' \in Nat
    BY <1>1, Blank DEF sdStart, Start, TypeOK
  <2>2. total_disk_size' \in Nat /\ args' \in Nat
    BY <1>1 DEF sdStart, set_disk_size
  <2>3. force' \in BOOLEAN /\ label_modified' \in BOOLEAN /\ sized' \in BOOLEAN
    BY <1>1, Zenon DEF sdStart, TypeOK
  <2> QED
    BY <1>1, <2>1, <2>2, <2>3, Blank DEF sdStart, TypeOK
<1>2. ASSUME NEW t, badUsage(t) PROVE TypeOK'
  BY <1>2, EndType DEF badUsage, TypeOK
<1>3. CASE sdFail \/ sdCrash \/ sdUnmodified \/ interrupt \/ sdLabel
  BY <1>3, EndType DEF sdFail, sdCrash, sdUnmodified, interrupt, sdLabel, TypeOK
<1>4. CASE cmdSize \/ cmdSum \/ cmdPrint
  <2>1. total_disk_size' \in Nat /\ args' \in Nat
    BY <1>4, ArgTypes DEF cmdSize, cmdSum, cmdPrint, sdArg, TypeOK
  <2>2. sized' \in BOOLEAN
    BY <1>4, Zenon DEF cmdSize, cmdSum, cmdPrint
  <2> QED
    BY <1>4, <2>1, <2>2 DEF cmdSize, cmdSum, cmdPrint, sdArg, TypeOK, Total
<1>5. CASE cmdZero \/ cmdForce
  <2>1. args' \in Nat
    BY <1>5 DEF cmdZero, cmdForce, sdArg, TypeOK
  <2>2. sized' \in BOOLEAN /\ force' \in BOOLEAN /\ label_modified' \in BOOLEAN
    BY <1>5, Zenon DEF cmdZero, cmdForce, TypeOK
  <2> QED
    BY <1>5, <2>1, <2>2, Blank DEF cmdZero, cmdForce, sdArg, TypeOK, Total
<1>6. ASSUME NEW a \in PartArgs, set_partition(a) PROVE TypeOK'
  <2>1. args' \in Nat /\ d' \in Labels
    BY <1>6, SetEntryType DEF set_partition, sdArg, TypeOK
  <2>2. sized' \in BOOLEAN /\ label_modified' \in BOOLEAN
    BY <1>6, Zenon DEF set_partition
  <2> QED
    BY <1>6, <2>1, <2>2 DEF set_partition, sdArg, TypeOK, Total
<1>7. CASE sdSum
  BY <1>7 DEF sdSum, TypeOK, Total
<1>8. ASSUME NEW o \in Options, swStart(o) PROVE TypeOK'
  <2>1. opt' \in [img : ImageFile, kern : Nat, f : SUBSET Parts, c : Nat] /\ pos' = 0
    BY <1>8, OptionsTyped DEF swStart, Start, TypeOK
  <2>2. pos' \in 0 .. Total(opt)'
    BY <2>1 DEF Total, ImageFile
  <2> QED
    BY <1>8, <2>1, <2>2 DEF swStart, TypeOK
<1>9. CASE read_configured_partition
  <2>1. bootpart' \in Nat
    <3>1. Configured(hdr, data) \subseteq Nat
      <4>1. CASE hdr.sect >= DiskSectors
        BY <4>1, ArgTypes DEF Configured
      <4>2. CASE ~(hdr.sect >= DiskSectors)
        <5>1. Magic(hdr.sect, data) \in PartWord
          BY MagicTypes DEF Magic, TypeOK, Content
        <5> QED
          BY <4>2, <5>1 DEF Configured, PartWord
      <4> QED
        BY <4>1, <4>2
    <3> QED
      BY <1>9, <3>1 DEF read_configured_partition, TypeOK
  <2> QED
    BY <1>9, <2>1 DEF read_configured_partition, TypeOK, Total
<1>10. CASE swWords
  <2>1. hdr' \in Headers
    BY <1>10, SectorsCover DEF swWords, Headers, bootsize, TypeOK, ImageFile
  <2> QED
    BY <1>10, <2>1 DEF swWords, TypeOK, Total
<1>11. CASE swCopy
  <2>0. opt.img.len \in Nat /\ opt.kern \in Nat /\ pos \in Nat /\ pos <= Total(opt)
    BY DEF TypeOK, ImageFile, Total
  <2>1. Chunk \in Nat /\ pos + Chunk <= Total(opt)
    BY <1>11, <2>0 DEF swCopy, Chunk, Total
  <2>2. pos' \in 0 .. Total(opt)'
    BY <1>11, <2>0, <2>1 DEF swCopy, Total
  <2>3. \A b \in Bytes : FileByte(b) \in pos .. pos + Chunk - 1 => FileByte(b) \in 0 .. Total(opt) - 1
    BY <2>0, <2>1 DEF Total
  <2>4. data' \in [Bytes -> Content]
    BY <1>11, <2>3, PieceType DEF swCopy, TypeOK
  <2> QED
    BY <1>11, <2>2, <2>4 DEF swCopy, TypeOK
<1>12. CASE swConfig
  <2>1. data' \in [Bytes -> Content]
    BY <1>12, SetMagicType DEF swConfig, TypeOK
  <2> QED
    BY <1>12, <2>1 DEF swConfig, TypeOK, Total
<1>13. CASE swSum
  BY <1>13, EndType DEF swSum, TypeOK
<1>14. ASSUME NEW p \in Confs \union {0}, abootconf(p) PROVE TypeOK'
  <2>1. p \in Nat /\ hdr.sect \in Nat
    BY ArgTypes DEF TypeOK, Headers
  <2>2. data' \in [Bytes -> Content]
    BY <1>14, <2>1, SetMagicType DEF abootconf
  <2> QED
    BY <1>14, <2>2, EndType DEF abootconf, TypeOK
<1>15. CASE abootconfPrint
  BY <1>15, EndType DEF abootconfPrint, TypeOK
<1>16. CASE UNCHANGED vars
  BY <1>16 DEF vars, TypeOK, Total
<1> QED
  BY <1>1, <1>2, <1>3, <1>4, <1>5, <1>6, <1>7, <1>8, <1>9, <1>10, <1>11, <1>12, <1>13, <1>14, <1>15, <1>16
     DEF Next, sdisklabel, swriteboot, sdNoLabel, swRefused, abootconfFail

(* A new run starts from the disk it finds. *)
LEMMA BadUsageKeeps ==
  ASSUME IInv, NEW t, t \in {"sdisklabel", "swriteboot", "abootconf"}, badUsage(t)
  PROVE  /\ ToolMatches' /\ LabelPending' /\ Checked' /\ MemoryListed'
         /\ SumRight' /\ FailureLeavesDisk' /\ UnforcedKept' /\ PartsListed'
<1> USE DEF badUsage, Start, End, disk
<1>1. UnforcedKept'
  BY DEF UnforcedKept, Protected
<1>2. MemoryListed' /\ PartsListed'
  BY Blank DEF IInv, MemoryListed, PartsListed, Listed
<1> QED
  BY <1>1, <1>2 DEF ToolMatches, InSwriteboot, LabelPending, Checked, SumRight, FailureLeavesDisk

(* Which tool runs, what sdisklabel has left alone, the sum, the disk after *)
(* a failure, and the counts.                                               *)
LEMMA NextRuns ==
  IInv /\ [Next]_vars =>
    (ToolMatches /\ LabelPending /\ SumRight /\ FailureLeavesDisk)'
<1> SUFFICES ASSUME IInv, [Next]_vars
             PROVE (ToolMatches /\ LabelPending /\ SumRight /\ FailureLeavesDisk)'
  OBVIOUS
<1> DEFINE R == ToolMatches /\ LabelPending /\ SumRight /\ FailureLeavesDisk
<1> USE DEF disk, sdvars, swvars, hist, IInv, ToolMatches, InSwriteboot, LabelPending, SumRight, FailureLeavesDisk
<1>1. CASE sdStart
  BY <1>1 DEF sdStart, Start
<1>2. ASSUME NEW t \in {"sdisklabel", "swriteboot", "abootconf"}, badUsage(t) PROVE R'
  BY <1>2, BadUsageKeeps
<1>3. CASE sdFail \/ sdCrash \/ sdUnmodified
  BY <1>3 DEF sdFail, sdCrash, sdUnmodified, End
<1>4. CASE sdLabel \/ interrupt
  BY <1>4 DEF sdLabel, interrupt, End
<1>5. CASE cmdSize \/ cmdPrint \/ cmdForce
  BY <1>5 DEF cmdSize, cmdPrint, cmdForce, sdArg
<1>6. CASE cmdSum
  BY <1>6 DEF cmdSum, sdArg, dosumlabel
<1>7. CASE cmdZero
  BY <1>7 DEF cmdZero, sdArg
<1>8. ASSUME NEW a \in PartArgs, set_partition(a) PROVE R'
  BY <1>8 DEF set_partition, sdArg
<1>9. CASE sdSum
  BY <1>9 DEF sdSum, dosumlabel
<1>10. ASSUME NEW o \in Options, swStart(o) PROVE R'
  BY <1>10 DEF swStart, Start
<1>11. CASE read_configured_partition \/ swWords \/ swCopy \/ swConfig
  BY <1>11 DEF read_configured_partition, swWords, swCopy, swConfig
<1>12. CASE swSum
  BY <1>12 DEF swSum, End, dosumlabel
<1>13. ASSUME NEW p \in Confs \union {0}, abootconf(p) PROVE R'
  BY <1>13 DEF abootconf, Start, End
<1>14. CASE abootconfPrint
  BY <1>14 DEF abootconfPrint, Start, End
<1>15. CASE UNCHANGED vars
  BY <1>15 DEF vars
<1> QED
  BY <1>1, <1>2, <1>3, <1>4, <1>5, <1>6, <1>7, <1>8, <1>9, <1>10, <1>11, <1>12, <1>13, <1>14, <1>15
     DEF Next, sdisklabel, swriteboot, sdNoLabel, swRefused, abootconfFail

(* The new entry is counted unless force is used. *)
LEMMA SetEntryListed ==
  ASSUME TypeOK, Listed(d), NEW a \in PartArgs, a.num \in Parts, a.num <= d.n
  PROVE  Listed(SetEntry(a))
<1>1. d.n \in Nat /\ a.num \in Nat /\ d.part \in [Parts -> [off : Nat, size : Words]]
  BY DEF TypeOK, Labels, Parts
<1>2. /\ SetEntry(a).n = IF a.num = d.n THEN d.n + 1 ELSE d.n
      /\ SetEntry(a).part = [d.part EXCEPT ![a.num] = Entry(a)]
  BY DEF SetEntry, TypeOK, Labels
<1> QED
  BY <1>1, <1>2 DEF Listed, Parts

LEMMA NextListed == IInv /\ [Next]_vars => (MemoryListed /\ PartsListed)'
<1> SUFFICES ASSUME IInv, [Next]_vars PROVE (MemoryListed /\ PartsListed)'
  OBVIOUS
<1> USE DEF disk, sdvars, swvars, hist, IInv, MemoryListed, PartsListed
<1>1. CASE sdStart
  BY <1>1, Blank DEF sdStart
<1>2. ASSUME NEW t \in {"sdisklabel", "swriteboot", "abootconf"}, badUsage(t)
      PROVE (MemoryListed /\ PartsListed)'
  BY <1>2, BadUsageKeeps
<1>3. CASE sdFail \/ sdCrash \/ sdUnmodified \/ interrupt
  BY <1>3, Blank DEF sdFail, sdCrash, sdUnmodified, interrupt, End
<1>4. CASE sdLabel
  BY <1>4, Blank DEF sdLabel, End
<1>5. CASE cmdSize \/ cmdPrint \/ cmdForce \/ cmdSum \/ sdSum
  BY <1>5 DEF cmdSize, cmdPrint, cmdForce, cmdSum, sdSum
<1>6. CASE cmdZero
  BY <1>6, Blank DEF cmdZero
<1>7. ASSUME NEW a \in PartArgs, set_partition(a) PROVE (MemoryListed /\ PartsListed)'
  <2>1. ASSUME ~forced PROVE Listed(d')
    <3>1. ~force
      BY <2>1 DEF ForceRecorded
    <3>2. a.num \in Nat /\ d.n \in Nat
      BY ArgsAssumption DEF TypeOK, Labels
    <3>3. a.num <= d.n
      BY <1>7, <3>1, <3>2 DEF set_partition, Refused
    <3> QED
      BY <1>7, <2>1, <3>3, SetEntryListed DEF set_partition
  <2> QED
    BY <1>7, <2>1 DEF set_partition
<1>8. ASSUME NEW o \in Options, swStart(o) PROVE (MemoryListed /\ PartsListed)'
  BY <1>8 DEF swStart
<1>9. CASE read_configured_partition \/ swWords \/ swCopy \/ swConfig
  BY <1>9 DEF read_configured_partition, swWords, swCopy, swConfig
<1>10. CASE swSum
  BY <1>10, Blank DEF swSum, End
<1>11. ASSUME NEW p \in Confs \union {0}, abootconf(p) PROVE (MemoryListed /\ PartsListed)'
  BY <1>11, Blank DEF abootconf, End
<1>12. CASE abootconfPrint
  BY <1>12, Blank DEF abootconfPrint, End
<1>13. CASE UNCHANGED vars
  BY <1>13 DEF vars
<1> QED
  BY <1>1, <1>2, <1>3, <1>4, <1>5, <1>6, <1>7, <1>8, <1>9, <1>10, <1>11, <1>12, <1>13
     DEF Next, sdisklabel, swriteboot, sdNoLabel, swRefused, abootconfFail

(* The history variable knows of every use of force. *)
LEMMA NextForce == IInv /\ [Next]_vars => ForceRecorded'
BY Zenon DEF IInv, ForceRecorded, Next, sdisklabel, swriteboot, sdStart, sdNoLabel, badUsage, End, Start,
   sdFail, sdCrash, sdSum, sdLabel, sdUnmodified, cmdSize, cmdSum, cmdZero, cmdPrint, cmdForce,
   set_partition, swStart, swRefused, read_configured_partition, swWords, swCopy, swConfig, swSum,
   abootconf, abootconfFail, abootconfPrint, interrupt, vars, disk, sdvars, swvars, hist

(* A step that changes nothing a partition could notice. *)
LEMMA KeptFrame ==
  ASSUME UnforcedKept, UNCHANGED << lab, data, opt, tool, start >>
  PROVE  UnforcedKept'
BY DEF UnforcedKept, Protected, IsBootArea, Endplace, bootsize

LEMMA NextKept == IInv /\ [Next]_vars => (Checked /\ UnforcedKept)'
<1> SUFFICES ASSUME IInv, [Next]_vars PROVE (Checked /\ UnforcedKept)'
  OBVIOUS
<1> USE DEF disk, sdvars, swvars, hist, IInv
<1>1. CASE sdStart
  BY <1>1 DEF sdStart, Start, Checked, InSwriteboot, UnforcedKept
<1>2. ASSUME NEW t \in {"sdisklabel", "swriteboot", "abootconf"}, badUsage(t)
      PROVE (Checked /\ UnforcedKept)'
  BY <1>2, BadUsageKeeps
<1>3. CASE sdFail \/ sdCrash \/ sdUnmodified \/ interrupt
  BY <1>3, KeptFrame DEF sdFail, sdCrash, sdUnmodified, interrupt, End, Checked, InSwriteboot
<1>4. CASE sdLabel
  BY <1>4 DEF sdLabel, End, ToolMatches, Checked, InSwriteboot, UnforcedKept
<1>5. CASE cmdSize \/ cmdPrint \/ cmdForce \/ cmdSum \/ cmdZero
  BY <1>5, KeptFrame DEF cmdSize, cmdPrint, cmdForce, cmdSum, cmdZero, sdArg, Checked, InSwriteboot
<1>6. ASSUME NEW a \in PartArgs, set_partition(a) PROVE (Checked /\ UnforcedKept)'
  BY <1>6, KeptFrame DEF set_partition, sdArg, Checked, InSwriteboot
<1>7. CASE sdSum
  BY <1>7, KeptFrame DEF sdSum, Checked, InSwriteboot
<1>8. ASSUME NEW o \in Options, swStart(o) PROVE (Checked /\ UnforcedKept)'
  <2>1. UnforcedKept'
    BY <1>8 DEF swStart, Start, UnforcedKept
  <2>2. overlaplabel(lab', BOOT_SECTOR, Endplace(opt'), opt'.f) = {}
    BY <1>8 DEF swStart
  <2>3. overlaplabel(lab, BOOT_SECTOR, Endplace(opt), opt.f)' = {}
    BY <2>2 DEF overlaplabel, Endplace, bootsize
  <2> QED
    BY <2>1, <2>3 DEF Checked
<1>9. CASE read_configured_partition \/ swWords
  <2>1. Checked'
    BY <1>9 DEF read_configured_partition, swWords, Checked, InSwriteboot, overlaplabel, Endplace, bootsize
  <2> QED
    BY <1>9, <2>1, KeptFrame DEF read_configured_partition, swWords
<1>10. CASE swCopy \/ swConfig
  <2>1. Checked'
    BY <1>10 DEF swCopy, swConfig, Checked, InSwriteboot, overlaplabel, Endplace, bootsize
  <2>2. overlaplabel(lab, BOOT_SECTOR, Endplace(opt), opt.f) = {} /\ tool = "swriteboot"
    BY <1>10 DEF swCopy, swConfig, Checked, InSwriteboot, ToolMatches
  <2>3. ASSUME NEW b \in Bytes, SectorOf(b) \notin BootArea PROVE data'[b] = data[b]
    <3>1. opt.img.len \in Nat \ {0} /\ opt.kern \in Nat /\ pos \in Nat /\ pos <= Total(opt)
      BY DEF TypeOK, ImageFile, Total
    <3>2. CASE swCopy
      <4>1. pos + Chunk <= Total(opt) /\ Chunk \in Nat
        BY <3>1, <3>2 DEF swCopy, Chunk, Total
      <4>2. FileByte(b) \notin pos .. pos + Chunk - 1
        BY <2>3, <3>1, <4>1, LandsInArea DEF FileByte, Bytes, Total
      <4> QED
        BY <3>2, <4>2 DEF swCopy
    <3>3. CASE swConfig
      <4>1. ASSUME b = BOOT_SECTOR * SECT_SIZE PROVE FALSE
        <5>1. FileByte(b) \in 0 .. Total(opt) - 1
          BY <3>1, <4>1 DEF FileByte, Total
        <5> QED
          BY <2>3, <5>1, LandsInArea
      <4> QED
        BY <3>3, <4>1 DEF swConfig, SetMagic, TypeOK
    <3> QED
      BY <1>10, <3>2, <3>3
  <2>4. ASSUME NEW x \in Protected, ~IsBootArea(lab.part[x]), NEW b \in Bytes,
               SectorOf(b) \in PartSectors(lab.part[x])
        PROVE data'[b] = start.data[b]
    <3>1. SectorOf(b) \notin BootArea
      BY <2>2, <2>4, AreaApart
    <3> QED
      BY <2>2, <2>3, <2>4, <3>1 DEF UnforcedKept
  <2>5. UNCHANGED << lab, opt, start >>
    BY <1>10 DEF swCopy, swConfig
  <2> QED
    BY <2>1, <2>4, <2>5 DEF UnforcedKept, Protected, IsBootArea, Endplace, bootsize
<1>11. CASE swSum
  BY <1>11, KeptFrame DEF swSum, End, Checked, InSwriteboot
<1>12. ASSUME NEW p \in Confs \union {0}, abootconf(p) PROVE (Checked /\ UnforcedKept)'
  BY <1>12 DEF abootconf, Start, End, Checked, InSwriteboot, UnforcedKept
<1>13. CASE abootconfPrint
  BY <1>13 DEF abootconfPrint, Start, End, Checked, InSwriteboot, UnforcedKept
<1>14. CASE UNCHANGED vars
  BY <1>14, KeptFrame DEF vars, Checked, InSwriteboot, overlaplabel, Endplace, bootsize
<1> QED
  BY <1>1, <1>2, <1>3, <1>4, <1>5, <1>6, <1>7, <1>8, <1>9, <1>10, <1>11, <1>12, <1>13, <1>14
     DEF Next, sdisklabel, swriteboot, sdNoLabel, swRefused, abootconfFail

(* Every state of every sequence of runs satisfies the invariant: the sum   *)
(* is right after a run that succeeds, a run that fails leaves the disk,    *)
(* swriteboot leaves the partitions it was not told to overwrite, and all   *)
(* partitions set without force are counted.                                *)
THEOREM Invariance == Spec => []IInv
<1>1. Init => IInv
  BY InitInv
<1>2. IInv /\ [Next]_vars => IInv'
  BY NextType, NextRuns, NextListed, NextForce, NextKept DEF IInv
<1> QED
  BY <1>1, <1>2, PTL DEF Spec

(* However far swriteboot gets, a partition that is in the label and not    *)
(* named by -f keeps its contents, unless it is exactly the boot area.      *)
THEOREM UnforcedPartitionsKept == Spec => []UnforcedKept
BY Invariance, PTL DEF IInv
-----------------------------------------------------------------------------
(* Installing the bootstrap *)

FirstByte == BOOT_SECTOR * SECT_SIZE

Insts == [img : ImageFile, kern : Nat, part : PartWord, ok : BOOLEAN]

InstTypes == inst \in Insts /\ start.hdr \in Headers

(* Up to swWords the disk is as the run found it. *)
Unwritten ==
  pc \in {"config", "words"} => data = start.data /\ hdr = start.hdr /\ pos = 0

OldPart ==
  LET old == Magic(start.hdr.sect, start.data) IN IF old = NoMagic THEN 0 ELSE old

PartRead ==
  pc \in {"words", "copy", "sum"} /\ start.hdr.sect < DiskSectors =>
    bootpart = IF opt.c # 0 THEN opt.c ELSE OldPart

(* What has been copied is in its place, with the partition of the image or *)
(* the one configured; nothing else counts as installed.                    *)
Copied ==
  pc \in {"copy", "sum"} =>
    /\ hdr.size = bootsize(opt) /\ hdr.sect = BOOT_SECTOR /\ ~inst.ok
    /\ \A b \in Bytes : FileByte(b) \in 0 .. pos - 1 => data[b].id = Piece(opt, FileByte(b)).id
    /\ FirstByte \in Bytes /\ pos > 0 =>
         data[FirstByte].part = IF pc = "sum" /\ bootpart # 0 /\ opt.img.part # NoMagic
                                THEN bootpart ELSE opt.img.part
    /\ pc = "sum" => pos = Total(opt)

BootInv ==
  IInv /\ InstTypes /\ Unwritten /\ PartRead /\ Copied /\ BootWhole /\ BootPartKept

InstFacts == InstTypes /\ Unwritten /\ PartRead /\ Copied /\ BootWhole /\ BootPartKept

LEMMA NoInstType == NoInst \in Insts /\ ~NoInst.ok
<1>1. NoOpt.img \in ImageFile
  BY Blank
<1> QED BY <1>1, MagicTypes, Zenon DEF NoInst, Insts

LEMMA InitBoot == Init => BootInv
<1> SUFFICES ASSUME Init PROVE BootInv
  OBVIOUS
<1>1. IInv
  BY InitInv
<1>2. start.hdr = hdr /\ hdr \in Headers
  BY <1>1 DEF Init, IInv, TypeOK
<1>3. inst \in Insts /\ ~inst.ok
  BY NoInstType DEF Init
<1> QED BY <1>1, <1>2, <1>3 DEF Init, BootInv, InstTypes, Unwritten, PartRead, Copied, BootWhole, BootPartKept

LEMMA WholeFrame ==
  ASSUME BootWhole, UNCHANGED << hdr, data, inst >> PROVE BootWhole'
BY Zenon DEF BootWhole, Endplace, bootsize, Magic, BOOT_SECTOR

(* Runs of sdisklabel, runs that fail and runs that are interrupted leave   *)
(* what is installed.                                                       *)
LEMMA BootFrame ==
  ASSUME BootInv, UNCHANGED << hdr, data, inst >>, pc' \in {"idle", "args", "label"},
         start'.hdr \in Headers,
         ~(pc' = "idle" /\ tool' = "swriteboot" /\ outcome' = "ok")
  PROVE  InstFacts'
<1>1. InstTypes'
  BY DEF BootInv, InstTypes
<1>2. BootWhole'
  BY WholeFrame DEF BootInv
<1> QED BY <1>1, <1>2 DEF InstFacts, Unwritten, PartRead, Copied, BootPartKept

LEMMA StartHdr ==
  ASSUME BootInv PROVE hdr \in Headers /\ start.hdr \in Headers
BY DEF BootInv, IInv, TypeOK, InstTypes

LEMMA SdBoot ==
  ASSUME BootInv, sdisklabel \/ interrupt PROVE InstFacts'
<1> USE DEF disk, sdvars, swvars, hist
<1>0. hdr \in Headers /\ start.hdr \in Headers
  BY StartHdr
<1>1. /\ pc \in {"args", "label"} => tool = "sdisklabel"
  BY DEF BootInv, IInv, ToolMatches
<1>2. CASE sdStart
  BY <1>0, <1>2, BootFrame DEF sdStart, Start
<1>3. CASE sdNoLabel
  BY <1>0, <1>3, BootFrame DEF sdNoLabel, badUsage, Start, End
<1>4. CASE sdFail \/ sdCrash \/ sdUnmodified \/ sdLabel
  BY <1>0, <1>1, <1>4, BootFrame DEF sdFail, sdCrash, sdUnmodified, sdLabel, End
<1>5. CASE cmdSize \/ cmdSum \/ cmdZero \/ cmdPrint \/ cmdForce \/ sdSum
  BY <1>0, <1>1, <1>5, BootFrame DEF cmdSize, cmdSum, cmdZero, cmdPrint, cmdForce, sdSum, sdArg
<1>6. ASSUME NEW a \in PartArgs, set_partition(a) PROVE InstFacts'
  BY <1>0, <1>1, <1>6, BootFrame DEF set_partition, sdArg
<1>7. CASE interrupt
  BY <1>0, <1>7, BootFrame DEF interrupt, End
<1> QED BY <1>2, <1>3, <1>4, <1>5, <1>6, <1>7 DEF sdisklabel

(* The image and the kernel land behind each other. *)
LEMMA Lengths ==
  ASSUME NEW o, o.img \in ImageFile, o.kern \in Nat
  PROVE  /\ o.img.len \in Nat \ {0} /\ bootsize(o) \in Nat /\ Sectors(o.kern) \in Nat
         /\ bootsize(o) * SECT_SIZE >= o.img.len /\ Sectors(o.kern) * SECT_SIZE >= o.kern
         /\ o.img.len % SECT_SIZE = 0 => bootsize(o) * SECT_SIZE = o.img.len
<1>1. o.img.len \in Nat \ {0}
  BY DEF ImageFile
<1>2. /\ bootsize(o) \in Nat /\ Sectors(o.kern) \in Nat
      /\ bootsize(o) * SECT_SIZE >= o.img.len /\ Sectors(o.kern) * SECT_SIZE >= o.kern
  BY <1>1, SectorsCover DEF bootsize
<1>3. ASSUME NEW l \in Nat, l % SECT_SIZE = 0 PROVE Sectors(l) * SECT_SIZE = l
  <2> DEFINE q == Sectors(l)
             r == l \div SECT_SIZE
  <2>1. q \in Int /\ q * SECT_SIZE <= l + SECT_SIZE - 1 /\ l + SECT_SIZE - 1 < q * SECT_SIZE + SECT_SIZE
    BY DEF Sectors
  <2>2. r \in Int /\ l = SECT_SIZE * r
    BY <1>3
  <2> HIDE DEF q, r
  <2>3. SECT_SIZE * q < SECT_SIZE * (r + 1) /\ SECT_SIZE * r < SECT_SIZE * (q + 1)
    BY <2>1, <2>2
  <2>4. q = r
    BY <2>1, <2>2, <2>3
  <2> QED BY <2>1, <2>2, <2>4 DEF q
<1> QED BY <1>1, <1>2, <1>3 DEF bootsize

LEMMA SwStartBoot ==
  ASSUME BootInv, NEW o \in Options, swStart(o) \/ swRefused(o) PROVE InstFacts'
<1> USE DEF disk, sdvars, swvars, hist
<1>0. hdr \in Headers
  BY StartHdr
<1>1. CASE swRefused(o)
  BY <1>0, <1>1, BootFrame DEF swRefused, badUsage, Start, End
<1>2. CASE swStart(o)
  <2>1. /\ pc' = "config" /\ start' = [lab |-> lab, hdr |-> hdr, sum |-> sum, data |-> data]
        /\ UNCHANGED << hdr, data, inst >> /\ pos' = 0
    BY <1>2 DEF swStart, Start, BootInv, IInv, TypeOK
  <2>2. InstTypes'
    BY <1>0, <2>1 DEF BootInv, InstTypes
  <2>3. BootWhole'
    BY <2>1, WholeFrame DEF BootInv
  <2> QED BY <2>1, <2>2, <2>3 DEF InstFacts, Unwritten, PartRead, Copied, BootPartKept
<1> QED BY <1>1, <1>2

LEMMA SwReadBoot ==
  ASSUME BootInv, read_configured_partition PROVE InstFacts'
<1> USE DEF disk, sdvars, swvars, hist
<1>1. /\ pc = "config" /\ pc' = "words" /\ UNCHANGED << hdr, data, inst, start, opt, pos >>
      /\ bootpart' \in IF opt.c # 0 THEN {opt.c} ELSE Configured(hdr, data)
  BY DEF read_configured_partition
<1>2. data = start.data /\ hdr = start.hdr /\ pos = 0
  BY <1>1 DEF BootInv, Unwritten
<1>3. PartRead'
  <2>1. ASSUME start.hdr.sect < DiskSectors
        PROVE  bootpart' = IF opt.c # 0 THEN opt.c ELSE OldPart
    <3>1. start.hdr.sect \in Nat
      BY StartHdr DEF Headers
    <3>2. ~(start.hdr.sect >= DiskSectors)
      BY <2>1, <3>1
    <3> QED BY <1>1, <1>2, <3>2 DEF Configured, OldPart
  <2> QED BY <1>1, <2>1 DEF PartRead, OldPart, Magic
<1>4. InstTypes' /\ Unwritten'
  BY <1>1, <1>2 DEF BootInv, InstTypes, Unwritten
<1>5. BootWhole'
  BY <1>1, WholeFrame DEF BootInv
<1> QED BY <1>1, <1>3, <1>4, <1>5 DEF InstFacts, Copied, BootPartKept

LEMMA SwWordsBoot ==
  ASSUME BootInv, swWords PROVE InstFacts'
<1> USE DEF disk, sdvars, swvars, hist
<1>1. /\ pc = "words" /\ pc' = "copy" /\ inst' = NoInst
      /\ hdr' = [size |-> bootsize(opt), sect |-> BOOT_SECTOR, flags |-> 0]
      /\ UNCHANGED << data, start, opt, bootpart, pos >>
  BY DEF swWords
<1>2. inst' \in Insts /\ ~inst'.ok
  BY <1>1, NoInstType
<1>3. hdr'.size = bootsize(opt) /\ hdr'.sect = BOOT_SECTOR
  BY <1>1
<1>4. InstTypes'
  BY <1>1, <1>2, StartHdr DEF InstTypes
<1>5. pos = 0
  BY <1>1 DEF BootInv, Unwritten
<1>6. Copied'
  BY <1>1, <1>2, <1>3, <1>5 DEF Copied, bootsize
<1>7. PartRead'
  BY <1>1, Zenon DEF BootInv, PartRead, OldPart, Magic
<1> QED BY <1>1, <1>2, <1>4, <1>6, <1>7 DEF InstFacts, Unwritten, BootWhole, BootPartKept

LEMMA SwCopyBoot ==
  ASSUME BootInv, swCopy PROVE InstFacts'
<1> USE DEF disk, sdvars, swvars, hist
<1>1. /\ pc = "copy" /\ pc' = "copy" /\ pos < Total(opt) /\ pos' = pos + Chunk
      /\ data' = [b \in Bytes |->
                   IF FileByte(b) \in pos .. pos + Chunk - 1 THEN Piece(opt, FileByte(b)) ELSE data[b]]
      /\ UNCHANGED << hdr, start, opt, bootpart, inst >>
  BY DEF swCopy
<1>2. opt.img.len \in Nat \ {0} /\ opt.kern \in Nat /\ pos \in Nat
  BY DEF BootInv, IInv, TypeOK, ImageFile, Total
<1>3. Chunk \in Nat \ {0}
  BY <1>1, <1>2 DEF Chunk, Total
<1>4. /\ hdr.size = bootsize(opt) /\ hdr.sect = BOOT_SECTOR /\ ~inst.ok
      /\ \A b \in Bytes : FileByte(b) \in 0 .. pos - 1 => data[b].id = Piece(opt, FileByte(b)).id
      /\ FirstByte \in Bytes /\ pos > 0 => data[FirstByte].part = opt.img.part
  BY <1>1 DEF BootInv, Copied
<1>5. ASSUME NEW b \in Bytes, FileByte(b) \in 0 .. pos' - 1
      PROVE  data'[b].id = Piece(opt, FileByte(b)).id
  <2>1. CASE FileByte(b) \in pos .. pos + Chunk - 1
    BY <1>1, <2>1
  <2>2. CASE FileByte(b) \notin pos .. pos + Chunk - 1
    <3>1. FileByte(b) \in 0 .. pos - 1
      BY <1>1, <1>2, <1>3, <1>5, <2>2
    <3> QED BY <1>1, <1>4, <2>2, <3>1
  <2> QED BY <2>1, <2>2
<1>6. ASSUME FirstByte \in Bytes PROVE data'[FirstByte].part = opt.img.part
  <2>1. FileByte(FirstByte) = 0
    BY DEF FileByte, FirstByte
  <2>2. CASE pos = 0
    <3>1. 0 \in pos .. pos + Chunk - 1 /\ 0 < opt.img.len
      BY <1>2, <1>3, <2>2
    <3>2. data'[FirstByte] = Piece(opt, 0)
      BY <1>1, <1>6, <2>1, <3>1
    <3> QED BY <3>1, <3>2 DEF Piece
  <2>3. CASE pos # 0
    <3>1. ~(0 \in pos .. pos + Chunk - 1) /\ pos > 0
      BY <1>2, <2>3
    <3>2. data'[FirstByte] = data[FirstByte]
      BY <1>1, <1>6, <2>1, <3>1
    <3> QED BY <1>4, <1>6, <3>1, <3>2
  <2> QED BY <2>2, <2>3
<1>7. Copied'
  <2>1. bootsize(opt)' = bootsize(opt) /\ \A b : FileByte(b)' = FileByte(b)
    BY <1>1 DEF bootsize, FileByte
  <2>2. \A b \in Bytes : FileByte(b) \in 0 .. pos' - 1 => data'[b].id = Piece(opt', FileByte(b)).id
    BY <1>1, <1>5
  <2> QED BY <1>1, <1>4, <1>6, <2>1, <2>2 DEF Copied, Piece, FileByte
<1>8. PartRead' /\ InstTypes'
  BY <1>1, Zenon DEF BootInv, PartRead, OldPart, Magic, InstTypes
<1> QED BY <1>1, <1>4, <1>7, <1>8 DEF InstFacts, Unwritten, BootWhole, BootPartKept

(* What writing the partition number changes. *)
LEMMA SetMagicKeeps ==
  ASSUME TypeOK, NEW s \in Nat, NEW p \in Nat
  PROVE  /\ \A b \in Bytes : SetMagic(s, p)[b].id = data[b].id
         /\ s * SECT_SIZE \in Bytes =>
              SetMagic(s, p)[s * SECT_SIZE].part =
                IF data[s * SECT_SIZE].part = NoMagic THEN NoMagic ELSE p
<1>1. data \in [Bytes -> Content]
  BY DEF TypeOK
<1>2. CASE Magic(s, data) = NoMagic
  BY <1>2 DEF SetMagic, Magic
<1>3. CASE Magic(s, data) # NoMagic
  <2>1. s * SECT_SIZE \in Bytes /\ data[s * SECT_SIZE].part # NoMagic
    BY <1>3 DEF Magic
  <2>2. SetMagic(s, p) = [data EXCEPT ![s * SECT_SIZE] = [data[s * SECT_SIZE] EXCEPT !.part = p]]
    BY <1>3 DEF SetMagic
  <2>3. data[s * SECT_SIZE] \in Content
    BY <1>1, <2>1
  <2>4. /\ [data[s * SECT_SIZE] EXCEPT !.part = p].id = data[s * SECT_SIZE].id
        /\ [data[s * SECT_SIZE] EXCEPT !.part = p].part = p
    BY <2>3 DEF Content
  <2> QED BY <1>1, <2>1, <2>2, <2>4
<1> QED BY <1>2, <1>3

LEMMA SwConfigBoot ==
  ASSUME BootInv, swConfig PROVE InstFacts'
<1> USE DEF disk, sdvars, swvars, hist
<1>1. /\ pc = "copy" /\ pc' = "sum" /\ pos = Total(opt)
      /\ data' = IF bootpart = 0 THEN data ELSE SetMagic(BOOT_SECTOR, bootpart)
      /\ UNCHANGED << hdr, start, opt, bootpart, inst, pos >>
  BY DEF swConfig
<1>2. opt.img.len \in Nat \ {0} /\ opt.kern \in Nat /\ pos \in Nat /\ bootpart \in Nat /\ TypeOK
  BY DEF BootInv, IInv, TypeOK, ImageFile, Total
<1>3. pos > 0
  BY <1>1, <1>2 DEF Total
<1>4. /\ hdr.size = bootsize(opt) /\ hdr.sect = BOOT_SECTOR /\ ~inst.ok
      /\ \A b \in Bytes : FileByte(b) \in 0 .. pos - 1 => data[b].id = Piece(opt, FileByte(b)).id
      /\ FirstByte \in Bytes => data[FirstByte].part = opt.img.part
  BY <1>1, <1>3 DEF BootInv, Copied
<1>5. /\ \A b \in Bytes : data'[b].id = data[b].id
      /\ FirstByte \in Bytes =>
           data'[FirstByte].part = IF bootpart # 0 /\ opt.img.part # NoMagic
                                   THEN bootpart ELSE opt.img.part
  <2>1. CASE bootpart = 0
    BY <1>1, <1>4, <2>1
  <2>2. CASE bootpart # 0
    BY <1>1, <1>2, <1>4, <2>2, SetMagicKeeps DEF FirstByte
  <2> QED BY <2>1, <2>2
<1>6. Copied'
  <2>1. bootsize(opt') = bootsize(opt) /\ Total(opt') = Total(opt)
    BY <1>1
  <2>2. \A b \in Bytes : FileByte(b) \in 0 .. pos' - 1 => data'[b].id = Piece(opt', FileByte(b)).id
    BY <1>1, <1>4, <1>5
  <2> QED BY <1>1, <1>4, <1>5, <2>1, <2>2 DEF Copied, Piece, FileByte, bootsize, Total
<1>7. PartRead' /\ InstTypes'
  BY <1>1, Zenon DEF BootInv, PartRead, OldPart, Magic, InstTypes
<1> QED BY <1>1, <1>4, <1>6, <1>7 DEF InstFacts, Unwritten, BootWhole, BootPartKept

(* What fits on the disk in sectors fits in bytes. *)
LEMMA AreaOnDisk ==
  ASSUME NEW o, o.img \in ImageFile, o.kern \in Nat, Endplace(o) <= DiskSectors,
         NEW k \in Nat, k < (bootsize(o) + Sectors(o.kern)) * SECT_SIZE
  PROVE  FirstByte + k \in Bytes /\ FileByte(FirstByte + k) = k
<1> DEFINE e == bootsize(o) + Sectors(o.kern)
<1>1. e \in Nat /\ e + 2 <= DiskSectors /\ k < e * SECT_SIZE
  BY Lengths DEF Endplace
<1> HIDE DEF e
<1>2. (e + 2) * SECT_SIZE <= DiskSectors * SECT_SIZE
  BY <1>1
<1>3. (e + 2) * SECT_SIZE = e * SECT_SIZE + 2 * SECT_SIZE
  BY <1>1
<1> QED BY <1>1, <1>2, <1>3 DEF FirstByte, Bytes, FileByte

LEMMA SwSumBoot ==
  ASSUME BootInv, swSum PROVE InstFacts'
<1> USE DEF disk, sdvars, swvars, hist
<1>1. /\ pc = "sum" /\ pc' = "idle" /\ outcome' = "ok"
      /\ inst' = [img |-> opt.img, kern |-> opt.kern, part |-> Magic(BOOT_SECTOR, data), ok |-> TRUE]
      /\ UNCHANGED << hdr, start, opt, data, tool >>
  BY DEF swSum, End
<1>2. inst'.img = opt.img /\ inst'.kern = opt.kern /\ inst'.part = Magic(BOOT_SECTOR, data)
  BY <1>1
<1>3. opt.img \in ImageFile /\ opt.kern \in Nat /\ opt.img.len \in Nat \ {0} /\ bootpart \in Nat
  BY DEF BootInv, IInv, TypeOK, ImageFile
<1>4. /\ hdr.size = bootsize(opt) /\ hdr.sect = BOOT_SECTOR /\ pos = Total(opt)
      /\ \A b \in Bytes : FileByte(b) \in 0 .. pos - 1 => data[b].id = Piece(opt, FileByte(b)).id
      /\ FirstByte \in Bytes /\ pos > 0 =>
           data[FirstByte].part = IF bootpart # 0 /\ opt.img.part # NoMagic
                                  THEN bootpart ELSE opt.img.part
  BY <1>1 DEF BootInv, Copied
<1>5. InstTypes'
  <2>1. Magic(BOOT_SECTOR, data) \in PartWord
    BY MagicTypes DEF BootInv, IInv, TypeOK, Content, Magic
  <2>2. inst' \in Insts
    BY <1>1, <1>3, <2>1, Zenon DEF Insts
  <2> QED BY <1>1, <2>2, StartHdr DEF InstTypes
<1>6. /\ bootsize(opt) \in Nat /\ Sectors(opt.kern) \in Nat
      /\ bootsize(opt) * SECT_SIZE >= opt.img.len /\ Sectors(opt.kern) * SECT_SIZE >= opt.kern
      /\ opt.img.len % SECT_SIZE = 0 => bootsize(opt) * SECT_SIZE = opt.img.len
  BY <1>3, Lengths
<1>7. (bootsize(opt) + Sectors(opt.kern)) * SECT_SIZE
         = bootsize(opt) * SECT_SIZE + Sectors(opt.kern) * SECT_SIZE
  BY <1>6
<1>8. /\ bootsize(opt) * SECT_SIZE \in Nat /\ Sectors(opt.kern) * SECT_SIZE \in Nat
      /\ pos = opt.img.len + opt.kern
  BY <1>4, <1>6 DEF Total
<1>9. ASSUME Endplace(opt) <= DiskSectors, NEW k \in 0 .. opt.img.len - 1
      PROVE  data[hdr.sect * SECT_SIZE + k].id = << opt.img.name, k >>
  <2>1. k \in Nat /\ k < (bootsize(opt) + Sectors(opt.kern)) * SECT_SIZE /\ k \in 0 .. pos - 1 /\ k < opt.img.len
    BY <1>3, <1>6, <1>7, <1>8
  <2>2. FirstByte + k \in Bytes /\ FileByte(FirstByte + k) = k
    BY <1>3, <1>9, <2>1, AreaOnDisk
  <2>3. data[FirstByte + k].id = Piece(opt, k).id
    BY <1>4, <2>1, <2>2
  <2>4. Piece(opt, k).id = << opt.img.name, k >>
    BY <2>1 DEF Piece
  <2>5. hdr.sect * SECT_SIZE + k = FirstByte + k
    BY <1>4 DEF FirstByte
  <2> QED BY <2>3, <2>4, <2>5
<1>10. ASSUME Endplace(opt) <= DiskSectors, opt.img.len % SECT_SIZE = 0, NEW k \in 0 .. opt.kern - 1
       PROVE  data[(hdr.sect + hdr.size) * SECT_SIZE + k].id = << "kernel", k >>
  <2> DEFINE j == opt.img.len + k
  <2>1. /\ j \in Nat /\ j < (bootsize(opt) + Sectors(opt.kern)) * SECT_SIZE /\ j \in 0 .. pos - 1
        /\ ~(j < opt.img.len) /\ j - opt.img.len = k
    BY <1>3, <1>6, <1>7, <1>8
  <2>2. (hdr.sect + hdr.size) * SECT_SIZE + k = FirstByte + j
    <3>1. (hdr.sect + hdr.size) * SECT_SIZE = 2 * SECT_SIZE + bootsize(opt) * SECT_SIZE
      BY <1>4, <1>6
    <3>2. bootsize(opt) * SECT_SIZE = opt.img.len
      BY <1>6, <1>10
    <3> QED BY <1>3, <3>1, <3>2 DEF FirstByte
  <2> HIDE DEF j
  <2>3. FirstByte + j \in Bytes /\ FileByte(FirstByte + j) = j
    BY <1>3, <1>10, <2>1, AreaOnDisk
  <2>4. data[FirstByte + j].id = Piece(opt, j).id
    BY <1>4, <2>1, <2>3
  <2>5. Piece(opt, j).id = << "kernel", k >>
    BY <2>1 DEF Piece
  <2> QED BY <2>2, <2>4, <2>5
<1>11. BootWhole'
  <2>1. /\ Endplace(inst') = Endplace(opt) /\ bootsize(inst') = bootsize(opt)
        /\ inst'.img = opt.img /\ inst'.kern = opt.kern
    BY <1>2 DEF Endplace, bootsize
  <2>2. ASSUME Endplace(inst') <= DiskSectors
        PROVE  /\ hdr'.sect = BOOT_SECTOR /\ hdr'.size = bootsize(inst')
               /\ Magic(hdr'.sect, data') = inst'.part
               /\ \A k \in 0 .. inst'.img.len - 1 :
                    data'[hdr'.sect * SECT_SIZE + k].id = << inst'.img.name, k >>
               /\ inst'.img.len % SECT_SIZE = 0 =>
                    \A k \in 0 .. inst'.kern - 1 :
                      data'[(hdr'.sect + hdr'.size) * SECT_SIZE + k].id = << "kernel", k >>
    BY <1>1, <1>2, <1>4, <1>9, <1>10, <2>1, <2>2
  <2> QED BY <2>2, Zenon DEF BootWhole, Endplace, bootsize, Magic
<1>12. BootPartKept'
  <2> SUFFICES ASSUME opt.img.part # NoMagic, Endplace(opt) <= DiskSectors,
                      start.hdr.sect < DiskSectors
               PROVE  Magic(BOOT_SECTOR, data) =
                        LET old == Magic(start.hdr.sect, start.data)
                        IN  IF opt.c # 0 THEN opt.c
                            ELSE IF old \in {0, NoMagic} THEN opt.img.part ELSE old
    BY <1>1, Zenon DEF BootPartKept, Magic, Endplace, bootsize
  <2>1. FirstByte \in Bytes
    <3>1. 0 \in Nat /\ 0 < (bootsize(opt) + Sectors(opt.kern)) * SECT_SIZE
      <4>1. bootsize(opt) * SECT_SIZE > 0
        BY <1>3, <1>6, <1>8
      <4> QED BY <1>7, <1>8, <4>1
    <3>2. FirstByte + 0 \in Bytes
      BY <1>3, <3>1, AreaOnDisk
    <3> QED BY <3>2 DEF FirstByte
  <2>2. pos > 0
    BY <1>3, <1>8
  <2>3. Magic(BOOT_SECTOR, data) = IF bootpart # 0 THEN bootpart ELSE opt.img.part
    BY <1>4, <2>1, <2>2 DEF Magic, FirstByte
  <2>4. bootpart = IF opt.c # 0 THEN opt.c ELSE OldPart
    BY <1>1 DEF BootInv, PartRead
  <2> QED BY <2>3, <2>4 DEF OldPart, NoMagic
<1> QED BY <1>1, <1>5, <1>11, <1>12 DEF InstFacts, Unwritten, PartRead, Copied

LEMMA AbootconfBoot ==
  ASSUME BootInv, NEW p \in Confs \union {0}, abootconf(p) PROVE InstFacts'
<1>1. /\ pc' = "idle" /\ tool' = "abootconf" /\ data' = SetMagic(hdr.sect, p) /\ hdr' = hdr
      /\ inst' = IF inst.ok THEN [inst EXCEPT !.part = p] ELSE inst
      /\ hdr.sect < DiskSectors /\ Magic(hdr.sect, data) # NoMagic /\ start'.hdr = hdr
  BY DEF abootconf, Start, End
<1>2. p \in Nat /\ hdr.sect \in Nat /\ TypeOK /\ hdr \in Headers
  BY ArgTypes, StartHdr DEF BootInv, IInv, Headers
<1>3. /\ inst' \in Insts /\ inst'.img = inst.img /\ inst'.kern = inst.kern
      /\ inst'.ok = inst.ok /\ (inst.ok => inst'.part = p)
  <2>0. inst \in Insts /\ p \in PartWord
    BY <1>2, MagicTypes DEF BootInv, InstTypes
  <2>1. CASE inst.ok
    <3>1. inst' = [img |-> inst.img, kern |-> inst.kern, part |-> p, ok |-> inst.ok]
      BY <1>1, <2>0, <2>1 DEF Insts
    <3>2. inst' \in Insts
      BY <2>0, <3>1, Zenon DEF Insts
    <3> QED BY <3>1, <3>2, Zenon
  <2>2. CASE ~inst.ok
    BY <1>1, <2>0, <2>2, Zenon
  <2> QED BY <2>1, <2>2
<1>4. InstTypes'
  BY <1>1, <1>2, <1>3 DEF InstTypes
<1>5. hdr.sect * SECT_SIZE \in Bytes /\ data[hdr.sect * SECT_SIZE].part # NoMagic
  BY <1>1 DEF Magic
<1>6. /\ \A b \in Bytes : data'[b].id = data[b].id
      /\ data'[hdr.sect * SECT_SIZE].part = p
  BY <1>1, <1>2, <1>5, SetMagicKeeps
<1>7. ASSUME inst.ok, Endplace(inst) <= DiskSectors
      PROVE  /\ hdr.sect = BOOT_SECTOR /\ hdr.size = bootsize(inst)
             /\ Magic(hdr.sect, data') = p
             /\ \A k \in 0 .. inst.img.len - 1 :
                  data'[hdr.sect * SECT_SIZE + k].id = << inst.img.name, k >>
             /\ inst.img.len % SECT_SIZE = 0 =>
                  \A k \in 0 .. inst.kern - 1 :
                    data'[(hdr.sect + hdr.size) * SECT_SIZE + k].id = << "kernel", k >>
  <2>0. inst.img \in ImageFile /\ inst.kern \in Nat /\ inst.img.len \in Nat
    BY DEF BootInv, InstTypes, Insts, ImageFile
  <2>1. /\ hdr.sect = BOOT_SECTOR /\ hdr.size = bootsize(inst)
        /\ \A k \in 0 .. inst.img.len - 1 :
             data[hdr.sect * SECT_SIZE + k].id = << inst.img.name, k >>
        /\ inst.img.len % SECT_SIZE = 0 =>
             \A k \in 0 .. inst.kern - 1 :
               data[(hdr.sect + hdr.size) * SECT_SIZE + k].id = << "kernel", k >>
    BY <1>7 DEF BootInv, BootWhole
  <2>2. Magic(hdr.sect, data') = p
    BY <1>5, <1>6 DEF Magic
  <2>3. /\ bootsize(inst) \in Nat /\ Sectors(inst.kern) \in Nat
        /\ bootsize(inst) * SECT_SIZE >= inst.img.len /\ Sectors(inst.kern) * SECT_SIZE >= inst.kern
        /\ inst.img.len % SECT_SIZE = 0 => bootsize(inst) * SECT_SIZE = inst.img.len
    BY <2>0, Lengths
  <2>4. (bootsize(inst) + Sectors(inst.kern)) * SECT_SIZE
           = bootsize(inst) * SECT_SIZE + Sectors(inst.kern) * SECT_SIZE
        /\ Sectors(inst.kern) * SECT_SIZE \in Nat /\ bootsize(inst) * SECT_SIZE \in Nat
    BY <2>3
  <2>5. ASSUME NEW k \in 0 .. inst.img.len - 1 PROVE hdr.sect * SECT_SIZE + k \in Bytes
    <3>1. k \in Nat /\ k < (bootsize(inst) + Sectors(inst.kern)) * SECT_SIZE
      BY <2>0, <2>3, <2>4
    <3>2. FirstByte + k \in Bytes
      BY <1>7, <2>0, <3>1, AreaOnDisk
    <3> QED BY <2>1, <3>2 DEF FirstByte
  <2>6. ASSUME inst.img.len % SECT_SIZE = 0, NEW k \in 0 .. inst.kern - 1
        PROVE  (hdr.sect + hdr.size) * SECT_SIZE + k \in Bytes
    <3> DEFINE j == bootsize(inst) * SECT_SIZE + k
    <3>1. j \in Nat /\ j < (bootsize(inst) + Sectors(inst.kern)) * SECT_SIZE
      BY <2>0, <2>3, <2>4
    <3>2. (hdr.sect + hdr.size) * SECT_SIZE + k = FirstByte + j
      <4>1. (2 + bootsize(inst)) * SECT_SIZE = 2 * SECT_SIZE + bootsize(inst) * SECT_SIZE
        BY <2>3
      <4>2. k \in Int
        BY <2>0
      <4> QED BY <2>1, <2>4, <4>1, <4>2 DEF FirstByte
    <3> HIDE DEF j
    <3>3. FirstByte + j \in Bytes
      BY <1>7, <2>0, <3>1, AreaOnDisk
    <3> QED BY <3>2, <3>3
  <2> QED BY <1>6, <2>1, <2>2, <2>5, <2>6
<1>8. BootWhole'
  <2>1. Endplace(inst') = Endplace(inst) /\ bootsize(inst') = bootsize(inst)
    BY <1>3 DEF Endplace, bootsize
  <2>2. ASSUME inst'.ok, Endplace(inst') <= DiskSectors
        PROVE  /\ hdr'.sect = BOOT_SECTOR /\ hdr'.size = bootsize(inst')
               /\ Magic(hdr'.sect, data') = inst'.part
               /\ \A k \in 0 .. inst'.img.len - 1 :
                    data'[hdr'.sect * SECT_SIZE + k].id = << inst'.img.name, k >>
               /\ inst'.img.len % SECT_SIZE = 0 =>
                    \A k \in 0 .. inst'.kern - 1 :
                      data'[(hdr'.sect + hdr'.size) * SECT_SIZE + k].id = << "kernel", k >>
    <3>1. inst.ok /\ Endplace(inst) <= DiskSectors /\ inst'.part = p
      BY <1>3, <2>1, <2>2, Zenon
    <3>2. /\ hdr.sect = BOOT_SECTOR /\ hdr.size = bootsize(inst)
          /\ Magic(hdr.sect, data') = p
          /\ \A k \in 0 .. inst.img.len - 1 :
               data'[hdr.sect * SECT_SIZE + k].id = << inst.img.name, k >>
          /\ inst.img.len % SECT_SIZE = 0 =>
               \A k \in 0 .. inst.kern - 1 :
                 data'[(hdr.sect + hdr.size) * SECT_SIZE + k].id = << "kernel", k >>
      BY <1>7, <3>1
    <3>3. hdr' = hdr
      BY <1>1
    <3> QED BY <1>3, <2>1, <3>1, <3>2, <3>3, Zenon
  <2> QED BY <2>2, Zenon DEF BootWhole, Endplace, bootsize, Magic
<1> QED BY <1>1, <1>4, <1>8 DEF InstFacts, Unwritten, PartRead, Copied, BootPartKept

LEMMA NextBoot == BootInv /\ [Next]_vars => BootInv'
<1> SUFFICES ASSUME BootInv, [Next]_vars PROVE BootInv'
  OBVIOUS
<1>1. IInv'
  BY NextType, NextRuns, NextListed, NextForce, NextKept DEF IInv, BootInv
<1>2. ASSUME abootconfFail \/ abootconfPrint PROVE InstFacts'
  BY <1>2, BootFrame, StartHdr DEF abootconfFail, abootconfPrint, badUsage, Start, End, disk
<1>3. ASSUME UNCHANGED vars PROVE InstFacts'
  <2>1. UNCHANGED << pc, hdr, data, opt, bootpart, pos, tool, start, inst, outcome >>
    BY <1>3 DEF vars, disk, swvars, hist
  <2>2. (Unwritten /\ PartRead /\ InstTypes)'
    BY <2>1, Zenon DEF BootInv, Unwritten, PartRead, OldPart, Magic, InstTypes
  <2>3. Copied'
    BY <2>1, Zenon DEF BootInv, Copied, bootsize, Piece, Total, FileByte
  <2>4. BootWhole' /\ BootPartKept'
    BY <2>1, WholeFrame, Zenon DEF BootInv, BootPartKept, Magic, Endplace, bootsize
  <2> QED BY <2>2, <2>3, <2>4 DEF InstFacts
<1>4. InstFacts'
  BY <1>2, <1>3, SdBoot, SwStartBoot, SwReadBoot, SwWordsBoot, SwCopyBoot, SwConfigBoot, SwSumBoot, AbootconfBoot
     DEF Next, swriteboot
<1> QED BY <1>1, <1>4 DEF BootInv, InstFacts

LEMMA BootInvariance == Spec => []BootInv
BY InitBoot, NextBoot, PTL DEF Spec

(* After swriteboot, and until it writes again, the words of sector 0 name  *)
(* the bootstrap, which is whole on the disk with the partition that was    *)
(* configured last, and the kernel is where load_raw looks for it, whatever *)
(* runs of the tools come after: for every image, kernel, disk and buffer.  *)
THEOREM BootStaysWhole == Spec => []BootWhole
BY BootInvariance, PTL DEF BootInv

(* swriteboot installs the partition given with -c, or keeps the one of the *)
(* bootstrap that was there, however the copy is cut into buffers.          *)
THEOREM BootPartitionKept == Spec => []BootPartKept
BY BootInvariance, PTL DEF BootInv
=============================================================================
