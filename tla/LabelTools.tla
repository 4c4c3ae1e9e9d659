----------------------------- MODULE LabelTools -----------------------------
(* The tools that share the first sectors of a disk, run one after another: *)
(* sdisklabel edits the label, swriteboot installs the bootstrap and a      *)
(* kernel behind it, abootconf sets the partition of aboot.conf.            *)
(* sdisklabel/{library,sdisklabel,swriteboot}.c and tools/abootconf.c.      *)
(* Sector 0 holds the label, the words 60 to 62 that tell the console where *)
(* the bootstrap is, and their sum, without which it does not boot.  A run  *)
(* may be interrupted between any two writes.                               *)
EXTENDS Integers

CONSTANTS
  DiskSectors,      \* sectors of the disk
  GeoSectors,       \* heads * sectors * cylinders, which is truncated
  SECT_SIZE,
  MAXPARTITIONS,
  IntSize,          \* number of values of an int, 2^32
  BUFSIZE,          \* bytes copied at a time
  Images, Kernels,  \* bootstraps; lengths of kernels, 0 if none is given
  PartArgs,         \* arguments of sdisklabel: number, offset, size
  SizeArgs,         \* arguments of its command size
  Confs,            \* partition numbers for -c and abootconf
  Disks,            \* the disks the tools start from, see Init
  MaxArgs, MaxRuns  \* bounds on the commands of a run and on the runs

ASSUME SizesAssumption ==
  /\ DiskSectors \in Nat /\ GeoSectors \in 0 .. DiskSectors
  /\ SECT_SIZE \in Nat \ {0} /\ BUFSIZE \in Nat \ {0}
  /\ MAXPARTITIONS \in Nat \ {0}
  /\ IntSize \in Nat /\ 2 * DiskSectors < IntSize
  /\ MaxArgs \in Nat /\ MaxRuns \in Nat

BOOT_SECTOR == 2
NoMagic == -1
Bytes == 0 .. DiskSectors * SECT_SIZE - 1
Parts == 0 .. MAXPARTITIONS - 1
Words == 0 .. IntSize - 1

(* A bootstrap has a length and the partition in the word behind            *)
(* ABOOT_MAGIC in its first bytes, NoMagic if that is missing.  A byte of   *)
(* the disk has the place in a file it comes from, and the first one of a   *)
(* sector that partition.                                                   *)
PartWord == Nat \union {NoMagic}
FileNames == {"none", "old", "kernel"} \union {i.name : i \in Images}
ImageFile == [name : FileNames, len : Nat \ {0}, part : PartWord]
Content == [id : FileNames \X Nat, part : PartWord]
Labels ==
  [ok : BOOLEAN, n : 0 .. MAXPARTITIONS, part : [Parts -> [off : Nat, size : Words]]]
Headers == [size : Nat, sect : Nat, flags : Nat]

NoPart == [off |-> 0, size |-> 0]

(* Every partition that is set is counted. *)
Listed(label) == \A x \in Parts : x >= label.n => label.part[x] = NoPart

ASSUME ArgsAssumption ==
  /\ Images \subseteq ImageFile
  /\ Kernels \subseteq Nat /\ Confs \subseteq Nat
  /\ PartArgs \subseteq [num : Nat, off : Nat, size : Nat]
  /\ SizeArgs \subseteq Nat

ASSUME DisksAssumption ==
  \A k \in Disks :
    /\ k.lab \in Labels /\ Listed(k.lab)
    /\ k.hdr \in Headers /\ k.data \in [Bytes -> Content]

VARIABLES
  lab,              \* the label on disk
  hdr,              \* the words 60 to 62: bootsize, bootsect, flags
  sum,              \* word 63: what was summed up
  data,             \* the bytes behind sector 0
  pc,
  d, total_disk_size, force, label_modified,        \* of sdisklabel
  args, sized,      \* commands done; whether the last one was size
  opt, bootpart, pos,       \* of swriteboot: its options; bytes copied
  run, tool, outcome,       \* history: number, name and end of the last run
  start,            \* history: the disk before the last run
  summed, forced,   \* history: the run has written a sum; force was ever used
  inst              \* history: the last complete installation

disk == << lab, hdr, sum, data >>
sdvars == << d, total_disk_size, force, label_modified, args, sized >>
swvars == << opt, bootpart, pos >>
hist == << run, tool, start, forced, inst >>
vars == << disk, pc, sdvars, swvars, hist, outcome, summed >>

ZeroLabel == [ok |-> TRUE, n |-> 0, part |-> [x \in Parts |-> NoPart]]
NoOpt == [img |-> [name |-> "none", len |-> 1, part |-> NoMagic], kern |-> 0, f |-> {}, c |-> 0]
NoInst == [img |-> NoOpt.img, kern |-> 0, part |-> NoMagic, ok |-> FALSE]

(* A conversion of a 32-bit word to int. *)
ToInt(v) == LET w == v % IntSize IN IF 2 * w < IntSize THEN w ELSE w - IntSize

Sectors(len) == (len + SECT_SIZE - 1) \div SECT_SIZE
SectorOf(b) == b \div SECT_SIZE

(* The word behind ABOOT_MAGIC in sector s, NoMagic if it has none. *)
Magic(s, bytes) == IF s * SECT_SIZE \in Bytes THEN bytes[s * SECT_SIZE].part ELSE NoMagic

SetMagic(s, p) ==
  IF Magic(s, data) = NoMagic THEN data
  ELSE [data EXCEPT ![s * SECT_SIZE].part = p]

Init ==
  /\ \E k \in Disks : lab = k.lab /\ hdr = k.hdr /\ sum = k.sum /\ data = k.data
  /\ pc = "idle"
  /\ d = ZeroLabel /\ total_disk_size = 0 /\ force = FALSE /\ label_modified = FALSE
  /\ args = 0 /\ sized = FALSE
  /\ opt = NoOpt /\ bootpart = 0 /\ pos = 0
  /\ run = 0 /\ tool = "none" /\ outcome = "none"
  /\ start = [lab |-> lab, hdr |-> hdr, sum |-> sum, data |-> data]
  /\ summed = FALSE /\ forced = FALSE /\ inst = NoInst
-----------------------------------------------------------------------------
(* library.c *)

(* Mutant: the label on disk is summed. *)
dosumlabelDisk(label) == sum' = << lab, hdr >>

(* dosumlabel: the sum of sector 0 with the label of the caller. *)
dosumlabel(label) == sum' = << label, hdr >>

(* Mutant: only ends inside of the other range are looked for. *)
does_overlapEnds(a1, a2, b1, b2) == (a1 > b1 /\ a1 < b2) \/ (a2 > b1 /\ a2 < b2)

does_overlap(a1, a2, b1, b2) ==
  \/ a1 > b1 /\ a1 < b2
  \/ a2 > b1 /\ a2 < b2
  \/ b1 > a1 /\ b1 < a2
  \/ b2 > a1 /\ b2 < a2

(* The partitions that overlaplabel looks through the label for. *)
overlaplabel(label, offset, endplace, ignore) ==
  {x \in Parts :
     /\ x < label.n /\ x \notin ignore
     /\ LET part_end == ToInt(label.part[x].off + label.part[x].size)
        IN  part_end > 0 /\ does_overlap(ToInt(label.part[x].off), part_end, offset, endplace)}
-----------------------------------------------------------------------------
(* A tool is run. *)
Start(t) ==
  /\ pc = "idle" /\ run < MaxRuns
  /\ run' = run + 1 /\ tool' = t /\ summed' = FALSE
  /\ start' = [lab |-> lab, hdr |-> hdr, sum |-> sum, data |-> data]

(* The process ends and its variables are gone. *)
End(o) ==
  /\ pc' = "idle" /\ outcome' = o
  /\ d' = ZeroLabel /\ total_disk_size' = 0 /\ force' = FALSE /\ label_modified' = FALSE
  /\ args' = 0 /\ sized' = FALSE
  /\ bootpart' = 0 /\ pos' = 0

(* Wrong options, a device or file that cannot be opened. *)
badUsage(t) ==
  /\ Start(t) /\ End("fail") /\ opt' = NoOpt
  /\ UNCHANGED << disk, forced, inst >>

(* The process is killed or the power fails. *)
interrupt ==
  /\ pc # "idle" /\ End("interrupted")
  /\ UNCHANGED << disk, opt, hist, summed >>
-----------------------------------------------------------------------------
(* sdisklabel.c *)

(* set_disk_size: BLKGETSIZE and HDIO_GETGEO work; HDIO_GETGEO only; with   *)
(* BLKGETSIZE alone, or neither, total_disk_size keeps its 0.               *)
set_disk_size == total_disk_size' \in {DiskSectors, GeoSectors, 0}

(* main up to the loop over the arguments.  The first one is not looked at  *)
(* in the loop if it is zero: zeroing the label twice is zeroing it once.   *)
sdStart ==
  /\ Start("sdisklabel")
  /\ set_disk_size
  /\ \/ d' = ZeroLabel /\ label_modified' = TRUE /\ args' = 1
     \/ lab.ok /\ d' = lab /\ label_modified' = FALSE /\ args' = 0
  /\ pc' = "args" /\ opt' = NoOpt
  /\ UNCHANGED << disk, force, sized, bootpart, pos, forced, inst, outcome >>

sdNoLabel == ~lab.ok /\ badUsage("sdisklabel")

sdArg == pc = "args" /\ args < MaxArgs /\ args' = args + 1 /\ pc' = pc

(* size falls through to the commands that follow: the next argument is     *)
(* taken for one of them without looking whether there is one.              *)
cmdSize ==
  /\ sdArg /\ ~sized
  /\ total_disk_size' \in SizeArgs /\ sized' = TRUE
  /\ UNCHANGED << disk, d, force, label_modified, swvars, hist, outcome, summed >>

cmdSum ==
  /\ sdArg /\ dosumlabel(d)
  /\ sized' = FALSE /\ summed' = TRUE
  /\ UNCHANGED << lab, hdr, data, d, total_disk_size, force, label_modified, swvars, hist, outcome >>

cmdZero ==
  /\ sdArg /\ args > 0
  /\ d' = ZeroLabel /\ label_modified' = TRUE /\ sized' = FALSE
  /\ UNCHANGED << disk, total_disk_size, force, swvars, hist, outcome, summed >>

cmdPrint ==
  /\ sdArg /\ sized' = FALSE
  /\ UNCHANGED << disk, d, total_disk_size, force, label_modified, swvars, hist, outcome, summed >>

cmdForce ==
  /\ sdArg /\ force' = TRUE /\ forced' = TRUE /\ sized' = FALSE
  /\ UNCHANGED << disk, d, total_disk_size, label_modified, swvars, run, tool, start, inst, outcome, summed >>

(* What set_partition refuses. *)
TooLong(a) == ToInt(a.off + a.size) > total_disk_size
Refused(a) == ~force /\ (TooLong(a) \/ a.num > d.n)

(* The entry of a partition, cut at the end of the disk if forced. *)
Entry(a) ==
  [off |-> a.off,
   size |-> (IF TooLong(a) THEN total_disk_size - a.off ELSE a.size) % IntSize]

(* Mutant: the new partition is not counted. *)
SetEntryUncounted(a) == [d EXCEPT !.part[a.num] = Entry(a)]

(* Mutant: a partition that is set again is counted again. *)
SetEntryCount(a) == [d EXCEPT !.part[a.num] = Entry(a), !.n = @ + 1]

SetEntry(a) ==
  [d EXCEPT !.part[a.num] = Entry(a), !.n = IF a.num = d.n THEN @ + 1 ELSE @]

set_partition(a) ==
  /\ sdArg /\ a.num \in Parts /\ ~Refused(a)
  /\ d' = SetEntry(a) /\ label_modified' = TRUE /\ sized' = FALSE
  /\ UNCHANGED << disk, total_disk_size, force, swvars, hist, outcome, summed >>

(* exit(1) in the loop: the partition is refused or its number is out of    *)
(* range, or an argument is not a command; size after size is none.         *)
sdFail ==
  /\ pc = "args" /\ End("fail")
  /\ UNCHANGED << disk, opt, hist, summed >>

(* strcmp of the null pointer behind the last argument. *)
sdCrash ==
  /\ pc = "args" /\ sized /\ End("crash")
  /\ UNCHANGED << disk, opt, hist, summed >>

(* write_disklabel: the sum is written first, then the label. *)
sdSum ==
  /\ pc = "args" /\ args > 0 /\ ~sized /\ label_modified
  /\ dosumlabel(d) /\ summed' = TRUE
  /\ pc' = "label"
  /\ UNCHANGED << lab, hdr, data, sdvars, swvars, hist, outcome >>

sdLabel ==
  /\ pc = "label" /\ lab' = d /\ End("ok")
  /\ UNCHANGED << hdr, sum, data, opt, hist, summed >>

sdUnmodified ==
  /\ pc = "args" /\ args > 0 /\ ~sized /\ ~label_modified /\ End("ok")
  /\ UNCHANGED << disk, opt, hist, summed >>
-----------------------------------------------------------------------------
(* swriteboot.c *)

bootsize(o) == Sectors(o.img.len)
Endplace(o) == bootsize(o) + BOOT_SECTOR + Sectors(o.kern)

(* main up to the check for overlaps. *)
swStart(o) ==
  /\ Start("swriteboot")
  /\ lab.ok
  /\ overlaplabel(lab, BOOT_SECTOR, Endplace(o), o.f) = {}
  /\ opt' = o /\ pc' = "config"
  /\ UNCHANGED << disk, sdvars, bootpart, pos, forced, inst, outcome >>

(* Mutant: the words are written before the check. *)
swRefusedLate(o) ==
  /\ lab.ok /\ overlaplabel(lab, BOOT_SECTOR, Endplace(o), o.f) # {}
  /\ Start("swriteboot") /\ End("fail") /\ opt' = NoOpt
  /\ hdr' = [size |-> bootsize(o), sect |-> BOOT_SECTOR, flags |-> 0]
  /\ UNCHANGED << lab, sum, data, forced, inst >>

swRefused(o) ==
  /\ ~lab.ok \/ overlaplabel(lab, BOOT_SECTOR, Endplace(o), o.f) # {}
  /\ badUsage("swriteboot")

(* read_configured_partition: 0 if there is no aboot.  If bootsect is       *)
(* behind the end of the disk the buffer scanned was never written.         *)
Configured(h, bytes) ==
  IF h.sect >= DiskSectors THEN Confs \union {0}
  ELSE {IF Magic(h.sect, bytes) = NoMagic THEN 0 ELSE Magic(h.sect, bytes)}

(* Mutant: the old bootstrap is looked for where the new one will be. *)
read_configured_partitionNew ==
  /\ pc = "config" /\ pc' = "words"
  /\ bootpart' \in IF opt.c # 0 THEN {opt.c} ELSE Configured([hdr EXCEPT !.sect = BOOT_SECTOR], data)
  /\ UNCHANGED << disk, sdvars, opt, pos, hist, outcome, summed >>

read_configured_partition ==
  /\ pc = "config" /\ pc' = "words"
  /\ bootpart' \in IF opt.c # 0 THEN {opt.c} ELSE Configured(hdr, data)
  /\ UNCHANGED << disk, sdvars, opt, pos, hist, outcome, summed >>

(* Mutant: the kernel is counted. *)
swWordsTotal ==
  /\ pc = "words" /\ pc' = "copy"
  /\ hdr' = [size |-> Endplace(opt) - BOOT_SECTOR, sect |-> BOOT_SECTOR, flags |-> 0]
  /\ inst' = NoInst
  /\ UNCHANGED << lab, sum, data, sdvars, swvars, run, tool, start, forced, outcome, summed >>

(* The words 60 to 62. *)
swWords ==
  /\ pc = "words" /\ pc' = "copy"
  /\ hdr' = [size |-> bootsize(opt), sect |-> BOOT_SECTOR, flags |-> 0]
  /\ inst' = NoInst
  /\ UNCHANGED << lab, sum, data, sdvars, swvars, run, tool, start, forced, outcome, summed >>

(* Byte k of the bootstrap with the kernel behind it. *)
Piece(o, k) ==
  IF k < o.img.len THEN [id |-> << o.img.name, k >>, part |-> IF k = 0 THEN o.img.part ELSE NoMagic]
  ELSE [id |-> << "kernel", k - o.img.len >>, part |-> NoMagic]

Total(o) == o.img.len + o.kern

(* Bytes read next: BUFSIZE or what is left of the file. *)
Chunk ==
  LET left == (IF pos < opt.img.len THEN opt.img.len ELSE Total(opt)) - pos
  IN  IF left < BUFSIZE THEN left ELSE BUFSIZE

(* The byte of the files that lands on byte b. *)
FileByte(b) == b - BOOT_SECTOR * SECT_SIZE

(* A write behind the end of the disk fails, which nobody notices. *)
swCopy ==
  /\ pc = "copy" /\ pos < Total(opt)
  /\ data' = [b \in Bytes |->
                IF FileByte(b) \in pos .. pos + Chunk - 1 THEN Piece(opt, FileByte(b)) ELSE data[b]]
  /\ pos' = pos + Chunk
  /\ UNCHANGED << lab, hdr, sum, pc, sdvars, opt, bootpart, hist, outcome, summed >>

(* The configured partition goes into the new bootstrap. *)
swConfig ==
  /\ pc = "copy" /\ pos = Total(opt) /\ pc' = "sum"
  /\ data' = IF bootpart = 0 THEN data ELSE SetMagic(BOOT_SECTOR, bootpart)
  /\ UNCHANGED << lab, hdr, sum, sdvars, swvars, hist, outcome, summed >>

swSum ==
  /\ pc = "sum" /\ dosumlabel(lab) /\ End("ok")
  /\ inst' = [img |-> opt.img, kern |-> opt.kern, part |-> Magic(BOOT_SECTOR, data), ok |-> TRUE]
  /\ summed' = TRUE
  /\ UNCHANGED << lab, hdr, data, opt, run, tool, start, forced >>
-----------------------------------------------------------------------------
(* abootconf.c *)

abootconf(p) ==
  /\ Start("abootconf")
  /\ hdr.sect < DiskSectors /\ Magic(hdr.sect, data) # NoMagic
  /\ data' = SetMagic(hdr.sect, p)
  /\ inst' = IF inst.ok THEN [inst EXCEPT !.part = p] ELSE inst
  /\ End("ok") /\ opt' = NoOpt
  /\ UNCHANGED << lab, hdr, sum, forced >>

abootconfFail ==
  /\ hdr.sect >= DiskSectors \/ Magic(hdr.sect, data) = NoMagic
  /\ badUsage("abootconf")

(* Without a partition it prints the one that is set. *)
abootconfPrint ==
  /\ Start("abootconf")
  /\ hdr.sect < DiskSectors /\ Magic(hdr.sect, data) # NoMagic
  /\ End("ok") /\ opt' = NoOpt
  /\ UNCHANGED << disk, forced, inst >>
-----------------------------------------------------------------------------
Options == [img : Images, kern : Kernels, f : SUBSET Parts, c : Confs \union {0}]

sdisklabel ==
  \/ sdStart \/ sdNoLabel \/ sdFail \/ sdCrash \/ sdSum \/ sdLabel \/ sdUnmodified
  \/ cmdSize \/ cmdSum \/ cmdZero \/ cmdPrint \/ cmdForce
  \/ \E a \in PartArgs : set_partition(a)

swriteboot ==
  \/ \E o \in Options : swStart(o) \/ swRefused(o)
  \/ read_configured_partition \/ swWords \/ swCopy \/ swConfig \/ swSum

Next ==
  \/ sdisklabel \/ swriteboot
  \/ \E p \in Confs \union {0} : abootconf(p)
  \/ abootconfFail \/ abootconfPrint
  \/ interrupt

Spec == Init /\ [][Next]_vars
-----------------------------------------------------------------------------
TypeOK ==
  /\ lab \in Labels /\ d \in Labels /\ hdr \in Headers
  /\ data \in [Bytes -> Content]
  /\ pc \in {"idle", "args", "label", "config", "words", "copy", "sum"}
  /\ total_disk_size \in Nat /\ args \in Nat
  /\ force \in BOOLEAN /\ label_modified \in BOOLEAN /\ sized \in BOOLEAN
  /\ opt \in [img : ImageFile, kern : Nat, f : SUBSET Parts, c : Nat]
  /\ bootpart \in Nat /\ pos \in 0 .. Total(opt)
  /\ pc \in {"idle", "args", "label"} => pos = 0

(* After a run that reports success the sum of sector 0 is right if the run *)
(* has written it, and still right if it was before: sdisklabel sums up the *)
(* label it will write together with the words of the last swriteboot.      *)
SumRight ==
  pc = "idle" /\ outcome = "ok" /\ (summed \/ start.sum = << start.lab, start.hdr >>)
    => sum = << lab, hdr >>

(* A run that fails, or crashes on the arguments, leaves label, words and   *)
(* all other sectors as they were, and the sum too unless the command sum   *)
(* was among the arguments before.                                          *)
FailureLeavesDisk ==
  pc = "idle" /\ outcome \in {"fail", "crash"} =>
    /\ lab = start.lab /\ hdr = start.hdr /\ data = start.data
    /\ summed \/ sum = start.sum

(* A partition ends where its int end says, without a wrap. *)
Fits(p) == 2 * (p.off + p.size) < IntSize

PartSectors(p) == p.off .. p.off + p.size - 1
BootArea == BOOT_SECTOR .. Endplace(opt) - 1
IsBootArea(p) == p.off = BOOT_SECTOR /\ p.off + p.size = Endplace(opt)

(* Partitions swriteboot must not touch: in the label, not named by -f. *)
Protected == {x \in Parts : x < lab.n /\ x \notin opt.f /\ Fits(lab.part[x])}

(* However far swriteboot gets, a partition that is not named by -f keeps   *)
(* its contents, unless it is exactly the boot area (see OverlapsReported). *)
UnforcedKept ==
  tool = "swriteboot" =>
    \A x \in Protected : ~IsBootArea(lab.part[x]) =>
      \A b \in Bytes : SectorOf(b) \in PartSectors(lab.part[x]) => data[b] = start.data[b]

(* "create a partition of the desired size instead. swriteboot will         *)
(* complain that the desired boot area overlaps with that partition"        *)
(* (sdisklabel/README): it never starts writing over a partition that is    *)
(* not named by -f.                                                         *)
OverlapsReported ==
  pc \in {"config", "words", "copy", "sum"} =>
    \A x \in Protected : PartSectors(lab.part[x]) \intersect BootArea = {}

(* After an installation, and until the next one starts writing, the words  *)
(* name the bootstrap, which is whole on the disk with the partition last   *)
(* configured, and the kernel starts at the sector behind if the bootstrap  *)
(* is padded (objstrip -b), where load_raw looks for it: whatever runs of   *)
(* sdisklabel, abootconf and refused ones of swriteboot came after.         *)
BootWhole ==
  inst.ok /\ Endplace(inst) <= DiskSectors =>
    /\ hdr.sect = BOOT_SECTOR /\ hdr.size = bootsize(inst)
    /\ Magic(hdr.sect, data) = inst.part
    /\ \A k \in 0 .. inst.img.len - 1 :
         data[hdr.sect * SECT_SIZE + k].id = << inst.img.name, k >>
    /\ inst.img.len % SECT_SIZE = 0 =>
         \A k \in 0 .. inst.kern - 1 :
           data[(hdr.sect + hdr.size) * SECT_SIZE + k].id = << "kernel", k >>

(* "preserving boot partition": the new bootstrap has the partition given   *)
(* with -c, else that of the bootstrap the words named before, wherever     *)
(* that was, else its own.  Only where bootsect was within the disk.        *)
BootPartKept ==
  /\ pc = "idle" /\ tool = "swriteboot" /\ outcome = "ok"
  /\ opt.img.part # NoMagic /\ Endplace(opt) <= DiskSectors
  /\ start.hdr.sect < DiskSectors
  => LET old == Magic(start.hdr.sect, start.data)
     IN  Magic(BOOT_SECTOR, data) =
           IF opt.c # 0 THEN opt.c ELSE IF old \in {0, NoMagic} THEN opt.img.part ELSE old

(* As long as force is not used, every partition that was set is counted,   *)
(* so that print shows it and swriteboot looks at it.                       *)
PartsListed == ~forced => Listed(lab)

(* The facts that make these invariants inductive: which tool is where,     *)
(* what sdisklabel has not changed, and that the check has been passed.     *)
InSwriteboot == pc \in {"config", "words", "copy", "sum"}
ToolMatches ==
  /\ pc \in {"args", "label"} => tool = "sdisklabel"
  /\ InSwriteboot => tool = "swriteboot"
LabelPending ==
  /\ pc = "label" => sum = << d, hdr >> /\ summed
  /\ pc = "args" =>
       /\ lab = start.lab /\ hdr = start.hdr /\ data = start.data
       /\ IF summed THEN label_modified \/ sum = << lab, hdr >> ELSE sum = start.sum
       /\ label_modified \/ d = lab
Checked == InSwriteboot => overlaplabel(lab, BOOT_SECTOR, Endplace(opt), opt.f) = {}
MemoryListed == ~forced => Listed(d)
ForceRecorded == force => forced

(* The inductive invariant of LabelProofs: types, the facts above and the   *)
(* invariants on sums, failures, partitions and counts.                     *)
IInv ==
  /\ TypeOK /\ ToolMatches /\ LabelPending /\ Checked /\ MemoryListed /\ ForceRecorded
  /\ SumRight /\ FailureLeavesDisk /\ UnforcedKept /\ PartsListed
=============================================================================
