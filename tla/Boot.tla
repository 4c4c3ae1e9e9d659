-------------------------------- MODULE Boot --------------------------------
(***************************************************************************)
(* The boot loop of the disk loader: load_kernel of disk.c with everything *)
(* it calls (get_aboot_options, mount_fs, get_default_args, load,          *)
(* load_raw, read_kernel, read_initrd) and is_loadable_elf of aboot.c.     *)
(*                                                                         *)
(* The loader is one sequential program; its environment is the SRM        *)
(* console, the user at the "aboot>" prompt and a disk any read of which   *)
(* may fail.  What the program keeps in static variables survives a failed *)
(* attempt, and that is what the properties are about.                     *)
(*                                                                         *)
(* Strings are sequences of words.  A word is a record [t, p, c]:          *)
(*   "single"  one character c             ("i", "0", ...)                 *)
(*   "pair"    <partition p>:<character c> ("1:0")                         *)
(*   "initrd"  initrd=<file c>                                             *)
(*   "plain"   anything else                                               *)
(* A file reference is a record [part, name], part = NoPart when the text  *)
(* has no "<digit>/" prefix.                                               *)
(***************************************************************************)
EXTENDS Naturals, Sequences

CONSTANTS
  Names,       \* file names that can be asked for; "-" is one of them
  GzNames,     \* those ending in ".gz"
  Chars,       \* characters that can follow a flag
  Texts,       \* other words of a command line
  Images,      \* contents of kernel files
  NoImage,     \* "no such file", "nothing loaded"
  NPart,       \* label->d_npartitions
  DiskLabel,   \* does the disk carry a valid disklabel?
  FsType,      \* volume -> driver that recognises it, or "none"
  Dir,         \* volume -> name -> image or NoImage
  Kind,        \* image -> "elf" | "gz" | "junk"
  Segs,        \* image -> sequence of its PT_LOAD headers [mem, bss]
  BssHits,     \* << b, img >>: the bss of b lies over a segment of img
  Config,      \* volume -> character -> line of aboot.conf, or NoLine
  NoLine,
  InitrdSize,  \* name -> length in bytes of that file
  ArgsSize,    \* sizeof(kernel_args): 256 in the code
  Length(_),   \* length in characters of a command line
  Garbage,     \* lengths an uninitialised struct stat can hold
  BlockSize,   \* block size of the file systems, a power of two
  SrmFlags,    \* values of BOOTED_OSFLAGS
  SrmFiles,    \* values of BOOTED_FILE
  CfgParts,    \* values abootconf can have stored in config_file_partition
  TypedArgs,   \* arguments the user may type
  TypedFiles,  \* file references the user may type
  TypedInitrds,\* ramdisks the user may type; NoFile: blanks only
  TypedParts   \* partitions the user may ask for with 'p'

Raw      == "-"
NoPart   == 10          \* no "<digit>/" prefix
Whole    == 10          \* the volume of an unlabelled disk
NoVol    == 11          \* the driver is not usable
NoFile   == "nofile"    \* initrd_file[0] == 0
Scrap    == "scrap"     \* a name made of leftover bytes; no file has it
NoPreset == "none"
Uncompressed == 0       \* the indices of read_method[]
Compressed   == 1
Vols     == 0 .. 10     \* 0: the sectors behind aboot, read by dummyfs

Words == [t : {"single"}, p : {0}, c : Chars]
         \cup [t : {"pair"}, p : 1 .. 9, c : Chars]
         \cup [t : {"initrd"}, p : {0}, c : Names]
         \cup [t : {"plain"}, p : {0}, c : Texts]
FileRefs == [part : 0 .. NoPart, name : Names]
Lines    == [file : FileRefs, args : Seq(Words)]
Extras   == [k : {"null", "alias", "tail"}, w : Seq(Words)]

Bytes    == 0 .. ArgsSize - 1           \* char kernel_args[256]

NoExtra == [k |-> "null", w |-> << >>]
FlagI   == << [t |-> "single", p |-> 0, c |-> "i"] >>

ASSUME BootAssumption ==
  /\ NPart \in 1 .. 8 /\ DiskLabel \in BOOLEAN
  /\ Names \subseteq STRING /\ GzNames \subseteq Names
  /\ Raw \in Names /\ {NoFile, Scrap} \cap Names = {}
  /\ Chars \subseteq STRING /\ "i" \in Chars /\ NoPreset \notin Chars
  /\ NoImage \notin Images
  /\ FsType \in [Vols -> {"dummy", "ext2", "ufs", "none"}]
  /\ \A v \in Vols : FsType[v] = "dummy" <=> v = 0
  /\ Dir \in [Vols -> [Names -> Images \cup {NoImage}]]
  /\ \A n \in Names : Dir[0][n] = Dir[0][Raw] /\ Dir[0][n] \in Images
  /\ Kind \in [Images -> {"elf", "gz", "junk"}]
  /\ Segs \in [Images -> Seq([mem : BOOLEAN, bss : BOOLEAN])]
  /\ BssHits \subseteq Images \X Images      \* no bss lies over its own kernel
  /\ \A img \in Images : << img, img >> \notin BssHits
  /\ NoLine \notin Lines
  /\ Config \in [Vols -> [Chars -> Lines \cup {NoLine}]]
  /\ ArgsSize \in Nat
  /\ InitrdSize \in [Names -> Nat] /\ Garbage \subseteq Nat
  /\ BlockSize \in Nat \ {0}
  /\ SrmFlags \subseteq Seq(Words) /\ SrmFiles \subseteq FileRefs
  /\ CfgParts \subseteq 0 .. 9 /\ TypedParts \subseteq 1 .. 8
  /\ TypedArgs \subseteq Seq(Words) /\ TypedFiles \subseteq FileRefs
  /\ TypedInitrds \subseteq Names \cup {NoFile}

(* strlen of the flags, and of a configuration with the rest of the flags  *)
(* appended: the form of the first flag takes at most three characters.    *)
ASSUME LengthAssumption ==
  /\ \A s \in SrmFlags : s # << >> =>
       /\ Length(s) \in Nat /\ Length(Tail(s)) \in Nat
       /\ Head(s).t \in {"single", "pair"} =>
            Length(s) <= IF Len(s) > 1 THEN 3 + 1 + Length(Tail(s)) ELSE 3
  /\ \A v \in Vols, c \in Chars : Config[v][c] # NoLine =>
       LET a == Config[v][c].args
       IN  /\ Length(a) \in Nat
           /\ \A s \in SrmFlags : Len(s) > 1 =>
                Length(a \o Tail(s)) \in Nat /\ Length(a \o Tail(s)) >= Length(Tail(s))

VARIABLES
  pc,            \* where in load_kernel the program is
  label,         \* label # 0: a disklabel was read
  cfgpart,       \* config_file_partition
  kernel_args,
  ink,           \* the positions of that buffer that hold a non-NUL byte
  extra_args,    \* pointer: null, into the tail of the flags, or = kernel_args
  preset,
  fs,            \* fs # 0 in get_aboot_options
  mounted,       \* the volume the file system driver is set up for
  fds,           \* descriptors opened and not closed since that mount
  buf,           \* the line get_aboot_options works on
  boot_file,
  boot_part,
  initrd_file,
  bss,           \* image whose bss is in bss_start/bss_size (NoImage: size 0)
  elf,           \* image whose headers are in chunks/start_addr/entry_addr
  memory,        \* image whose segments are completely in memory
  attempt,       \* read_kernel's attempt and method
  method,
  initrd,        \* what initrd_start/initrd_size describe
  failed,        \* history: some load has failed
  asked,         \* history: the user was asked since the last failure
  want,          \* history: the arguments asked for with the current choice
  wantrd         \* history: the ramdisk asked for last

optvars  == << cfgpart, extra_args, preset, fs, buf >>
bootvars == << boot_file, boot_part, initrd_file, wantrd >>
elfvars  == << bss, elf, memory >>
readvars == << attempt, method >>
mntvars  == << mounted, fds >>
history  == << failed, asked, want >>
argvars  == << kernel_args, ink >>
vars == << pc, label, argvars, initrd, optvars, bootvars, elfvars,
           readvars, mntvars, history >>

FlagsTypeOK ==
  /\ label \in BOOLEAN /\ fs \in BOOLEAN
  /\ failed \in BOOLEAN /\ asked \in BOOLEAN

OptionsTypeOK ==
  /\ pc \in {"open", "options", "preset", "prompt", "direct", "finish", "load",
             "attempt", "bss", "initrd", "started", "halted", "failed", "crashed"}
  /\ cfgpart \in 0 .. 9 /\ boot_part \in 0 .. 9
  /\ kernel_args \in Seq(Words) /\ ink \subseteq Bytes /\ extra_args \in Extras
  /\ preset \in Chars \cup {NoPreset}
  /\ buf \in Lines \cup {NoLine}
  /\ boot_file \in FileRefs
  /\ initrd_file \in Names \cup {NoFile, Scrap}
  /\ wantrd \in Names \cup {NoFile}
  /\ want \in Seq(Words)

LoadTypeOK ==
  /\ mounted \in Vols \cup {NoVol} /\ fds \in Nat
  /\ bss \in Images \cup {NoImage} /\ elf \in Images \cup {NoImage}
  /\ memory \in Images \cup {NoImage}
  /\ attempt \in 0 .. 2 /\ method \in 0 .. 1
  /\ initrd \in [file : Names \cup {NoFile}, vol : Vols \cup {NoVol},
                 size : Nat, blocks : Nat]

(* Every variable has its type; in particular read_kernel's method indexes *)
(* read_method[], and a partition is a digit.                              *)
TypeOK == FlagsTypeOK /\ OptionsTypeOK /\ LoadTypeOK

(* get_boot_args: the boot file and flags come from the console. *)
Init ==
  /\ pc = "open" /\ label = FALSE /\ fs = FALSE
  /\ cfgpart \in CfgParts /\ boot_part = 0
  /\ boot_file \in SrmFiles
  /\ kernel_args \in SrmFlags \cup {FlagI}
  /\ ink = {i \in Bytes : i < Length(kernel_args)}
  /\ extra_args = NoExtra /\ preset = NoPreset /\ buf = NoLine
  /\ mounted = NoVol /\ fds = 0
  /\ initrd_file = NoFile
  /\ bss = NoImage /\ elf = NoImage /\ memory = NoImage
  /\ attempt = 0 /\ method = Uncompressed
  /\ initrd = [file |-> NoFile, vol |-> NoVol, size |-> 0, blocks |-> 0]
  /\ failed = FALSE /\ asked = FALSE /\ want = << >> /\ wantrd = NoFile
-----------------------------------------------------------------------------
(* mount_fs *)

(* Partition part of the disk, as mount_fs looks it up. *)
VolumeOf(part) == CASE part = 0 -> 0
                    [] part # 0 /\ label -> part
                    [] part # 0 /\ ~label -> Whole

(* Some driver's mount is called for partition part. *)
Tried(part) == part = 0 \/ ~label \/ (part <= NPart /\ FsType[part] # "none")

(* Mutant: mounting keeps the inode table of the last mount. *)
MountOkKeepsTable(part) ==
  /\ Tried(part) /\ FsType[VolumeOf(part)] # "none"
  /\ mounted' = VolumeOf(part)
  /\ UNCHANGED fds

(* Every mount sets up an empty inode table, so earlier descriptors die. *)
MountOk(part) ==
  /\ Tried(part) /\ FsType[VolumeOf(part)] # "none"
  /\ mounted' = VolumeOf(part)
  /\ fds' = 0

(* A partition that is not mountable, or a read error on its superblock.   *)
(* A driver that was tried has already thrown away what it had mounted.    *)
MountFails(part) ==
  /\ part # 0
  /\ IF Tried(part) THEN mounted' = NoVol /\ fds' = 0
                 ELSE UNCHANGED mntvars

(* "if (!fs) fs = mount_fs(dev, config_file_partition)", when it succeeds. *)
EnsureMounted == IF fs THEN UNCHANGED mntvars ELSE MountOk(cfgpart)
-----------------------------------------------------------------------------
(* load_kernel up to its loop *)

(* get_disklabel: the sector is unreadable, or its magic is not there. *)
GetDisklabel(readable) == label' = (readable /\ DiskLabel)

OpenDevice(ok, readable) ==
  /\ pc = "open"
  /\ IF ok THEN pc' = "options" /\ GetDisklabel(readable)
           ELSE pc' = "failed" /\ UNCHANGED label
  /\ UNCHANGED << argvars, initrd, optvars, bootvars, elfvars, readvars,
                  mntvars, history >>

(* What strcpy leaves of a buffer: it writes up to the NUL and no further. *)
Stored(s, b) == (b \ {Length(s)}) \cup {i \in Bytes : i < Length(s)}

(* Mutant: the flags are left as they were. *)
LoadFailsKeepsFlags ==
  /\ pc' = "options"
  /\ failed' = TRUE /\ asked' = FALSE /\ want' = << >>
  /\ attempt' = 0 /\ method' = Uncompressed
  /\ UNCHANGED argvars

(* "load failed---query user interactively" *)
LoadFails ==
  /\ kernel_args' = FlagI /\ ink' = Stored(FlagI, ink)
  /\ pc' = "options"
  /\ failed' = TRUE /\ asked' = FALSE /\ want' = << >>
  /\ attempt' = 0 /\ method' = Uncompressed          \* locals of read_kernel
-----------------------------------------------------------------------------
(* get_aboot_options: the forms of the -flags argument *)

(* Mutant: the prompt does not clear kernel_args. *)
ToPromptKeepsArgs == pc' = "prompt" /\ UNCHANGED argvars

(* The prompt clears kernel_args[0], which leaves the tail of the string. *)
ToPrompt == pc' = "prompt" /\ kernel_args' = << >> /\ ink' = ink \ {0}

TailOfFlags == IF Len(kernel_args) > 1
               THEN [k |-> "tail", w |-> Tail(kernel_args)] ELSE NoExtra

IsPair   == kernel_args # << >> /\ Head(kernel_args).t = "pair"
IsSingle == kernel_args # << >> /\ Head(kernel_args).t = "single"
IsI      == IsSingle /\ Head(kernel_args).c = "i"

ParsePreset ==
  /\ IsPair \/ (IsSingle /\ ~IsI)
  /\ preset' = Head(kernel_args).c
  /\ cfgpart' = IF IsPair THEN Head(kernel_args).p ELSE cfgpart
  /\ extra_args' = TailOfFlags
  /\ pc' = "preset"
  /\ want' = extra_args'.w
  /\ UNCHANGED argvars

ParseInteractive ==
  /\ kernel_args = << >> \/ IsI
  /\ ToPrompt
  /\ preset' = NoPreset /\ extra_args' = NoExtra
  /\ UNCHANGED << cfgpart, want >>

ParseDirect ==
  /\ kernel_args # << >> /\ ~IsPair /\ ~IsSingle
  /\ pc' = "direct"
  /\ preset' = NoPreset /\ extra_args' = NoExtra
  /\ want' = kernel_args
  /\ UNCHANGED << argvars, cfgpart >>

ParseFlags ==
  /\ pc = "options"
  /\ fs' = FALSE
  /\ ParsePreset \/ ParseInteractive \/ ParseDirect
  /\ UNCHANGED << label, initrd, buf, bootvars, elfvars, readvars, mntvars,
                  failed, asked >>
-----------------------------------------------------------------------------
(* get_aboot_options: a preset, looked up in aboot.conf *)

PresetFound ==
  /\ pc = "preset"
  /\ EnsureMounted
  /\ fs' = TRUE
  /\ Config[mounted'][preset] # NoLine
  /\ buf' = Config[mounted'][preset]
  /\ want' = buf'.args \o want
  /\ pc' = "finish"
  /\ UNCHANGED << label, argvars, initrd, cfgpart, extra_args, preset,
                  bootvars, elfvars, readvars, failed, asked >>

(* Mutant: a preset that cannot be found is tried again. *)
PresetNotFoundRetries ==
  /\ pc = "preset"
  /\ \/ EnsureMounted /\ fs' = TRUE
     \/ ~fs /\ MountFails(cfgpart) /\ UNCHANGED fs
  /\ UNCHANGED << pc, argvars, preset, label, initrd, cfgpart, extra_args,
                  buf, bootvars, elfvars, readvars, history >>

(* No such line, no such file, or a read error on the way. *)
PresetNotFound ==
  /\ pc = "preset"
  /\ \/ EnsureMounted /\ fs' = TRUE
     \/ ~fs /\ MountFails(cfgpart) /\ UNCHANGED fs
  /\ preset' = NoPreset
  /\ ToPrompt
  /\ UNCHANGED << label, initrd, cfgpart, extra_args, buf, bootvars, elfvars,
                  readvars, history >>
-----------------------------------------------------------------------------
(* get_aboot_options: the commands at the prompt.  'h', '?', a syntax      *)
(* error and an unknown command change nothing.                            *)

AtPrompt == pc = "prompt" /\ asked' = TRUE

CmdQuit ==
  /\ AtPrompt
  /\ pc' = "halted"
  /\ UNCHANGED << label, argvars, initrd, optvars, bootvars, elfvars,
                  readvars, mntvars, failed, want >>

(* Mutant: 'p' does not force the file system to be mounted again. *)
CmdPartitionKeepsFs(n) ==
  /\ AtPrompt
  /\ cfgpart' = n
  /\ UNCHANGED << pc, label, argvars, initrd, extra_args, preset, buf, fs,
                  bootvars, elfvars, readvars, mntvars, failed, want >>

CmdPartition(n) ==
  /\ AtPrompt
  /\ cfgpart' = n
  /\ fs' = FALSE
  /\ UNCHANGED << pc, label, argvars, initrd, extra_args, preset, buf,
                  bootvars, elfvars, readvars, mntvars, failed, want >>

(* 'l': the file is opened, printed and closed. *)
CmdList ==
  /\ AtPrompt
  /\ \/ EnsureMounted /\ fs' = TRUE
     \/ ~fs /\ MountFails(cfgpart) /\ UNCHANGED fs
  /\ UNCHANGED << pc, label, argvars, initrd, cfgpart, extra_args, preset,
                  buf, bootvars, elfvars, readvars, failed, want >>

(* Opened, read and closed; but dummyfs has no readdir to call. *)
ListDirectory == pc' = IF FsType[mounted'] = "dummy" THEN "crashed" ELSE pc

CmdDir ==
  /\ AtPrompt
  /\ \/ EnsureMounted /\ fs' = TRUE /\ ListDirectory
     \/ ~fs /\ MountFails(cfgpart) /\ UNCHANGED << pc, fs >>
  /\ UNCHANGED << label, argvars, initrd, cfgpart, extra_args, preset,
                  buf, bootvars, elfvars, readvars, failed, want >>

(* Words of the flags that went with a preset not found go with it too. *)
CmdBoot(f, a) ==
  /\ AtPrompt
  /\ buf' = [file |-> f, args |-> a]
  /\ want' = a \o extra_args.w
  /\ pc' = "finish"
  /\ UNCHANGED << label, argvars, initrd, cfgpart, extra_args, preset, fs,
                  bootvars, elfvars, readvars, mntvars, failed >>

(* 'i' followed by blanks only empties initrd_file. *)
CmdInitrd(n) ==
  /\ AtPrompt
  /\ initrd_file' = n /\ wantrd' = n
  /\ UNCHANGED << pc, label, argvars, initrd, optvars, boot_file, boot_part,
                  elfvars, readvars, mntvars, failed, want >>

CmdPreset(c, a) ==
  /\ AtPrompt
  /\ preset' = c
  /\ \/ /\ kernel_args' = a /\ ink' = Stored(a, ink)   \* "3 single"
        /\ extra_args' = [k |-> "alias", w |-> << >>]
        /\ want' = a
     \/ /\ want' = extra_args.w                      \* "3"
        /\ UNCHANGED << argvars, extra_args >>
  /\ pc' = "preset"
  /\ UNCHANGED << label, initrd, cfgpart, fs, buf, bootvars, elfvars, readvars,
                  mntvars, failed >>
-----------------------------------------------------------------------------
(* get_aboot_options: from the line to boot_file, kernel_args, initrd_file *)
(* and boot_part                                                           *)

ExtraWords == IF extra_args.k = "alias" THEN kernel_args ELSE extra_args.w

(* The line has a blank: what follows it is copied to kernel_args.         *)
(* Otherwise kernel_args stays as it is.                                   *)
Splits == extra_args.k # "null" \/ buf.args # << >>

(* Mutant: the extra arguments are not appended. *)
ArgsOfLineOnly == IF Splits THEN buf.args ELSE kernel_args

ArgsOfLine == IF Splits THEN buf.args \o ExtraWords ELSE kernel_args
InkOfLine  == IF Splits THEN Stored(ArgsOfLine, ink) ELSE ink

FirstInitrd(args, i) ==
  /\ i \in 1 .. Len(args) /\ args[i].t = "initrd"
  /\ \A j \in 1 .. i - 1 : args[j].t # "initrd"

RemoveWord(args, i) == SubSeq(args, 1, i - 1) \o SubSeq(args, i + 1, Len(args))

(* rest is args without its first initrd= word, if it has one. *)
IsStripped(args, rest) ==
  \/ rest = args /\ \A j \in 1 .. Len(args) : args[j].t # "initrd"
  \/ \E i \in 1 .. Len(args) : FirstInitrd(args, i) /\ rest = RemoveWord(args, i)

(* The initrd= option is parsed off args, which the buffer holds.  The     *)
(* search for it ends behind the NUL, and a leftover byte there passes for *)
(* a match: the name is what lies seven bytes on, which may be nothing,    *)
(* and what follows it, from the first blank on if there is one, is moved  *)
(* down behind the NUL.  Where leftover bytes have blanks is not modelled. *)
StripInitrd(args, b) ==
  LET n == Length(args) IN
  \/ \E i \in 1 .. Len(args) :
       /\ FirstInitrd(args, i)
       /\ kernel_args' = RemoveWord(args, i)
       /\ LET m == n - Length(<< args[i] >>) IN
            ink' = (b \ {m}) \cup {q \in Bytes : q < m}
       /\ initrd_file' = args[i].c
  \/ /\ \A j \in 1 .. Len(args) : args[j].t # "initrd"
     /\ kernel_args' = args
     /\ \/ n + 1 \notin b /\ ink' = b /\ UNCHANGED initrd_file
        \/ /\ n + 1 \in b /\ n + 8 \notin b
           /\ ink' = b \ {n + 1} /\ initrd_file' = NoFile
        \/ /\ n + 1 \in b /\ n + 8 \in b
           /\ \E k \in Bytes :
                /\ n < k /\ k + 6 \in b
                /\ ink' = (b \ {k}) \cup {q \in Bytes : n < q /\ q < k}
           /\ initrd_file' \in {NoFile, Scrap}

(* History: the ramdisk that the arguments asked for name, if they do. *)
AskRamdisk ==
  \/ \E i \in 1 .. Len(want) : FirstInitrd(want, i) /\ wantrd' = want[i].c
  \/ (\A j \in 1 .. Len(want) : want[j].t # "initrd") /\ UNCHANGED wantrd

(* The partition number is parsed off file. *)
StripPartition(ref) ==
  /\ boot_part' = IF ref.part = NoPart THEN cfgpart ELSE ref.part
  /\ boot_file' = [ref EXCEPT !.part = NoPart]

FinishOptions ==
  /\ \/ pc = "finish" /\ StripInitrd(ArgsOfLine, InkOfLine)
        /\ StripPartition(buf.file)
     \/ pc = "direct" /\ StripInitrd(kernel_args, ink)
        /\ StripPartition(boot_file)
  /\ AskRamdisk
  /\ pc' = "load"
  /\ extra_args' = NoExtra /\ preset' = NoPreset      \* locals, out of scope
  /\ fs' = FALSE /\ buf' = NoLine
  /\ UNCHANGED << label, initrd, cfgpart, elfvars, readvars, mntvars, history >>
-----------------------------------------------------------------------------
(* is_loadable_elf: the loop over the program headers.  bss_size is never  *)
(* reset, so a header with a bss is refused once any image has set it.     *)

Accepts(img, b) ==
  \A i \in DOMAIN Segs[img] :
    /\ Segs[img][i].mem
    /\ Segs[img][i].bss => /\ b = NoImage
                           /\ \A j \in 1 .. i - 1 : ~Segs[img][j].bss

(* Mutant: the bss of the image is not recorded. *)
BssAfterForgets(img, b) == b

(* The owner of bss_start/bss_size afterwards, whatever the verdict. *)
BssAfter(img, b) ==
  IF b = NoImage /\ \E i \in DOMAIN Segs[img] :
                      Segs[img][i].bss /\ \A j \in 1 .. i : Segs[img][j].mem
  THEN img ELSE b

(* The bss that image img itself has. *)
OwnBss(img) == IF \E i \in DOMAIN Segs[img] : Segs[img][i].bss
               THEN img ELSE NoImage

(* Headers of an ELF image were read. *)
ScanHeaders(img) == elf' = img /\ bss' = BssAfter(img, bss)
-----------------------------------------------------------------------------
(* load *)

RawImage == Dir[0][Raw]

LoadRaw ==
  /\ pc = "load" /\ boot_file.name = Raw
  /\ \/ LoadFails /\ UNCHANGED elfvars               \* header: unreadable, not ELF
     \/ /\ Kind[RawImage] = "elf"
        /\ ScanHeaders(RawImage)
        /\ \/ /\ ~Accepts(RawImage, bss)
              /\ LoadFails /\ UNCHANGED memory
           \/ /\ Accepts(RawImage, bss)              \* a segment is unreadable
              /\ LoadFails /\ memory' = NoImage
           \/ /\ Accepts(RawImage, bss)
              /\ memory' = RawImage
              /\ pc' = "bss"
              /\ UNCHANGED << argvars, readvars, history >>
  /\ UNCHANGED << label, initrd, optvars, bootvars, mntvars >>

MountBoot ==
  /\ pc = "load" /\ boot_file.name # Raw
  /\ \/ MountFails(boot_part) /\ LoadFails
     \/ /\ MountOk(boot_part)
        /\ attempt' = 0
        /\ method' = IF boot_file.name \in GzNames THEN Compressed
                                                  ELSE Uncompressed
        /\ pc' = "attempt"
        /\ UNCHANGED << argvars, history >>
  /\ UNCHANGED << label, initrd, optvars, bootvars, elfvars >>

(* read_kernel: no such file, or a read error while looking it up; dummyfs *)
(* opens whatever it is asked for.                                         *)
OpenKernelFails ==
  /\ pc = "attempt" /\ attempt < 2 /\ FsType[mounted] # "dummy"
  /\ LoadFails
  /\ UNCHANGED << label, initrd, optvars, bootvars, elfvars, mntvars >>

(* Both methods have failed. *)
ReadKernelGivesUp ==
  /\ pc = "attempt" /\ attempt = 2
  /\ LoadFails
  /\ UNCHANGED << label, initrd, optvars, bootvars, elfvars, mntvars >>

(* Mutant: the method index is not wrapped around. *)
NextMethodNoWrap == attempt' = attempt + 1 /\ method' = method + 1 /\ UNCHANGED pc

NextMethod ==
  /\ attempt' = attempt + 1
  /\ method' = (method + 1) % 2
  /\ UNCHANGED pc

(* Mutant: a short read of a segment is taken for success. *)
SegmentFailsIgnored ==
  /\ pc' = "bss" /\ memory' = NoImage
  /\ attempt' = 0 /\ method' = Uncompressed

(* A segment could not be read or inflated; memory is partly overwritten. *)
SegmentFails == NextMethod /\ memory' = NoImage

Opened == Dir[mounted][boot_file.name]

(* load_uncompressed returns, so the descriptor is closed. *)
TryUncompressed ==
  /\ pc = "attempt" /\ attempt < 2 /\ method = Uncompressed /\ Opened # NoImage
  /\ \/ NextMethod /\ UNCHANGED elfvars              \* header: unreadable, not ELF
     \/ /\ Kind[Opened] = "elf"
        /\ ScanHeaders(Opened)
        /\ \/ ~Accepts(Opened, bss) /\ NextMethod /\ UNCHANGED memory
           \/ Accepts(Opened, bss) /\ SegmentFails
           \/ /\ Accepts(Opened, bss)
              /\ memory' = Opened
              /\ pc' = "bss" /\ attempt' = 0 /\ method' = Uncompressed
  /\ UNCHANGED << label, argvars, initrd, optvars, bootvars, mntvars, history >>

(* uncompress_kernel either succeeds or leaves through longjmp, and then   *)
(* the descriptor stays open.                                              *)
TryCompressed ==
  /\ pc = "attempt" /\ attempt < 2 /\ method = Compressed /\ Opened # NoImage
  /\ \/ NextMethod /\ fds' = fds + 1 /\ UNCHANGED elfvars
     \/ /\ Kind[Opened] = "gz"
        /\ ScanHeaders(Opened)
        /\ \/ /\ ~Accepts(Opened, bss)
              /\ NextMethod /\ fds' = fds + 1 /\ UNCHANGED memory
           \/ Accepts(Opened, bss) /\ SegmentFails /\ fds' = fds + 1
           \/ /\ Accepts(Opened, bss)
              /\ memory' = Opened
              /\ pc' = "bss" /\ attempt' = 0 /\ method' = Uncompressed
              /\ UNCHANGED fds
  /\ UNCHANGED << label, argvars, initrd, optvars, bootvars, mounted, history >>

(* The range bss_start/bss_size is zero-filled, whichever image it was     *)
(* recorded for: where it lies over the kernel in memory that is not whole *)
(* any more.                                                               *)
ZeroFill == memory' = IF << bss, memory >> \in BssHits THEN NoImage ELSE memory

(* Mutant: a ramdisk that was read once is not read again. *)
ClearBssOnce ==
  /\ pc = "bss"
  /\ ZeroFill
  /\ pc' = IF initrd_file = NoFile \/ initrd.file # NoFile
           THEN "started" ELSE "initrd"
  /\ UNCHANGED << label, argvars, initrd, optvars, bootvars, bss, elf,
                  readvars, mntvars, history >>

(* "clear bss"; then the ramdisk, if any. *)
ClearBss ==
  /\ pc = "bss"
  /\ ZeroFill
  /\ pc' = IF initrd_file = NoFile THEN "started" ELSE "initrd"
  /\ UNCHANGED << label, argvars, initrd, optvars, bootvars, bss, elf,
                  readvars, mntvars, history >>

(* Mutant: the tail of less than a block is never counted. *)
InitrdBlocksWhole(size) == size \div BlockSize

(* read_initrd's block count; "nblocks & (blocksize - 1)" is a remainder. *)
InitrdBlocks(size) ==
  LET n == size \div BlockSize IN IF n % BlockSize # 0 THEN n + 1 ELSE n

(* What fstat leaves in buf.st_size: ufs_fstat fails and stores nothing. *)
SizesSeen(n) == IF FsType[mounted'] = "ufs" THEN Garbage ELSE {InitrdSize[n]}

InitrdMountFails ==
  /\ pc = "initrd"
  /\ MountFails(boot_part) /\ LoadFails
  /\ UNCHANGED << label, initrd, optvars, bootvars, elfvars >>

(* The file is looked up, measured and read, and never closed.  dummyfs    *)
(* has no fstat to call.                                                   *)
ReadInitrd ==
  /\ pc = "initrd"
  /\ Tried(boot_part) /\ FsType[VolumeOf(boot_part)] # "none"
  /\ mounted' = VolumeOf(boot_part)
  /\ \/ /\ FsType[mounted'] # "dummy"                  \* not found
        /\ LoadFails /\ fds' = 0 /\ UNCHANGED initrd
     \/ /\ FsType[mounted'] = "dummy"
        /\ pc' = "crashed" /\ fds' = 1
        /\ UNCHANGED << argvars, initrd, readvars, history >>
     \/ /\ FsType[mounted'] # "dummy" /\ initrd_file # Scrap
        /\ Dir[mounted'][initrd_file] # NoImage
        /\ fds' = 1
        /\ \E s \in SizesSeen(initrd_file) :
             initrd' = [file |-> initrd_file, vol |-> mounted',
                        size |-> s, blocks |-> InitrdBlocks(s)]
        /\ \/ LoadFails                              \* short read
           \/ pc' = "started" /\ UNCHANGED << argvars, readvars, history >>
  /\ UNCHANGED << label, optvars, bootvars, elfvars >>
-----------------------------------------------------------------------------
Loader ==
  \/ \E ok, readable \in BOOLEAN : OpenDevice(ok, readable)
  \/ ParseFlags
  \/ PresetFound
  \/ PresetNotFound
  \/ FinishOptions
  \/ LoadRaw
  \/ MountBoot
  \/ OpenKernelFails
  \/ ReadKernelGivesUp
  \/ TryUncompressed
  \/ TryCompressed
  \/ ClearBss
  \/ InitrdMountFails
  \/ ReadInitrd

User ==
  \/ CmdQuit
  \/ \E n \in TypedParts : CmdPartition(n)
  \/ CmdList
  \/ CmdDir
  \/ \E f \in TypedFiles, a \in TypedArgs : CmdBoot(f, a)
  \/ \E n \in TypedInitrds : CmdInitrd(n)
  \/ \E c \in Chars \ {"i"}, a \in TypedArgs : CmdPreset(c, a)

(* load_kernel has returned, or the machine has left aboot. *)
Stopped ==
  /\ pc \in {"started", "halted", "failed", "crashed"}
  /\ UNCHANGED vars

Next == Loader \/ User \/ Stopped

(* aboot never stops by itself; nothing is asked of the user. *)
Spec == Init /\ [][Next]_vars /\ WF_vars(Loader)
-----------------------------------------------------------------------------
(* Properties *)

Requested == IF boot_file.name = Raw THEN RawImage
             ELSE Dir[VolumeOf(boot_part)][boot_file.name]

(* A driver is only ever used on the volume the program believes it is     *)
(* mounted on: "fs" on the configuration partition while options are       *)
(* parsed, "bfs" on the boot partition while a kernel is read.             *)
FsMatchesPartition ==
  /\ fs /\ pc \in {"preset", "prompt"} => mounted = VolumeOf(cfgpart)
  /\ pc = "attempt" => mounted = VolumeOf(boot_part)

(* What the zero-fill of a stale range can do: a load has failed before,   *)
(* the kernel has no bss of its own, and the bss of the image whose load    *)
(* failed lies over it.                                                     *)
HitByStaleBss ==
  failed /\ OwnBss(elf) = NoImage /\ << bss, elf >> \in BssHits

(* Whatever failed before, the kernel load_kernel returns with is the one  *)
(* named by boot_part and boot_file, with its own headers in               *)
(* chunks/entry_addr, and one is_loadable_elf has to accept.  It is        *)
(* completely in memory, but for what the bss of an earlier image has hit. *)
StartedAsRequested ==
  pc = "started" => /\ elf = Requested /\ Accepts(elf, NoImage)
                    /\ memory = elf \/ HitByStaleBss

(* "If the kernel load fails, aboot now drops into interactive mode": after *)
(* a failure nothing is loaded or started before the user has answered.     *)
FailedLoadAsksUser ==
  failed /\ pc \in {"finish", "load", "attempt", "bss", "initrd", "started"}
    => asked

(* The arguments given to a kernel started after a failure are those of    *)
(* the last choice, without its initrd= word: nothing of an earlier try.   *)
ArgsAreFresh ==
  failed /\ pc = "started" => IsStripped(want, kernel_args)

(* At most one descriptor is lost (to a longjmp or to read_initrd) before  *)
(* the next mount frees them all, so the five slots of the ext2 driver     *)
(* always leave room for the root, a directory and the file.               *)
FdsBounded == fds <= 1

(* A ramdisk that is asked for is the file initrd_file names now, read     *)
(* from the partition of the kernel it is started with.                    *)
RamdiskRead ==
  pc = "started" /\ initrd_file # NoFile
    => initrd.file = initrd_file /\ initrd.vol = VolumeOf(boot_part)

(* main_ hands over initrd_start and initrd_size whatever initrd_file      *)
(* says.  They are those of the file it names; when it names none, there   *)
(* is no ramdisk, or it is one that an earlier, failed load has left.      *)
InitrdIsCurrent ==
  /\ RamdiskRead
  /\ pc = "started" /\ initrd_file = NoFile => initrd.file = NoFile \/ failed

(* A kernel is never started with a ramdisk other than the one asked for   *)
(* last, by flag, aboot.conf line or command; it can be started without    *)
(* one in spite of that, but only once the user has been at the prompt,    *)
(* which leaves bytes behind the NUL that pass for an initrd= option.      *)
RamdiskAskedOrLost ==
  pc = "started" =>
    initrd_file = wantrd \/ (initrd_file = NoFile /\ (failed \/ asked))

(* What load() zero-fills is the bss of the kernel it starts; a kernel     *)
(* without one, after a failed load, is started with whatever range the    *)
(* failed load has left.                                                   *)
OwnBssOrStale ==
  pc = "started" => bss = OwnBss(elf) \/ (failed /\ OwnBss(elf) = NoImage)

(* On ext2 all of a ramdisk but its tail of less than a block is read, and *)
(* that too unless the number of its whole blocks is a multiple of the     *)
(* block size: read_initrd tests that number and not the size.             *)
InitrdAllButTail ==
  pc = "started" /\ initrd_file # NoFile /\ FsType[initrd.vol] = "ext2" =>
    /\ (initrd.blocks + 1) * BlockSize > initrd.size
    /\ (initrd.size \div BlockSize) % BlockSize # 0
         => initrd.blocks * BlockSize >= initrd.size

(* What load_kernel hands over besides the kernel, in every session. *)
HandsOver == RamdiskAskedOrLost /\ OwnBssOrStale /\ InitrdAllButTail

(* Every pass of the boot loop ends: with a kernel, or at the prompt.      *)
Resolves ==
  pc \in {"options", "preset", "load", "attempt", "initrd"}
    ~> pc \in {"prompt", "started", "crashed"}
-----------------------------------------------------------------------------
(* The inductive invariant behind them *)

(* The locals of get_aboot_options are set where they are used, and a file *)
(* system is only asked for a file other than "-".                         *)
LocalsSet ==
  /\ pc = "preset" => preset \in Chars
  /\ pc = "finish" => buf \in Lines
  /\ pc = "attempt" => boot_file.name # Raw
  /\ pc = "initrd" => initrd_file # NoFile
  /\ pc = "open" => ~failed

(* A descriptor is lost by the one compressed attempt of read_kernel, or   *)
(* by read_initrd, which runs after a mount.                               *)
FdInv ==
  /\ fds \in 0 .. 1
  /\ pc = "attempt" /\ (attempt = 0 \/ (attempt = 1 /\ method = Compressed))
       => fds = 0

(* The flags that follow a failure lead to the prompt and nowhere else. *)
AskInv ==
  /\ failed /\ pc = "options" => kernel_args = FlagI
  /\ failed /\ pc \notin {"options", "prompt"} => asked

(* From the end of a successful load on, memory holds what was asked for,  *)
(* until a bss that is not its own is cleared.                             *)
LoadedInv ==
  /\ pc \in {"bss", "initrd", "started"} =>
       /\ elf = Requested /\ Accepts(elf, NoImage)
       /\ memory = elf \/ << bss, elf >> \in BssHits
  /\ pc = "bss" => memory = elf

(* What one pass of the boot loop preserves, whatever it reads or is told: *)
(* together these parts are inductive and imply the invariants above.      *)
IInv ==
  /\ TypeOK /\ LocalsSet /\ FsMatchesPartition /\ FdInv /\ AskInv
  /\ LoadedInv /\ RamdiskRead
=============================================================================
