----------------------------- MODULE BootProofs -----------------------------
(***************************************************************************)
(* For every disk, configuration file, user and pattern of read errors,    *)
(* the boot loop keeps IInv, and so is type correct, uses the drivers on   *)
(* the right volume, loses at most one descriptor, asks the user after a   *)
(* failure and starts exactly the kernel that was asked for; and for every *)
(* aboot.conf and block size get_default_args returns what ScanRight       *)
(* promises.                                                               *)
(***************************************************************************)
EXTENDS Boot, ConfigFile, SequenceTheorems, TLAPS

(* The partition number of every mount names a volume of the disk. *)
LEMMA VolumeOfType ==
  ASSUME TypeOK, NEW part \in 0 .. 9
  PROVE  VolumeOf(part) \in Vols
BY DEF TypeOK, FlagsTypeOK, VolumeOf, Vols, Whole

(* A successful mount leaves the driver on a volume, with no descriptor. *)
LEMMA MountOkType ==
  ASSUME TypeOK, NEW part \in 0 .. 9, MountOk(part)
  PROVE  mounted' \in Vols /\ mounted' = VolumeOf(part) /\ fds' = 0
BY VolumeOfType DEF MountOk

(* A failed one leaves the driver unusable or as it was. *)
LEMMA MountFailsType ==
  ASSUME TypeOK, FdInv, NEW part \in 0 .. 9, MountFails(part)
  PROVE  mounted' \in Vols \cup {NoVol} /\ fds' \in 0 .. 1
BY DEF MountFails, TypeOK, LoadTypeOK, FdInv, mntvars

(* Removing a word from an argument list leaves an argument list. *)
LEMMA RemoveWordType ==
  ASSUME NEW args \in Seq(Words), NEW i \in 1 .. Len(args)
  PROVE  RemoveWord(args, i) \in Seq(Words)
<1>1. Len(args) \in Nat
  BY LenProperties
<1>2. SubSeq(args, 1, i - 1) \in Seq(Words)
  BY <1>1, SubSeqProperties
<1>3. SubSeq(args, i + 1, Len(args)) \in Seq(Words)
  BY <1>1, SubSeqProperties
<1> QED
  BY <1>2, <1>3, ConcatProperties DEF RemoveWord

(* The image a header check accepts now would have been accepted on a      *)
(* first try as well: bss_size left over from another image only refuses.  *)
LEMMA AcceptsFresh ==
  ASSUME NEW img, NEW b, Accepts(img, b)
  PROVE  Accepts(img, NoImage)
BY DEF Accepts

LEMMA InitIInv == Init => IInv
<1> SUFFICES ASSUME Init PROVE IInv
  OBVIOUS
<1> FlagI \in Seq(Words) /\ << >> \in Seq(Words)
  BY BootAssumption DEF BootAssumption, FlagI, Words
<1>1. TypeOK
  <2>1. /\ kernel_args \in Seq(Words) /\ ink \subseteq Bytes
        /\ boot_file \in FileRefs /\ cfgpart \in 0 .. 9
    BY BootAssumption DEF BootAssumption, Init
  <2>2. extra_args \in Extras
    BY DEF Init, Extras, NoExtra
  <2>3. initrd \in [file : Names \cup {NoFile}, vol : Vols \cup {NoVol},
                    size : Nat, blocks : Nat]
    BY DEF Init
  <2>4. FlagsTypeOK
    BY DEF Init, FlagsTypeOK
  <2>5. OptionsTypeOK
    BY <2>1, <2>2 DEF Init, OptionsTypeOK
  <2>6. LoadTypeOK
    BY <2>3 DEF Init, LoadTypeOK, Uncompressed
  <2> QED
    BY <2>4, <2>5, <2>6 DEF TypeOK
<1>2. LocalsSet /\ FsMatchesPartition /\ FdInv /\ AskInv /\ LoadedInv
      /\ RamdiskRead
  BY DEF Init, LocalsSet, FsMatchesPartition, FdInv, AskInv, LoadedInv,
         RamdiskRead
<1> QED BY <1>1, <1>2 DEF IInv

(* One lemma per action: it preserves every part of IInv.  First what      *)
(* several of them need.                                                   *)

LEMMA FlagIType == FlagI \in Seq(Words) /\ << >> \in Seq(Words)
BY BootAssumption DEF BootAssumption, FlagI, Words

(* "fs" is usable after it was found or made non-null. *)
LEMMA EnsureMountedType ==
  ASSUME IInv, EnsureMounted, pc \in {"preset", "prompt"}
  PROVE  mounted' = VolumeOf(cfgpart) /\ mounted' \in Vols /\ fds' \in 0 .. 1
<1>1. cfgpart \in 0 .. 9 /\ TypeOK
  BY DEF IInv, TypeOK, OptionsTypeOK
<1>2. CASE fs
  BY <1>1, <1>2, VolumeOfType
     DEF IInv, FdInv, EnsureMounted, FsMatchesPartition, mntvars
<1>3. CASE ~fs
  BY <1>1, <1>3, MountOkType DEF EnsureMounted
<1> QED BY <1>2, <1>3

(* strcpy stays within the buffer. *)
LEMMA StoredType ==
  ASSUME NEW s, NEW b, b \subseteq Bytes
  PROVE  Stored(s, b) \subseteq Bytes
BY DEF Stored

(* What a failed load leaves behind is well typed. *)
LEMMA LoadFailsType ==
  ASSUME LoadFails
  PROVE  /\ kernel_args' = FlagI /\ kernel_args' \in Seq(Words)
         /\ (ink \subseteq Bytes => ink' \subseteq Bytes)
         /\ want' \in Seq(Words) /\ pc' = "options"
         /\ attempt' \in 0 .. 2 /\ method' \in 0 .. 1
BY FlagIType, StoredType DEF LoadFails, Uncompressed

(* The kernel that is open lies in the directory of a mounted volume. *)
LEMMA OpenedType ==
  ASSUME IInv, pc = "attempt"
  PROVE  Opened \in Images \cup {NoImage} /\ Opened = Requested
<1>1. boot_part \in 0 .. 9 /\ boot_file.name \in Names /\ TypeOK
  BY DEF IInv, TypeOK, OptionsTypeOK, FileRefs
<1>2. mounted = VolumeOf(boot_part) /\ mounted \in Vols
  BY <1>1, VolumeOfType DEF IInv, FsMatchesPartition
<1>3. Opened \in Images \cup {NoImage}
  <2>1. Dir \in [Vols -> [Names -> Images \cup {NoImage}]]
    BY BootAssumption DEF BootAssumption
  <2> QED BY <1>1, <1>2, <2>1 DEF Opened
<1>4. Opened = Requested
  BY <1>2 DEF IInv, LocalsSet, Opened, Requested
<1> QED BY <1>3, <1>4

LEMMA OpenDeviceStep ==
  ASSUME IInv, NEW ok \in BOOLEAN, NEW lr \in BOOLEAN, OpenDevice(ok, lr)
  PROVE  IInv'
<1> USE DEF IInv, TypeOK, OpenDevice, GetDisklabel,
            argvars, optvars, bootvars, elfvars, readvars, mntvars, history
<1>1. FlagsTypeOK'
  BY DEF FlagsTypeOK
<1>2. OptionsTypeOK'
  BY DEF OptionsTypeOK
<1>3. LoadTypeOK'
  BY DEF LoadTypeOK
<1>4. LocalsSet'
  BY DEF LocalsSet
<1>5. FsMatchesPartition'
  BY DEF FsMatchesPartition, VolumeOf
<1>6. FdInv'
  BY DEF FdInv
<1>7. AskInv'
  BY DEF AskInv, LocalsSet
<1>8. LoadedInv'
  BY DEF LoadedInv, Requested, VolumeOf
<1>9. RamdiskRead'
  BY DEF RamdiskRead, VolumeOf
<1> QED BY <1>1, <1>2, <1>3, <1>4, <1>5, <1>6, <1>7, <1>8, <1>9

LEMMA CmdQuitStep ==
  ASSUME IInv, CmdQuit
  PROVE  IInv'
<1> USE DEF IInv, TypeOK, CmdQuit, AtPrompt,
            argvars, optvars, bootvars, elfvars, readvars, mntvars, history
<1>1. FlagsTypeOK'
  BY DEF FlagsTypeOK
<1>2. OptionsTypeOK'
  BY DEF OptionsTypeOK
<1>3. LoadTypeOK'
  BY DEF LoadTypeOK
<1>4. LocalsSet'
  BY DEF LocalsSet
<1>5. FsMatchesPartition'
  BY DEF FsMatchesPartition, VolumeOf
<1>6. FdInv'
  BY DEF FdInv
<1>7. AskInv'
  BY DEF AskInv
<1>8. LoadedInv'
  BY DEF LoadedInv, Requested, VolumeOf
<1>9. RamdiskRead'
  BY DEF RamdiskRead, VolumeOf
<1> QED BY <1>1, <1>2, <1>3, <1>4, <1>5, <1>6, <1>7, <1>8, <1>9

LEMMA CmdPartitionStep ==
  ASSUME IInv, NEW n \in TypedParts, CmdPartition(n)
  PROVE  IInv'
<1> USE DEF IInv, TypeOK, CmdPartition, AtPrompt,
            argvars, optvars, bootvars, elfvars, readvars, mntvars, history
<1>0. n \in 0 .. 9
  BY BootAssumption DEF BootAssumption
<1>1. FlagsTypeOK'
  BY DEF FlagsTypeOK
<1>2. OptionsTypeOK'
  BY <1>0 DEF OptionsTypeOK
<1>3. LoadTypeOK'
  BY DEF LoadTypeOK
<1>4. LocalsSet'
  BY DEF LocalsSet
<1>5. FsMatchesPartition'
  BY DEF FsMatchesPartition, VolumeOf
<1>6. FdInv'
  BY DEF FdInv
<1>7. AskInv'
  BY DEF AskInv
<1>8. LoadedInv'
  BY DEF LoadedInv, Requested, VolumeOf
<1>9. RamdiskRead'
  BY DEF RamdiskRead, VolumeOf
<1> QED BY <1>1, <1>2, <1>3, <1>4, <1>5, <1>6, <1>7, <1>8, <1>9

LEMMA CmdListStep ==
  ASSUME IInv, CmdList
  PROVE  IInv'
<1> USE DEF IInv, TypeOK, CmdList, AtPrompt,
            argvars, optvars, bootvars, elfvars, readvars, mntvars, history
<1>a. ASSUME EnsureMounted, fs' = TRUE
      PROVE  LoadTypeOK' /\ FdInv' /\ FsMatchesPartition'
  <2>1. mounted' = VolumeOf(cfgpart) /\ mounted' \in Vols /\ fds' \in 0 .. 1
    BY <1>a, EnsureMountedType
  <2>2. LoadTypeOK' /\ FdInv'
    BY <2>1 DEF LoadTypeOK, FdInv
  <2>3. FsMatchesPartition'
    BY <2>1 DEF FsMatchesPartition, VolumeOf
  <2> QED BY <2>2, <2>3
<1>b. ASSUME ~fs, MountFails(cfgpart), UNCHANGED fs
      PROVE  LoadTypeOK' /\ FdInv' /\ FsMatchesPartition'
  <2>1. mounted' \in Vols \cup {NoVol} /\ fds' \in 0 .. 1
    BY <1>b, MountFailsType DEF OptionsTypeOK
  <2>2. LoadTypeOK' /\ FdInv'
    BY <2>1 DEF LoadTypeOK, FdInv
  <2>3. FsMatchesPartition'
    BY <1>b DEF FsMatchesPartition
  <2> QED BY <2>2, <2>3
<1>1. FlagsTypeOK'
  BY DEF FlagsTypeOK
<1>2. OptionsTypeOK'
  BY DEF OptionsTypeOK
<1>3. LoadTypeOK'
  BY <1>a, <1>b
<1>4. LocalsSet'
  BY DEF LocalsSet
<1>5. FsMatchesPartition'
  BY <1>a, <1>b
<1>6. FdInv'
  BY <1>a, <1>b
<1>7. AskInv'
  BY DEF AskInv
<1>8. LoadedInv'
  BY DEF LoadedInv, Requested, VolumeOf
<1>9. RamdiskRead'
  BY DEF RamdiskRead, VolumeOf
<1> QED BY <1>1, <1>2, <1>3, <1>4, <1>5, <1>6, <1>7, <1>8, <1>9

LEMMA CmdDirStep ==
  ASSUME IInv, CmdDir
  PROVE  IInv'
<1> USE DEF IInv, TypeOK, CmdDir, ListDirectory, AtPrompt,
            argvars, optvars, bootvars, elfvars, readvars, mntvars, history
<1>a. ASSUME EnsureMounted, fs' = TRUE, pc' \in {"crashed", "prompt"}
      PROVE  LoadTypeOK' /\ FdInv' /\ FsMatchesPartition'
  <2>1. mounted' = VolumeOf(cfgpart) /\ mounted' \in Vols /\ fds' \in 0 .. 1
    BY <1>a, EnsureMountedType
  <2>2. LoadTypeOK' /\ FdInv'
    BY <1>a, <2>1 DEF LoadTypeOK, FdInv
  <2>3. FsMatchesPartition'
    BY <1>a, <2>1 DEF FsMatchesPartition, VolumeOf
  <2> QED BY <2>2, <2>3
<1>b. ASSUME ~fs, MountFails(cfgpart), UNCHANGED << pc, fs >>
      PROVE  LoadTypeOK' /\ FdInv' /\ FsMatchesPartition'
  <2>1. mounted' \in Vols \cup {NoVol} /\ fds' \in 0 .. 1
    BY <1>b, MountFailsType DEF OptionsTypeOK
  <2>2. LoadTypeOK' /\ FdInv'
    BY <1>b, <2>1 DEF LoadTypeOK, FdInv
  <2>3. FsMatchesPartition'
    BY <1>b DEF FsMatchesPartition
  <2> QED BY <2>2, <2>3
<1>1. FlagsTypeOK'
  BY DEF FlagsTypeOK
<1>2. OptionsTypeOK'
  BY DEF OptionsTypeOK
<1>3. LoadTypeOK'
  BY <1>a, <1>b
<1>4. LocalsSet'
  BY DEF LocalsSet
<1>5. FsMatchesPartition'
  BY <1>a, <1>b
<1>6. FdInv'
  BY <1>a, <1>b
<1>7. AskInv'
  BY DEF AskInv
<1>8. LoadedInv'
  BY DEF LoadedInv, Requested, VolumeOf
<1>9. RamdiskRead'
  BY DEF RamdiskRead, VolumeOf
<1> QED BY <1>1, <1>2, <1>3, <1>4, <1>5, <1>6, <1>7, <1>8, <1>9

LEMMA CmdBootStep ==
  ASSUME IInv, NEW f \in TypedFiles, NEW a \in TypedArgs, CmdBoot(f, a)
  PROVE  IInv'
<1> USE DEF IInv, TypeOK, CmdBoot, AtPrompt,
            argvars, optvars, bootvars, elfvars, readvars, mntvars, history
<1>0. buf' \in Lines /\ want' \in Seq(Words)
  <2>1. a \in Seq(Words) /\ extra_args.w \in Seq(Words)
    BY BootAssumption DEF BootAssumption, OptionsTypeOK, Extras
  <2> QED BY <2>1, BootAssumption, ConcatProperties DEF BootAssumption, Lines
<1>1. FlagsTypeOK'
  BY DEF FlagsTypeOK
<1>2. OptionsTypeOK'
  BY <1>0 DEF OptionsTypeOK
<1>3. LoadTypeOK'
  BY DEF LoadTypeOK
<1>4. LocalsSet'
  BY <1>0 DEF LocalsSet
<1>5. FsMatchesPartition'
  BY DEF FsMatchesPartition, VolumeOf
<1>6. FdInv'
  BY DEF FdInv
<1>7. AskInv'
  BY DEF AskInv
<1>8. LoadedInv'
  BY DEF LoadedInv, Requested, VolumeOf
<1>9. RamdiskRead'
  BY DEF RamdiskRead, VolumeOf
<1> QED BY <1>1, <1>2, <1>3, <1>4, <1>5, <1>6, <1>7, <1>8, <1>9

LEMMA CmdInitrdStep ==
  ASSUME IInv, NEW n \in TypedInitrds, CmdInitrd(n)
  PROVE  IInv'
<1> USE DEF IInv, TypeOK, CmdInitrd, AtPrompt,
            argvars, optvars, bootvars, elfvars, readvars, mntvars, history
<1>0. n \in Names \cup {NoFile}
  BY BootAssumption DEF BootAssumption
<1>1. FlagsTypeOK'
  BY DEF FlagsTypeOK
<1>2. OptionsTypeOK'
  BY <1>0 DEF OptionsTypeOK
<1>3. LoadTypeOK'
  BY DEF LoadTypeOK
<1>4. LocalsSet'
  BY DEF LocalsSet
<1>5. FsMatchesPartition'
  BY DEF FsMatchesPartition, VolumeOf
<1>6. FdInv'
  BY DEF FdInv
<1>7. AskInv'
  BY DEF AskInv
<1>8. LoadedInv'
  BY DEF LoadedInv, Requested, VolumeOf
<1>9. RamdiskRead'
  BY DEF RamdiskRead, VolumeOf
<1> QED BY <1>1, <1>2, <1>3, <1>4, <1>5, <1>6, <1>7, <1>8, <1>9

LEMMA CmdPresetStep ==
  ASSUME IInv, NEW c \in Chars \ {"i"}, NEW a \in TypedArgs, CmdPreset(c, a)
  PROVE  IInv'
<1> USE DEF IInv, TypeOK, CmdPreset, AtPrompt,
            argvars, optvars, bootvars, elfvars, readvars, mntvars, history
<1>0. a \in Seq(Words)
  BY BootAssumption DEF BootAssumption
<1>a. kernel_args' \in Seq(Words) /\ want' \in Seq(Words) /\ ink' \subseteq Bytes
  BY <1>0, FlagIType, StoredType DEF OptionsTypeOK, Extras
<1>b. extra_args' \in Extras
  <2>1. [k |-> "alias", w |-> << >>] \in Extras
    BY FlagIType DEF Extras
  <2>2. extra_args \in Extras
    BY DEF OptionsTypeOK
  <2> QED BY <2>1, <2>2
<1>1. FlagsTypeOK'
  BY DEF FlagsTypeOK
<1>2. OptionsTypeOK'
  BY <1>a, <1>b DEF OptionsTypeOK
<1>3. LoadTypeOK'
  BY DEF LoadTypeOK
<1>4. LocalsSet'
  BY DEF LocalsSet
<1>5. FsMatchesPartition'
  BY DEF FsMatchesPartition, VolumeOf
<1>6. FdInv'
  BY DEF FdInv
<1>7. AskInv'
  BY DEF AskInv
<1>8. LoadedInv'
  BY DEF LoadedInv, Requested, VolumeOf
<1>9. RamdiskRead'
  BY DEF RamdiskRead, VolumeOf
<1> QED BY <1>1, <1>2, <1>3, <1>4, <1>5, <1>6, <1>7, <1>8, <1>9

LEMMA ParseFlagsStep ==
  ASSUME IInv, ParseFlags
  PROVE  IInv'
<1> USE DEF IInv, TypeOK, ParseFlags,
            argvars, optvars, bootvars, elfvars, readvars, mntvars, history
<1>a. ASSUME ParsePreset
      PROVE  OptionsTypeOK' /\ LocalsSet' /\ AskInv'
  <2> DEFINE w == Head(kernel_args)
  <2>1. kernel_args \in Seq(Words) /\ kernel_args # << >> /\ w.t \in {"pair", "single"}
    BY <1>a DEF ParsePreset, OptionsTypeOK, IsPair, IsSingle
  <2>2. w \in Words /\ Tail(kernel_args) \in Seq(Words)
    BY <2>1, HeadTailProperties
  <2>3. w.c \in Chars /\ (IsPair => w.p \in 0 .. 9)
    BY <2>1, <2>2 DEF Words, IsPair
  <2>4. extra_args' \in Extras /\ extra_args'.w \in Seq(Words)
    BY <1>a, <2>2, FlagIType DEF ParsePreset, TailOfFlags, NoExtra, Extras
  <2>5. OptionsTypeOK'
    BY <1>a, <2>3, <2>4 DEF ParsePreset, OptionsTypeOK
  <2>6. LocalsSet'
    BY <1>a, <2>3 DEF ParsePreset, LocalsSet
  <2>7. ~failed
    <3> SUFFICES ASSUME failed PROVE FALSE
      OBVIOUS
    <3>1. kernel_args = FlagI
      BY DEF AskInv
    <3>2. w.t = "single" /\ w.c = "i"
      BY <3>1 DEF FlagI
    <3> QED BY <1>a, <2>1, <3>2 DEF ParsePreset, IsPair, IsSingle, IsI
  <2>8. AskInv'
    BY <1>a, <2>7 DEF ParsePreset, AskInv
  <2> QED BY <2>5, <2>6, <2>8
<1>b. ASSUME ParseInteractive
      PROVE  OptionsTypeOK' /\ LocalsSet' /\ AskInv'
  <2>1. OptionsTypeOK'
    BY <1>b, FlagIType DEF ParseInteractive, ToPrompt, OptionsTypeOK, NoExtra, Extras
  <2>2. LocalsSet' /\ AskInv'
    BY <1>b DEF ParseInteractive, ToPrompt, LocalsSet, AskInv
  <2> QED BY <2>1, <2>2
<1>c. ASSUME ParseDirect
      PROVE  OptionsTypeOK' /\ LocalsSet' /\ AskInv'
  <2>1. OptionsTypeOK'
    BY <1>c, FlagIType DEF ParseDirect, OptionsTypeOK, NoExtra, Extras
  <2>2. ~failed
    BY <1>c DEF ParseDirect, IsSingle, AskInv, FlagI
  <2>3. LocalsSet' /\ AskInv'
    BY <1>c, <2>2 DEF ParseDirect, LocalsSet, AskInv
  <2> QED BY <2>1, <2>3
<1>d. pc' \in {"preset", "prompt", "direct"}
  BY DEF ParsePreset, ParseInteractive, ParseDirect, ToPrompt
<1>1. FlagsTypeOK'
  BY DEF FlagsTypeOK
<1>2. OptionsTypeOK'
  BY <1>a, <1>b, <1>c
<1>3. LoadTypeOK'
  BY DEF LoadTypeOK
<1>4. LocalsSet'
  BY <1>a, <1>b, <1>c
<1>5. FsMatchesPartition'
  BY <1>d DEF FsMatchesPartition
<1>6. FdInv'
  BY <1>d DEF FdInv
<1>7. AskInv'
  BY <1>a, <1>b, <1>c
<1>8. LoadedInv'
  BY <1>d DEF LoadedInv
<1>9. RamdiskRead'
  BY <1>d DEF RamdiskRead
<1> QED BY <1>1, <1>2, <1>3, <1>4, <1>5, <1>6, <1>7, <1>8, <1>9

LEMMA PresetFoundStep ==
  ASSUME IInv, PresetFound
  PROVE  IInv'
<1> USE DEF IInv, TypeOK, PresetFound,
            argvars, optvars, bootvars, elfvars, readvars, mntvars, history
<1>0. mounted' = VolumeOf(cfgpart) /\ mounted' \in Vols /\ fds' \in 0 .. 1
  BY EnsureMountedType
<1>a. buf' \in Lines
  <2>1. Config \in [Vols -> [Chars -> Lines \cup {NoLine}]]
    BY BootAssumption DEF BootAssumption
  <2>2. preset \in Chars
    BY DEF LocalsSet
  <2> QED BY <1>0, <2>1, <2>2
<1>b. want' \in Seq(Words)
  <2>1. buf'.args \in Seq(Words) /\ want \in Seq(Words)
    BY <1>a DEF Lines, OptionsTypeOK
  <2> QED BY <2>1, ConcatProperties
<1>1. FlagsTypeOK'
  BY DEF FlagsTypeOK
<1>2. OptionsTypeOK'
  BY <1>a, <1>b DEF OptionsTypeOK
<1>3. LoadTypeOK'
  BY <1>0 DEF LoadTypeOK
<1>4. LocalsSet'
  BY <1>a DEF LocalsSet
<1>5. FsMatchesPartition'
  BY DEF FsMatchesPartition, VolumeOf
<1>6. FdInv'
  BY <1>0 DEF FdInv
<1>7. AskInv'
  BY DEF AskInv
<1>8. LoadedInv'
  BY DEF LoadedInv, Requested, VolumeOf
<1>9. RamdiskRead'
  BY DEF RamdiskRead, VolumeOf
<1> QED BY <1>1, <1>2, <1>3, <1>4, <1>5, <1>6, <1>7, <1>8, <1>9

LEMMA PresetNotFoundStep ==
  ASSUME IInv, PresetNotFound
  PROVE  IInv'
<1> USE DEF IInv, TypeOK, PresetNotFound, ToPrompt,
            argvars, optvars, bootvars, elfvars, readvars, mntvars, history
<1>a. ASSUME EnsureMounted, fs' = TRUE
      PROVE  LoadTypeOK' /\ FdInv' /\ FsMatchesPartition'
  <2>1. mounted' = VolumeOf(cfgpart) /\ mounted' \in Vols /\ fds' \in 0 .. 1
    BY <1>a, EnsureMountedType
  <2>2. LoadTypeOK' /\ FdInv'
    BY <2>1 DEF LoadTypeOK, FdInv
  <2>3. FsMatchesPartition'
    BY <2>1 DEF FsMatchesPartition, VolumeOf
  <2> QED BY <2>2, <2>3
<1>b. ASSUME ~fs, MountFails(cfgpart), UNCHANGED fs
      PROVE  LoadTypeOK' /\ FdInv' /\ FsMatchesPartition'
  <2>1. mounted' \in Vols \cup {NoVol} /\ fds' \in 0 .. 1
    BY <1>b, MountFailsType DEF OptionsTypeOK
  <2>2. LoadTypeOK' /\ FdInv'
    BY <2>1 DEF LoadTypeOK, FdInv
  <2>3. FsMatchesPartition'
    BY <1>b DEF FsMatchesPartition
  <2> QED BY <2>2, <2>3
<1>1. FlagsTypeOK'
  BY DEF FlagsTypeOK
<1>2. OptionsTypeOK'
  BY FlagIType DEF OptionsTypeOK
<1>3. LoadTypeOK'
  BY <1>a, <1>b
<1>4. LocalsSet'
  BY DEF LocalsSet
<1>5. FsMatchesPartition'
  BY <1>a, <1>b
<1>6. FdInv'
  BY <1>a, <1>b
<1>7. AskInv'
  BY DEF AskInv
<1>8. LoadedInv'
  BY DEF LoadedInv, Requested, VolumeOf
<1>9. RamdiskRead'
  BY DEF RamdiskRead, VolumeOf
<1> QED BY <1>1, <1>2, <1>3, <1>4, <1>5, <1>6, <1>7, <1>8, <1>9

LEMMA FinishOptionsStep ==
  ASSUME IInv, FinishOptions
  PROVE  IInv'
<1> USE DEF IInv, TypeOK, FinishOptions,
            argvars, optvars, bootvars, elfvars, readvars, mntvars, history
<1>a. ASSUME NEW args \in Seq(Words), NEW b, b \subseteq Bytes, StripInitrd(args, b)
      PROVE  /\ kernel_args' \in Seq(Words) /\ initrd_file' \in Names \cup {NoFile, Scrap}
             /\ ink' \subseteq Bytes
  <2>1. ASSUME NEW i \in 1 .. Len(args), FirstInitrd(args, i),
               kernel_args' = RemoveWord(args, i), initrd_file' = args[i].c
        PROVE  kernel_args' \in Seq(Words) /\ initrd_file' \in Names
    <3>1. args[i] \in Words /\ args[i].t = "initrd"
      BY <2>1, ElementOfSeq DEF FirstInitrd
    <3> QED BY <2>1, <3>1, RemoveWordType DEF Words
  <2>2. ink' \subseteq Bytes
    BY <1>a DEF StripInitrd
  <2>3. /\ kernel_args' \in Seq(Words) /\ initrd_file' \in Names \cup {NoFile, Scrap}
       
    BY <1>a, <2>1 DEF StripInitrd, OptionsTypeOK
  <2> QED BY <2>2, <2>3
<1>b. ASSUME NEW ref \in FileRefs, StripPartition(ref)
      PROVE  boot_part' \in 0 .. 9 /\ boot_file' \in FileRefs
  BY <1>b DEF StripPartition, FileRefs, NoPart, OptionsTypeOK
<1>c. ASSUME pc = "finish", StripInitrd(ArgsOfLine, InkOfLine), StripPartition(buf.file)
      PROVE  /\ kernel_args' \in Seq(Words) /\ initrd_file' \in Names \cup {NoFile, Scrap}
             /\ ink' \subseteq Bytes
             /\ boot_part' \in 0 .. 9 /\ boot_file' \in FileRefs
  <2>1. buf.file \in FileRefs /\ buf.args \in Seq(Words)
    BY <1>c DEF LocalsSet, Lines
  <2>2. ExtraWords \in Seq(Words) /\ kernel_args \in Seq(Words)
    BY DEF ExtraWords, OptionsTypeOK, Extras
  <2>3. ArgsOfLine \in Seq(Words)
    BY <2>1, <2>2, ConcatProperties DEF ArgsOfLine
  <2>4. InkOfLine \subseteq Bytes
    BY StoredType DEF InkOfLine, OptionsTypeOK
  <2> QED BY <1>a, <1>b, <1>c, <2>1, <2>3, <2>4
<1>d. ASSUME pc = "direct", StripInitrd(kernel_args, ink), StripPartition(boot_file)
      PROVE  /\ kernel_args' \in Seq(Words) /\ initrd_file' \in Names \cup {NoFile, Scrap}
             /\ ink' \subseteq Bytes
             /\ boot_part' \in 0 .. 9 /\ boot_file' \in FileRefs
  BY <1>a, <1>b, <1>d DEF OptionsTypeOK
<1>e. /\ kernel_args' \in Seq(Words) /\ initrd_file' \in Names \cup {NoFile, Scrap}
      /\ ink' \subseteq Bytes
      /\ boot_part' \in 0 .. 9 /\ boot_file' \in FileRefs
  BY <1>c, <1>d
<1>g. wantrd' \in Names \cup {NoFile}
  <2>1. ASSUME NEW i \in 1 .. Len(want), FirstInitrd(want, i) PROVE want[i].c \in Names
    <3>1. want[i] \in Words /\ want[i].t = "initrd"
      BY <2>1, ElementOfSeq DEF FirstInitrd, OptionsTypeOK
    <3> QED BY <3>1 DEF Words
  <2> QED BY <2>1 DEF AskRamdisk, OptionsTypeOK
<1>f. extra_args' \in Extras
  BY FlagIType DEF NoExtra, Extras
<1>1. FlagsTypeOK'
  BY DEF FlagsTypeOK
<1>2. OptionsTypeOK'
  BY <1>e, <1>f, <1>g DEF OptionsTypeOK
<1>3. LoadTypeOK'
  BY DEF LoadTypeOK
<1>4. LocalsSet'
  BY DEF LocalsSet
<1>5. FsMatchesPartition'
  BY DEF FsMatchesPartition, VolumeOf
<1>6. FdInv'
  BY DEF FdInv
<1>7. AskInv'
  BY DEF AskInv
<1>8. LoadedInv'
  BY DEF LoadedInv, Requested, VolumeOf
<1>9. RamdiskRead'
  BY DEF RamdiskRead, VolumeOf
<1> QED BY <1>1, <1>2, <1>3, <1>4, <1>5, <1>6, <1>7, <1>8, <1>9

LEMMA LoadRawStep ==
  ASSUME IInv, LoadRaw
  PROVE  IInv'
<1> USE DEF IInv, TypeOK, LoadRaw,
            argvars, optvars, bootvars, elfvars, readvars, mntvars, history
<1>0. RawImage \in Images
  BY BootAssumption DEF BootAssumption, RawImage
<1>a. /\ bss' \in Images \cup {NoImage} /\ elf' \in Images \cup {NoImage}
      /\ memory' \in Images \cup {NoImage}
  BY <1>0 DEF LoadTypeOK, ScanHeaders, BssAfter
<1>b. \/ LoadFails
      \/ /\ pc' = "bss" /\ memory' = RawImage /\ elf' = RawImage
         /\ Accepts(RawImage, bss) /\ UNCHANGED << argvars, readvars, history >>
  BY DEF ScanHeaders
<1>1. FlagsTypeOK'
  BY <1>b DEF FlagsTypeOK, LoadFails
<1>2. OptionsTypeOK'
  BY <1>b, LoadFailsType DEF OptionsTypeOK
<1>3. LoadTypeOK'
  BY <1>a, <1>b, LoadFailsType DEF LoadTypeOK
<1>4. LocalsSet'
  BY <1>b DEF LocalsSet, LoadFails
<1>5. FsMatchesPartition'
  BY <1>b DEF FsMatchesPartition, LoadFails
<1>6. FdInv'
  BY <1>b DEF FdInv, LoadFails
<1>7. AskInv'
  BY <1>b DEF AskInv, LoadFails
<1>8. LoadedInv'
  BY <1>b, AcceptsFresh DEF LoadedInv, Requested, LoadFails
<1>9. RamdiskRead'
  BY <1>b DEF RamdiskRead, LoadFails
<1> QED BY <1>1, <1>2, <1>3, <1>4, <1>5, <1>6, <1>7, <1>8, <1>9

LEMMA MountBootStep ==
  ASSUME IInv, MountBoot
  PROVE  IInv'
<1> USE DEF IInv, TypeOK, MountBoot,
            argvars, optvars, bootvars, elfvars, readvars, mntvars, history
<1>0. boot_part \in 0 .. 9
  BY DEF OptionsTypeOK
<1>a. ASSUME MountFails(boot_part), LoadFails
      PROVE  OptionsTypeOK' /\ LoadTypeOK' /\ FdInv' /\ FsMatchesPartition'
  <2>1. mounted' \in Vols \cup {NoVol} /\ fds' \in 0 .. 1
    BY <1>0, <1>a, MountFailsType
  <2>2. OptionsTypeOK'
    BY <1>a, LoadFailsType DEF OptionsTypeOK
  <2>3. LoadTypeOK' /\ FdInv'
    BY <1>a, <2>1, LoadFailsType DEF LoadTypeOK, FdInv
  <2>4. FsMatchesPartition'
    BY <1>a DEF LoadFails, FsMatchesPartition
  <2> QED BY <2>2, <2>3, <2>4
<1>b. ASSUME MountOk(boot_part), attempt' = 0, method' \in 0 .. 1,
             pc' = "attempt", UNCHANGED << argvars, history >>
      PROVE  OptionsTypeOK' /\ LoadTypeOK' /\ FdInv' /\ FsMatchesPartition'
  <2>1. mounted' \in Vols /\ mounted' = VolumeOf(boot_part) /\ fds' = 0
    BY <1>0, <1>b, MountOkType
  <2>2. OptionsTypeOK'
    BY <1>b DEF OptionsTypeOK
  <2>3. LoadTypeOK' /\ FdInv'
    BY <1>b, <2>1 DEF LoadTypeOK, FdInv
  <2>4. FsMatchesPartition'
    BY <1>b, <2>1 DEF FsMatchesPartition, VolumeOf
  <2> QED BY <2>2, <2>3, <2>4
<1>c. \/ MountFails(boot_part) /\ LoadFails
      \/ /\ MountOk(boot_part) /\ attempt' = 0 /\ method' \in 0 .. 1
         /\ pc' = "attempt" /\ UNCHANGED << argvars, history >>
  BY DEF Compressed, Uncompressed
<1>1. FlagsTypeOK'
  BY <1>c DEF FlagsTypeOK, LoadFails
<1>2. OptionsTypeOK'
  BY <1>a, <1>b, <1>c
<1>3. LoadTypeOK'
  BY <1>a, <1>b, <1>c
<1>4. LocalsSet'
  BY <1>c DEF LocalsSet, LoadFails
<1>5. FsMatchesPartition'
  BY <1>a, <1>b, <1>c
<1>6. FdInv'
  BY <1>a, <1>b, <1>c
<1>7. AskInv'
  BY <1>c DEF AskInv, LoadFails
<1>8. LoadedInv'
  BY <1>c DEF LoadedInv, LoadFails
<1>9. RamdiskRead'
  BY <1>c DEF RamdiskRead, LoadFails
<1> QED BY <1>1, <1>2, <1>3, <1>4, <1>5, <1>6, <1>7, <1>8, <1>9

LEMMA OpenKernelFailsStep ==
  ASSUME IInv, OpenKernelFails
  PROVE  IInv'
<1> USE DEF IInv, TypeOK, OpenKernelFails, LoadFails,
            argvars, optvars, bootvars, elfvars, readvars, mntvars, history
<1>1. FlagsTypeOK'
  BY DEF FlagsTypeOK
<1>2. OptionsTypeOK'
  BY LoadFailsType DEF OptionsTypeOK
<1>3. LoadTypeOK'
  BY LoadFailsType DEF LoadTypeOK
<1>4. LocalsSet'
  BY DEF LocalsSet
<1>5. FsMatchesPartition'
  BY DEF FsMatchesPartition, VolumeOf
<1>6. FdInv'
  BY DEF FdInv
<1>7. AskInv'
  BY DEF AskInv
<1>8. LoadedInv'
  BY DEF LoadedInv, Requested, VolumeOf
<1>9. RamdiskRead'
  BY DEF RamdiskRead, VolumeOf
<1> QED BY <1>1, <1>2, <1>3, <1>4, <1>5, <1>6, <1>7, <1>8, <1>9

LEMMA ReadKernelGivesUpStep ==
  ASSUME IInv, ReadKernelGivesUp
  PROVE  IInv'
<1> USE DEF IInv, TypeOK, ReadKernelGivesUp, LoadFails,
            argvars, optvars, bootvars, elfvars, readvars, mntvars, history
<1>1. FlagsTypeOK'
  BY DEF FlagsTypeOK
<1>2. OptionsTypeOK'
  BY LoadFailsType DEF OptionsTypeOK
<1>3. LoadTypeOK'
  BY LoadFailsType DEF LoadTypeOK
<1>4. LocalsSet'
  BY DEF LocalsSet
<1>5. FsMatchesPartition'
  BY DEF FsMatchesPartition, VolumeOf
<1>6. FdInv'
  BY DEF FdInv
<1>7. AskInv'
  BY DEF AskInv
<1>8. LoadedInv'
  BY DEF LoadedInv, Requested, VolumeOf
<1>9. RamdiskRead'
  BY DEF RamdiskRead, VolumeOf
<1> QED BY <1>1, <1>2, <1>3, <1>4, <1>5, <1>6, <1>7, <1>8, <1>9

LEMMA TryUncompressedStep ==
  ASSUME IInv, TryUncompressed
  PROVE  IInv'
<1> USE DEF IInv, TypeOK, TryUncompressed,
            argvars, optvars, bootvars, elfvars, readvars, mntvars, history
<1>0. Opened \in Images /\ Opened = Requested /\ attempt \in 0 .. 1
  BY OpenedType DEF LoadTypeOK
<1>a. /\ bss' \in Images \cup {NoImage} /\ elf' \in Images \cup {NoImage}
      /\ memory' \in Images \cup {NoImage}
  BY <1>0 DEF LoadTypeOK, ScanHeaders, BssAfter, SegmentFails
<1>b. \/ /\ pc' = "attempt" /\ attempt' = attempt + 1 /\ method' = 1
         /\ fds' = fds
      \/ /\ pc' = "bss" /\ attempt' = 0 /\ method' = 0 /\ UNCHANGED fds
         /\ memory' = Opened /\ elf' = Opened /\ Accepts(Opened, bss)
  BY DEF ScanHeaders, SegmentFails, NextMethod, Uncompressed, Compressed
<1>c. UNCHANGED << label, argvars, initrd, optvars, bootvars, mounted, history >>
  OBVIOUS
<1>d. pc = "attempt" /\ method = Uncompressed
  OBVIOUS
<1>1. FlagsTypeOK'
  BY <1>c DEF FlagsTypeOK
<1>2. OptionsTypeOK'
  BY <1>b, <1>c DEF OptionsTypeOK
<1>3. LoadTypeOK'
  BY <1>0, <1>a, <1>b, <1>c DEF LoadTypeOK
<1>4. LocalsSet'
  BY <1>b, <1>c, <1>d DEF LocalsSet
<1>5. FsMatchesPartition'
  BY <1>b, <1>c, <1>d DEF FsMatchesPartition, VolumeOf
<1>6. FdInv'
  BY <1>0, <1>b, <1>d DEF FdInv, Uncompressed, Compressed
<1>7. AskInv'
  BY <1>b, <1>c, <1>d DEF AskInv
<1>8. LoadedInv'
  BY <1>0, <1>b, <1>c, AcceptsFresh DEF LoadedInv, Requested, VolumeOf
<1>9. RamdiskRead'
  BY <1>b DEF RamdiskRead
<1> QED BY <1>1, <1>2, <1>3, <1>4, <1>5, <1>6, <1>7, <1>8, <1>9

LEMMA TryCompressedStep ==
  ASSUME IInv, TryCompressed
  PROVE  IInv'
<1> USE DEF IInv, TypeOK, TryCompressed,
            argvars, optvars, bootvars, elfvars, readvars, mntvars, history
<1>0. Opened \in Images /\ Opened = Requested /\ attempt \in 0 .. 1
  BY OpenedType DEF LoadTypeOK
<1>a. /\ bss' \in Images \cup {NoImage} /\ elf' \in Images \cup {NoImage}
      /\ memory' \in Images \cup {NoImage}
  BY <1>0 DEF LoadTypeOK, ScanHeaders, BssAfter, SegmentFails
<1>b. \/ /\ pc' = "attempt" /\ attempt' = attempt + 1 /\ method' = 0
         /\ fds' = fds + 1
      \/ /\ pc' = "bss" /\ attempt' = 0 /\ method' = 0 /\ UNCHANGED fds
         /\ memory' = Opened /\ elf' = Opened /\ Accepts(Opened, bss)
  BY DEF ScanHeaders, SegmentFails, NextMethod, Uncompressed, Compressed
<1>c. UNCHANGED << label, argvars, initrd, optvars, bootvars, mounted, history >>
  OBVIOUS
<1>d. pc = "attempt" /\ method = Compressed
  OBVIOUS
<1>1. FlagsTypeOK'
  BY <1>c DEF FlagsTypeOK
<1>2. OptionsTypeOK'
  BY <1>b, <1>c DEF OptionsTypeOK
<1>3. LoadTypeOK'
  BY <1>0, <1>a, <1>b, <1>c DEF LoadTypeOK
<1>4. LocalsSet'
  BY <1>b, <1>c, <1>d DEF LocalsSet
<1>5. FsMatchesPartition'
  BY <1>b, <1>c, <1>d DEF FsMatchesPartition, VolumeOf
<1>6. FdInv'
  BY <1>0, <1>b, <1>d DEF FdInv, Uncompressed, Compressed
<1>7. AskInv'
  BY <1>b, <1>c, <1>d DEF AskInv
<1>8. LoadedInv'
  BY <1>0, <1>b, <1>c, AcceptsFresh DEF LoadedInv, Requested, VolumeOf
<1>9. RamdiskRead'
  BY <1>b DEF RamdiskRead
<1> QED BY <1>1, <1>2, <1>3, <1>4, <1>5, <1>6, <1>7, <1>8, <1>9

LEMMA ClearBssStep ==
  ASSUME IInv, ClearBss
  PROVE  IInv'
<1> USE DEF IInv, TypeOK, ClearBss,
            argvars, optvars, bootvars, elfvars, readvars, mntvars, history
<1>a. memory = elf /\ memory' \in Images \cup {NoImage}
      /\ (memory' = memory \/ << bss, elf >> \in BssHits)
  BY DEF LoadedInv, LoadTypeOK, ZeroFill
<1>1. FlagsTypeOK'
  BY DEF FlagsTypeOK
<1>2. OptionsTypeOK'
  BY DEF OptionsTypeOK
<1>3. LoadTypeOK'
  BY <1>a DEF LoadTypeOK
<1>4. LocalsSet'
  BY DEF LocalsSet
<1>5. FsMatchesPartition'
  BY DEF FsMatchesPartition, VolumeOf
<1>6. FdInv'
  BY DEF FdInv
<1>7. AskInv'
  BY DEF AskInv
<1>8. LoadedInv'
  BY <1>a DEF LoadedInv, Requested, VolumeOf
<1>9. RamdiskRead'
  BY DEF RamdiskRead, VolumeOf
<1> QED BY <1>1, <1>2, <1>3, <1>4, <1>5, <1>6, <1>7, <1>8, <1>9

LEMMA InitrdMountFailsStep ==
  ASSUME IInv, InitrdMountFails
  PROVE  IInv'
<1> USE DEF IInv, TypeOK, InitrdMountFails,
            argvars, optvars, bootvars, elfvars, readvars, mntvars, history
<1>0. mounted' \in Vols \cup {NoVol} /\ fds' \in 0 .. 1
  BY MountFailsType DEF OptionsTypeOK
<1>1. FlagsTypeOK'
  BY DEF FlagsTypeOK, LoadFails
<1>2. OptionsTypeOK'
  BY LoadFailsType DEF OptionsTypeOK
<1>3. LoadTypeOK'
  BY <1>0, LoadFailsType DEF LoadTypeOK
<1>4. LocalsSet'
  BY DEF LocalsSet, LoadFails
<1>5. FsMatchesPartition'
  BY DEF FsMatchesPartition, LoadFails
<1>6. FdInv'
  BY <1>0 DEF FdInv, LoadFails
<1>7. AskInv'
  BY DEF AskInv, LoadFails
<1>8. LoadedInv'
  BY DEF LoadedInv, LoadFails
<1>9. RamdiskRead'
  BY DEF RamdiskRead, LoadFails
<1> QED BY <1>1, <1>2, <1>3, <1>4, <1>5, <1>6, <1>7, <1>8, <1>9

LEMMA ReadInitrdStep ==
  ASSUME IInv, ReadInitrd
  PROVE  IInv'
<1> USE DEF IInv, TypeOK, ReadInitrd,
            argvars, optvars, bootvars, elfvars, readvars, mntvars, history
<1>0. mounted' = VolumeOf(boot_part) /\ mounted' \in Vols /\ fds' \in 0 .. 1
  BY VolumeOfType DEF OptionsTypeOK
<1>a. ASSUME NEW s \in SizesSeen(initrd_file), initrd_file \in Names
      PROVE  s \in Nat /\ InitrdBlocks(s) \in Nat
  <2>1. s \in Nat
    BY <1>a, BootAssumption DEF BootAssumption, SizesSeen
  <2>2. BlockSize \in Nat \ {0}
    BY BootAssumption DEF BootAssumption
  <2>3. s \div BlockSize \in Nat
    BY <2>1, <2>2
  <2> QED BY <2>1, <2>3 DEF InitrdBlocks
<1>b. initrd_file \in Names \/ initrd_file = Scrap
  BY DEF LocalsSet, OptionsTypeOK
<1>c. initrd' \in [file : Names \cup {NoFile}, vol : Vols \cup {NoVol},
                   size : Nat, blocks : Nat]
  BY <1>0, <1>a, <1>b DEF LoadTypeOK
<1>d. \/ LoadFails
      \/ pc' = "crashed" /\ UNCHANGED << argvars, readvars, history >>
      \/ /\ pc' = "started" /\ UNCHANGED << argvars, readvars, history >>
         /\ initrd'.file = initrd_file /\ initrd'.vol = mounted'
  OBVIOUS
<1>e. UNCHANGED << label, optvars, bootvars, elfvars >>
  OBVIOUS
<1>1. FlagsTypeOK'
  BY <1>d, <1>e DEF FlagsTypeOK, LoadFails
<1>2. OptionsTypeOK'
  BY <1>d, <1>e, LoadFailsType DEF OptionsTypeOK
<1>3. LoadTypeOK'
  BY <1>0, <1>c, <1>d, <1>e, LoadFailsType DEF LoadTypeOK
<1>4. LocalsSet'
  BY <1>d DEF LocalsSet, LoadFails
<1>5. FsMatchesPartition'
  BY <1>d DEF FsMatchesPartition, LoadFails
<1>6. FdInv'
  BY <1>0, <1>d DEF FdInv, LoadFails
<1>7. AskInv'
  BY <1>d DEF AskInv, LoadFails
<1>8. LoadedInv'
  BY <1>d, <1>e DEF LoadedInv, LoadFails, Requested, VolumeOf
<1>9. RamdiskRead'
  BY <1>0, <1>d, <1>e DEF RamdiskRead, LoadFails, VolumeOf
<1> QED BY <1>1, <1>2, <1>3, <1>4, <1>5, <1>6, <1>7, <1>8, <1>9

(* No step of the program or of the user breaks IInv. *)
LEMMA NextIInv == IInv /\ [Next]_vars => IInv'
<1> SUFFICES ASSUME IInv, [Next]_vars PROVE IInv'
  OBVIOUS
<1>1. CASE Loader
  BY <1>1, OpenDeviceStep, ParseFlagsStep, PresetFoundStep, PresetNotFoundStep,
     FinishOptionsStep, LoadRawStep, MountBootStep, OpenKernelFailsStep,
     ReadKernelGivesUpStep, TryUncompressedStep, TryCompressedStep,
     ClearBssStep, InitrdMountFailsStep, ReadInitrdStep DEF Loader
<1>2. CASE User
  BY <1>2, CmdQuitStep, CmdPartitionStep, CmdListStep, CmdDirStep, CmdBootStep,
     CmdInitrdStep, CmdPresetStep DEF User
<1>3. CASE UNCHANGED vars
  <2> USE <1>3 DEF vars, IInv, TypeOK, argvars, optvars, bootvars, elfvars, readvars,
                   mntvars, history
  <2>1. FlagsTypeOK'
    BY DEF FlagsTypeOK
  <2>2. OptionsTypeOK' /\ LoadTypeOK'
    BY DEF OptionsTypeOK, LoadTypeOK
  <2>3. LocalsSet' /\ FdInv' /\ AskInv'
    BY DEF LocalsSet, FdInv, AskInv
  <2>4. FsMatchesPartition' /\ RamdiskRead'
    BY DEF FsMatchesPartition, RamdiskRead, VolumeOf
  <2>5. LoadedInv'
    BY DEF LoadedInv, Requested, VolumeOf
  <2> QED BY <2>1, <2>2, <2>3, <2>4, <2>5
<1> QED BY <1>1, <1>2, <1>3 DEF Next, Stopped

(* The boot loop preserves IInv: whatever the disk, the console and the    *)
(* user do, every state of load_kernel satisfies each of its parts.        *)
THEOREM Invariance == Spec => []IInv
BY InitIInv, NextIInv, PTL DEF Spec

(* Every variable of the boot loop keeps its type; read_kernel's method    *)
(* never leaves the bounds of read_method[].                               *)
THEOREM TypeCorrect == Spec => []TypeOK
<1>1. IInv => TypeOK
  BY DEF IInv
<1> QED BY <1>1, Invariance, PTL

(* No driver is used on another volume than the one get_aboot_options or   *)
(* load has asked mount_fs for.                                            *)
THEOREM DriverOnItsVolume == Spec => []FsMatchesPartition
<1>1. IInv => FsMatchesPartition
  BY DEF IInv
<1> QED BY <1>1, Invariance, PTL

(* However many loads fail, at most one descriptor is lost before the next *)
(* mount.                                                                  *)
THEOREM LostDescriptors == Spec => []FdsBounded
<1>1. IInv => FdsBounded
  BY DEF IInv, FdInv, FdsBounded
<1> QED BY <1>1, Invariance, PTL

(* After a failed load nothing is loaded or started unasked. *)
THEOREM AsksAfterFailure == Spec => []FailedLoadAsksUser
<1>1. IInv => FailedLoadAsksUser
  BY DEF IInv, AskInv, FailedLoadAsksUser
<1> QED BY <1>1, Invariance, PTL
-----------------------------------------------------------------------------
(* What is handed over.                                                    *)
(*                                                                         *)
(* After a failure the arguments of the choice under way are at every      *)
(* moment those that the flags, the line or the command give: extra_args   *)
(* is never left over from the flags, and kernel_args has been emptied.    *)
FreshInv ==
  failed =>
    /\ pc # "direct"
    /\ pc \in {"prompt", "preset", "finish"} =>
         extra_args.k = "alias" \/ (extra_args = NoExtra /\ (pc # "finish" => kernel_args = << >>))
    /\ pc = "prompt" => kernel_args = << >>
    /\ pc = "preset" => want = ExtraWords
    /\ pc = "finish" => want = ArgsOfLine
    /\ pc \in {"load", "attempt", "bss", "initrd", "started"} => IsStripped(want, kernel_args)

(* In every session: no words of the line that goes on are lost, and none  *)
(* are added, but for a flag that is no option and that the kernel is given *)
(* where the line has no blank.                                            *)
Bare == \A j \in 1 .. Len(kernel_args) : kernel_args[j].t # "initrd"

AskedInv ==
  /\ extra_args.k # "tail" => extra_args.w = << >>
  /\ pc = "prompt" => kernel_args = << >>
  /\ pc = "preset" => want = ExtraWords /\ (extra_args.k = "null" => Bare)
  /\ pc = "finish" => want = ArgsOfLine \/ (~Splits /\ Bare /\ want = << >>)
  /\ pc = "direct" => want = kernel_args

(* Before anyone is asked the buffer holds the flags and nothing more. *)
FlagsInv ==
  ~failed /\ ~asked =>
    /\ pc \in {"open", "options", "preset", "finish", "direct"} =>
         /\ initrd_file = NoFile /\ wantrd = NoFile
         /\ kernel_args \in SrmFlags \cup {FlagI}
         /\ ink = {i \in Bytes : i < Length(kernel_args)}
    /\ pc \in {"preset", "finish"} =>
         /\ kernel_args \in SrmFlags /\ (IsPair \/ IsSingle)
         /\ extra_args = TailOfFlags
    /\ pc = "direct" => kernel_args \in SrmFlags /\ kernel_args # << >>
    /\ pc = "finish" => \E v \in Vols, c \in Chars : Config[v][c] # NoLine /\ buf = Config[v][c]
    /\ pc \in {"load", "attempt", "bss", "initrd", "started"} => initrd_file = wantrd

(* Until a load fails bss_start belongs to the kernel that is read: only   *)
(* the attempt that suits the kind of its file gets as far as the headers. *)
Suits(m) == IF m = Compressed THEN "gz" ELSE "elf"

BssInv ==
  ~failed =>
    /\ pc \in {"open", "options", "preset", "prompt", "direct", "finish", "load"} => bss = NoImage
    /\ pc = "attempt" /\ bss # NoImage =>
         attempt = 2 \/ (attempt = 1 /\ Kind[Opened] # Suits(method))
    /\ pc \in {"bss", "initrd", "started"} => bss = OwnBss(elf)

(* Afterwards a range that is left over only goes with a kernel that has   *)
(* no bss: is_loadable_elf refuses the others.                             *)
OwnedInv ==
  pc \in {"bss", "initrd", "started"} => bss = OwnBss(elf) \/ OwnBss(elf) = NoImage

BlocksInv == initrd.blocks = InitrdBlocks(initrd.size)

(* A ramdisk that was read and not started with is one of a failed load.   *)
StaleInv == initrd.file # NoFile => failed \/ (pc = "started" /\ initrd_file # NoFile)

(* initrd_file names the ramdisk asked for last, or nothing that exists. *)
LostInv == /\ initrd_file \in {wantrd, NoFile, Scrap}
           /\ pc = "started" => initrd_file # Scrap

HandInv == /\ IInv /\ FreshInv /\ AskedInv /\ FlagsInv /\ BssInv /\ OwnedInv
           /\ BlocksInv /\ StaleInv /\ LostInv

LEMMA InitHand == Init => HandInv
<1> SUFFICES ASSUME Init PROVE HandInv
  OBVIOUS
<1>1. FreshInv /\ AskedInv /\ BssInv /\ OwnedInv /\ StaleInv /\ LostInv
  BY DEF Init, FreshInv, AskedInv, NoExtra, BssInv, OwnedInv, StaleInv, LostInv
<1>2. FlagsInv
  BY DEF Init, FlagsInv
<1>3. BlocksInv
  <2>1. InitrdBlocks(0) = 0
    BY BootAssumption DEF BootAssumption, InitrdBlocks
  <2> QED BY <2>1 DEF Init, BlocksInv
<1> QED BY <1>1, <1>2, <1>3, InitIInv DEF HandInv

(* Only read_initrd sets initrd_size, and the number of blocks with it. *)
LEMMA NextBlocks == HandInv /\ [Next]_vars => BlocksInv'
<1> SUFFICES ASSUME HandInv, [Next]_vars PROVE BlocksInv'
  OBVIOUS
<1> USE DEF argvars, optvars, bootvars, elfvars, readvars, mntvars, history
<1>1. CASE ReadInitrd
  <2>1. \/ initrd' = initrd
        \/ \E s \in SizesSeen(initrd_file) :
             initrd' = [file |-> initrd_file, vol |-> mounted', size |-> s, blocks |-> InitrdBlocks(s)]
    BY <1>1 DEF ReadInitrd
  <2> QED BY <2>1 DEF HandInv, BlocksInv
<1>2. ASSUME initrd' = initrd PROVE BlocksInv'
  BY <1>2 DEF HandInv, BlocksInv
<1>3. CASE User
  BY <1>2, <1>3 DEF User, CmdQuit, CmdPartition, CmdList, CmdDir, CmdBoot, CmdInitrd, CmdPreset
<1>4. CASE Loader /\ ~ReadInitrd
  BY <1>2, <1>4 DEF Loader, OpenDevice, ParseFlags, PresetFound, PresetNotFound, FinishOptions,
    LoadRaw, MountBoot, OpenKernelFails, ReadKernelGivesUp, TryUncompressed, TryCompressed,
    ClearBss, InitrdMountFails
<1>5. CASE UNCHANGED vars
  BY <1>2, <1>5 DEF vars
<1> QED BY <1>1, <1>3, <1>4, <1>5 DEF Next, Stopped

(* An image that is accepted on a first try leaves its own bss. *)
LEMMA OwnBssAfter ==
  ASSUME NEW img \in Images, Accepts(img, NoImage) PROVE BssAfter(img, NoImage) = OwnBss(img)
<1>1. Segs[img] \in Seq([mem : BOOLEAN, bss : BOOLEAN])
  BY BootAssumption DEF BootAssumption
<1>2. \A i \in DOMAIN Segs[img] : \A j \in 1 .. i : Segs[img][j].mem
  BY <1>1 DEF Accepts
<1> QED BY <1>2, Zenon DEF BssAfter, OwnBss

(* A load that fails ends what BssInv says. *)
LEMMA FailBss == ASSUME LoadFails PROVE BssInv'
BY DEF LoadFails, BssInv

(* Where a method suits the file the headers are scanned, else it fails    *)
(* before them.                                                            *)
LEMMA AttemptBss ==
  ASSUME HandInv, pc = "attempt", attempt < 2, Opened # NoImage, failed' = failed,
         mounted' = mounted, boot_file' = boot_file,
         \/ NextMethod /\ UNCHANGED elfvars
         \/ /\ Kind[Opened] = Suits(method) /\ bss' = BssAfter(Opened, bss)
            /\ \/ NextMethod
               \/ pc' = "bss" /\ elf' = Opened /\ Accepts(Opened, bss)
  PROVE  BssInv'
<1> SUFFICES ASSUME ~failed PROVE BssInv'
  BY DEF BssInv
<1>0. Opened \in Images /\ Opened' = Opened /\ attempt \in 0 .. 1 /\ method \in 0 .. 1
  BY OpenedType DEF HandInv, IInv, TypeOK, LoadTypeOK, Opened
<1>1. bss = NoImage \/ (attempt = 1 /\ Kind[Opened] # Suits(method))
  BY <1>0 DEF HandInv, BssInv
<1>2. CASE NextMethod /\ UNCHANGED elfvars
  <2>1. pc' = "attempt" /\ attempt' = attempt + 1 /\ bss' = bss
    BY <1>2 DEF NextMethod, elfvars
  <2> QED BY <1>0, <1>1, <2>1 DEF BssInv
<1>3. CASE Kind[Opened] = Suits(method) /\ bss' = BssAfter(Opened, bss) /\ NextMethod
  <2>1. pc' = "attempt" /\ attempt' = attempt + 1 /\ method' = (method + 1) % 2
    BY <1>3 DEF NextMethod
  <2>2. method' \in 0 .. 1 /\ method' # method
    BY <1>0, <2>1
  <2>3. Kind[Opened'] # Suits(method')
    BY <1>0, <1>3, <2>2 DEF Suits, Compressed
  <2>4. Opened' = (Dir[mounted][boot_file.name])' /\ Suits(method') = Suits(method)'
    BY DEF Opened, Suits
  <2>5. attempt' = 2 \/ attempt' = 1
    BY <1>0, <2>1
  <2> QED BY <2>1, <2>3, <2>4, <2>5, Zenon DEF BssInv, Suits
<1>4. CASE Kind[Opened] = Suits(method) /\ bss' = BssAfter(Opened, bss)
           /\ pc' = "bss" /\ elf' = Opened /\ Accepts(Opened, bss)
  <2>1. bss = NoImage
    BY <1>1, <1>4
  <2>2. bss' = OwnBss(elf')
    BY <1>0, <1>4, <2>1, OwnBssAfter
  <2> QED BY <1>4, <2>2 DEF BssInv, OwnBss
<1> QED BY <1>2, <1>3, <1>4

LEMMA NextBss == HandInv /\ [Next]_vars => BssInv'
<1> SUFFICES ASSUME HandInv, [Next]_vars PROVE BssInv'
  OBVIOUS
<1> USE DEF argvars, optvars, bootvars, elfvars, readvars, mntvars, history
<1>0. BssInv
  BY DEF HandInv
<1> DEFINE Early == {"open", "options", "preset", "prompt", "direct", "finish", "load"}
<1>a. ASSUME UNCHANGED << bss, failed >>, pc \in Early,
             pc' \in Early \cup {"halted", "failed", "crashed"}
      PROVE  BssInv'
  BY <1>0, <1>a DEF BssInv
<1>1. CASE User
  <2>1. pc = "prompt" /\ UNCHANGED << bss, failed >>
    BY <1>1 DEF User, AtPrompt, CmdQuit, CmdPartition, CmdList, CmdDir, CmdBoot, CmdInitrd, CmdPreset
  <2>2. pc' \in Early \cup {"halted", "failed", "crashed"}
    BY <1>1, <2>1 DEF User, CmdQuit, CmdPartition, CmdList, CmdDir, CmdBoot, CmdInitrd,
      CmdPreset, ListDirectory
  <2> QED BY <1>a, <2>1, <2>2
<1>2. CASE \/ \E ok, readable \in BOOLEAN : OpenDevice(ok, readable)
           \/ ParseFlags \/ PresetFound \/ PresetNotFound \/ FinishOptions
  <2>1. pc \in Early /\ UNCHANGED << bss, failed >>
    BY <1>2 DEF OpenDevice, ParseFlags, PresetFound, PresetNotFound, FinishOptions
  <2>2. pc' \in Early \cup {"halted", "failed", "crashed"}
    BY <1>2 DEF OpenDevice, ParseFlags, ParsePreset, ParseInteractive, ParseDirect, ToPrompt,
      PresetFound, PresetNotFound, FinishOptions
  <2> QED BY <1>a, <2>1, <2>2
<1>3. CASE LoadRaw
  <2>1. CASE LoadFails
    BY <2>1, FailBss
  <2>2. CASE ~LoadFails
    <3>1. /\ pc = "load" /\ failed' = failed /\ pc' = "bss" /\ elf' = RawImage
          /\ Accepts(RawImage, bss) /\ bss' = BssAfter(RawImage, bss)
      BY <1>3, <2>2 DEF LoadRaw, ScanHeaders
    <3>2. ~failed => bss = NoImage
      BY <1>0, <3>1 DEF BssInv
    <3>3. RawImage \in Images
      BY BootAssumption DEF BootAssumption, RawImage
    <3>4. ~failed => bss' = OwnBss(elf')
      BY <3>1, <3>2, <3>3, OwnBssAfter
    <3> QED BY <3>1, <3>4 DEF BssInv, OwnBss
  <2> QED BY <2>1, <2>2
<1>4. CASE MountBoot
  <2>1. CASE LoadFails
    BY <2>1, FailBss
  <2>2. CASE ~LoadFails
    <3>1. pc = "load" /\ failed' = failed /\ pc' = "attempt" /\ bss' = bss
      BY <1>4, <2>2 DEF MountBoot
    <3> QED BY <1>0, <3>1 DEF BssInv
  <2> QED BY <2>1, <2>2
<1>5. CASE OpenKernelFails \/ ReadKernelGivesUp \/ InitrdMountFails
  BY <1>5, FailBss DEF OpenKernelFails, ReadKernelGivesUp, InitrdMountFails
<1>6. CASE TryUncompressed
  <2>1. \/ NextMethod /\ UNCHANGED elfvars
        \/ /\ Kind[Opened] = Suits(method) /\ bss' = BssAfter(Opened, bss)
           /\ \/ NextMethod
              \/ pc' = "bss" /\ elf' = Opened /\ Accepts(Opened, bss)
    BY <1>6 DEF TryUncompressed, ScanHeaders, SegmentFails, Suits, Uncompressed, Compressed
  <2>2. /\ pc = "attempt" /\ attempt < 2 /\ Opened # NoImage
        /\ UNCHANGED << failed, mounted, boot_file >>
    BY <1>6 DEF TryUncompressed
  <2> QED BY <2>1, <2>2, AttemptBss
<1>7. CASE TryCompressed
  <2>1. \/ NextMethod /\ UNCHANGED elfvars
        \/ /\ Kind[Opened] = Suits(method) /\ bss' = BssAfter(Opened, bss)
           /\ \/ NextMethod
              \/ pc' = "bss" /\ elf' = Opened /\ Accepts(Opened, bss)
    BY <1>7 DEF TryCompressed, ScanHeaders, SegmentFails, Suits, Uncompressed, Compressed
  <2>2. /\ pc = "attempt" /\ attempt < 2 /\ Opened # NoImage
        /\ UNCHANGED << failed, mounted, boot_file >>
    BY <1>7 DEF TryCompressed
  <2> QED BY <2>1, <2>2, AttemptBss
<1>8. ASSUME pc \in {"bss", "initrd", "started"}, UNCHANGED << bss, elf, failed >>,
             pc' \in {"bss", "initrd", "started", "crashed"}
      PROVE  BssInv'
  BY <1>0, <1>8 DEF BssInv, OwnBss
<1>9. CASE ClearBss
  BY <1>8, <1>9 DEF ClearBss
<1>10. CASE ReadInitrd
  <2>1. CASE LoadFails
    BY <2>1, FailBss
  <2>2. CASE ~LoadFails
    BY <1>8, <1>10, <2>2 DEF ReadInitrd
  <2> QED BY <2>1, <2>2
<1>11. CASE UNCHANGED vars
  <2>1. UNCHANGED << pc, bss, elf, failed, attempt, method, mounted, boot_file >>
    BY <1>11 DEF vars
  <2> QED BY <1>0, <2>1, Zenon DEF BssInv, OwnBss, Opened, Suits
<1> QED BY <1>1, <1>2, <1>3, <1>4, <1>5, <1>6, <1>7, <1>9, <1>10, <1>11 DEF Next, Loader, Stopped

(* An image that is accepted although another one has set bss_size has no  *)
(* bss of its own.                                                         *)
LEMMA AcceptedBss ==
  ASSUME NEW img \in Images, NEW b, Accepts(img, b)
  PROVE  BssAfter(img, b) = OwnBss(img) \/ OwnBss(img) = NoImage
<1>1. CASE b = NoImage
  BY <1>1, OwnBssAfter
<1>2. CASE b # NoImage
  <2>1. \A i \in DOMAIN Segs[img] : ~Segs[img][i].bss
    BY <1>2, Zenon DEF Accepts
  <2> QED BY <2>1, Zenon DEF OwnBss
<1> QED BY <1>1, <1>2

LEMMA NextOwned == HandInv /\ [Next]_vars => OwnedInv'
<1> SUFFICES ASSUME HandInv, [Next]_vars PROVE OwnedInv'
  OBVIOUS
<1> USE DEF argvars, optvars, bootvars, elfvars, readvars, mntvars, history
<1> DEFINE Loaded == {"bss", "initrd", "started"}
<1>a. ASSUME pc' \notin Loaded PROVE OwnedInv'
  BY <1>a DEF OwnedInv
<1>b. ASSUME pc \in Loaded, UNCHANGED << bss, elf >> PROVE OwnedInv'
  BY <1>b DEF HandInv, OwnedInv, OwnBss
<1>c. ASSUME NEW img \in Images, bss' = BssAfter(img, bss), elf' = img, Accepts(img, bss)
      PROVE  OwnedInv'
  <2>1. bss' = OwnBss(img) \/ OwnBss(img) = NoImage
    BY <1>c, AcceptedBss
  <2> QED BY <1>c, <2>1 DEF OwnedInv, OwnBss
<1>1. CASE User
  BY <1>1, <1>a DEF User, AtPrompt, CmdQuit, CmdPartition, CmdList, CmdDir, CmdBoot,
    CmdInitrd, CmdPreset, ListDirectory
<1>2. CASE \/ \E ok, readable \in BOOLEAN : OpenDevice(ok, readable)
           \/ ParseFlags \/ PresetFound \/ PresetNotFound \/ FinishOptions \/ MountBoot
           \/ OpenKernelFails \/ ReadKernelGivesUp \/ InitrdMountFails
  BY <1>2, <1>a DEF OpenDevice, ParseFlags, ParsePreset, ParseInteractive, ParseDirect,
    ToPrompt, PresetFound, PresetNotFound, FinishOptions, MountBoot, OpenKernelFails,
    ReadKernelGivesUp, InitrdMountFails, LoadFails
<1>3. CASE LoadRaw
  <2>1. RawImage \in Images
    BY BootAssumption DEF BootAssumption, RawImage
  <2>2. CASE pc' = "options"
    BY <1>a, <2>2
  <2>3. CASE pc' # "options"
    BY <1>3, <1>c, <2>1, <2>3 DEF LoadRaw, LoadFails, ScanHeaders
  <2> QED BY <2>2, <2>3
<1>4. CASE TryUncompressed \/ TryCompressed
  <2>1. Opened \in Images /\ pc = "attempt"
    BY <1>4, OpenedType DEF HandInv, TryUncompressed, TryCompressed
  <2>2. CASE pc' = "attempt"
    BY <1>a, <2>2
  <2>3. CASE pc' # "attempt"
    BY <1>4, <1>c, <2>1, <2>3 DEF TryUncompressed, TryCompressed, NextMethod, SegmentFails,
      ScanHeaders
  <2> QED BY <2>2, <2>3
<1>5. CASE ClearBss
  BY <1>5, <1>b DEF ClearBss
<1>6. CASE ReadInitrd
  BY <1>6, <1>b DEF ReadInitrd
<1>7. CASE UNCHANGED vars
  <2>1. UNCHANGED << pc, bss, elf >>
    BY <1>7 DEF vars
  <2> QED BY <1>a, <1>b, <2>1
<1> QED BY <1>1, <1>2, <1>3, <1>4, <1>5, <1>6, <1>7 DEF Next, Loader, Stopped

(* read_initrd either fails, or the kernel is started with what it read. *)
LEMMA NextStale == HandInv /\ [Next]_vars => StaleInv'
<1> SUFFICES ASSUME HandInv, [Next]_vars PROVE StaleInv'
  OBVIOUS
<1> USE DEF argvars, optvars, bootvars, elfvars, readvars, mntvars, history
<1>a. ASSUME initrd' = initrd, failed => failed', pc # "started" PROVE StaleInv'
  BY <1>a DEF HandInv, StaleInv
<1>1. CASE ReadInitrd
  <2>1. CASE LoadFails
    BY <2>1 DEF LoadFails, StaleInv
  <2>2. CASE initrd' = initrd /\ failed' = failed
    BY <1>1, <1>a, <2>2 DEF ReadInitrd
  <2>3. CASE pc' = "started" /\ initrd_file' = initrd_file
    BY <1>1, <2>3 DEF ReadInitrd, HandInv, IInv, LocalsSet, StaleInv
  <2> QED BY <1>1, <2>1, <2>2, <2>3 DEF ReadInitrd
<1>2. CASE User
  BY <1>2, <1>a DEF User, AtPrompt, CmdQuit, CmdPartition, CmdList, CmdDir, CmdBoot,
    CmdInitrd, CmdPreset
<1>3. CASE Loader /\ ~ReadInitrd
  BY <1>3, <1>a DEF Loader, OpenDevice, ParseFlags, PresetFound, PresetNotFound, FinishOptions,
    LoadRaw, MountBoot, OpenKernelFails, ReadKernelGivesUp, TryUncompressed, TryCompressed,
    ClearBss, InitrdMountFails, LoadFails
<1>4. CASE UNCHANGED vars
  <2>1. UNCHANGED << pc, initrd, initrd_file, failed >>
    BY <1>4 DEF vars
  <2> QED BY <2>1 DEF HandInv, StaleInv
<1> QED BY <1>1, <1>2, <1>3, <1>4 DEF Next, Stopped

(* The name of the ramdisk only changes with the one asked for, or is lost. *)
(* The ramdisk asked for is taken, or the bytes behind the NUL are taken   *)
(* for one.                                                                *)
AsksAs(args, b) ==
  \/ initrd_file' = wantrd'
  \/ /\ UNCHANGED wantrd
     /\ initrd_file' \in {initrd_file, NoFile, Scrap}
     /\ Length(args) + 8 \notin b => initrd_file' \in {initrd_file, NoFile}

LEMMA Asks ==
  ASSUME NEW args, NEW b, StripInitrd(args, b), AskRamdisk,
         want = args \/ (want = << >> /\ \A j \in 1 .. Len(args) : args[j].t # "initrd")
  PROVE  AsksAs(args, b)
<1>1. ASSUME NEW i \in 1 .. Len(args), FirstInitrd(args, i), initrd_file' = args[i].c
      PROVE  initrd_file' = wantrd'
  <2>1. args[i].t = "initrd" /\ want = args
    BY <1>1 DEF FirstInitrd
  <2>2. PICK k \in 1 .. Len(args) : FirstInitrd(args, k) /\ wantrd' = args[k].c
    BY <2>1 DEF AskRamdisk
  <2>3. i = k
    <3>1. args[k].t = "initrd" BY <2>2 DEF FirstInitrd
    <3>2. ~(k \in 1 .. i - 1) BY <1>1, <3>1 DEF FirstInitrd
    <3>3. ~(i \in 1 .. k - 1) BY <2>1, <2>2 DEF FirstInitrd
    <3>4. i \in Int /\ k \in Int /\ 1 <= i /\ 1 <= k OBVIOUS
    <3> QED BY <3>2, <3>3, <3>4
  <2> QED BY <1>1, <2>2, <2>3
<1>2. ASSUME \A j \in 1 .. Len(args) : args[j].t # "initrd" PROVE UNCHANGED wantrd
  <2>1. \A j \in 1 .. Len(want) : want[j].t # "initrd"
    BY <1>2
  <2> QED BY <2>1 DEF AskRamdisk, FirstInitrd
<1>3. CASE \E i \in 1 .. Len(args) : FirstInitrd(args, i) /\ initrd_file' = args[i].c
  BY <1>1, <1>3 DEF AsksAs
<1>4. CASE /\ \A j \in 1 .. Len(args) : args[j].t # "initrd"
           /\ initrd_file' \in {initrd_file, NoFile, Scrap}
           /\ Length(args) + 8 \notin b => initrd_file' \in {initrd_file, NoFile}
  BY <1>2, <1>4 DEF AsksAs
<1> QED BY <1>3, <1>4 DEF StripInitrd

LEMMA FinishAsks ==
  ASSUME AskedInv, FinishOptions
  PROVE  (pc = "finish" /\ AsksAs(ArgsOfLine, InkOfLine)) \/ (pc = "direct" /\ AsksAs(kernel_args, ink))
<1>1. CASE pc = "finish" /\ StripInitrd(ArgsOfLine, InkOfLine)
  <2>1. AskRamdisk BY DEF FinishOptions
  <2>2. ~Splits => ArgsOfLine = kernel_args BY DEF ArgsOfLine
  <2>3. \/ want = ArgsOfLine
        \/ want = << >> /\ \A j \in 1 .. Len(ArgsOfLine) : ArgsOfLine[j].t # "initrd"
    BY <1>1, <2>2 DEF AskedInv, Bare
  <2> QED BY <1>1, <2>1, <2>3, Asks
<1>2. CASE pc = "direct" /\ StripInitrd(kernel_args, ink)
  BY <1>2, Asks DEF AskedInv, FinishOptions
<1> QED BY <1>1, <1>2 DEF FinishOptions

LEMMA NextLost == HandInv /\ [Next]_vars => LostInv'
<1> SUFFICES ASSUME HandInv, [Next]_vars PROVE LostInv'
  OBVIOUS
<1> USE DEF argvars, optvars, bootvars, elfvars, readvars, mntvars, history
<1>a. ASSUME UNCHANGED << initrd_file, wantrd >>, pc' # "started" PROVE LostInv'
  BY <1>a DEF HandInv, LostInv
<1>1. CASE FinishOptions
  <2>2. initrd_file' = wantrd' \/ (wantrd' = wantrd /\ initrd_file' \in {initrd_file, NoFile, Scrap})
    BY <1>1, FinishAsks DEF HandInv, AsksAs
  <2>3. pc' = "load"
    BY <1>1 DEF FinishOptions
  <2> QED BY <2>2, <2>3 DEF HandInv, LostInv
<1>2. CASE \E n \in TypedInitrds : CmdInitrd(n)
  BY <1>2 DEF CmdInitrd, AtPrompt, LostInv
<1>3. CASE User /\ ~\E n \in TypedInitrds : CmdInitrd(n)
  BY <1>3, <1>a DEF User, AtPrompt, CmdQuit, CmdPartition, CmdList, CmdDir, CmdBoot,
    CmdPreset, ListDirectory
<1>4. CASE ClearBss
  <2>1. UNCHANGED << initrd_file, wantrd >> /\ (pc' = "started" => initrd_file = NoFile)
    BY <1>4 DEF ClearBss
  <2> QED BY <2>1 DEF HandInv, LostInv, NoFile, Scrap
<1>5. CASE ReadInitrd
  <2>1. UNCHANGED << initrd_file, wantrd >> /\ (pc' = "started" => initrd_file # Scrap)
    BY <1>5 DEF ReadInitrd, LoadFails
  <2> QED BY <2>1 DEF HandInv, LostInv
<1>6. CASE \/ \E ok, readable \in BOOLEAN : OpenDevice(ok, readable)
           \/ ParseFlags \/ PresetFound \/ PresetNotFound \/ LoadRaw \/ MountBoot
           \/ OpenKernelFails \/ ReadKernelGivesUp \/ TryUncompressed \/ TryCompressed
           \/ InitrdMountFails
  <2>1. UNCHANGED << initrd_file, wantrd >>
    BY <1>6 DEF OpenDevice, ParseFlags, PresetFound, PresetNotFound, LoadRaw, MountBoot,
      OpenKernelFails, ReadKernelGivesUp, TryUncompressed, TryCompressed, InitrdMountFails
  <2>2. pc' # "started"
    BY <1>6 DEF OpenDevice, ParseFlags, ParsePreset, ParseInteractive, ParseDirect, ToPrompt,
      PresetFound, PresetNotFound, LoadRaw, MountBoot, OpenKernelFails, ReadKernelGivesUp,
      TryUncompressed, TryCompressed, InitrdMountFails, LoadFails, NextMethod, SegmentFails
  <2> QED BY <1>a, <2>1, <2>2
<1>7. CASE UNCHANGED vars
  <2>1. UNCHANGED << pc, initrd_file, wantrd >>
    BY <1>7 DEF vars
  <2> QED BY <2>1 DEF HandInv, LostInv
<1> QED BY <1>1, <1>2, <1>3, <1>4, <1>5, <1>6, <1>7 DEF Next, Loader, Stopped, User

(* The leftovers of the flags are too short to be taken for a ramdisk. *)
LEMMA NoScrap ==
  ASSUME NEW args, NEW b, Length(args) + 8 \notin b, initrd_file = NoFile, wantrd = NoFile,
         AsksAs(args, b)
  PROVE  initrd_file' = wantrd'
BY DEF AsksAs

LEMMA FlagsShort ==
  ASSUME HandInv, ~failed, ~asked, pc = "finish"
  PROVE  Length(ArgsOfLine) + 8 \notin InkOfLine
<1> SUFFICES ASSUME Length(ArgsOfLine) + 8 \in InkOfLine PROVE FALSE
  OBVIOUS
<1>1. /\ kernel_args \in SrmFlags /\ (IsPair \/ IsSingle) /\ extra_args = TailOfFlags
      /\ ink = {i \in Bytes : i < Length(kernel_args)}
  BY DEF HandInv, FlagsInv
<1>2. PICK v \in Vols, c \in Chars : Config[v][c] # NoLine /\ buf = Config[v][c]
  BY DEF HandInv, FlagsInv
<1>3. kernel_args \in Seq(Words) /\ kernel_args # << >> /\ Head(kernel_args).t \in {"single", "pair"}
  BY <1>1, BootAssumption DEF BootAssumption, IsPair, IsSingle
<1>4. /\ Length(kernel_args) \in Nat /\ Length(Tail(kernel_args)) \in Nat
      /\ Length(kernel_args) <= IF Len(kernel_args) > 1 THEN 3 + 1 + Length(Tail(kernel_args)) ELSE 3
  BY <1>1, <1>3, LengthAssumption
<1>5. CASE ~Splits
  <2>1. Length(kernel_args) + 8 \in ink
    BY <1>5 DEF ArgsOfLine, InkOfLine
  <2> QED BY <1>1, <1>4, <2>1
<1>6. CASE Splits /\ Len(kernel_args) > 1
  <2>1. extra_args = [k |-> "tail", w |-> Tail(kernel_args)]
    BY <1>1, <1>6 DEF TailOfFlags
  <2>2. ArgsOfLine = Config[v][c].args \o Tail(kernel_args)
    BY <1>2, <1>6, <2>1 DEF ArgsOfLine, ExtraWords
  <2>3. Length(ArgsOfLine) \in Nat /\ Length(ArgsOfLine) >= Length(Tail(kernel_args))
    BY <1>1, <1>2, <1>6, <2>2, LengthAssumption
  <2>4. Length(ArgsOfLine) + 8 \in ink
    BY <1>6, <2>3 DEF InkOfLine, Stored
  <2> QED BY <1>1, <1>4, <1>6, <2>3, <2>4
<1>7. CASE Splits /\ ~(Len(kernel_args) > 1)
  <2>1. extra_args = NoExtra
    BY <1>1, <1>7 DEF TailOfFlags
  <2>2. ArgsOfLine = Config[v][c].args
    <3>1. Config[v][c].args \in Seq(Words)
      BY <1>2, BootAssumption DEF BootAssumption, Lines
    <3>2. ArgsOfLine = Config[v][c].args \o << >>
      BY <1>2, <1>7, <2>1 DEF ArgsOfLine, ExtraWords, NoExtra
    <3> QED BY <3>1, <3>2
  <2>3. Length(ArgsOfLine) \in Nat
    BY <1>2, <2>2, LengthAssumption
  <2>4. Length(ArgsOfLine) + 8 \in ink
    BY <1>7, <2>3 DEF InkOfLine, Stored
  <2> QED BY <1>1, <1>4, <1>7, <2>3, <2>4
<1> QED BY <1>5, <1>6, <1>7

LEMMA FinishFlags == ASSUME HandInv, FinishOptions PROVE FlagsInv'
<1>1. pc' = "load" /\ UNCHANGED << failed, asked >>
  BY DEF FinishOptions, history
<1> SUFFICES ASSUME ~failed, ~asked PROVE initrd_file' = wantrd'
  BY <1>1 DEF FlagsInv
<1>2. initrd_file = NoFile /\ wantrd = NoFile
  BY DEF HandInv, FlagsInv, FinishOptions
<1>3. CASE pc = "finish" /\ AsksAs(ArgsOfLine, InkOfLine)
  BY <1>2, <1>3, FlagsShort, NoScrap
<1>4. CASE pc = "direct" /\ AsksAs(kernel_args, ink)
  <2>1. /\ kernel_args \in SrmFlags /\ kernel_args # << >>
        /\ ink = {i \in Bytes : i < Length(kernel_args)}
    BY <1>4 DEF HandInv, FlagsInv
  <2>2. Length(kernel_args) \in Nat
    BY <2>1, LengthAssumption
  <2>3. Length(kernel_args) + 8 \notin ink
    BY <2>1, <2>2
  <2> QED BY <1>2, <1>4, <2>3, NoScrap
<1> QED BY <1>3, <1>4, FinishAsks DEF HandInv

LEMMA NextFlags == HandInv /\ [Next]_vars => FlagsInv'
<1> SUFFICES ASSUME HandInv, [Next]_vars PROVE FlagsInv'
  OBVIOUS
<1> USE DEF argvars, optvars, bootvars, elfvars, readvars, mntvars, history
<1>0. FlagsInv
  BY DEF HandInv
<1>a. ASSUME LoadFails PROVE FlagsInv'
  BY <1>a DEF LoadFails, FlagsInv
<1>1. CASE User
  <2>1. asked' = TRUE
    BY <1>1 DEF User, AtPrompt, CmdQuit, CmdPartition, CmdList, CmdDir, CmdBoot, CmdInitrd, CmdPreset
  <2> QED BY <2>1 DEF FlagsInv
<1>2. ASSUME NEW ok, NEW readable, OpenDevice(ok, readable) PROVE FlagsInv'
  <2>1. /\ pc = "open" /\ pc' \in {"options", "failed"}
        /\ UNCHANGED << kernel_args, ink, initrd_file, wantrd, failed, asked >>
    BY <1>2 DEF OpenDevice
  <2> QED BY <1>0, <2>1 DEF FlagsInv
<1>3. CASE ParseFlags
  <2>0. pc = "options" /\ UNCHANGED << initrd_file, wantrd, failed, asked >>
    BY <1>3 DEF ParseFlags
  <2>1. CASE ParseInteractive
    <3>1. pc' = "prompt"
      BY <2>1 DEF ParseInteractive, ToPrompt
    <3> QED BY <3>1 DEF FlagsInv
  <2>2. CASE ParsePreset \/ ParseDirect
    <3>1. UNCHANGED << kernel_args, ink >> /\ kernel_args # FlagI
      BY <2>2 DEF ParsePreset, ParseDirect, IsPair, IsI, IsSingle, FlagI
    <3>2. \/ pc' = "direct" /\ kernel_args # << >>
          \/ pc' = "preset" /\ (IsPair \/ IsSingle) /\ extra_args' = TailOfFlags
      BY <2>2 DEF ParsePreset, ParseDirect
    <3>3. TailOfFlags' = TailOfFlags /\ (IsPair' = IsPair) /\ (IsSingle' = IsSingle)
      BY <3>1 DEF TailOfFlags, IsPair, IsSingle
    <3> QED BY <1>0, <2>0, <3>1, <3>2, <3>3 DEF FlagsInv
  <2> QED BY <1>3, <2>1, <2>2 DEF ParseFlags
<1>4. CASE PresetFound
  <2>1. /\ pc = "preset" /\ pc' = "finish" /\ buf' = Config[mounted'][preset]
        /\ Config[mounted'][preset] # NoLine
        /\ UNCHANGED << kernel_args, ink, extra_args, initrd_file, wantrd, failed, asked >>
    BY <1>4 DEF PresetFound
  <2>2. mounted' \in Vols
    <3>1. mounted \in Vols \cup {NoVol} /\ IInv
      BY DEF HandInv, IInv, TypeOK, LoadTypeOK
    <3> QED BY <1>4, <2>1, <3>1, PresetFoundStep, EnsureMountedType DEF PresetFound, IInv
  <2>3. preset \in Chars
    BY <2>1 DEF HandInv, IInv, LocalsSet
  <2>4. TailOfFlags' = TailOfFlags /\ (IsPair' = IsPair) /\ (IsSingle' = IsSingle)
    BY <2>1 DEF TailOfFlags, IsPair, IsSingle
  <2>5. \E v \in Vols, c \in Chars : Config[v][c] # NoLine /\ buf' = Config[v][c]
    BY <2>1, <2>2, <2>3
  <2> QED BY <1>0, <2>1, <2>4, <2>5 DEF FlagsInv
<1>5. CASE PresetNotFound
  <2>1. pc' = "prompt"
    BY <1>5 DEF PresetNotFound, ToPrompt
  <2> QED BY <2>1 DEF FlagsInv
<1>6. CASE FinishOptions
  BY <1>6, FinishFlags
<1> DEFINE Late == {"load", "attempt", "bss", "initrd", "started"}
<1>7. ASSUME pc \in Late, pc' \in Late \cup {"crashed"},
             UNCHANGED << initrd_file, wantrd, failed, asked >>
      PROVE  FlagsInv'
  BY <1>0, <1>7 DEF FlagsInv
<1>8. CASE LoadRaw \/ MountBoot \/ ReadInitrd
  <2>1. CASE LoadFails
    BY <1>a, <2>1
  <2>2. CASE ~LoadFails
    BY <1>7, <1>8, <2>2 DEF LoadRaw, MountBoot, ReadInitrd
  <2> QED BY <2>1, <2>2
<1>9. CASE OpenKernelFails \/ ReadKernelGivesUp \/ InitrdMountFails
  BY <1>9, <1>a DEF OpenKernelFails, ReadKernelGivesUp, InitrdMountFails
<1>10. CASE TryUncompressed \/ TryCompressed \/ ClearBss
  BY <1>7, <1>10 DEF TryUncompressed, TryCompressed, ClearBss, SegmentFails, NextMethod
<1>11. CASE UNCHANGED vars
  <2>1. UNCHANGED << pc, kernel_args, ink, extra_args, buf, initrd_file, wantrd, failed, asked >>
    BY <1>11 DEF vars
  <2> QED BY <1>0, <2>1, Zenon DEF FlagsInv, TailOfFlags, IsPair, IsSingle
<1> QED BY <1>1, <1>2, <1>3, <1>4, <1>5, <1>6, <1>8, <1>9, <1>10, <1>11 DEF Next, Loader, Stopped

LEMMA Strips ==
  ASSUME NEW args, NEW b, StripInitrd(args, b) PROVE IsStripped(args, kernel_args')
BY DEF StripInitrd, IsStripped

LEMMA NextFresh == HandInv /\ [Next]_vars => FreshInv'
<1> SUFFICES ASSUME HandInv, [Next]_vars PROVE FreshInv'
  OBVIOUS
<1> USE DEF argvars, optvars, bootvars, elfvars, readvars, mntvars, history
<1>0. FreshInv /\ kernel_args \in Seq(Words)
  BY DEF HandInv, IInv, TypeOK, OptionsTypeOK
<1>a. ASSUME LoadFails PROVE FreshInv'
  BY <1>a DEF LoadFails, FreshInv
<1>b. ASSUME pc = "prompt", failed
      PROVE  kernel_args = << >> /\ ExtraWords = << >> /\ (extra_args.k = "alias" \/ extra_args = NoExtra)
  BY <1>0, <1>b DEF FreshInv, ExtraWords, NoExtra
<1>1. CASE CmdQuit
  <2>1. pc' = "halted"
    BY <1>1 DEF CmdQuit
  <2> QED BY <2>1 DEF FreshInv
<1>2. CASE \/ \E n \in TypedParts : CmdPartition(n)
           \/ CmdList \/ CmdDir \/ \E n \in TypedInitrds : CmdInitrd(n)
  <2>1. /\ pc = "prompt" /\ pc' \in {"prompt", "crashed"}
        /\ UNCHANGED << kernel_args, extra_args, failed >>
    BY <1>2 DEF CmdPartition, CmdList, CmdDir, CmdInitrd, AtPrompt, ListDirectory
  <2> QED BY <1>0, <2>1 DEF FreshInv
<1>3. ASSUME NEW f \in TypedFiles, NEW a \in TypedArgs, CmdBoot(f, a) PROVE FreshInv'
  <2>1. /\ pc = "prompt" /\ pc' = "finish" /\ buf' = [file |-> f, args |-> a]
        /\ want' = a \o extra_args.w
        /\ UNCHANGED << kernel_args, extra_args, failed >>
    BY <1>3 DEF CmdBoot, AtPrompt
  <2>2. a \in Seq(Words) /\ a \o << >> = a
    BY BootAssumption DEF BootAssumption
  <2>3. ASSUME failed PROVE ArgsOfLine' = a
    <3>1. kernel_args' = << >> /\ (extra_args'.k = "alias" \/ extra_args' = NoExtra)
      BY <1>b, <2>1, <2>3
    <3>2. ExtraWords' = << >>
      BY <3>1 DEF ExtraWords, NoExtra
    <3>3. ArgsOfLine' = IF extra_args'.k # "null" \/ a # << >> THEN a \o << >> ELSE << >>
      BY <2>1, <3>1, <3>2 DEF ArgsOfLine, Splits
    <3> QED BY <2>2, <3>3
  <2>4. failed => want' = a
    <3>1. failed => extra_args.w = << >>
      BY <1>b, <2>1 DEF HandInv, AskedInv, NoExtra
    <3> QED BY <2>1, <2>2, <3>1
  <2> QED BY <1>b, <2>1, <2>3, <2>4 DEF FreshInv
<1>4. ASSUME NEW c \in Chars \ {"i"}, NEW a \in TypedArgs, CmdPreset(c, a) PROVE FreshInv'
  <2>1. pc = "prompt" /\ pc' = "preset" /\ UNCHANGED failed
    BY <1>4 DEF CmdPreset, AtPrompt
  <2>2. CASE kernel_args' = a /\ extra_args' = [k |-> "alias", w |-> << >>] /\ want' = a
    BY <2>1, <2>2 DEF FreshInv, ExtraWords
  <2>3. CASE want' = extra_args.w /\ UNCHANGED << kernel_args, extra_args >>
    <3>1. ExtraWords' = ExtraWords
      BY <2>3 DEF ExtraWords
    <3>2. failed => extra_args.w = << >>
      BY <1>b, <2>1 DEF HandInv, AskedInv, NoExtra
    <3> QED BY <1>b, <2>1, <2>3, <3>1, <3>2 DEF FreshInv
  <2> QED BY <1>4, <2>2, <2>3 DEF CmdPreset
<1>5. ASSUME NEW ok, NEW readable, OpenDevice(ok, readable) PROVE FreshInv'
  <2>1. pc = "open" /\ UNCHANGED failed
    BY <1>5 DEF OpenDevice
  <2>2. ~failed
    BY <2>1 DEF HandInv, IInv, LocalsSet
  <2> QED BY <2>1, <2>2 DEF FreshInv
<1>6. CASE ParseFlags
  <2>1. pc = "options" /\ UNCHANGED failed
    BY <1>6 DEF ParseFlags
  <2>2. ASSUME failed PROVE ParseInteractive
    <3>1. kernel_args = FlagI
      BY <2>1, <2>2 DEF HandInv, IInv, AskInv
    <3>2. IsI /\ IsSingle /\ ~IsPair
      BY <3>1 DEF IsI, IsSingle, IsPair, FlagI
    <3> QED BY <1>6, <3>2 DEF ParseFlags, ParsePreset, ParseDirect
  <2>3. failed => pc' = "prompt" /\ kernel_args' = << >> /\ extra_args' = NoExtra
    BY <2>2 DEF ParseInteractive, ToPrompt
  <2> QED BY <2>1, <2>3 DEF FreshInv
<1>7. CASE PresetFound
  <2>1. /\ pc = "preset" /\ pc' = "finish" /\ want' = buf'.args \o want
        /\ buf' = Config[mounted'][preset] /\ Config[mounted'][preset] # NoLine
        /\ UNCHANGED << kernel_args, extra_args, failed >>
    BY <1>7 DEF PresetFound
  <2>2. ASSUME failed PROVE ArgsOfLine' = want'
    <3>1. want = ExtraWords /\ (extra_args.k = "alias" \/ (extra_args = NoExtra /\ kernel_args = << >>))
      BY <1>0, <2>1, <2>2 DEF FreshInv
    <3>2. mounted' \in Vols /\ preset \in Chars
      BY <1>7, <2>1, EnsureMountedType DEF PresetFound, HandInv, IInv, LocalsSet
    <3>3. buf'.args \in Seq(Words)
      BY <2>1, <3>2, BootAssumption DEF BootAssumption, Lines
    <3>4. ExtraWords' = ExtraWords
      BY <2>1 DEF ExtraWords
    <3>5. CASE extra_args.k = "alias"
      BY <2>1, <3>1, <3>4, <3>5 DEF ArgsOfLine, Splits
    <3>6. CASE extra_args = NoExtra /\ kernel_args = << >>
      <4>1. want = << >> /\ ExtraWords' = << >>
        BY <3>1, <3>4, <3>6 DEF ExtraWords, NoExtra
      <4>2. ArgsOfLine' = IF buf'.args # << >> THEN buf'.args \o << >> ELSE << >>
        BY <2>1, <3>6, <4>1 DEF ArgsOfLine, Splits, NoExtra
      <4>3. << >> \o << >> = << >>
        OBVIOUS
      <4> QED BY <2>1, <4>1, <4>2, <4>3
    <3> QED BY <3>1, <3>5, <3>6
  <2> QED BY <1>0, <2>1, <2>2 DEF FreshInv
<1>8. CASE PresetNotFound
  <2>1. /\ pc = "preset" /\ pc' = "prompt" /\ kernel_args' = << >>
        /\ UNCHANGED << extra_args, failed >>
    BY <1>8 DEF PresetNotFound, ToPrompt
  <2> QED BY <1>0, <2>1 DEF FreshInv
<1>9. CASE FinishOptions
  <2>1. pc' = "load" /\ UNCHANGED << failed, want >>
    BY <1>9 DEF FinishOptions
  <2>2. ASSUME failed PROVE IsStripped(want, kernel_args')
    <3>1. pc = "finish" /\ StripInitrd(ArgsOfLine, InkOfLine) /\ want = ArgsOfLine
      BY <1>0, <1>9, <2>2 DEF FreshInv, FinishOptions
    <3> QED BY <3>1, Strips
  <2>3. failed => IsStripped(want, kernel_args)'
    BY <2>1, <2>2 DEF IsStripped, FirstInitrd, RemoveWord
  <2> QED BY <2>1, <2>3 DEF FreshInv
<1> DEFINE Late == {"load", "attempt", "bss", "initrd", "started"}
<1>10. ASSUME pc \in Late, pc' \in Late \cup {"crashed"}, UNCHANGED << kernel_args, failed, want >>
       PROVE  FreshInv'
  <2>1. failed => IsStripped(want, kernel_args)'
    BY <1>0, <1>10 DEF FreshInv, IsStripped, FirstInitrd, RemoveWord
  <2> QED BY <1>10, <2>1 DEF FreshInv
<1>11. CASE LoadRaw \/ MountBoot \/ ReadInitrd
  <2>1. CASE LoadFails
    BY <1>a, <2>1
  <2>2. CASE ~LoadFails
    BY <1>10, <1>11, <2>2 DEF LoadRaw, MountBoot, ReadInitrd
  <2> QED BY <2>1, <2>2
<1>12. CASE OpenKernelFails \/ ReadKernelGivesUp \/ InitrdMountFails
  BY <1>12, <1>a DEF OpenKernelFails, ReadKernelGivesUp, InitrdMountFails
<1>13. CASE TryUncompressed \/ TryCompressed \/ ClearBss
  BY <1>10, <1>13 DEF TryUncompressed, TryCompressed, ClearBss, SegmentFails, NextMethod
<1>14. CASE UNCHANGED vars
  <2>1. UNCHANGED << pc, kernel_args, extra_args, buf, want, failed >>
    BY <1>14 DEF vars
  <2>2. /\ ExtraWords' = ExtraWords /\ ArgsOfLine' = ArgsOfLine
        /\ IsStripped(want, kernel_args)' = IsStripped(want, kernel_args)
    BY <2>1, Zenon DEF ExtraWords, ArgsOfLine, Splits, IsStripped, FirstInitrd, RemoveWord
  <2> QED BY <1>0, <2>1, <2>2 DEF FreshInv
<1>15. CASE User
  BY <1>1, <1>2, <1>3, <1>4, <1>15 DEF User
<1> QED BY <1>5, <1>6, <1>7, <1>8, <1>9, <1>11, <1>12, <1>13, <1>14, <1>15 DEF Next, Loader, Stopped

LEMMA NextAsked == HandInv /\ [Next]_vars => AskedInv'
<1> SUFFICES ASSUME HandInv, [Next]_vars PROVE AskedInv'
  OBVIOUS
<1> USE DEF argvars, optvars, bootvars, elfvars, readvars, mntvars, history
<1>0. AskedInv /\ kernel_args \in Seq(Words) /\ extra_args \in Extras
  BY DEF HandInv, IInv, TypeOK, OptionsTypeOK
<1>a. ASSUME pc' \notin {"prompt", "preset", "finish", "direct"}, UNCHANGED extra_args PROVE AskedInv'
  BY <1>0, <1>a DEF AskedInv
<1>b. ASSUME pc = "prompt" PROVE kernel_args = << >> /\ ExtraWords = extra_args.w
  BY <1>0, <1>b DEF AskedInv, ExtraWords
<1>1. CASE CmdQuit
  BY <1>1, <1>a DEF CmdQuit, AtPrompt
<1>2. CASE \/ \E n \in TypedParts : CmdPartition(n)
           \/ CmdList \/ CmdDir \/ \E n \in TypedInitrds : CmdInitrd(n)
  <2>1. /\ pc = "prompt" /\ pc' \in {"prompt", "crashed"}
        /\ UNCHANGED << kernel_args, extra_args >>
    BY <1>2 DEF CmdPartition, CmdList, CmdDir, CmdInitrd, AtPrompt, ListDirectory
  <2> QED BY <1>0, <2>1 DEF AskedInv
<1>3. ASSUME NEW f \in TypedFiles, NEW a \in TypedArgs, CmdBoot(f, a) PROVE AskedInv'
  <2>1. /\ pc = "prompt" /\ pc' = "finish" /\ buf' = [file |-> f, args |-> a]
        /\ want' = a \o extra_args.w
        /\ UNCHANGED << kernel_args, extra_args >>
    BY <1>3 DEF CmdBoot, AtPrompt
  <2>2. kernel_args' = << >> /\ ExtraWords' = extra_args.w
    BY <1>b, <2>1 DEF ExtraWords
  <2>3. ArgsOfLine' = IF extra_args.k # "null" \/ a # << >> THEN a \o extra_args.w ELSE << >>
    BY <2>1, <2>2 DEF ArgsOfLine, Splits
  <2>4. extra_args.k = "null" /\ a = << >> => a \o extra_args.w = << >>
    <3>1. extra_args.k = "null" => extra_args.w = << >>
      BY <1>0 DEF AskedInv
    <3>2. << >> \o << >> = << >>
      OBVIOUS
    <3> QED BY <3>1, <3>2
  <2>5. want' = ArgsOfLine'
    BY <2>1, <2>3, <2>4
  <2> QED BY <1>0, <2>1, <2>5 DEF AskedInv
<1>4. ASSUME NEW c \in Chars \ {"i"}, NEW a \in TypedArgs, CmdPreset(c, a) PROVE AskedInv'
  <2>1. pc = "prompt" /\ pc' = "preset"
    BY <1>4 DEF CmdPreset, AtPrompt
  <2>2. CASE kernel_args' = a /\ extra_args' = [k |-> "alias", w |-> << >>] /\ want' = a
    BY <2>1, <2>2 DEF AskedInv, ExtraWords
  <2>3. CASE want' = extra_args.w /\ UNCHANGED << kernel_args, extra_args >>
    <3>1. ExtraWords' = ExtraWords
      BY <2>3 DEF ExtraWords
    <3>2. Bare'
      BY <1>b, <2>1, <2>3 DEF Bare
    <3> QED BY <1>0, <1>b, <2>1, <2>3, <3>1, <3>2 DEF AskedInv
  <2> QED BY <1>4, <2>2, <2>3 DEF CmdPreset
<1>5. ASSUME NEW ok, NEW readable, OpenDevice(ok, readable) PROVE AskedInv'
  BY <1>5, <1>a DEF OpenDevice
<1>6. CASE ParseFlags
  <2>1. CASE ParsePreset
    <3>1. /\ pc' = "preset" /\ extra_args' = TailOfFlags /\ want' = extra_args'.w
          /\ UNCHANGED kernel_args
      BY <2>1 DEF ParsePreset
    <3>2. CASE Len(kernel_args) > 1
      <4>1. extra_args' = [k |-> "tail", w |-> Tail(kernel_args)]
        BY <3>1, <3>2 DEF TailOfFlags
      <4> QED BY <3>1, <4>1 DEF AskedInv, ExtraWords
    <3>3. CASE ~(Len(kernel_args) > 1)
      <4>1. extra_args' = NoExtra
        BY <3>1, <3>3 DEF TailOfFlags
      <4>2. kernel_args # << >> /\ kernel_args[1].t # "initrd"
        <5>1. kernel_args # << >> /\ Head(kernel_args).t \in {"pair", "single"}
          BY <2>1 DEF ParsePreset, IsPair, IsSingle
        <5>2. Head(kernel_args) = kernel_args[1]
          BY <1>0, <5>1
        <5> QED BY <5>1, <5>2
      <4>3. Bare'
        <5>1. \A j \in 1 .. Len(kernel_args) : j = 1
          BY <1>0, <3>3
        <5> QED BY <3>1, <4>2, <5>1 DEF Bare
      <4> QED BY <3>1, <4>1, <4>3 DEF AskedInv, ExtraWords, NoExtra
    <3> QED BY <3>2, <3>3
  <2>2. CASE ParseInteractive
    BY <2>2 DEF ParseInteractive, ToPrompt, AskedInv, NoExtra
  <2>3. CASE ParseDirect
    BY <2>3 DEF ParseDirect, AskedInv, NoExtra
  <2> QED BY <1>6, <2>1, <2>2, <2>3 DEF ParseFlags
<1>7. CASE PresetFound
  <2>1. /\ pc = "preset" /\ pc' = "finish" /\ want' = buf'.args \o want
        /\ buf' = Config[mounted'][preset] /\ Config[mounted'][preset] # NoLine
        /\ UNCHANGED << kernel_args, extra_args >>
    BY <1>7 DEF PresetFound
  <2>2. want = ExtraWords /\ (extra_args.k = "null" => Bare /\ extra_args.w = << >>)
    BY <1>0, <2>1 DEF AskedInv
  <2>3. ExtraWords' = ExtraWords
    BY <2>1 DEF ExtraWords
  <2>4. CASE Splits'
    <3>1. want' = ArgsOfLine'
      BY <2>1, <2>2, <2>3, <2>4 DEF ArgsOfLine
    <3> QED BY <1>0, <2>1, <3>1 DEF AskedInv
  <2>5. CASE ~Splits'
    <3>1. extra_args.k = "null" /\ buf'.args = << >>
      BY <2>1, <2>5 DEF Splits
    <3>2. want = << >> /\ Bare
      BY <2>2, <3>1 DEF ExtraWords
    <3>3. want' = << >> \o << >> /\ << >> \o << >> = << >>
      BY <2>1, <3>1, <3>2
    <3>4. Bare'
      BY <2>1, <3>2 DEF Bare
    <3> QED BY <1>0, <2>1, <2>5, <3>3, <3>4 DEF AskedInv
  <2> QED BY <2>4, <2>5
<1>8. CASE PresetNotFound
  <2>1. pc' = "prompt" /\ kernel_args' = << >> /\ UNCHANGED extra_args
    BY <1>8 DEF PresetNotFound, ToPrompt
  <2> QED BY <1>0, <2>1 DEF AskedInv
<1>9. CASE FinishOptions
  BY <1>9 DEF FinishOptions, AskedInv, NoExtra
<1>10. CASE \/ LoadRaw \/ MountBoot \/ ReadInitrd \/ OpenKernelFails \/ ReadKernelGivesUp
            \/ InitrdMountFails \/ TryUncompressed \/ TryCompressed \/ ClearBss
  <2>1. UNCHANGED extra_args
    BY <1>10 DEF LoadRaw, MountBoot, ReadInitrd, OpenKernelFails, ReadKernelGivesUp,
      InitrdMountFails, TryUncompressed, TryCompressed, ClearBss
  <2>2. pc' \notin {"prompt", "preset", "finish", "direct"}
    BY <1>10 DEF LoadRaw, MountBoot, ReadInitrd, OpenKernelFails, ReadKernelGivesUp,
      InitrdMountFails, TryUncompressed, TryCompressed, ClearBss, LoadFails, NextMethod, SegmentFails
  <2> QED BY <1>a, <2>1, <2>2
<1>11. CASE UNCHANGED vars
  <2>1. UNCHANGED << pc, kernel_args, extra_args, buf, want >>
    BY <1>11 DEF vars
  <2>2. ExtraWords' = ExtraWords /\ ArgsOfLine' = ArgsOfLine /\ Splits' = Splits /\ Bare' = Bare
    BY <2>1, Zenon DEF ExtraWords, ArgsOfLine, Splits, Bare
  <2> QED BY <1>0, <2>1, <2>2 DEF AskedInv
<1>12. CASE User
  BY <1>1, <1>2, <1>3, <1>4, <1>12 DEF User
<1> QED BY <1>5, <1>6, <1>7, <1>8, <1>9, <1>10, <1>11, <1>12 DEF Next, Loader, Stopped

LEMMA NextHand == HandInv /\ [Next]_vars => HandInv'
BY NextIInv, NextFresh, NextAsked, NextFlags, NextBss, NextOwned, NextBlocks, NextStale, NextLost
   DEF HandInv

(* A tail of less than a block is counted, unless the whole blocks are a   *)
(* multiple of the block size in number.                                   *)
LEMMA TailCounted ==
  ASSUME NEW size \in Nat, (size \div BlockSize) % BlockSize # 0
  PROVE  InitrdBlocks(size) * BlockSize >= size
<1>1. BlockSize \in Nat \ {0}
  BY BootAssumption DEF BootAssumption
<1>2. InitrdBlocks(size) = (size \div BlockSize) + 1
  BY DEF InitrdBlocks
<1>3. size \div BlockSize \in Nat
  BY <1>1
<1>4. size < BlockSize * (size \div BlockSize) + BlockSize
  BY <1>1, <1>3
<1>5. /\ ((size \div BlockSize) + 1) * BlockSize = BlockSize * (size \div BlockSize) + BlockSize
      /\ BlockSize * (size \div BlockSize) \in Nat
  BY <1>1, <1>3
<1> QED BY <1>1, <1>2, <1>4, <1>5

(* No more than a tail of less than a block is ever left out. *)
LEMMA AllButTail ==
  ASSUME NEW size \in Nat
  PROVE  (InitrdBlocks(size) + 1) * BlockSize > size
<1>1. BlockSize \in Nat \ {0}
  BY BootAssumption DEF BootAssumption
<1> DEFINE n == size \div BlockSize
<1>2. n \in Nat /\ size < BlockSize * n + BlockSize
  BY <1>1
<1>3. (n + 1) * BlockSize = BlockSize * n + BlockSize
  BY <1>1, <1>2
<1>4. (n + 2) * BlockSize = (n + 1) * BlockSize + BlockSize
  BY <1>1, <1>2
<1>5. InitrdBlocks(size) = n \/ InitrdBlocks(size) = n + 1
  BY DEF InitrdBlocks
<1>6. (n + 1) * BlockSize \in Nat
  BY <1>1, <1>2
<1> HIDE DEF n
<1>7. CASE InitrdBlocks(size) = n
  BY <1>2, <1>3, <1>7
<1>8. CASE InitrdBlocks(size) = n + 1
  <2>1. (n + 1) + 1 = n + 2
    BY <1>2
  <2> QED BY <1>1, <1>2, <1>3, <1>4, <1>6, <1>8, <2>1
<1> QED BY <1>5, <1>7, <1>8

(* The arguments a kernel is started with after a failure are those of the *)
(* user's last choice without its initrd= word: nothing of the flags or of *)
(* an earlier try is left in kernel_args or extra_args.                    *)
THEOREM ArgumentsAreFresh == Spec => []ArgsAreFresh
<1>1. HandInv => ArgsAreFresh
  BY DEF HandInv, FreshInv, ArgsAreFresh
<1> QED BY <1>1, InitHand, NextHand, PTL DEF Spec

(* Whatever was tried before, load_kernel only ever succeeds with the      *)
(* kernel named last and its own headers, and the kernel is complete but   *)
(* for what the stale bss range of a failed load was zero-filled over.     *)
THEOREM StartsWhatWasAsked == Spec => []StartedAsRequested
<1>1. HandInv => StartedAsRequested
  <2> SUFFICES ASSUME HandInv, pc = "started"
               PROVE  /\ elf = Requested /\ Accepts(elf, NoImage)
                      /\ memory = elf \/ HitByStaleBss
    BY DEF StartedAsRequested
  <2>1. /\ elf = Requested /\ Accepts(elf, NoImage)
        /\ memory = elf \/ << bss, elf >> \in BssHits
    BY DEF HandInv, IInv, LoadedInv
  <2>2. bss = OwnBss(elf) \/ (failed /\ OwnBss(elf) = NoImage)
    BY DEF HandInv, BssInv, OwnedInv
  <2>3. << bss, elf >> \in BssHits => bss \in Images /\ bss # elf
    BY BootAssumption DEF BootAssumption
  <2>4. NoImage \notin Images /\ OwnBss(elf) \in {elf, NoImage}
    BY BootAssumption DEF BootAssumption, OwnBss
  <2> QED BY <2>1, <2>2, <2>3, <2>4 DEF HitByStaleBss
<1> QED BY <1>1, InitHand, NextHand, PTL DEF Spec

(* A ramdisk that is asked for is the one named last, read from the        *)
(* kernel's own partition; where none is named the kernel is given none    *)
(* or, after a failed load, the one that was read last.                    *)
THEOREM RamdiskIsCurrent == Spec => []InitrdIsCurrent
<1>1. HandInv => InitrdIsCurrent
  BY DEF HandInv, IInv, StaleInv, InitrdIsCurrent
<1> QED BY <1>1, InitHand, NextHand, PTL DEF Spec

(* In every session, whatever has failed and was asked before: the kernel  *)
(* is started with the ramdisk asked for last or, once the user was at the *)
(* prompt, with none; what is zero-filled is its own bss or, if it has     *)
(* none, the range of a failed load; and on ext2 all of the ramdisk but a  *)
(* tail of less than a block is read, the tail too unless the number of    *)
(* whole blocks is a multiple of the block size.                           *)
THEOREM HandsOverRight == Spec => []HandsOver
<1>1. HandInv => RamdiskAskedOrLost
  BY DEF HandInv, FlagsInv, LostInv, RamdiskAskedOrLost
<1>2. HandInv => OwnBssOrStale
  BY DEF HandInv, BssInv, OwnedInv, OwnBssOrStale
<1>3. HandInv => InitrdAllButTail
  <2> SUFFICES ASSUME HandInv
               PROVE  /\ (initrd.blocks + 1) * BlockSize > initrd.size
                      /\ (initrd.size \div BlockSize) % BlockSize # 0
                           => initrd.blocks * BlockSize >= initrd.size
    BY DEF InitrdAllButTail
  <2>1. initrd.size \in Nat /\ initrd.blocks = InitrdBlocks(initrd.size)
    BY DEF HandInv, BlocksInv, IInv, TypeOK, LoadTypeOK
  <2> QED BY <2>1, TailCounted, AllButTail
<1>4. HandInv => HandsOver
  BY <1>1, <1>2, <1>3 DEF HandsOver
<1> QED BY <1>4, InitHand, NextHand, PTL DEF Spec

(*** aboot.conf ***)

(* The state of the scanner and the string it has copied are determined by *)
(* the part of the file it has seen, however that is cut into blocks.      *)
NoNul == \A k \in DOMAIN file : file[k] # "nul"

(* The number of characters the scanner has dealt with. *)
Seen == IF blkno = 0 THEN 0
        ELSE IF nread > 0 /\ Pos(p) < Len(file) THEN Pos(p) ELSE Len(file)

(* The blocks read so far are adjacent: a short one reaches the end of the *)
(* file.  After a read error there is only the return to come.             *)
Where ==
  /\ at = "open" => blkno = 0 /\ ~readfailed
  /\ blkno = 0 => nread = 0 /\ p = 0
  /\ nread > 0 => blkno > 0 /\ (nread = blocksize \/ Pos(nread) >= Len(file))
  /\ at \in {"open", "read"} => state # 5
  /\ at = "read" /\ NoNul /\ blkno > 0 => nread > 0 /\ (p = nread \/ Pos(p) >= Len(file))
  /\ at = "read" => ~readfailed
  /\ at = "done" /\ NoNul /\ ~readfailed /\ state # 5 => Seen = Len(file)
  /\ at = "scan" => blkno > 0
  /\ readfailed => state # 5 /\ (at = "done" \/ (at = "scan" /\ nread = 0))
  /\ nread = 0 /\ blkno > 0 => state # 5

(* The string being copied is what follows the number and the colon. *)
Begun(k, m) ==
  /\ k \in 1 .. m - 1 /\ m \in 0 .. Len(file)
  /\ file[k] = "n" /\ file[k + 1] = ":"
  /\ \A j \in k .. m : file[j] # "nl"

Copying(m, s, t) ==
  /\ s \in 0 .. 3 => t = << >>
  /\ s = 3 => m > 0 /\ file[m] = "n"
  /\ s = 4 => \E k \in DOMAIN file : Begun(k, m) /\ t = SubSeq(file, k + 2, m)
  /\ s = 5 /\ t # << >> =>
       \E k, e \in DOMAIN file : Defines(k, e) /\ t = SubSeq(file, k + 2, e - 1)

(* No line that starts at or before k decides the search. *)
Clean(k) ==
  \A j \in 1 .. k : ~MarkAt(j) /\ \A f \in DOMAIN file : ~DefinedAt(j, f)

(* In a tidy file the state is that of the current line, and no earlier    *)
(* line decides the search.                                                *)
Searching(m, s, t) ==
  /\ s \in {0, 1} => m > 0 /\ file[m] # "nl" /\ Clean(m)
  /\ s = 2 => (m = 0 \/ file[m] = "nl") /\ Clean(m)
  /\ s = 3 => m > 0 /\ file[m] = "n" /\ IsLineStart(m) /\ Clean(m - 1)
  /\ s = 4 => \E k \in DOMAIN file :
       Begun(k, m) /\ t = SubSeq(file, k + 2, m) /\ IsLineStart(k) /\ Clean(k - 1)
  /\ s = 5 =>
       \/ /\ t = << >>
          /\ \E j \in DOMAIN file : MarkAt(j) /\ Clean(j - 1)
       \/ \E k, e \in DOMAIN file :
            DefinedAt(k, e) /\ Clean(k - 1) /\ t = SubSeq(file, k + 2, e - 1)

ScanInv ==
  /\ ScanTypeOK /\ Where
  /\ NoNul /\ ~readfailed => Copying(Seen, state, d)
  /\ Tidy /\ ~readfailed => Searching(Seen, state, d)

-----------------------------------------------------------------------------
(* ScanChar, as a relation between what has been seen before and after. *)
Step(m, s, t, s2, t2) ==
  LET c == file[m + 1]
  IN  \/ s \in {0, 1} /\ t2 = t /\ s2 = IF c = "nl" THEN 2 ELSE s
      \/ s = 2 /\ t2 = t /\ s2 = IF c = "n" THEN 3 ELSE IF c = "#" THEN 1
                                 ELSE IF c = "-" THEN 5 ELSE 0
      \/ s = 3 /\ t2 = t /\ s2 = IF c = ":" THEN 4 ELSE 2
      \/ s = 4 /\ c = "nl" /\ t2 = t /\ s2 = 5
      \/ s = 4 /\ c # "nl" /\ t2 = Append(t, c) /\ s2 = 4

(* A string grows by the next character of the file. *)
LEMMA Longer ==
  ASSUME file \in Seq(Alphabet), NEW k \in Nat, NEW m \in Nat,
         1 <= k, k <= m + 1, m + 1 <= Len(file)
  PROVE  SubSeq(file, k, m + 1) = Append(SubSeq(file, k, m), file[m + 1])
<1>1. \A i \in k .. m + 1 : file[i] \in Alphabet
  OBVIOUS
<1>2. SubSeq(file, k, m) \in Seq(Alphabet) /\ SubSeq(file, k, m + 1) \in Seq(Alphabet)
  BY <1>1, SubSeqProperties
<1> QED BY <1>2

(* What Begun becomes with one more character. *)
LEMMA BegunMore ==
  ASSUME file \in Seq(Alphabet), NEW m \in Nat, m + 1 <= Len(file),
         NEW k \in DOMAIN file, Begun(k, m)
  PROVE  /\ k + 2 <= m + 1 /\ k \in Nat
         /\ file[m + 1] = "nl" => Defines(k, m + 1)
         /\ file[m + 1] # "nl" => Begun(k, m + 1)
<1>1. k \in Nat /\ k >= 1 /\ k <= m - 1
  BY DEF Begun
<1>2. \A j \in k .. m : file[j] # "nl"
  BY DEF Begun
<1>3. file[k] = "n" /\ file[k + 1] = ":"
  BY DEF Begun
<1>4. ASSUME file[m + 1] = "nl" PROVE Defines(k, m + 1)
  BY <1>1, <1>2, <1>3, <1>4 DEF Defines
<1>5. ASSUME file[m + 1] # "nl" PROVE Begun(k, m + 1)
  <2>1. \A j \in k .. m + 1 : file[j] # "nl"
    BY <1>1, <1>2, <1>5
  <2> QED BY <1>1, <1>3, <2>1 DEF Begun
<1> QED BY <1>1, <1>4, <1>5

(* The number at m and a colon after it begin a string. *)
LEMMA BegunFirst ==
  ASSUME file \in Seq(Alphabet), NEW m \in Nat, m + 1 <= Len(file),
         m > 0, file[m] = "n", file[m + 1] = ":"
  PROVE  m \in DOMAIN file /\ Begun(m, m + 1) /\ SubSeq(file, m + 2, m + 1) = << >>
<1>1. SubSeq(file, m + 2, m + 1) = << >>
  BY SubSeqEmpty
<1>2. \A j \in m .. m + 1 : j = m \/ j = m + 1
  OBVIOUS
<1>3. \A j \in m .. m + 1 : file[j] # "nl"
  BY <1>2
<1>4. m \in 1 .. (m + 1) - 1 /\ m + 1 \in 0 .. Len(file)
  OBVIOUS
<1> QED BY <1>1, <1>3, <1>4 DEF Begun

LEMMA StepCopying ==
  ASSUME file \in Seq(Alphabet), NEW m \in Nat, m + 1 <= Len(file),
         NEW s \in 0 .. 4, NEW t, NEW s2, NEW t2,
         Copying(m, s, t), Step(m, s, t, s2, t2)
  PROVE  Copying(m + 1, s2, t2)
<1>1. CASE s \in 0 .. 2
  <2>1. t = << >> /\ t2 = t
    BY <1>1 DEF Copying, Step
  <2>2. s2 \in {0, 1, 2, 3, 5} /\ (s2 = 3 => file[m + 1] = "n")
    BY <1>1 DEF Step
  <2> QED BY <2>1, <2>2 DEF Copying
<1>2. CASE s = 3
  <2>1. t = << >> /\ t2 = t /\ m > 0 /\ file[m] = "n"
    BY <1>2 DEF Copying, Step
  <2>2. s2 = 2 \/ (s2 = 4 /\ file[m + 1] = ":")
    BY <1>2 DEF Step
  <2>3. CASE s2 = 2
    BY <2>1, <2>3 DEF Copying
  <2>4. CASE s2 = 4 /\ file[m + 1] = ":"
    <3>1. m \in DOMAIN file /\ Begun(m, m + 1) /\ t2 = SubSeq(file, m + 2, m + 1)
      BY <2>1, <2>4, BegunFirst
    <3> QED BY <2>4, <3>1 DEF Copying
  <2> QED BY <2>2, <2>3, <2>4
<1>3. CASE s = 4
  <2>1. PICK k \in DOMAIN file : Begun(k, m) /\ t = SubSeq(file, k + 2, m)
    BY <1>3 DEF Copying
  <2>2. /\ k + 2 <= m + 1 /\ k \in Nat
        /\ file[m + 1] = "nl" => Defines(k, m + 1)
        /\ file[m + 1] # "nl" => Begun(k, m + 1)
    BY <2>1, BegunMore
  <2>3. CASE file[m + 1] = "nl"
    <3>1. s2 = 5 /\ t2 = t
      BY <1>3, <2>3 DEF Step
    <3>2. m + 1 \in DOMAIN file /\ (m + 1) - 1 = m
      OBVIOUS
    <3>3. Defines(k, m + 1) /\ t2 = SubSeq(file, k + 2, (m + 1) - 1)
      BY <2>1, <2>2, <2>3, <3>1, <3>2
    <3>4. \E i, e \in DOMAIN file : Defines(i, e) /\ t2 = SubSeq(file, i + 2, e - 1)
      BY <2>1, <3>2, <3>3, Zenon
    <3>5. s2 \notin 0 .. 3 /\ s2 # 3 /\ s2 # 4
      BY <3>1
    <3> QED BY <3>4, <3>5, Zenon DEF Copying
  <2>4. CASE file[m + 1] # "nl"
    <3>1. s2 = 4 /\ t2 = Append(t, file[m + 1])
      BY <1>3, <2>4 DEF Step
    <3>2. t2 = SubSeq(file, k + 2, m + 1)
      <4>1. k + 2 \in Nat /\ 1 <= k + 2
        BY <2>2
      <4> QED BY <2>1, <2>2, <3>1, <4>1, Longer
    <3>3. \E i \in DOMAIN file : Begun(i, m + 1) /\ t2 = SubSeq(file, i + 2, m + 1)
      BY <2>1, <2>2, <2>4, <3>2, Zenon
    <3>4. s2 \notin 0 .. 3 /\ s2 # 3 /\ s2 # 5
      BY <3>1
    <3> QED BY <3>3, <3>4, Zenon DEF Copying
  <2> QED BY <2>3, <2>4
<1> QED BY <1>1, <1>2, <1>3

(* A line that is under way decides nothing at its next character. *)
LEMMA CleanInside ==
  ASSUME file \in Seq(Alphabet), NEW m \in Nat, m + 1 <= Len(file),
         Clean(m), m > 0, file[m] # "nl"
  PROVE  Clean(m + 1)
<1>1. ~IsLineStart(m + 1)
  BY DEF IsLineStart
<1>2. ~MarkAt(m + 1) /\ \A f \in DOMAIN file : ~DefinedAt(m + 1, f)
  BY <1>1 DEF MarkAt, DefinedAt
<1>3. \A j \in 1 .. m + 1 : j \in 1 .. m \/ j = m + 1
  OBVIOUS
<1> QED BY <1>2, <1>3 DEF Clean

(* Nor does a line that begins with neither the number nor the mark. *)
LEMMA CleanOther ==
  ASSUME file \in Seq(Alphabet), NEW m \in Nat, m + 1 <= Len(file),
         Clean(m), file[m + 1] # "n", file[m + 1] # "-"
  PROVE  Clean(m + 1)
<1>2. ~MarkAt(m + 1) /\ \A f \in DOMAIN file : ~DefinedAt(m + 1, f)
  BY DEF MarkAt, DefinedAt, Defines
<1>3. \A j \in 1 .. m + 1 : j \in 1 .. m \/ j = m + 1
  OBVIOUS
<1> QED BY <1>2, <1>3 DEF Clean

LEMMA StepSearching ==
  ASSUME file \in Seq(Alphabet), NEW m \in Nat, m + 1 <= Len(file), Tidy,
         NEW s \in 0 .. 4, NEW t, NEW s2, NEW t2,
         s \in 0 .. 3 => t = << >>,
         Searching(m, s, t), Step(m, s, t, s2, t2)
  PROVE  Searching(m + 1, s2, t2)
<1>0. m + 1 \in DOMAIN file /\ (m + 1) - 1 = m /\ m + 1 > 0
  OBVIOUS
<1>1. CASE s \in {0, 1}
  <2>1. m > 0 /\ file[m] # "nl" /\ Clean(m)
    BY <1>1 DEF Searching
  <2>2. Clean(m + 1)
    BY <2>1, CleanInside
  <2>3. CASE file[m + 1] = "nl"
    <3>1. s2 = 2
      BY <1>1, <2>3 DEF Step
    <3> QED BY <2>2, <2>3, <3>1 DEF Searching
  <2>4. CASE file[m + 1] # "nl"
    <3>1. s2 = s
      BY <1>1, <2>4 DEF Step
    <3> QED BY <1>0, <1>1, <2>2, <2>4, <3>1 DEF Searching
  <2> QED BY <2>3, <2>4
<1>2. CASE s = 2
  <2>1. IsLineStart(m + 1) /\ Clean(m)
    BY <1>0, <1>2 DEF Searching, IsLineStart
  <2>2. file[m + 1] # "nl" /\ t2 = << >>
    BY <1>0, <1>2, <2>1 DEF Tidy, Step
  <2>3. CASE file[m + 1] = "n"
    <3>1. s2 = 3
      BY <1>2, <2>3 DEF Step
    <3> QED BY <1>0, <2>1, <2>3, <3>1 DEF Searching
  <2>4. CASE file[m + 1] = "-"
    <3>1. s2 = 5
      BY <1>2, <2>4 DEF Step
    <3>2. MarkAt(m + 1) /\ Clean((m + 1) - 1)
      BY <1>0, <2>1, <2>4 DEF MarkAt
    <3> QED BY <1>0, <2>2, <3>1, <3>2 DEF Searching
  <2>5. CASE file[m + 1] # "n" /\ file[m + 1] # "-"
    <3>1. s2 \in {0, 1}
      BY <1>2, <2>5 DEF Step
    <3>2. Clean(m + 1)
      BY <2>1, <2>5, CleanOther
    <3> QED BY <1>0, <2>2, <3>1, <3>2 DEF Searching
  <2> QED BY <2>3, <2>4, <2>5
<1>3. CASE s = 3
  <2>1. m > 0 /\ file[m] = "n" /\ IsLineStart(m) /\ Clean(m - 1) /\ t2 = << >>
    BY <1>3 DEF Searching, Step
  <2>2. file[m + 1] = ":"
    <3>1. m \in DOMAIN file
      BY <2>1
    <3> QED BY <2>1, <3>1 DEF Tidy, HasColon
  <2>3. s2 = 4
    BY <1>3, <2>2 DEF Step
  <2>4. m \in DOMAIN file /\ Begun(m, m + 1) /\ t2 = SubSeq(file, m + 2, m + 1)
    BY <2>1, <2>2, BegunFirst
  <2> QED BY <2>1, <2>3, <2>4, SMTT(30) DEF Searching
<1>4. CASE s = 4
  <2>1. PICK k \in DOMAIN file :
          Begun(k, m) /\ t = SubSeq(file, k + 2, m) /\ IsLineStart(k) /\ Clean(k - 1)
    BY <1>4 DEF Searching
  <2>2. /\ k + 2 <= m + 1 /\ k \in Nat
        /\ file[m + 1] = "nl" => Defines(k, m + 1)
        /\ file[m + 1] # "nl" => Begun(k, m + 1)
    BY <2>1, BegunMore
  <2>3. CASE file[m + 1] = "nl"
    <3>1. s2 = 5 /\ t2 = t
      BY <1>4, <2>3 DEF Step
    <3>3. DefinedAt(k, m + 1) /\ t2 = SubSeq(file, k + 2, (m + 1) - 1)
      BY <1>0, <2>1, <2>2, <2>3, <3>1 DEF DefinedAt
    <3>4. \E i, e \in DOMAIN file :
            DefinedAt(i, e) /\ Clean(i - 1) /\ t2 = SubSeq(file, i + 2, e - 1)
      BY <1>0, <2>1, <3>3, Zenon
    <3>5. s2 \notin {0, 1} /\ s2 # 2 /\ s2 # 3 /\ s2 # 4
      BY <3>1
    <3> QED BY <3>4, <3>5, Zenon DEF Searching
  <2>4. CASE file[m + 1] # "nl"
    <3>1. s2 = 4 /\ t2 = Append(t, file[m + 1])
      BY <1>4, <2>4 DEF Step
    <3>2. t2 = SubSeq(file, k + 2, m + 1)
      <4>1. k + 2 \in Nat /\ 1 <= k + 2
        BY <2>2
      <4> QED BY <2>1, <2>2, <3>1, <4>1, Longer
    <3>3. \E i \in DOMAIN file : /\ Begun(i, m + 1) /\ t2 = SubSeq(file, i + 2, m + 1)
                                /\ IsLineStart(i) /\ Clean(i - 1)
      BY <2>1, <2>2, <2>4, <3>2, Zenon
    <3>4. s2 \notin {0, 1} /\ s2 # 2 /\ s2 # 3 /\ s2 # 5
      BY <3>1
    <3> QED BY <3>3, <3>4, Zenon DEF Searching
  <2> QED BY <2>3, <2>4
<1> QED BY <1>1, <1>2, <1>3, <1>4
-----------------------------------------------------------------------------
(* Before a read the blocks are seen up to their end, which is a multiple  *)
(* of the block size or the end of the file.                               *)
LEMMA Reading ==
  ASSUME ScanTypeOK, Where, NoNul, at = "read"
  PROVE  /\ Seen \in Nat
         /\ Left <= 0 => Seen = Len(file)
         /\ Left > 0 => Seen = blkno * blocksize
<1>1. blkno \in Nat /\ nread \in 0 .. blocksize /\ p \in 0 .. nread /\ Len(file) \in Nat
      /\ blocksize \in Nat \ {0}
  BY ConfigAssumption DEF ScanTypeOK
<1>2. CASE blkno = 0
  <2>1. Seen = 0 /\ blkno * blocksize = 0 /\ Left = Len(file)
    BY <1>1, <1>2 DEF Seen, Left
  <2> QED BY <1>1, <2>1
<1>3. CASE blkno > 0
  <2>1. /\ nread > 0 /\ (p = nread \/ Pos(p) >= Len(file))
        /\ nread = blocksize \/ Pos(nread) >= Len(file)
    BY <1>1, <1>3 DEF Where
  <2>2. /\ (blkno - 1) * blocksize + blocksize = blkno * blocksize
        /\ (blkno - 1) * blocksize \in Nat /\ blkno * blocksize \in Nat
    BY <1>1, <1>3
  <2>3. Pos(p) = (blkno - 1) * blocksize + p /\ Pos(nread) = (blkno - 1) * blocksize + nread
    BY DEF Pos
  <2>4. Seen = IF Pos(p) < Len(file) THEN Pos(p) ELSE Len(file)
    BY <1>1, <1>3, <2>1 DEF Seen
  <2>5. Left = Len(file) - blkno * blocksize
    BY DEF Left
  <2>6. CASE Pos(p) >= Len(file)
    BY <1>1, <2>2, <2>3, <2>4, <2>5, <2>6
  <2>7. CASE p = nread /\ ~(Pos(p) >= Len(file))
    <3>1. nread = blocksize
      BY <2>1, <2>7
    <3> QED BY <1>1, <2>2, <2>3, <2>4, <2>5, <2>7, <3>1
  <2> QED BY <2>1, <2>6, <2>7
<1> QED BY <1>1, <1>2, <1>3

(* What bread returns never exceeds a block, and reaches the end of the    *)
(* file when it is less.                                                   *)
LEMMA CountRight ==
  ASSUME ScanTypeOK
  PROVE  /\ Count \in 0 .. blocksize
         /\ Left > 0 => Count > 0 /\ (Count = blocksize \/ blkno * blocksize + Count >= Len(file))
<1>1. blkno \in Nat /\ Len(file) \in Nat /\ blocksize \in Nat \ {0} /\ blkno * blocksize \in Nat
      /\ NDADDR \in Nat /\ ufs \in BOOLEAN
  BY ConfigAssumption DEF ScanTypeOK
<1>2. Left = Len(file) - blkno * blocksize /\ Left \in Int
  BY <1>1 DEF Left
<1>3. Len(file) % blocksize \in 0 .. blocksize
  BY <1>1
<1>4. BlkSize \in 0 .. blocksize
  BY <1>1, <1>3 DEF BlkSize
<1> HIDE DEF Left, BlkSize
<1>5. CASE Left >= blocksize
  <2>1. Count = blocksize
    BY <1>1, <1>2, <1>5 DEF Count
  <2> QED BY <1>1, <2>1
<1>6. CASE Left > 0 /\ Left < blocksize
  <2>1. Count = blocksize \/ Count = Left
    BY <1>1, <1>2, <1>6 DEF Count
  <2> QED BY <1>1, <1>2, <1>6, <2>1
<1>7. CASE Left <= 0
  <2>1. Count = BlkSize \/ Count = 0
    BY <1>1, <1>2, <1>7 DEF Count
  <2> QED BY <1>1, <1>2, <1>4, <1>7, <2>1
<1> QED BY <1>1, <1>2, <1>5, <1>6, <1>7

LEMMA SeenType == ASSUME ScanTypeOK, Where PROVE Seen \in Nat /\ Seen <= Len(file)
<1>1. blkno \in Nat /\ nread \in Nat /\ p \in 0 .. nread /\ Len(file) \in Nat /\ blocksize \in Nat
  BY ConfigAssumption DEF ScanTypeOK
<1>2. CASE blkno > 0
  <2>1. (blkno - 1) * blocksize \in Nat
    BY <1>1, <1>2
  <2>2. Pos(p) \in Nat
    BY <1>1, <2>1 DEF Pos
  <2> HIDE DEF Pos
  <2> QED BY <1>1, <2>2 DEF Seen
<1>3. CASE ~(blkno > 0)
  BY <1>1, <1>3 DEF Seen
<1> QED BY <1>2, <1>3

LEMMA InitScan == ScanInit => ScanInv
<1> SUFFICES ASSUME ScanInit PROVE ScanInv
  OBVIOUS
<1>1. ScanTypeOK
  <2>1. file \in Seq(Alphabet) /\ blocksize \in Nat
    BY ConfigAssumption DEF ScanInit
  <2>2. << >> \in Seq(Alphabet \ {"nl", "nul"})
    OBVIOUS
  <2>3. blkno \in Nat /\ nread \in 0 .. blocksize /\ p \in 0 .. nread /\ state \in 0 .. 5
    BY <2>1 DEF ScanInit
  <2> QED BY <2>1, <2>2, <2>3, Zenon DEF ScanInit, ScanTypeOK
<1>2. Seen = 0
  BY DEF ScanInit, Seen
<1>3. Where
  BY DEF ScanInit, Where
<1>4. Copying(Seen, state, d)
  BY DEF ScanInit, Copying
<1>5. Searching(Seen, state, d)
  BY <1>2 DEF ScanInit, Searching, Clean
<1> QED BY <1>1, <1>3, <1>4, <1>5 DEF ScanInv

LEMMA SameFile ==
  ASSUME file' = file
  PROVE  /\ NoNul' = NoNul /\ Tidy' = Tidy
         /\ \A k, m : Begun(k, m)' = Begun(k, m)
         /\ \A k : IsLineStart(k)' = IsLineStart(k) /\ MarkAt(k)' = MarkAt(k) /\ Clean(k)' = Clean(k)
         /\ \A k, e : Defines(k, e)' = Defines(k, e) /\ DefinedAt(k, e)' = DefinedAt(k, e)
BY ZenonT(30) DEF NoNul, Tidy, Begun, IsLineStart, MarkAt, Clean, Defines, DefinedAt, HasColon

(* What has been seen, and what it means, is the same after a step that    *)
(* scans nothing.                                                          *)
LEMMA ScanFrame ==
  ASSUME ScanInv, file' = file, state' = state, d' = d,
         readfailed' = readfailed, NoNul /\ ~readfailed => Seen' = Seen, ScanTypeOK', Where'
  PROVE  ScanInv'
<1>1. Tidy => NoNul
  BY DEF Tidy, NoNul
<1>2. NoNul' = NoNul /\ Tidy' = Tidy
  BY DEF NoNul, Tidy, IsLineStart, HasColon
<1>3. ASSUME NoNul', ~readfailed' PROVE Copying(Seen, state, d)'
  <2>1. Copying(Seen, state, d) /\ Seen' = Seen
    BY <1>2, <1>3 DEF ScanInv
  <2> QED BY <2>1, Zenon DEF Copying, Begun, Defines
<1>4. ASSUME Tidy', ~readfailed' PROVE Searching(Seen, state, d)'
  <2>1. Searching(Seen, state, d) /\ Seen' = Seen
    BY <1>1, <1>2, <1>4 DEF ScanInv
  <2> QED BY <2>1, SameFile, Zenon DEF Searching
<1> QED BY <1>3, <1>4 DEF ScanInv

LEMMA OpenScan == ASSUME ScanInv, OpenConfigFile PROVE ScanInv'
<1>1. /\ at = "open" /\ UNCHANGED << file, ufs, blkno, nread, p, state, d >>
      /\ \/ at' = "read" /\ readfailed' = readfailed
         \/ at' = "done" /\ readfailed' = TRUE
  BY DEF OpenConfigFile
<1>2. ScanTypeOK /\ Where /\ blkno = 0 /\ ~readfailed /\ nread = 0 /\ p = 0 /\ state # 5
  BY <1>1 DEF ScanInv, Where
<1>3. ScanTypeOK'
  BY <1>1, <1>2, Zenon DEF ScanTypeOK
<1>4. Seen' = Seen /\ Seen = 0
  BY <1>1, <1>2 DEF Seen
<1>5. CASE at' = "read" /\ readfailed' = readfailed
  <2>1. Where'
    BY <1>1, <1>2, <1>5 DEF Where, ScanTypeOK
  <2> QED BY <1>1, <1>3, <1>4, <1>5, <2>1, ScanFrame
<1>6. CASE at' = "done" /\ readfailed' = TRUE
  <2>1. Where'
    BY <1>1, <1>2, <1>6 DEF Where, ScanTypeOK
  <2> QED BY <1>3, <1>6, <2>1 DEF ScanInv
<1> QED BY <1>1, <1>5, <1>6

LEMMA ReadScan == ASSUME ScanInv, ReadBlock PROVE ScanInv'
<1>1. /\ at = "read" /\ at' = "scan" /\ p' = 0
      /\ UNCHANGED << file, ufs, state, d >>
  BY DEF ReadBlock
<1>2. ScanTypeOK /\ Where /\ ~readfailed /\ state # 5
  BY <1>1 DEF ScanInv, Where
<1>3. blkno \in Nat /\ Len(file) \in Nat /\ blocksize \in Nat \ {0} /\ blkno * blocksize \in Nat
      /\ (blkno + 1) - 1 = blkno /\ Left = Len(file) - blkno * blocksize /\ Left \in Int
  BY <1>2, ConfigAssumption DEF ScanTypeOK, Left
<1>4. blkno' \in Nat /\ blkno' > 0 /\ (blkno' = blkno \/ blkno' = blkno + 1)
  BY <1>3, ConfigAssumption DEF ReadBlock, Endless
<1>5. Count \in 0 .. blocksize
  BY <1>2, CountRight
<1>6. \/ readfailed' = TRUE /\ nread' = 0
      \/ readfailed' = readfailed /\ nread' = Count
      \/ readfailed' = readfailed /\ nread' = blocksize /\ Left = 0
  BY DEF ReadBlock, OneMore
<1>7. ScanTypeOK'
  <2>1. nread' \in 0 .. blocksize /\ p' \in 0 .. nread' /\ readfailed' \in BOOLEAN
    <3>1. readfailed' \in BOOLEAN
      BY <1>2, <1>6 DEF ScanTypeOK
    <3>2. 0 \in 0 .. blocksize /\ blocksize \in 0 .. blocksize
      BY <1>3
    <3>3. nread' \in 0 .. blocksize
      BY <1>5, <1>6, <3>2, Zenon
    <3>4. p' \in 0 .. nread'
      BY <1>1, <1>3, <3>3
    <3> QED BY <3>1, <3>3, <3>4
  <2> QED BY <1>1, <1>2, <1>4, <2>1, Zenon DEF ScanTypeOK
<1>8. ASSUME nread' > 0 => nread' = blocksize \/ Pos(nread)' >= Len(file)
      PROVE  Where'
  BY <1>1, <1>2, <1>4, <1>6, <1>8, <1>7 DEF Where
<1>9. ASSUME readfailed' = TRUE, nread' = 0 PROVE ScanInv'
  BY <1>7, <1>8, <1>9 DEF ScanInv
<1>10. ASSUME readfailed' = readfailed, Left <= 0 PROVE ScanInv'
  <2>1. (blkno' - 1) * blocksize \in Nat /\ (blkno' - 1) * blocksize >= Len(file)
    <3>1. CASE Endless
      <4>1. blkno' = blkno /\ Left + blocksize <= 0 /\ blkno > 0
        BY <1>3, <3>1, ConfigAssumption DEF ReadBlock, Endless
      <4>2. (blkno - 1) * blocksize + blocksize = blkno * blocksize /\ (blkno - 1) * blocksize \in Nat
        BY <1>3, <4>1
      <4> QED BY <1>3, <4>1, <4>2
    <3>2. CASE ~Endless
      <4>1. blkno' = blkno + 1
        BY <3>2 DEF ReadBlock
      <4>2. (blkno' - 1) * blocksize = blkno * blocksize
        BY <1>3, <4>1
      <4> QED BY <1>3, <1>10, <4>2
    <3> QED BY <3>1, <3>2
  <2>2. Pos(nread)' = (blkno' - 1) * blocksize + nread' /\ Pos(p)' = (blkno' - 1) * blocksize + 0
    BY <1>1 DEF Pos
  <2>3. nread' \in Nat
    BY <1>7, ConfigAssumption DEF ScanTypeOK
  <2>4. Where'
    BY <1>3, <1>8, <2>1, <2>2, <2>3
  <2>5. Seen' = Len(file)
    BY <1>1, <1>3, <1>4, <2>1, <2>2 DEF Seen
  <2>6. NoNul => Seen = Len(file)
    BY <1>1, <1>2, <1>10, Reading
  <2> QED BY <1>1, <1>2, <1>7, <1>10, <2>4, <2>5, <2>6, ScanFrame
<1>11. ASSUME readfailed' = readfailed, nread' = Count, Left > 0 PROVE ScanInv'
  <2>1. nread' > 0 /\ (nread' = blocksize \/ blkno * blocksize + nread' >= Len(file))
    BY <1>2, <1>11, CountRight
  <2>2. blkno' = blkno + 1
    <3>1. ~Endless
      BY <1>3, <1>11 DEF Endless
    <3> QED BY <3>1 DEF ReadBlock
  <2>3. (blkno' - 1) * blocksize = blkno * blocksize
    BY <1>3, <2>2
  <2>4. Pos(nread)' = blkno * blocksize + nread' /\ Pos(p)' = blkno * blocksize + 0
    BY <1>1, <2>3 DEF Pos
  <2>5. Where'
    BY <1>8, <2>1, <2>4
  <2>6. Seen' = blkno * blocksize
    BY <1>1, <1>3, <1>4, <1>11, <2>1, <2>4 DEF Seen
  <2>7. NoNul => Seen = blkno * blocksize
    BY <1>1, <1>2, <1>11, Reading
  <2> QED BY <1>1, <1>2, <1>7, <1>11, <2>5, <2>6, <2>7, ScanFrame
<1>12. (Left <= 0 \/ Left > 0) /\ (Left = 0 => Left <= 0)
  BY <1>3
<1> QED BY <1>6, <1>9, <1>10, <1>11, <1>12, Zenon

LEMMA EndScan == ASSUME ScanInv, EndBlock PROVE ScanInv'
<1>1. /\ at = "scan" /\ ~InBlock /\ at' = IF nread > 0 /\ state # 5 THEN "read" ELSE "done"
      /\ UNCHANGED << file, ufs, blkno, nread, p, state, d, readfailed >>
  BY DEF EndBlock
<1>2. ScanTypeOK /\ Where /\ blkno > 0 /\ Len(file) \in Nat
  BY <1>1 DEF ScanInv, Where, ScanTypeOK
<1>3. ScanTypeOK'
  BY <1>1, <1>2 DEF ScanTypeOK
<1>4. Seen' = Seen /\ NoNul' = NoNul /\ Pos(nread)' = Pos(nread) /\ Pos(p)' = Pos(p)
  BY <1>1 DEF Seen, NoNul, Pos
<1>5. ASSUME nread > 0, state # 5, NoNul PROVE p = nread \/ Pos(p) >= Len(file)
  <2>1. p \in 0 .. nread /\ nread \in Nat
    BY <1>2, ConfigAssumption DEF ScanTypeOK
  <2>2. Pos(p) \in Nat
    <3>1. (blkno - 1) * blocksize \in Nat
      BY <1>2, ConfigAssumption DEF ScanTypeOK
    <3> QED BY <2>1, <3>1 DEF Pos
  <2>3. SUFFICES ASSUME p < nread, Pos(p) < Len(file) PROVE FALSE
    BY <1>2, <2>1, <2>2
  <2>4. Pos(p) + 1 \in DOMAIN file
    <3>1. Pos(p) + 1 \in 1 .. Len(file)
      BY <1>2, <2>2, <2>3
    <3> HIDE DEF Pos
    <3> QED BY <1>2, <3>1 DEF ScanTypeOK
  <2>5. Char # "nul"
    BY <1>5, <2>3, <2>4, Zenon DEF NoNul, Char
  <2> QED BY <1>1, <1>5, <2>3, <2>5 DEF InBlock
<1>6. Where'
  <2>1. nread \in Nat
    BY <1>2, ConfigAssumption DEF ScanTypeOK
  <2>2. CASE nread > 0 /\ state # 5
    <3> HIDE DEF Seen, Pos
    <3> QED BY <1>1, <1>2, <1>4, <1>5, <2>1, <2>2 DEF Where
  <2>3. CASE ~(nread > 0 /\ state # 5)
    <3>1. state # 5 => nread = 0 /\ Seen = Len(file)
      BY <1>2, <2>1, <2>3 DEF Seen
    <3> HIDE DEF Seen, Pos
    <3> QED BY <1>1, <1>2, <1>4, <2>1, <2>3, <3>1 DEF Where
  <2> QED BY <2>2, <2>3
<1> QED BY <1>1, <1>3, <1>4, <1>6, ScanFrame

LEMMA CharScan == ASSUME ScanInv, ScanChar PROVE ScanInv'
<1>1. /\ at = "scan" /\ InBlock /\ p' = p + 1
      /\ UNCHANGED << file, ufs, at, blkno, nread, readfailed >>
  BY DEF ScanChar
<1>2. /\ ScanTypeOK /\ Where /\ blkno > 0 /\ Len(file) \in Nat /\ p < nread /\ nread \in Nat /\ p \in Nat
      /\ state # 5 /\ Char # "nul" /\ state \in 0 .. 4 /\ file \in Seq(Alphabet)
  BY <1>1 DEF ScanInv, Where, ScanTypeOK, InBlock
<1>3. Pos(p) \in Nat /\ Pos(p)' = Pos(p) + 1 /\ Pos(nread)' = Pos(nread) /\ Pos(p) < Len(file)
  <2>1. (blkno - 1) * blocksize \in Nat
    BY <1>2, ConfigAssumption DEF ScanTypeOK
  <2>2. Pos(p) < Len(file)
    BY <1>2, Zenon DEF Char
  <2> QED BY <1>1, <1>2, <2>1, <2>2 DEF Pos
<1>4. Seen = Pos(p) /\ Seen \in Nat /\ Seen + 1 <= Len(file)
      /\ Char = file[Seen + 1] /\ Seen' = Seen + 1
  <2> HIDE DEF Pos
  <2>1. Seen = Pos(p) /\ Char = file[Seen + 1]
    BY <1>2, <1>3 DEF Seen, Char
  <2>2. Seen' = IF Pos(p)' < Len(file) THEN Pos(p)' ELSE Len(file)
    BY <1>1, <1>2 DEF Seen
  <2> QED BY <1>2, <1>3, <2>1, <2>2
<1>5. Char \in Alphabet \ {"nul"}
  BY <1>2, <1>4
<1>6. Step(Seen, state, d, state', d')
  <2> HIDE DEF Char, Seen
  <2>1. Step(Seen, state, d, state', d') =
          LET c == Char
          IN  \/ state \in {0, 1} /\ d' = d /\ state' = IF c = "nl" THEN 2 ELSE state
              \/ state = 2 /\ d' = d /\ state' = IF c = "n" THEN 3 ELSE IF c = "#" THEN 1
                                         ELSE IF c = "-" THEN 5 ELSE 0
              \/ state = 3 /\ d' = d /\ state' = IF c = ":" THEN 4 ELSE 2
              \/ state = 4 /\ c = "nl" /\ d' = d /\ state' = 5
              \/ state = 4 /\ c # "nl" /\ d' = Append(d, c) /\ state' = 4
    BY <1>4, Zenon DEF Step
  <2> QED BY <2>1 DEF ScanChar, SkipLine, AtLineStart, AfterNumber, CopyString
<1>7. ScanTypeOK'
  <2>1. p' \in 0 .. nread' /\ nread' \in 0 .. blocksize /\ blkno' \in Nat /\ readfailed' \in BOOLEAN
        /\ at' \in {"open", "read", "scan", "done"} /\ file' \in Seq(Alphabet) /\ ufs' \in BOOLEAN
    BY <1>1, <1>2 DEF ScanTypeOK
  <2>2. state' \in 0 .. 5
    BY <1>2, <1>6 DEF Step
  <2>3. d' \in Seq(Alphabet \ {"nl", "nul"})
    <3>1. d \in Seq(Alphabet \ {"nl", "nul"})
      BY <1>2 DEF ScanTypeOK
    <3>2. d' = d \/ (Char # "nl" /\ d' = Append(d, Char))
      BY <1>4, <1>6 DEF Step
    <3>3. Char # "nl" => Append(d, Char) \in Seq(Alphabet \ {"nl", "nul"})
      BY <1>5, <3>1
    <3> QED BY <3>1, <3>2, <3>3
  <2> QED BY <2>1, <2>2, <2>3 DEF ScanTypeOK
<1>8. Where'
  <2>1. NoNul' = NoNul
    BY <1>1 DEF NoNul
  <2> QED BY <1>1, <1>2, <1>3, <2>1 DEF Where
<1>9. Tidy => NoNul
  BY DEF Tidy, NoNul
<1>10. ASSUME NoNul', ~readfailed' PROVE Copying(Seen, state, d)'
  <2>1. Copying(Seen, state, d)
    BY <1>1, <1>10 DEF ScanInv, NoNul
  <2>2. Copying(Seen + 1, state', d')
    BY <1>2, <1>4, <1>6, <2>1, StepCopying
  <2> QED BY <1>1, <1>4, <2>2, Zenon DEF Copying, Begun, Defines
<1>11. ASSUME Tidy', ~readfailed' PROVE Searching(Seen, state, d)'
  <2>1. Tidy
    BY <1>1, <1>11 DEF Tidy, IsLineStart, HasColon
  <2>2. Searching(Seen, state, d) /\ Copying(Seen, state, d)
    BY <1>1, <1>9, <1>11, <2>1 DEF ScanInv
  <2>3. state \in 0 .. 3 => d = << >>
    BY <2>2 DEF Copying
  <2>4. Searching(Seen + 1, state', d')
    BY <1>2, <1>4, <1>6, <2>1, <2>2, <2>3, StepSearching
  <2> QED BY <1>1, <1>4, <2>4, SameFile, Zenon DEF Searching
<1> QED BY <1>7, <1>8, <1>10, <1>11 DEF ScanInv

LEMMA NextScan == ScanInv /\ [ScanNext]_scanvars => ScanInv'
<1> SUFFICES ASSUME ScanInv, [ScanNext]_scanvars PROVE ScanInv'
  OBVIOUS
<1>1. ASSUME UNCHANGED scanvars PROVE ScanInv'
  <2>1. UNCHANGED << file, ufs, at, blkno, nread, p, state, d, readfailed >>
    BY <1>1 DEF scanvars
  <2>2. Seen' = Seen /\ (ScanTypeOK' = ScanTypeOK)
    BY <2>1, Zenon DEF Seen, Pos, ScanTypeOK
  <2>3. Where'
    <3>1. Where /\ NoNul' = NoNul /\ Pos(p)' = Pos(p) /\ Pos(nread)' = Pos(nread)
      BY <2>1, SameFile DEF ScanInv, Pos
    <3> QED BY <2>1, <2>2, <3>1 DEF Where
  <2> QED BY <2>1, <2>2, <2>3, ScanFrame DEF ScanInv
<1> QED BY <1>1, OpenScan, ReadScan, CharScan, EndScan DEF ScanNext, Returned
-----------------------------------------------------------------------------
LEMMA InvCopies == ScanInv => CopiesWholeLine
<1> SUFFICES ASSUME ScanInv, Success, d # << >>, NoNul
             PROVE \E k, e \in DOMAIN file : Defines(k, e) /\ d = SubSeq(file, k + 2, e - 1)
  BY Zenon DEF CopiesWholeLine, NoNul
<1>1. state = 5 /\ ~readfailed
  BY DEF ScanInv, Where, Success
<1>2. Copying(Seen, state, d)
  BY <1>1 DEF ScanInv
<1> QED BY <1>1, <1>2, Zenon DEF Copying

(* Nothing decides the search in a file that has been seen to its end. *)
LEMMA NothingLeft ==
  ASSUME file \in Seq(Alphabet), NEW s \in 0 .. 4, NEW t, Searching(Len(file), s, t),
         NEW k \in DOMAIN file, NEW e \in DOMAIN file, DefinedAt(k, e)
  PROVE  FALSE
<1>0. /\ Len(file) \in Nat /\ k \in 1 .. Len(file) /\ e \in 1 .. Len(file)
      /\ k + 1 < e /\ file[k] = "n" /\ file[e] = "nl"
      /\ (k = 1 \/ file[k - 1] = "nl")
  BY DEF DefinedAt, Defines, IsLineStart
<1>1. CASE s \in {0, 1, 2}
  <2>1. Clean(Len(file))
    BY <1>1 DEF Searching
  <2> QED BY <1>0, <2>1 DEF Clean
<1>2. CASE s = 3
  <2>1. Clean(Len(file) - 1)
    BY <1>2 DEF Searching
  <2>2. k \in 1 .. Len(file) - 1
    BY <1>0
  <2> QED BY <2>1, <2>2 DEF Clean
<1>3. CASE s = 4
  <2>1. PICK i \in DOMAIN file : Begun(i, Len(file)) /\ Clean(i - 1)
    BY <1>3 DEF Searching
  <2>2. i \in Nat /\ \A j \in i .. Len(file) : file[j] # "nl"
    BY <2>1 DEF Begun
  <2>3. k >= i
    <3>1. k \notin 1 .. i - 1
      BY <2>1 DEF Clean
    <3> QED BY <1>0, <2>2, <3>1
  <2> QED BY <1>0, <2>2, <2>3
<1> QED BY <1>1, <1>2, <1>3

LEMMA InvFinds == ScanInv => FindsFirstLine
<1> DEFINE Found == \E k, e \in DOMAIN file :
                      /\ DefinedAt(k, e)
                      /\ \A j \in 1 .. k - 1 : ~MarkAt(j) /\ \A f \in DOMAIN file : ~DefinedAt(j, f)
                      /\ state = 5 /\ d = SubSeq(file, k + 2, e - 1)
           Ended == /\ \A k, e \in DOMAIN file : DefinedAt(k, e) => \E j \in 1 .. k - 1 : MarkAt(j)
                    /\ state = 5 => d = << >> /\ \E j \in DOMAIN file : MarkAt(j)
<1> SUFFICES ASSUME ScanInv, at = "done", Tidy, ~readfailed PROVE Found \/ Ended
  BY Zenon DEF FindsFirstLine
<1>0. file \in Seq(Alphabet) /\ state \in 0 .. 5
  BY DEF ScanInv, ScanTypeOK
<1>1. Searching(Seen, state, d) /\ NoNul
  BY DEF ScanInv, Tidy, NoNul
<1>2. CASE state # 5
  <2>1. Seen = Len(file)
    BY <1>1, <1>2 DEF ScanInv, Where
  <2>2. Searching(Len(file), state, d) /\ state \in 0 .. 4
    BY <1>0, <1>1, <1>2, <2>1
  <2>3. \A k, e \in DOMAIN file : ~DefinedAt(k, e)
    BY <1>0, <2>2, NothingLeft
  <2> QED BY <1>2, <2>3, Zenon
<1>3. CASE state = 5
  <2>1. \/ d = << >> /\ \E j \in DOMAIN file : MarkAt(j) /\ Clean(j - 1)
        \/ \E k, e \in DOMAIN file :
             DefinedAt(k, e) /\ Clean(k - 1) /\ d = SubSeq(file, k + 2, e - 1)
    BY <1>1, <1>3, Zenon DEF Searching
  <2>2. ASSUME d = << >>, NEW j \in DOMAIN file, MarkAt(j), Clean(j - 1) PROVE Ended
    <3>1. ASSUME NEW k \in DOMAIN file, NEW e \in DOMAIN file, DefinedAt(k, e)
          PROVE  j \in 1 .. k - 1
      <4>1. k \notin 1 .. j - 1
        BY <2>2, <3>1 DEF Clean
      <4>2. k # j
        BY <2>2, <3>1 DEF DefinedAt, Defines, MarkAt
      <4>3. k \in Nat /\ j \in Nat /\ k >= 1 /\ j >= 1
        BY <1>0
      <4> QED BY <4>1, <4>2, <4>3
    <3> QED BY <2>2, <3>1, Zenon
  <2>3. ASSUME NEW k \in DOMAIN file, NEW e \in DOMAIN file, DefinedAt(k, e), Clean(k - 1),
               d = SubSeq(file, k + 2, e - 1)
        PROVE  Found
    <3>1. \A j \in 1 .. k - 1 : ~MarkAt(j) /\ \A f \in DOMAIN file : ~DefinedAt(j, f)
      BY <2>3, Zenon DEF Clean
    <3> QED BY <1>3, <2>3, <3>1, Zenon
  <2> QED BY <2>1, <2>2, <2>3, Zenon
<1> QED BY <1>2, <1>3

(* What get_default_args has in hand is right: a string that it returns is *)
(* a whole line's, and in a tidy file without read errors it is that of    *)
(* the first line that defines the preset, or none if the end mark or the  *)
(* end of the file comes first.  For every aboot.conf and block size.      *)
THEOREM ScanIsRight == ScanSpec => []ScanRight
<1>1. ScanInv => ScanRight
  BY InvCopies, InvFinds DEF ScanInv, ScanRight
<1> QED BY <1>1, InitScan, NextScan, PTL DEF ScanSpec
=============================================================================
