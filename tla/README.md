# aboot in TLA+: models, checks and proofs

aboot is the second-stage boot loader of Linux/Alpha, together with the tools
that install it.  SRM, the firmware, loads aboot from the boot device and hands
it a string of flags; aboot reads `aboot.conf`, talks to the user if it has to,
loads a kernel and perhaps a ramdisk, and jumps to the kernel.  Nothing runs
concurrently.  What makes the code hard to get right is **time**: a boot is a
loop of attempts, every attempt can fail half way, nearly all state is global and
survives the failure, and the next attempt runs on top of it.

## Inventory

| part | source | state it keeps | operations | what makes it correct |
|---|---|---|---|---|
| boot loop | `disk.c`, `aboot.c` (is_loadable_elf, get_boot_args) | kernel_args, boot_file, initrd_file, config_file_partition, mounted driver, bss_start/bss_size, program headers | load_kernel, get_aboot_options (flags, presets, prompt), mount_fs, load, load_raw, load_uncompressed, read_kernel, read_initrd | the kernel that is started is the one asked for last, complete, with the arguments and the ramdisk asked for; a failure leads to the prompt; nothing stale is used |
| aboot.conf parser | `disk.c` get_default_args | parser state across blocks | scan a block | finds the line that defines a preset, wherever the block boundaries fall; ends |
| ext2/ext4 driver | `fs/ext2.c` | inode table, caches of indirect blocks | mount, open, bread, readdir, fstat, close | a name leads to its file, reads return the file's blocks of the mounted volume, slots are accounted for, calls return |
| ISO 9660 driver | `fs/iso.c`, `lib/isolib.c` | inode table, last block read, statics of readdir | mount, open, bread, readdir, fstat, close | the same, and complete listings, whatever a record's place in its block and sector |
| ufs driver | `fs/ufs.c` | one file structure with a buffer per indirect level | mount, open, bread, close | the same |
| dummy driver | `fs/dummy.c` | none | read at the start of the device | |
| console | `cons.c` | none | read, puts, getc, getenv | unaligned reads return the bytes asked for |
| memory | `utils.c` | free_mem_ptr, jump_buffer | check_memory, malloc, getline | memory that is used is there and not reserved |
| gunzip | `zip/*.c` | input buffer, bit buffer, window, crc, current segment | uncompress_kernel, fill_inbuf, get_method, inflate, huft_build, flush_window | the output is the expansion of the codes and lands in the kernel's segments; a sound file is loaded also after a failed attempt; an attempt ends |
| network boot | `net.c`, `netabootwrap.c` | none | load_kernel | one straight line |
| ext2 tools | `tools/e2writeboot.c`, `e2lib.c`, `bio.c` | buffer cache, bitmaps, inode table | bread/bwrite/bflush, balloc, fill_contiguous, namei, ... | what is written reaches the device; no block has two owners |
| image tools | `tools/isomarkboot.c`, `objstrip.c`, `elfencap.c` | none | one pass over a file | |
| label tools | `sdisklabel/*.c`, `tools/abootconf.c` | label, boot words and sum, bootstrap | set partitions, install, configure | no partition is overwritten unasked; the sum is right; the boot words name a whole bootstrap, which keeps its configured partition |
| srmbootfat | `srmbootfat/srmbootfat.c` | none | patch a FAT boot sector | |

They interact by calls: the boot loop calls one driver through `struct bootfs`,
the drivers call `cons_read`, `read_kernel` calls `uncompress_kernel`, which reads
through the driver, asks `is_loadable_elf` about the first window and leaves by
`longjmp` on an error; e2writeboot calls e2lib, which calls bio.  The behaviours that are hard are partial failure and retry,
stale state, resource leaks across retries, limits (five inode slots, 32
buffers, fixed-size argument strings) and arithmetic at boundaries.

## Modules

**Boot** models one pass after another through `load_kernel` (disk.c) with every
branch of `get_aboot_options`, the kernel and ramdisk readers and
`is_loadable_elf`.  `pc` is the place in the loop.  Strings are sequences of words
(`[t, p, c]`: a preset character, a `part:char` pair, an `initrd=` word, a plain
word); besides, `ink` records which bytes of the `kernel_args` buffer are not NUL,
because the search for `initrd=` reads one byte behind the end of the string.
Disks are functions from volumes to file system types and from names to images;
an image has a kind (ELF, gzip, junk) and segments.  Every read may fail.  A
compressed kernel is one step: it either leaves the whole image in memory or
jumps out, leaving a descriptor open.  The code calls strcpy with no bounds
check; the lengths used here stay within the buffers.  `load` zero-fills from
`bss_start` whenever `bss_size` is positive, whoever set it: `BssHits` says which
images' bss ranges meet which other images, and `memory` holds no whole image after
a hit.  `elf` names whose program headers are in `chunks`, `bss` whose range is
set.  Calls of `get_default_args` and `print_config_file` (command `l`) are steps that
return; when they do not, on ufs, is a matter of ConfigFile.  Two histories say
what was asked for, apart from the buffer the code works on: `want` the arguments
of the choice under way and `wantrd` the ramdisk named last, by a word of that
choice or by the command `i`.

**ConfigFile** models `get_default_args` character by character, over every file
up to a length; a character is one of the classes the
parser tells apart (the number asked for, another character, `:`, `#`, `-`,
newline, NUL).  The block size is a constant.  `bread` gives 0 behind the end of a
file on ext2; iso gives what follows on the disc, here NULs, up to the block's end;
ufs has no test for the end and gives a block as large as `blksize` makes it, full
ones for ever behind the direct blocks (`NDADDR`), of bytes that are not the file's.

**BlockStore** says what a buffer cache promises: reads see the latest write, only
blocks that have been written reach the device, a flush leaves none out, a block
whose read failed reads as anything but is never written back.  **Bio** models
`tools/bio.c`: the buffers with block number, access count, dirty bit and data,
the search for a hit (an unused buffer has number 0, and so is hit by block 0
through a null pointer), the choice of the least recently used buffer, the
write-back.  It implements BlockStore under the mapping in Bio (`Content`, `Pending`).

**Ext2** models `fs/ext2.c`: the table of inodes, `ext2_namei` a component at a
time, symbolic links, close, and `ext2_breadi` with the caches of one indirect and
one double-indirect block.  A volume is constant (inodes, directory entries,
links, pointers); a buffer is the volume and block it was read from, or `Junk`, out
of which any pointer may come.  `names` records by which name a descriptor was
opened and `lost` the slots nobody points to any more.  Directories are maps that
fit into direct blocks; a directory block that cannot be read ends a lookup.  Not
modelled: a group descriptor read that fails at mount (its result is ignored),
readdir and fstat, extents other than one of depth 0 (the code refuses several and
does not look at the depth).  A read may start at any block, since
load_uncompressed seeks to whatever offset a header names: far enough past the end
`nblks` is negative, the loop does not end, and the model is in the place `runaway`.

**IsoRock** holds the three walks over the Rock Ridge entries of a directory record
(`get_rock_ridge_filename`, `parse_rock_ridge_inode`, `get_rock_ridge_symlink`) as
folds over the entries, continuation areas included; names and texts are sequences
of parts.  A walk yields what the code would have in hand at its end, or that a
continuation area could not be read.  How a name is matched to a record and what type
and size `iso_iget` takes from it are operators there too.  **IsoDisc** says what a disc
holds and what a name on it stands for, apart from the driver: an array of cells, so
that a record may end with a block, span two, or leave the rest of a sector empty;
records whose author's names and link text are `known` and `link`.  `Child`,
`Down` and `Hop` lead from a name to its file through these.  `Sound` says which discs the
driver is meant for (DiscsAssumption; see Proofs).  **Iso** is the driver: the inode
table with its slots (`table`), `iso_open` with `iso_lookup`, `iso_find_entry` a record
at a time and `iso_follow_link`, the listing, reading, closing.  `dir`, `root` and `oldinode` are the locals that hold a slot.  `wanted` in `ret`
and `open` is the record the name stands for by IsoDisc, not by the code's scan; `seen` and `past` are histories of
what went wrong.  `dead` is a null pointer followed (the root's inode could not be
read in `iso_follow_link`).  A read that starts far past the end of a file asks the
console for a negative number of bytes, and is refused.  In a listing `data_block`
holds cells as the code leaves them: where copying back from `big_data_block` stops
short of the sector's end (isolib.c:1110) older cells stay, and what is made of
a record that runs into them is any name or none.  `Lossy` are the records that cause
this, `Legible` the places before the loss, `Listed` the visible records with a
Rock Ridge name.  Not modelled: names longer than their record (the code
copies them with strcpy), `iso_map`, which nobody calls.

**Ufs** is the driver with its single file structure: `ufs_open` a component at a time
with `search_dir` entry by entry, `block_map` level by level with a kept buffer per
level (`f_blk`, `f_blkno`), `breadi` with its grouping of blocks into runs (`g`).
Addresses are those of fragments; what was read is known by its address.  Memory
that is no directory entry (`Junk`) has any length, so that a search that steps into
it may go anywhere or stay.  `ret.val = 5003` after too many links and the fault of
`strlen(NULL)` on a link are in the model as the code has them.  A volume is one
that fsck would pass (`VolumesAssumption`): inode and indirect blocks lead down as
many levels as they should, no file has data in the first block of the volume,
where boot program and superblock are, the entries of a directory follow each other
from the start of a block to its end, and a name is in a directory once.  `where`
says which inode a path names, and `deep` which paths have an entry
beyond the direct blocks of its directory on the way; the assumption ties both to the entries.

**Deflate** holds the tables of `zip/inflate.c` and what a list of code lengths means
(Kraft's sum, the first table's bits).  **Huffman** is `huft_build` loop by loop:
counting, sorting, tables made on the way down, entries repeated, the code counted
upwards from its high end, levels left again.  `Lookup` is the walk that
`inflate_codes` makes through the result.  The values of `v` that nothing was sorted
into are `Junk`.  **GzipFile** says, apart from the code, what a file holds and what it
stands for (`Expanded`, `LengthsAfter`), and by `FileSound` which files the decompressor
is meant for: the last code of a block and no other is its end, the codes sent are in
their tables, a copy reaches back no further than a window and than what there is (the
code does not look), segments ascend in the file and in memory (`is_loadable_elf` says
it assumes so), and a trailer with the right length and crc is that of what was
compressed.  Files with every defect the code looks for satisfy it as well.  **Gunzip** is the rest: `uncompress_kernel` attempt after attempt,
`fill_inbuf` block by block, the header byte by byte, `inflate` code by code with its
bit buffer, the circular window, `flush_window` segment by segment, the trailer.  A
byte of the input is known by its place in the file and a bit likewise, so a decoder
that is one bit off does not go on as if nothing had happened: when the bits in
hand are not those the next code is written in (`at = -1`), anything may be decoded.
A crc is the output it was computed from, that is, a hash without collisions.
Segments are in the order of their offsets and disjoint, as a linker lays them out.
`Delivered` is what bread gives on each file system: ext2, ext4 and iso notice the end of
a file, ufs does not, and gives a short block there only if the last direct block is
short.  Where it never does (`NoEof`) a decoder that has lost its way in a file cut short
may go on for ever; it is followed for `MaxOut` bytes and then ends in the place `runaway`.
`huft_build` is used in Gunzip by what Huffman checks it to return.  The branches
for pkzip files are dead code (`pkzip` is never set) and are left out, as are
`malloc` and the empty `free`.

**E2lib** holds the allocation of `tools/e2lib.c` as operators on bitmaps (sets of
marked blocks): first free block, runs of free words, the trees of blocks behind
an inode, the place of an inode.  **E2writeboot** is `main` of the tool, run after
run on one file system, with other files growing in between: lookup, truncation,
creation, contiguous allocation, writing, boot block.  `inode` is on disk, `ip` in
memory; they part when the tool exits without `ext2_iput`.  A call that works on
many blocks (truncate, contiguous allocation) is one step; the tool is a single
process.  It reads and writes blocks directly: that the cache in between makes no
difference is what BioProofs shows, but for block 0 while a buffer is unused.  That
case has an action of its own: the boot block is written last, and `finishCrashes` is
the process that copies it to the null pointer of an unused buffer, possible when
fewer blocks than buffers have passed through the cache.  How many that are besides
the bootstrap's is a choice between two bounds (`FewestOthers`, `MostOthers`).
`crashed` and `hangs` are where the process ends, by that or by an index outside of the
descriptors, or never ends.  `ext2_close` writes superblock and descriptors into every
group (`WriteSupers`); on a sparse_super file system some groups reserve no block for
them, and what lies there is overwritten.  If that is a table, the directory or
an indirect block the model ends in `ruined`: what later runs read there is
left out.  A process that crashed has not flushed its cache; the model has the
writes on disk all the same, and no step after it.  i_blocks and times are left out.  The file systems it
starts from are those fsck would pass (`LayoutsAssumption`): metadata marked and
pointed at by nothing, blocks with one owner and marked, counts that agree with the
bitmaps, a directory that is at most singly indirect.  A block reused for data keeps
its earlier reading as pointers, which only matters after a failed allocation.

**LabelTools** models the three tools that share the first sectors of a disk:
sdisklabel argument by argument, swriteboot write by write, abootconf.  On disk
are the label, the words 60 to 62 of sector 0 that tell the console where the
bootstrap is, their sum (kept as what was summed, so that two sums are equal only if
the sectors are), and the bytes behind, each known by the file and place it was
copied from.  The arguments are chosen as the loop gets to them.  Ints wrap at
`IntSize`.  An interruption may end a run between any two writes.  `start` is the
disk before the last run and `inst` the last complete installation.  The sizes
that the kernel reports are `DiskSectors`, the truncated `GeoSectors`, or none.

**MCBoot**, **MCConfigFile**, **MCBio**, **MCExt2**, **MCIso**, **MCUfs**, **MCHuffman**,
**MCGunzip**, **MCE2writeboot** and **MCLabelTools** give the constants their values.
**BootProofs** (for Boot and ConfigFile), **BioProofs**, **Ext2Proofs**, **IsoProofs**,
**UfsProofs**, **GunzipProofs**, **E2Proofs** and **LabelProofs** hold the theorems.

## Runs

See PROJECT.json for the list and for the mutants: each property of a passing run
is shown to fail for a plausible bug in the code it is about.  Invariants that
belong together are checked as one conjunction of named parts, and there is then a
mutant for nearly every part: ScanRight (ConfigFile), FsConsistent (E2writeboot),
OpensRight (Ext2, Iso, Ufs), ReadsRight (Iso), BuildsRight (Huffman), InflatesRight and
MemoryRight (Gunzip), HandsOver and IInv (Boot), IInv (Bio, LabelTools).  The type
invariant of a module is a part of one of these.

* `boot`: a labelled disk with ext2, ufs and unknown partitions, images of every
  kind, every command, unbounded retries (the state space is finite).
  StartedAsRequested allows what the bss of an earlier image has hit, and nothing else.
* `boot_floppy`: no label, long options and ramdisks.  Checks the inductive
  invariant of the proofs (which has TypeOK and the bound on lost descriptors among its
  parts), what is handed over in every session (HandsOver), and that every pass ends (`Resolves`), under weak fairness of the loader's own steps: the loader is
  the only process, so it always runs.  The user is not fair; he may never type.
  HandsOver has three parts.  A kernel is never started with another ramdisk than
  the one asked for last, and without one only after a failed load or an answer at the
  prompt; the bss cleared is its own, or one left by a failed load if it has none; of
  a ramdisk on ext2 all is read but a tail of less than a block, and that too
  unless the number of its whole blocks is a multiple of the block size.
* `config_file`: all files of up to four characters and some longer ones (`MaxLen`,
  `MaxLong`), in blocks of three with two direct blocks, on ufs and on the others:
  boundaries fall on every position of a line, and files end inside a block, with
  one, and behind the direct blocks.  ScanIsRight is the theorem for every block size.
  Terminates excepts what src/TODO:4 suspects: a search on ufs that has passed the
  end of a file that is not reported, and has not found its line.  Weak fairness of the scan.
* `bio`: two buffers, three blocks including block 0, six accesses: enough to fill
  the cache, recycle a clean and a dirty buffer and read a recycled block back.
* `ext2`: one volume, one direct block, two pointers per block, four slots, requests of
  one or two blocks at every offset, far behind the end of a file too: every range of the block map, every boundary
  between two ranges, holes, and a loop of links that uses up the slots.  Weak
  fairness of the driver's own steps, which run without interruption.  One mount
  (a second one takes the run beyond five minutes), so nothing is shown of a
  remount; CallsReturn speaks of reads whose number of blocks is not negative.
* `iso`: six discs in blocks of four cells: one with Rock Ridge, a link whose record
  spans two blocks, a record that ends with its block, a directory of two sectors,
  a name and a link text that go on in a continuation area; one without Rock Ridge
  and with sizes above the limit; one with a link to itself; one with a
  continuation area that starts inside its sector; one with a directory that fills its
  sector, so that copying back loses cells; one that is not ISO 9660.  Three
  slots, three opens in any order with closes, reads and listings, one failing read:
  enough for a second lookup to run while a descriptor is open and after one that
  lost a slot.  Fairness: a call in progress goes on, since nothing interrupts
  the driver (written out as `[]<>~Busy \/ []<><<Busy>>_vars`).  ListingRight says
  that names come in order and none is missing up to the first cell lost, and that
  where none is lost there are no others.
* `ufs`: blocks of two fragments, two direct blocks, two pointers per indirect block
  and three levels, so that a file of nine blocks uses them all; runs of up to
  three blocks at every offset.  Two opens are needed, because the first one
  after a mount finds the reaches of the indirect levels not yet computed; two reads,
  because the second finds the buffers of the first; one failing read.  Weak fairness
  of the driver's own steps.  The calls are bounded, so deadlock is not checked.
* `huffman`: every list of up to five lengths of up to four bits with a table of three
  bits, which has linked tables, gaps, incomplete and oversubscribed lists; the
  fixed lists of `inflate_fixed` at their real size; lists with four levels
  of tables.  Weak fairness of the loops, which nothing interrupts; the function ends,
  so deadlock is not checked.
* `gunzip`: input buffer and window of eight bytes, blocks of four.  Sound files have
  blocks of all three types, copies that overlap themselves, wrap, and are longer
  than a window, codes longer than the first table, and headers of eight
  consecutive lengths, so that every later part comes to lie at every offset in the
  input buffer; segments start and end inside windows and leave windows out.
  One defective file for each error the code looks for, and files cut short: on ext2,
  on ufs where the end is noticed, and on ufs where it is not.  Two attempts, with one
  failing read: a file is uncompressed on top of what a failed attempt left at any
  of its steps.  Weak fairness of the decompressor, the only process.  AttemptEnds
  leaves out a file cut short on ufs whose end goes unnoticed: nothing stops that
  attempt.  Attempts are bounded, so deadlock is not checked.
* `e2writeboot`: three groups of eight blocks in words of two bits, the last of which
  reserves no blocks for copies (and is full but in four of the layouts); three runs with
  bootstraps from nothing to one block more than fits an inode, twenty-three file
  systems: empty, fragmented, full, without inodes, with old files that
  use up to three levels of indirection.  Three runs are enough for an installation to
  follow a failure that followed an installation.  OthersKept and BootBlockRight
  except the blocks in `Stray`, which ext2_close writes although nothing reserves
  them.  `StopsOnlyAfterFailure` covers what an unchecked failure leads to: a process
  searches a directory for ever only after an allocation failed, and crashes only then
  or at the boot block of a bootstrap too small to fill the cache.  A process that
  crashed or hangs has no next step, so deadlock is not checked.
* `label_tools`: a disk of seven sectors of two bytes, two partitions, ints of five
  bits; three runs of two commands each.  The partitions are apart from the boot
  area, equal to it, larger, beyond the disk and beyond an int; bootstraps are
  padded or not, with and without a kernel; one does not fit.  Three runs are
  enough to label, install and change either, and to repeat after an interruption.
  The tools stop when the runs are used up, so deadlock is not checked.
* `label_overlaps`: a partition equal to the boot area is overwritten without a
  complaint, against a comment and a document.  It is the one run that expects a
  violation, and the finding in PROJECT.json quotes both.

### Where properties make an exception

The code departs from its documents in these places too.  There is no run of its own for
each; the models do what the code does, the instances above reach every one, and the
property named says exactly what may go wrong and no more.  Without its exception TLC
finds the property violated.

* A kernel without a bss that is loaded after a failed load is zeroed where the
  failed image had its bss: "clear bss" (disk.c:784-787) looks at `bss_start` and
  `bss_size` whoever set them (aboot.c:149-159).  StartedAsRequested excepts what
  `BssHits` says is hit, HandsOver (OwnBssOrStale) kernels without a bss.
* A ramdisk that was read before a load failed is handed over with a later kernel for which
  none is named (aboot.c:269-272; `load` returns at disk.c:790 and keeps it).  README:31
  says an option or a command asks for one.  InitrdIsCurrent excepts sessions with a failure.
* Bytes that an earlier input has left behind the NUL of `kernel_args` pass for an
  `initrd=` option (disk.c:726-732), and the ramdisk asked for is lost.  HandsOver
  (RamdiskAskedOrLost) excepts sessions in which the user has been at the prompt.
* The tail of a ramdisk is dropped when the number of its whole blocks is a multiple of the
  block size (disk.c:255); README:30 offers arbitrary files.  HandsOver (InitrdAllButTail).
* A search of aboot.conf on ufs may never end when there is no such line, as src/TODO:4
  suspects (disk.c:485, ufs.c:216-253).  Terminates (RunsOn).
* A file cut short on ufs may be inflated for ever (misc.c:228).  AttemptEnds (NoEof).
* A segment offset far behind the end of a kernel on ext2 makes `nblks` negative, and the
  read runs on through memory (ext2.c:357-361).  CallsReturn of Ext2.
* On a sparse_super file system every run of e2writeboot overwrites the first blocks of
  groups without copies (e2lib.c:163-171), other files' or the bootstrap just installed;
  README:49 says sparse superblocks are "now (hopefully) supported".  OthersKept and
  BootBlockRight (`Stray`).
* A bootstrap too small to bring the cache's 32 buffers into use makes the run crash where
  the boot block is written (bio.c:133), which doc/man/e2writeboot.8:15 says is updated.
  StopsOnlyAfterFailure.
* "listing directories on isofs works" (README:21) but in full sectors, where too little of
  `big_data_block` is copied back (isolib.c:1110), and on discs without Rock Ridge, where
  nothing is listed: the length of a record's own name is the 0 that
  `get_rock_ridge_filename` returned (isolib.c:1062-1069).  ListingRight (`Lossy`, `Listed`).

Read, in the models as the code has it, and not given a run: `bss_size` is never
reset, so that after a failed load every image with a bss is refused for "Multiple BSS
segments" (aboot.c:150; excluded in GoodFileLoads); the line after an empty
line of aboot.conf is not looked at (disk.c:457); `cached_iblkno` survives a remount
that replaces the buffer it speaks of (ext2.c:232), and a failed read of an
indirect block is taken for a hole (ext2.c:238).  isolib: `get_rock_ridge_filename` adds
`cont_offset` to a buffer that starts there already, so that a name continued inside a
sector is not found (isolib.c:1256); `iso_follow_link` looks up a relative link from the
directory of the name that was opened, also when another link led to it (638-650), so
that a chain through a second directory ends elsewhere (ChainSound excludes it); an
extent that begins inside a block of 1024 bytes, as logical blocks of 512 allow, is
read from that block's start (118-126; RecordsSound excludes it); a record whose second half cannot be read is
reported as found with inode number 0 (453); a missing directory on the way loses a
slot (574).  ufs: `read_inode` returns 1 for an error and the root's is tested for
< 0 (ufs.c:361); the text of a link is measured through a null pointer (389); too many
links return 5003, which looks like a descriptor (396); the reaches of the indirect
levels are computed at the end of the first open, too late for its own directories
(441); a search behind the fragments of a directory may stay at a length of 0 (285); a
block number of -1 is read as an address (229-244).  gunzip: `p >= v + n` counts symbols
where `v` has values, so that unused codes of a list with gaps get what malloc left
(inflate.c:283); a list of lengths that are all 0 returns 0 where the comment says 2
(160 and 118); `flush_window` takes a second segment in a window from the window's
beginning, and copies a segment's distance from it too much (misc.c:274 and 292).

Read and not given a run either: after an aboot.conf line without arguments the flag that
selected it is passed to the kernel (disk.c:711); `0/-` is a raw boot although
README:138 explains it as a file on partition 0 (disk.c:750-768); a numbered line
without a colon is not skipped (disk.c:465) and the `-` mark makes the search
succeed with an empty line (disk.c:455); the results of `write` in bio.c are
ignored;
when
ext2_fill_contiguous fails, e2writeboot exits without ext2_iput and the next run
frees the blocks of the old file a second time (e2writeboot.c:200); `size n` as the
last command crashes sdisklabel (sdisklabel.c:198), a forced partition behind a gap
is not counted (line 146), and BLKGETSIZE without HDIO_GETGEO is not used although
the message says so (line 110); byte offsets are computed in int and overflow beyond
2 GB (bio.c:57, e2writeboot.c:221); a group whose bit 0 is free is skipped
(e2lib.c:344); the depth of an extent tree is not looked at (ext2.c:309); with
garbage for bootsect swriteboot searches an uninitialized buffer (swriteboot.c:32).

## Proofs

BootProofs proves `IInv` inductive and derives from it, for every disk, every set
of flags and commands and every pattern of read errors, the type invariant and
the safety invariants TypeOK, FsMatchesPartition, FdsBounded, FailedLoadAsksUser,
StartedAsRequested and InitrdIsCurrent.  The strengthening is needed because those
invariants do not speak of the locals that carry a choice from the prompt to the
load: LocalsSet says they are set, AskInv that the flags after a failure are the
ones that lead to the prompt, LoadedInv that from the end of a load on memory,
headers and request agree, FdInv where in read_kernel a descriptor may be lost.
Two more theorems cover what a started kernel is given.  ArgumentsAreFresh
(ArgsAreFresh) and HandsOverRight (HandsOver) rest on `HandInv`, which adds to IInv:
FreshInv, after a failure the arguments of the choice under way are at every step
those that the line or the command gives; AskedInv, in every session the words in hand
are those of the choice under way, but for a flag the kernel is given where a line has
no blank; FlagsInv, until anyone is asked the buffer
holds SRM's flags and not a byte more; BssInv, until a load fails bss_start belongs to
the kernel being read; OwnedInv, afterwards a range left over only goes with a kernel that
has no bss, since `is_loadable_elf` refuses the others; BlocksInv, the number of blocks
read of a ramdisk is the one its size gives; StaleInv, a ramdisk in memory that is not
started with is one of a failed load; LostInv, `initrd_file` is the ramdisk asked for last
or no file's name.  InitrdIsCurrent (RamdiskIsCurrent) follows from StaleInv, and
StartedAsRequested from LoadedInv and OwnedInv.  The lengths
of the words are positive (LengthAssumption).

BootProofs also proves ScanRight of ConfigFile for every file, block size and number of
direct blocks, on ufs and elsewhere.  `ScanInv` adds
to the types: Where, the blocks read are adjacent and a short one is the last; Copying,
the characters copied so far are the line's from its colon on; Searching, no line
before the one in hand defines the preset.  The property is about tidy files, in which
the defects listed under Runs do not occur; that a string returned is a whole line's
needs no such condition.

BioProofs proves the invariant of the cache (one buffer per block; block 0 is
cached only when no buffer is unused) and that the cache implements BlockStore,
for every device, number of buffers and sequence of calls, if `write` does not
fail.  The invariant is needed for the mapping to be well defined: a block's content is
the data of *the* buffer that holds it.  RecentBlocksCached (KeepsMostRecent) says
that the cache keeps the blocks used most recently, as many as there are buffers.
Its invariant RecentInv relates the access counts to the order of uses; the core
is VictimIsOld, a pigeonhole argument: if the buffer with the smallest count held one
of the last blocks used, there would be more blocks than buffers.

Ext2Proofs proves for every number of slots and every volume that slots are
accounted for (SlotsAccounted): besides the root's, the open descriptors' and the
one in use by a lookup there are only those lost to symbolic links.  The invariant
is inductive with its types and the fact that a lookup runs on a mounted volume;
the argument is that `ext2_iput` gives back exactly the slot in hand (ReleasedSlots)
and that a read touches no slot (ReadFrame).  The proof uses that the root is a
directory, hence never lost as a link.  FirstMountReadsInvariance proves what is read:
`ReadInv` says that until a read fails each cache holds the block whose number it
keeps, and that the run being collected is contiguous and the file's.  A hole is
a run of its own because no file has block 1, which would seem to follow block 0
(GeometryAssumption).  OpensRightInvariance
proves what a name denotes: `NamesInv` says that the inode in hand is reached
from the start of the lookup by the components consumed so far, and that after k links
the rest of the path is the k-th element of `Follow`.  Every link costs a slot, so
Follow needs no more than MAX_OPEN_FILES elements.

IsoProofs proves all five invariants of Iso, for every set of discs, number of slots,
sequence of calls and pattern of read errors.  Two of them need nothing of the disc:
an open descriptor keeps its inode (DescriptorsKept), and slots are lost only through a
missing directory on the way or a link that cannot be read (NoOtherLoss).  Their
invariant is `IInv`: types of the slots (SlotTypes), which locals hold a slot where
(InHand), that an open slot holds its inode (Opened), and that every slot in use is an
open descriptor's, a local's, or lost (Owned).  InHand is what the second `iso_iput` of
the root's slot in `iso_follow_link` needs: the slot the found inode is in cannot be the
root's, because slots are given out first-fit and the root's was taken before the
directory's.

The other three are about what is on the disc, and hold for the discs that `Sound`
describes: extents begin with a block, a directory's records follow one another within
its sectors and the rest is zero, its first record is its own, other files hold nothing
that looks like a record, each record matches the names its author gave it and no others
that are asked for, and a link's record is a link with the author's text.  The last two
are stated with the walks of IsoRock: what name or text a record's entries spell is
data, and TLC evaluates it for the discs of the run.  What is
proved from there is all the driver does with records: where they lie, how they span
blocks, which one is taken, which slot it goes to, and when a read fails.  `Lawful`
says that a slot in use holds the record at its inode number, a number on the disc, and
that the block at hand is the one the scan is in; a read covers what it should
(ReadsTheWholeFile) because sizes come from records and change only with `cruft`,
which a new mount resets.  `Ways` is what OpensTheNamedFile adds: unless a part of a
record was lost, what is left of the name leads from the directory in hand to a file
on the chain of links of the name asked for (Way); the records the scan has passed do
not have the part looked for (Search); a link about to be followed is on the chain
(Following); an open file is its end (Opening); of three free slots the lookup takes
at most two (Roomy).  `Listing` carries ListsTheDirectory: the names so far are those of the visible
records before the place, and the buffer from its offset on holds the directory from
there, up to the end of the first block, up to a zero in the same sector, or up to
where copying back stopped (Buffered); the alternative is that such a loss lies behind,
and then the names up to it stay as they are (NamesKept).  That the two
walks over a link's record agree on its length is not assumed: WalksAgree proves it for
all records whose entries are well formed, from CompAgrees (a component) over SlAgrees
(an entry) and SegAgrees (an area) to all continuations.

UfsProofs proves ReadsRight (ReadsRightInvariance) and OpensRight (OpensRightInvariance),
for every sound volume, size of blocks, fragments and indirect blocks, sequence of
calls and pattern of read errors.  For reads the invariant adds to the types: CacheInv, a
level's buffer is empty or holds the block whose number is kept with it; MapInv, on its way
down block_map is at the root of a tree in which the rest of the block number leads
to the block's address; RunInv, each fragment before the block in hand is in the caller's
buffer or will be by the transfer of the run under way; SizedInv, the reaches of the
levels are known when a file is read.  A hole is a run of its own because the block
that would seem to follow it lies in the first block of the volume, where no file has
data.  For opens it adds HistInv (what the histories record), ScanInv (which block of the
directory is being read), BufInv (the buffer holds entries of that directory and of no
other), PathInv (the inode in hand is the one the components gone through name) and
FindInv (the entry looked for is still ahead, and the search stands on an entry).  BufInv
is what keeps an open right when a read fails: what is left in the buffer from the block before
is the same directory's, so a name found in it is one of its names.

GunzipProofs proves MemoryRight (KernelIsLoaded) and InflatesRight (DecodesWhatIsWritten)
for every set of such files, every size of window and input buffer, every number of
attempts and pattern of failing reads, also on bits that are out of step.  `Types` says
at every place of the decoder which block and code it is at, that the window is not full
between two codes, and that the code lengths read are those of the codes read;
LengthsRight, a part of InflatesRight, follows (CodeLengthsAreThoseSent).  `FlushInv` is
about flush_window.  Between two windows
bytes_out is a multiple of the window, file_offset is bytes_out unless no segment is
left, the segments before `chunk` end at or before file_offset and the next one does not
(SegmentsInv); while a window is copied, what is left of it begins at file_offset and is
the end of what the crc was computed from (ChunksInv); and of all segments the bytes
before file_offset are in memory (Loaded), if no segment ends inside a window another
one follows in.  The last is what fails without that condition: the code takes both
from the window's beginning.  A file whose trailer agrees then has all its segments before
file_offset (LoadedAtOk).  What the code writes too much is the segment's distance
from the beginning of its window, never more (CopyKeeps).

`DecoderInv` is what InflatesRight adds.  For the limits of the buffers: the tables in use
have lengths that fit the bits looked up and codes for what the block uses (TablesInv), so
what is asked of the bit buffer leaves at most a byte of it, but for a code without
meaning (ReadsInv); hence it never holds more than 23 bits, and less than two bytes
where they are given back (BitsInv), when at least one byte has been taken from the
input buffer (InputInv).  The bits are out of step only where the decoder is lost or
done (LostInv).  For the output, PointInv relates the circular window to the expansion,
which is a recursive function over blocks and codes: as far as it is filled the window holds
the end of what the codes read so far put out, but for what of the copy under way is
left, and beyond that what is one window back.  CopyInv keeps the source of that copy,
modulo the window, as far back as the code says, through the flushes that interrupt
it.  The step is one lemma, PutCopied: bytes taken from the window, those just
copied among them, are those of the expansion, whether memcpy or the loop copies them.
OutputInv is the result at each flush: crc was computed from the beginning of file.out.

LabelProofs proves the invariant `IInv` of LabelTools, and with it SumRight,
FailureLeavesDisk, UnforcedKept and PartsListed, for every sector size, disk,
label, bootstrap, kernel and sequence of runs.  What it adds to these is which tool
is where (ToolMatches), that sdisklabel has changed nothing before its last write
(LabelPending), and that swriteboot past its check has no overlap (Checked).  The
core is three lemmas: OverlapFound, does_overlap finds all overlaps but equality;
LandsInArea, a byte copied lands in the sectors that were checked although
the kernel follows the bootstrap without padding; AreaApart, the two together with
the conversion to int.  BootStaysWhole and BootPartitionKept (BootWhole,
BootPartKept) rest on `BootInv`: what has been copied so far is in its place, the
words and the partition were read before they were overwritten, and what runs between
two installations (a label, a new partition by abootconf, a refused
swriteboot) leaves the installed bytes alone.

E2Proofs proves all four invariants of E2writeboot, for every file system that fsck
would pass, every sequence of runs, of bootstraps and of growing files, and every
allocation that fails: FsConsistent (StaysConsistent), OthersKept (OthersStayWhole),
BootBlockRight (BootBlockDescribes) and StopsOnlyAfterFailure (StopsAfterFailure), the
file systems among them whose groups reserve no blocks for what ext2_close writes: there
OthersKept and BootBlockRight except the blocks of `Stray`.
The invariant adds to them what survives the tool's unchecked failures.  MetaSafe: the
metadata is marked in the bitmaps and no inode points at it, whatever failed.
Counts: the superblock's count of free blocks is never smaller than the number that are free.
Laid: a bootstrap that was written is at bs_start and its inode finds it there, block
after block.  Healthy: until an allocation fails the directory is whole and the entry
is linked to a live inode.  Shapes bounds the trees of blocks.  NewInodeAtHome, that the tool
looks for a new inode where the bitmap says, uses a pigeonhole argument over the free
inodes of the groups.
The bulk of the proof are lemmas about the trees: what becomes of the blocks behind an
inode when a pointer is put, an indirect block is hung in, a file grows
by a block, or a tree is freed.

Inductions over numbers in these proofs (a path of any length, a directory of any
number of blocks) go through the least counterexample of a set of naturals, since
the library's induction theorems cannot be instantiated here.

Only model-checked: liveness (Resolves, Terminates, CallsReturn, Ends, AttemptEnds), which is
out of the prover's reach; what `huft_build` computes (BuildsRight), an induction over its
loops; and GoodFileLoads, that no attempt on a sound file fails without cause: it needs
the place of every bit of the file, the ones read ahead across a refill included.

## Limits

What a property or an assumption leaves out, and where the code does something else there:

* Numbers.  Ufs, Iso, Ext2 and E2writeboot compute addresses with unbounded integers; the
  code uses int and overflows beyond 2 GB (ufs.c:97, 189, 242; bio.c:57; e2writeboot.c:221).
  LabelTools has the wrap, but UnforcedKept speaks of partitions whose end fits (`Fits`,
  library.c:71-73).
* Remounts of ext2.  The instance has one mount, and FirstMountReads is about the first:
  stale indirect buffers after a second are in the model and under no property.
* Reads after a failed read of the same file (ext2.c:238, ufs.c:184).  The block's number is
  kept and the buffer is not; FirstMountReads and ReadsRight stop at the failure.
* Searches for a missing name on ufs that step into bytes behind a directory (ufs.c:285):
  CallsReturn excludes them (`seen.past`).
* Two segments of a kernel in one window of gunzip (misc.c:274): excluded by `EndsApart`.
* A /linuxboot that already has the last inode of a group (e2lib.c:215): excluded by
  LayoutsAssumption, since `ext2_iget` would find another inode.
* Partitions behind a gap, made with force (sdisklabel.c:146), and the sum written by a run
  that fails later (line 199): excluded from PartsListed and FailureLeavesDisk.
* Continuation areas on ISO discs are found by name.  The code multiplies their extent by
  2048 whatever the size of a logical block (isolib.c:1161, 1254), which is another
  place when that size is not 2048.  Circular chains of areas are left out.
* After `crashed`, `ruined` or `runaway` a model has no next step: what memory or disk hold
  then, and what a later run makes of it, is not modelled.

## Plan

Done so far: the boot loop, the aboot.conf parser, the buffer cache, the ext2, ISO
9660 and ufs drivers, gunzip, e2lib with e2writeboot, the label tools and abootconf.
Left, in this order:

1. An abstract driver (mount, open, read, close) that Ext2, Iso and Ufs implement and
   that Boot uses, and Boot's one-step decompression refined by Gunzip.
2. check_memory, malloc with its longjmp, cons_read's alignment and splitting; fstat
   and readdir of ext2.

Not modelled: head.S, the page tables and the jump to the kernel (straight-line
code that hands over), printf and string functions except strcpy's effect on the
argument buffer, network boot, the image tools and srmbootfat (one pass over a
file, no state that is read back), memory probing and allocation, the console's I/O,
the directory layout and readdir of ext2, names longer than a record in isolib.
