-------------------------------- MODULE Bio ---------------------------------
(* The buffer cache of the ext2 tools, tools/bio.c: NBUFS buffers, written  *)
(* back when they are recycled or flushed, recycled in least recently used  *)
(* order.  A call is one step: the tools are single-threaded.               *)
EXTENDS Integers, Sequences

CONSTANTS
  Blocks,       \* block numbers of the device; block 0 is the boot block
  Data,         \* contents of a block
  NBUFS,
  NoData,       \* a null data pointer
  WriteErrors,  \* whether write() can fail
  MaxAccess     \* bound on bio_counter

ASSUME BlocksAssumption == Blocks \subseteq Nat
ASSUME NBUFSAssumption == NBUFS \in Nat \ {0}
ASSUME NoDataAssumption == NoData \notin Data
ASSUME WriteErrorsAssumption == WriteErrors \in BOOLEAN
ASSUME MaxAccessAssumption == MaxAccess \in Nat

VARIABLES
  buflist,      \* the cache
  bio_counter,
  disk,         \* the device, external
  crashed,      \* the process has dereferenced a null data pointer
  call,         \* history: the last call, with its block and data
  recent        \* history: blocks used since binit, latest first

history == << call, recent >>
vars == << buflist, bio_counter, disk, crashed, call, recent >>

Buf == 0 .. NBUFS - 1

Empty == [blkno |-> 0, last_access |-> 0, dirty |-> FALSE, data |-> NoData]

Init ==
  /\ buflist = [i \in Buf |-> Empty]
  /\ bio_counter = 0
  /\ disk \in [Blocks -> Data]
  /\ crashed = FALSE
  /\ call = << >> /\ recent = << >>

(* Block b moves to the front. *)
Used(b) ==
  \/ \E k \in DOMAIN recent :
       /\ recent[k] = b
       /\ recent' = << b >> \o SubSeq(recent, 1, k - 1) \o SubSeq(recent, k + 1, Len(recent))
  \/ /\ \A k \in DOMAIN recent : recent[k] # b
     /\ recent' = << b >> \o recent

(* The first buffer that has the block number; an empty buffer has 0. *)
IsHit(i, b) ==
  /\ buflist[i].blkno = b
  /\ \A j \in Buf : buflist[j].blkno = b => i <= j

Misses(b) == \A i \in Buf : buflist[i].blkno # b

(* Mutant: ties and order are ignored. *)
IsAnyBuf(v) == v \in Buf

(* The first of the least recently used buffers. *)
IsVictim(v) ==
  \A j \in Buf :
    /\ buflist[v].last_access <= buflist[j].last_access
    /\ buflist[v].last_access = buflist[j].last_access => v <= j

(* write(): the result is not looked at, and an error may leave anything.   *)
WriteOut(b, d) ==
  \/ disk' = [disk EXCEPT ![b] = d]
  \/ WriteErrors /\ \E e \in Data : disk' = [disk EXCEPT ![b] = e]

(* Mutant: a dirty victim is recycled without being written. *)
RecycleDropped(v) == UNCHANGED disk

(* The victim goes to the device if it is dirty. *)
Recycle(v) ==
  IF buflist[v].dirty
  THEN WriteOut(buflist[v].blkno, buflist[v].data)
  ELSE UNCHANGED disk

Fill(i, b, d, dirt) ==
  /\ buflist' = [buflist EXCEPT ![i] =
       [blkno |-> b, last_access |-> bio_counter + 1, dirty |-> dirt, data |-> d]]
  /\ bio_counter' = bio_counter + 1

(* memcpy from or to a buffer without data. *)
NullData(b) ==
  /\ ~crashed
  /\ \E i \in Buf : IsHit(i, b) /\ buflist[i].data = NoData
  /\ crashed' = TRUE
  /\ UNCHANGED << buflist, bio_counter, disk, history >>

breadHit(b) ==
  \E i \in Buf :
    /\ IsHit(i, b) /\ buflist[i].data # NoData
    /\ Fill(i, b, buflist[i].data, buflist[i].dirty)
    /\ call' = << "read", b, buflist[i].data >>
    /\ UNCHANGED disk

(* On an error the buffer keeps whatever it held, or part of the block. *)
breadMiss(b) ==
  /\ Misses(b)
  /\ \E v \in Buf :
       /\ IsVictim(v) /\ Recycle(v)
       /\ \/ Fill(v, b, disk[b], FALSE) /\ call' = << "read", b, disk[b] >>
          \/ \E d \in Data : Fill(v, b, d, FALSE) /\ call' = << "read error", b >>

bread(b) ==
  /\ ~crashed /\ bio_counter < MaxAccess
  /\ breadHit(b) \/ breadMiss(b)
  /\ Used(b) /\ UNCHANGED crashed

(* Mutant: a block written on a hit is not marked dirty. *)
bwriteHitClean(b, d) ==
  \E i \in Buf :
    /\ IsHit(i, b) /\ buflist[i].data # NoData
    /\ Fill(i, b, d, buflist[i].dirty)
    /\ UNCHANGED disk

bwriteHit(b, d) ==
  \E i \in Buf :
    /\ IsHit(i, b) /\ buflist[i].data # NoData
    /\ Fill(i, b, d, TRUE)
    /\ UNCHANGED disk

bwriteMiss(b, d) ==
  /\ Misses(b)
  /\ \E v \in Buf : IsVictim(v) /\ Recycle(v) /\ Fill(v, b, d, TRUE)

bwrite(b, d) ==
  /\ ~crashed /\ bio_counter < MaxAccess
  /\ bwriteHit(b, d) \/ bwriteMiss(b, d)
  /\ Used(b) /\ call' = << "write", b, d >> /\ UNCHANGED crashed

Dirty == {i \in Buf : buflist[i].dirty}

Clean == [i \in Buf |-> [buflist[i] EXCEPT !.dirty = FALSE]]

(* The device with the dirty buffers written to it. *)
Updated ==
  [b \in Blocks |-> IF \E i \in Dirty : buflist[i].blkno = b
                    THEN buflist[CHOOSE i \in Dirty : buflist[i].blkno = b].data
                    ELSE disk[b]]

bflush ==
  /\ ~crashed
  /\ \/ disk' = Updated
     \/ /\ WriteErrors
        /\ disk' \in [Blocks -> Data]
        /\ \A b \in Blocks : (\A i \in Dirty : buflist[i].blkno # b) => disk'[b] = disk[b]
  /\ buflist' = Clean
  /\ call' = << "flush" >>
  /\ UNCHANGED << bio_counter, crashed, recent >>

(* Mutant: the block number of a freed buffer is kept. *)
binitKeepsNumbers ==
  /\ ~crashed
  /\ buflist' = [i \in Buf |-> [Empty EXCEPT !.blkno = buflist[i].blkno]]
  /\ recent' = << >> /\ call' = << "reset" >>
  /\ UNCHANGED << bio_counter, disk, crashed >>

(* "Blow away anything that may have been previously cached..." *)
binit ==
  /\ ~crashed
  /\ buflist' = [i \in Buf |-> Empty]
  /\ recent' = << >> /\ call' = << "reset" >>
  /\ UNCHANGED << bio_counter, disk, crashed >>

Crashed == crashed /\ UNCHANGED vars

Next ==
  \/ \E b \in Blocks :
       bread(b) \/ NullData(b) \/ \E d \in Data : bwrite(b, d)
  \/ bflush \/ binit \/ Crashed

Spec == Init /\ [][Next]_vars
-----------------------------------------------------------------------------
(* Correctness *)

TypeOK ==
  /\ buflist \in [Buf -> [blkno : Blocks \union {0}, last_access : 0 .. MaxAccess,
                          dirty : BOOLEAN, data : Data \union {NoData}]]
  /\ bio_counter \in 0 .. MaxAccess
  /\ disk \in [Blocks -> Data]
  /\ crashed \in BOOLEAN

InUse(i) == buflist[i].data # NoData

(* Only empty buffers lack data, and they look like block 0, unused. *)
EmptyIsZero ==
  \A i \in Buf : ~InUse(i) <=> buflist[i].last_access = 0

ZeroWhenEmpty ==
  \A i \in Buf : ~InUse(i) => buflist[i].blkno = 0 /\ ~buflist[i].dirty

(* Two buffers never hold the same block, so a hit is the only copy and    *)
(* the order in which bflush writes does not matter.                        *)
OneBufferPerBlock ==
  \A i, j \in Buf : InUse(i) /\ InUse(j) /\ buflist[i].blkno = buflist[j].blkno
                      => i = j

(* A block in a buffer is a block of the device. *)
OnDevice == \A i \in Buf : InUse(i) => buflist[i].blkno \in Blocks

(* No access count is ahead of the counter. *)
CountsBehind == \A i \in Buf : buflist[i].last_access <= bio_counter

(* An empty buffer and block 0 are never confused once block 0 is cached.   *)
ZeroMeansFull ==
  \A i \in Buf : InUse(i) /\ buflist[i].blkno = 0 => \A j \in Buf : InUse(j)

IInv ==
  /\ TypeOK /\ EmptyIsZero /\ ZeroWhenEmpty /\ OneBufferPerBlock /\ OnDevice
  /\ CountsBehind /\ ZeroMeansFull

(* The cache keeps the NBUFS blocks used last. *)
KeepsMostRecent ==
  \A k \in 1 .. Len(recent) :
    k <= NBUFS => \E i \in Buf : InUse(i) /\ buflist[i].blkno = recent[k]

(* What a read returns, where it comes from, and what is still to be        *)
(* written: the store that bio.c implements.                                *)
Holder(b) == {i \in Buf : InUse(i) /\ buflist[i].blkno = b}

Content ==
  [b \in Blocks |-> IF Holder(b) = {} THEN disk[b]
                    ELSE buflist[CHOOSE i \in Holder(b) : TRUE].data]

Pending == {buflist[i].blkno : i \in Dirty}

Store == INSTANCE BlockStore WITH content <- Content, stable <- disk,
                                  pending <- Pending

(* The cache implements the store: reads see the latest write, only blocks  *)
(* the tools have written reach the device, and a flush leaves none out.    *)
ImplementsStore == Store!Spec
=============================================================================
