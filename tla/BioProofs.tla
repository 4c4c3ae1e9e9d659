----------------------------- MODULE BioProofs ------------------------------
(* Proofs about the buffer cache of tools/bio.c, for any device, any number *)
(* of buffers and any sequence of calls: the inductive invariant, and that  *)
(* the cache implements BlockStore when write() does not fail.              *)
EXTENDS Bio, SequenceTheorems, FiniteSetTheorems, TLAPS

(* A call that puts block b into buffer i, either because it is there or    *)
(* because no buffer has it and i is the least recently used one.           *)
Takes(i, b) ==
  \/ IsHit(i, b) /\ InUse(i)
  \/ Misses(b) /\ IsVictim(i)

(* Filling a buffer keeps the invariant: bread and bwrite, hit or miss.     *)
LEMMA FillKeeps ==
  ASSUME IInv, NEW i \in Buf, NEW b \in Blocks, NEW d \in Data,
         NEW dirt \in BOOLEAN, Takes(i, b), Fill(i, b, d, dirt),
         bio_counter < MaxAccess, disk' \in [Blocks -> Data],
         crashed' = crashed
  PROVE  IInv'
<1> USE BlocksAssumption, NBUFSAssumption, NoDataAssumption, MaxAccessAssumption
<1>b. Buf \subseteq Int BY DEF Buf
<1>t. TypeOK BY DEF IInv
<1>1. /\ buflist' = [buflist EXCEPT ![i] = [blkno |-> b, last_access |-> bio_counter + 1,
                                            dirty |-> dirt, data |-> d]]
      /\ bio_counter' = bio_counter + 1
  BY DEF Fill
<1>2. TypeOK' BY <1>1, <1>t DEF TypeOK
<1>3. /\ buflist'[i] = [blkno |-> b, last_access |-> bio_counter + 1,
                        dirty |-> dirt, data |-> d]
      /\ \A j \in Buf : j # i => buflist'[j] = buflist[j]
  BY <1>1, <1>t DEF TypeOK
<1>4. d # NoData OBVIOUS
<1>5. EmptyIsZero' /\ ZeroWhenEmpty' /\ OnDevice'
  BY <1>3, <1>4, <1>t DEF IInv, TypeOK, EmptyIsZero, ZeroWhenEmpty, OnDevice, InUse
<1>6. OneBufferPerBlock'
  BY <1>3, <1>4 DEF IInv, OneBufferPerBlock, InUse, Takes, IsHit, Misses
<1>7. CountsBehind'
  BY <1>1, <1>3, <1>t DEF IInv, TypeOK, CountsBehind
<1>8. ZeroMeansFull'
  <2>1. CASE b = 0 /\ Misses(b)
    BY <2>1, <1>3, <1>4 DEF IInv, ZeroMeansFull, ZeroWhenEmpty, Empty, InUse, Misses
  <2>2. CASE b = 0 /\ IsHit(i, b) /\ InUse(i)
    BY <2>2, <1>3, <1>4 DEF IInv, ZeroMeansFull, InUse, IsHit
  <2>3. CASE b # 0
    BY <2>3, <1>3, <1>4 DEF IInv, ZeroMeansFull, InUse
  <2> QED BY <2>1, <2>2, <2>3 DEF Takes
<1> QED BY <1>2, <1>5, <1>6, <1>7, <1>8 DEF IInv

(* A recycled buffer leaves a device of the right type. *)
LEMMA RecycleType ==
  ASSUME IInv, NEW v \in Buf, Recycle(v)
  PROVE  disk' \in [Blocks -> Data]
<1>1. TypeOK BY DEF IInv
<1>2. buflist[v].dirty => buflist[v].data \in Data
  BY <1>1 DEF IInv, TypeOK, ZeroWhenEmpty, InUse, Empty
<1> QED BY <1>1, <1>2 DEF Recycle, WriteOut, TypeOK

(* So does a flush. *)
LEMMA UpdatedType ==
  ASSUME IInv
  PROVE  Updated \in [Blocks -> Data]
<1>1. \A i \in Dirty : buflist[i].data \in Data
  BY DEF IInv, TypeOK, ZeroWhenEmpty, InUse, Empty, Dirty
<1>2. ASSUME NEW b \in Blocks
      PROVE  (IF \E i \in Dirty : buflist[i].blkno = b
              THEN buflist[CHOOSE i \in Dirty : buflist[i].blkno = b].data
              ELSE disk[b]) \in Data
  <2>1. CASE \E i \in Dirty : buflist[i].blkno = b
    <3>1. (CHOOSE i \in Dirty : buflist[i].blkno = b) \in Dirty BY <2>1
    <3> QED BY <2>1, <3>1, <1>1
  <2>2. CASE ~ \E i \in Dirty : buflist[i].blkno = b
    BY <2>2 DEF IInv, TypeOK
  <2> QED BY <2>1, <2>2
<1> QED BY <1>2 DEF Updated

(* A cache of empty buffers satisfies the invariant, whatever the counter:  *)
(* the initial state, and the state after binit.                            *)
EmptyCache ==
  /\ buflist = [i \in Buf |-> Empty] /\ bio_counter \in 0 .. MaxAccess
  /\ disk \in [Blocks -> Data] /\ crashed \in BOOLEAN

LEMMA AllEmpty == EmptyCache => IInv
<1> SUFFICES ASSUME EmptyCache PROVE IInv OBVIOUS
<1> USE DEF EmptyCache
<1>1. Empty \in [blkno : Blocks \union {0}, last_access : 0 .. MaxAccess,
                 dirty : BOOLEAN, data : Data \union {NoData}]
  BY MaxAccessAssumption DEF Empty
<1>2. TypeOK BY <1>1 DEF TypeOK
<1>3. \A i \in Buf : /\ buflist[i] = Empty
                     /\ buflist[i].blkno = 0 /\ buflist[i].last_access = 0
                     /\ buflist[i].data = NoData /\ buflist[i].dirty = FALSE
  BY DEF Empty
<1>4. \A i \in Buf : ~InUse(i) BY <1>3 DEF InUse
<1>5. EmptyIsZero BY <1>3, <1>4 DEF EmptyIsZero
<1>6. ZeroWhenEmpty BY <1>3 DEF ZeroWhenEmpty
<1>7. OneBufferPerBlock /\ OnDevice /\ ZeroMeansFull
  BY <1>4 DEF OneBufferPerBlock, OnDevice, ZeroMeansFull
<1>8. CountsBehind BY <1>3 DEF CountsBehind
<1> QED BY <1>2, <1>5, <1>6, <1>7, <1>8 DEF IInv

LEMMA InitIInv == Init => IInv
<1> SUFFICES ASSUME Init PROVE EmptyCache BY AllEmpty
<1>1. bio_counter \in 0 .. MaxAccess BY MaxAccessAssumption DEF Init
<1>2. crashed \in BOOLEAN BY Zenon DEF Init
<1> QED BY <1>1, <1>2 DEF Init, EmptyCache

LEMMA NextIInv == IInv /\ [Next]_vars => IInv'
<1> SUFFICES ASSUME IInv, [Next]_vars PROVE IInv' OBVIOUS
<1> USE NoDataAssumption
<1>t. TypeOK BY DEF IInv
<1>1. ASSUME NEW b \in Blocks, bread(b) PROVE IInv'
  <2>1. bio_counter < MaxAccess /\ crashed' = crashed BY <1>1 DEF bread
  <2>2. CASE breadHit(b)
    <3>1. PICK i \in Buf : /\ IsHit(i, b) /\ buflist[i].data # NoData
                           /\ Fill(i, b, buflist[i].data, buflist[i].dirty)
                           /\ UNCHANGED disk
      BY <2>2 DEF breadHit
    <3>2. buflist[i].data \in Data /\ buflist[i].dirty \in BOOLEAN
      BY <3>1, <1>t DEF TypeOK
    <3>3. disk' \in [Blocks -> Data] BY <3>1, <1>t DEF TypeOK
    <3>4. Takes(i, b) BY <3>1 DEF Takes, InUse
    <3> QED BY <2>1, <3>1, <3>2, <3>3, <3>4, FillKeeps
  <2>3. CASE breadMiss(b)
    <3>1. PICK v \in Buf : /\ Misses(b) /\ IsVictim(v) /\ Recycle(v)
                           /\ \E d \in Data : Fill(v, b, d, FALSE)
      BY <2>3, <1>t DEF breadMiss, TypeOK
    <3>2. disk' \in [Blocks -> Data] BY <3>1, RecycleType
    <3>3. Takes(v, b) BY <3>1 DEF Takes
    <3> QED BY <2>1, <3>1, <3>2, <3>3, FillKeeps
  <2> QED BY <1>1, <2>2, <2>3 DEF bread
<1>2. ASSUME NEW b \in Blocks, NEW d \in Data, bwrite(b, d) PROVE IInv'
  <2>1. bio_counter < MaxAccess /\ crashed' = crashed BY <1>2 DEF bwrite
  <2>2. CASE bwriteHit(b, d)
    <3>1. PICK i \in Buf : /\ IsHit(i, b) /\ buflist[i].data # NoData
                           /\ Fill(i, b, d, TRUE) /\ UNCHANGED disk
      BY <2>2 DEF bwriteHit
    <3>2. Takes(i, b) /\ disk' \in [Blocks -> Data]
      BY <3>1, <1>t DEF Takes, InUse, TypeOK
    <3> QED BY <2>1, <3>1, <3>2, FillKeeps
  <2>3. CASE bwriteMiss(b, d)
    <3>1. PICK v \in Buf : /\ Misses(b) /\ IsVictim(v) /\ Recycle(v)
                           /\ Fill(v, b, d, TRUE)
      BY <2>3 DEF bwriteMiss
    <3>2. disk' \in [Blocks -> Data] BY <3>1, RecycleType
    <3>3. Takes(v, b) BY <3>1 DEF Takes
    <3> QED BY <2>1, <3>1, <3>2, <3>3, FillKeeps
  <2> QED BY <1>2, <2>2, <2>3 DEF bwrite
<1>3. ASSUME NEW b \in Blocks, NullData(b) PROVE IInv'
  BY <1>3 DEF NullData, IInv, TypeOK, EmptyIsZero, ZeroWhenEmpty, OneBufferPerBlock,
       OnDevice, CountsBehind, ZeroMeansFull, InUse
<1>4. CASE bflush
  <2>1. disk' \in [Blocks -> Data] BY <1>4, UpdatedType DEF bflush
  <2>2. \A i \in Buf : buflist'[i] = [buflist[i] EXCEPT !.dirty = FALSE]
    BY <1>4 DEF bflush, Clean
  <2>3. TypeOK' BY <1>4, <2>1, <1>t DEF bflush, Clean, TypeOK
  <2>4. \A i \in Buf : /\ buflist'[i].blkno = buflist[i].blkno
                       /\ buflist'[i].last_access = buflist[i].last_access
                       /\ buflist'[i].data = buflist[i].data
    BY <2>2, <1>t DEF TypeOK
  <2>7. \A i \in Buf : buflist'[i].dirty = FALSE BY <2>2, <1>t DEF TypeOK
  <2>5. EmptyIsZero' /\ ZeroWhenEmpty' /\ OneBufferPerBlock' /\ OnDevice' /\ ZeroMeansFull'
    BY <2>4, <2>7 DEF IInv, EmptyIsZero, ZeroWhenEmpty, OneBufferPerBlock, OnDevice,
                ZeroMeansFull, InUse
  <2>6. CountsBehind' BY <2>4, <1>4 DEF IInv, CountsBehind, bflush
  <2> QED BY <2>3, <2>5, <2>6 DEF IInv
<1>5. CASE binit
  <2>1. EmptyCache' BY <1>5, <1>t DEF binit, TypeOK, EmptyCache
  <2> QED BY <2>1, AllEmpty, PTL
<1>6. CASE UNCHANGED vars
  BY <1>6 DEF vars, IInv, TypeOK, EmptyIsZero, ZeroWhenEmpty, OneBufferPerBlock,
       OnDevice, CountsBehind, ZeroMeansFull, InUse
<1> QED BY <1>1, <1>2, <1>3, <1>4, <1>5, <1>6 DEF Next, Crashed

(* Whatever the tools do, no two buffers hold the same block, a buffer in   *)
(* use holds a block of the device, and block 0 is cached only when no      *)
(* buffer is empty (bread, bwrite, bflush, binit of tools/bio.c).           *)
THEOREM Invariance == Spec => []IInv
BY InitIInv, NextIInv, PTL DEF Spec
-----------------------------------------------------------------------------
(* The cache implements the store.                                          *)

(* What a block reads as: the data of the buffer that holds it, or else     *)
(* what is on the device.                                                   *)
ReadsAs(b, d) ==
  \/ \E i \in Buf : InUse(i) /\ buflist[i].blkno = b /\ buflist[i].data = d
  \/ /\ \A i \in Buf : InUse(i) => buflist[i].blkno # b
     /\ d = disk[b]

LEMMA ContentReads ==
  IInv => \A b \in Blocks : ReadsAs(b, Content[b]) /\ Content[b] \in Data
<1> SUFFICES ASSUME IInv, NEW b \in Blocks
             PROVE  ReadsAs(b, Content[b]) /\ Content[b] \in Data
  OBVIOUS
<1>1. CASE Holder(b) = {}
  <2>1. Content[b] = disk[b] BY <1>1 DEF Content
  <2> QED BY <1>1, <2>1 DEF Holder, ReadsAs, IInv, TypeOK
<1>2. CASE Holder(b) # {}
  <2> DEFINE i == CHOOSE j \in Holder(b) : TRUE
  <2>1. i \in Holder(b) BY <1>2
  <2>2. Content[b] = buflist[i].data BY <1>2 DEF Content
  <2> HIDE DEF i
  <2> QED BY <2>1, <2>2 DEF Holder, ReadsAs, InUse, IInv, TypeOK
<1> QED BY <1>1, <1>2

LEMMA ReadsUnique ==
  IInv => \A b \in Blocks : \A d, e : ReadsAs(b, d) /\ ReadsAs(b, e) => d = e
BY DEF ReadsAs, IInv, OneBufferPerBlock

(* Hence Content is characterised by ReadsAs, now and in the next state.    *)
LEMMA ContentIs == IInv => \A b \in Blocks : \A d : ReadsAs(b, d) => Content[b] = d
BY ContentReads, ReadsUnique

LEMMA ContentType == IInv => Content \in [Blocks -> Data]
<1> SUFFICES ASSUME IInv PROVE Content \in [Blocks -> Data] OBVIOUS
<1>1. \A b \in Blocks : Content[b] \in Data BY ContentReads
<1> QED BY <1>1 DEF Content

(* A dirty buffer is in use, and its block is pending. *)
LEMMA DirtyInUse == IInv => \A i \in Dirty : i \in Buf /\ InUse(i) /\ buflist[i].dirty
BY DEF IInv, ZeroWhenEmpty, Dirty

LEMMA InitStore == Init => Store!Init
<1> SUFFICES ASSUME Init PROVE Store!Init OBVIOUS
<1>1. \A i \in Buf : ~InUse(i) /\ ~buflist[i].dirty BY DEF Init, InUse, Empty
<1>2. \A b \in Blocks : Holder(b) = {} BY <1>1 DEF Holder
<1>3. Content = disk BY <1>2 DEF Content, Init
<1>4. Pending = {} BY <1>1 DEF Pending, Dirty
<1> QED BY <1>3, <1>4 DEF Init, Store!Init

(* The same facts about the next state. *)
LEMMA ContentIsNext ==
  IInv' => \A b \in Blocks : \A d : ReadsAs(b, d)' => (Content')[b] = d
<1>1. (IInv => \A b \in Blocks : \A d : ReadsAs(b, d) => Content[b] = d)'
  BY ContentIs, PTL
<1> QED BY <1>1

LEMMA ContentTypeNext == IInv' => Content' \in [Blocks -> Data]
<1>1. (IInv => Content \in [Blocks -> Data])' BY ContentType, PTL
<1> QED BY <1>1

(* What a call that puts data d for block b into buffer v does to the       *)
(* store: the victim's block may reach the device, b reads as d, the other  *)
(* blocks read as before.                                                   *)
LEMMA FillStep ==
  ASSUME IInv, IInv', ~WriteErrors,
         NEW v \in Buf, NEW b \in Blocks, NEW d \in Data, NEW dirt \in BOOLEAN,
         Fill(v, b, d, dirt),
         \/ Misses(b) /\ Recycle(v)
         \/ buflist[v].blkno = b /\ InUse(v) /\ UNCHANGED disk
  PROVE  /\ Content' \in [Blocks -> Data] /\ (Content')[b] = d
         /\ Store!Others(b)
         /\ \E W \in SUBSET (Pending \ {b}) :
              /\ Store!WriteBack(W)
              /\ Pending' = ((Pending \ W) \ {b}) \union (IF dirt THEN {b} ELSE {})
<1> USE NoDataAssumption
<1>t. TypeOK BY DEF IInv
<1>1. /\ buflist'[v].blkno = b /\ buflist'[v].dirty = dirt /\ buflist'[v].data = d
      /\ \A j \in Buf : j # v => buflist'[j] = buflist[j]
  BY <1>t DEF Fill, TypeOK
<1>u. InUse(v)' BY <1>1 DEF InUse
<1>2. (Content')[b] = d
  <2>1. ReadsAs(b, d)' BY <1>1, <1>u DEF ReadsAs
  <2> QED BY <2>1, ContentIsNext
<1> DEFINE W == IF Misses(b) /\ buflist[v].dirty THEN {buflist[v].blkno} ELSE {}
<1>3. W \in SUBSET (Pending \ {b})
  BY DEF Misses, Pending, Dirty
<1>4. Misses(b) /\ buflist[v].dirty =>
        /\ buflist[v].blkno \in Blocks /\ InUse(v)
        /\ Content[buflist[v].blkno] = buflist[v].data
  <2> SUFFICES ASSUME Misses(b), buflist[v].dirty
               PROVE  /\ buflist[v].blkno \in Blocks /\ InUse(v)
                      /\ Content[buflist[v].blkno] = buflist[v].data
    OBVIOUS
  <2>1. InUse(v) /\ buflist[v].blkno \in Blocks
    BY DEF IInv, ZeroWhenEmpty, OnDevice
  <2>2. ReadsAs(buflist[v].blkno, buflist[v].data) BY <2>1 DEF ReadsAs
  <2> QED BY <2>1, <2>2, ContentIs
<1>5. \A c \in Blocks : disk'[c] = IF c \in W THEN Content[c] ELSE disk[c]
  <2>1. CASE Misses(b) /\ Recycle(v)
    BY <2>1, <1>4, <1>t DEF Recycle, WriteOut, TypeOK
  <2>2. CASE buflist[v].blkno = b /\ UNCHANGED disk
    BY <2>2 DEF Misses
  <2> QED BY <2>1, <2>2
<1>6. Store!WriteBack(W)
  <2>1. disk' \in [Blocks -> Data] BY DEF IInv, TypeOK
  <2>2. disk' = [c \in Blocks |-> disk'[c]] BY <2>1
  <2> HIDE DEF W
  <2> QED BY <2>2, <1>5 DEF Store!WriteBack
<1>7. \A j \in Buf : buflist[j].blkno = b => j = v \/ ~InUse(j)
  BY DEF Misses, IInv, OneBufferPerBlock
<1>8. Pending' = ((Pending \ W) \ {b}) \union (IF dirt THEN {b} ELSE {})
  <2>1. Pending' = {buflist'[i].blkno : i \in Dirty'} BY DEF Pending
  <2>2. \A i : i \in Dirty' <=> (i \in Buf /\ buflist'[i].dirty)
    BY DEF Dirty
  <2>3. ASSUME NEW c \in Pending'
        PROVE  c \in ((Pending \ W) \ {b}) \union (IF dirt THEN {b} ELSE {})
    <3>1. PICK i \in Buf : buflist'[i].dirty /\ c = buflist'[i].blkno
      BY <2>1, <2>2
    <3>2. CASE i = v BY <3>1, <3>2, <1>1
    <3>3. CASE i # v
      <4>1. buflist[i].dirty /\ c = buflist[i].blkno BY <3>1, <3>3, <1>1
      <4>2. InUse(i) /\ c \in Pending
        BY <4>1 DEF IInv, ZeroWhenEmpty, Pending, Dirty
      <4>3. c # b BY <4>1, <4>2, <1>7, <3>3
      <4>4. c \notin W BY <4>1, <4>2, <3>3, <1>4 DEF IInv, OneBufferPerBlock
      <4> QED BY <4>2, <4>3, <4>4
    <3> QED BY <3>2, <3>3
  <2>4. ASSUME NEW c \in ((Pending \ W) \ {b}) \union (IF dirt THEN {b} ELSE {})
        PROVE  c \in Pending'
    <3>1. CASE dirt /\ c = b BY <3>1, <1>1, <2>1, <2>2
    <3>2. CASE c \in (Pending \ W) \ {b}
      <4>1. PICK i \in Buf : buflist[i].dirty /\ c = buflist[i].blkno
        BY <3>2 DEF Pending, Dirty
      <4>2. i # v BY <4>1, <3>2
      <4> QED BY <4>1, <4>2, <1>1, <2>1, <2>2
    <3> QED BY <3>1, <3>2
  <2> QED BY <2>3, <2>4
<1>9. Store!Others(b)
  <2> SUFFICES ASSUME NEW c \in Blocks \ {b}
               PROVE  \/ (Content')[c] = Content[c]
                      \/ c \notin Pending /\ (Content')[c] = disk[c]
    BY DEF Store!Others
  <2>1. CASE \E i \in Buf : i # v /\ InUse(i) /\ buflist[i].blkno = c
    <3>1. PICK i \in Buf : i # v /\ InUse(i) /\ buflist[i].blkno = c BY <2>1
    <3>2. ReadsAs(c, buflist[i].data) BY <3>1 DEF ReadsAs
    <3>3. ReadsAs(c, buflist[i].data)' BY <3>1, <1>1 DEF ReadsAs, InUse
    <3>4. Content[c] = buflist[i].data BY <3>2, ContentIs
    <3>5. (Content')[c] = buflist'[i].data
      BY <3>3, ContentIsNext
    <3> QED BY <3>4, <3>5, <3>1, <1>1
  <2>2. CASE ~ \E i \in Buf : i # v /\ InUse(i) /\ buflist[i].blkno = c
    <3>1. \A i \in Buf : InUse(i)' => buflist'[i].blkno # c
      BY <2>2, <1>1 DEF InUse
    <3>2. (Content')[c] = disk'[c]
      <4>1. ReadsAs(c, disk[c])' BY <3>1 DEF ReadsAs
      <4> QED BY <4>1, ContentIsNext
    <3>3. CASE c \in W BY <3>2, <3>3, <1>5
    <3>4. CASE c \notin W
      <4>1. (Content')[c] = disk[c] BY <3>2, <3>4, <1>5
      <4>2. CASE c \in Pending
        <5>1. PICK i \in Buf : buflist[i].dirty /\ buflist[i].blkno = c
          BY <4>2 DEF Pending, Dirty
        <5>2. InUse(i) BY <5>1 DEF IInv, ZeroWhenEmpty
        <5>3. i = v BY <5>1, <5>2, <2>2
        <5>4. ~Misses(b) BY <3>4, <5>1, <5>3
        <5> QED BY <5>4, <5>1, <5>3
      <4> QED BY <4>1, <4>2
    <3> QED BY <3>3, <3>4
  <2> QED BY <2>1, <2>2
<1>10. Content' \in [Blocks -> Data] BY ContentTypeNext
<1> HIDE DEF W
<1> QED BY <1>2, <1>3, <1>6, <1>8, <1>9, <1>10

LEMMA MissNotPending ==
  ASSUME NEW b, Misses(b) PROVE b \notin Pending
BY DEF Misses, Pending, Dirty

LEMMA ReadStep ==
  ASSUME IInv, IInv', ~WriteErrors, NEW b \in Blocks, bread(b)
  PROVE  Store!Read(b) \/ Store!ReadError(b)
<1>t. TypeOK BY DEF IInv
<1>1. CASE breadHit(b)
  <2>1. PICK i \in Buf : /\ IsHit(i, b) /\ buflist[i].data # NoData
                         /\ Fill(i, b, buflist[i].data, buflist[i].dirty)
                         /\ call' = << "read", b, buflist[i].data >>
                         /\ UNCHANGED disk
    BY <1>1 DEF breadHit
  <2> DEFINE d == buflist[i].data
             dirt == buflist[i].dirty
  <2>2. d \in Data /\ dirt \in BOOLEAN BY <2>1, <1>t DEF TypeOK
  <2>3. buflist[i].blkno = b /\ InUse(i) BY <2>1 DEF IsHit, InUse
  <2>4. Content[b] = d
    <3>1. ReadsAs(b, d) BY <2>3 DEF ReadsAs
    <3> QED BY <3>1, ContentIs
  <2>5. dirt => b \in Pending BY <2>3 DEF Pending, Dirty
  <2>6. ~dirt => b \notin Pending
    BY <2>3 DEF Pending, Dirty, IInv, OneBufferPerBlock, ZeroWhenEmpty
  <2>7. Fill(i, b, d, dirt) BY <2>1
  <2> HIDE DEF d, dirt
  <2>8. /\ Content' \in [Blocks -> Data] /\ (Content')[b] = d
        /\ Store!Others(b)
        /\ \E W \in SUBSET (Pending \ {b}) :
             /\ Store!WriteBack(W)
             /\ Pending' = ((Pending \ W) \ {b}) \union (IF dirt THEN {b} ELSE {})
    BY <2>1, <2>2, <2>3, <2>7, FillStep
  <2>9. \E W \in SUBSET (Pending \ {b}) : Store!WriteBack(W) /\ Pending' = Pending \ W
    <3>1. PICK W \in SUBSET (Pending \ {b}) :
             /\ Store!WriteBack(W)
             /\ Pending' = ((Pending \ W) \ {b}) \union (IF dirt THEN {b} ELSE {})
      BY <2>8
    <3>2. Pending' = Pending \ W BY <3>1, <2>5, <2>6, <2>2
    <3> QED BY <3>1, <3>2
  <2>10. call' = << "read", b, (Content')[b] >> BY <2>1, <2>8 DEF d
  <2> QED BY <2>4, <2>8, <2>9, <2>10 DEF Store!Read
<1>2. CASE breadMiss(b)
  <2>1. PICK v \in Buf :
          /\ Misses(b) /\ Recycle(v)
          /\ \/ Fill(v, b, disk[b], FALSE) /\ call' = << "read", b, disk[b] >>
             \/ \E d \in Data : Fill(v, b, d, FALSE) /\ call' = << "read error", b >>
    BY <1>2 DEF breadMiss
  <2>2. b \notin Pending BY <2>1, MissNotPending
  <2>3. \A d \in Data : Fill(v, b, d, FALSE) =>
          /\ Content' \in [Blocks -> Data] /\ (Content')[b] = d
          /\ Store!Others(b)
          /\ \E W \in SUBSET (Pending \ {b}) :
               /\ Store!WriteBack(W)
               /\ Pending' = ((Pending \ W) \ {b}) \union (IF FALSE THEN {b} ELSE {})
    BY <2>1, FillStep
  <2>4. \A d \in Data : Fill(v, b, d, FALSE) =>
          \E W \in SUBSET (Pending \ {b}) : Store!WriteBack(W) /\ Pending' = Pending \ W
    BY <2>2, <2>3
  <2>5. disk[b] \in Data BY <1>t DEF TypeOK
  <2>6. CASE Fill(v, b, disk[b], FALSE) /\ call' = << "read", b, disk[b] >>
    BY <2>2, <2>3, <2>4, <2>5, <2>6 DEF Store!Read
  <2>7. CASE \E d \in Data : Fill(v, b, d, FALSE) /\ call' = << "read error", b >>
    BY <2>2, <2>3, <2>4, <2>7 DEF Store!ReadError
  <2> QED BY <2>1, <2>6, <2>7
<1> QED BY <1>1, <1>2 DEF bread

LEMMA WriteStep ==
  ASSUME IInv, IInv', ~WriteErrors, NEW b \in Blocks, NEW d \in Data, bwrite(b, d)
  PROVE  Store!Write(b, d)
<1>1. PICK v \in Buf : /\ Fill(v, b, d, TRUE)
                       /\ \/ Misses(b) /\ Recycle(v)
                          \/ buflist[v].blkno = b /\ InUse(v) /\ UNCHANGED disk
  BY DEF bwrite, bwriteHit, bwriteMiss, IsHit, InUse
<1>2. /\ Content' \in [Blocks -> Data] /\ (Content')[b] = d
      /\ Store!Others(b)
      /\ \E W \in SUBSET (Pending \ {b}) :
           /\ Store!WriteBack(W)
           /\ Pending' = ((Pending \ W) \ {b}) \union (IF TRUE THEN {b} ELSE {})
  BY <1>1, FillStep
<1>3. \E W \in SUBSET (Pending \ {b}) :
        Store!WriteBack(W) /\ Pending' = (Pending \ W) \union {b}
  BY <1>2
<1>4. call' = << "write", b, d >> BY DEF bwrite
<1> QED BY <1>2, <1>3, <1>4 DEF Store!Write

LEMMA FlushStep ==
  ASSUME IInv, IInv', ~WriteErrors, bflush
  PROVE  Store!Flush
<1>t. TypeOK BY DEF IInv
<1>1. disk' = Updated /\ buflist' = Clean /\ call' = << "flush" >>
  BY DEF bflush
<1>2. \A i \in Buf : /\ buflist'[i].blkno = buflist[i].blkno
                     /\ buflist'[i].data = buflist[i].data
                     /\ buflist'[i].dirty = FALSE
  BY <1>1, <1>t DEF Clean, TypeOK
<1>3. Pending' = {} BY <1>2 DEF Pending, Dirty
<1>4. ASSUME NEW b \in Blocks
      PROVE  disk'[b] = IF b \in Pending THEN Content[b] ELSE disk[b]
  <2>1. CASE b \in Pending
    <3> DEFINE i == CHOOSE j \in Dirty : buflist[j].blkno = b
    <3>1. \E j \in Dirty : buflist[j].blkno = b BY <2>1 DEF Pending
    <3>2. i \in Dirty /\ buflist[i].blkno = b BY <3>1
    <3>3. disk'[b] = buflist[i].data BY <3>1, <1>1 DEF Updated
    <3> HIDE DEF i
    <3>4. ReadsAs(b, buflist[i].data) BY <3>2, DirtyInUse DEF ReadsAs
    <3> QED BY <2>1, <3>3, <3>4, ContentIs
  <2>2. CASE b \notin Pending
    <3>1. ~ \E j \in Dirty : buflist[j].blkno = b BY <2>2 DEF Pending
    <3> QED BY <2>2, <3>1, <1>1 DEF Updated
  <2> QED BY <2>1, <2>2
<1>5. Store!WriteBack(Pending)
  <2>1. disk' = [c \in Blocks |-> disk'[c]] BY <1>1 DEF Updated
  <2> QED BY <2>1, <1>4 DEF Store!WriteBack
<1>6. ASSUME NEW b \in Blocks PROVE (Content')[b] = Content[b]
  <2>1. ReadsAs(b, Content[b]) BY ContentReads
  <2>2. CASE \E i \in Buf : InUse(i) /\ buflist[i].blkno = b /\ buflist[i].data = Content[b]
    <3>1. PICK i \in Buf : InUse(i) /\ buflist[i].blkno = b /\ buflist[i].data = Content[b]
      BY <2>2
    <3>2. ReadsAs(b, buflist[i].data)' BY <3>1, <1>2 DEF ReadsAs, InUse
    <3>3. (Content')[b] = buflist'[i].data BY <3>2, ContentIsNext
    <3> QED BY <3>1, <3>3, <1>2
  <2>3. CASE (\A i \in Buf : InUse(i) => buflist[i].blkno # b) /\ Content[b] = disk[b]
    <3>1. b \notin Pending BY <2>3, DirtyInUse DEF Pending
    <3>2. disk'[b] = disk[b] BY <3>1, <1>4
    <3>3. ReadsAs(b, disk[b])' BY <2>3, <1>2 DEF ReadsAs, InUse
    <3>4. (Content')[b] = disk'[b] BY <3>3, ContentIsNext
    <3> QED BY <2>3, <3>2, <3>4
  <2> QED BY <2>1, <2>2, <2>3 DEF ReadsAs
<1>7. Content' = Content
  <2>1. Content \in [Blocks -> Data] /\ Content' \in [Blocks -> Data]
    BY ContentType, ContentTypeNext
  <2> QED BY <2>1, <1>6
<1> QED BY <1>1, <1>3, <1>5, <1>7 DEF Store!Flush

LEMMA ResetStep ==
  ASSUME IInv, IInv', binit
  PROVE  Store!Reset
<1>1. /\ disk' = disk /\ call' = << "reset" >>
      /\ \A i \in Buf : ~InUse(i)' /\ buflist'[i].dirty = FALSE
  BY DEF binit, InUse, Empty
<1>2. Pending' = {} BY <1>1 DEF Pending, Dirty
<1>3. ASSUME NEW b \in Blocks PROVE (Content')[b] = disk[b]
  <2>1. ReadsAs(b, disk[b])' BY <1>1 DEF ReadsAs
  <2>2. (Content')[b] = disk'[b] BY <2>1, ContentIsNext
  <2> QED BY <2>2, <1>1
<1>4. Content' = disk
  <2>1. Content' \in [Blocks -> Data] /\ disk \in [Blocks -> Data]
    BY ContentTypeNext DEF IInv, TypeOK
  <2> QED BY <2>1, <1>3
<1> QED BY <1>1, <1>2, <1>4 DEF Store!Reset

LEMMA StoreStep ==
  ASSUME ~WriteErrors, IInv, IInv', [Next]_vars
  PROVE  [Store!Next]_(Store!vars)
<1>1. ASSUME NEW b \in Blocks, bread(b) PROVE Store!Next
  BY <1>1, ReadStep DEF Store!Next
<1>2. ASSUME NEW b \in Blocks, NEW d \in Data, bwrite(b, d) PROVE Store!Next
  BY <1>2, WriteStep DEF Store!Next
<1>3. CASE bflush BY <1>3, FlushStep DEF Store!Next
<1>4. CASE binit BY <1>4, ResetStep DEF Store!Next
<1>5. ASSUME UNCHANGED << buflist, disk, call >> PROVE UNCHANGED Store!vars
  BY <1>5 DEF Store!vars, Content, Pending, Holder, Dirty, InUse
<1>6. ASSUME NEW b \in Blocks, NullData(b) PROVE UNCHANGED Store!vars
  BY <1>6, <1>5 DEF NullData, history
<1>7. CASE UNCHANGED vars BY <1>7, <1>5 DEF vars
<1> QED BY <1>1, <1>2, <1>3, <1>4, <1>6, <1>7 DEF Next, Crashed

(* If write() does not fail, the cache of tools/bio.c, with any number of   *)
(* buffers, implements the block store: bread returns what was last         *)
(* written, only written blocks reach the device, bflush leaves none out.   *)
THEOREM CacheImplementsStore == ASSUME ~WriteErrors PROVE Spec => ImplementsStore
<1>1. Init => Store!Init BY InitStore
<1>2. IInv /\ IInv' /\ [Next]_vars => [Store!Next]_(Store!vars)
  BY StoreStep
<1> QED BY <1>1, <1>2, Invariance, PTL DEF Spec, ImplementsStore, Store!Spec
-----------------------------------------------------------------------------
(* Least recently used.  The blocks used are ordered like the access counts *)
(* of the buffers that hold them, and no buffer holds any other block.      *)
Holds(i, k) == i \in Buf /\ InUse(i) /\ k \in DOMAIN recent /\ buflist[i].blkno = recent[k]

RecentInv ==
  /\ recent \in Seq(Blocks)
  /\ \A k, l \in DOMAIN recent : recent[k] = recent[l] => k = l
  /\ \A i \in Buf : InUse(i) => \E k \in DOMAIN recent : Holds(i, k)
  /\ \A i, j \in Buf : \A k, l \in DOMAIN recent :
       Holds(i, k) /\ Holds(j, l) /\ k < l => buflist[i].last_access > buflist[j].last_access
  /\ KeepsMostRecent

LruInv == IInv /\ RecentInv

(* Where the blocks used are after block b has been used: behind b they     *)
(* keep their order, the ones that were ahead of b one place further back.  *)
Moved(b, m) ==
  /\ recent' \in Seq(Blocks) /\ recent'[1] = b /\ 1 \in DOMAIN recent'
  /\ \A k \in DOMAIN recent' \ {1} :
       \/ k - 1 < m /\ k - 1 \in DOMAIN recent /\ recent'[k] = recent[k - 1]
       \/ k > m /\ k \in DOMAIN recent /\ recent'[k] = recent[k]
  /\ \A k \in DOMAIN recent :
       \/ k < m /\ k + 1 \in DOMAIN recent' /\ recent'[k + 1] = recent[k]
       \/ k = m /\ recent[k] = b
       \/ k > m /\ k \in DOMAIN recent' /\ recent'[k] = recent[k]

LEMMA UsedMoves ==
  ASSUME NEW b \in Blocks, recent \in Seq(Blocks), Used(b)
  PROVE  \E m \in Nat : /\ Moved(b, m)
                        /\ m \in DOMAIN recent => recent[m] = b
                        /\ m \notin DOMAIN recent =>
                             m = Len(recent) + 1 /\ \A k \in DOMAIN recent : recent[k] # b
<1>0. Len(recent) \in Nat /\ DOMAIN recent = 1 .. Len(recent)
  BY LenProperties
<1>1. ASSUME NEW m \in DOMAIN recent, recent[m] = b,
             recent' = << b >> \o SubSeq(recent, 1, m - 1) \o SubSeq(recent, m + 1, Len(recent))
      PROVE  Moved(b, m)
  <2> DEFINE n == Len(recent)
             s == SubSeq(recent, 1, m - 1)
             t == SubSeq(recent, m + 1, n)
  <2>1. /\ s \in Seq(Blocks) /\ Len(s) = m - 1
        /\ \A i \in 1 .. m - 1 : s[i] = recent[i]
    BY <1>0, <1>1, SubSeqProperties
  <2>2. /\ t \in Seq(Blocks) /\ Len(t) = n - m
        /\ \A i \in 1 .. n - m : t[i] = recent[m + i]
    <3>1. \A i \in m + 1 .. n : recent[i] \in Blocks
      BY <1>0
    <3> QED BY <1>0, <3>1, SubSeqProperties
  <2> DEFINE u == << b >> \o s
  <2>3. u \in Seq(Blocks) /\ Len(u) = m /\ u[1] = b /\ \A i \in 2 .. m : u[i] = recent[i - 1]
    <3> HIDE DEF s
    <3>1. u \in Seq(Blocks) /\ Len(u) = 1 + Len(s)
      BY <2>1
    <3>2. \A i \in 2 .. m : u[i] = s[i - 1]
      BY <1>0, <2>1
    <3> QED BY <1>0, <2>1, <3>1, <3>2
  <2>4. recent' = u \o t
    BY <1>1
  <2> HIDE DEF s, t, u
  <2>5. recent' \in Seq(Blocks) /\ Len(recent') = n
    <3>1. recent' \in Seq(Blocks) /\ Len(recent') = Len(u) + Len(t)
      BY <2>2, <2>3, <2>4, ConcatProperties
    <3>2. m \in Int /\ n \in Int
      BY <1>0
    <3> QED BY <2>2, <2>3, <3>1, <3>2
  <2>6. \A i \in 1 .. m : recent'[i] = u[i]
    BY <1>0, <2>2, <2>3, <2>4, <2>5
  <2>7. \A i \in m + 1 .. n : recent'[i] = t[i - m]
    BY <1>0, <2>2, <2>3, <2>4, <2>5
  <2>8. \A i \in m + 1 .. n : recent'[i] = recent[i]
    BY <1>0, <2>2, <2>7, SMTT(30)
  <2>9. \A i \in 2 .. m : recent'[i] = recent[i - 1]
    BY <1>0, <2>3, <2>6
  <2>10. recent'[1] = b
    BY <1>0, <2>3, <2>6
  <2>11. DOMAIN recent' = 1 .. n
    BY <2>5
  <2>12. \A k \in 2 .. n : \/ k - 1 < m /\ k - 1 \in 1 .. n /\ recent'[k] = recent[k - 1]
                           \/ k > m /\ k \in 1 .. n /\ recent'[k] = recent[k]
    BY <1>0, <2>8, <2>9
  <2>13. \A k \in 1 .. n : \/ k < m /\ k + 1 \in 1 .. n /\ recent'[k + 1] = recent[k]
                           \/ k = m /\ recent[k] = b
                           \/ k > m /\ k \in 1 .. n /\ recent'[k] = recent[k]
    <3>1. ASSUME NEW k \in 1 .. n, k < m PROVE k + 1 \in 1 .. n /\ recent'[k + 1] = recent[k]
      <4>1. k + 1 \in 2 .. m /\ (k + 1) - 1 = k /\ k + 1 \in 1 .. n
        BY <1>0, <3>1
      <4> QED BY <2>9, <4>1
    <3>2. ASSUME NEW k \in 1 .. n, k > m PROVE recent'[k] = recent[k]
      BY <1>0, <2>8, <3>2
    <3>3. \A k \in 1 .. n : k < m \/ k = m \/ k > m
      BY <1>0
    <3> QED BY <1>1, <3>1, <3>2, <3>3
  <2>14. 1 \in 1 .. n /\ \A k \in (1 .. n) \ {1} : k \in 2 .. n
    BY <1>0
  <2> QED BY <1>0, <2>5, <2>10, <2>11, <2>12, <2>13, <2>14 DEF Moved
<1>2. ASSUME \A k \in DOMAIN recent : recent[k] # b, recent' = << b >> \o recent
      PROVE  Moved(b, Len(recent) + 1)
  <2>1. recent' \in Seq(Blocks) /\ Len(recent') = Len(recent) + 1 /\ recent'[1] = b
    BY <1>0, <1>2
  <2>2. \A i \in 2 .. Len(recent) + 1 : recent'[i] = recent[i - 1]
    BY <1>0, <1>2
  <2>3. DOMAIN recent' = 1 .. Len(recent) + 1
    BY <2>1
  <2> QED BY <1>0, <2>1, <2>2, <2>3 DEF Moved
<1>3. CASE \E k \in DOMAIN recent :
             /\ recent[k] = b
             /\ recent' = << b >> \o SubSeq(recent, 1, k - 1) \o SubSeq(recent, k + 1, Len(recent))
  <2>1. PICK k \in DOMAIN recent :
             /\ recent[k] = b
             /\ recent' = << b >> \o SubSeq(recent, 1, k - 1) \o SubSeq(recent, k + 1, Len(recent))
    BY <1>3
  <2>2. Moved(b, k)
    BY <1>1, <2>1, Zenon
  <2>3. k \in Nat
    BY <1>0
  <2> QED BY <2>1, <2>2, <2>3
<1>4. CASE (\A k \in DOMAIN recent : recent[k] # b) /\ recent' = << b >> \o recent
  BY <1>0, <1>2, <1>4
<1> QED BY <1>3, <1>4 DEF Used

LEMMA InitLru == Init => RecentInv
<1> SUFFICES ASSUME Init PROVE RecentInv
  OBVIOUS
<1>1. recent \in Seq(Blocks) /\ DOMAIN recent = {} /\ Len(recent) = 0
  BY DEF Init
<1>2. \A i \in Buf : ~InUse(i)
  BY DEF Init, Empty, InUse
<1> QED BY <1>1, <1>2 DEF RecentInv, KeepsMostRecent, Holds

(* The least recently used buffer does not hold one of the NBUFS - 1 blocks *)
(* used last: the other buffers are all in use and hold blocks used after   *)
(* its own, for which there would be too few places.                        *)
LEMMA VictimIsOld ==
  ASSUME LruInv, NEW v \in Buf, IsVictim(v), NEW k \in DOMAIN recent, k < NBUFS, Holds(v, k)
  PROVE  FALSE
<1>0. Len(recent) \in Nat /\ DOMAIN recent = 1 .. Len(recent) /\ k \in Nat /\ k >= 1
  BY LenProperties DEF LruInv, RecentInv
<1>1. ASSUME NEW j \in Buf, j # v PROVE \E l \in 1 .. k - 1 : Holds(j, l)
  <2>1. buflist[v].last_access > 0 /\ buflist[v].last_access <= buflist[j].last_access
        /\ buflist[j].last_access \in Nat /\ buflist[v].last_access \in Nat
    BY DEF LruInv, IInv, TypeOK, EmptyIsZero, IsVictim, Holds
  <2>2. InUse(j)
    BY <2>1 DEF LruInv, IInv, EmptyIsZero
  <2>3. PICK l \in DOMAIN recent : Holds(j, l)
    BY <2>2 DEF LruInv, RecentInv
  <2>4. l # k
    BY <1>1, <2>3 DEF Holds, LruInv, IInv, OneBufferPerBlock
  <2>5. ~(k < l)
    <3>1. k < l => buflist[v].last_access > buflist[j].last_access
      BY <2>3 DEF LruInv, RecentInv
    <3> QED BY <2>1, <3>1
  <2> QED BY <1>0, <2>3, <2>4, <2>5
<1> DEFINE place == [j \in Buf \ {v} |-> CHOOSE l \in 1 .. k - 1 : Holds(j, l)]
<1>2. \A j \in Buf \ {v} : place[j] \in 1 .. k - 1 /\ Holds(j, place[j])
  BY <1>1
<1>3. place \in [Buf \ {v} -> 1 .. k - 1]
  BY <1>2
<1> HIDE DEF place
<1>4. IsFiniteSet(Buf \ {v}) /\ Cardinality(Buf \ {v}) = NBUFS - 1
  <2>1. IsFiniteSet(Buf) /\ Cardinality(Buf) = NBUFS
    <3>1. 0 \in Int /\ NBUFS - 1 \in Int /\ ~(0 > NBUFS - 1) /\ (NBUFS - 1) - 0 + 1 = NBUFS
      BY NBUFSAssumption
    <3> QED BY <3>1, FS_Interval DEF Buf
  <2> QED BY <2>1, FS_RemoveElement
<1>5. IsFiniteSet(1 .. k - 1) /\ Cardinality(1 .. k - 1) = k - 1
  <2>1. 1 \in Int /\ k - 1 \in Int
    BY <1>0
  <2>2. Cardinality(1 .. k - 1) = IF 1 > k - 1 THEN 0 ELSE (k - 1) - 1 + 1
    BY <2>1, FS_Interval
  <2>3. IsFiniteSet(1 .. k - 1)
    BY <2>1, FS_Interval
  <2> QED BY <1>0, <2>2, <2>3
<1>6. PICK x, y \in Buf \ {v} : x # y /\ place[x] = place[y]
  BY <1>0, <1>3, <1>4, <1>5, NBUFSAssumption, FS_PigeonHole
<1>7. Holds(x, place[x]) /\ Holds(y, place[x])
  BY <1>2, <1>6
<1> QED BY <1>6, <1>7 DEF Holds, LruInv, IInv, OneBufferPerBlock

(* The call that puts b into buffer i, and what the others then hold. *)
LEMMA TakesLru ==
  ASSUME LruInv, IInv', NEW i \in Buf, NEW b \in Blocks, NEW d \in Data, NEW dirt \in BOOLEAN,
         Takes(i, b), Fill(i, b, d, dirt), Used(b)
  PROVE  RecentInv'
<1> USE NoDataAssumption
<1>t. TypeOK /\ IInv /\ RecentInv BY DEF LruInv, IInv
<1>0. Len(recent) \in Nat /\ DOMAIN recent = 1 .. Len(recent) /\ NBUFS \in Nat /\ recent \in Seq(Blocks)
  BY <1>t, LenProperties, NBUFSAssumption DEF RecentInv
<1>1. /\ buflist'[i].blkno = b /\ buflist'[i].data = d /\ buflist'[i].last_access = bio_counter + 1
      /\ \A j \in Buf : j # i => buflist'[j] = buflist[j]
  BY <1>t DEF Fill, TypeOK
<1>2. InUse(i)' /\ \A j \in Buf : j # i => InUse(j)' = InUse(j)
  BY <1>1 DEF InUse
<1>3. PICK m \in Nat : /\ Moved(b, m)
                       /\ m \in DOMAIN recent => recent[m] = b
                       /\ m \notin DOMAIN recent =>
                            m = Len(recent) + 1 /\ \A k \in DOMAIN recent : recent[k] # b
  BY <1>0, UsedMoves
<1>4. recent' \in Seq(Blocks) /\ 1 \in DOMAIN recent' /\ recent'[1] = b
      /\ Len(recent') \in Nat /\ DOMAIN recent' = 1 .. Len(recent')
  <2>1. recent' \in Seq(Blocks)
    BY <1>3 DEF Moved
  <2> QED BY <1>3, <2>1, LenProperties DEF Moved
<1>5. ASSUME NEW k \in DOMAIN recent' \ {1}
      PROVE  \E l \in DOMAIN recent : /\ recent'[k] = recent[l] /\ l # m
                                      /\ (l < m /\ k = l + 1) \/ (l > m /\ k = l)
  <2>1. CASE k - 1 < m /\ k - 1 \in DOMAIN recent /\ recent'[k] = recent[k - 1]
    <3>1. k - 1 # m /\ k = (k - 1) + 1
      BY <1>4, <2>1
    <3> QED BY <2>1, <3>1
  <2>2. CASE k > m /\ k \in DOMAIN recent /\ recent'[k] = recent[k]
    <3>1. k # m
      BY <1>4, <2>2
    <3> QED BY <2>2, <3>1
  <2> QED BY <1>3, <2>1, <2>2 DEF Moved
<1>6. \A l \in DOMAIN recent : recent[l] = b => l = m
  BY <1>t, <1>3 DEF RecentInv
<1>7. \A k, l \in DOMAIN recent' : recent'[k] = recent'[l] => k = l
  <2> SUFFICES ASSUME NEW k \in DOMAIN recent', NEW l \in DOMAIN recent', recent'[k] = recent'[l],
                      k # l
               PROVE  FALSE
    OBVIOUS
  <2>1. ASSUME NEW x \in DOMAIN recent' \ {1} PROVE recent'[x] # b
    BY <1>5, <1>6, <2>1
  <2>2. k # 1 /\ l # 1
    BY <1>4, <2>1
  <2>3. PICK p \in DOMAIN recent : /\ recent'[k] = recent[p] /\ p # m
                                   /\ (p < m /\ k = p + 1) \/ (p > m /\ k = p)
    BY <1>5, <2>2
  <2>4. PICK q \in DOMAIN recent : /\ recent'[l] = recent[q] /\ q # m
                                   /\ (q < m /\ l = q + 1) \/ (q > m /\ l = q)
    BY <1>5, <2>2
  <2>5. p = q
    BY <1>t, <2>3, <2>4 DEF RecentInv
  <2> QED BY <1>0, <2>3, <2>4, <2>5
<1>8. \A j \in Buf : j # i /\ InUse(j) => buflist[j].blkno # b
  BY <1>t DEF Takes, IsHit, Misses, IInv, OneBufferPerBlock, InUse
<1>9. ASSUME NEW j \in Buf, InUse(j)' PROVE \E k \in DOMAIN recent' : Holds(j, k)'
  <2>1. CASE j = i
    BY <1>1, <1>2, <1>4, <2>1 DEF Holds
  <2>2. CASE j # i
    <3>1. InUse(j)
      BY <1>2, <1>9, <2>2
    <3>2. PICK l \in DOMAIN recent : Holds(j, l)
      BY <1>t, <3>1 DEF RecentInv
    <3>3. recent[l] # b
      BY <1>8, <2>2, <3>1, <3>2 DEF Holds
    <3>4. \E k \in DOMAIN recent' : recent'[k] = recent[l]
      BY <1>3, <3>3 DEF Moved
    <3> QED BY <1>1, <1>9, <2>2, <3>2, <3>4 DEF Holds
  <2> QED BY <2>1, <2>2
<1>10. ASSUME NEW j \in Buf, NEW k \in DOMAIN recent', Holds(j, k)', k # 1
       PROVE  j # i /\ \E l \in DOMAIN recent : /\ Holds(j, l) /\ l # m
                                                /\ (l < m /\ k = l + 1) \/ (l > m /\ k = l)
  <2>1. PICK l \in DOMAIN recent : /\ recent'[k] = recent[l] /\ l # m
                                   /\ (l < m /\ k = l + 1) \/ (l > m /\ k = l)
    BY <1>5, <1>10
  <2>2. recent'[k] # b
    BY <1>6, <2>1
  <2>3. j # i
    BY <1>1, <1>10, <2>2 DEF Holds
  <2>4. Holds(j, l)
    BY <1>1, <1>2, <1>10, <2>1, <2>3 DEF Holds
  <2> QED BY <2>1, <2>3, <2>4
<1>11. ASSUME NEW x \in Buf, NEW y \in Buf, NEW k \in DOMAIN recent', NEW l \in DOMAIN recent',
              Holds(x, k)', Holds(y, l)', k < l
       PROVE  buflist'[x].last_access > buflist'[y].last_access
  <2>0. l # 1 /\ k \in Nat /\ l \in Nat
    BY <1>4, <1>11
  <2>1. PICK q \in DOMAIN recent : /\ Holds(y, q) /\ q # m
                                   /\ (q < m /\ l = q + 1) \/ (q > m /\ l = q)
    BY <1>10, <1>11, <2>0
  <2>2. y # i /\ buflist'[y] = buflist[y]
    BY <1>1, <1>10, <1>11, <2>0
  <2>3. CASE k = 1
    <3>1. x = i
      <4>1. buflist'[x].blkno = b /\ InUse(x)'
        BY <1>4, <1>11, <2>3 DEF Holds
      <4> QED BY <1>1, <1>2, <1>8, <4>1
    <3>2. buflist[y].last_access <= bio_counter /\ bio_counter \in Nat /\ buflist[y].last_access \in Nat
      BY <1>t DEF IInv, CountsBehind, TypeOK
    <3> QED BY <1>1, <2>2, <3>1, <3>2
  <2>4. CASE k # 1
    <3>1. PICK p \in DOMAIN recent : /\ Holds(x, p) /\ p # m
                                     /\ (p < m /\ k = p + 1) \/ (p > m /\ k = p)
      BY <1>10, <1>11, <2>4
    <3>2. x # i /\ buflist'[x] = buflist[x]
      BY <1>1, <1>10, <1>11, <2>4
    <3>3. p < q
      BY <1>0, <1>11, <2>1, <3>1
    <3>4. buflist[x].last_access > buflist[y].last_access
      BY <1>t, <2>1, <3>1, <3>3 DEF RecentInv
    <3> QED BY <2>2, <3>2, <3>4
  <2> QED BY <2>3, <2>4
<1>12. ASSUME NEW k \in 1 .. Len(recent'), k <= NBUFS
       PROVE  \E j \in Buf : InUse(j)' /\ buflist'[j].blkno = recent'[k]
  <2>1. CASE k = 1
    BY <1>1, <1>2, <1>4, <2>1
  <2>2. CASE k # 1
    <3>1. PICK l \in DOMAIN recent : /\ recent'[k] = recent[l] /\ l # m
                                     /\ (l < m /\ k = l + 1) \/ (l > m /\ k = l)
      BY <1>4, <1>5, <2>2
    <3>2. l <= NBUFS /\ l \in 1 .. Len(recent)
      BY <1>0, <1>4, <1>12, <3>1
    <3>3. PICK j \in Buf : InUse(j) /\ buflist[j].blkno = recent[l]
      BY <1>t, <3>2 DEF RecentInv, KeepsMostRecent
    <3>4. CASE j # i
      BY <1>1, <1>2, <3>1, <3>3, <3>4
    <3>5. CASE j = i
      <4>1. recent[l] # b
        BY <1>6, <3>1
      <4>2. Misses(b) /\ IsVictim(i)
        BY <3>3, <3>5, <4>1 DEF Takes, IsHit
      <4>3. ASSUME m \in DOMAIN recent PROVE m > NBUFS
        <5>1. \A z \in Buf : InUse(z) => buflist[z].blkno # b
          BY <4>2 DEF Misses
        <5>2. recent[m] = b /\ m \in 1 .. Len(recent)
          BY <1>0, <1>3, <4>3
        <5>3. ~(m <= NBUFS)
          BY <1>t, <5>1, <5>2 DEF RecentInv, KeepsMostRecent
        <5> QED BY <1>0, <5>3
      <4>4. l < NBUFS
        <5>1. CASE l < m /\ k = l + 1
          BY <1>0, <1>12, <5>1
        <5>2. CASE l > m
          <6>1. m # Len(recent) + 1
            BY <1>0, <5>2
          <6>2. m > NBUFS
            BY <1>3, <4>3, <6>1
          <6> QED BY <1>0, <3>2, <5>2, <6>2
        <5> QED BY <3>1, <5>1, <5>2
      <4>5. Holds(i, l)
        BY <3>1, <3>3, <3>5 DEF Holds
      <4> QED BY <4>2, <4>4, <4>5, VictimIsOld
    <3> QED BY <3>4, <3>5
  <2> QED BY <2>1, <2>2
<1>13. KeepsMostRecent'
  BY <1>12 DEF KeepsMostRecent, InUse
<1> QED BY <1>4, <1>7, <1>9, <1>11, <1>13 DEF RecentInv

LEMMA NextLru == LruInv /\ [Next]_vars => LruInv'
<1> SUFFICES ASSUME LruInv, [Next]_vars PROVE LruInv'
  OBVIOUS
<1> USE NoDataAssumption
<1>t. IInv /\ TypeOK /\ RecentInv BY DEF LruInv, IInv
<1>i. IInv' BY <1>t, NextIInv
<1>1. ASSUME NEW b \in Blocks, bread(b) PROVE RecentInv'
  <2>1. CASE breadHit(b)
    <3>1. PICK i \in Buf : /\ IsHit(i, b) /\ buflist[i].data # NoData
                           /\ Fill(i, b, buflist[i].data, buflist[i].dirty)
      BY <2>1 DEF breadHit
    <3>2. buflist[i].data \in Data /\ buflist[i].dirty \in BOOLEAN /\ Takes(i, b)
      BY <3>1, <1>t DEF TypeOK, Takes, InUse
    <3> QED BY <1>1, <1>i, <3>1, <3>2, TakesLru DEF bread
  <2>2. CASE breadMiss(b)
    <3>1. PICK v \in Buf, d \in Data : Misses(b) /\ IsVictim(v) /\ Fill(v, b, d, FALSE)
      BY <2>2, <1>t DEF breadMiss, TypeOK
    <3>2. Takes(v, b) BY <3>1 DEF Takes
    <3> QED BY <1>1, <1>i, <3>1, <3>2, TakesLru DEF bread
  <2> QED BY <1>1, <2>1, <2>2 DEF bread
<1>2. ASSUME NEW b \in Blocks, NEW d \in Data, bwrite(b, d) PROVE RecentInv'
  <2>1. PICK i \in Buf : Takes(i, b) /\ Fill(i, b, d, TRUE)
    BY <1>2 DEF bwrite, bwriteHit, bwriteMiss, Takes, InUse
  <2> QED BY <1>2, <1>i, <2>1, TakesLru DEF bwrite
<1>3. ASSUME recent' = recent,
             \A i \in Buf : /\ buflist'[i].blkno = buflist[i].blkno
                            /\ buflist'[i].data = buflist[i].data
                            /\ buflist'[i].last_access = buflist[i].last_access
      PROVE  RecentInv'
  <2>1. \A i \in Buf : InUse(i)' = InUse(i)
    BY <1>3 DEF InUse
  <2>2. \A i, k : Holds(i, k)' = Holds(i, k)
    BY <1>3, <2>1 DEF Holds
  <2>3. KeepsMostRecent'
    BY <1>3, <1>t, <2>1 DEF RecentInv, KeepsMostRecent
  <2> QED BY <1>3, <1>t, <2>1, <2>2, <2>3 DEF RecentInv
<1>4. ASSUME bflush PROVE RecentInv'
  <2>1. recent' = recent /\ buflist' = Clean
    BY <1>4 DEF bflush
  <2>2. \A i \in Buf : /\ buflist'[i].blkno = buflist[i].blkno
                       /\ buflist'[i].data = buflist[i].data
                       /\ buflist'[i].last_access = buflist[i].last_access
    BY <1>t, <2>1 DEF Clean, TypeOK
  <2> QED BY <1>3, <2>1, <2>2
<1>5. ASSUME binit PROVE RecentInv'
  <2>1. recent' \in Seq(Blocks) /\ DOMAIN recent' = {} /\ Len(recent') = 0
    BY <1>5 DEF binit
  <2>2. \A i \in Buf : ~InUse(i)'
    BY <1>5 DEF binit, Empty, InUse
  <2>3. KeepsMostRecent'
    BY <2>1 DEF KeepsMostRecent
  <2> QED BY <2>1, <2>2, <2>3 DEF RecentInv
<1>6. ASSUME NEW b \in Blocks, NullData(b) PROVE RecentInv'
  BY <1>3, <1>6 DEF NullData, history
<1>7. ASSUME UNCHANGED vars PROVE RecentInv'
  <2>1. recent' = recent /\ buflist' = buflist
    BY <1>7 DEF vars
  <2> QED BY <1>3, <2>1
<1>8. RecentInv'
  <2>1. CASE Next
    BY <1>1, <1>2, <1>4, <1>5, <1>6, <1>7, <2>1 DEF Next, Crashed
  <2> QED BY <1>7, <2>1
<1> QED BY <1>i, <1>8 DEF LruInv

(* The cache always holds the NBUFS blocks used last since binit, whatever  *)
(* calls came before and whether write() fails or not: a block is recycled  *)
(* only when NBUFS others have been used since.                             *)
THEOREM RecentBlocksCached == Spec => []KeepsMostRecent
<1>1. Init => LruInv
  BY InitIInv, InitLru DEF LruInv
<1>2. LruInv => KeepsMostRecent
  BY DEF LruInv, RecentInv
<1> QED BY <1>1, <1>2, NextLru, PTL DEF Spec
=============================================================================
