----------------------------- MODULE IsoProofs -----------------------------
(* The ISO 9660 driver, for every sound disc, every number of slots and     *)
(* every sequence of calls and read errors: what the slots of the inode     *)
(* table hold, that iso_open opens the file that was named, that a read     *)
(* covers the file and that a listing is complete.                          *)
EXTENDS Iso, TLAPS, WellFoundedInduction, SequenceTheorems, FiniteSetTheorems

(*** The inode table ***)

USE SlotsAssumption

Looking == pc \in {"look", "scan", "missing", "found"}

(* The slots, the locals that name slots, and what the descriptors remember. *)
SlotTypes ==
  /\ \A s \in Slots : table[s].free \in {0, 1}
  /\ DOMAIN table = Slots /\ table = [s \in Slots |-> table[s]]
  /\ \A s \in Slots : open[s].used \in {0, 1}
  /\ DOMAIN open = Slots /\ open = [s \in Slots |-> open[s]]
  /\ dir \in Slots \union {NoSlot} /\ root \in Slots \union {NoSlot}
  /\ oldinode \in Slots \union {NoSlot}

(* The directory in hand has the first slot that was free when the lookup   *)
(* began; that is why the root of a link's lookup, given back twice, cannot *)
(* be the slot of the file that was found.                                  *)
InHand ==
  /\ Looking => /\ dir \in Slots /\ table[dir].free = 0 /\ ~IsOpen(dir)
                /\ \A s \in Slots : s < dir => table[s].free = 0
                /\ root = IF oldinode = NoSlot THEN NoSlot ELSE dir
                /\ oldinode # dir
  /\ ~Looking => dir = NoSlot /\ root = NoSlot
  /\ pc = "follow" => oldinode \in Slots
  /\ pc \in {"idle", "list"} => oldinode = NoSlot
  /\ oldinode # NoSlot => table[oldinode].free = 0 /\ ~IsOpen(oldinode)

Opened ==
  \A s \in Slots : IsOpen(s) => table[s].free = 0 /\ table[s].inumber = open[s].ino

(* Every slot in use has an owner, unless one was lost since the mount. *)
Owned ==
  "lost" \in past \/ \A s \in Slots : table[s].free = 1 \/ IsOpen(s) \/ s \in {dir, oldinode}

IInv == SlotTypes /\ InHand /\ Opened /\ Owned
-----------------------------------------------------------------------------
LEMMA NoSlotNotSlot == NoSlot \notin Slots /\ Slots \subseteq Nat
BY DEF NoSlot, Slots

(* A set of slots has a least element. *)
LEMMA LeastSlot ==
  ASSUME NEW T, T \subseteq Slots, T # {}
  PROVE  \E s \in T : \A u \in T : s <= u
<1>1. T \subseteq Nat BY NoSlotNotSlot
<1>2. PICK s \in T : \A u \in T : ~(<< u, s >> \in OpToRel(<, Nat))
  BY <1>1, NatLessThanWellFounded, WFMin, Zenon
<1>3. \A u \in T : ~(u < s) BY <1>1, <1>2 DEF OpToRel
<1> QED BY <1>1, <1>3

LEMMA FirstFreeIsFree ==
  ASSUME NEW t, FirstFree(t) # NoSlot
  PROVE  /\ FirstFree(t) \in Slots /\ t[FirstFree(t)].free = 1
         /\ \A s \in Slots : t[s].free = 1 => FirstFree(t) <= s
<1>1. FreeSlots(t) # {} /\ FreeSlots(t) \subseteq Slots BY DEF FirstFree, FreeSlots
<1>2. \E s \in FreeSlots(t) : \A u \in FreeSlots(t) : s <= u BY <1>1, LeastSlot
<1>3. FirstFree(t) \in FreeSlots(t) /\ \A u \in FreeSlots(t) : FirstFree(t) <= u
  BY <1>1, <1>2 DEF FirstFree
<1> QED BY <1>1, <1>3 DEF FreeSlots

(* iso_iput clears a slot; on NoSlot it has no effect. *)
LEMMA Put ==
  ASSUME NEW t, NEW s, DOMAIN t = Slots
  PROVE  /\ iso_iput(t, s) = [u \in Slots |-> IF u = s THEN NoNode ELSE t[u]]
         /\ DOMAIN iso_iput(t, s) = Slots
         /\ \A u \in Slots : iso_iput(t, s)[u] = IF u = s THEN NoNode ELSE t[u]
BY DEF iso_iput

(* iso_iget fills the first free slot, or none. *)
LEMMA Get ==
  ASSUME NEW t, NEW ino, NEW bad, DOMAIN t = Slots
  PROVE  LET s == SlotGot(t, ino, bad)
             g == Got(t, ino, bad)
         IN /\ s = NoSlot => g = t
            /\ s # NoSlot => /\ s \in Slots /\ t[s].free = 1
                             /\ \A u \in Slots : t[u].free = 1 => s <= u
                             /\ DOMAIN g = Slots /\ g = [u \in Slots |-> g[u]]
                             /\ g[s].free = 0
                             /\ \A u \in Slots : u # s => g[u] = t[u]
<1> DEFINE s == SlotGot(t, ino, bad)
           g == Got(t, ino, bad)
           n == Node(ino, bad)
<1>1. s = NoSlot => g = t BY DEF Got
<1>2. ASSUME s # NoSlot
      PROVE  /\ s \in Slots /\ t[s].free = 1
             /\ \A u \in Slots : t[u].free = 1 => s <= u
  <2>1. s = FirstFree(t) BY <1>2 DEF SlotGot
  <2> QED BY <1>2, <2>1, FirstFreeIsFree
<1>3. n.free = 0 BY DEF Node
<1>4. ASSUME s # NoSlot PROVE g = [u \in Slots |-> IF u = s THEN n ELSE t[u]]
  <2>1. g = [t EXCEPT ![s] = n] BY <1>4 DEF Got
  <2> HIDE DEF s, g, n
  <2> QED BY <2>1, <1>4
<1> HIDE DEF s, g, n
<1>5. s # NoSlot => /\ DOMAIN g = Slots /\ g = [u \in Slots |-> g[u]]
                    /\ g[s].free = 0
                    /\ \A u \in Slots : u # s => g[u] = t[u]
  BY <1>2, <1>3, <1>4
<1> QED BY <1>1, <1>2, <1>5 DEF s, g

LEMMA InitInv == Init => IInv
BY NoSlotNotSlot DEF Init, IInv, SlotTypes, InHand, Opened, Owned, Looking, IsOpen, NoNode, NoFile
-----------------------------------------------------------------------------
(* A step that leaves the slots alone, and is in a lookup if it was. *)
LEMMA Frame ==
  ASSUME IInv, UNCHANGED << table, open, dir, root, oldinode, past >>,
         \/ pc' = pc
         \/ Looking /\ pc' \in {"look", "scan", "missing", "found"}
         \/ pc \in {"idle", "list"} /\ pc' \in {"idle", "list"}
  PROVE  IInv'
BY DEF IInv, SlotTypes, InHand, Opened, Owned, Looking, IsOpen

(* The end of a lookup, with table t in which only the directory's slot and *)
(* that of the file found, s, differ from the driver's.                     *)
LEMMA LeaveInv ==
  ASSUME IInv, Looking, NEW t, NEW s \in Slots \union {NoSlot}, Leave(t, s),
         DOMAIN t = Slots, t = [u \in Slots |-> t[u]],
         t[dir].free \in {0, 1},
         \A u \in Slots : u \notin {dir, s} => t[u] = table[u],
         s # NoSlot => t[s].free = 0 /\ table[s].free = 1,
         t[dir].free = 1 \/ oldinode # NoSlot \/ "lost" \in past',
         "lost" \in past => "lost" \in past'
  PROVE  IInv'
<1>1. dir \in Slots /\ NoSlot \notin Slots /\ table[dir].free = 0 /\ ~IsOpen(dir)
  BY NoSlotNotSlot DEF IInv, InHand
<1>2. s # dir /\ (s # NoSlot => s # oldinode /\ ~IsOpen(s))
  BY <1>1 DEF IInv, InHand, Opened, IsOpen
<1>3. /\ DOMAIN table' = Slots /\ table' = [u \in Slots |-> table'[u]]
      /\ \A u \in Slots : table'[u] = IF oldinode # NoSlot /\ u \in {dir, oldinode}
                                      THEN NoNode ELSE t[u]
  <2>1. CASE oldinode = NoSlot BY <2>1 DEF Leave
  <2>2. CASE oldinode # NoSlot
    <3>1. table' = iso_iput(iso_iput(t, dir), oldinode)
      BY <2>2 DEF Leave, IInv, InHand
    <3> QED BY <2>2, <3>1, Put
  <2> QED BY <2>1, <2>2
<1>4. NoNode.free = 1 BY DEF NoNode
<1>5. root' = NoSlot /\ dir' = NoSlot BY DEF Leave
<1>6. \A u \in Slots : table'[u].free \in {0, 1}
  BY <1>1, <1>2, <1>3, <1>4 DEF IInv, SlotTypes
<1>7. CASE s # NoSlot /\ t[s].mode = "link"
  <2>1. pc' = "follow" /\ oldinode' = s /\ open' = open BY <1>7 DEF Leave
  <2>2. table'[s].free = 0 BY <1>2, <1>3, <1>7
  <2>3. SlotTypes' BY <1>3, <1>5, <1>6, <2>1 DEF IInv, SlotTypes
  <2>4. InHand' BY <1>2, <1>5, <1>7, <2>1, <2>2 DEF InHand, Looking, IsOpen
  <2>5. Opened'
    BY <1>1, <1>2, <1>3, <2>1 DEF IInv, InHand, Opened, IsOpen
  <2>6. Owned'
    BY <1>1, <1>2, <1>3, <1>4, <2>1 DEF IInv, Owned, IsOpen
  <2> QED BY <2>3, <2>4, <2>5, <2>6 DEF IInv
<1>8. CASE ~(s # NoSlot /\ t[s].mode = "link")
  <2>1. pc' = "idle" /\ oldinode' = NoSlot BY <1>8 DEF Leave
  <2>2. /\ DOMAIN open' = Slots /\ open' = [u \in Slots |-> open'[u]]
        /\ \A u \in Slots : u # s => open'[u] = open[u]
        /\ s # NoSlot => open'[s].used = 1 /\ open'[s].ino = t[s].inumber
    BY <1>1, <1>8 DEF Leave, IInv, SlotTypes
  <2>3. \A u \in Slots : open'[u].used \in {0, 1} BY <1>1, <2>2 DEF IInv, SlotTypes
  <2>4. s # NoSlot => table'[s] = t[s] BY <1>2, <1>3
  <2>5. SlotTypes' BY <1>3, <1>5, <1>6, <2>1, <2>2, <2>3 DEF SlotTypes
  <2>6. InHand' BY <1>5, <2>1 DEF InHand, Looking
  <2>7. Opened'
    BY <1>1, <1>2, <1>3, <2>2, <2>4 DEF IInv, InHand, Opened, IsOpen
  <2>8. Owned'
    BY <1>1, <1>2, <1>3, <1>4, <2>2, <2>1 DEF IInv, Owned, IsOpen
  <2> QED BY <2>5, <2>6, <2>7, <2>8 DEF IInv
<1> QED BY <1>7, <1>8
-----------------------------------------------------------------------------
LEMMA MountInv == ASSUME IInv, iso_mount PROVE IInv'
BY NoSlotNotSlot
DEF iso_mount, openvars, IInv, SlotTypes, InHand, Opened, Owned, Looking, IsOpen, NoNode, NoFile

LEMMA OpenInv == ASSUME IInv, NEW name, iso_open(name) PROVE IInv'
<1>1. PICK bad : LET s == SlotGot(table, sb.root_inode, bad) IN
        /\ NoteDefect(sb.root_inode, s)
        /\ IF s = NoSlot \/ Node(sb.root_inode, bad).mode # "dir"
           THEN UNCHANGED << table, pc, openvars >>
           ELSE /\ table' = Got(table, sb.root_inode, bad)
                /\ pc' = "look" /\ dir' = s /\ path' = Split(name) /\ filename' = name
                /\ UNCHANGED << root, oldinode, scan >>
  BY DEF iso_open
<1> DEFINE s == SlotGot(table, sb.root_inode, bad)
           g == Got(table, sb.root_inode, bad)
<1>2. pc = "idle" /\ open' = open BY DEF iso_open
<1>3. "lost" \in past' <=> "lost" \in past BY <1>1 DEF NoteDefect
<1>4. /\ dir = NoSlot /\ root = NoSlot /\ oldinode = NoSlot /\ NoSlot \notin Slots
      /\ DOMAIN table = Slots
  BY <1>2, NoSlotNotSlot DEF IInv, InHand, Looking, SlotTypes
<1>5. CASE UNCHANGED << table, pc, openvars >>
  BY <1>2, <1>3, <1>5 DEF openvars, IInv, SlotTypes, InHand, Opened, Owned, Looking, IsOpen
<1>6. CASE s # NoSlot /\ table' = g /\ pc' = "look" /\ dir' = s /\ UNCHANGED << root, oldinode >>
  <2>1. /\ s \in Slots /\ table[s].free = 1
        /\ \A u \in Slots : table[u].free = 1 => s <= u
        /\ DOMAIN g = Slots /\ g = [u \in Slots |-> g[u]]
        /\ g[s].free = 0
        /\ \A u \in Slots : u # s => g[u] = table[u]
    BY <1>4, <1>6, Get
  <2> HIDE DEF s, g
  <2>2. ~IsOpen(s) BY <2>1 DEF IInv, Opened
  <2>3. SlotTypes' BY <1>2, <1>4, <1>6, <2>1 DEF IInv, SlotTypes
  <2>4. \A u \in Slots : u < s => g[u].free = 0
    <3> SUFFICES ASSUME NEW u \in Slots, u < s PROVE g[u].free = 0 OBVIOUS
    <3>1. u \in Nat /\ s \in Nat BY <2>1, NoSlotNotSlot
    <3>2. table[u].free # 1 BY <2>1, <3>1
    <3>3. table[u].free \in {0, 1} BY DEF IInv, SlotTypes
    <3> QED BY <2>1, <3>1, <3>2, <3>3
  <2>5. InHand' BY <1>2, <1>4, <1>6, <2>1, <2>2, <2>4 DEF InHand, Looking, IsOpen
  <2>6. Opened' BY <1>2, <1>6, <2>1, <2>2 DEF IInv, Opened, IsOpen
  <2>7. Owned' BY <1>2, <1>3, <1>4, <1>6, <2>1 DEF IInv, Owned, IsOpen
  <2> QED BY <2>3, <2>5, <2>6, <2>7 DEF IInv
<1> QED BY <1>1, <1>5, <1>6

LEMMA MissingInv == ASSUME IInv, LookupMissing PROVE IInv'
<1> DEFINE t == IF Len(path) > 1 THEN table ELSE iso_iput(table, dir)
<1>1. Looking /\ Leave(t, NoSlot) BY DEF LookupMissing, Looking
<1>2. /\ dir \in Slots /\ NoSlot \notin Slots /\ DOMAIN table = Slots
      /\ table = [u \in Slots |-> table[u]] /\ table[dir].free \in {0, 1}
  BY <1>1, NoSlotNotSlot DEF IInv, InHand, SlotTypes
<1>3. CASE Len(path) > 1
  <2>1. t = table BY <1>3
  <2>2. oldinode # NoSlot \/ "lost" \in past' BY <1>3 DEF LookupMissing
  <2>3. "lost" \in past => "lost" \in past' BY DEF LookupMissing
  <2> HIDE DEF t
  <2> QED BY <1>1, <1>2, <2>1, <2>2, <2>3, LeaveInv
<1>4. CASE ~(Len(path) > 1)
  <2>1. t = iso_iput(table, dir) BY <1>4
  <2>2. "lost" \in past => "lost" \in past' BY DEF LookupMissing
  <2> HIDE DEF t
  <2>3. /\ DOMAIN t = Slots /\ t = [u \in Slots |-> t[u]] /\ t[dir].free = 1
        /\ \A u \in Slots : u # dir => t[u] = table[u]
    BY <1>2, <2>1, Put DEF NoNode
  <2> QED BY <1>1, <1>2, <2>2, <2>3, LeaveInv
<1> QED BY <1>3, <1>4

LEMMA DirInv == ASSUME IInv, LookupDir PROVE IInv'
<1> DEFINE t == iso_iput(table, dir)
<1>1. PICK bad : LET s == SlotGot(t, scan.ino, bad) IN
        /\ NoteDefect(scan.ino, s)
        /\ IF s = NoSlot THEN Leave(t, NoSlot)
           ELSE /\ table' = Got(t, scan.ino, bad) /\ dir' = s
                /\ pc' = "look" /\ UNCHANGED << root, oldinode, open >>
  BY DEF LookupDir
<1> DEFINE s == SlotGot(t, scan.ino, bad)
           g == Got(t, scan.ino, bad)
<1>2. Looking BY DEF LookupDir, Looking
<1>3. /\ dir \in Slots /\ NoSlot \notin Slots /\ DOMAIN table = Slots
      /\ \A u \in Slots : u < dir => table[u].free = 0
  BY <1>2, NoSlotNotSlot DEF IInv, InHand, SlotTypes
<1>4. "lost" \in past' <=> "lost" \in past BY <1>1 DEF NoteDefect
<1>5. /\ DOMAIN t = Slots /\ t = [u \in Slots |-> t[u]] /\ t[dir].free = 1
      /\ \A u \in Slots : u # dir => t[u] = table[u]
  BY <1>3, Put DEF NoNode
<1>6. CASE s = NoSlot
  <2>1. Leave(t, NoSlot) BY <1>1, <1>6
  <2> HIDE DEF t, s
  <2> QED BY <1>2, <1>3, <1>4, <1>5, <2>1, LeaveInv
<1>7. CASE s # NoSlot
  <2>1. table' = g /\ dir' = s /\ pc' = "look" /\ UNCHANGED << root, oldinode, open >>
    BY <1>1, <1>7
  <2> HIDE DEF t
  <2>2. /\ s \in Slots /\ t[s].free = 1
        /\ \A u \in Slots : t[u].free = 1 => s <= u
        /\ DOMAIN g = Slots /\ g = [u \in Slots |-> g[u]]
        /\ g[s].free = 0
        /\ \A u \in Slots : u # s => g[u] = t[u]
    BY <1>5, <1>7, Get
  <2> HIDE DEF s, g
  \* the directory's slot was the first free one, so it is taken again
  <2>3. s = dir
    <3>1. s \in Nat /\ dir \in Nat /\ s <= dir BY <1>3, <1>5, <2>2, NoSlotNotSlot
    <3>2. ASSUME s < dir PROVE FALSE
      <4>1. s # dir /\ table[s].free = 0 BY <1>3, <2>2, <3>1, <3>2
      <4> QED BY <1>5, <2>2, <4>1
    <3> QED BY <3>1, <3>2
  <2>4. \A u \in Slots : u # dir => table'[u] = table[u] BY <1>5, <2>1, <2>2, <2>3
  <2>5. SlotTypes' BY <2>1, <2>2, <2>3, <2>4 DEF IInv, SlotTypes
  <2>6. table'[dir].free = 0 /\ dir' = dir BY <2>1, <2>2, <2>3
  <2>7. InHand'
    BY <1>2, <1>3, NoSlotNotSlot, <2>1, <2>4, <2>6 DEF IInv, InHand, Looking, IsOpen, SlotTypes
  <2>8. Opened' BY <1>2, <2>1, <2>4 DEF IInv, Opened, IsOpen, InHand
  <2>9. Owned' BY <1>4, <2>1, <2>4, <2>6 DEF IInv, Owned, IsOpen
  <2> QED BY <2>5, <2>7, <2>8, <2>9 DEF IInv
<1> QED BY <1>6, <1>7

LEMMA LastInv == ASSUME IInv, LookupLast PROVE IInv'
<1>1. PICK bad : LET s == SlotGot(table, scan.ino, bad) IN
        /\ NoteDefect(scan.ino, s)
        /\ Leave(iso_iput(Got(table, scan.ino, bad), dir), s)
  BY DEF LookupLast
<1> DEFINE s == SlotGot(table, scan.ino, bad)
           g == Got(table, scan.ino, bad)
           t == iso_iput(g, dir)
<1>2. Looking BY DEF LookupLast, Looking
<1>3. /\ dir \in Slots /\ NoSlot \notin Slots /\ DOMAIN table = Slots /\ table[dir].free = 0
      /\ table = [u \in Slots |-> table[u]]
  BY <1>2, NoSlotNotSlot DEF IInv, InHand, SlotTypes
<1>4. "lost" \in past' <=> "lost" \in past BY <1>1 DEF NoteDefect
<1>5. Leave(t, s) BY <1>1
<1>6. /\ s = NoSlot => g = table
      /\ s # NoSlot => /\ s \in Slots /\ table[s].free = 1
                       /\ DOMAIN g = Slots /\ g[s].free = 0
                       /\ \A u \in Slots : u # s => g[u] = table[u]
  BY <1>3, Get
<1> HIDE DEF s, g
<1>7. DOMAIN g = Slots /\ \A u \in Slots : u # s => g[u] = table[u] BY <1>3, <1>6
<1>8. /\ DOMAIN t = Slots /\ t = [u \in Slots |-> t[u]] /\ t[dir].free = 1
      /\ \A u \in Slots : u # dir => t[u] = g[u]
  BY <1>3, <1>7, Put DEF NoNode
<1> HIDE DEF t
<1>9. s # NoSlot => t[s].free = 0 /\ table[s].free = 1 BY <1>3, <1>6, <1>8
<1> QED BY <1>2, <1>3, <1>4, <1>5, <1>6, <1>7, <1>8, <1>9, LeaveInv

LEMMA FollowInv == ASSUME IInv, iso_follow_link PROVE IInv'
<1> DEFINE Early(s, t) ==
             /\ table' = iso_iput(t, oldinode) /\ pc' = "idle" /\ oldinode' = NoSlot
             /\ past' = IF s = NoSlot THEN past ELSE past \union {"lost"}
             /\ UNCHANGED << dir, root >>
           Start(s, t) ==
             /\ table' = t /\ root' = s /\ dir' = s
             /\ pc' = IF s = NoSlot THEN "dead" ELSE "look"
             /\ UNCHANGED << oldinode, past >>
<1>1. PICK bad : LET s == SlotGot(table, sb.root_inode, bad)
                     t == Got(table, sb.root_inode, bad)
                 IN Early(s, t) \/ Start(s, t)
  BY DEF iso_follow_link
<1> DEFINE s == SlotGot(table, sb.root_inode, bad)
           t == Got(table, sb.root_inode, bad)
<1>2. pc = "follow" /\ open' = open BY DEF iso_follow_link
<1>3. /\ dir = NoSlot /\ root = NoSlot /\ oldinode \in Slots /\ NoSlot \notin Slots
      /\ table[oldinode].free = 0 /\ ~IsOpen(oldinode)
      /\ DOMAIN table = Slots /\ table = [u \in Slots |-> table[u]]
  BY <1>2, NoSlotNotSlot DEF IInv, InHand, Looking, SlotTypes
<1>4. /\ s = NoSlot => t = table
      /\ s # NoSlot => /\ s \in Slots /\ table[s].free = 1
                       /\ \A u \in Slots : table[u].free = 1 => s <= u
                       /\ DOMAIN t = Slots /\ t = [u \in Slots |-> t[u]] /\ t[s].free = 0
                       /\ \A u \in Slots : u # s => t[u] = table[u]
  BY <1>3, Get
<1>5. Early(s, t) \/ Start(s, t) BY <1>1
<1> HIDE DEF s, t
<1>6. DOMAIN t = Slots /\ t = [u \in Slots |-> t[u]] /\ \A u \in Slots : u # s => t[u] = table[u]
  BY <1>3, <1>4
<1>7. \A u \in Slots : t[u].free \in {0, 1} BY <1>4, <1>6 DEF IInv, SlotTypes
<1>8. s # NoSlot => ~IsOpen(s) /\ s # oldinode BY <1>3, <1>4 DEF IInv, Opened
<1>9. CASE Early(s, t)
  <2>1. /\ DOMAIN table' = Slots /\ table' = [u \in Slots |-> table'[u]]
        /\ \A u \in Slots : table'[u] = IF u = oldinode THEN NoNode ELSE t[u]
    BY <1>6, <1>9, Put
  <2>2. SlotTypes' BY <1>2, <1>3, <1>7, <1>9, <2>1 DEF IInv, SlotTypes, NoNode
  <2>3. InHand' BY <1>3, <1>9 DEF InHand, Looking
  <2>4. Opened' BY <1>2, <1>3, <1>6, <1>8, <2>1 DEF IInv, Opened, IsOpen
  <2>5. Owned'
    <3>1. CASE s = NoSlot BY <1>2, <1>3, <1>4, <1>9, <2>1, <3>1 DEF IInv, Owned, IsOpen, NoNode
    <3>2. CASE s # NoSlot BY <1>9, <3>2 DEF Owned
    <3> QED BY <3>1, <3>2
  <2> QED BY <2>2, <2>3, <2>4, <2>5 DEF IInv
<1>10. CASE Start(s, t)
  <2>1. SlotTypes' BY <1>2, <1>4, <1>6, <1>7, <1>10 DEF IInv, SlotTypes
  <2>2. s # NoSlot => \A u \in Slots : u < s => t[u].free = 0
    <3> SUFFICES ASSUME s # NoSlot, NEW u \in Slots, u < s PROVE t[u].free = 0 OBVIOUS
    <3>1. u \in Nat /\ s \in Nat BY <1>4, NoSlotNotSlot
    <3>2. table[u].free # 1 /\ u # s BY <1>4, <3>1
    <3> QED BY <1>6, <1>7, <3>2
  <2>3. t[oldinode] = table[oldinode] BY <1>3, <1>6, <1>8
  <2>4. InHand'
    BY <1>2, <1>3, <1>4, <1>8, <1>10, <2>2, <2>3 DEF InHand, Looking, IsOpen
  <2>5. Opened' BY <1>2, <1>3, <1>6, <1>8, <1>10 DEF IInv, Opened, IsOpen
  <2>6. Owned'
    <3>1. past' = past /\ dir' = s /\ oldinode' = oldinode /\ table' = t BY <1>10
    <3>2. ASSUME "lost" \notin past, NEW u \in Slots
          PROVE  t[u].free = 1 \/ IsOpen(u) \/ u \in {s, oldinode}
      <4>1. u = s \/ t[u] = table[u] BY <1>6
      <4>2. table[u].free = 1 \/ IsOpen(u) \/ u = oldinode
        BY <1>3, <3>2 DEF IInv, Owned
      <4> QED BY <4>1, <4>2
    <3> QED BY <1>2, <3>1, <3>2 DEF Owned, IsOpen
  <2> QED BY <2>1, <2>4, <2>5, <2>6 DEF IInv
<1> QED BY <1>5, <1>9, <1>10

LEMMA CloseInv == ASSUME IInv, NEW fd \in Slots, iso_close(fd) PROVE IInv'
<1>1. /\ pc = "idle" /\ pc' = "idle" /\ past' = past
      /\ UNCHANGED << dir, root, oldinode >> /\ table' = iso_iput(table, fd)
      /\ open' = [open EXCEPT ![fd] = NoFile]
  BY DEF iso_close, openvars
<1>2. DOMAIN table = Slots /\ DOMAIN open = Slots BY DEF IInv, SlotTypes
<1>3. /\ DOMAIN table' = Slots /\ table' = [u \in Slots |-> table'[u]]
      /\ \A u \in Slots : table'[u] = IF u = fd THEN NoNode ELSE table[u]
  BY <1>1, <1>2, Put
<1>4. /\ DOMAIN open' = Slots /\ open' = [u \in Slots |-> open'[u]]
      /\ \A u \in Slots : open'[u] = IF u = fd THEN NoFile ELSE open[u]
  BY <1>1, <1>2
<1>5. SlotTypes' BY <1>1, <1>3, <1>4 DEF IInv, SlotTypes, NoNode, NoFile
<1>6. InHand' BY <1>1, NoSlotNotSlot DEF IInv, InHand, Looking
<1>7. Opened' BY <1>3, <1>4 DEF IInv, Opened, IsOpen, NoFile
<1>8. Owned' BY <1>1, <1>3, <1>4 DEF IInv, Owned, IsOpen, NoNode
<1> QED BY <1>5, <1>6, <1>7, <1>8 DEF IInv

LEMMA NextInv == ASSUME IInv, [Next]_vars PROVE IInv'
<1>1. CASE FindStart BY <1>1, Frame DEF FindStart, Looking
<1>2. CASE iso_find_entry
  BY <1>2, Frame DEF iso_find_entry, ScanEnd, ScanSector, ScanRecord, Missing, Looking
<1>3. CASE iso_readdir
  BY <1>3, Frame, Zenon DEF iso_readdir, ListRecord, EndOfList, openvars
<1>4. CASE \E fd \in Slots : iso_fstat(fd) BY <1>4, Frame DEF iso_fstat, openvars
<1>5. CASE \E fd \in Slots : ListStart(fd) BY <1>5, Frame DEF ListStart, openvars
<1>6. CASE \E fd \in Slots, blkno \in 0 .. MaxBlkno, nblks \in 1 .. MaxRun :
             iso_bread(fd, blkno, nblks)
  BY <1>6, Frame DEF iso_bread, openvars
<1>7. CASE Rest \/ UNCHANGED vars BY <1>7, Frame DEF Rest, vars, openvars
<1>8. CASE LookupMissing BY <1>8, MissingInv
<1>9. CASE LookupDir BY <1>9, DirInv
<1>10. CASE LookupLast BY <1>10, LastInv
<1>11. CASE iso_follow_link BY <1>11, FollowInv
<1>12. CASE iso_mount BY <1>12, MountInv
<1>13. CASE \E name \in Requests : iso_open(name) BY <1>13, OpenInv
<1>14. CASE \E fd \in Slots : iso_close(fd) BY <1>14, CloseInv
<1> QED BY <1>1, <1>2, <1>3, <1>4, <1>5, <1>6, <1>7, <1>8, <1>9, <1>10, <1>11, <1>12,
           <1>13, <1>14 DEF Next, Driver, User

LEMMA Invariance == Spec => []IInv
<1>1. IInv /\ [Next]_vars => IInv' BY NextInv
<1> QED BY <1>1, InitInv, PTL DEF Spec

(* No call and no failed read takes an open descriptor's inode away, not    *)
(* even iso_follow_link, which gives the root's slot back a second time     *)
(* when another inode might have it.                                        *)
THEOREM DescriptorsKept == Spec => []FdKept
<1>1. IInv => FdKept
  BY NoSlotNotSlot DEF IInv, SlotTypes, InHand, Opened, FdKept, IsOpen
<1> QED BY <1>1, Invariance, PTL

(* Between calls every slot in use belongs to an open descriptor, unless a  *)
(* lookup lost one: through a directory that does not exist or a link whose *)
(* text could not be had.                                                   *)
THEOREM NoOtherLoss == Spec => []SlotsAccounted
<1>1. IInv => SlotsAccounted
  BY NoSlotNotSlot DEF IInv, SlotTypes, InHand, Owned, SlotsAccounted, Looking
<1> QED BY <1>1, Invariance, PTL

HIDE SlotsAssumption
-----------------------------------------------------------------------------
(*** Names, their parts and the links they go through ***)

LEMMA LeastNat ==
  ASSUME NEW T, T \subseteq Nat, T # {}
  PROVE  \E t \in T : \A y \in T : t <= y
<1> DEFINE R == OpToRel(<, Nat)
<1>1. IsWellFoundedOn(R, Nat) BY NatLessThanWellFounded, Zenon
<1>2. R = {ss \in Nat \X Nat : ss[1] < ss[2]} BY Zenon DEF OpToRel
<1> HIDE DEF R
<1>3. \E t \in T : \A y \in T : ~(<< y, t >> \in R) BY <1>1, WFMin, Zenon
<1>4. PICK t \in T : \A y \in T : ~(<< y, t >> \in R) BY <1>3
<1>5. ASSUME NEW y \in T PROVE t <= y
  <2>1. << y, t >> \notin R BY <1>4
  <2> QED BY <1>2, <2>1
<1> QED BY <1>5

LEMMA SetInduction ==
  ASSUME NEW n \in Nat, NEW S, 0 \in S, \A i \in 0 .. n - 1 : i \in S => i + 1 \in S
  PROVE  0 .. n \subseteq S
<1> DEFINE T == {i \in 0 .. n : i \notin S}
           R == OpToRel(<, Nat)
<1>1. IsWellFoundedOn(R, Nat) BY NatLessThanWellFounded, Zenon
<1>2. R = {ss \in Nat \X Nat : ss[1] < ss[2]} BY Zenon DEF OpToRel
<1>3. T \subseteq Nat OBVIOUS
<1> SUFFICES ASSUME T # {} PROVE FALSE OBVIOUS
<1> HIDE DEF R
<1>4. PICK x \in T : \A y \in T : ~(<< y, x >> \in R)
  <2> HIDE DEF T
  <2>1. \E x \in T : \A y \in T : ~(<< y, x >> \in R) BY <1>1, <1>3, WFMin, Zenon
  <2> QED BY <2>1
<1>5. x # 0 /\ x \in 0 .. n /\ x \notin S OBVIOUS
<1>6. x - 1 \in 0 .. n - 1 BY <1>5
<1>7. << x - 1, x >> \in R BY <1>2, <1>5, <1>6
<1>8. x - 1 \notin T BY <1>4, <1>7
<1>9. x - 1 \in S BY <1>6, <1>8
<1>10. (x - 1) + 1 \in S BY <1>6, <1>9
<1> QED BY <1>5, <1>10
-----------------------------------------------------------------------------
(* Names *)

SplitStep(parts, u) ==
  IF u = "/" THEN Append(parts, << >>) ELSE [parts EXCEPT ![Len(parts)] = Append(@, u)]

SplitFun(name, n, f) ==
  f = [i \in 0 .. n |-> IF i = 0 THEN << << >> >> ELSE SplitStep(f[i - 1], name[i])]

LEMMA SplitHas ==
  ASSUME NEW name, Len(name) \in Nat
  PROVE  \E f : SplitFun(name, Len(name), f) /\ Split(name) = f[Len(name)]
<1> DEFINE n == Len(name)
           S == {k \in 0 .. n : \E f : SplitFun(name, k, f)}
<1>1. 0 \in S
  <2>1. SplitFun(name, 0, [i \in 0 .. 0 |-> << << >> >>]) BY DEF SplitFun
  <2> QED BY <2>1
<1>2. ASSUME NEW k \in 0 .. n - 1, k \in S PROVE k + 1 \in S
  <2>1. PICK f : SplitFun(name, k, f) BY <1>2
  <2> DEFINE g == [i \in 0 .. k + 1 |-> IF i = k + 1 THEN SplitStep(f[k], name[k + 1]) ELSE f[i]]
  <2>2. f = [i \in 0 .. k |-> IF i = 0 THEN << << >> >> ELSE SplitStep(f[i - 1], name[i])]
    BY <2>1 DEF SplitFun
  <2>3. g = [i \in 0 .. k + 1 |-> IF i = 0 THEN << << >> >> ELSE SplitStep(g[i - 1], name[i])]
    BY <2>2
  <2> HIDE DEF g
  <2>4. SplitFun(name, k + 1, g) BY <2>3 DEF SplitFun
  <2> QED BY <2>4
<1>3. \E f : SplitFun(name, n, f)
  <2>0. n \in Nat OBVIOUS
  <2> HIDE DEF S, n
  <2>1. 0 .. n \subseteq S BY <1>1, <1>2, <2>0, SetInduction
  <2>2. n \in S BY <2>0, <2>1
  <2> QED BY <2>2 DEF S
<1>4. Split(name) = (CHOOSE f : SplitFun(name, n, f))[n]
  BY Zenon DEF Split, Fold, SplitStep, SplitFun
<1> HIDE DEF n
<1> QED BY <1>3, <1>4, Zenon DEF n

(* A fold over a longer name goes through the folds over its beginnings. *)
LEMMA SplitAppend ==
  ASSUME NEW U, NEW name \in Seq(U), NEW u \in U
  PROVE  Split(Append(name, u)) = SplitStep(Split(name), u)
<1> DEFINE n == Len(name)
           long == Append(name, u)
<1>1. n \in Nat /\ long \in Seq(U) /\ Len(long) = n + 1 /\ long[n + 1] = u
      /\ \A i \in 1 .. n : long[i] = name[i]
  OBVIOUS
<1>2. PICK f : SplitFun(name, Len(name), f) /\ Split(name) = f[n] BY SplitHas
<1> HIDE DEF n, long
<1>3. PICK g : SplitFun(long, Len(long), g) /\ Split(long) = g[Len(long)] BY <1>1, SplitHas
<1>4. /\ f[0] = << << >> >> /\ g[0] = << << >> >>
      /\ \A i \in 1 .. n : f[i] = SplitStep(f[i - 1], name[i])
      /\ \A i \in 1 .. n + 1 : g[i] = SplitStep(g[i - 1], long[i])
  <2>1. f = [i \in 0 .. n |-> IF i = 0 THEN << << >> >> ELSE SplitStep(f[i - 1], name[i])]
    BY <1>2 DEF SplitFun, n
  <2>2. g = [i \in 0 .. n + 1 |-> IF i = 0 THEN << << >> >> ELSE SplitStep(g[i - 1], long[i])]
    BY <1>1, <1>3 DEF SplitFun
  <2>3. f[0] = << << >> >> /\ \A i \in 1 .. n : f[i] = SplitStep(f[i - 1], name[i])
    BY <1>1, <2>1
  <2>4. g[0] = << << >> >> /\ \A i \in 1 .. n + 1 : g[i] = SplitStep(g[i - 1], long[i])
    BY <1>1, <2>2
  <2> QED BY <2>3, <2>4
<1> DEFINE S == {i \in 0 .. n : f[i] = g[i]}
<1>5. 0 \in S
  <2>1. f[0] = g[0] BY <1>4
  <2>2. 0 \in 0 .. n BY <1>1
  <2> QED BY <2>1, <2>2
<1>6. ASSUME NEW i \in 0 .. n - 1, i \in S PROVE i + 1 \in S
  <2>1. i + 1 \in 1 .. n /\ i + 1 \in 1 .. n + 1 /\ (i + 1) - 1 = i /\ i + 1 \in 0 .. n BY <1>1, <1>6
  <2>2. f[i + 1] = SplitStep(f[i], name[i + 1]) BY <1>4, <2>1
  <2>3. g[i + 1] = SplitStep(g[i], long[i + 1]) BY <1>4, <2>1
  <2>4. long[i + 1] = name[i + 1] /\ f[i] = g[i] BY <1>1, <2>1, <1>6
  <2> QED BY <2>1, <2>2, <2>3, <2>4
<1>7. n \in S
  <2> HIDE DEF S
  <2>1. 0 .. n \subseteq S BY <1>1, <1>5, <1>6, SetInduction
  <2> QED BY <1>1, <2>1
<1>8. g[n + 1] = SplitStep(g[n], long[n + 1])
  <2>1. n + 1 \in 1 .. n + 1 /\ (n + 1) - 1 = n BY <1>1
  <2> QED BY <1>4, <2>1
<1>9. Split(long) = SplitStep(Split(name), u) BY <1>1, <1>2, <1>3, <1>7, <1>8
<1> QED BY <1>9 DEF long

LEMMA SplitEmpty == Split(<< >>) = << << >> >>
<1>1. PICK f : SplitFun(<< >>, Len(<< >>), f) /\ Split(<< >>) = f[Len(<< >>)] BY SplitHas
<1>2. f[0] = << << >> >> BY <1>1 DEF SplitFun
<1> QED BY <1>1, <1>2

LEMMA Prefix ==
  ASSUME NEW U, NEW s \in Seq(U)
  PROVE  /\ SubSeq(s, 1, 0) = << >> /\ SubSeq(s, 1, Len(s)) = s
         /\ \A i \in 0 .. Len(s) : SubSeq(s, 1, i) \in Seq(U)
         /\ \A i \in 0 .. Len(s) - 1 :
              s[i + 1] \in U /\ SubSeq(s, 1, i + 1) = Append(SubSeq(s, 1, i), s[i + 1])
<1>1. SubSeq(s, 1, 0) = << >> OBVIOUS
<1>2. SubSeq(s, 1, Len(s)) = s OBVIOUS
<1>3. \A i \in 0 .. Len(s) : SubSeq(s, 1, i) \in Seq(U) OBVIOUS
<1>4. ASSUME NEW i \in 0 .. Len(s) - 1
      PROVE  s[i + 1] \in U /\ SubSeq(s, 1, i + 1) = Append(SubSeq(s, 1, i), s[i + 1])
  <2>1. s[i + 1] \in U OBVIOUS
  <2>2. SubSeq(s, 1, i + 1) = Append(SubSeq(s, 1, i), s[i + 1]) OBVIOUS
  <2> QED BY <2>1, <2>2
<1> QED BY <1>1, <1>2, <1>3, <1>4

LEMMA SplitStepType ==
  ASSUME NEW U, NEW p \in Seq(Seq(U)), p # << >>, NEW u \in U
  PROVE  SplitStep(p, u) \in Seq(Seq(U)) /\ SplitStep(p, u) # << >>
<1>1. Len(p) \in DOMAIN p /\ p[Len(p)] \in Seq(U) OBVIOUS
<1>2. CASE u = "/"
  <2>1. << >> \in Seq(U) OBVIOUS
  <2> QED BY <1>2, <2>1 DEF SplitStep
<1>3. CASE u # "/"
  <2>1. SplitStep(p, u) = [p EXCEPT ![Len(p)] = Append(p[Len(p)], u)] BY <1>3 DEF SplitStep
  <2>2. Append(p[Len(p)], u) \in Seq(U) BY <1>1
  <2> HIDE DEF SplitStep
  <2>3. SplitStep(p, u) \in Seq(Seq(U)) /\ Len(SplitStep(p, u)) = Len(p) BY <1>1, <2>1, <2>2
  <2> QED BY <2>3
<1> QED BY <1>2, <1>3

LEMMA SplitType ==
  ASSUME NEW U, NEW name \in Seq(U)
  PROVE  Split(name) \in Seq(Seq(U)) /\ Split(name) # << >>
<1> DEFINE S == {i \in 0 .. Len(name) : /\ Split(SubSeq(name, 1, i)) \in Seq(Seq(U))
                                        /\ Split(SubSeq(name, 1, i)) # << >>}
<1>1. 0 \in S
  <2>1. << << >> >> \in Seq(Seq(U)) /\ << << >> >> # << >> OBVIOUS
  <2>2. SubSeq(name, 1, 0) = << >> BY Prefix
  <2>3. 0 \in 0 .. Len(name) OBVIOUS
  <2> QED BY <2>1, <2>2, <2>3, SplitEmpty
<1>2. ASSUME NEW i \in 0 .. Len(name) - 1, i \in S PROVE i + 1 \in S
  <2> DEFINE a == SubSeq(name, 1, i)
  <2>1. a \in Seq(U) /\ name[i + 1] \in U /\ SubSeq(name, 1, i + 1) = Append(a, name[i + 1])
    BY Prefix
  <2>2. Split(a) \in Seq(Seq(U)) /\ Split(a) # << >> BY <1>2
  <2> HIDE DEF a
  <2>3. Split(Append(a, name[i + 1])) = SplitStep(Split(a), name[i + 1]) BY <2>1, SplitAppend
  <2>4. /\ SplitStep(Split(a), name[i + 1]) \in Seq(Seq(U))
        /\ SplitStep(Split(a), name[i + 1]) # << >>
    BY <2>1, <2>2, SplitStepType
  <2>5. i + 1 \in 0 .. Len(name) OBVIOUS
  <2> QED BY <2>1, <2>3, <2>4, <2>5
<1>3. Len(name) \in S
  <2> HIDE DEF S
  <2>1. 0 .. Len(name) \subseteq S BY <1>1, <1>2, SetInduction
  <2> QED BY <2>1
<1> QED BY <1>3, Prefix

LEMMA SplitStepJoin ==
  ASSUME NEW V, NEW x \in Seq(V), NEW p \in Seq(V), p # << >>, NEW u
  PROVE  SplitStep(x \o p, u) = x \o SplitStep(p, u)
<1>0. Len(p) \in Nat /\ Len(p) >= 1 OBVIOUS
<1>1. CASE u = "/" BY <1>1 DEF SplitStep
<1>2. CASE u # "/"
  <2> DEFINE w == Append(p[Len(p)], u)
  <2>1. SplitStep(p, u) = [p EXCEPT ![Len(p)] = w] BY <1>2 DEF SplitStep
  <2>2. SplitStep(x \o p, u) = [x \o p EXCEPT ![Len(x) + Len(p)] = w]
    <3>1. Len(x \o p) = Len(x) + Len(p) /\ (x \o p)[Len(x) + Len(p)] = p[Len(p)] BY <1>0
    <3> QED BY <1>2, <3>1 DEF SplitStep
  <2> HIDE DEF w
  <2>3. [x \o p EXCEPT ![Len(x) + Len(p)] = w] = x \o [p EXCEPT ![Len(p)] = w]
    <3> DEFINE q == [p EXCEPT ![Len(p)] = w]
               r == [x \o p EXCEPT ![Len(x) + Len(p)] = w]
    <3>1. q \in Seq(V \union {w}) /\ Len(q) = Len(p) BY <1>0
    <3>2. x \in Seq(V \union {w}) OBVIOUS
    <3>3. r \in Seq(V \union {w}) /\ Len(r) = Len(x) + Len(p) BY <1>0
    <3>4. x \o q \in Seq(V \union {w}) /\ Len(x \o q) = Len(x) + Len(p) BY <3>1, <3>2
    <3>5. ASSUME NEW i \in 1 .. Len(x) + Len(p) PROVE r[i] = (x \o q)[i]
      <4>1. (x \o p)[i] = IF i <= Len(x) THEN x[i] ELSE p[i - Len(x)] BY ConcatProperties
      <4>2. (x \o q)[i] = IF i <= Len(x) THEN x[i] ELSE q[i - Len(x)]
        <5> HIDE DEF q
        <5> QED BY <3>1, <3>2, ConcatProperties
      <4>3. DOMAIN (x \o p) = 1 .. Len(x) + Len(p) OBVIOUS
      <4>4. r[i] = IF i = Len(x) + Len(p) THEN w ELSE (x \o p)[i] BY <1>0, <4>3
      <4>5. CASE i <= Len(x) BY <1>0, <4>1, <4>2, <4>4, <4>5
      <4>6. CASE i > Len(x)
        <5>1. i - Len(x) \in 1 .. Len(p) /\ DOMAIN p = 1 .. Len(p) BY <1>0, <4>6
        <5>2. q[i - Len(x)] = IF i - Len(x) = Len(p) THEN w ELSE p[i - Len(x)] BY <5>1
        <5> QED BY <1>0, <4>1, <4>2, <4>4, <4>6, <5>1, <5>2
      <4> QED BY <4>5, <4>6
    <3> HIDE DEF q, r
    <3>6. r = x \o q BY <3>3, <3>4, <3>5, SeqEqual
    <3> QED BY <3>6 DEF q, r
  <2> QED BY <2>1, <2>2, <2>3
<1> QED BY <1>1, <1>2

LEMMA ConcatAppend ==
  ASSUME NEW U, NEW c \in Seq(U), NEW e \in Seq(U), NEW u \in U
  PROVE  c \o Append(e, u) = Append(c \o e, u)
OBVIOUS

(* A name cut at a slash is split at it. *)
LEMMA SplitJoin ==
  ASSUME NEW U, NEW a \in Seq(U), NEW b \in Seq(U), "/" \in U
  PROVE  Split(Append(a, "/") \o b) = Split(a) \o Split(b)
<1> DEFINE x == Split(a)
           c == Append(a, "/")
           S == {i \in 0 .. Len(b) : Split(c \o SubSeq(b, 1, i)) = x \o Split(SubSeq(b, 1, i))}
<1>1. x \in Seq(Seq(U)) /\ x # << >> BY SplitType
<1>2. c \in Seq(U) OBVIOUS
<1>3. Split(c) = x \o << << >> >>
  <2>1. Split(c) = SplitStep(x, "/") BY SplitAppend
  <2> HIDE DEF x
  <2>2. SplitStep(x, "/") = Append(x, << >>) BY DEF SplitStep
  <2>3. << >> \in Seq(U) OBVIOUS
  <2> QED BY <1>1, <2>1, <2>2, <2>3, AppendIsConcat
<1> HIDE DEF x, c
<1>4. 0 \in S
  <2>1. SubSeq(b, 1, 0) = << >> /\ c \o << >> = c BY <1>2, Prefix, ConcatEmptySeq
  <2>2. Split(<< >>) = << << >> >> BY SplitEmpty
  <2>3. Split(c \o SubSeq(b, 1, 0)) = x \o Split(SubSeq(b, 1, 0)) BY <1>3, <2>1, <2>2
  <2>4. 0 \in 0 .. Len(b) OBVIOUS
  <2> QED BY <2>3, <2>4
<1>5. ASSUME NEW i \in 0 .. Len(b) - 1, i \in S PROVE i + 1 \in S
  <2> DEFINE e == SubSeq(b, 1, i)
  <2>1. e \in Seq(U) /\ b[i + 1] \in U /\ SubSeq(b, 1, i + 1) = Append(e, b[i + 1]) BY Prefix
  <2>2. Split(c \o e) = x \o Split(e) BY <1>5
  <2> HIDE DEF e
  <2>3. c \o e \in Seq(U) BY <1>2, <2>1, ConcatProperties
  <2>4. c \o Append(e, b[i + 1]) = Append(c \o e, b[i + 1])
    <3>1. c \in Seq(U) /\ e \in Seq(U) BY <1>2, <2>1
    <3> QED BY <2>1, <3>1, ConcatAppend
  <2>5. Split(Append(c \o e, b[i + 1])) = SplitStep(x \o Split(e), b[i + 1])
    BY <2>1, <2>2, <2>3, SplitAppend
  <2>6. Split(Append(e, b[i + 1])) = SplitStep(Split(e), b[i + 1]) BY <2>1, SplitAppend
  <2>7. Split(e) \in Seq(Seq(U)) /\ Split(e) # << >> BY <2>1, SplitType
  <2>8. SplitStep(x \o Split(e), b[i + 1]) = x \o SplitStep(Split(e), b[i + 1])
    BY <1>1, <2>7, SplitStepJoin
  <2>9. i + 1 \in 0 .. Len(b) OBVIOUS
  <2> QED BY <2>1, <2>4, <2>5, <2>6, <2>8, <2>9
<1>6. Len(b) \in S
  <2> HIDE DEF S
  <2>0. Len(b) \in Nat OBVIOUS
  <2>1. 0 .. Len(b) \subseteq S BY <1>4, <1>5, <2>0, SetInduction
  <2> QED BY <2>1
<1>7. SubSeq(b, 1, Len(b)) = b BY Prefix
<1>8. Split(c \o b) = x \o Split(b) BY <1>6, <1>7
<1> QED BY <1>8 DEF x, c

(* A name without a slash has one part. *)
LEMMA SplitPlain ==
  ASSUME NEW U, NEW b \in Seq(U), \A i \in 1 .. Len(b) : b[i] # "/"
  PROVE  Split(b) = << b >>
<1> DEFINE S == {i \in 0 .. Len(b) : Split(SubSeq(b, 1, i)) = << SubSeq(b, 1, i) >>}
<1>1. 0 \in S
  <2>1. SubSeq(b, 1, 0) = << >> BY Prefix
  <2>2. 0 \in 0 .. Len(b) OBVIOUS
  <2> QED BY <2>1, <2>2, SplitEmpty
<1>2. ASSUME NEW i \in 0 .. Len(b) - 1, i \in S PROVE i + 1 \in S
  <2> DEFINE e == SubSeq(b, 1, i)
  <2>1. e \in Seq(U) /\ b[i + 1] \in U /\ SubSeq(b, 1, i + 1) = Append(e, b[i + 1]) BY Prefix
  <2>2. Split(e) = << e >> BY <1>2
  <2> HIDE DEF e
  <2>3. Split(Append(e, b[i + 1])) = SplitStep(<< e >>, b[i + 1]) BY <2>1, <2>2, SplitAppend
  <2>4. b[i + 1] # "/" OBVIOUS
  <2>5. SplitStep(<< e >>, b[i + 1]) = << Append(e, b[i + 1]) >> BY <2>4 DEF SplitStep
  <2>6. i + 1 \in 0 .. Len(b) OBVIOUS
  <2> QED BY <2>1, <2>3, <2>5, <2>6
<1>3. Len(b) \in S
  <2> HIDE DEF S
  <2>0. Len(b) \in Nat OBVIOUS
  <2>1. 0 .. Len(b) \subseteq S BY <1>1, <1>2, <2>0, SetInduction
  <2> QED BY <2>1
<1>4. SubSeq(b, 1, Len(b)) = b BY Prefix
<1> QED BY <1>3, <1>4

LEMMA AfterSlash ==
  ASSUME NEW U, NEW name \in Seq(U), NEW k \in 1 .. Len(name),
         \A j \in k + 1 .. Len(name) : name[j] # "/"
  PROVE  LET b == SubSeq(name, k + 1, Len(name)) IN
         b \in Seq(U) /\ \A i \in 1 .. Len(b) : b[i] # "/"
<1> DEFINE b == SubSeq(name, k + 1, Len(name))
<1>1. Len(name) \in Nat /\ \A j \in k + 1 .. Len(name) : name[j] \in U OBVIOUS
<1>2. k + 1 \in Int /\ Len(name) \in Int BY <1>1
<1>3. /\ b \in Seq(U)
      /\ Len(b) = IF k + 1 <= Len(name) THEN Len(name) - (k + 1) + 1 ELSE 0
      /\ \A j \in 1 .. Len(name) - (k + 1) + 1 : b[j] = name[(k + 1) + j - 1]
  BY <1>1, <1>2, SubSeqProperties
<1> HIDE DEF b
<1>4. ASSUME NEW i \in 1 .. Len(b) PROVE b[i] # "/"
  <2>1. i \in 1 .. Len(name) - (k + 1) + 1 BY <1>1, <1>3
  <2>2. b[i] = name[(k + 1) + i - 1] BY <1>3, <2>1
  <2>3. (k + 1) + i - 1 \in k + 1 .. Len(name) BY <1>1, <2>1
  <2> QED BY <2>2, <2>3
<1>5. b \in Seq(U) BY <1>3
<1> QED BY <1>4, <1>5 DEF b

LEMMA DirNameOf ==
  ASSUME NEW U, NEW name \in Seq(U), NEW link \in Seq(U), "/" \in U
  PROVE  Split(DirName(name) \o link) = Front(Split(name)) \o Split(link)
<1> DEFINE slashes == {i \in DOMAIN name : name[i] = "/"}
<1>0. DOMAIN name = 1 .. Len(name) /\ Len(name) \in Nat OBVIOUS
<1>1. Split(link) \in Seq(Seq(U)) BY SplitType
<1>2. CASE slashes = {}
  <2>1. DirName(name) = << >> BY <1>2 DEF DirName
  <2>2. \A i \in 1 .. Len(name) : name[i] # "/" BY <1>0, <1>2
  <2>3. Split(name) = << name >> BY <2>2, SplitPlain
  <2>4. Front(<< name >>) = << >> BY DEF Front
  <2>5. << >> \o link = link /\ << >> \o Split(link) = Split(link) BY <1>1, ConcatEmptySeq
  <2> QED BY <2>1, <2>3, <2>4, <2>5
<1>3. CASE slashes # {}
  <2>1. PICK k \in slashes : \A j \in slashes : j <= k
    <3>1. slashes \subseteq 1 .. Len(name) BY <1>0
    <3> DEFINE T == {Len(name) - j : j \in slashes}
    <3>2. T \subseteq Nat /\ T # {} BY <1>0, <1>3, <3>1
    <3> HIDE DEF slashes
    <3>3. PICK t \in T : \A y \in T : t <= y
      <4> HIDE DEF T
      <4>1. \E t \in T : \A y \in T : t <= y BY <3>2, LeastNat
      <4> QED BY <4>1
    <3>4. PICK k \in slashes : t = Len(name) - k BY <3>3
    <3>5. ASSUME NEW j \in slashes PROVE j <= k
      <4>1. Len(name) - j \in T OBVIOUS
      <4>2. t <= Len(name) - j BY <3>3, <4>1
      <4> QED BY <1>0, <3>1, <3>4, <4>2
    <3> QED BY <3>4, <3>5
  <2> DEFINE last == CHOOSE i \in slashes : \A j \in slashes : j <= i
  <2>2. last \in slashes /\ \A j \in slashes : j <= last BY <2>1
  <2>3. DirName(name) = SubSeq(name, 1, last) BY <1>3 DEF DirName
  <2> HIDE DEF last
  <2> DEFINE a == SubSeq(name, 1, last - 1)
             b == SubSeq(name, last + 1, Len(name))
  <2>4. last \in 1 .. Len(name) /\ name[last] = "/" BY <1>0, <2>2
  <2>5. a \in Seq(U) /\ b \in Seq(U) BY <1>0, <2>4
  <2>6. SubSeq(name, 1, last) = Append(a, "/")
    <3>1. last - 1 \in 0 .. Len(name) - 1 /\ (last - 1) + 1 = last BY <1>0, <2>4
    <3> QED BY <2>4, <3>1, Prefix
  <2>7. name = Append(a, "/") \o b
    <3>1. 1 \in 1 .. Len(name) + 1 /\ last \in 1 - 1 .. Len(name) /\ Len(name) \in last .. Len(name)
      BY <1>0, <2>4
    <3>2. SubSeq(name, 1, last) \o SubSeq(name, last + 1, Len(name)) = SubSeq(name, 1, Len(name))
      BY <3>1, ConcatAdjacentSubSeq
    <3> QED BY <2>6, <3>2, Prefix
  <2>8. \A i \in 1 .. Len(b) : b[i] # "/"
    <3>1. \A j \in last + 1 .. Len(name) : name[j] # "/"
      <4> SUFFICES ASSUME NEW j \in last + 1 .. Len(name), name[j] = "/" PROVE FALSE OBVIOUS
      <4>1. j \in slashes BY <1>0, <2>4
      <4>2. j <= last BY <2>2, <4>1
      <4> HIDE DEF slashes
      <4> QED BY <1>0, <2>4, <4>2
    <3> QED BY <2>4, <3>1, AfterSlash
  <2> HIDE DEF a, b
  <2>9. Split(a) \in Seq(Seq(U)) BY <2>5, SplitType
  <2>10. Split(name) = Split(a) \o << b >>
    <3>1. Split(b) = << b >> BY <2>5, <2>8, SplitPlain
    <3> QED BY <2>5, <2>7, <3>1, SplitJoin
  <2>11. Front(Split(a) \o << b >>) = Split(a)
    <3>1. Split(a) \o << b >> = Append(Split(a), b) BY <2>5, <2>9, AppendIsConcat
    <3>2. /\ Append(Split(a), b) \in Seq(Seq(U)) /\ Len(Append(Split(a), b)) = Len(Split(a)) + 1
          /\ \A i \in 1 .. Len(Split(a)) : Append(Split(a), b)[i] = Split(a)[i]
      BY <2>5, <2>9, AppendProperties
    <3>3. Front(Append(Split(a), b)) = SubSeq(Append(Split(a), b), 1, Len(Split(a)))
      BY <2>9, <3>2 DEF Front
    <3>4. SubSeq(Append(Split(a), b), 1, Len(Split(a))) = Split(a) BY <2>5, <2>9
    <3> QED BY <3>1, <3>3, <3>4
  <2>12. Split(DirName(name) \o link) = Split(a) \o Split(link)
    BY <2>3, <2>5, <2>6, SplitJoin
  <2> QED BY <2>10, <2>11, <2>12
<1> QED BY <1>2, <1>3
-----------------------------------------------------------------------------
(* Paths *)

DownFun(d, r, p, n, f) ==
  f = [i \in 0 .. n |-> IF i = 0 THEN r ELSE Child(d, f[i - 1], p[i])]

LEMMA DownHas ==
  ASSUME NEW d, NEW r, NEW p, Len(p) \in Nat
  PROVE  \E f : DownFun(d, r, p, Len(p), f) /\ Down(d, r, p) = f[Len(p)]
<1> DEFINE n == Len(p)
           S == {k \in 0 .. n : \E f : DownFun(d, r, p, k, f)}
<1>1. 0 \in S
  <2>1. DownFun(d, r, p, 0, [i \in 0 .. 0 |-> r]) BY DEF DownFun
  <2> QED BY <2>1
<1>2. ASSUME NEW k \in 0 .. n - 1, k \in S PROVE k + 1 \in S
  <2>1. PICK f : DownFun(d, r, p, k, f) BY <1>2
  <2> DEFINE g == [i \in 0 .. k + 1 |-> IF i = k + 1 THEN Child(d, f[k], p[k + 1]) ELSE f[i]]
  <2>2. f = [i \in 0 .. k |-> IF i = 0 THEN r ELSE Child(d, f[i - 1], p[i])]
    BY <2>1 DEF DownFun
  <2>3. g = [i \in 0 .. k + 1 |-> IF i = 0 THEN r ELSE Child(d, g[i - 1], p[i])]
    BY <2>2
  <2> HIDE DEF g
  <2>4. DownFun(d, r, p, k + 1, g) BY <2>3 DEF DownFun
  <2> QED BY <2>4
<1>3. \E f : DownFun(d, r, p, n, f)
  <2>0. n \in Nat OBVIOUS
  <2> HIDE DEF S, n
  <2>1. 0 .. n \subseteq S BY <1>1, <1>2, <2>0, SetInduction
  <2>2. n \in S BY <2>0, <2>1
  <2> QED BY <2>2 DEF S
<1>4. Down(d, r, p) = (CHOOSE f : DownFun(d, r, p, n, f))[n]
  BY Zenon DEF Down, Fold, DownFun
<1> HIDE DEF n
<1> QED BY <1>3, <1>4, Zenon DEF n

LEMMA DownEmpty == ASSUME NEW d, NEW r PROVE Down(d, r, << >>) = r
<1>1. PICK f : DownFun(d, r, << >>, Len(<< >>), f) /\ Down(d, r, << >>) = f[Len(<< >>)] BY DownHas
<1>2. f[0] = r BY <1>1 DEF DownFun
<1> QED BY <1>1, <1>2

(* A path is walked from its first part. *)
LEMMA DownFirst ==
  ASSUME NEW d, NEW r, NEW X, NEW p \in Seq(X), p # << >>
  PROVE  Down(d, r, p) = Down(d, Child(d, r, p[1]), Tail(p))
<1> DEFINE n == Len(p) - 1
           t == Tail(p)
           c == Child(d, r, p[1])
<1>1. n \in Nat /\ Len(p) = n + 1 /\ Len(t) = n /\ \A i \in 1 .. n : t[i] = p[i + 1] OBVIOUS
<1>2. PICK f : DownFun(d, r, p, Len(p), f) /\ Down(d, r, p) = f[Len(p)] BY DownHas
<1> HIDE DEF n, t
<1>3. PICK g : DownFun(d, c, t, Len(t), g) /\ Down(d, c, t) = g[Len(t)]
  <2> HIDE DEF c
  <2> QED BY <1>1, DownHas
<1>4. f = [i \in 0 .. n + 1 |-> IF i = 0 THEN r ELSE Child(d, f[i - 1], p[i])]
  BY <1>1, <1>2 DEF DownFun
<1>5. g = [i \in 0 .. n |-> IF i = 0 THEN c ELSE Child(d, g[i - 1], t[i])]
  <2> HIDE DEF c
  <2> QED BY <1>1, <1>3 DEF DownFun
<1>6. f[0] = r /\ \A i \in 1 .. n + 1 : f[i] = Child(d, f[i - 1], p[i]) BY <1>1, <1>4
<1>7. g[0] = c /\ \A i \in 1 .. n : g[i] = Child(d, g[i - 1], t[i])
  <2> HIDE DEF c
  <2> QED BY <1>1, <1>5
<1> DEFINE S == {i \in 0 .. n : g[i] = f[i + 1]}
<1>8. 0 \in S
  <2>1. 1 \in 1 .. n + 1 /\ 1 - 1 = 0 /\ 0 + 1 = 1 /\ 0 \in 0 .. n BY <1>1
  <2>2. f[1] = Child(d, r, p[1]) BY <1>6, <2>1
  <2> QED BY <1>7, <2>1, <2>2
<1>9. ASSUME NEW i \in 0 .. n - 1, i \in S PROVE i + 1 \in S
  <2>1. /\ i + 1 \in 1 .. n /\ (i + 1) - 1 = i /\ i + 1 \in 0 .. n
        /\ (i + 1) + 1 \in 1 .. n + 1 /\ ((i + 1) + 1) - 1 = i + 1
    BY <1>1
  <2>2. g[i + 1] = Child(d, g[i], t[i + 1]) BY <1>7, <2>1
  <2>3. f[(i + 1) + 1] = Child(d, f[i + 1], p[(i + 1) + 1]) BY <1>6, <2>1
  <2>4. t[i + 1] = p[(i + 1) + 1] /\ g[i] = f[i + 1] BY <1>1, <1>9, <2>1
  <2> QED BY <2>1, <2>2, <2>3, <2>4
<1>10. n \in S
  <2> HIDE DEF S
  <2>1. 0 .. n \subseteq S BY <1>1, <1>8, <1>9, SetInduction
  <2> QED BY <1>1, <2>1
<1>11. Down(d, r, p) = Down(d, c, t) BY <1>1, <1>2, <1>3, <1>10
<1> QED BY <1>11 DEF c, t

LEMMA DownNone ==
  ASSUME NEW d, NEW X, NEW p \in Seq(X)
  PROVE  Down(d, NoRec, p) = NoRec
<1>1. PICK f : DownFun(d, NoRec, p, Len(p), f) /\ Down(d, NoRec, p) = f[Len(p)] BY DownHas
<1>2. Len(p) \in Nat OBVIOUS
<1>3. f = [i \in 0 .. Len(p) |-> IF i = 0 THEN NoRec ELSE Child(d, f[i - 1], p[i])]
  BY <1>1 DEF DownFun
<1>4. f[0] = NoRec /\ \A i \in 1 .. Len(p) : f[i] = Child(d, f[i - 1], p[i]) BY <1>2, <1>3
<1> DEFINE S == {i \in 0 .. Len(p) : f[i] = NoRec}
<1>5. 0 \in S BY <1>2, <1>4
<1>6. ASSUME NEW i \in 0 .. Len(p) - 1, i \in S PROVE i + 1 \in S
  <2>1. i + 1 \in 1 .. Len(p) /\ (i + 1) - 1 = i /\ i + 1 \in 0 .. Len(p) BY <1>2
  <2>2. f[i + 1] = Child(d, f[i], p[i + 1]) /\ f[i] = NoRec BY <1>4, <1>6, <2>1
  <2> QED BY <2>1, <2>2 DEF Child
<1>7. Len(p) \in S
  <2> HIDE DEF S
  <2>1. 0 .. Len(p) \subseteq S BY <1>2, <1>5, <1>6, SetInduction
  <2> QED BY <1>2, <2>1
<1> QED BY <1>1, <1>7
-----------------------------------------------------------------------------
(* Chains of links *)

ChainFun(d, name, n, f) ==
  f = [i \in 0 .. n |-> IF i = 0 THEN Split(name) ELSE Hop(d, f[i - 1])]

LEMMA ChainHas ==
  ASSUME NEW d, NEW name, MaxHops \in Nat
  PROVE  \E f : ChainFun(d, name, MaxHops, f) /\ Chain(d, name) = f
<1> DEFINE n == MaxHops
           S == {k \in 0 .. n : \E f : ChainFun(d, name, k, f)}
<1>1. 0 \in S
  <2>1. ChainFun(d, name, 0, [i \in 0 .. 0 |-> Split(name)]) BY DEF ChainFun
  <2> QED BY <2>1
<1>2. ASSUME NEW k \in 0 .. n - 1, k \in S PROVE k + 1 \in S
  <2>1. PICK f : ChainFun(d, name, k, f) BY <1>2
  <2> DEFINE g == [i \in 0 .. k + 1 |-> IF i = k + 1 THEN Hop(d, f[k]) ELSE f[i]]
  <2>2. f = [i \in 0 .. k |-> IF i = 0 THEN Split(name) ELSE Hop(d, f[i - 1])]
    BY <2>1 DEF ChainFun
  <2>3. g = [i \in 0 .. k + 1 |-> IF i = 0 THEN Split(name) ELSE Hop(d, g[i - 1])]
    BY <2>2
  <2> HIDE DEF g
  <2>4. ChainFun(d, name, k + 1, g) BY <2>3 DEF ChainFun
  <2> QED BY <2>4
<1>3. \E f : ChainFun(d, name, n, f)
  <2>0. n \in Nat OBVIOUS
  <2> HIDE DEF S, n
  <2>1. 0 .. n \subseteq S BY <1>1, <1>2, <2>0, SetInduction
  <2>2. n \in S BY <2>0, <2>1
  <2> QED BY <2>2 DEF S
<1>4. Chain(d, name) = (CHOOSE f : ChainFun(d, name, n, f))
  BY Zenon DEF Chain, ChainFun
<1> HIDE DEF n
<1> QED BY <1>3, <1>4, Zenon DEF n

LEMMA ChainIs ==
  ASSUME NEW d, NEW name
  PROVE  LET c == Chain(d, name) IN
         /\ c[0] = Split(name)
         /\ \A i \in 1 .. MaxHops : c[i] = Hop(d, c[i - 1])
<1>1. MaxHops \in Nat BY SizesAssumption
<1>2. PICK f : ChainFun(d, name, MaxHops, f) /\ Chain(d, name) = f BY <1>1, ChainHas
<1>3. f = [i \in 0 .. MaxHops |-> IF i = 0 THEN Split(name) ELSE Hop(d, f[i - 1])]
  BY <1>2 DEF ChainFun
<1>4. f[0] = Split(name) /\ \A i \in 1 .. MaxHops : f[i] = Hop(d, f[i - 1]) BY <1>1, <1>3
<1> QED BY <1>2, <1>4

(* From a name in the chain the next one is in the chain too. *)
LEMMA ChainClosed ==
  ASSUME NEW d, NEW name, ChainSound(d, name), NEW i \in 0 .. MaxHops
  PROVE  \E j \in 0 .. MaxHops : Chain(d, name)[j] = Hop(d, Chain(d, name)[i])
<1>1. MaxHops \in Nat BY SizesAssumption
<1>2. CASE i = MaxHops
  <2>1. Hop(d, Chain(d, name)[MaxHops]) \in {Chain(d, name)[j] : j \in 0 .. MaxHops}
    BY DEF ChainSound
  <2> QED BY <1>2, <2>1
<1>3. CASE i # MaxHops
  <2>1. i + 1 \in 1 .. MaxHops /\ (i + 1) - 1 = i /\ i + 1 \in 0 .. MaxHops BY <1>1, <1>3
  <2>2. Chain(d, name)[i + 1] = Hop(d, Chain(d, name)[i]) BY <2>1, ChainIs
  <2> QED BY <2>1, <2>2
<1> QED BY <1>2, <1>3

(* What is not a link is what the name stands for. *)
LEMMA ChainEnds ==
  ASSUME NEW d, NEW name, NEW i \in 0 .. MaxHops,
         LinkOf(d, Reached(d, Chain(d, name)[i])) = << >>
  PROVE  Reached(d, Chain(d, name)[i]) = Target(d, name)
<1> DEFINE c == Chain(d, name)
           S == {j \in 0 .. MaxHops - i : c[i + j] = c[i]}
<1>1. MaxHops \in Nat BY SizesAssumption
<1>2. Hop(d, c[i]) = c[i] BY DEF Hop
<1>3. 0 \in S BY <1>1
<1>4. ASSUME NEW j \in 0 .. (MaxHops - i) - 1, j \in S PROVE j + 1 \in S
  <2>1. /\ i + (j + 1) \in 1 .. MaxHops /\ (i + (j + 1)) - 1 = i + j
        /\ j + 1 \in 0 .. MaxHops - i
    BY <1>1
  <2>2. c[i + (j + 1)] = Hop(d, c[i + j]) BY <2>1, ChainIs
  <2> QED BY <1>2, <1>4, <2>1, <2>2
<1>5. MaxHops - i \in S
  <2>1. MaxHops - i \in Nat BY <1>1
  <2> HIDE DEF S
  <2>2. 0 .. MaxHops - i \subseteq S BY <1>3, <1>4, <2>1, SetInduction
  <2> QED BY <2>1, <2>2
<1>6. i + (MaxHops - i) = MaxHops BY <1>1
<1>7. c[MaxHops] = c[i] BY <1>5, <1>6
<1> QED BY <1>7 DEF Target
-----------------------------------------------------------------------------
(*** The two walks over a link's Rock Ridge entries ***)

(* The two walks over a record's Rock Ridge entries, for a file's type and  *)
(* size and for the text of a link, side by side.                           *)

Index(e) == [i \in 1 .. Len(e.comps) |-> i]
LenStep(e, n, i) == n + CompLen(e.comps[i]) + IF Slash(e, i) THEN 1 ELSE 0
TextStep(e, t, i) ==
  t \o CompText(e.comps[i]) \o IF Slash(e, i) THEN << "/" >> ELSE << >>
SlLen(e, len) == Fold(LAMBDA n, i : LenStep(e, n, i), len, Index(e))
SlText(e, text) == Fold(LAMBDA t, i : TextStep(e, t, i), text, Index(e))

SlLenFun(e, len, n, f) ==
  f = [i \in 0 .. n |-> IF i = 0 THEN len ELSE LenStep(e, f[i - 1], Index(e)[i])]

LEMMA SlLenHas ==
  ASSUME NEW e, NEW len, Len(Index(e)) \in Nat
  PROVE  \E f : SlLenFun(e, len, Len(Index(e)), f) /\ SlLen(e, len) = f[Len(Index(e))]
<1> DEFINE n == Len(Index(e))
           S == {k \in 0 .. n : \E f : SlLenFun(e, len, k, f)}
<1>1. 0 \in S
  <2>1. SlLenFun(e, len, 0, [i \in 0 .. 0 |-> len]) BY DEF SlLenFun
  <2> QED BY <2>1
<1>2. ASSUME NEW k \in 0 .. n - 1, k \in S PROVE k + 1 \in S
  <2>1. PICK f : SlLenFun(e, len, k, f) BY <1>2
  <2> DEFINE g == [i \in 0 .. k + 1 |-> IF i = k + 1 THEN LenStep(e, f[k], Index(e)[k + 1]) ELSE f[i]]
  <2>2. f = [i \in 0 .. k |-> IF i = 0 THEN len ELSE LenStep(e, f[i - 1], Index(e)[i])]
    BY <2>1 DEF SlLenFun
  <2>3. g = [i \in 0 .. k + 1 |-> IF i = 0 THEN len ELSE LenStep(e, g[i - 1], Index(e)[i])]
    BY <2>2
  <2> HIDE DEF g
  <2>4. SlLenFun(e, len, k + 1, g) BY <2>3 DEF SlLenFun
  <2> QED BY <2>4
<1>3. \E f : SlLenFun(e, len, n, f)
  <2>0. n \in Nat OBVIOUS
  <2> HIDE DEF S, n
  <2>1. 0 .. n \subseteq S BY <1>1, <1>2, <2>0, SetInduction
  <2>2. n \in S BY <2>0, <2>1
  <2> QED BY <2>2 DEF S
<1>4. SlLen(e, len) = (CHOOSE f : SlLenFun(e, len, n, f))[n]
  BY Zenon DEF SlLen, Fold, SlLenFun
<1> HIDE DEF n
<1> QED BY <1>3, <1>4, Zenon DEF n

SlTextFun(e, text, n, f) ==
  f = [i \in 0 .. n |-> IF i = 0 THEN text ELSE TextStep(e, f[i - 1], Index(e)[i])]

LEMMA SlTextHas ==
  ASSUME NEW e, NEW text, Len(Index(e)) \in Nat
  PROVE  \E f : SlTextFun(e, text, Len(Index(e)), f) /\ SlText(e, text) = f[Len(Index(e))]
<1> DEFINE n == Len(Index(e))
           S == {k \in 0 .. n : \E f : SlTextFun(e, text, k, f)}
<1>1. 0 \in S
  <2>1. SlTextFun(e, text, 0, [i \in 0 .. 0 |-> text]) BY DEF SlTextFun
  <2> QED BY <2>1
<1>2. ASSUME NEW k \in 0 .. n - 1, k \in S PROVE k + 1 \in S
  <2>1. PICK f : SlTextFun(e, text, k, f) BY <1>2
  <2> DEFINE g == [i \in 0 .. k + 1 |-> IF i = k + 1 THEN TextStep(e, f[k], Index(e)[k + 1]) ELSE f[i]]
  <2>2. f = [i \in 0 .. k |-> IF i = 0 THEN text ELSE TextStep(e, f[i - 1], Index(e)[i])]
    BY <2>1 DEF SlTextFun
  <2>3. g = [i \in 0 .. k + 1 |-> IF i = 0 THEN text ELSE TextStep(e, g[i - 1], Index(e)[i])]
    BY <2>2
  <2> HIDE DEF g
  <2>4. SlTextFun(e, text, k + 1, g) BY <2>3 DEF SlTextFun
  <2> QED BY <2>4
<1>3. \E f : SlTextFun(e, text, n, f)
  <2>0. n \in Nat OBVIOUS
  <2> HIDE DEF S, n
  <2>1. 0 .. n \subseteq S BY <1>1, <1>2, <2>0, SetInduction
  <2>2. n \in S BY <2>0, <2>1
  <2> QED BY <2>2 DEF S
<1>4. SlText(e, text) = (CHOOSE f : SlTextFun(e, text, n, f))[n]
  BY Zenon DEF SlText, Fold, SlTextFun
<1> HIDE DEF n
<1> QED BY <1>3, <1>4, Zenon DEF n

ParseEntry(a, e) == IF a.st = "run" THEN ParseStep(a, e) ELSE a
LinkEntry(a, e) == IF a.st = "run" THEN LinkStep(a, e) ELSE a
Fresh(a) == [a EXCEPT !.st = "run", !.cont = NoArea]
ParseSeg(acc, su) == Segment(ParseStep, acc, su)
LinkSeg(acc, su) == Segment(LinkStep, acc, su)

ParseSegFun(acc, su, n, f) ==
  f = [i \in 0 .. n |-> IF i = 0 THEN Fresh(acc) ELSE ParseEntry(f[i - 1], su[i])]

LEMMA ParseSegHas ==
  ASSUME NEW acc, NEW su, Len(su) \in Nat
  PROVE  \E f : ParseSegFun(acc, su, Len(su), f) /\ ParseSeg(acc, su) = f[Len(su)]
<1> DEFINE n == Len(su)
           S == {k \in 0 .. n : \E f : ParseSegFun(acc, su, k, f)}
<1>1. 0 \in S
  <2>1. ParseSegFun(acc, su, 0, [i \in 0 .. 0 |-> Fresh(acc)]) BY DEF ParseSegFun
  <2> QED BY <2>1
<1>2. ASSUME NEW k \in 0 .. n - 1, k \in S PROVE k + 1 \in S
  <2>1. PICK f : ParseSegFun(acc, su, k, f) BY <1>2
  <2> DEFINE g == [i \in 0 .. k + 1 |-> IF i = k + 1 THEN ParseEntry(f[k], su[k + 1]) ELSE f[i]]
  <2>2. f = [i \in 0 .. k |-> IF i = 0 THEN Fresh(acc) ELSE ParseEntry(f[i - 1], su[i])]
    BY <2>1 DEF ParseSegFun
  <2>3. g = [i \in 0 .. k + 1 |-> IF i = 0 THEN Fresh(acc) ELSE ParseEntry(g[i - 1], su[i])]
    BY <2>2
  <2> HIDE DEF g
  <2>4. ParseSegFun(acc, su, k + 1, g) BY <2>3 DEF ParseSegFun
  <2> QED BY <2>4
<1>3. \E f : ParseSegFun(acc, su, n, f)
  <2>0. n \in Nat OBVIOUS
  <2> HIDE DEF S, n
  <2>1. 0 .. n \subseteq S BY <1>1, <1>2, <2>0, SetInduction
  <2>2. n \in S BY <2>0, <2>1
  <2> QED BY <2>2 DEF S
<1>4. ParseSeg(acc, su) = (CHOOSE f : ParseSegFun(acc, su, n, f))[n]
  BY Zenon DEF ParseSeg, Segment, Fold, ParseEntry, Fresh, ParseSegFun
<1> HIDE DEF n
<1> QED BY <1>3, <1>4, Zenon DEF n

LinkSegFun(acc, su, n, f) ==
  f = [i \in 0 .. n |-> IF i = 0 THEN Fresh(acc) ELSE LinkEntry(f[i - 1], su[i])]

LEMMA LinkSegHas ==
  ASSUME NEW acc, NEW su, Len(su) \in Nat
  PROVE  \E f : LinkSegFun(acc, su, Len(su), f) /\ LinkSeg(acc, su) = f[Len(su)]
<1> DEFINE n == Len(su)
           S == {k \in 0 .. n : \E f : LinkSegFun(acc, su, k, f)}
<1>1. 0 \in S
  <2>1. LinkSegFun(acc, su, 0, [i \in 0 .. 0 |-> Fresh(acc)]) BY DEF LinkSegFun
  <2> QED BY <2>1
<1>2. ASSUME NEW k \in 0 .. n - 1, k \in S PROVE k + 1 \in S
  <2>1. PICK f : LinkSegFun(acc, su, k, f) BY <1>2
  <2> DEFINE g == [i \in 0 .. k + 1 |-> IF i = k + 1 THEN LinkEntry(f[k], su[k + 1]) ELSE f[i]]
  <2>2. f = [i \in 0 .. k |-> IF i = 0 THEN Fresh(acc) ELSE LinkEntry(f[i - 1], su[i])]
    BY <2>1 DEF LinkSegFun
  <2>3. g = [i \in 0 .. k + 1 |-> IF i = 0 THEN Fresh(acc) ELSE LinkEntry(g[i - 1], su[i])]
    BY <2>2
  <2> HIDE DEF g
  <2>4. LinkSegFun(acc, su, k + 1, g) BY <2>3 DEF LinkSegFun
  <2> QED BY <2>4
<1>3. \E f : LinkSegFun(acc, su, n, f)
  <2>0. n \in Nat OBVIOUS
  <2> HIDE DEF S, n
  <2>1. 0 .. n \subseteq S BY <1>1, <1>2, <2>0, SetInduction
  <2>2. n \in S BY <2>0, <2>1
  <2> QED BY <2>2 DEF S
<1>4. LinkSeg(acc, su) = (CHOOSE f : LinkSegFun(acc, su, n, f))[n]
  BY Zenon DEF LinkSeg, Segment, Fold, LinkEntry, Fresh, LinkSegFun
<1> HIDE DEF n
<1> QED BY <1>3, <1>4, Zenon DEF n

Turns == [i \in 1 .. MaxAreas |-> i]
Stops(a) == a.st \in {"out", "end"} \/ a.cont = NoArea
ParseTurn(areas, bad, a) ==
  IF Stops(a) THEN a ELSE IF a.cont \in bad THEN [a EXCEPT !.st = "end"]
  ELSE ParseSeg(a, areas[a.cont].entries)
LinkTurn(areas, bad, a) ==
  IF Stops(a) THEN a ELSE IF a.cont \in bad THEN [a EXCEPT !.st = "end"]
  ELSE LinkSeg(a, areas[a.cont].entries)
ParseWalk(areas, bad, acc, su) ==
  LET Text(c) == areas[c].entries IN Walk(ParseStep, Text, acc, su, bad, "end")
LinkWalk(areas, bad, acc, su) ==
  LET Text(c) == areas[c].entries IN Walk(LinkStep, Text, acc, su, bad, "end")

ParseWalkFun(areas, bad, acc, su, n, f) ==
  f = [i \in 0 .. n |-> IF i = 0 THEN ParseSeg(acc, su) ELSE ParseTurn(areas, bad, f[i - 1])]

LEMMA ParseWalkHas ==
  ASSUME NEW areas, NEW bad, NEW acc, NEW su, Len(Turns) \in Nat
  PROVE  \E f : ParseWalkFun(areas, bad, acc, su, Len(Turns), f) /\ ParseWalk(areas, bad, acc, su) = f[Len(Turns)]
<1> DEFINE n == Len(Turns)
           S == {k \in 0 .. n : \E f : ParseWalkFun(areas, bad, acc, su, k, f)}
<1>1. 0 \in S
  <2>1. ParseWalkFun(areas, bad, acc, su, 0, [i \in 0 .. 0 |-> ParseSeg(acc, su)]) BY DEF ParseWalkFun
  <2> QED BY <2>1
<1>2. ASSUME NEW k \in 0 .. n - 1, k \in S PROVE k + 1 \in S
  <2>1. PICK f : ParseWalkFun(areas, bad, acc, su, k, f) BY <1>2
  <2> DEFINE g == [i \in 0 .. k + 1 |-> IF i = k + 1 THEN ParseTurn(areas, bad, f[k]) ELSE f[i]]
  <2>2. f = [i \in 0 .. k |-> IF i = 0 THEN ParseSeg(acc, su) ELSE ParseTurn(areas, bad, f[i - 1])]
    BY <2>1 DEF ParseWalkFun
  <2>3. g = [i \in 0 .. k + 1 |-> IF i = 0 THEN ParseSeg(acc, su) ELSE ParseTurn(areas, bad, g[i - 1])]
    BY <2>2
  <2> HIDE DEF g
  <2>4. ParseWalkFun(areas, bad, acc, su, k + 1, g) BY <2>3 DEF ParseWalkFun
  <2> QED BY <2>4
<1>3. \E f : ParseWalkFun(areas, bad, acc, su, n, f)
  <2>0. n \in Nat OBVIOUS
  <2> HIDE DEF S, n
  <2>1. 0 .. n \subseteq S BY <1>1, <1>2, <2>0, SetInduction
  <2>2. n \in S BY <2>0, <2>1
  <2> QED BY <2>2 DEF S
<1>4. ParseWalk(areas, bad, acc, su) = (CHOOSE f : ParseWalkFun(areas, bad, acc, su, n, f))[n]
  BY Zenon DEF ParseWalk, Walk, Fold, ParseTurn, ParseSeg, Stops, Turns, ParseWalkFun
<1> HIDE DEF n
<1> QED BY <1>3, <1>4, Zenon DEF n

LinkWalkFun(areas, bad, acc, su, n, f) ==
  f = [i \in 0 .. n |-> IF i = 0 THEN LinkSeg(acc, su) ELSE LinkTurn(areas, bad, f[i - 1])]

LEMMA LinkWalkHas ==
  ASSUME NEW areas, NEW bad, NEW acc, NEW su, Len(Turns) \in Nat
  PROVE  \E f : LinkWalkFun(areas, bad, acc, su, Len(Turns), f) /\ LinkWalk(areas, bad, acc, su) = f[Len(Turns)]
<1> DEFINE n == Len(Turns)
           S == {k \in 0 .. n : \E f : LinkWalkFun(areas, bad, acc, su, k, f)}
<1>1. 0 \in S
  <2>1. LinkWalkFun(areas, bad, acc, su, 0, [i \in 0 .. 0 |-> LinkSeg(acc, su)]) BY DEF LinkWalkFun
  <2> QED BY <2>1
<1>2. ASSUME NEW k \in 0 .. n - 1, k \in S PROVE k + 1 \in S
  <2>1. PICK f : LinkWalkFun(areas, bad, acc, su, k, f) BY <1>2
  <2> DEFINE g == [i \in 0 .. k + 1 |-> IF i = k + 1 THEN LinkTurn(areas, bad, f[k]) ELSE f[i]]
  <2>2. f = [i \in 0 .. k |-> IF i = 0 THEN LinkSeg(acc, su) ELSE LinkTurn(areas, bad, f[i - 1])]
    BY <2>1 DEF LinkWalkFun
  <2>3. g = [i \in 0 .. k + 1 |-> IF i = 0 THEN LinkSeg(acc, su) ELSE LinkTurn(areas, bad, g[i - 1])]
    BY <2>2
  <2> HIDE DEF g
  <2>4. LinkWalkFun(areas, bad, acc, su, k + 1, g) BY <2>3 DEF LinkWalkFun
  <2> QED BY <2>4
<1>3. \E f : LinkWalkFun(areas, bad, acc, su, n, f)
  <2>0. n \in Nat OBVIOUS
  <2> HIDE DEF S, n
  <2>1. 0 .. n \subseteq S BY <1>1, <1>2, <2>0, SetInduction
  <2>2. n \in S BY <2>0, <2>1
  <2> QED BY <2>2 DEF S
<1>4. LinkWalk(areas, bad, acc, su) = (CHOOSE f : LinkWalkFun(areas, bad, acc, su, n, f))[n]
  BY Zenon DEF LinkWalk, Walk, Fold, LinkTurn, LinkSeg, Stops, Turns, LinkWalkFun
<1> HIDE DEF n
<1> QED BY <1>3, <1>4, Zenon DEF n

LEMMA SeqIs == ASSUME NEW W, NEW s \in Seq(W) PROVE IsSeq(s) /\ Len(s) \in Nat
BY DEF IsSeq

LEMMA JoinIs ==
  ASSUME NEW a, NEW b, IsSeq(a), IsSeq(b)
  PROVE  IsSeq(a \o b) /\ Len(a \o b) = Len(a) + Len(b)
<1> DEFINE W == {a[i] : i \in DOMAIN a} \union {b[i] : i \in DOMAIN b}
<1>1. a \in Seq(W) /\ b \in Seq(W) BY DEF IsSeq
<1> HIDE DEF W
<1>2. a \o b \in Seq(W) /\ Len(a \o b) = Len(a) + Len(b) BY <1>1
<1> QED BY <1>2, SeqIs

LEMMA CompAgrees ==
  ASSUME NEW c, c.kind = "text" => IsSeq(c.text)
  PROVE  IsSeq(CompText(c)) /\ CompLen(c) = Len(CompText(c)) /\ CompLen(c) \in Nat
<1>1. ASSUME NEW x PROVE IsSeq(<< x >>) /\ Len(<< x >>) = 1
  <2>1. << x >> \in Seq({x}) OBVIOUS
  <2> QED BY <2>1, SeqIs
<1>2. IsSeq(<< >>) /\ Len(<< >>) = 0
  <2>1. << >> \in Seq({}) OBVIOUS
  <2> QED BY <2>1, SeqIs
<1>3. CASE c.kind = "text"
  <2>1. IsSeq(c.text) BY <1>3
  <2>2. Len(c.text) \in Nat BY <2>1 DEF IsSeq
  <2>3. CompText(c) = c.text /\ CompLen(c) = Len(c.text) BY <1>3 DEF CompText, CompLen
  <2> QED BY <2>1, <2>2, <2>3
<1>4. CASE c.kind = "cur" BY <1>1, <1>4 DEF CompText, CompLen
<1>5. CASE c.kind = "par" BY <1>1, <1>5 DEF CompText, CompLen
<1>6. CASE c.kind = "root" BY <1>1, <1>6 DEF CompText, CompLen
<1>7. CASE c.kind \notin {"text", "cur", "par", "root"} BY <1>2, <1>7 DEF CompText, CompLen
<1> QED BY <1>3, <1>4, <1>5, <1>6, <1>7

SlSound(e) ==
  /\ IsSeq(e.comps)
  /\ \A i \in DOMAIN e.comps : e.comps[i].kind = "text" => IsSeq(e.comps[i].text)

LEMMA IndexIs ==
  ASSUME NEW e, SlSound(e)
  PROVE  /\ Len(Index(e)) = Len(e.comps) /\ Len(e.comps) \in Nat
         /\ \A i \in 1 .. Len(e.comps) : i \in DOMAIN e.comps /\ Index(e)[i] = i
<1>1. e.comps \in Seq({e.comps[i] : i \in DOMAIN e.comps}) BY DEF SlSound, IsSeq
<1>2. Len(e.comps) \in Nat /\ DOMAIN e.comps = 1 .. Len(e.comps) BY <1>1
<1> DEFINE n == Len(e.comps)
<1> HIDE DEF n
<1>3. n \in Nat BY <1>2 DEF n
<1>4. LET s == [i \in 1 .. n |-> i] IN Len(s) = n /\ \A i \in 1 .. n : s[i] = i BY <1>3
<1>5. Index(e) = [i \in 1 .. n |-> i] BY DEF Index, n
<1>6. Len(Index(e)) = n /\ \A i \in 1 .. n : Index(e)[i] = i BY <1>4, <1>5
<1> QED BY <1>2, <1>6 DEF n

LEMMA SlLenType ==
  ASSUME NEW e, SlSound(e), NEW len \in Nat
  PROVE  SlLen(e, len) \in Nat
<1> DEFINE n == Len(Index(e))
<1>1. /\ n = Len(e.comps) /\ n \in Nat
      /\ \A i \in 1 .. n : i \in DOMAIN e.comps /\ Index(e)[i] = i
  BY IndexIs
<1>2. PICK f : SlLenFun(e, len, n, f) /\ SlLen(e, len) = f[n] BY <1>1, SlLenHas
<1> HIDE DEF n
<1>3. f = [i \in 0 .. n |-> IF i = 0 THEN len ELSE LenStep(e, f[i - 1], Index(e)[i])]
  BY <1>2 DEF SlLenFun
<1>4. f[0] = len /\ \A i \in 1 .. n : f[i] = LenStep(e, f[i - 1], Index(e)[i])
  <2>1. n \in Nat BY <1>1
  <2> QED BY <1>3, <2>1
<1> DEFINE S == {i \in 0 .. n : f[i] \in Nat}
<1>5. 0 \in S BY <1>1, <1>4
<1>6. ASSUME NEW i \in 0 .. n - 1, i \in S PROVE i + 1 \in S
  <2>1. i + 1 \in 1 .. n /\ (i + 1) - 1 = i /\ i + 1 \in 0 .. n BY <1>1
  <2>2. f[i + 1] = LenStep(e, f[i], i + 1) BY <1>1, <1>4, <2>1
  <2>3. CompLen(e.comps[i + 1]) \in Nat BY <1>1, <2>1, CompAgrees DEF SlSound
  <2>4. f[i] \in Nat BY <1>6
  <2> QED BY <2>1, <2>2, <2>3, <2>4 DEF LenStep
<1>7. n \in S
  <2> HIDE DEF S
  <2>1. 0 .. n \subseteq S BY <1>1, <1>5, <1>6, SetInduction
  <2> QED BY <1>1, <2>1
<1> QED BY <1>2, <1>7

(* The length of a link's text is counted as it is put together. *)
LEMMA SlAgrees ==
  ASSUME NEW e, SlSound(e), NEW text, IsSeq(text)
  PROVE  IsSeq(SlText(e, text)) /\ SlLen(e, Len(text)) = Len(SlText(e, text))
<1> DEFINE n == Len(Index(e))
           len == Len(text)
<1>1. /\ n = Len(e.comps) /\ n \in Nat
      /\ \A i \in 1 .. n : i \in DOMAIN e.comps /\ Index(e)[i] = i
  BY IndexIs
<1> HIDE DEF len
<1>2. PICK f : SlLenFun(e, len, n, f) /\ SlLen(e, len) = f[n] BY <1>1, SlLenHas
<1>3. PICK g : SlTextFun(e, text, n, g) /\ SlText(e, text) = g[n] BY <1>1, SlTextHas
<1> HIDE DEF n
<1>4. f = [i \in 0 .. n |-> IF i = 0 THEN len ELSE LenStep(e, f[i - 1], Index(e)[i])]
  BY <1>2 DEF SlLenFun
<1>5. f[0] = len /\ \A i \in 1 .. n : f[i] = LenStep(e, f[i - 1], Index(e)[i]) BY <1>1, <1>4
<1>6. g = [i \in 0 .. n |-> IF i = 0 THEN text ELSE TextStep(e, g[i - 1], Index(e)[i])]
  BY <1>3 DEF SlTextFun
<1>7. g[0] = text /\ \A i \in 1 .. n : g[i] = TextStep(e, g[i - 1], Index(e)[i]) BY <1>1, <1>6
<1> DEFINE S == {i \in 0 .. n : IsSeq(g[i]) /\ f[i] = Len(g[i])}
<1>8. 0 \in S BY <1>1, <1>5, <1>7 DEF len
<1>9. ASSUME NEW i \in 0 .. n - 1, i \in S PROVE i + 1 \in S
  <2> DEFINE c == e.comps[i + 1]
             t == CompText(c)
             z == IF Slash(e, i + 1) THEN << "/" >> ELSE << >>
  <2>1. i + 1 \in 1 .. n /\ (i + 1) - 1 = i /\ i + 1 \in 0 .. n BY <1>1
  <2>2. f[i + 1] = f[i] + CompLen(c) + IF Slash(e, i + 1) THEN 1 ELSE 0
    BY <1>1, <1>5, <2>1 DEF LenStep
  <2>3. g[i + 1] = g[i] \o t \o z BY <1>1, <1>7, <2>1 DEF TextStep
  <2>4. IsSeq(t) /\ CompLen(c) = Len(t) /\ CompLen(c) \in Nat
    BY <1>1, <2>1, CompAgrees DEF SlSound
  <2>5. IsSeq(z) /\ Len(z) = IF Slash(e, i + 1) THEN 1 ELSE 0
    <3>1. << "/" >> \in Seq({"/"}) /\ Len(<< "/" >>) = 1 OBVIOUS
    <3>2. << >> \in Seq({"/"}) /\ Len(<< >>) = 0 OBVIOUS
    <3>3. z \in Seq({"/"}) BY <3>1, <3>2
    <3>4. Len(z) = IF Slash(e, i + 1) THEN 1 ELSE 0 BY <3>1, <3>2
    <3> HIDE DEF z
    <3> QED BY <3>3, <3>4, SeqIs
  <2>6. IsSeq(g[i]) /\ f[i] = Len(g[i]) BY <1>9
  <2> HIDE DEF t, z, c
  <2>7. IsSeq(g[i] \o t) /\ Len(g[i] \o t) = Len(g[i]) + Len(t) BY <2>4, <2>6, JoinIs
  <2>8. IsSeq((g[i] \o t) \o z) /\ Len((g[i] \o t) \o z) = Len(g[i] \o t) + Len(z)
    BY <2>5, <2>7, JoinIs
  <2>9. f[i + 1] = Len(g[i + 1]) BY <2>2, <2>3, <2>4, <2>5, <2>6, <2>7, <2>8
  <2> QED BY <2>1, <2>3, <2>8, <2>9
<1>10. n \in S
  <2> HIDE DEF S
  <2>1. 0 .. n \subseteq S BY <1>1, <1>8, <1>9, SetInduction
  <2> QED BY <1>1, <2>1
<1> QED BY <1>2, <1>3, <1>10 DEF len

Modes == {"dir", "file", "link"}

EntryOk(areas, e) ==
  /\ e.sig = "CE" => e.area \in DOMAIN areas
  /\ e.sig = "PX" => e.mode \in Modes
  /\ e.sig = "SL" => SlSound(e)

ParseOk(areas, p) ==
  /\ DOMAIN p = {"st", "cont", "mode", "nlink", "size", "symlink_len"}
  /\ p.mode \in Modes /\ p.size \in Nat /\ p.symlink_len \in Nat
  /\ p.cont = NoArea \/ p.cont \in DOMAIN areas

LinkOk(l) == DOMAIN l = {"st", "cont", "any", "text"} /\ IsSeq(l.text)

Agree(p, l) ==
  \/ l.st = "out"
  \/ /\ p.st = l.st /\ p.cont = l.cont /\ p.symlink_len = Len(l.text)
     /\ l.any # FALSE => p.size = p.symlink_len

LEMMA SlNone ==
  ASSUME NEW e, SlSound(e), e.comps = << >>, NEW len
  PROVE  SlLen(e, len) = len
<1>1. Len(Index(e)) = 0 BY IndexIs
<1>2. PICK f : SlLenFun(e, len, 0, f) /\ SlLen(e, len) = f[0]
  <2>1. 0 \in Nat OBVIOUS
  <2> QED BY <1>1, <2>1, SlLenHas
<1>3. f[0] = len BY <1>2 DEF SlLenFun
<1> QED BY <1>2, <1>3

(* What the steps do with an SL entry. *)
LEMMA SlSteps ==
  ASSUME NEW p, NEW l, NEW e, e.sig = "SL"
  PROVE  /\ ParseStep(p, e) = [p EXCEPT !.size = SlLen(e, p.symlink_len),
                                        !.symlink_len = SlLen(e, p.symlink_len)]
         /\ e.comps # << >> =>
              LinkStep(l, e) = [l EXCEPT !.any = TRUE, !.text = SlText(e, l.text)]
         /\ e.comps = << >> => LinkStep(l, e) = l
<1> DEFINE n == Fold(LAMBDA n, i : n + CompLen(e.comps[i]) + IF Slash(e, i) THEN 1 ELSE 0,
                     p.symlink_len, [i \in 1 .. Len(e.comps) |-> i])
           t == Fold(LAMBDA t, i : t \o CompText(e.comps[i])
                                     \o IF Slash(e, i) THEN << "/" >> ELSE << >>,
                     l.text, [i \in 1 .. Len(e.comps) |-> i])
<1>1. SlLen(e, p.symlink_len) = n BY Zenon DEF SlLen, LenStep, Index, Fold
<1>2. SlText(e, l.text) = t BY Zenon DEF SlText, TextStep, Index, Fold
<1>3. ParseStep(p, e) = [p EXCEPT !.size = n, !.symlink_len = n]
  <2> HIDE DEF n
  <2> QED BY Zenon DEF ParseStep, n
<1>4. e.comps # << >> => LinkStep(l, e) = [l EXCEPT !.any = TRUE, !.text = t]
  <2> HIDE DEF t
  <2> QED BY Zenon DEF LinkStep, t
<1>5. e.comps = << >> => LinkStep(l, e) = l
  <2> HIDE DEF t
  <2> QED BY Zenon DEF LinkStep
<1> HIDE DEF n, t
<1> QED BY <1>1, <1>2, <1>3, <1>4, <1>5

LEMMA OtherParse ==
  ASSUME NEW p, NEW e, e.sig # "SL"
  PROVE  \/ ParseStep(p, e) = [p EXCEPT !.st = "out"]
         \/ e.sig = "CE" /\ ParseStep(p, e) = [p EXCEPT !.cont = e.area]
         \/ e.sig = "PX" /\ ParseStep(p, e) = [p EXCEPT !.mode = e.mode, !.nlink = e.nlink]
         \/ ParseStep(p, e) = p
BY Zenon DEF ParseStep

LEMMA OtherLink ==
  ASSUME NEW l, NEW e, e.sig # "SL"
  PROVE  \/ LinkStep(l, e) = l \/ LinkStep(l, e) = [l EXCEPT !.st = "out"]
         \/ LinkStep(l, e) = [l EXCEPT !.cont = e.area]
BY Zenon DEF LinkStep

LEMMA EntryParse ==
  ASSUME NEW areas, NEW e, EntryOk(areas, e), NEW p, ParseOk(areas, p)
  PROVE  ParseOk(areas, ParseEntry(p, e))
<1>1. CASE p.st # "run" BY <1>1 DEF ParseEntry
<1>2. CASE p.st = "run" /\ e.sig = "SL"
  <2> DEFINE n == SlLen(e, p.symlink_len)
  <2>1. n \in Nat BY <1>2, SlLenType DEF ParseOk, EntryOk
  <2>2. ParseEntry(p, e) = [p EXCEPT !.size = n, !.symlink_len = n]
    BY <1>2, SlSteps, Zenon DEF ParseEntry
  <2> HIDE DEF n
  <2> QED BY <2>1, <2>2 DEF ParseOk
<1>3. CASE p.st = "run" /\ e.sig # "SL"
  <2>1. ParseEntry(p, e) = ParseStep(p, e) BY <1>3 DEF ParseEntry
  <2>2. \/ ParseStep(p, e) = [p EXCEPT !.st = "out"]
        \/ e.sig = "CE" /\ ParseStep(p, e) = [p EXCEPT !.cont = e.area]
        \/ e.sig = "PX" /\ ParseStep(p, e) = [p EXCEPT !.mode = e.mode, !.nlink = e.nlink]
        \/ ParseStep(p, e) = p
    BY <1>3, OtherParse, Zenon
  <2> QED BY <2>1, <2>2 DEF ParseOk, EntryOk
<1> QED BY <1>1, <1>2, <1>3

LEMMA EntryLink ==
  ASSUME NEW areas, NEW e, EntryOk(areas, e), NEW l, LinkOk(l)
  PROVE  LinkOk(LinkEntry(l, e))
<1>1. CASE l.st # "run" BY <1>1 DEF LinkEntry
<1>2. CASE l.st = "run" /\ e.sig = "SL"
  <2> DEFINE t == SlText(e, l.text)
  <2>1. IsSeq(t) BY <1>2, SlAgrees DEF LinkOk, EntryOk
  <2>2. LinkEntry(l, e) = [l EXCEPT !.any = TRUE, !.text = t] \/ LinkEntry(l, e) = l
    BY <1>2, SlSteps, Zenon DEF LinkEntry
  <2> HIDE DEF t
  <2> QED BY <2>1, <2>2 DEF LinkOk
<1>3. CASE l.st = "run" /\ e.sig # "SL"
  <2>1. LinkEntry(l, e) = LinkStep(l, e) BY <1>3 DEF LinkEntry
  <2>2. \/ LinkStep(l, e) = l \/ LinkStep(l, e) = [l EXCEPT !.st = "out"]
        \/ LinkStep(l, e) = [l EXCEPT !.cont = e.area]
    BY <1>3, OtherLink
  <2> QED BY <2>1, <2>2 DEF LinkOk
<1> QED BY <1>1, <1>2, <1>3

LEMMA EntryAgrees ==
  ASSUME NEW areas, NEW e, EntryOk(areas, e), e.sig # "RE",
         NEW p, ParseOk(areas, p), NEW l, LinkOk(l), Agree(p, l)
  PROVE  Agree(ParseEntry(p, e), LinkEntry(l, e))
<1> DEFINE q == ParseEntry(p, e)
           k == LinkEntry(l, e)
<1>1. CASE l.st # "run" /\ p.st # "run"
  BY <1>1 DEF ParseEntry, LinkEntry
<1>2. CASE l.st = "out"
  <2>1. k = l BY <1>2 DEF LinkEntry
  <2> QED BY <1>2, <2>1 DEF Agree
<1>3. ASSUME l.st = "run", p.st = "run", p.cont = l.cont, p.symlink_len = Len(l.text),
             l.any # FALSE => p.size = p.symlink_len
      PROVE  Agree(q, k)
  <2>0. q = ParseStep(p, e) /\ k = LinkStep(l, e) BY <1>3 DEF ParseEntry, LinkEntry
  <2> HIDE DEF q, k
  <2>1. CASE e.sig = "SL" /\ e.comps # << >>
    <3> DEFINE n == SlLen(e, p.symlink_len)
               t == SlText(e, l.text)
    <3>1. n = Len(t) BY <1>3, <2>1, SlAgrees DEF LinkOk, EntryOk
    <3>2. q = [p EXCEPT !.size = n, !.symlink_len = n] BY <2>0, <2>1, SlSteps, Zenon
    <3>3. k = [l EXCEPT !.any = TRUE, !.text = t] BY <2>0, <2>1, SlSteps, Zenon
    <3> HIDE DEF n, t
    <3>4. q.st = p.st /\ q.cont = p.cont /\ q.size = n /\ q.symlink_len = n
      BY <3>2 DEF ParseOk
    <3>5. k.st = l.st /\ k.cont = l.cont /\ k.text = t BY <3>3 DEF LinkOk
    <3> QED BY <1>3, <3>1, <3>4, <3>5 DEF Agree
  <2>2. CASE e.sig = "SL" /\ e.comps = << >>
    <3> DEFINE n == SlLen(e, p.symlink_len)
    <3>1. n = p.symlink_len BY <2>2, SlNone DEF EntryOk
    <3>2. q = [p EXCEPT !.size = n, !.symlink_len = n] BY <2>0, <2>2, SlSteps, Zenon
    <3>3. k = l BY <2>0, <2>2, SlSteps, Zenon
    <3> HIDE DEF n
    <3>4. q.st = p.st /\ q.cont = p.cont /\ q.size = n /\ q.symlink_len = n
      BY <3>2 DEF ParseOk
    <3> QED BY <1>3, <3>1, <3>3, <3>4 DEF Agree
  <2>3. CASE e.sig # "SL"
    <3>1. \/ k = [l EXCEPT !.st = "out"]
          \/ q = [p EXCEPT !.cont = e.area] /\ k = [l EXCEPT !.cont = e.area]
          \/ q = [p EXCEPT !.mode = e.mode, !.nlink = e.nlink] /\ k = l
          \/ q = p /\ k = l
      BY <2>0, <2>3, Zenon DEF ParseStep, LinkStep
    <3>2. CASE k = [l EXCEPT !.st = "out"] BY <3>2 DEF Agree, LinkOk
    <3>3. CASE q = [p EXCEPT !.cont = e.area] /\ k = [l EXCEPT !.cont = e.area]
      <4>1. /\ q.st = p.st /\ q.cont = e.area /\ q.size = p.size
            /\ q.symlink_len = p.symlink_len
        BY <3>3 DEF ParseOk
      <4>2. k.st = l.st /\ k.cont = e.area /\ k.text = l.text /\ k.any = l.any
        BY <3>3 DEF LinkOk
      <4> QED BY <1>3, <4>1, <4>2 DEF Agree
    <3>4. CASE q = [p EXCEPT !.mode = e.mode, !.nlink = e.nlink] /\ k = l
      <4>1. /\ q.st = p.st /\ q.cont = p.cont /\ q.size = p.size
            /\ q.symlink_len = p.symlink_len
        BY <3>4 DEF ParseOk
      <4> QED BY <1>3, <3>4, <4>1 DEF Agree
    <3>5. CASE q = p /\ k = l BY <3>5
    <3> QED BY <3>1, <3>2, <3>3, <3>4, <3>5
  <2> QED BY <2>1, <2>2, <2>3
<1> HIDE DEF q, k
<1>4. Agree(q, k) BY <1>1, <1>2, <1>3 DEF Agree, q, k
<1> QED BY <1>4 DEF q, k

EntriesOk(areas, su) == IsSeq(su) /\ \A k \in DOMAIN su : EntryOk(areas, su[k])

Level(p, l) == p.symlink_len = Len(l.text) /\ (l.any # FALSE => p.size = p.symlink_len)

LEMMA EntriesLen ==
  ASSUME NEW areas, NEW su, EntriesOk(areas, su)
  PROVE  Len(su) \in Nat /\ DOMAIN su = 1 .. Len(su) /\ \A k \in 1 .. Len(su) : EntryOk(areas, su[k])
<1>1. su \in Seq({su[i] : i \in DOMAIN su}) BY DEF EntriesOk, IsSeq
<1>2. Len(su) \in Nat /\ DOMAIN su = 1 .. Len(su) BY <1>1
<1> QED BY <1>2 DEF EntriesOk

LEMMA SegParse ==
  ASSUME NEW areas, NEW su, EntriesOk(areas, su), NEW p, ParseOk(areas, p)
  PROVE  ParseOk(areas, ParseSeg(p, su))
<1> DEFINE n == Len(su)
<1>1. n \in Nat /\ \A k \in 1 .. n : EntryOk(areas, su[k]) BY EntriesLen
<1>2. PICK f : ParseSegFun(p, su, n, f) /\ ParseSeg(p, su) = f[n] BY <1>1, ParseSegHas
<1> HIDE DEF n
<1>3. f = [i \in 0 .. n |-> IF i = 0 THEN Fresh(p) ELSE ParseEntry(f[i - 1], su[i])]
  BY <1>2 DEF ParseSegFun
<1>4. f[0] = Fresh(p) /\ \A i \in 1 .. n : f[i] = ParseEntry(f[i - 1], su[i])
  <2>1. n \in Nat BY <1>1
  <2> QED BY <1>3, <2>1
<1> DEFINE S == {i \in 0 .. n : ParseOk(areas, f[i])}
<1>5. 0 \in S
  <2>1. ParseOk(areas, Fresh(p)) BY DEF ParseOk, Fresh
  <2> QED BY <1>1, <1>4, <2>1
<1>6. ASSUME NEW i \in 0 .. n - 1, i \in S PROVE i + 1 \in S
  <2>1. i + 1 \in 1 .. n /\ (i + 1) - 1 = i /\ i + 1 \in 0 .. n BY <1>1
  <2>2. f[i + 1] = ParseEntry(f[i], su[i + 1]) /\ ParseOk(areas, f[i]) BY <1>4, <1>6, <2>1
  <2>3. ParseOk(areas, f[i + 1]) BY <1>1, <2>1, <2>2, EntryParse
  <2> QED BY <2>1, <2>3
<1>7. n \in S
  <2> HIDE DEF S
  <2>1. 0 .. n \subseteq S BY <1>1, <1>5, <1>6, SetInduction
  <2> QED BY <1>1, <2>1
<1> QED BY <1>2, <1>7

LEMMA SegAgrees ==
  ASSUME NEW areas, NEW su, EntriesOk(areas, su), NotMoved(su),
         NEW p, ParseOk(areas, p), NEW l, LinkOk(l), Level(p, l)
  PROVE  LinkOk(LinkSeg(l, su)) /\ Agree(ParseSeg(p, su), LinkSeg(l, su))
<1> DEFINE n == Len(su)
<1>1. n \in Nat /\ \A k \in 1 .. n : EntryOk(areas, su[k]) /\ su[k].sig # "RE"
  BY EntriesLen DEF NotMoved
<1>2. PICK f : ParseSegFun(p, su, n, f) /\ ParseSeg(p, su) = f[n] BY <1>1, ParseSegHas
<1>3. PICK g : LinkSegFun(l, su, n, g) /\ LinkSeg(l, su) = g[n] BY <1>1, LinkSegHas
<1> HIDE DEF n
<1>4. f = [i \in 0 .. n |-> IF i = 0 THEN Fresh(p) ELSE ParseEntry(f[i - 1], su[i])]
  BY <1>2 DEF ParseSegFun
<1>5. g = [i \in 0 .. n |-> IF i = 0 THEN Fresh(l) ELSE LinkEntry(g[i - 1], su[i])]
  BY <1>3 DEF LinkSegFun
<1>6. f[0] = Fresh(p) /\ \A i \in 1 .. n : f[i] = ParseEntry(f[i - 1], su[i])
  <2>1. n \in Nat BY <1>1
  <2> QED BY <1>4, <2>1
<1>7. g[0] = Fresh(l) /\ \A i \in 1 .. n : g[i] = LinkEntry(g[i - 1], su[i])
  <2>1. n \in Nat BY <1>1
  <2> QED BY <1>5, <2>1
<1> DEFINE S == {i \in 0 .. n : ParseOk(areas, f[i]) /\ LinkOk(g[i]) /\ Agree(f[i], g[i])}
<1>8. 0 \in S
  <2>1. ParseOk(areas, Fresh(p)) BY DEF ParseOk, Fresh
  <2>2. LinkOk(Fresh(l)) BY DEF LinkOk, Fresh
  <2>3. /\ Fresh(p).st = "run" /\ Fresh(p).cont = NoArea
        /\ Fresh(p).symlink_len = p.symlink_len /\ Fresh(p).size = p.size
    BY DEF ParseOk, Fresh
  <2>4. /\ Fresh(l).st = "run" /\ Fresh(l).cont = NoArea
        /\ Fresh(l).text = l.text /\ Fresh(l).any = l.any
    BY DEF LinkOk, Fresh
  <2>5. Agree(Fresh(p), Fresh(l)) BY <2>3, <2>4 DEF Agree, Level
  <2> QED BY <1>1, <1>6, <1>7, <2>1, <2>2, <2>5
<1>9. ASSUME NEW i \in 0 .. n - 1, i \in S PROVE i + 1 \in S
  <2>1. i + 1 \in 1 .. n /\ (i + 1) - 1 = i /\ i + 1 \in 0 .. n BY <1>1
  <2>2. f[i + 1] = ParseEntry(f[i], su[i + 1]) /\ g[i + 1] = LinkEntry(g[i], su[i + 1])
    BY <1>6, <1>7, <2>1
  <2>3. ParseOk(areas, f[i]) /\ LinkOk(g[i]) /\ Agree(f[i], g[i]) BY <1>9
  <2>4. EntryOk(areas, su[i + 1]) /\ su[i + 1].sig # "RE" BY <1>1, <2>1
  <2>5. ParseOk(areas, f[i + 1]) BY <2>2, <2>3, <2>4, EntryParse
  <2>6. LinkOk(g[i + 1]) BY <2>2, <2>3, <2>4, EntryLink
  <2>7. Agree(f[i + 1], g[i + 1]) BY <2>2, <2>3, <2>4, EntryAgrees
  <2> QED BY <2>1, <2>5, <2>6, <2>7
<1>10. n \in S
  <2> HIDE DEF S
  <2>1. 0 .. n \subseteq S BY <1>1, <1>8, <1>9, SetInduction
  <2> QED BY <1>1, <2>1
<1> QED BY <1>2, <1>3, <1>10

AreasOk(areas) == \A a \in DOMAIN areas : EntriesOk(areas, areas[a].entries)

LEMMA TurnsLen == Len(Turns) \in Nat
<1>1. MaxAreas \in Nat BY SizesAssumption
<1>2. Turns \in Seq(Nat) BY <1>1 DEF Turns
<1> QED BY <1>2

LEMMA TurnParse ==
  ASSUME NEW areas, AreasOk(areas), NEW bad, NEW q, ParseOk(areas, q)
  PROVE  ParseOk(areas, ParseTurn(areas, bad, q))
<1>1. CASE Stops(q) BY <1>1 DEF ParseTurn
<1>2. CASE ~Stops(q) /\ q.cont \in bad
  <2>1. ParseTurn(areas, bad, q) = [q EXCEPT !.st = "end"] BY <1>2 DEF ParseTurn
  <2> QED BY <2>1 DEF ParseOk
<1>3. CASE ~Stops(q) /\ q.cont \notin bad
  <2>1. ParseTurn(areas, bad, q) = ParseSeg(q, areas[q.cont].entries) BY <1>3 DEF ParseTurn
  <2>2. q.cont \in DOMAIN areas BY <1>3 DEF Stops, ParseOk
  <2>3. EntriesOk(areas, areas[q.cont].entries) BY <2>2 DEF AreasOk
  <2> QED BY <2>1, <2>3, SegParse
<1> QED BY <1>1, <1>2, <1>3

LEMMA WalkParse ==
  ASSUME NEW areas, AreasOk(areas), NEW bad, NEW su, EntriesOk(areas, su),
         NEW p, ParseOk(areas, p)
  PROVE  ParseOk(areas, ParseWalk(areas, bad, p, su))
<1> DEFINE n == Len(Turns)
<1>1. n \in Nat BY TurnsLen
<1>2. PICK f : ParseWalkFun(areas, bad, p, su, n, f) /\ ParseWalk(areas, bad, p, su) = f[n]
  BY <1>1, ParseWalkHas
<1> HIDE DEF n
<1>3. f = [i \in 0 .. n |-> IF i = 0 THEN ParseSeg(p, su) ELSE ParseTurn(areas, bad, f[i - 1])]
  BY <1>2 DEF ParseWalkFun
<1>4. f[0] = ParseSeg(p, su) /\ \A i \in 1 .. n : f[i] = ParseTurn(areas, bad, f[i - 1])
  BY <1>1, <1>3
<1> DEFINE S == {i \in 0 .. n : ParseOk(areas, f[i])}
<1>5. 0 \in S BY <1>1, <1>4, SegParse
<1>6. ASSUME NEW i \in 0 .. n - 1, i \in S PROVE i + 1 \in S
  <2>1. i + 1 \in 1 .. n /\ (i + 1) - 1 = i /\ i + 1 \in 0 .. n BY <1>1
  <2>2. f[i + 1] = ParseTurn(areas, bad, f[i]) /\ ParseOk(areas, f[i]) BY <1>4, <1>6, <2>1
  <2>3. ParseOk(areas, f[i + 1]) BY <2>2, TurnParse
  <2> QED BY <2>1, <2>3
<1>7. n \in S
  <2> HIDE DEF S
  <2>1. 0 .. n \subseteq S BY <1>1, <1>5, <1>6, SetInduction
  <2> QED BY <1>1, <2>1
<1> QED BY <1>2, <1>7

LEMMA TurnAgrees ==
  ASSUME NEW areas, AreasOk(areas), NEW bad, \A a \in DOMAIN areas : NotMoved(areas[a].entries),
         NEW p, ParseOk(areas, p), NEW l, LinkOk(l), Agree(p, l)
  PROVE  /\ LinkOk(LinkTurn(areas, bad, l))
         /\ Agree(ParseTurn(areas, bad, p), LinkTurn(areas, bad, l))
<1>1. CASE l.st = "out"
  <2>1. LinkTurn(areas, bad, l) = l BY <1>1 DEF LinkTurn, Stops
  <2> QED BY <1>1, <2>1 DEF Agree
<1>2. CASE l.st # "out"
  <2>1. p.st = l.st /\ p.cont = l.cont /\ Level(p, l) BY <1>2 DEF Agree, Level
  <2>2. Stops(p) <=> Stops(l) BY <2>1 DEF Stops
  <2>3. CASE Stops(l)
    <3>1. LinkTurn(areas, bad, l) = l /\ ParseTurn(areas, bad, p) = p
      BY <2>2, <2>3 DEF LinkTurn, ParseTurn
    <3> QED BY <3>1
  <2>4. CASE ~Stops(l) /\ l.cont \in bad
    <3>1. /\ LinkTurn(areas, bad, l) = [l EXCEPT !.st = "end"]
          /\ ParseTurn(areas, bad, p) = [p EXCEPT !.st = "end"]
      BY <2>1, <2>2, <2>4 DEF LinkTurn, ParseTurn
    <3> DEFINE q == [p EXCEPT !.st = "end"]
               k == [l EXCEPT !.st = "end"]
    <3>2. q.st = "end" /\ q.cont = p.cont /\ q.symlink_len = p.symlink_len /\ q.size = p.size
      BY DEF ParseOk
    <3>3. k.st = "end" /\ k.cont = l.cont /\ k.text = l.text /\ k.any = l.any
      BY DEF LinkOk
    <3>4. DOMAIN k = DOMAIN l OBVIOUS
    <3> HIDE DEF q, k
    <3>5. Agree(q, k) BY <2>1, <3>2, <3>3 DEF Agree, Level
    <3>6. LinkOk(k) BY <3>3, <3>4 DEF LinkOk
    <3> QED BY <3>1, <3>5, <3>6 DEF q, k
  <2>5. CASE ~Stops(l) /\ l.cont \notin bad
    <3> DEFINE su == areas[l.cont].entries
    <3>1. LinkTurn(areas, bad, l) = LinkSeg(l, su) /\ ParseTurn(areas, bad, p) = ParseSeg(p, su)
      BY <2>1, <2>2, <2>5 DEF LinkTurn, ParseTurn
    <3>2. l.cont \in DOMAIN areas BY <2>1, <2>5 DEF Stops, ParseOk
    <3>3. EntriesOk(areas, su) /\ NotMoved(su) BY <3>2 DEF AreasOk
    <3> HIDE DEF su
    <3> QED BY <2>1, <3>1, <3>3, SegAgrees
  <2> QED BY <2>3, <2>4, <2>5
<1> QED BY <1>1, <1>2

(* The two walks agree on how long the text of a link is. *)
LEMMA WalksAgree ==
  ASSUME NEW areas, AreasOk(areas), NEW bad, \A a \in DOMAIN areas : NotMoved(areas[a].entries),
         NEW su, EntriesOk(areas, su), NotMoved(su),
         NEW p, ParseOk(areas, p), NEW l, LinkOk(l), Level(p, l)
  PROVE  /\ LinkOk(LinkWalk(areas, bad, l, su))
         /\ Agree(ParseWalk(areas, bad, p, su), LinkWalk(areas, bad, l, su))
<1> DEFINE n == Len(Turns)
<1>1. n \in Nat BY TurnsLen
<1>2. PICK f : ParseWalkFun(areas, bad, p, su, n, f) /\ ParseWalk(areas, bad, p, su) = f[n]
  BY <1>1, ParseWalkHas
<1>3. PICK g : LinkWalkFun(areas, bad, l, su, n, g) /\ LinkWalk(areas, bad, l, su) = g[n]
  BY <1>1, LinkWalkHas
<1> HIDE DEF n
<1>4. f = [i \in 0 .. n |-> IF i = 0 THEN ParseSeg(p, su) ELSE ParseTurn(areas, bad, f[i - 1])]
  BY <1>2 DEF ParseWalkFun
<1>5. g = [i \in 0 .. n |-> IF i = 0 THEN LinkSeg(l, su) ELSE LinkTurn(areas, bad, g[i - 1])]
  BY <1>3 DEF LinkWalkFun
<1>6. f[0] = ParseSeg(p, su) /\ \A i \in 1 .. n : f[i] = ParseTurn(areas, bad, f[i - 1])
  BY <1>1, <1>4
<1>7. g[0] = LinkSeg(l, su) /\ \A i \in 1 .. n : g[i] = LinkTurn(areas, bad, g[i - 1])
  BY <1>1, <1>5
<1> DEFINE S == {i \in 0 .. n : ParseOk(areas, f[i]) /\ LinkOk(g[i]) /\ Agree(f[i], g[i])}
<1>8. 0 \in S
  <2>1. ParseOk(areas, f[0]) BY <1>6, SegParse
  <2>2. LinkOk(g[0]) /\ Agree(f[0], g[0]) BY <1>6, <1>7, SegAgrees
  <2> QED BY <1>1, <2>1, <2>2
<1>9. ASSUME NEW i \in 0 .. n - 1, i \in S PROVE i + 1 \in S
  <2>1. i + 1 \in 1 .. n /\ (i + 1) - 1 = i /\ i + 1 \in 0 .. n BY <1>1
  <2>2. f[i + 1] = ParseTurn(areas, bad, f[i]) /\ g[i + 1] = LinkTurn(areas, bad, g[i])
    BY <1>6, <1>7, <2>1
  <2>3. ParseOk(areas, f[i]) /\ LinkOk(g[i]) /\ Agree(f[i], g[i]) BY <1>9
  <2>4. ParseOk(areas, f[i + 1]) BY <2>2, <2>3, TurnParse
  <2>5. LinkOk(g[i + 1]) /\ Agree(f[i + 1], g[i + 1]) BY <2>2, <2>3, TurnAgrees
  <2> QED BY <2>1, <2>4, <2>5
<1>10. n \in S
  <2> HIDE DEF S
  <2>1. 0 .. n \subseteq S BY <1>1, <1>8, <1>9, SetInduction
  <2> QED BY <1>1, <2>1
<1> QED BY <1>2, <1>3, <1>10

(* The record's fields, for any areas that cannot be read. *)
LEMMA Parsed ==
  ASSUME NEW areas, AreasOk(areas), NEW bad, NEW su, EntriesOk(areas, su),
         NEW mode \in Modes, NEW size \in Nat
  PROVE  LET f == parse_rock_ridge_inode(su, areas, bad, mode, size) IN
         f.mode \in Modes /\ f.size \in Nat
<1> DEFINE p == [st |-> "run", cont |-> NoArea, mode |-> mode, nlink |-> 1,
                 size |-> size, symlink_len |-> 0]
           q == ParseWalk(areas, bad, p, su)
<1>1. ParseOk(areas, p) BY DEF ParseOk
<1>2. parse_rock_ridge_inode(su, areas, bad, mode, size) =
        [mode |-> q.mode, nlink |-> q.nlink, size |-> q.size]
  BY Zenon DEF parse_rock_ridge_inode, ParseWalk
<1> HIDE DEF p
<1>3. ParseOk(areas, q) BY <1>1, WalkParse
<1> HIDE DEF q
<1> QED BY <1>2, <1>3 DEF ParseOk

(* A link is as long as its text. *)
LEMMA LinkLength ==
  ASSUME NEW areas, AreasOk(areas), \A a \in DOMAIN areas : NotMoved(areas[a].entries),
         NEW su, EntriesOk(areas, su), NotMoved(su), NEW mode \in Modes, NEW size \in Nat,
         get_rock_ridge_symlink(su, areas, {}) # NoText
  PROVE  parse_rock_ridge_inode(su, areas, {}, mode, size).size
           = Len(get_rock_ridge_symlink(su, areas, {}))
<1> DEFINE p == [st |-> "run", cont |-> NoArea, mode |-> mode, nlink |-> 1,
                 size |-> size, symlink_len |-> 0]
           l == [st |-> "run", cont |-> NoArea, any |-> FALSE, text |-> << >>]
           q == ParseWalk(areas, {}, p, su)
           k == LinkWalk(areas, {}, l, su)
<1>1. ParseOk(areas, p) BY DEF ParseOk
<1>2. parse_rock_ridge_inode(su, areas, {}, mode, size) =
        [mode |-> q.mode, nlink |-> q.nlink, size |-> q.size]
  BY Zenon DEF parse_rock_ridge_inode, ParseWalk
<1>3. get_rock_ridge_symlink(su, areas, {}) =
        IF k.st = "out" \/ ~k.any THEN NoText ELSE k.text
  BY Zenon DEF get_rock_ridge_symlink, LinkWalk
<1>4. LinkOk(l)
  <2>1. << >> \in Seq({}) OBVIOUS
  <2>2. IsSeq(<< >>) BY <2>1, SeqIs
  <2> QED BY <2>2 DEF LinkOk
<1>5. Level(p, l)
  <2>1. p.symlink_len = 0 /\ l.text = << >> OBVIOUS
  <2>2. l.any = FALSE BY Zenon
  <2> HIDE DEF p, l
  <2> QED BY <2>1, <2>2 DEF Level
<1> HIDE DEF p, l
<1>6. Agree(q, k) BY <1>1, <1>4, <1>5, WalksAgree
<1> HIDE DEF q, k
<1>7. k.st # "out" /\ k.any /\ get_rock_ridge_symlink(su, areas, {}) = k.text BY <1>3, Zenon
<1>8. k.any # FALSE BY <1>7, Zenon
<1>9. q.size = Len(k.text) BY <1>6, <1>7, <1>8 DEF Agree
<1> QED BY <1>2, <1>7, <1>9
-----------------------------------------------------------------------------
(*** What a sound disc holds ***)

ReadRec(d, ino) == IF d.cell[ino + 1] = << >> THEN ZeroRec ELSE d.rec[d.cell[ino + 1][1]]
RecAt(d, ino) == d.cell[ino + 1][1]
OnTrack(d, ino) == ino \in 0 .. Len(d.cell) - 1
Good(d) == SuperOk(d) /\ Sound(d)

LEMMA DivMod ==
  ASSUME NEW a \in Nat, NEW b \in Nat \ {0}
  PROVE  a \div b \in Nat /\ a % b \in 0 .. b - 1 /\ a = (a \div b) * b + (a % b)
OBVIOUS

LEMMA DivModOf ==
  ASSUME NEW b \in Nat \ {0}, NEW q \in Nat, NEW r \in 0 .. b - 1
  PROVE  (q * b + r) \div b = q /\ (q * b + r) % b = r
OBVIOUS

LEMMA Product == ASSUME NEW a \in Nat, NEW b \in Nat PROVE a * b \in Nat
OBVIOUS

LEMMA Cellular == BlockCells \in Nat \ {0} /\ SectorCells \in Nat \ {0} /\ SectorCells = 2 * BlockCells
BY SizesAssumption DEF SectorCells

LEMMA Zoned ==
  ASSUME NEW d, Good(d)
  PROVE  /\ Zone(d) \in Nat
         /\ \A i \in DOMAIN d.vds : Known(d, i) => d.vds[i] = Volume(d)
<1>1. DOMAIN d.vds \subseteq Int
  <2>1. d.vds \in Seq({d.vds[i] : i \in DOMAIN d.vds}) BY DEF Good, Sound, RootSound, IsSeq
  <2> QED BY <2>1
<1>2. ASSUME NEW i \in DOMAIN d.vds, NEW j \in DOMAIN d.vds, Known(d, i), Known(d, j) PROVE i = j
  BY <1>1, <1>2 DEF Known, Descriptors
<1>3. PICK i \in DOMAIN d.vds : Known(d, i) /\ d.vds[i].zone \in {BlockCells \div 2, BlockCells, SectorCells}
  BY DEF Good, SuperOk
<1> DEFINE c == CHOOSE j \in DOMAIN d.vds : Known(d, j)
<1>4. c \in DOMAIN d.vds /\ Known(d, c) BY <1>3
<1>5. Volume(d) = d.vds[c] BY DEF Volume
<1> HIDE DEF c
<1>6. \A j \in DOMAIN d.vds : Known(d, j) => d.vds[j] = Volume(d) BY <1>2, <1>4, <1>5
<1>7. Zone(d) \in {BlockCells \div 2, BlockCells, SectorCells} BY <1>3, <1>6 DEF Zone
<1>8. BlockCells \div 2 \in Nat BY SizesAssumption
<1> QED BY <1>6, <1>7, <1>8, Cellular

LEMMA Celled ==
  ASSUME NEW d, Good(d)
  PROVE  /\ Len(d.cell) \in Nat \ {0} /\ DOMAIN d.cell = 1 .. Len(d.cell)
         /\ \A i \in 1 .. Len(d.cell) : d.cell[i] # << >> => d.cell[i][1] \in DOMAIN d.rec
<1>1. d.cell \in Seq({d.cell[i] : i \in DOMAIN d.cell}) /\ d.cell # << >>
  BY DEF Good, Sound, RecordsSound, IsSeq
<1>2. Len(d.cell) \in Nat \ {0} /\ DOMAIN d.cell = 1 .. Len(d.cell) BY <1>1
<1> QED BY <1>2 DEF Good, Sound, RecordsSound

LEMMA Recorded ==
  ASSUME NEW d, Good(d), NEW m \in DOMAIN d.rec
  PROVE  /\ m # NoRec
         /\ d.rec[m].len \in Nat \ {0} /\ d.rec[m].extent \in Nat /\ d.rec[m].size \in Nat
         /\ Place(d, m) \in Nat /\ Place(d, m) % BlockCells = 0 /\ Place(d, m) < Len(d.cell)
         /\ EntriesOk(d.area, d.rec[m].su) /\ AreasOk(d.area)
<1>1. /\ m # NoRec
      /\ d.rec[m].len \in Nat \ {0} /\ d.rec[m].extent \in Nat /\ d.rec[m].size \in Nat
      /\ Place(d, m) % BlockCells = 0 /\ Place(d, m) < Len(d.cell)
      /\ EntriesSound(d, d.rec[m].su)
      /\ \A a \in DOMAIN d.area : EntriesSound(d, d.area[a].entries)
  BY DEF Good, Sound, RecordsSound
<1>2. ASSUME NEW su, EntriesSound(d, su) PROVE EntriesOk(d.area, su)
  BY <1>2 DEF EntriesSound, EntriesOk, EntryOk, SlSound, Modes
<1>3. EntriesOk(d.area, d.rec[m].su) /\ AreasOk(d.area) BY <1>1, <1>2 DEF AreasOk
<1>4. Place(d, m) \in Nat BY <1>1, Zoned, Product DEF Place
<1> QED BY <1>1, <1>3, <1>4

LEMMA Rooted ==
  ASSUME NEW d, Good(d)
  PROVE  /\ OnTrack(d, RootPlace(d)) /\ d.cell[RootPlace(d) + 1] # << >>
         /\ RootRec(d) \in DOMAIN d.rec /\ d.rec[RootRec(d)].dir
         /\ Place(d, RootRec(d)) = RootPlace(d) /\ RecAt(d, RootPlace(d)) = RootRec(d)
<1>1. /\ RootPlace(d) + 1 \in DOMAIN d.cell /\ d.cell[RootPlace(d) + 1] # << >>
      /\ d.rec[RootRec(d)].dir /\ Place(d, RootRec(d)) = RootPlace(d)
      /\ Volume(d).root \in Nat
  BY DEF Good, Sound, RootSound, Begins
<1>2. RootPlace(d) \in Nat BY <1>1, Zoned, Product DEF RootPlace
<1>3. OnTrack(d, RootPlace(d)) BY <1>1, <1>2, Celled DEF OnTrack
<1>4. RootRec(d) \in DOMAIN d.rec BY <1>1, Celled DEF RootRec
<1> QED BY <1>1, <1>3, <1>4 DEF RecAt, RootRec

LEMMA DirFacts ==
  ASSUME NEW d, Good(d), NEW x \in DOMAIN d.rec, d.rec[x].dir
  PROVE  LET h == CellOf(d, x, 0)[1]
             size == d.rec[x].size
         IN /\ Place(d, x) > 0 /\ Place(d, x) % SectorCells = 0 /\ Place(d, x) + size <= Len(d.cell)
            /\ size > 0 /\ size % SectorCells = 0 /\ size < CruftMod /\ size <= CruftLimit
            /\ ~d.rec[x].interleave /\ ~FarName(d, x)
            /\ Begins(CellOf(d, x, 0)) /\ d.rec[h].name = << "0" >> /\ ~d.rec[h].hidden
            /\ d.rec[h].dir /\ d.rec[h].extent = d.rec[x].extent /\ d.rec[h].size = size
BY DEF Good, Sound, DirSound

LEMMA DirCells ==
  ASSUME NEW d, Good(d), NEW x \in DOMAIN d.rec, d.rec[x].dir, NEW p \in 0 .. d.rec[x].size - 1
  PROVE  LET m == CellOf(d, x, p)[1]
             next == p + d.rec[m].len
         IN /\ CellOf(d, x, p) = << >> =>
                 \A q \in p .. d.rec[x].size - 1 :
                   p \div SectorCells = q \div SectorCells => CellOf(d, x, q) = << >>
            /\ Begins(CellOf(d, x, p)) =>
                 /\ (p % SectorCells) + d.rec[m].len <= SectorCells
                 /\ \A q \in p + 1 .. next - 1 : CellOf(d, x, q) = << m, q - p >>
                 /\ next % SectorCells = 0 \/ CellOf(d, x, next) = << >> \/ Begins(CellOf(d, x, next))
            /\ p % SectorCells = 0 => CellOf(d, x, p) = << >> \/ Begins(CellOf(d, x, p))
BY DEF Good, Sound, DirSound

LEMMA MemberIs ==
  ASSUME NEW d, Good(d), NEW x \in DOMAIN d.rec, d.rec[x].dir, NEW p \in StartsIn(d, x)
  PROVE  LET m == CellOf(d, x, p)[1] IN m \in DOMAIN d.rec /\ m \in Members(d, x)
<1>1. p \in 0 .. d.rec[x].size - 1 /\ CellOf(d, x, p) # << >> BY DEF StartsIn, Begins
<1>2. Place(d, x) \in Nat /\ Place(d, x) + d.rec[x].size <= Len(d.cell) /\ d.rec[x].size \in Nat
  BY Recorded, DirFacts
<1>3. Place(d, x) + p + 1 \in 1 .. Len(d.cell) BY <1>1, <1>2, Celled
<1>4. CellOf(d, x, p)[1] \in DOMAIN d.rec BY <1>1, <1>3, Celled DEF CellOf
<1> QED BY <1>4 DEF Members

(* A directory's own record, and any other of its records, say the same of  *)
(* its contents.                                                            *)
LEMMA HomeIs ==
  ASSUME NEW d, Good(d), NEW x \in DOMAIN d.rec
  PROVE  LET h == Home(d, x) IN
         /\ h \in DOMAIN d.rec /\ d.rec[h].dir = d.rec[x].dir
         /\ Place(d, h) = Place(d, x)
         /\ ~d.rec[x].dir => h = x
         /\ d.rec[x].dir => /\ h = CellOf(d, x, 0)[1] /\ d.rec[h].size = d.rec[x].size
                            /\ d.rec[h].extent = d.rec[x].extent
                            /\ Home(d, h) = h /\ StartsIn(d, h) = StartsIn(d, x)
                            /\ \A p : CellOf(d, h, p) = CellOf(d, x, p)
                            /\ Members(d, h) = Members(d, x)
<1>1. CASE ~d.rec[x].dir BY <1>1 DEF Home
<1>2. CASE d.rec[x].dir
  <2> DEFINE h == CellOf(d, x, 0)[1]
  <2>1. Home(d, x) = h BY <1>2 DEF Home
  <2>2. Begins(CellOf(d, x, 0)) /\ d.rec[h].dir /\ d.rec[h].extent = d.rec[x].extent
        /\ d.rec[h].size = d.rec[x].size /\ d.rec[x].size > 0
    BY <1>2, DirFacts
  <2>3. 0 \in StartsIn(d, x)
    <3>1. d.rec[x].size \in Nat BY Recorded
    <3>2. 0 \in 0 .. d.rec[x].size - 1 BY <2>2, <3>1
    <3> QED BY <2>2, <3>2 DEF StartsIn
  <2>4. h \in DOMAIN d.rec BY <1>2, <2>3, MemberIs
  <2> HIDE DEF h
  <2>5. Place(d, h) = Place(d, x) BY <2>2 DEF Place
  <2>6. \A p : CellOf(d, h, p) = CellOf(d, x, p) BY <2>5 DEF CellOf
  <2>7. StartsIn(d, h) = StartsIn(d, x) BY <2>2, <2>6 DEF StartsIn
  <2>8. Members(d, h) = Members(d, x) BY <2>6, <2>7 DEF Members
  <2>9. Home(d, h) = h
    <3>1. Home(d, h) = CellOf(d, h, 0)[1] BY <2>2 DEF Home
    <3>2. CellOf(d, h, 0) = CellOf(d, x, 0) BY <2>6
    <3> QED BY <3>1, <3>2 DEF h
  <2>10. d.rec[h].dir = d.rec[x].dir
    <3>1. d.rec[h].dir \in BOOLEAN /\ d.rec[x].dir \in BOOLEAN
      BY <2>4 DEF Good, Sound, RecordsSound
    <3> QED BY <1>2, <2>2, <3>1
  <2>11. h = CellOf(d, x, 0)[1] BY DEF h
  <2> QED BY <1>2, <2>1, <2>2, <2>4, <2>5, <2>6, <2>7, <2>8, <2>9, <2>10, <2>11
<1> QED BY <1>1, <1>2

LEMMA RootIsHome ==
  ASSUME NEW d, Good(d)
  PROVE  Home(d, RootRec(d)) = RootRec(d)
<1>1. /\ RootRec(d) \in DOMAIN d.rec /\ d.rec[RootRec(d)].dir
      /\ Place(d, RootRec(d)) = RootPlace(d) /\ OnTrack(d, RootPlace(d))
  BY Rooted
<1>2. Home(d, RootRec(d)) = CellOf(d, RootRec(d), 0)[1] BY <1>1 DEF Home
<1>3. CellOf(d, RootRec(d), 0) = d.cell[RootPlace(d) + 0 + 1] BY <1>1 DEF CellOf
<1>4. RootPlace(d) + 0 + 1 = RootPlace(d) + 1 BY <1>1, Celled DEF OnTrack
<1> QED BY <1>2, <1>3, <1>4 DEF RootRec

LEMMA Linked ==
  ASSUME NEW d, Good(d), NEW x \in DOMAIN d.rec
  PROVE  /\ IsSeq(d.rec[x].link) /\ d.rec[x].link # NoText
         /\ d.rec[x].dir => d.rec[x].link = << >>
         /\ d.rec[x].link # << >> =>
              /\ ~FarName(d, x) /\ Rock(d)
              /\ get_rock_ridge_symlink(d.rec[x].su, d.area, {}) = d.rec[x].link
<1>1. LinkSound(d, x) BY DEF Good, Sound
<1> QED BY <1>1 DEF LinkSound

(* iso_iget's reading of a record, when no area is lost. *)
LEMMA ReadWhole ==
  ASSUME NEW d, Good(d), NEW x \in DOMAIN d.rec, NEW cr \in BOOLEAN
  PROVE  LET y == d.rec[x]
             f == TypeAndSize(y, Rock(d), d.area, cr, {})
         IN /\ f.mode = IF y.link # << >> THEN "link" ELSE IF y.dir THEN "dir" ELSE "file"
            /\ y.link # << >> => f.size = Len(y.link)
            /\ y.link = << >> => f.size = SizeField(y, cr)
<1> DEFINE y == d.rec[x]
           f == TypeAndSize(y, Rock(d), d.area, cr, {})
<1>1. LinkSound(d, x) BY DEF Good, Sound
<1>2. CASE y.link = << >>
  <2>1. /\ f.mode = IF y.dir THEN "dir" ELSE "file"
        /\ f.size = SizeField(y, cr)
    BY <1>1, <1>2 DEF LinkSound
  <2> QED BY <1>2, <2>1
<1>3. CASE y.link # << >>
  <2>1. /\ Rock(d) /\ f.mode = "link" /\ y.link # NoText
        /\ get_rock_ridge_symlink(y.su, d.area, {}) = y.link
        /\ NotMoved(y.su) /\ \A a \in DOMAIN d.area : NotMoved(d.area[a].entries)
    BY <1>1, <1>3 DEF LinkSound
  <2> DEFINE mode == IF y.dir THEN "dir" ELSE "file"
             size == SizeField(y, cr)
  <2>2. f = parse_rock_ridge_inode(y.su, d.area, {}, mode, size)
    BY <2>1, Zenon DEF TypeAndSize
  <2>3. mode \in Modes BY DEF Modes
  <2>4. size \in Nat
    <3>1. y.size \in Nat BY Recorded
    <3>2. y.size % CruftMod \in Nat BY <3>1, SizesAssumption
    <3> HIDE DEF y
    <3> QED BY <3>1, <3>2 DEF SizeField
  <2>5. EntriesOk(d.area, y.su) /\ AreasOk(d.area) BY Recorded
  <2> HIDE DEF y, f, mode, size
  <2>6. parse_rock_ridge_inode(y.su, d.area, {}, mode, size).size = Len(y.link)
    BY <2>1, <2>3, <2>4, <2>5, LinkLength
  <2>7. f.size = Len(y.link) BY <2>2, <2>6
  <2> QED BY <1>3, <2>1, <2>7 DEF f, y
<1> QED BY <1>2, <1>3

(* And when some are. *)
LEMMA ReadTyped ==
  ASSUME NEW d, Good(d), NEW ino, OnTrack(d, ino), NEW cr \in BOOLEAN, NEW bad
  PROVE  LET f == TypeAndSize(ReadRec(d, ino), Rock(d), d.area, cr, bad)
         IN f.mode \in Modes /\ f.size \in Nat
<1> DEFINE y == ReadRec(d, ino)
           mode == IF y.dir THEN "dir" ELSE "file"
           size == SizeField(y, cr)
           f == TypeAndSize(y, Rock(d), d.area, cr, bad)
<1>1. ino + 1 \in 1 .. Len(d.cell) BY Celled DEF OnTrack
<1>2. y.size \in Nat /\ EntriesOk(d.area, y.su) /\ AreasOk(d.area)
  <2>0. PICK r \in DOMAIN d.rec : TRUE BY Rooted
  <2>1. AreasOk(d.area) BY <2>0, Recorded
  <2>2. CASE d.cell[ino + 1] = << >>
    <3>1. y.size = 0 /\ y.su = << >> BY <2>2 DEF ReadRec, ZeroRec
    <3>2. << >> \in Seq({}) OBVIOUS
    <3>3. IsSeq(<< >>) BY <3>2, SeqIs
    <3>4. \A k \in DOMAIN << >> : FALSE OBVIOUS
    <3> QED BY <2>1, <3>1, <3>3, <3>4 DEF EntriesOk
  <2>3. CASE d.cell[ino + 1] # << >>
    <3>1. d.cell[ino + 1][1] \in DOMAIN d.rec BY <1>1, <2>3, Celled
    <3> QED BY <2>3, <3>1, Recorded DEF ReadRec
  <2> QED BY <2>2, <2>3
<1> HIDE DEF y
<1>3. size \in Nat
  <2>2. y.size % CruftMod \in Nat BY <1>2, SizesAssumption
  <2> QED BY <1>2, <2>2 DEF SizeField
<1>4. mode \in Modes BY DEF Modes
<1> HIDE DEF mode, size
<1>5. CASE Rock(d)
  <2>1. f = parse_rock_ridge_inode(y.su, d.area, bad, mode, size)
    BY <1>5, Zenon DEF TypeAndSize, mode, size
  <2> HIDE DEF f
  <2>2. f.mode \in Modes /\ f.size \in Nat BY <1>2, <1>3, <1>4, <2>1, Parsed
  <2> QED BY <2>2 DEF f, y
<1>6. CASE ~Rock(d)
  <2>1. f = [mode |-> mode, nlink |-> 1, size |-> size]
    BY <1>6, Zenon DEF TypeAndSize, mode, size
  <2> HIDE DEF f
  <2>2. f.mode \in Modes /\ f.size \in Nat BY <1>3, <1>4, <2>1
  <2> QED BY <2>2 DEF f, y
<1> QED BY <1>5, <1>6

Passed(d, x, n, pos) ==
  \A q \in StartsIn(d, x) : q < pos =>
    LET m == CellOf(d, x, q)[1] IN ~Meant(d, m, n) \/ FarName(d, m)

Shows(d, m, n, heap) ==
  ~d.rec[m].hidden /\ iso_match(n, Shown(d.rec[m], Rock(d), d.area, heap, {}))

(* A record matches what it stands for and nothing else, unless its name    *)
(* goes on too far.                                                         *)
LEMMA ShowsMeant ==
  ASSUME NEW d, Good(d), NEW x \in DOMAIN d.rec, d.rec[x].dir, NEW m \in Members(d, x),
         NEW n \in Asked(d), NEW heap \in HeapTexts
  PROVE  /\ Shows(d, m, n, heap) => Meant(d, m, n)
         /\ Meant(d, m, n) => Shows(d, m, n, heap) \/ FarName(d, m)
<1>1. NamesSound(d, x) BY DEF Good, Sound
<1>2. Dots(d, m) => ~d.rec[m].hidden BY <1>1 DEF NamesSound
<1>3. ~d.rec[m].hidden =>
        LET shown == iso_match(n, Shown(d.rec[m], Rock(d), d.area, heap, {})) IN
        (shown => Meant(d, m, n)) /\ (Meant(d, m, n) => shown \/ FarName(d, m))
  BY <1>1, Zenon DEF NamesSound
<1>4. Meant(d, m, n) => ~d.rec[m].hidden BY <1>2 DEF Meant, Stands, Dots
<1> QED BY <1>3, <1>4, Zenon DEF Shows

(* The directory entry that a name stands for. *)
LEMMA ChildIs ==
  ASSUME NEW d, Good(d), NEW x \in DOMAIN d.rec, d.rec[x].dir, NEW m \in Members(d, x),
         NEW n \in Asked(d), Meant(d, m, n)
  PROVE  LET c == Child(d, Home(d, x), n) IN
         /\ d.rec[m].name = << "0" >> => c = Home(d, x)
         /\ d.rec[m].name # << "0" >> => c = Home(d, m)
         /\ d.rec[m].name = << "1" >> =>
              d.rec[m].dir /\ (Place(d, x) = RootPlace(d) => Place(d, m) = RootPlace(d))
<1> DEFINE h == Home(d, x)
<1>0. /\ h \in DOMAIN d.rec /\ d.rec[h].dir = d.rec[x].dir /\ h # NoRec
      /\ Members(d, h) = Members(d, x)
  BY HomeIs, Recorded
<1>1. NamesSound(d, x) BY DEF Good, Sound
<1>2. Dots(d, m) => d.rec[m].dir /\ d.rec[m].known = {} BY <1>1 DEF NamesSound
<1> HIDE DEF h
<1>3. CASE n \in {<< >>, << "." >>}
  <2>1. d.rec[m].name = << "0" >> BY <1>3 DEF Meant
  <2>2. Child(d, h, n) = h BY <1>0, <1>3 DEF Child
  <2> QED BY <2>1, <2>2 DEF h
<1>4. CASE n \notin {<< >>, << "." >>}
  <2>1. Stands(d, m, n) BY <1>4 DEF Meant
  <2>2. d.rec[m].name # << "0" >>
    <3>1. CASE n = << ".." >>
      <4>1. d.rec[m].name = << "1" >> BY <2>1, <3>1, Zenon DEF Stands
      <4> QED BY <4>1
    <3>2. CASE n # << ".." >>
      <4>1. n \in d.rec[m].known BY <2>1, <3>2 DEF Stands
      <4> QED BY <1>2, <4>1 DEF Dots
    <3> QED BY <3>1, <3>2
  <2> DEFINE cs == {c \in Members(d, h) : Stands(d, c, n)}
  <2>3. cs = {m} BY <1>0, <1>1, <2>1 DEF NamesSound
  <2>4. Child(d, h, n) = IF cs = {} THEN NoRec ELSE Home(d, CHOOSE c \in cs : TRUE)
    BY <1>0, <1>4 DEF Child
  <2> HIDE DEF cs
  <2>5. Child(d, h, n) = Home(d, m) BY <2>3, <2>4
  <2>6. d.rec[m].name = << "1" >> =>
          d.rec[m].dir /\ (Place(d, x) = RootPlace(d) => Place(d, m) = RootPlace(d))
    BY <1>1, <1>2 DEF NamesSound, Dots
  <2> QED BY <2>2, <2>5, <2>6 DEF h
<1> QED BY <1>3, <1>4

(* Once the whole directory is passed, the name stands for nothing in it,   *)
(* or for a file whose name goes on too far.                                *)
LEMMA PassedAll ==
  ASSUME NEW d, Good(d), NEW x \in DOMAIN d.rec, d.rec[x].dir, NEW n \in Asked(d),
         Passed(d, x, n, d.rec[x].size)
  PROVE  LET c == Child(d, Home(d, x), n) IN
         c # NoRec => FarName(d, c) /\ c \in DOMAIN d.rec /\ ~d.rec[c].dir /\ d.rec[c].link = << >>
<1> DEFINE h == Home(d, x)
<1>0. /\ h \in DOMAIN d.rec /\ d.rec[h].dir = d.rec[x].dir /\ h # NoRec
      /\ Members(d, h) = Members(d, x)
  BY HomeIs, Recorded
<1>1. ASSUME NEW m \in Members(d, x)
      PROVE  m \in DOMAIN d.rec /\ (~Meant(d, m, n) \/ FarName(d, m))
  <2>1. PICK q \in StartsIn(d, x) : m = CellOf(d, x, q)[1] BY <1>1 DEF Members
  <2>2. q < d.rec[x].size
    <3>1. d.rec[x].size \in Nat /\ q \in 0 .. d.rec[x].size - 1 BY Recorded DEF StartsIn
    <3> QED BY <3>1
  <2>3. m \in DOMAIN d.rec BY <2>1, MemberIs
  <2> QED BY <2>1, <2>2, <2>3 DEF Passed
<1> HIDE DEF h
<1>2. CASE n \in {<< >>, << "." >>}
  <2> DEFINE m == CellOf(d, x, 0)[1]
  <2>1. Begins(CellOf(d, x, 0)) /\ d.rec[m].name = << "0" >> /\ d.rec[m].dir /\ d.rec[x].size > 0
    BY DirFacts
  <2>2. 0 \in StartsIn(d, x)
    <3>1. d.rec[x].size \in Nat BY Recorded
    <3>2. 0 \in 0 .. d.rec[x].size - 1 BY <2>1, <3>1
    <3> QED BY <2>1, <3>2 DEF StartsIn
  <2>3. m \in DOMAIN d.rec /\ m \in Members(d, x) BY <2>2, MemberIs
  <2> HIDE DEF m
  <2>4. Meant(d, m, n) BY <1>2, <2>1 DEF Meant
  <2>5. ~FarName(d, m) BY <2>1, <2>3, DirFacts
  <2> QED BY <1>1, <2>3, <2>4, <2>5
<1>3. CASE n \notin {<< >>, << "." >>}
  <2> DEFINE cs == {c \in Members(d, h) : Stands(d, c, n)}
  <2>1. Child(d, h, n) = IF cs = {} THEN NoRec ELSE Home(d, CHOOSE c \in cs : TRUE)
    BY <1>0, <1>3 DEF Child
  <2>2. CASE cs = {} BY <2>1, <2>2 DEF h
  <2>3. CASE cs # {}
    <3> DEFINE m == CHOOSE c \in cs : TRUE
    <3>1. m \in cs BY <2>3
    <3>2. Child(d, h, n) = Home(d, m) BY <2>1, <2>3
    <3> HIDE DEF m
    <3>3. m \in Members(d, x) /\ Stands(d, m, n) BY <1>0, <3>1
    <3>4. Meant(d, m, n) BY <1>3, <3>3 DEF Meant
    <3>5. FarName(d, m) /\ m \in DOMAIN d.rec BY <1>1, <3>3, <3>4
    <3>6. ~d.rec[m].dir BY <3>5, DirFacts
    <3>7. Home(d, m) = m BY <3>6 DEF Home
    <3>8. d.rec[m].link = << >> BY <3>5, Linked
    <3> QED BY <3>2, <3>5, <3>6, <3>7, <3>8 DEF h
  <2> QED BY <2>2, <2>3
<1> QED BY <1>2, <1>3

LEMMA Multiples ==
  ASSUME NEW s \in Nat \ {0}, NEW u \in Nat, NEW v \in Nat, u < v
  PROVE  u * s + s <= v * s
<1>1. u + 1 <= v OBVIOUS
<1>2. (u + 1) * s <= v * s BY <1>1
<1>3. (u + 1) * s = u * s + s OBVIOUS
<1> QED BY <1>2, <1>3

LEMMA SectorEnd ==
  ASSUME NEW s \in Nat \ {0}, NEW a \in Nat, NEW n \in Nat, n % s = 0, a < n
  PROVE  LET e == (a \div s) * s + s IN
         /\ e \in Nat /\ a < e /\ e <= n /\ e % s = 0
         /\ \A q \in a .. e - 1 : a \div s = q \div s
<1> DEFINE u == a \div s
           v == n \div s
<1>1. u \in Nat /\ a % s \in 0 .. s - 1 /\ a = u * s + (a % s) BY DivMod
<1>2. v \in Nat /\ n = v * s
  <2>1. v \in Nat /\ n = v * s + (n % s) BY DivMod
  <2> QED BY <2>1
<1> HIDE DEF u, v
<1>3. u * s \in Nat /\ v * s \in Nat BY <1>1, <1>2
<1>4. u < v
  <2> SUFFICES ASSUME v <= u PROVE FALSE BY <1>1, <1>2
  <2>1. v * s <= u * s BY <1>1, <1>2
  <2> QED BY <1>1, <1>2, <1>3, <2>1
<1>5. u * s + s <= v * s BY <1>1, <1>2, <1>4, Multiples
<1>6. u * s + s \in Nat /\ a < u * s + s /\ u * s + s <= n BY <1>1, <1>2, <1>3, <1>5
<1>7. (u * s + s) % s = 0
  <2>1. u + 1 \in Nat /\ 0 \in 0 .. s - 1 BY <1>1
  <2>2. ((u + 1) * s + 0) % s = 0 BY <2>1, DivModOf
  <2>3. (u + 1) * s + 0 = u * s + s BY <1>1
  <2> QED BY <2>2, <2>3
<1>8. ASSUME NEW q \in a .. u * s + s - 1 PROVE u = q \div s
  <2>1. q - u * s \in 0 .. s - 1 BY <1>1, <1>3
  <2>2. (u * s + (q - u * s)) \div s = u BY <1>1, <2>1, DivModOf
  <2>3. u * s + (q - u * s) = q BY <1>3
  <2> QED BY <2>2, <2>3
<1> QED BY <1>6, <1>7, <1>8 DEF u

(* Where the block buffer lies in the directory. *)
LEMMA CellHere ==
  ASSUME NEW d, Good(d), NEW x \in DOMAIN d.rec, NEW pos \in Nat
  PROVE  LET b == (Place(d, x) \div BlockCells) + (pos \div BlockCells) IN
         /\ b \in Nat /\ pos % BlockCells \in 0 .. BlockCells - 1
         /\ b * BlockCells + (pos % BlockCells) = Place(d, x) + pos
<1> DEFINE P == Place(d, x)
           u == P \div BlockCells
           v == pos \div BlockCells
<1>0. BlockCells \in Nat \ {0} BY Cellular
<1>1. P \in Nat /\ P % BlockCells = 0 BY Recorded
<1> HIDE DEF P
<1>2. u \in Nat /\ P = u * BlockCells
  <2>1. u \in Nat /\ P = u * BlockCells + (P % BlockCells) BY <1>0, <1>1, DivMod
  <2> HIDE DEF u
  <2>2. u * BlockCells \in Nat BY <1>0, <2>1
  <2> QED BY <1>1, <2>1, <2>2
<1>3. v \in Nat /\ pos % BlockCells \in 0 .. BlockCells - 1 /\ pos = v * BlockCells + (pos % BlockCells)
  BY <1>0, DivMod
<1> HIDE DEF u, v
<1>4. (u + v) * BlockCells = u * BlockCells + v * BlockCells BY <1>0, <1>2, <1>3
<1>5. u * BlockCells \in Nat /\ v * BlockCells \in Nat BY <1>0, <1>2, <1>3
<1>6. (u + v) * BlockCells + (pos % BlockCells) = P + pos BY <1>2, <1>3, <1>4, <1>5
<1> QED BY <1>2, <1>3, <1>6 DEF u, v, P

(* Past a zero byte: to the next sector. *)
LEMMA ZeroAhead ==
  ASSUME NEW d, Good(d), NEW x \in DOMAIN d.rec, d.rec[x].dir, NEW pos \in 0 .. d.rec[x].size - 1,
         CellOf(d, x, pos) = << >>
  PROVE  LET next == SectorAfter(pos) IN
         /\ next \in Nat /\ pos < next /\ next <= d.rec[x].size /\ next % SectorCells = 0
         /\ \A q \in StartsIn(d, x) : q < next => q < pos
         /\ next < d.rec[x].size => CellOf(d, x, next) = << >> \/ Begins(CellOf(d, x, next))
<1> DEFINE next == SectorAfter(pos)
           size == d.rec[x].size
<1>1. size \in Nat /\ size % SectorCells = 0 /\ SectorCells \in Nat \ {0} BY Recorded, DirFacts, Cellular
<1>2. pos \in Nat /\ pos < size BY <1>1
<1>3. /\ next \in Nat /\ pos < next /\ next <= size /\ next % SectorCells = 0
      /\ \A q \in pos .. next - 1 : pos \div SectorCells = q \div SectorCells
  <2> HIDE DEF size
  <2> QED BY <1>1, <1>2, SectorEnd DEF SectorAfter
<1> HIDE DEF next
<1>4. ASSUME NEW q \in StartsIn(d, x), q < next, ~(q < pos) PROVE FALSE
  <2>1. q \in 0 .. size - 1 /\ CellOf(d, x, q) # << >> BY DEF StartsIn, Begins
  <2>2. q \in pos .. next - 1 /\ q \in pos .. size - 1 BY <1>1, <1>2, <1>3, <1>4, <2>1
  <2>3. CellOf(d, x, q) = << >> BY <1>3, <2>2, DirCells
  <2> QED BY <2>1, <2>3
<1>5. next < size => CellOf(d, x, next) = << >> \/ Begins(CellOf(d, x, next))
  <2> SUFFICES ASSUME next < size PROVE CellOf(d, x, next) = << >> \/ Begins(CellOf(d, x, next))
    OBVIOUS
  <2>0. next \in Nat /\ size \in Nat BY <1>1, <1>3
  <2> HIDE DEF size
  <2>1. next \in 0 .. size - 1 BY <2>0
  <2> QED BY <1>3, <2>1, DirCells DEF size
<1> QED BY <1>3, <1>4, <1>5 DEF next

(* Past a record: to the next one or a zero byte. *)
LEMMA RecordAhead ==
  ASSUME NEW d, Good(d), NEW x \in DOMAIN d.rec, d.rec[x].dir, NEW pos \in StartsIn(d, x)
  PROVE  LET next == pos + d.rec[CellOf(d, x, pos)[1]].len IN
         /\ next \in Nat /\ pos < next /\ next <= d.rec[x].size
         /\ \A q \in StartsIn(d, x) : q < next => q <= pos
         /\ next < d.rec[x].size => CellOf(d, x, next) = << >> \/ Begins(CellOf(d, x, next))
<1> DEFINE m == CellOf(d, x, pos)[1]
           len == d.rec[m].len
           next == pos + len
           size == d.rec[x].size
<1>1. size \in Nat /\ size % SectorCells = 0 /\ SectorCells \in Nat \ {0} BY Recorded, DirFacts, Cellular
<1>2. pos \in 0 .. size - 1 /\ Begins(CellOf(d, x, pos)) BY DEF StartsIn
<1>3. len \in Nat \ {0} BY MemberIs, Recorded
<1>4. /\ (pos % SectorCells) + len <= SectorCells
      /\ \A q \in pos + 1 .. next - 1 : CellOf(d, x, q) = << m, q - pos >>
      /\ next % SectorCells = 0 \/ CellOf(d, x, next) = << >> \/ Begins(CellOf(d, x, next))
  BY <1>2, DirCells
<1> DEFINE e == (pos \div SectorCells) * SectorCells + SectorCells
<1>5. pos \in Nat /\ pos < size BY <1>1, <1>2
<1>6. e \in Nat /\ e <= size
  <2> HIDE DEF size
  <2> QED BY <1>1, <1>5, SectorEnd
<1>7. next <= e
  <2>1. /\ pos % SectorCells \in Nat /\ (pos \div SectorCells) * SectorCells \in Nat
        /\ pos = (pos \div SectorCells) * SectorCells + (pos % SectorCells)
    <3>1. /\ pos \div SectorCells \in Nat /\ pos % SectorCells \in 0 .. SectorCells - 1
          /\ pos = (pos \div SectorCells) * SectorCells + (pos % SectorCells)
      BY <1>1, <1>5, DivMod
    <3>2. (pos \div SectorCells) * SectorCells \in Nat BY <1>1, <3>1, Product
    <3> QED BY <1>1, <3>1, <3>2
  <2> HIDE DEF len
  <2> QED BY <1>1, <1>3, <1>4, <1>5, <2>1
<1> HIDE DEF len, e, m, size
<1>8. next \in Nat /\ pos < next /\ next <= size BY <1>1, <1>3, <1>5, <1>6, <1>7
<1>9. ASSUME NEW q \in StartsIn(d, x), q < next, ~(q <= pos) PROVE FALSE
  <2>1. q \in 0 .. size - 1 /\ CellOf(d, x, q)[2] = 0 BY DEF StartsIn, Begins, size
  <2>2. q \in pos + 1 .. next - 1 BY <1>1, <1>3, <1>5, <1>9, <2>1
  <2>3. CellOf(d, x, q) = << m, q - pos >> BY <1>4, <2>2
  <2>4. q - pos = 0 BY <2>1, <2>3
  <2> QED BY <1>3, <1>5, <2>2, <2>4
<1>10. next < size => CellOf(d, x, next) = << >> \/ Begins(CellOf(d, x, next))
  <2> SUFFICES ASSUME next < size, next % SectorCells = 0
               PROVE CellOf(d, x, next) = << >> \/ Begins(CellOf(d, x, next))
    BY <1>4
  <2>1. next \in 0 .. size - 1 BY <1>1, <1>8
  <2> HIDE DEF next
  <2> QED BY <2>1, DirCells DEF size
<1> QED BY <1>8, <1>9, <1>10 DEF len, m, size
-----------------------------------------------------------------------------
(*** The mounted file system: what is in a slot is an inode of the disc ***)

NodeIn(d, n) ==
  /\ n.free = 0 /\ OnTrack(d, n.inumber) /\ n.mode \in Modes /\ n.size \in Nat
  /\ n.first_extent = ReadRec(d, n.inumber).extent * Zone(d)

(* The mounted file system and what the slots hold. *)
Mounted ==
  /\ disc \in Discs /\ cruft \in BOOLEAN
  /\ sb \in [ok : BOOLEAN, rock : BOOLEAN, zone : Nat, root_inode : Nat]
  /\ sb.ok => /\ SuperOk(D) /\ sb.zone = Zone(D) /\ sb.rock = Rock(D)
              /\ sb.root_inode = RootPlace(D)
              /\ cruft => "defect" \in past
  /\ pc # "idle" => sb.ok
  /\ \A s \in Slots : table[s] = NoNode \/ (sb.ok /\ NodeIn(D, table[s]))

Scanning ==
  /\ pc = "scan" => /\ scan \in [f_pos : Nat, offset : 0 .. BlockCells - 1, block : Nat, ino : {0}]
                    /\ OnDisc(scan.block) /\ data_block = Block(scan.block)
  /\ pc = "found" => OnTrack(D, scan.ino)

Counts ==
  /\ opens \in 0 .. MaxOpens /\ failures \in 0 .. MaxFailures
  /\ seen \subseteq {"read", "part", "overrun"} /\ past \subseteq {"lost", "defect"}
  /\ pc \in {"idle", "look", "scan", "missing", "found", "follow", "list", "dead"}

Reading ==
  /\ ret.call = "bread" => pc = "idle" /\ ret.fd \in Slots /\ ReadCovers
  /\ Looking \/ pc = "follow" =>
       ret = [call |-> "open", wanted |-> ret.wanted, val |-> ret.val, room |-> ret.room]

Lawful == Mounted /\ Scanning /\ Counts /\ Reading
-----------------------------------------------------------------------------
LEMMA GoodDisc ==
  ASSUME Mounted, sb.ok
  PROVE  Good(D)
BY DiscsAssumption DEF Mounted, D, Good

LEMMA HeldNode ==
  ASSUME Mounted, NEW s \in Slots, table[s].free = 0
  PROVE  sb.ok /\ NodeIn(D, table[s])
BY DEF Mounted, NoNode

LEMMA ReadAt ==
  ASSUME NEW ino
  PROVE  RecordAt(ino) = ReadRec(D, ino)
BY DEF RecordAt, RecordOf, ReadRec

LEMMA ReadIs ==
  ASSUME NEW d, Good(d), NEW ino, OnTrack(d, ino)
  PROVE  LET r == ReadRec(d, ino)
             e == r.extent * Zone(d)
         IN /\ e \in Nat /\ e % BlockCells = 0 /\ e < Len(d.cell) /\ r.len \in Nat
            /\ d.cell[ino + 1] # << >> =>
                 /\ RecAt(d, ino) \in DOMAIN d.rec /\ r = d.rec[RecAt(d, ino)]
                 /\ e = Place(d, RecAt(d, ino))
<1>1. ino + 1 \in 1 .. Len(d.cell) /\ Len(d.cell) \in Nat \ {0} BY Celled DEF OnTrack
<1>2. CASE d.cell[ino + 1] = << >>
  <2>1. ReadRec(d, ino) = ZeroRec BY <1>2 DEF ReadRec
  <2>2. ZeroRec.extent = 0 /\ ZeroRec.len = 0 BY DEF ZeroRec
  <2>3. 0 * Zone(d) = 0 BY Zoned
  <2>4. 0 % BlockCells = 0 BY Cellular
  <2> QED BY <1>1, <1>2, <2>1, <2>2, <2>3, <2>4
<1>3. CASE d.cell[ino + 1] # << >>
  <2>1. RecAt(d, ino) \in DOMAIN d.rec BY <1>1, <1>3, Celled DEF RecAt
  <2>2. ReadRec(d, ino) = d.rec[RecAt(d, ino)] BY <1>3 DEF ReadRec, RecAt
  <2> QED BY <2>1, <2>2, Recorded DEF Place
<1> QED BY <1>2, <1>3

(* What iso_iget makes of a record. *)
LEMMA NodeIs ==
  ASSUME Mounted, sb.ok, NEW ino, OnTrack(D, ino), NEW bad
  PROVE  /\ NodeIn(D, Node(ino, bad)) /\ Node(ino, bad).inumber = ino
         /\ LET f == TypeAndSize(ReadRec(D, ino), Rock(D), D.area, cruft, Lost(bad))
            IN Node(ino, bad).mode = f.mode /\ Node(ino, bad).size = f.size
<1> DEFINE f == TypeAndSize(ReadRec(D, ino), Rock(D), D.area, cruft, Lost(bad))
           r == ReadRec(D, ino)
<1>1. sb.rock = Rock(D) /\ sb.zone = Zone(D) BY Zenon DEF Mounted
<1>2. Good(D) /\ cruft \in BOOLEAN BY GoodDisc, Zenon DEF Mounted
<1>3. f.mode \in Modes /\ f.size \in Nat BY <1>2, ReadTyped
<1>4. TypeAndSize(RecordAt(ino), sb.rock, D.area, cruft, Lost(bad)) = f BY <1>1, ReadAt
<1> HIDE DEF f
<1>5. Node(ino, bad) = [free |-> 0, inumber |-> ino, mode |-> f.mode, size |-> f.size,
                        first_extent |-> r.extent * Zone(D)]
  BY <1>1, <1>4, ReadAt DEF Node
<1> HIDE DEF r
<1>6. /\ Node(ino, bad).free = 0 /\ Node(ino, bad).inumber = ino /\ Node(ino, bad).mode = f.mode
      /\ Node(ino, bad).size = f.size /\ Node(ino, bad).first_extent = r.extent * Zone(D)
  BY <1>5
<1>7. NodeIn(D, Node(ino, bad)) BY <1>3, <1>6 DEF NodeIn, r
<1> QED BY <1>6, <1>7 DEF f

LEMMA Fails ==
  ASSUME failures \in 0 .. MaxFailures, NEW bad,
         bad = {} \/ (failures < MaxFailures /\ \E x : bad = {x})
  PROVE  /\ failures + Cardinality(bad) \in 0 .. MaxFailures
         /\ Cardinality(bad) \in Nat
<1>1. MaxFailures \in Nat BY BoundsAssumption
<1>2. CASE bad = {} BY <1>1, <1>2, FS_EmptySet
<1>3. CASE failures < MaxFailures /\ \E x : bad = {x}
  <2>1. Cardinality(bad) = 1 BY <1>3, FS_Singleton
  <2> QED BY <1>1, <1>3, <2>1
<1> QED BY <1>2, <1>3

LEMMA Failing ==
  ASSUME NEW bad \in FailedReads
  PROVE  bad = {} \/ (failures < MaxFailures /\ \E x : bad = {x})
BY DEF FailedReads

LEMMA Noted ==
  ASSUME Counts, NEW bad, NEW what, Note(bad, what), what \subseteq {"part", "overrun"},
         bad = {} \/ (failures < MaxFailures /\ \E x : bad = {x})
  PROVE  /\ failures' \in 0 .. MaxFailures /\ seen' \subseteq {"read", "part", "overrun"}
         /\ seen \subseteq seen' /\ what \subseteq seen'
         /\ "part" \notin seen' => Lost(bad) = {}
         /\ "read" \notin seen' => bad = {}
         /\ bad = {} => seen' = seen \union what
<1>1. failures' \in 0 .. MaxFailures BY Fails DEF Note, Counts
<1>2. Lost(bad) # {} => bad # {} BY DEF Lost
<1> QED BY <1>1, <1>2 DEF Note, Counts

(* A step that leaves the mount and the slots alone. *)
LEMMA MountedFrame ==
  ASSUME Mounted, UNCHANGED << disc, sb, cruft, table, past >>, pc = "idle" => pc' = "idle" \/ sb.ok
  PROVE  Mounted'
BY DEF Mounted, D, NodeIn

(* A step that changes slots only to empty them or to hold an inode. *)
LEMMA MountedStep ==
  ASSUME Mounted, sb.ok, UNCHANGED << disc, sb >>, cruft' \in BOOLEAN,
         cruft' => "defect" \in past',
         \A s \in Slots : table'[s] = NoNode \/ table'[s] = table[s] \/ NodeIn(D, table'[s])
  PROVE  Mounted'
BY DEF Mounted, D, NodeIn

LEMMA DefectNoted ==
  ASSUME Mounted, sb.ok, NEW ino, NEW s, NoteDefect(ino, s)
  PROVE  cruft' \in BOOLEAN /\ (cruft' => "defect" \in past') /\ past \subseteq past' /\
         past' \subseteq past \union {"defect"}
BY DEF NoteDefect, Mounted

(* The table after iso_iget. *)
LEMMA GotIs ==
  ASSUME Mounted, sb.ok, NEW t, DOMAIN t = Slots, NEW ino, OnTrack(D, ino), NEW bad
  PROVE  LET s == SlotGot(t, ino, bad)
             g == Got(t, ino, bad)
         IN /\ s # NoSlot => s \in Slots /\ t[s].free = 1 /\ g[s] = Node(ino, bad) /\ NodeIn(D, g[s])
            /\ \A u \in Slots : u # s => g[u] = t[u]
            /\ DOMAIN g = Slots
<1> DEFINE s == SlotGot(t, ino, bad)
           g == Got(t, ino, bad)
           n == Node(ino, bad)
<1>1. NodeIn(D, n) BY NodeIs
<1>2. s = NoSlot => g = t BY DEF Got
<1>3. s # NoSlot => s \in Slots /\ t[s].free = 1 /\ \A u \in Slots : u # s => g[u] = t[u] BY Get
<1>4. s # NoSlot => g = [t EXCEPT ![s] = n] BY DEF Got
<1> HIDE DEF s, g, n
<1> QED BY <1>1, <1>2, <1>3, <1>4 DEF s, g, n

LEMMA CountsNext == ASSUME Counts, [Next]_vars PROVE Counts'
<1> USE DEF Counts
<1>0. MaxOpens \in Nat /\ opens \in 0 .. MaxOpens BY BoundsAssumption
<1>1. CASE FindStart
  <2>1. PICK bad \in FailedReads : Note(bad, {}) BY <1>1 DEF FindStart
  <2>2. failures' \in 0 .. MaxFailures /\ seen' \subseteq {"read", "part", "overrun"}
    BY <2>1, Noted, Failing
  <2>3. pc' \in {"missing", "scan"} /\ past' = past /\ opens' = opens BY <1>1 DEF FindStart
  <2> QED BY <2>2, <2>3
<1>2. CASE iso_find_entry
  <2>1. \E bad \in FailedReads : \E what \in SUBSET {"part", "overrun"} : Note(bad, what)
    <3>1. {} \in FailedReads BY DEF FailedReads
    <3> QED BY <1>2, <3>1 DEF iso_find_entry, ScanEnd, ScanSector, ScanRecord
  <2>2. failures' \in 0 .. MaxFailures /\ seen' \subseteq {"read", "part", "overrun"}
    BY <2>1, Noted, Failing
  <2>3. pc' \in {"missing", "scan", "found"} /\ past' = past /\ opens' = opens
    BY <1>2 DEF iso_find_entry, ScanEnd, ScanSector, ScanRecord, Missing
  <2> QED BY <2>2, <2>3
<1>3. CASE LookupMissing BY <1>3 DEF LookupMissing, Leave
<1>4. CASE LookupDir
  <2>1. PICK bad \in FailedReads : Note(bad, {}) BY <1>4 DEF LookupDir
  <2>2. failures' \in 0 .. MaxFailures /\ seen' \subseteq {"read", "part", "overrun"}
    BY <2>1, Noted, Failing
  <2>3. pc' \in {"look", "idle", "follow"} /\ past' \subseteq past \union {"defect"} /\ opens' = opens
    BY <1>4 DEF LookupDir, NoteDefect, Leave
  <2> QED BY <2>2, <2>3
<1>5. CASE LookupLast
  <2>1. PICK bad \in FailedReads : Note(bad, {}) BY <1>5 DEF LookupLast
  <2>2. failures' \in 0 .. MaxFailures /\ seen' \subseteq {"read", "part", "overrun"}
    BY <2>1, Noted, Failing
  <2>3. pc' \in {"look", "idle", "follow"} /\ past' \subseteq past \union {"defect"} /\ opens' = opens
    BY <1>5 DEF LookupLast, NoteDefect, Leave
  <2> QED BY <2>2, <2>3
<1>6. CASE iso_follow_link
  <2>1. \E bad \in FailedReads : \E what \in SUBSET {"part", "overrun"} : Note(bad, what)
    BY <1>6 DEF iso_follow_link
  <2>2. failures' \in 0 .. MaxFailures /\ seen' \subseteq {"read", "part", "overrun"}
    BY <2>1, Noted, Failing
  <2>3. pc' \in {"look", "idle", "dead"} /\ past' \subseteq past \union {"lost"} /\ opens' = opens
    BY <1>6 DEF iso_follow_link
  <2> QED BY <2>2, <2>3
<1>7. CASE iso_readdir
  <2>1. \E bad : Note(bad, {}) /\ (bad = {} \/ (failures < MaxFailures /\ \E x : bad = {x}))
    BY <1>7, Failing, Zenon DEF iso_readdir, ListRecord
  <2>2. failures' \in 0 .. MaxFailures /\ seen' \subseteq {"read", "part", "overrun"}
    BY <2>1, Noted
  <2>3. pc' \in {"list", "idle"} /\ past' = past /\ opens' = opens
    BY <1>7, Zenon DEF iso_readdir, ListRecord, EndOfList
  <2> QED BY <2>2, <2>3
<1>8. CASE iso_mount
  <2>1. \E bad : Note(bad, {}) /\ (bad = {} \/ (failures < MaxFailures /\ \E x : bad = {x}))
    BY <1>8 DEF iso_mount
  <2>2. failures' \in 0 .. MaxFailures /\ seen' \subseteq {"read", "part", "overrun"}
    BY <2>1, Noted
  <2> QED BY <1>8, <2>2 DEF iso_mount
<1>9. CASE \E name \in Requests : iso_open(name)
  <2>0. PICK name \in Requests : iso_open(name) BY <1>9
  <2>1. PICK bad \in FailedReads : failures' = failures + Cardinality(bad) BY <2>0 DEF iso_open
  <2>2. failures' \in 0 .. MaxFailures BY <2>1, Fails, Failing
  <2>3. seen' \subseteq {"read"} /\ opens' = opens + 1 /\ opens < MaxOpens /\ pc' \in {pc, "look"}
    BY <2>0 DEF iso_open, openvars
  <2>4. past' \subseteq past \union {"defect"} BY <2>0 DEF iso_open, NoteDefect
  <2>5. opens' \in 0 .. MaxOpens BY <1>0, <2>3
  <2> QED BY <2>2, <2>3, <2>4, <2>5
<1>10. CASE \E fd \in Slots : ListStart(fd)
  <2>0. PICK fd \in Slots : ListStart(fd) BY <1>10
  <2>1. PICK bad \in FailedReads : failures' = failures + Cardinality(bad) BY <2>0 DEF ListStart
  <2>2. failures' \in 0 .. MaxFailures BY <2>1, Fails, Failing
  <2> QED BY <2>0, <2>2 DEF ListStart
<1>11. CASE \E fd \in Slots, blkno \in 0 .. MaxBlkno, nblks \in 1 .. MaxRun :
              iso_bread(fd, blkno, nblks)
  <2>0. PICK fd \in Slots, blkno \in 0 .. MaxBlkno, nblks \in 1 .. MaxRun :
           iso_bread(fd, blkno, nblks) BY <1>11
  <2>1. failures' = failures \/ (failures < MaxFailures /\ failures' = failures + 1)
    BY <2>0 DEF iso_bread
  <2>2. failures' \in 0 .. MaxFailures BY <2>1, BoundsAssumption
  <2> QED BY <2>0, <2>2 DEF iso_bread
<1>12. CASE \E fd \in Slots : iso_close(fd) \/ iso_fstat(fd) BY <1>12 DEF iso_close, iso_fstat
<1>13. CASE Rest \/ UNCHANGED vars BY <1>13 DEF Rest, vars
<1> QED BY <1>1, <1>2, <1>3, <1>4, <1>5, <1>6, <1>7, <1>8, <1>9, <1>10, <1>11, <1>12, <1>13
        DEF Next, Driver, User

LEMMA OpenNode ==
  ASSUME IInv, Mounted, NEW s \in Slots, IsOpen(s)
  PROVE  sb.ok /\ NodeIn(D, table[s])
BY HeldNode DEF IInv, Opened

LEMMA DirNode ==
  ASSUME IInv, Mounted, Looking
  PROVE  dir \in Slots /\ sb.ok /\ NodeIn(D, table[dir])
BY HeldNode DEF IInv, InHand

(* The table at the end of a lookup. *)
LEMMA LeftTable ==
  ASSUME IInv, NEW t, NEW s, DOMAIN t = Slots, Leave(t, s)
  PROVE  \A u \in Slots : table'[u] = NoNode \/ table'[u] = t[u]
<1>1. CASE oldinode = NoSlot BY <1>1 DEF Leave
<1>2. CASE oldinode # NoSlot
  <2>1. table' = iso_iput(iso_iput(t, root), oldinode) BY <1>2 DEF Leave
  <2> QED BY <2>1, Put
<1> QED BY <1>1, <1>2

LEMMA MountedNext == ASSUME IInv, Lawful, [Next]_vars PROVE Mounted'
<1> USE DEF Lawful
<1>0. DOMAIN table = Slots BY DEF IInv, SlotTypes
<1>1. CASE FindStart \/ iso_find_entry
  BY <1>1, MountedFrame DEF FindStart, iso_find_entry, ScanEnd, ScanSector, ScanRecord, Mounted
<1>2. CASE LookupMissing
  <2> DEFINE t == IF Len(path) > 1 THEN table ELSE iso_iput(table, dir)
  <2>1. Leave(t, NoSlot) /\ pc = "missing" /\ UNCHANGED << disc, sb, cruft >> /\ past \subseteq past'
    BY <1>2 DEF LookupMissing
  <2>2. DOMAIN t = Slots /\ \A u \in Slots : t[u] = NoNode \/ t[u] = table[u] BY <1>0, Put
  <2> HIDE DEF t
  <2>3. \A u \in Slots : table'[u] = NoNode \/ table'[u] = t[u] BY <2>1, <2>2, LeftTable
  <2>4. sb.ok /\ cruft \in BOOLEAN /\ (cruft => "defect" \in past) BY <2>1 DEF Mounted
  <2> QED BY <2>1, <2>2, <2>3, <2>4, MountedStep
<1>3. CASE LookupDir
  <2> DEFINE t == iso_iput(table, dir)
  <2>1. PICK bad : LET s == SlotGot(t, scan.ino, bad) IN
          /\ NoteDefect(scan.ino, s)
          /\ IF s = NoSlot THEN Leave(t, NoSlot) ELSE table' = Got(t, scan.ino, bad)
    BY <1>3 DEF LookupDir
  <2> DEFINE s == SlotGot(t, scan.ino, bad)
             g == Got(t, scan.ino, bad)
  <2>2. pc = "found" /\ UNCHANGED << disc, sb >> BY <1>3 DEF LookupDir
  <2>3. sb.ok /\ OnTrack(D, scan.ino) BY <2>2 DEF Mounted, Scanning
  <2>4. cruft' \in BOOLEAN /\ (cruft' => "defect" \in past') BY <2>1, <2>3, DefectNoted
  <2>5. DOMAIN t = Slots /\ \A u \in Slots : t[u] = NoNode \/ t[u] = table[u] BY <1>0, Put
  <2>6. (s = NoSlot /\ Leave(t, NoSlot)) \/ (s # NoSlot /\ table' = g) BY <2>1
  <2> HIDE DEF t
  <2>7. (s # NoSlot => NodeIn(D, g[s])) /\ \A u \in Slots : u # s => g[u] = t[u]
    BY <2>3, <2>5, GotIs
  <2> HIDE DEF s, g
  <2>8. \A u \in Slots : table'[u] = NoNode \/ table'[u] = table[u] \/ NodeIn(D, table'[u])
    <3>1. CASE s = NoSlot /\ Leave(t, NoSlot) BY <2>5, <3>1, LeftTable
    <3>2. CASE s # NoSlot /\ table' = g BY <2>5, <2>7, <3>2
    <3> QED BY <2>6, <3>1, <3>2
  <2> QED BY <2>2, <2>3, <2>4, <2>8, MountedStep
<1>4. CASE LookupLast
  <2>1. PICK bad : LET s == SlotGot(table, scan.ino, bad) IN
          /\ NoteDefect(scan.ino, s)
          /\ Leave(iso_iput(Got(table, scan.ino, bad), dir), s)
    BY <1>4 DEF LookupLast
  <2> DEFINE s == SlotGot(table, scan.ino, bad)
             g == Got(table, scan.ino, bad)
             t == iso_iput(g, dir)
  <2>2. pc = "found" /\ UNCHANGED << disc, sb >> BY <1>4 DEF LookupLast
  <2>3. sb.ok /\ OnTrack(D, scan.ino) BY <2>2 DEF Mounted, Scanning
  <2>4. cruft' \in BOOLEAN /\ (cruft' => "defect" \in past') BY <2>1, <2>3, DefectNoted
  <2>5. /\ (s # NoSlot => NodeIn(D, g[s])) /\ \A u \in Slots : u # s => g[u] = table[u]
        /\ DOMAIN g = Slots /\ NoSlot \notin Slots
    BY <1>0, <2>3, GotIs, NoSlotNotSlot
  <2>6. Leave(t, s) BY <2>1
  <2> HIDE DEF s, g
  <2>7. DOMAIN t = Slots /\ \A u \in Slots : t[u] = NoNode \/ t[u] = g[u] BY <2>5, Put
  <2> HIDE DEF t
  <2>8. \A u \in Slots : table'[u] = NoNode \/ table'[u] = t[u] BY <2>6, <2>7, LeftTable
  <2>9. \A u \in Slots : table'[u] = NoNode \/ table'[u] = table[u] \/ NodeIn(D, table'[u])
    BY <2>5, <2>7, <2>8
  <2> QED BY <2>2, <2>3, <2>4, <2>9, MountedStep
<1>5. CASE iso_follow_link
  <2>0. pc = "follow" /\ UNCHANGED << disc, sb >> BY <1>5 DEF iso_follow_link
  <2>1. sb.ok /\ sb.root_inode = RootPlace(D) /\ cruft \in BOOLEAN /\ (cruft => "defect" \in past)
    BY <2>0 DEF Mounted
  <2>2. Good(D) BY <2>1, GoodDisc
  <2>3. OnTrack(D, sb.root_inode) BY <2>1, <2>2, Rooted
  <2>4. ~Defective(RecordAt(sb.root_inode))
    <3>1. /\ D.cell[sb.root_inode + 1] # << >> /\ RecAt(D, sb.root_inode) = RootRec(D)
          /\ RootRec(D) \in DOMAIN D.rec /\ D.rec[RootRec(D)].dir
      BY <2>1, <2>2, Rooted
    <3>2. RecordAt(sb.root_inode) = D.rec[RootRec(D)] BY <3>1, ReadAt DEF ReadRec, RecAt
    <3>3. D.rec[RootRec(D)].size <= CruftLimit /\ D.rec[RootRec(D)].size \in Nat
      BY <2>2, <3>1, DirFacts, Recorded
    <3> QED BY <3>2, <3>3, SizesAssumption DEF Defective
  <2>5. PICK bad : LET s == SlotGot(table, sb.root_inode, bad)
                       t == Got(table, sb.root_inode, bad)
                   IN /\ cruft' = (cruft \/ (s # NoSlot /\ Defective(RecordAt(sb.root_inode))))
                      /\ past \subseteq past'
                      /\ table' = t \/ table' = iso_iput(t, oldinode)
    BY <1>5 DEF iso_follow_link
  <2> DEFINE s == SlotGot(table, sb.root_inode, bad)
             t == Got(table, sb.root_inode, bad)
  <2>6. cruft' = cruft
    <3>1. cruft' = (cruft \/ (s # NoSlot /\ Defective(RecordAt(sb.root_inode)))) BY <2>5, Zenon
    <3>2. cruft \in BOOLEAN BY <2>1
    <3> QED BY <2>4, <3>1, <3>2
  <2>7. past \subseteq past' /\ (table' = t \/ table' = iso_iput(t, oldinode)) BY <2>5
  <2>8. /\ (s # NoSlot => NodeIn(D, t[s])) /\ \A u \in Slots : u # s => t[u] = table[u]
        /\ DOMAIN t = Slots /\ NoSlot \notin Slots
    BY <1>0, <2>1, <2>3, GotIs, NoSlotNotSlot
  <2> HIDE DEF s, t
  <2>9. \A u \in Slots : table'[u] = NoNode \/ table'[u] = t[u] BY <2>7, <2>8, Put
  <2>10. \A u \in Slots : table'[u] = NoNode \/ table'[u] = table[u] \/ NodeIn(D, table'[u])
    BY <2>8, <2>9
  <2>11. cruft' \in BOOLEAN /\ (cruft' => "defect" \in past') BY <2>1, <2>6, <2>7
  <2> QED BY <2>0, <2>1, <2>10, <2>11, MountedStep
<1>6. CASE iso_readdir
  BY <1>6, MountedFrame, Zenon DEF iso_readdir, ListRecord, EndOfList, openvars
<1>7. CASE iso_mount
  <2>1. disc' = disc /\ pc' = "idle" /\ table' = [s \in Slots |-> NoNode] /\ disc \in Discs
    BY <1>7 DEF iso_mount, Mounted
  <2>2. D' = D BY <2>1 DEF D
  <2>3. CASE SuperOk(D) /\ ReadSuper
    <3>1. PICK i \in DOMAIN D.vds :
            /\ Known(D, i)
            /\ sb' = [ok |-> TRUE, rock |-> D.vds[i].id = "CD001", zone |-> D.vds[i].zone,
                      root_inode |-> D.vds[i].root * D.vds[i].zone]
            /\ cruft' = FALSE
      BY <2>3, Zenon DEF ReadSuper
    <3>2. Good(D) BY <2>1, <2>3, DiscsAssumption DEF D, Good
    <3>3. D.vds[i] = Volume(D) BY <3>1, <3>2, Zoned
    <3>4. sb'.ok /\ sb'.zone = Zone(D) /\ sb'.root_inode = RootPlace(D)
      BY <3>1, <3>3 DEF Zone, RootPlace
    <3>5. sb' = [ok |-> TRUE, rock |-> Rock(D), zone |-> D.vds[i].zone,
                 root_inode |-> D.vds[i].root * D.vds[i].zone]
      BY <3>1, <3>3, Zenon DEF Rock
    <3>6. sb'.rock = Rock(D) BY <3>5
    <3>7. Zone(D) \in Nat /\ RootPlace(D) \in Nat /\ Rock(D) \in BOOLEAN
      BY <3>2, Zoned, Rooted, Celled DEF OnTrack, Rock
    <3>8. sb' = [ok |-> TRUE, rock |-> Rock(D), zone |-> Zone(D), root_inode |-> RootPlace(D)]
      BY <3>3, <3>5, Zenon DEF Zone, RootPlace
    <3>9. sb' \in [ok : BOOLEAN, rock : BOOLEAN, zone : Nat, root_inode : Nat] BY <3>7, <3>8
    <3> QED BY <2>1, <2>2, <2>3, <3>1, <3>4, <3>6, <3>9 DEF Mounted
  <2>4. CASE sb' = [sb EXCEPT !.ok = FALSE] /\ cruft' = cruft
    <3>1. ~sb'.ok /\ sb' \in [ok : BOOLEAN, rock : BOOLEAN, zone : Nat, root_inode : Nat]
      <4>1. sb \in [ok : BOOLEAN, rock : BOOLEAN, zone : Nat, root_inode : Nat] BY DEF Mounted
      <4> QED BY <2>4, <4>1
    <3> QED BY <2>1, <2>4, <3>1 DEF Mounted
  <2> QED BY <1>7, <2>3, <2>4 DEF iso_mount
<1>8. CASE \E name \in Requests : iso_open(name)
  <2>1. PICK name \in Requests : iso_open(name) BY <1>8
  <2>2. PICK bad : LET s == SlotGot(table, sb.root_inode, bad) IN
          /\ NoteDefect(sb.root_inode, s)
          /\ table' = table \/ table' = Got(table, sb.root_inode, bad)
    BY <2>1 DEF iso_open
  <2>3. sb.ok /\ UNCHANGED << disc, sb >> BY <2>1 DEF iso_open
  <2>4. OnTrack(D, sb.root_inode) BY <2>3, GoodDisc, Rooted DEF Mounted
  <2>5. cruft' \in BOOLEAN /\ (cruft' => "defect" \in past') BY <2>2, <2>3, DefectNoted
  <2> DEFINE s == SlotGot(table, sb.root_inode, bad)
             g == Got(table, sb.root_inode, bad)
  <2>6. /\ (s # NoSlot => NodeIn(D, g[s])) /\ \A u \in Slots : u # s => g[u] = table[u]
        /\ NoSlot \notin Slots
    BY <1>0, <2>3, <2>4, GotIs, NoSlotNotSlot
  <2>7. table' = table \/ table' = g BY <2>2
  <2> HIDE DEF s, g
  <2>8. \A u \in Slots : table'[u] = NoNode \/ table'[u] = table[u] \/ NodeIn(D, table'[u])
    BY <2>6, <2>7
  <2> QED BY <2>3, <2>5, <2>8, MountedStep
<1>9. CASE \E fd \in Slots : iso_close(fd)
  <2>1. PICK fd \in Slots : iso_close(fd) BY <1>9
  <2>2. /\ IsOpen(fd) /\ UNCHANGED << disc, sb, cruft, past >> /\ table' = iso_iput(table, fd)
    BY <2>1 DEF iso_close
  <2>3. sb.ok BY <2>2, OpenNode
  <2>4. \A u \in Slots : table'[u] = NoNode \/ table'[u] = table[u] BY <1>0, <2>2, Put
  <2>5. cruft \in BOOLEAN /\ (cruft => "defect" \in past) BY <2>3 DEF Mounted
  <2> QED BY <2>2, <2>3, <2>4, <2>5, MountedStep
<1>10. CASE \E fd \in Slots : ListStart(fd)
  <2>1. PICK fd \in Slots : ListStart(fd) BY <1>10
  <2>2. IsOpen(fd) /\ UNCHANGED << disc, sb, cruft, table, past >> BY <2>1 DEF ListStart
  <2> QED BY <2>2, OpenNode, MountedFrame
<1>11. CASE \E fd \in Slots : iso_fstat(fd) BY <1>11, MountedFrame DEF iso_fstat
<1>12. CASE \E fd \in Slots, blkno \in 0 .. MaxBlkno, nblks \in 1 .. MaxRun :
              iso_bread(fd, blkno, nblks)
  BY <1>12, MountedFrame DEF iso_bread
<1>13. CASE Rest \/ UNCHANGED vars BY <1>13, MountedFrame DEF Rest, vars
<1> QED BY <1>1, <1>2, <1>3, <1>4, <1>5, <1>6, <1>7, <1>8, <1>9, <1>10, <1>11, <1>12, <1>13
        DEF Next, Driver, User

LEMMA BlockOnDisc ==
  ASSUME NEW d, Good(d), NEW b \in Nat, (b + 1) * BlockCells <= Len(d.cell),
         NEW o \in 0 .. BlockCells - 1
  PROVE  OnTrack(d, b * BlockCells + o)
<1>1. BlockCells \in Nat \ {0} /\ Len(d.cell) \in Nat BY Cellular, Celled
<1>2. b * BlockCells \in Nat BY <1>1
<1>3. (b + 1) * BlockCells = b * BlockCells + BlockCells BY <1>1
<1> QED BY <1>1, <1>2, <1>3 DEF OnTrack

LEMMA Bmapped ==
  ASSUME NEW d, Good(d), NEW n, NodeIn(d, n), NEW k \in Nat
  PROVE  iso_bmap(n, k) \in Nat /\ iso_bmap(n, k) * BlockCells = n.first_extent + k * BlockCells
<1> DEFINE e == n.first_extent
           q == e \div BlockCells
<1>1. e \in Nat /\ e % BlockCells = 0 /\ BlockCells \in Nat \ {0} BY ReadIs, Cellular DEF NodeIn
<1> HIDE DEF e
<1>2. q \in Nat /\ e = q * BlockCells + (e % BlockCells) BY <1>1, DivMod
<1> HIDE DEF q
<1>3. q * BlockCells \in Nat /\ k * BlockCells \in Nat BY <1>1, <1>2
<1>4. e = q * BlockCells BY <1>1, <1>2, <1>3
<1>5. (q + k) * BlockCells = q * BlockCells + k * BlockCells BY <1>1, <1>2
<1> QED BY <1>2, <1>4, <1>5 DEF iso_bmap, e, q

LEMMA InBlock ==
  ASSUME NEW b \in Nat, NEW o \in 0 .. BlockCells - 1
  PROVE  Block(b)[o] = D.cell[b * BlockCells + o + 1]
BY DEF Block

(* The record at the place the scan has reached. *)
LEMMA ScanIs ==
  ASSUME IInv, Lawful, pc = "scan"
  PROVE  LET p == scan.block * BlockCells + scan.offset IN
         /\ Good(D) /\ OnTrack(D, p) /\ data_block[scan.offset] = D.cell[p + 1]
         /\ RecordOf(data_block[scan.offset]) = ReadRec(D, p)
<1>1. /\ scan.offset \in 0 .. BlockCells - 1 /\ scan.block \in Nat /\ OnDisc(scan.block)
      /\ data_block = Block(scan.block)
  BY DEF Lawful, Scanning
<1>2. Good(D) BY GoodDisc DEF Lawful, Mounted
<1> DEFINE p == scan.block * BlockCells + scan.offset
<1>3. OnTrack(D, p) BY <1>1, <1>2, BlockOnDisc DEF OnDisc
<1>4. data_block[scan.offset] = D.cell[p + 1] BY <1>1, InBlock
<1> HIDE DEF p
<1>5. RecordOf(data_block[scan.offset]) = ReadRec(D, p) BY <1>4, ReadAt DEF RecordAt
<1> QED BY <1>2, <1>3, <1>4, <1>5 DEF p

LEMMA NumberOnTrack ==
  ASSUME IInv, Lawful, pc = "scan"
  PROVE  OnTrack(D, InodeNumber(RecordOf(data_block[scan.offset])))
<1> DEFINE p == scan.block * BlockCells + scan.offset
           r == ReadRec(D, p)
<1>1. Good(D) /\ OnTrack(D, p) /\ RecordOf(data_block[scan.offset]) = r BY ScanIs
<1> HIDE DEF p
<1>2. r.extent * sb.zone \in Nat /\ r.extent * sb.zone < Len(D.cell)
  <2>1. sb.zone = Zone(D) BY DEF Lawful, Mounted
  <2> QED BY <1>1, <2>1, ReadIs
<1>3. OnTrack(D, table[dir].inumber) BY DirNode DEF Lawful, Looking, NodeIn
<1> HIDE DEF r
<1>4. Len(D.cell) \in Nat BY <1>1, Celled
<1>5. OnTrack(D, r.extent * sb.zone) BY <1>2, <1>4 DEF OnTrack
<1>6. InodeNumber(r) \in {table[dir].inumber, r.extent * sb.zone, p} BY DEF InodeNumber, p
<1> QED BY <1>1, <1>3, <1>5, <1>6

LEMMA ScanningNext == ASSUME IInv, Lawful, [Next]_vars PROVE Scanning'
<1>0. BlockCells \in Nat \ {0} BY Cellular
<1>1. CASE FindStart
  <2>1. PICK bad : LET b == iso_bmap(table[dir], 0) IN
          \/ pc' = "missing"
          \/ /\ OnDisc(b) /\ pc' = "scan" /\ data_block' = Block(b)
             /\ scan' = [NoScan EXCEPT !.block = b]
    BY <1>1 DEF FindStart
  <2> DEFINE b == iso_bmap(table[dir], 0)
  <2>2. pc = "look" /\ disc' = disc BY <1>1 DEF FindStart
  <2>3. b \in Nat BY <2>2, DirNode, GoodDisc, Bmapped DEF Lawful, Looking
  <2> HIDE DEF b
  <2>4. CASE pc' = "missing" BY <2>4 DEF Scanning
  <2>5. CASE /\ OnDisc(b) /\ pc' = "scan" /\ data_block' = Block(b)
             /\ scan' = [NoScan EXCEPT !.block = b]
    <3>1. /\ scan' \in [f_pos : Nat, offset : 0 .. BlockCells - 1, block : Nat, ino : {0}]
          /\ scan'.block = b
      BY <1>0, <2>3, <2>5 DEF NoScan
    <3> QED BY <1>0, <2>2, <2>3, <2>5, <3>1 DEF Scanning, OnDisc, Block, D
  <2> QED BY <2>1, <2>4, <2>5 DEF b
<1>2. CASE iso_find_entry
  <2>0. pc = "scan" /\ disc' = disc BY <1>2 DEF iso_find_entry, ScanEnd, ScanSector, ScanRecord
  <2>1. CASE ScanEnd BY <2>1 DEF ScanEnd, Missing, Scanning
  <2>2. CASE ScanSector
    <3> DEFINE next == SectorAfter(scan.f_pos)
               b == iso_bmap(table[dir], next \div BlockCells)
    <3>1. \/ pc' = "missing"
          \/ /\ OnDisc(b) /\ pc' = pc /\ data_block' = Block(b)
             /\ scan' = [scan EXCEPT !.f_pos = next, !.offset = 0, !.block = b]
      BY <2>2 DEF ScanSector, Missing
    <3>2. next \in Nat
      <4>1. scan.f_pos \in Nat /\ SectorCells \in Nat \ {0} BY <2>0, Cellular DEF Lawful, Scanning
      <4>2. scan.f_pos \div SectorCells \in Nat BY <4>1, DivMod
      <4>3. (scan.f_pos \div SectorCells) * SectorCells \in Nat BY <4>1, <4>2, Product
      <4> QED BY <4>1, <4>3 DEF SectorAfter
    <3> HIDE DEF next
    <3>3. b \in Nat
      <4>1. next \div BlockCells \in Nat BY <1>0, <3>2, DivMod
      <4> QED BY <2>0, <4>1, DirNode, GoodDisc, Bmapped DEF Lawful, Looking
    <3> HIDE DEF b
    <3>4. CASE pc' = "missing" BY <3>4 DEF Scanning
    <3>5. CASE /\ OnDisc(b) /\ pc' = pc /\ data_block' = Block(b)
               /\ scan' = [scan EXCEPT !.f_pos = next, !.offset = 0, !.block = b]
      <4>1. /\ scan' \in [f_pos : Nat, offset : 0 .. BlockCells - 1, block : Nat, ino : {0}]
            /\ scan'.block = b
        <5>1. scan \in [f_pos : Nat, offset : 0 .. BlockCells - 1, block : Nat, ino : {0}]
          BY <2>0 DEF Lawful, Scanning
        <5>2. 0 \in 0 .. BlockCells - 1 BY <1>0
        <5> QED BY <3>2, <3>3, <3>5, <5>1, <5>2
      <4> QED BY <1>0, <2>0, <3>2, <3>3, <3>5, <4>1 DEF Scanning, OnDisc, Block, D
    <3> QED BY <3>1, <3>4, <3>5
  <2>3. CASE ScanRecord
    <3> DEFINE c == RecordOf(data_block[scan.offset])
               next == scan.f_pos + c.len
               b == IF Spans(c) THEN iso_bmap(table[dir], next \div BlockCells) ELSE scan.block
               o == IF Spans(c) THEN next % BlockCells ELSE scan.offset + c.len
    <3>1. \/ pc' = "found" /\ scan' = [scan EXCEPT !.ino = 0]
          \/ /\ Spans(c) => OnDisc(b)
             /\ data_block' = Block(b)
             /\ \/ pc' = "scan" /\ scan' = [f_pos |-> next, block |-> b, offset |-> o, ino |-> 0]
                \/ /\ pc' = "found"
                   /\ scan' = [f_pos |-> next, block |-> b, offset |-> o, ino |-> InodeNumber(c)]
      BY <2>3 DEF ScanRecord
    <3>2. /\ scan.f_pos \in Nat /\ scan.block \in Nat /\ scan.offset \in 0 .. BlockCells - 1
          /\ OnDisc(scan.block)
          /\ scan \in [f_pos : Nat, offset : 0 .. BlockCells - 1, block : Nat, ino : {0}]
      BY <2>0 DEF Lawful, Scanning
    <3>3. OnTrack(D, InodeNumber(c)) BY <2>0, NumberOnTrack
    <3>4. c.len \in Nat BY <2>0, ScanIs, ReadIs
    <3>5. OnTrack(D, 0) BY <2>0, ScanIs, Celled DEF OnTrack
    <3> HIDE DEF c
    <3>6. next \in Nat BY <3>2, <3>4
    <3> HIDE DEF next
    <3>7. b \in Nat
      <4>1. next \div BlockCells \in Nat BY <1>0, <3>6, DivMod
      <4>2. iso_bmap(table[dir], next \div BlockCells) \in Nat
        BY <2>0, <4>1, DirNode, GoodDisc, Bmapped DEF Lawful, Looking
      <4> QED BY <3>2, <4>2
    <3>8. (Spans(c) => OnDisc(b)) => OnDisc(b) BY <3>2
    <3>9. o \in 0 .. BlockCells - 1
      <4>1. next % BlockCells \in 0 .. BlockCells - 1 BY <1>0, <3>6, DivMod
      <4>2. ~Spans(c) => scan.offset + c.len < BlockCells BY <1>0, <3>2, <3>4 DEF Spans
      <4> QED BY <1>0, <3>2, <3>4, <4>1, <4>2
    <3> HIDE DEF b, o
    <3>10. CASE pc' = "found" /\ scan' = [scan EXCEPT !.ino = 0]
      <4>1. scan'.ino = 0 BY <3>2, <3>10
      <4> QED BY <2>0, <3>5, <3>10, <4>1 DEF Scanning, D
    <3>11. CASE /\ Spans(c) => OnDisc(b)
                /\ data_block' = Block(b)
                /\ pc' = "scan" /\ scan' = [f_pos |-> next, block |-> b, offset |-> o, ino |-> 0]
      <4>1. /\ scan' \in [f_pos : Nat, offset : 0 .. BlockCells - 1, block : Nat, ino : {0}]
            /\ scan'.block = b
        BY <3>6, <3>7, <3>9, <3>11
      <4> QED BY <2>0, <3>7, <3>8, <3>11, <4>1 DEF Scanning, OnDisc, Block, D
    <3>12. CASE pc' = "found" /\ scan' = [f_pos |-> next, block |-> b, offset |-> o,
                                          ino |-> InodeNumber(c)]
      <4>1. scan'.ino = InodeNumber(c) BY <3>12
      <4> QED BY <2>0, <3>3, <3>12, <4>1 DEF Scanning, D
    <3> QED BY <3>1, <3>10, <3>11, <3>12
  <2> QED BY <1>2, <2>1, <2>2, <2>3 DEF iso_find_entry
<1>3. CASE LookupMissing BY <1>3 DEF LookupMissing, Leave, Scanning
<1>4. CASE LookupDir BY <1>4 DEF LookupDir, Leave, Scanning
<1>5. CASE LookupLast BY <1>5 DEF LookupLast, Leave, Scanning
<1>6. CASE iso_follow_link BY <1>6 DEF iso_follow_link, Scanning
<1>7. CASE iso_readdir BY <1>7, Zenon DEF iso_readdir, ListRecord, EndOfList, Scanning
<1>8. CASE iso_mount BY <1>8 DEF iso_mount, Scanning
<1>9. CASE \E name \in Requests : iso_open(name) BY <1>9 DEF iso_open, openvars, Scanning
<1>10. CASE \E fd \in Slots : iso_close(fd) \/ iso_fstat(fd) \/ ListStart(fd)
  BY <1>10 DEF iso_close, iso_fstat, ListStart, Scanning
<1>11. CASE \E fd \in Slots, blkno \in 0 .. MaxBlkno, nblks \in 1 .. MaxRun :
              iso_bread(fd, blkno, nblks)
  BY <1>11 DEF iso_bread, Scanning
<1>12. CASE Rest \/ UNCHANGED vars
  BY <1>12 DEF Rest, vars, openvars, Lawful, Scanning, OnDisc, Block, D
<1> QED BY <1>1, <1>2, <1>3, <1>4, <1>5, <1>6, <1>7, <1>8, <1>9, <1>10, <1>11, <1>12
        DEF Next, Driver, User

(* What iso_bread is asked for and what it gives. *)
LEMMA CoversRange ==
  ASSUME NEW size \in Nat, NEW blkno \in Nat, NEW nblks \in Nat, nblks > 0,
         NEW n, n.size = size, Blocks(n, blkno, nblks) >= 0
  PROVE  LET val == Blocks(n, blkno, nblks)
             end == (blkno + val) * BlockCells
         IN /\ val \in 0 .. nblks
            /\ end >= size \/ val = nblks
            /\ end <= size + BlockCells \/ val = 0
<1> DEFINE B == BlockCells
           q == size \div B
           val == Blocks(n, blkno, nblks)
<1>0. B \in Nat \ {0} BY Cellular
<1>1. q \in Nat /\ size % B \in 0 .. B - 1 /\ size = q * B + (size % B) BY <1>0, DivMod
<1>2. (size + B) \div B = q + 1
  <2> DEFINE k == q + 1
             o == size % B
  <2>0. k \in Nat /\ o \in 0 .. B - 1 BY <1>1
  <2> HIDE DEF k, o
  <2>1. (k * B + o) \div B = k BY <1>0, <2>0, DivModOf
  <2>2. (q + 1) * B = q * B + B BY <1>0, <1>1
  <2>3. q * B \in Nat BY <1>0, <1>1, Product
  <2>4. (q + 1) * B + (size % B) = size + B
    <3> HIDE DEF q
    <3> QED BY <1>0, <1>1, <2>2, <2>3
  <2> QED BY <2>1, <2>4 DEF k, o
<1>3. val = IF (blkno + nblks) * B > size THEN (q + 1) - blkno ELSE nblks BY <1>2 DEF Blocks
<1>4. val >= 0 OBVIOUS
<1> HIDE DEF B, q, val
<1>5. q * B \in Nat /\ (q + 1) * B = q * B + B BY <1>0, <1>1, Product
<1>6. CASE (blkno + nblks) * B > size
  <2>1. val = (q + 1) - blkno BY <1>3, <1>6
  <2>2. blkno + nblks >= q + 1
    <3> SUFFICES ASSUME blkno + nblks <= q PROVE FALSE BY <1>1
    <3>1. (blkno + nblks) * B <= q * B BY <1>0, <1>1
    <3>2. (blkno + nblks) * B \in Nat BY <1>0, Product
    <3> QED BY <1>1, <1>5, <1>6, <3>1, <3>2
  <2>3. val \in 0 .. nblks BY <1>1, <1>4, <2>1, <2>2
  <2>4. blkno + val = q + 1 BY <1>1, <2>1
  <2>5. (blkno + val) * B >= size /\ (blkno + val) * B <= size + B BY <1>0, <1>1, <1>5, <2>4
  <2> QED BY <2>3, <2>5 DEF B, val
<1>7. CASE ~((blkno + nblks) * B > size)
  <2>1. val = nblks BY <1>3, <1>7
  <2>2. (blkno + nblks) * B \in Nat BY <1>0, Product
  <2>3. (blkno + val) * B <= size + B BY <1>0, <1>7, <2>1, <2>2
  <2> QED BY <2>1, <2>3 DEF B, val
<1> QED BY <1>6, <1>7

LEMMA LeftRet ==
  ASSUME Lawful, Looking, NEW t, NEW s, Leave(t, s)
  PROVE  ret'.call = "open" /\
         ret' = [call |-> "open", wanted |-> ret.wanted, val |-> ret'.val, room |-> ret.room]
BY DEF Leave, Lawful, Reading

LEMMA ReadingNext == ASSUME IInv, Lawful, [Next]_vars PROVE Reading'
<1>0. ret.call = "bread" => pc = "idle" BY DEF Lawful, Reading
<1> DEFINE Shape(c) == c = [call |-> "open", wanted |-> c.wanted, val |-> c.val, room |-> c.room]
<1>1. CASE FindStart \/ iso_find_entry
  <2>1. ret' = ret /\ Looking /\ pc' \in {"look", "scan", "missing", "found"}
    BY <1>1 DEF FindStart, iso_find_entry, ScanEnd, ScanSector, ScanRecord, Missing, Looking
  <2> QED BY <2>1, <1>0 DEF Lawful, Reading, Looking
<1>2. CASE LookupMissing
  <2>1. Looking BY <1>2 DEF LookupMissing, Looking
  <2>2. \E t, s : Leave(t, s) BY <1>2 DEF LookupMissing
  <2>3. ret'.call = "open" /\ Shape(ret') BY <2>1, <2>2, LeftRet
  <2> QED BY <2>3 DEF Reading
<1>3. CASE LookupDir
  <2>1. Looking BY <1>3 DEF LookupDir, Looking
  <2>2. (\E t, s : Leave(t, s)) \/ ret' = ret BY <1>3 DEF LookupDir
  <2>3. ret.call = "open" /\ Shape(ret) BY <2>1 DEF Lawful, Reading
  <2>4. ret'.call = "open" /\ Shape(ret') BY <2>1, <2>2, <2>3, LeftRet
  <2> QED BY <2>4 DEF Reading
<1>4. CASE LookupLast
  <2>1. Looking BY <1>4 DEF LookupLast, Looking
  <2>2. \E t, s : Leave(t, s) BY <1>4 DEF LookupLast
  <2>3. ret'.call = "open" /\ Shape(ret') BY <2>1, <2>2, LeftRet
  <2> QED BY <2>3 DEF Reading
<1>5. CASE iso_follow_link
  <2>1. pc = "follow" BY <1>5 DEF iso_follow_link
  <2>2. ret' = ret \/ ret' = [ret EXCEPT !.val = NoSlot] BY <1>5 DEF iso_follow_link
  <2>3. ret.call = "open" /\ Shape(ret) BY <2>1 DEF Lawful, Reading
  <2>4. ret'.call = "open" /\ Shape(ret') BY <2>2, <2>3
  <2> QED BY <2>4 DEF Reading
<1>6. CASE iso_readdir
  <2>1. pc = "list" /\ pc' \in {"list", "idle"} /\ (ret' = ret \/ ret'.call = "list")
    <3>1. ASSUME NEW blk, NEW off, NEW pos, ListRecord(blk, off, pos), pc = "list"
          PROVE  pc' \in {"list", "idle"} /\ (ret' = ret \/ ret'.call = "list")
      <4>1. EndOfList(ls.names) \/ (pc' = pc /\ ret' = ret) BY <3>1 DEF ListRecord
      <4> QED BY <3>1, <4>1 DEF EndOfList
    <3>2. /\ pc = "list"
          /\ EndOfList(ls.names) \/ \E blk, off, pos : ListRecord(blk, off, pos)
      BY <1>6 DEF iso_readdir
    <3> QED BY <3>1, <3>2 DEF EndOfList
  <2> QED BY <1>0, <2>1 DEF Reading, Looking
<1>7. CASE iso_mount BY <1>7 DEF iso_mount, Reading, Looking, NoRet
<1>8. CASE \E name \in Requests : iso_open(name)
  <2>1. PICK name \in Requests : iso_open(name) BY <1>8
  <2>2. ret' = [call |-> "open", wanted |-> Target(D, name), val |-> NoSlot,
                room |-> Cardinality(FreeSlots(table))]
    BY <2>1 DEF iso_open
  <2>3. ret'.call = "open" /\ Shape(ret') BY <2>2
  <2> QED BY <2>3 DEF Reading
<1>9. CASE \E fd \in Slots : iso_close(fd) \/ iso_fstat(fd) \/ ListStart(fd)
  BY <1>9 DEF iso_close, iso_fstat, ListStart, Reading, Looking, NoRet
<1>10. CASE \E fd \in Slots, blkno \in 0 .. MaxBlkno, nblks \in 1 .. MaxRun :
              iso_bread(fd, blkno, nblks)
  <2>1. PICK fd \in Slots, blkno \in 0 .. MaxBlkno, nblks \in 1 .. MaxRun :
           iso_bread(fd, blkno, nblks) BY <1>10
  <2>2. blkno \in Nat /\ nblks \in Nat /\ nblks > 0 BY BoundsAssumption
  <2>3. /\ IsOpen(fd) /\ table' = table /\ pc = "idle" /\ pc' = pc
    BY <2>1 DEF iso_bread
  <2>4. PICK bad \in BOOLEAN :
          ret' = [call |-> "bread", fd |-> fd, blkno |-> blkno, nblks |-> nblks,
                  first |-> iso_bmap(table[fd], blkno),
                  val |-> IF bad \/ table[fd].first_extent = 0
                             \/ Blocks(table[fd], blkno, nblks) < 0
                          THEN -1 ELSE Blocks(table[fd], blkno, nblks)]
    BY <2>1 DEF iso_bread
  <2>5. Good(D) /\ NodeIn(D, table[fd]) BY <2>3, OpenNode, GoodDisc DEF Lawful
  <2>6. iso_bmap(table[fd], blkno) * BlockCells = table[fd].first_extent + blkno * BlockCells
    BY <2>2, <2>5, Bmapped
  <2> DEFINE val == Blocks(table[fd], blkno, nblks)
             end == (blkno + val) * BlockCells
  <2>7. val >= 0 => /\ val \in 0 .. nblks
                    /\ end >= table[fd].size \/ val = nblks
                    /\ end <= table[fd].size + BlockCells \/ val = 0
    <3>1. table[fd].size \in Nat BY <2>5 DEF NodeIn
    <3> QED BY <2>2, <3>1, CoversRange
  <2>8. /\ ret'.call = "bread" /\ ret'.fd = fd /\ ret'.blkno = blkno /\ ret'.nblks = nblks
        /\ ret'.first = iso_bmap(table[fd], blkno) /\ (ret'.val = -1 \/ (val >= 0 /\ ret'.val = val))
    <3>1. val \in Int
      <4>1. table[fd].size \in Nat BY <2>5 DEF NodeIn
      <4> QED BY <2>2, <4>1, Cellular DEF Blocks
    <3> QED BY <2>4, <3>1
  <2> HIDE DEF val
  <2>9. ReadCovers' BY <2>3, <2>6, <2>7, <2>8 DEF ReadCovers
  <2> QED BY <2>3, <2>8, <2>9 DEF Reading, Looking
<1>11. CASE Rest \/ UNCHANGED vars
  BY <1>11 DEF Rest, vars, openvars, Lawful, Reading, ReadCovers, Looking
<1> QED BY <1>1, <1>2, <1>3, <1>4, <1>5, <1>6, <1>7, <1>8, <1>9, <1>10, <1>11
        DEF Next, Driver, User

LEMMA InitLawful == Init => Lawful
<1> SUFFICES ASSUME Init PROVE Lawful OBVIOUS
<1>1. sb = [ok |-> FALSE, rock |-> FALSE, zone |-> 1, root_inode |-> 0] BY DEF Init
<1>2. Mounted
  <2>1. ~sb.ok /\ sb \in [ok : BOOLEAN, rock : BOOLEAN, zone : Nat, root_inode : Nat] BY <1>1
  <2>2. disc \in Discs /\ cruft = FALSE /\ pc = "idle" /\ table = [s \in Slots |-> NoNode] BY DEF Init
  <2> QED BY <2>1, <2>2 DEF Mounted
<1>3. Scanning BY DEF Init, Scanning
<1>4. Counts BY BoundsAssumption DEF Init, Counts
<1>5. Reading BY DEF Init, Reading, NoRet, Looking
<1> QED BY <1>2, <1>3, <1>4, <1>5 DEF Lawful

LEMMA LawfulInvariance == Spec => []Lawful
<1>1. IInv /\ Lawful /\ [Next]_vars => IInv' /\ Lawful'
  BY NextInv, MountedNext, ScanningNext, CountsNext, ReadingNext DEF Lawful
<1> QED BY <1>1, InitInv, InitLawful, PTL DEF Spec

LEMMA Typed == ASSUME IInv, Lawful PROVE TypeOK
<1>1. ASSUME NEW s \in Slots
      PROVE  \/ table[s] = NoNode
             \/ /\ table[s].inumber >= 0 /\ table[s].size >= 0
                /\ table[s].mode \in {"dir", "file", "link"}
  <2>1. table[s] = NoNode \/ (sb.ok /\ NodeIn(D, table[s])) BY DEF Lawful, Mounted
  <2>2. ASSUME sb.ok, NodeIn(D, table[s])
        PROVE  table[s].inumber >= 0 /\ table[s].size >= 0 /\ table[s].mode \in {"dir", "file", "link"}
    <3>1. Len(D.cell) \in Nat BY <2>2, GoodDisc, Celled DEF Lawful
    <3> QED BY <2>2, <3>1 DEF NodeIn, OnTrack, Modes
  <2> QED BY <2>1, <2>2
<1>2. /\ disc \in Discs /\ cruft \in BOOLEAN
      /\ DOMAIN table = Slots /\ DOMAIN open = Slots
      /\ {dir, root, oldinode} \subseteq Slots \union {NoSlot}
  BY DEF IInv, SlotTypes, Lawful, Mounted
<1> QED BY <1>1, <1>2 DEF TypeOK, Lawful, Counts
-----------------------------------------------------------------------------
(*** The way to the file that was named ***)

(* n is what iso_iget makes of the record at n.inumber when it reads all of it. *)
Whole(d, n, trouble) ==
  LET c == d.cell[n.inumber + 1]
      y == d.rec[c[1]]
  IN /\ c # << >>
     /\ ~y.dir => (n.inumber % SectorCells) + y.len <= SectorCells
     /\ n.mode = IF y.link # << >> THEN "link" ELSE IF y.dir THEN "dir" ELSE "file"
     /\ y.link # << >> => n.size = Len(y.link)
     /\ y.link = << >> => /\ n.size <= y.size /\ (y.dir => n.size = y.size)
                          /\ "defect" \in trouble \/ n.size = IF y.interleave THEN 0 ELSE y.size

HomeAt(d, ino) == Home(d, RecAt(d, ino))
OnChain(d, name, r) == \E i \in 0 .. MaxHops : r = Reached(d, Chain(d, name)[i])
-----------------------------------------------------------------------------
LEMMA ModBound ==
  ASSUME NEW a \in Nat, NEW m \in Nat \ {0}
  PROVE  a % m \in Nat /\ a % m <= a /\ (a < m => a % m = a)
<1>1. a \div m \in Nat /\ a % m \in 0 .. m - 1 /\ a = (a \div m) * m + (a % m) BY DivMod
<1>2. (a \div m) * m \in Nat BY <1>1, Product
<1>3. ASSUME a < m PROVE a % m = a
  <2>1. (0 * m + a) % m = a BY <1>3, DivModOf
  <2> QED BY <2>1
<1> QED BY <1>1, <1>2, <1>3

LEMMA WholeRead ==
  ASSUME NEW d, Good(d), NEW ino, OnTrack(d, ino), d.cell[ino + 1] # << >>,
         ~d.rec[RecAt(d, ino)].dir => (ino % SectorCells) + d.rec[RecAt(d, ino)].len <= SectorCells,
         NEW cr \in BOOLEAN, NEW trouble,
         cr \/ Defective(d.rec[RecAt(d, ino)]) => "defect" \in trouble,
         NEW n, n.inumber = ino,
         n.mode = TypeAndSize(ReadRec(d, ino), Rock(d), d.area, cr, {}).mode,
         n.size = TypeAndSize(ReadRec(d, ino), Rock(d), d.area, cr, {}).size
  PROVE  Whole(d, n, trouble)
<1> DEFINE x == RecAt(d, ino)
           y == d.rec[x]
           f == TypeAndSize(y, Rock(d), d.area, cr, {})
<1>1. x \in DOMAIN d.rec /\ ReadRec(d, ino) = y BY ReadIs
<1>2. /\ f.mode = IF y.link # << >> THEN "link" ELSE IF y.dir THEN "dir" ELSE "file"
      /\ y.link # << >> => f.size = Len(y.link)
      /\ y.link = << >> => f.size = SizeField(y, cr)
  BY <1>1, ReadWhole
<1>3. y.size \in Nat BY <1>1, Recorded
<1>4. y.dir => ~y.interleave /\ y.size < CruftMod BY <1>1, DirFacts
<1>5. n.mode = f.mode /\ n.size = f.size BY <1>1
<1>6. CruftMod \in Nat \ {0} BY SizesAssumption
<1> HIDE DEF f
<1>7. y.size % CruftMod \in Nat /\ y.size % CruftMod <= y.size
      /\ (y.size < CruftMod => y.size % CruftMod = y.size)
  <2> HIDE DEF y
  <2> QED BY <1>3, <1>6, ModBound
<1>8. SizeField(y, cr) <= y.size /\ (y.dir => SizeField(y, cr) = y.size)
  BY <1>3, <1>4, <1>7 DEF SizeField
<1>9. "defect" \in trouble \/ SizeField(y, cr) = IF y.interleave THEN 0 ELSE y.size BY DEF SizeField
<1>10. d.cell[n.inumber + 1][1] = x BY DEF RecAt
<1> HIDE DEF x
<1> QED BY <1>2, <1>5, <1>8, <1>9, <1>10 DEF Whole, x

LEMMA PartsAsked ==
  ASSUME NEW d, NEW name, IsSeq(name), name \in Requests \/ \E m \in DOMAIN d.rec : name = d.rec[m].link
  PROVE  Split(name) \in Seq(Asked(d)) /\ Split(name) # << >>
<1> DEFINE U == {name[i] : i \in DOMAIN name}
           s == Split(name)
<1>1. s \in Seq(Seq(U)) /\ s # << >> BY SplitType DEF IsSeq
<1>2. ASSUME NEW i \in DOMAIN s PROVE s[i] \in Asked(d)
  <2>1. s[i] \in Parts(name) BY DEF Parts
  <2> QED BY <2>1 DEF Asked
<1> HIDE DEF s
<1>3. Len(s) \in Nat /\ DOMAIN s = 1 .. Len(s) /\ s = [i \in 1 .. Len(s) |-> s[i]] BY <1>1
<1>4. s \in Seq(Asked(d)) BY <1>2, <1>3
<1> QED BY <1>1, <1>4 DEF s

LEMMA Aligned ==
  ASSUME NEW n \in Nat, n % SectorCells = 0
  PROVE  n % BlockCells = 0
<1>1. BlockCells \in Nat \ {0} /\ SectorCells \in Nat \ {0} /\ SectorCells = 2 * BlockCells BY Cellular
<1> DEFINE k == n \div SectorCells
<1>2. k \in Nat /\ n = k * SectorCells + (n % SectorCells) BY <1>1, DivMod
<1> HIDE DEF k
<1>3. k * SectorCells = (2 * k) * BlockCells /\ (2 * k) * BlockCells \in Nat BY <1>1, <1>2
<1>4. n = (2 * k) * BlockCells + 0 BY <1>2, <1>3
<1>5. ((2 * k) * BlockCells + 0) % BlockCells = 0 BY <1>1, <1>2, DivModOf
<1> QED BY <1>4, <1>5

(* The block of a place in a directory that begins a sector is on the disc. *)
LEMMA SectorOnDisc ==
  ASSUME NEW d, Good(d), NEW x \in DOMAIN d.rec, d.rec[x].dir, NEW pos \in Nat, pos < d.rec[x].size,
         pos % SectorCells = 0
  PROVE  LET b == (Place(d, x) \div BlockCells) + (pos \div BlockCells) IN
         b > 0 /\ (b + 1) * BlockCells <= Len(d.cell)
<1> DEFINE P == Place(d, x)
           b == (P \div BlockCells) + (pos \div BlockCells)
           size == d.rec[x].size
<1>1. BlockCells \in Nat \ {0} /\ SectorCells \in Nat \ {0} /\ SectorCells = 2 * BlockCells BY Cellular
<1>2. P \in Nat /\ P > 0 /\ P + size <= Len(d.cell) /\ size \in Nat /\ size % SectorCells = 0
  BY DirFacts, Recorded
<1>3. b \in Nat /\ b * BlockCells + (pos % BlockCells) = P + pos BY CellHere
<1>4. pos % BlockCells = 0 BY Aligned
<1>5. (pos \div SectorCells) * SectorCells + SectorCells <= size
  <2>1. pos < size OBVIOUS
  <2> HIDE DEF size
  <2> QED BY <2>1, <1>1, <1>2, SectorEnd
<1>6. pos = (pos \div SectorCells) * SectorCells + (pos % SectorCells) BY <1>1, DivMod
<1>7. Len(d.cell) \in Nat BY Celled
<1> DEFINE u == (pos \div SectorCells) * SectorCells
<1>8. u \in Nat
  <2>1. pos \div SectorCells \in Nat BY <1>1, DivMod
  <2> QED BY <1>1, <2>1, Product
<1> HIDE DEF b, P, size, u
<1>9. pos + SectorCells <= size BY <1>1, <1>5, <1>6, <1>8 DEF u
<1>10. b * BlockCells = P + pos
  <2>1. b * BlockCells \in Nat BY <1>1, <1>3, Product
  <2> QED BY <1>3, <1>4, <2>1
<1>11. b > 0
  <2> SUFFICES ASSUME b = 0 PROVE FALSE BY <1>3
  <2>1. 0 * BlockCells = 0 BY <1>1
  <2> QED BY <1>2, <1>10, <2>1
<1>12. (b + 1) * BlockCells = b * BlockCells + BlockCells BY <1>1, <1>3
<1>13. (b + 1) * BlockCells <= Len(d.cell)
  <2> DEFINE L == Len(d.cell)
             e == (b + 1) * BlockCells
             c == b * BlockCells
  <2>1. e = c + BlockCells /\ c = P + pos /\ P + size <= L /\ L \in Nat BY <1>2, <1>7, <1>10, <1>12
  <2> HIDE DEF L, e, c
  <2>2. e <= L BY <1>1, <1>2, <1>9, <2>1
  <2> QED BY <2>2 DEF L, e
<1> QED BY <1>11, <1>13 DEF b, P, size

LEMMA InSector ==
  ASSUME NEW P \in Nat, P % SectorCells = 0, NEW pos \in Nat
  PROVE  (P + pos) % SectorCells = pos % SectorCells
<1>1. SectorCells \in Nat \ {0} BY Cellular
<1> DEFINE S == SectorCells
           k == P \div S
           l == pos \div S
           o == pos % S
<1>2. k \in Nat /\ P = k * S + (P % S) BY <1>1, DivMod
<1>3. l \in Nat /\ o \in 0 .. S - 1 /\ pos = l * S + o BY <1>1, DivMod
<1> HIDE DEF k, l, o, S
<1>4. S \in Nat \ {0} /\ P % S = 0 BY <1>1 DEF S
<1>5. k * S \in Nat /\ l * S \in Nat BY <1>2, <1>3, <1>4, Product
<1>6. (k + l) * S = k * S + l * S BY <1>2, <1>3, <1>4
<1>7. P + pos = (k + l) * S + o BY <1>2, <1>3, <1>4, <1>5, <1>6
<1>8. k + l \in Nat BY <1>2, <1>3
<1>9. ((k + l) * S + o) % S = o BY <1>3, <1>4, <1>8, DivModOf
<1> QED BY <1>7, <1>9 DEF o, S

LEMMA SameBlock ==
  ASSUME NEW pos \in Nat, NEW len \in Nat, (pos % BlockCells) + len < BlockCells
  PROVE  /\ (pos + len) \div BlockCells = pos \div BlockCells
         /\ (pos + len) % BlockCells = (pos % BlockCells) + len
<1> DEFINE B == BlockCells
           l == pos \div B
           o == pos % B
<1>1. B \in Nat \ {0} BY Cellular
<1>2. l \in Nat /\ o \in 0 .. B - 1 /\ pos = l * B + o BY <1>1, DivMod
<1>3. o + len < B OBVIOUS
<1> HIDE DEF l, o, B
<1>4. l * B \in Nat BY <1>1, <1>2, Product
<1>5. o + len \in 0 .. B - 1 BY <1>1, <1>2, <1>3
<1>6. (l * B + (o + len)) \div B = l /\ (l * B + (o + len)) % B = o + len BY <1>1, <1>2, <1>5, DivModOf
<1>7. pos + len = l * B + (o + len) BY <1>1, <1>2, <1>4
<1> QED BY <1>6, <1>7 DEF l, o, B

(* The inode number of an entry leads to what the name stands for. *)
Leads(d, ino, r) ==
  /\ d.cell[ino + 1] # << >>
  /\ ~d.rec[RecAt(d, ino)].dir => (ino % SectorCells) + d.rec[RecAt(d, ino)].len <= SectorCells
  /\ HomeAt(d, ino) = r

(* A directory's own number leads to itself. *)
LEMMA LeadsHome ==
  ASSUME NEW d, Good(d), NEW m \in DOMAIN d.rec, d.rec[m].dir
  PROVE  Leads(d, Place(d, m), Home(d, m))
<1> DEFINE h == Home(d, m)
<1>1. /\ h \in DOMAIN d.rec /\ d.rec[h].dir = d.rec[m].dir /\ Home(d, h) = h /\ h = CellOf(d, m, 0)[1]
  BY HomeIs
<1>2. Begins(CellOf(d, m, 0)) BY DirFacts
<1>3. CellOf(d, m, 0) = d.cell[Place(d, m) + 1]
  <2>1. Place(d, m) \in Nat BY Recorded
  <2>2. Place(d, m) + 0 + 1 = Place(d, m) + 1 BY <2>1
  <2> QED BY <2>2 DEF CellOf
<1> HIDE DEF h
<1>4. RecAt(d, Place(d, m)) = h BY <1>1, <1>3 DEF RecAt
<1> QED BY <1>1, <1>2, <1>3, <1>4 DEF Leads, HomeAt, Begins, h

LEMMA EntryLeads ==
  ASSUME NEW d, Good(d), NEW own, d.cell[own + 1] # << >>, NEW x \in DOMAIN d.rec, x = RecAt(d, own),
         d.rec[x].dir, NEW pos \in StartsIn(d, x), NEW n \in Asked(d),
         Meant(d, CellOf(d, x, pos)[1], n), NEW ino,
         LET y == d.rec[CellOf(d, x, pos)[1]] IN
         \/ y.name = << "0" >> /\ ino = own
         \/ y.name = << "1" >> /\ own # RootPlace(d) /\ ino = y.extent * Zone(d)
         \/ y.name = << "1" >> /\ own = RootPlace(d) /\ ino = own
         \/ y.name \notin {<< "0" >>, << "1" >>} /\ ino = Place(d, x) + pos
  PROVE  Leads(d, ino, Child(d, Home(d, x), n))
<1> DEFINE m == CellOf(d, x, pos)[1]
           y == d.rec[m]
           c == Child(d, Home(d, x), n)
<1>1. m \in DOMAIN d.rec /\ m \in Members(d, x) BY MemberIs
<1>2. /\ y.name = << "0" >> => c = Home(d, x)
      /\ y.name # << "0" >> => c = Home(d, m)
      /\ y.name = << "1" >> =>
           y.dir /\ (Place(d, x) = RootPlace(d) => Place(d, m) = RootPlace(d))
  BY <1>1, ChildIs
<1> HIDE DEF c
<1>3. CASE y.name = << "0" >> /\ ino = own
  <2>1. HomeAt(d, ino) = Home(d, x) /\ d.rec[RecAt(d, ino)].dir BY <1>3 DEF HomeAt
  <2> QED BY <1>2, <1>3, <2>1 DEF Leads, c
<1>4. CASE y.name = << "1" >> /\ own # RootPlace(d) /\ ino = y.extent * Zone(d)
  <2>1. ino = Place(d, m) BY <1>4 DEF Place
  <2>2. y.dir /\ c = Home(d, m) BY <1>2, <1>4
  <2> QED BY <1>1, <2>1, <2>2, LeadsHome DEF c
<1>5. CASE y.name = << "1" >> /\ own = RootPlace(d) /\ ino = own
  <2>1. x = RootRec(d) BY <1>5, Rooted
  <2>2. Place(d, x) = RootPlace(d) BY <2>1, Rooted
  <2>3. Place(d, m) = ino /\ y.dir /\ c = Home(d, m) BY <1>2, <1>5, <2>2
  <2> QED BY <1>1, <2>3, LeadsHome DEF c
<1>6. CASE y.name \notin {<< "0" >>, << "1" >>} /\ ino = Place(d, x) + pos
  <2>1. c = Home(d, m) BY <1>2, <1>6
  <2>2. pos \in 0 .. d.rec[x].size - 1 /\ Begins(CellOf(d, x, pos)) BY DEF StartsIn
  <2>3. Place(d, x) \in Nat /\ Place(d, x) % SectorCells = 0 /\ d.rec[x].size \in Nat
    BY Recorded, DirFacts
  <2>4. d.cell[ino + 1] = CellOf(d, x, pos) BY <1>6, <2>2, <2>3, Zenon DEF CellOf
  <2>5. RecAt(d, ino) = m /\ d.cell[ino + 1] # << >> BY <2>2, <2>4, Zenon DEF RecAt, Begins
  <2>6. (pos % SectorCells) + y.len <= SectorCells BY <2>2, DirCells
  <2>7. ino % SectorCells = pos % SectorCells
    <3>1. pos \in Nat BY <2>2, <2>3
    <3> QED BY <1>6, <2>3, <3>1, InSector
  <2> QED BY <2>1, <2>5, <2>6, <2>7 DEF Leads, HomeAt, c
<1> QED BY <1>3, <1>4, <1>5, <1>6

(* What a name that is not a link stands for is where its chain ends. *)
LEMMA EndsThere ==
  ASSUME NEW d, NEW name, NEW r, OnChain(d, name, r), LinkOf(d, r) = << >>
  PROVE  r = Target(d, name)
BY ChainEnds DEF OnChain

(* Following a link is going on along the chain. *)
LEMMA HopsOn ==
  ASSUME NEW d, Good(d), NEW name \in Requests, NEW x \in DOMAIN d.rec, OnChain(d, name, x),
         NEW link, link = d.rec[x].link, link # << >>,
         NEW p, p = Split(IF link[1] = "/" THEN link ELSE DirName(name) \o link)
  PROVE  /\ p \in Seq(Asked(d)) /\ p # << >>
         /\ OnChain(d, name, Reached(d, p))
<1>1. ChainSound(d, name) BY DEF Good, Sound
<1>2. PICK i \in 0 .. MaxHops : x = Reached(d, Chain(d, name)[i]) BY DEF OnChain
<1> DEFINE C == Chain(d, name)
<1>3. LinkOf(d, x) = link BY Recorded DEF LinkOf
<1>4. Hop(d, C[i]) = IF Absolute(link) THEN Split(link) ELSE Front(C[i]) \o Split(link)
  BY <1>2, <1>3 DEF Hop
<1>5. Absolute(link) \/ Front(C[i]) = Front(C[0]) BY <1>1, <1>2, <1>3 DEF ChainSound
<1>6. C[0] = Split(name) BY ChainIs
<1>7. IsSeq(name) /\ IsSeq(link) BY <1>1, Linked DEF ChainSound
<1> DEFINE U == {name[k] : k \in DOMAIN name} \union {link[k] : k \in DOMAIN link} \union {"/"}
<1>8. name \in Seq(U) /\ link \in Seq(U) /\ "/" \in U
  <2>1. name \in Seq({name[k] : k \in DOMAIN name}) /\ link \in Seq({link[k] : k \in DOMAIN link})
    BY <1>7 DEF IsSeq
  <2> QED BY <2>1
<1> HIDE DEF U, C
<1>9. Absolute(link) <=> link[1] = "/" BY <1>8 DEF Absolute
<1>10. p = Hop(d, C[i])
  <2>1. CASE link[1] = "/" BY <1>4, <1>9, <2>1
  <2>2. CASE link[1] # "/"
    <3>1. p = Front(Split(name)) \o Split(link) BY <1>8, <2>2, DirNameOf
    <3> QED BY <1>4, <1>5, <1>6, <1>9, <2>2, <3>1
  <2> QED BY <2>1, <2>2
<1>11. PICK j \in 0 .. MaxHops : C[j] = p BY <1>1, <1>10, ChainClosed DEF C
<1>12. OnChain(d, name, Reached(d, p)) BY <1>11 DEF OnChain, C
<1>13. Split(link) \in Seq(Asked(d)) /\ Split(link) # << >> BY <1>7, PartsAsked
<1>14. Split(name) \in Seq(Asked(d)) /\ Split(name) # << >> BY <1>7, PartsAsked
<1>15. p \in Seq(Asked(d)) /\ p # << >>
  <2>1. CASE link[1] = "/" BY <1>13, <2>1
  <2>2. CASE link[1] # "/"
    <3>1. p = Front(Split(name)) \o Split(link) BY <1>8, <2>2, DirNameOf
    <3> DEFINE A == Asked(d)
               f == Front(Split(name))
               s == Split(link)
    <3>2. f \in Seq(A) BY <1>14 DEF Front
    <3> HIDE DEF A, f, s
    <3>3. f \o s \in Seq(A) /\ f \o s # << >>
      <4>1. s \in Seq(A) /\ s # << >> BY <1>13 DEF A, s
      <4>2. Len(f \o s) = Len(f) + Len(s) /\ Len(f) \in Nat /\ Len(s) \in Nat \ {0} BY <3>2, <4>1
      <4> QED BY <3>2, <4>1, <4>2
    <3> QED BY <3>1, <3>3 DEF A, f, s
  <2> QED BY <2>1, <2>2
<1> QED BY <1>12, <1>15

LEMMA ThreeFree ==
  ASSUME NEW F, IsFiniteSet(F), Cardinality(F) >= 3, NEW a, NEW b
  PROVE  F \ {a, b} # {}
<1> SUFFICES ASSUME F \subseteq {a, b} PROVE FALSE OBVIOUS
<1>1. IsFiniteSet({a, b}) /\ Cardinality({a, b}) <= 2
  <2>1. IsFiniteSet({b}) /\ Cardinality({b}) = 1 BY FS_Singleton
  <2>2. {b} \union {a} = {a, b} OBVIOUS
  <2>3. IsFiniteSet({b} \union {a})
        /\ Cardinality({b} \union {a}) = IF a \in {b} THEN Cardinality({b}) ELSE Cardinality({b}) + 1
    BY <2>1, FS_AddElement
  <2> QED BY <2>1, <2>2, <2>3
<1>2. Cardinality(F) <= Cardinality({a, b}) BY <1>1, FS_Subset
<1>3. Cardinality(F) \in Nat /\ Cardinality({a, b}) \in Nat BY <1>1, FS_CardinalityType
<1> QED BY <1>1, <1>2, <1>3

(* The call of iso_open. *)
Asking == filename \in Requests /\ ret.call = "open" /\ ret.wanted = Target(D, filename)

(* In a lookup, what is left of the name leads from the directory in hand   *)
(* to a file on the chain of links.                                         *)
Way ==
  Looking /\ "part" \notin seen =>
    /\ Asking
    /\ path \in Seq(Asked(D)) /\ path # << >>
    /\ Whole(D, table[dir], past)
    /\ OnChain(D, filename, Down(D, HomeAt(D, table[dir].inumber), path))

(* Where the scan of a directory is, and that it did not pass the name. *)
ScanAt(d, n, name, s) ==
  LET x == RecAt(d, n.inumber) IN
  /\ s.offset = s.f_pos % BlockCells
  /\ s.block = (Place(d, x) \div BlockCells) + (s.f_pos \div BlockCells)
  /\ d.rec[x].dir => /\ s.f_pos <= d.rec[x].size
                     /\ s.f_pos < d.rec[x].size =>
                          CellOf(d, x, s.f_pos) = << >> \/ Begins(CellOf(d, x, s.f_pos))
                     /\ Passed(d, x, name, s.f_pos)

(* Nothing has the name, or a file whose name goes on too far. *)
Absent(d, r, n) ==
  LET c == Child(d, r, n) IN
  c # NoRec => FarName(d, c) /\ c \in DOMAIN d.rec /\ ~d.rec[c].dir /\ d.rec[c].link = << >>

Search ==
  "part" \notin seen =>
    /\ pc = "scan" => ScanAt(D, table[dir], path[1], scan)
    /\ pc = "found" => Leads(D, scan.ino, Child(D, HomeAt(D, table[dir].inumber), path[1]))
    /\ pc = "missing" /\ seen = {} => Absent(D, HomeAt(D, table[dir].inumber), path[1])

Following ==
  pc = "follow" /\ "part" \notin seen =>
    /\ Asking
    /\ Whole(D, table[oldinode], past) /\ table[oldinode].mode = "link"
    /\ OnChain(D, filename, RecAt(D, table[oldinode].inumber))

Opening ==
  \A s \in Slots : IsOpen(s) /\ ~open[s].part =>
    /\ Whole(D, table[s], past) /\ table[s].mode # "link"
    /\ HomeAt(D, table[s].inumber) = open[s].wanted

(* Of three slots that were free when the call began, those of the          *)
(* directory and of the link take at most two.                              *)
Kept == FreeSlots(table) \union ({dir, oldinode} \ {NoSlot})
Roomy ==
  (Looking \/ pc = "follow") /\ seen = {} /\ ret.room >= 3 => \A a, b \in Slots : Kept \ {a, b} # {}

Ways == Way /\ Search /\ Following /\ Opening /\ Roomy /\ LinkFits /\ FindsFile
-----------------------------------------------------------------------------
LEMMA WholeMore ==
  ASSUME NEW d, NEW n, NEW t, NEW u, t \subseteq u, Whole(d, n, t)
  PROVE  Whole(d, n, u)
BY Zenon DEF Whole

LEMMA OpeningFrame ==
  ASSUME Opening, disc' = disc, open' = open, past \subseteq past',
         \A s \in Slots : IsOpen(s) => table'[s] = table[s]
  PROVE  Opening'
<1>1. D' = D BY DEF D
<1>2. ASSUME NEW s \in Slots, IsOpen(s)', ~open'[s].part
      PROVE  /\ Whole(D, table'[s], past') /\ table'[s].mode # "link"
             /\ HomeAt(D, table'[s].inumber) = open'[s].wanted
  <2>1. IsOpen(s) /\ ~open[s].part BY <1>2 DEF IsOpen
  <2> QED BY <2>1, WholeMore DEF Opening
<1> QED BY <1>1, <1>2 DEF Opening

(* Outside a lookup. *)
LEMMA WaysOut ==
  ASSUME Opening', pc' \in {"idle", "list", "dead"}, LinkFits', FindsFile'
  PROVE  Ways'
BY DEF Ways, Way, Search, Following, Roomy, Looking

(* The scan of a directory changes nothing else. *)
LEMMA WaysScan ==
  ASSUME Ways, UNCHANGED << disc, table, filename, path, dir, oldinode, ret, open, past >>,
         Looking, pc' \in {"scan", "found", "missing"}, seen \subseteq seen', LinkFits', Search'
  PROVE  Ways'
<1>1. D' = D BY DEF D
<1>2. Opening' BY OpeningFrame DEF Ways
<1>3. Way'
  <2> SUFFICES ASSUME "part" \notin seen'
               PROVE  /\ Asking'
                      /\ path' \in Seq(Asked(D)) /\ path' # << >>
                      /\ Whole(D, table'[dir'], past')
                      /\ OnChain(D, filename', Down(D, HomeAt(D, table'[dir'].inumber), path'))
    BY <1>1 DEF Way
  <2>1. "part" \notin seen OBVIOUS
  <2> QED BY <1>1, <2>1 DEF Ways, Way, Asking
<1>4. Following' BY DEF Following
<1>5. Roomy' BY DEF Ways, Roomy, Kept, FreeSlots, Looking
<1>6. FindsFile' BY DEF FindsFile
<1> QED BY <1>2, <1>3, <1>4, <1>5, <1>6 DEF Ways

LEMMA FitsMore ==
  ASSUME LinkFits, seen \subseteq seen', "overrun" \in seen' => "overrun" \in seen \/ "part" \in seen'
  PROVE  LinkFits'
BY DEF LinkFits

(* The record of the directory in hand. *)
LEMMA InDir ==
  ASSUME IInv, Lawful, Ways, Looking, "part" \notin seen
  PROVE  LET n == table[dir]
             x == RecAt(D, n.inumber)
         IN /\ Good(D) /\ NodeIn(D, n) /\ x \in DOMAIN D.rec /\ n.first_extent = Place(D, x)
            /\ path \in Seq(Asked(D)) /\ path # << >> /\ path[1] \in Asked(D)
            /\ D.cell[n.inumber + 1] # << >> /\ n.size \in Nat
            /\ D.rec[x].dir => n.size = D.rec[x].size
            /\ n.size <= IF D.rec[x].link = << >> THEN D.rec[x].size ELSE Len(D.rec[x].link)
<1> DEFINE n == table[dir]
           x == RecAt(D, n.inumber)
<1>1. Good(D) /\ NodeIn(D, n) BY DirNode, GoodDisc DEF Lawful
<1>2. Whole(D, n, past) /\ path \in Seq(Asked(D)) /\ path # << >> BY DEF Ways, Way
<1>3. D.cell[n.inumber + 1] # << >> BY <1>2, Zenon DEF Whole
<1>4. x \in DOMAIN D.rec /\ n.first_extent = Place(D, x) BY <1>1, <1>3, ReadIs DEF NodeIn
<1>5. path[1] \in Asked(D) BY <1>2
<1>6. n.size \in Nat BY <1>1 DEF NodeIn
<1>7. D.rec[x].dir => n.size = D.rec[x].size BY <1>1, <1>2, <1>4, Linked, Zenon DEF Whole, RecAt
<1>8. n.size <= IF D.rec[x].link = << >> THEN D.rec[x].size ELSE Len(D.rec[x].link)
  <2>1. D.rec[x].link # << >> => n.size = Len(D.rec[x].link) BY <1>2, Zenon DEF Whole, RecAt
  <2>2. D.rec[x].link = << >> => n.size <= D.rec[x].size BY <1>2, Zenon DEF Whole, RecAt
  <2> HIDE DEF n, x
  <2>3. n.size <= n.size BY <1>6
  <2> QED BY <2>1, <2>2, <2>3
<1> QED BY <1>1, <1>2, <1>3, <1>4, <1>5, <1>6, <1>7, <1>8

(* In what is not a directory no name stands for anything. *)
LEMMA NoDirAbsent ==
  ASSUME NEW d, Good(d), NEW x \in DOMAIN d.rec, ~d.rec[x].dir, NEW n
  PROVE  Absent(d, Home(d, x), n)
<1>1. Home(d, x) = x BY DEF Home
<1> QED BY <1>1 DEF Absent, Child

LEMMA WaysFindStart == ASSUME IInv, Lawful, Ways, FindStart PROVE Ways'
<1> DEFINE n == table[dir]
           x == RecAt(D, n.inumber)
           b == iso_bmap(n, 0)
<1>1. PICK bad \in FailedReads :
        /\ Note(bad, {})
        /\ \/ pc' = "missing" /\ (n.first_extent = 0 \/ b = 0 \/ ~OnDisc(b) \/ bad # {})
           \/ pc' = "scan" /\ scan' = [NoScan EXCEPT !.block = b]
  BY DEF FindStart
<1>2. /\ UNCHANGED << disc, table, filename, path, dir, oldinode, ret, open, past >> /\ pc = "look"
  BY DEF FindStart
<1>3. Looking /\ D' = D BY <1>2 DEF Looking, D
<1>4. seen \subseteq seen' /\ ("read" \notin seen' => bad = {}) /\ (bad = {} => seen' = seen)
      /\ ("overrun" \in seen' => "overrun" \in seen)
  <2>1. seen \subseteq seen' /\ ("read" \notin seen' => bad = {}) /\ (bad = {} => seen' = seen \union {})
    BY <1>1, Noted, Failing DEF Lawful
  <2>2. "overrun" \in seen' => "overrun" \in seen BY <1>1 DEF Note
  <2> QED BY <2>1, <2>2
<1>5. LinkFits' BY <1>4, FitsMore DEF Ways
<1>6. Search'
  <2> SUFFICES ASSUME "part" \notin seen'
               PROVE  /\ pc' = "scan" => ScanAt(D, n, path[1], scan')
                      /\ pc' = "missing" /\ seen' = {} => Absent(D, HomeAt(D, n.inumber), path[1])
    BY <1>1, <1>2, <1>3 DEF Search
  <2>1. /\ Good(D) /\ x \in DOMAIN D.rec /\ n.first_extent = Place(D, x)
    BY <1>3, <1>4, InDir
  <2>2. b = (Place(D, x) \div BlockCells) + 0 BY <2>1 DEF iso_bmap
  <2>3. 0 \div BlockCells = 0 /\ 0 % BlockCells = 0 BY Cellular
  <2>4. D.rec[x].dir => /\ Place(D, x) > 0 /\ Begins(CellOf(D, x, 0))
                        /\ D.rec[x].size > 0 /\ D.rec[x].size \in Nat
    BY <2>1, DirFacts, Recorded
  <2> HIDE DEF n, x, b
  <2>5. ASSUME pc' = "scan" PROVE ScanAt(D, n, path[1], scan')
    <3>1. scan' = [NoScan EXCEPT !.block = b] BY <1>1, <2>5
    <3>2. scan'.f_pos = 0 /\ scan'.offset = 0 /\ scan'.block = b BY <3>1 DEF NoScan
    <3>3. Passed(D, x, path[1], 0) BY DEF Passed, StartsIn
    <3> QED BY <2>2, <2>3, <2>4, <3>2, <3>3 DEF ScanAt, x
  <2>6. ASSUME pc' = "missing", seen' = {} PROVE Absent(D, HomeAt(D, n.inumber), path[1])
    <3>1. bad = {} BY <1>4, <2>6
    <3>2. n.first_extent = 0 \/ b = 0 \/ ~OnDisc(b) BY <1>1, <2>6, <3>1 DEF n, b
    <3>3. CASE D.rec[x].dir
      <4>1. 0 \in Nat /\ 0 % SectorCells = 0 BY Cellular
      <4>2. LET k == (Place(D, x) \div BlockCells) + (0 \div BlockCells)
            IN k > 0 /\ (k + 1) * BlockCells <= Len(D.cell)
        BY <2>1, <2>4, <3>3, <4>1, SectorOnDisc
      <4> QED BY <2>1, <2>2, <2>3, <2>4, <3>2, <3>3, <4>2 DEF OnDisc
    <3>4. CASE ~D.rec[x].dir BY <2>1, <3>4, NoDirAbsent DEF HomeAt, x
    <3> QED BY <3>3, <3>4
  <2> QED BY <2>5, <2>6
<1> QED BY <1>1, <1>2, <1>3, <1>4, <1>5, <1>6, WaysScan

(* The scan, as far as the directory's record is one. *)
LEMMA AtScan ==
  ASSUME IInv, Lawful, Ways, pc = "scan", "part" \notin seen
  PROVE  LET n == table[dir]
             x == RecAt(D, n.inumber)
         IN /\ scan.f_pos \in Nat /\ scan.offset = scan.f_pos % BlockCells
            /\ scan.block = (Place(D, x) \div BlockCells) + (scan.f_pos \div BlockCells)
            /\ scan.block * BlockCells + scan.offset = Place(D, x) + scan.f_pos
            /\ data_block[scan.offset] = CellOf(D, x, scan.f_pos)
            /\ Place(D, x) + scan.f_pos + 1 \in DOMAIN D.cell
            /\ D.rec[x].dir => /\ scan.f_pos <= D.rec[x].size
                               /\ scan.f_pos < D.rec[x].size =>
                                    CellOf(D, x, scan.f_pos) = << >> \/ Begins(CellOf(D, x, scan.f_pos))
                               /\ Passed(D, x, path[1], scan.f_pos)
<1> DEFINE n == table[dir]
           x == RecAt(D, n.inumber)
           p == scan.block * BlockCells + scan.offset
<1>1. Looking BY DEF Looking
<1>2. Good(D) /\ x \in DOMAIN D.rec BY <1>1, InDir
<1>3. ScanAt(D, n, path[1], scan) BY DEF Ways, Search
<1>4. scan.f_pos \in Nat BY DEF Lawful, Scanning
<1>5. OnTrack(D, p) /\ data_block[scan.offset] = D.cell[p + 1] BY ScanIs
<1>6. /\ scan.offset = scan.f_pos % BlockCells
      /\ scan.block = (Place(D, x) \div BlockCells) + (scan.f_pos \div BlockCells)
  BY <1>3 DEF ScanAt
<1>7. p = Place(D, x) + scan.f_pos BY <1>2, <1>4, <1>6, CellHere
<1> HIDE DEF p
<1>8. data_block[scan.offset] = CellOf(D, x, scan.f_pos) BY <1>5, <1>7 DEF CellOf
<1>9. Place(D, x) + scan.f_pos + 1 \in DOMAIN D.cell
  <2>1. DOMAIN D.cell = 1 .. Len(D.cell) /\ Len(D.cell) \in Nat BY <1>2, Celled
  <2>2. p + 1 \in DOMAIN D.cell BY <1>5, <2>1 DEF OnTrack
  <2> QED BY <1>7, <2>2
<1> QED BY <1>3, <1>4, <1>6, <1>7, <1>8, <1>9 DEF ScanAt, p

LEMMA SearchFrame ==
  ASSUME iso_find_entry
  PROVE  /\ UNCHANGED << disc, table, filename, path, dir, oldinode, ret, open, past >>
         /\ pc = "scan" /\ Looking /\ D' = D
BY DEF iso_find_entry, ScanEnd, ScanSector, ScanRecord, Looking, D

LEMMA WaysScanEnd == ASSUME IInv, Lawful, Ways, iso_find_entry, ScanEnd PROVE Ways'
<1> DEFINE n == table[dir]
           x == RecAt(D, n.inumber)
<1>1. /\ UNCHANGED << disc, table, filename, path, dir, oldinode, ret, open, past >>
      /\ pc = "scan" /\ Looking /\ D' = D
  BY SearchFrame
<1>2. pc' = "missing" /\ Note({}, {}) /\ scan.f_pos >= n.size BY DEF ScanEnd, Missing
<1>3. seen' = seen
  <2>1. {} = {} \/ (failures < MaxFailures /\ \E y : {} = {y}) OBVIOUS
  <2>2. seen' = seen \union {} BY <1>2, <2>1, Noted DEF Lawful
  <2> QED BY <2>2
<1>4. LinkFits' BY <1>3 DEF Ways, LinkFits
<1>5. ASSUME "part" \notin seen PROVE Absent(D, HomeAt(D, n.inumber), path[1])
  <2>1. /\ Good(D) /\ x \in DOMAIN D.rec /\ path[1] \in Asked(D)
        /\ D.rec[x].dir => n.size = D.rec[x].size
        /\ n.size \in Nat
    BY <1>1, <1>5, InDir
  <2>2. CASE ~D.rec[x].dir BY <2>1, <2>2, NoDirAbsent DEF HomeAt
  <2>3. CASE D.rec[x].dir
    <3>1. /\ scan.f_pos \in Nat /\ scan.f_pos <= D.rec[x].size /\ Passed(D, x, path[1], scan.f_pos)
      BY <1>1, <1>5, <2>3, AtScan
    <3>2. scan.f_pos = D.rec[x].size BY <1>2, <2>1, <2>3, <3>1
    <3>3. Passed(D, x, path[1], D.rec[x].size) BY <3>1, <3>2
    <3> QED BY <2>1, <2>3, <3>3, PassedAll DEF Absent, HomeAt
  <2> QED BY <2>2, <2>3
<1>6. Search' BY <1>1, <1>2, <1>3, <1>5 DEF Search
<1> QED BY <1>1, <1>2, <1>3, <1>4, <1>6, WaysScan

LEMMA WaysScanSector == ASSUME IInv, Lawful, Ways, iso_find_entry, ScanSector PROVE Ways'
<1> DEFINE n == table[dir]
           x == RecAt(D, n.inumber)
           pos == scan.f_pos
           next == SectorAfter(pos)
           b == iso_bmap(n, next \div BlockCells)
<1>1. /\ UNCHANGED << disc, table, filename, path, dir, oldinode, ret, open, past >>
      /\ pc = "scan" /\ Looking /\ D' = D
  BY SearchFrame
<1>2. PICK bad \in FailedReads :
        /\ Note(bad, {})
        /\ \/ pc' = "missing" /\ (~OnDisc(b) \/ bad # {})
           \/ pc' = pc /\ scan' = [scan EXCEPT !.f_pos = next, !.offset = 0, !.block = b]
  BY DEF ScanSector, Missing
<1>3. pos < n.size /\ data_block[scan.offset] = << >> BY DEF ScanSector
<1>4. seen \subseteq seen' /\ ("read" \notin seen' => bad = {})
      /\ ("overrun" \in seen' => "overrun" \in seen)
  <2>1. seen \subseteq seen' /\ ("read" \notin seen' => bad = {})
    BY <1>2, Noted, Failing DEF Lawful
  <2>2. "overrun" \in seen' => "overrun" \in seen BY <1>2 DEF Note
  <2> QED BY <2>1, <2>2
<1>5. LinkFits' BY <1>4, FitsMore DEF Ways
<1>6. Search'
  <2> SUFFICES ASSUME "part" \notin seen'
               PROVE  /\ pc' = "scan" => ScanAt(D, n, path[1], scan')
                      /\ pc' = "missing" /\ seen' = {} => Absent(D, HomeAt(D, n.inumber), path[1])
    BY <1>1, <1>2 DEF Search
  <2>1. /\ Good(D) /\ x \in DOMAIN D.rec /\ n.first_extent = Place(D, x) /\ path[1] \in Asked(D)
        /\ D.rec[x].dir => n.size = D.rec[x].size
        /\ n.size \in Nat
    BY <1>1, <1>4, InDir
  <2>2. /\ pos \in Nat /\ data_block[scan.offset] = CellOf(D, x, pos)
        /\ D.rec[x].dir => Passed(D, x, path[1], pos)
    BY <1>1, <1>4, AtScan
  <2>3. b = (Place(D, x) \div BlockCells) + (next \div BlockCells) BY <2>1 DEF iso_bmap
  <2>4. next \in Nat /\ next % SectorCells = 0
    <3>1. SectorCells \in Nat \ {0} BY Cellular
    <3>2. pos \div SectorCells \in Nat BY <2>2, <3>1, DivMod
    <3> DEFINE k == (pos \div SectorCells) + 1
    <3>3. k * SectorCells + 0 = next /\ k \in Nat /\ k * SectorCells + 0 \in Nat
      <4>1. k \in Nat BY <3>2
      <4>2. next = (pos \div SectorCells) * SectorCells + SectorCells BY DEF SectorAfter
      <4>3. k * SectorCells = (pos \div SectorCells) * SectorCells + SectorCells BY <3>1, <3>2
      <4>4. k * SectorCells \in Nat BY <3>1, <4>1, Product
      <4> QED BY <4>1, <4>2, <4>3, <4>4
    <3> HIDE DEF k
    <3>4. (k * SectorCells + 0) % SectorCells = 0 BY <3>1, <3>3, DivModOf
    <3> QED BY <3>3, <3>4
  <2>5. next % BlockCells = 0 BY <2>4, Aligned
  <2>6. ASSUME D.rec[x].dir
        PROVE  /\ next <= D.rec[x].size /\ Passed(D, x, path[1], next)
               /\ next < D.rec[x].size => CellOf(D, x, next) = << >> \/ Begins(CellOf(D, x, next))
    <3>1. pos \in 0 .. D.rec[x].size - 1 /\ CellOf(D, x, pos) = << >>
      BY <1>3, <2>1, <2>2, <2>6
    <3>2. /\ next <= D.rec[x].size /\ \A q \in StartsIn(D, x) : q < next => q < pos
          /\ next < D.rec[x].size => CellOf(D, x, next) = << >> \/ Begins(CellOf(D, x, next))
      BY <2>1, <2>6, <3>1, ZeroAhead
    <3>3. Passed(D, x, path[1], pos) BY <2>2, <2>6
    <3> HIDE DEF next, pos, x
    <3>4. Passed(D, x, path[1], next) BY <3>2, <3>3 DEF Passed
    <3> QED BY <3>2, <3>4
  <2> HIDE DEF n, x, b, next
  <2>7. ASSUME pc' = "scan" PROVE ScanAt(D, n, path[1], scan')
    <3>1. scan' = [scan EXCEPT !.f_pos = next, !.offset = 0, !.block = b] BY <1>2, <2>7 DEF n, b, next
    <3>2. scan \in [f_pos : Nat, offset : 0 .. BlockCells - 1, block : Nat, ino : {0}]
      BY <1>1 DEF Lawful, Scanning
    <3>3. scan'.f_pos = next /\ scan'.offset = 0 /\ scan'.block = b BY <3>1, <3>2
    <3> QED BY <2>3, <2>5, <2>6, <3>3 DEF ScanAt, x
  <2>8. ASSUME pc' = "missing", seen' = {} PROVE Absent(D, HomeAt(D, n.inumber), path[1])
    <3>1. bad = {} BY <1>4, <2>8
    <3>2. ~OnDisc(b) BY <1>1, <1>2, <2>8, <3>1 DEF n, b, next
    <3>3. CASE D.rec[x].dir
      <4>1. ~(next < D.rec[x].size)
        BY <2>1, <2>3, <2>4, <3>2, <3>3, SectorOnDisc DEF OnDisc
      <4>2. next = D.rec[x].size BY <2>1, <2>4, <2>6, <3>3, <4>1, Recorded
      <4>3. Passed(D, x, path[1], D.rec[x].size) BY <2>6, <3>3, <4>2
      <4> QED BY <2>1, <3>3, <4>3, PassedAll DEF Absent, HomeAt, x
    <3>4. CASE ~D.rec[x].dir BY <2>1, <3>4, NoDirAbsent DEF HomeAt, x
    <3> QED BY <3>3, <3>4
  <2> QED BY <2>7, <2>8
<1> QED BY <1>1, <1>2, <1>4, <1>5, <1>6, WaysScan

(* The records that the scan meets are a directory's. *)
LEMMA RecordsInDirs ==
  ASSUME IInv, Lawful, Ways, pc = "scan", "part" \notin seen, scan.f_pos < table[dir].size,
         data_block[scan.offset] # << >>
  PROVE  LET x == RecAt(D, table[dir].inumber) IN
         D.rec[x].dir /\ scan.f_pos \in StartsIn(D, x)
<1> DEFINE n == table[dir]
           x == RecAt(D, n.inumber)
           pos == scan.f_pos
<1>0. Looking BY DEF Looking
<1>1. /\ Good(D) /\ x \in DOMAIN D.rec /\ n.size \in Nat
      /\ D.rec[x].dir => n.size = D.rec[x].size
      /\ n.size <= IF D.rec[x].link = << >> THEN D.rec[x].size ELSE Len(D.rec[x].link)
  BY <1>0, InDir
<1>2. /\ pos \in Nat /\ data_block[scan.offset] = CellOf(D, x, pos)
      /\ Place(D, x) + pos + 1 \in DOMAIN D.cell
      /\ D.rec[x].dir => (pos < D.rec[x].size =>
                            CellOf(D, x, pos) = << >> \/ Begins(CellOf(D, x, pos)))
  BY AtScan
<1>3. D.rec[x].dir
  <2> SUFFICES ASSUME ~D.rec[x].dir PROVE FALSE OBVIOUS
  <2>1. FileSound(D, x) BY <1>1 DEF Good, Sound
  <2> DEFINE e == IF D.rec[x].link = << >> THEN D.rec[x].size ELSE Len(D.rec[x].link)
  <2>2. e \in Nat
    <3>1. D.rec[x].size \in Nat /\ Len(D.rec[x].link) \in Nat
      BY <1>1, Recorded, Linked, SeqIs DEF IsSeq
    <3> QED BY <3>1
  <2>3. n.size <= e BY <1>1
  <2> HIDE DEF e
  <2>4. pos \in 0 .. e - 1 BY <1>1, <1>2, <2>2, <2>3
  <2>5. CellOf(D, x, pos) = << >> BY <1>2, <2>1, <2>4 DEF FileSound, Extent, e
  <2> QED BY <1>2, <2>5
<1>4. pos \in 0 .. D.rec[x].size - 1 BY <1>1, <1>2, <1>3
<1>5. Begins(CellOf(D, x, pos)) BY <1>1, <1>2, <1>3
<1> QED BY <1>3, <1>4, <1>5 DEF StartsIn

LEMMA WaysScanRecord == ASSUME IInv, Lawful, Ways, iso_find_entry, ScanRecord PROVE Ways'
<1> DEFINE n == table[dir]
           x == RecAt(D, n.inumber)
           pos == scan.f_pos
           r == RecordOf(data_block[scan.offset])
           next == pos + r.len
           b == IF Spans(r) THEN iso_bmap(n, next \div BlockCells) ELSE scan.block
           o == IF Spans(r) THEN next % BlockCells ELSE scan.offset + r.len
           Matches(heap, bad) == /\ ~r.hidden
                                 /\ iso_match(path[1], Shown(r, sb.rock, D.area, heap, Lost(bad)))
<1>1. /\ UNCHANGED << disc, table, filename, path, dir, oldinode, ret, open, past >>
      /\ pc = "scan" /\ Looking /\ D' = D
  BY SearchFrame
<1>2. PICK bad \in FailedReads, heap \in HeapTexts :
        \/ pc' = "found" /\ Note(bad, {"part"})
        \/ /\ Note(bad, {})
           /\ \/ /\ Matches(heap, bad) /\ pc' = "found"
                 /\ scan' = [f_pos |-> next, block |-> b, offset |-> o, ino |-> InodeNumber(r)]
              \/ /\ ~Matches(heap, bad) /\ pc' = "scan"
                 /\ scan' = [f_pos |-> next, block |-> b, offset |-> o, ino |-> 0]
  BY DEF ScanRecord
<1>3. pos < n.size /\ data_block[scan.offset] # << >> BY DEF ScanRecord
<1> HIDE DEF r, b, o, next
<1>4. \E what \in SUBSET {"part"} : Note(bad, what) BY <1>2
<1>5. seen \subseteq seen' /\ ("overrun" \in seen' => "overrun" \in seen)
      /\ ("part" \notin seen' => Lost(bad) = {})
  <2>1. seen \subseteq seen' /\ ("part" \notin seen' => Lost(bad) = {})
    BY <1>4, Noted, Failing DEF Lawful
  <2>2. "overrun" \in seen' => "overrun" \in seen BY <1>4 DEF Note
  <2> QED BY <2>1, <2>2
<1>6. LinkFits' BY <1>5, FitsMore DEF Ways
<1>7. pc' \in {"scan", "found"} BY <1>2
<1>8. Search'
  <2> SUFFICES ASSUME "part" \notin seen'
               PROVE  /\ pc' = "scan" => ScanAt(D, n, path[1], scan')
                      /\ pc' = "found" => Leads(D, scan'.ino, Child(D, HomeAt(D, n.inumber), path[1]))
    BY <1>1, <1>7 DEF Search
  <2>0. "part" \notin seen BY <1>5
  <2>1. /\ Good(D) /\ x \in DOMAIN D.rec /\ n.first_extent = Place(D, x) /\ path[1] \in Asked(D)
        /\ D.cell[n.inumber + 1] # << >>
    BY <1>1, <2>0, InDir
  <2>2. /\ pos \in Nat /\ data_block[scan.offset] = CellOf(D, x, pos)
        /\ scan.offset = pos % BlockCells
        /\ scan.block = (Place(D, x) \div BlockCells) + (pos \div BlockCells)
        /\ scan.block * BlockCells + scan.offset = Place(D, x) + pos
    BY <1>1, <2>0, AtScan
  <2>3. D.rec[x].dir /\ pos \in StartsIn(D, x) BY <1>1, <1>3, <2>0, RecordsInDirs
  <2>4. Passed(D, x, path[1], pos) BY <1>1, <2>0, <2>3, AtScan
  <2> DEFINE m == CellOf(D, x, pos)[1]
  <2>5. m \in DOMAIN D.rec /\ m \in Members(D, x) BY <2>1, <2>3, MemberIs
  <2>6. r = D.rec[m] BY <1>3, <2>2 DEF RecordOf, r
  <2>7. /\ next \in Nat /\ next <= D.rec[x].size
        /\ \A q \in StartsIn(D, x) : q < next => q <= pos
        /\ next < D.rec[x].size => CellOf(D, x, next) = << >> \/ Begins(CellOf(D, x, next))
    BY <2>1, <2>3, <2>6, RecordAhead DEF next
  <2>8. r.len \in Nat BY <2>1, <2>5, <2>6, Recorded
  <2>9. sb.rock = Rock(D) /\ Lost(bad) = {}
    <3>1. sb.rock = Rock(D) BY <1>1, Zenon DEF Lawful, Mounted
    <3> QED BY <1>5, <3>1
  <2>10. Matches(heap, bad) <=> Shows(D, m, path[1], heap)
    BY <2>6, <2>9, Zenon DEF Shows
  <2>11. /\ Shows(D, m, path[1], heap) => Meant(D, m, path[1])
         /\ Meant(D, m, path[1]) => Shows(D, m, path[1], heap) \/ FarName(D, m)
    BY <2>1, <2>3, <2>5, ShowsMeant
  <2>12. ~(Note(bad, {"part"})) BY DEF Note
  <2>13. ASSUME pc' = "scan" PROVE ScanAt(D, n, path[1], scan')
    <3>1. scan' = [f_pos |-> next, block |-> b, offset |-> o, ino |-> 0] BY <1>2, <2>13
    <3>2. scan'.f_pos = next /\ scan'.block = b /\ scan'.offset = o BY <3>1
    <3>3. ~Matches(heap, bad) BY <1>2, <2>13
    <3>4. ~Meant(D, m, path[1]) \/ FarName(D, m) BY <2>10, <2>11, <3>3
    <3>5. Passed(D, x, path[1], next)
      <4> SUFFICES ASSUME NEW q \in StartsIn(D, x), q < next
                   PROVE  LET k == CellOf(D, x, q)[1] IN ~Meant(D, k, path[1]) \/ FarName(D, k)
        BY DEF Passed
      <4>1. q <= pos /\ q \in Int BY <2>7 DEF StartsIn
      <4>2. q < pos \/ q = pos
        <5> HIDE DEF pos
        <5> QED BY <2>2, <4>1
      <4>3. CASE q < pos BY <2>4, <4>3 DEF Passed
      <4>4. CASE q = pos BY <3>4, <4>4
      <4> QED BY <4>2, <4>3, <4>4
    <3>6. b = (Place(D, x) \div BlockCells) + (next \div BlockCells) /\ o = next % BlockCells
      <4>1. CASE Spans(r)
        <5>1. b = iso_bmap(n, next \div BlockCells) /\ o = next % BlockCells BY <4>1 DEF b, o
        <5> QED BY <2>1, <5>1 DEF iso_bmap
      <4>2. CASE ~Spans(r)
        <5>1. b = scan.block /\ o = scan.offset + r.len BY <4>2 DEF b, o
        <5>2. (pos % BlockCells) + r.len < BlockCells
          <6>1. pos % BlockCells \in Nat /\ BlockCells \in Nat BY <2>2, Cellular, DivMod
          <6>2. ~((pos % BlockCells) + r.len >= BlockCells) BY <2>2, <4>2 DEF Spans
          <6> QED BY <2>8, <6>1, <6>2
        <5>3. /\ (pos + r.len) \div BlockCells = pos \div BlockCells
              /\ (pos + r.len) % BlockCells = (pos % BlockCells) + r.len
          BY <2>2, <2>8, <5>2, SameBlock
        <5> QED BY <2>2, <5>1, <5>3 DEF next
      <4> QED BY <4>1, <4>2
    <3> QED BY <2>7, <3>2, <3>5, <3>6 DEF ScanAt
  <2>14. ASSUME pc' = "found" PROVE Leads(D, scan'.ino, Child(D, HomeAt(D, n.inumber), path[1]))
    <3>1. /\ Matches(heap, bad)
          /\ scan' = [f_pos |-> next, block |-> b, offset |-> o, ino |-> InodeNumber(r)]
      BY <1>2, <2>12, <2>14
    <3>2. scan'.ino = InodeNumber(r) BY <3>1
    <3>3. Meant(D, m, path[1]) BY <2>10, <2>11, <3>1
    <3>4. sb.zone = Zone(D) /\ sb.root_inode = RootPlace(D) BY <1>1 DEF Lawful, Mounted
    <3>5. \/ r.name = << "0" >> /\ InodeNumber(r) = n.inumber
          \/ /\ r.name = << "1" >> /\ n.inumber # RootPlace(D)
             /\ InodeNumber(r) = r.extent * Zone(D)
          \/ r.name = << "1" >> /\ n.inumber = RootPlace(D) /\ InodeNumber(r) = n.inumber
          \/ r.name \notin {<< "0" >>, << "1" >>} /\ InodeNumber(r) = Place(D, x) + pos
      <4>1. CASE r.name = << "0" >> BY <4>1 DEF InodeNumber
      <4>2. CASE r.name = << "1" >> /\ n.inumber # RootPlace(D) BY <3>4, <4>2 DEF InodeNumber
      <4>3. CASE r.name = << "1" >> /\ n.inumber = RootPlace(D) BY <3>4, <4>3 DEF InodeNumber
      <4>4. CASE r.name \notin {<< "0" >>, << "1" >>}
        <5>1. InodeNumber(r) = scan.block * BlockCells + scan.offset BY <4>4 DEF InodeNumber
        <5> QED BY <2>2, <4>4, <5>1
      <4> QED BY <4>1, <4>2, <4>3, <4>4
    <3> HIDE DEF pos, n, x, m
    <3>6. Leads(D, InodeNumber(r), Child(D, Home(D, x), path[1]))
      BY <2>1, <2>3, <2>6, <3>3, <3>5, EntryLeads, Zenon DEF m, x
    <3> QED BY <3>2, <3>6 DEF HomeAt, x
  <2> QED BY <2>13, <2>14
<1> QED BY <1>1, <1>5, <1>6, <1>7, <1>8, WaysScan

LEMMA LeftTableIs ==
  ASSUME IInv, Looking, NEW t, NEW s, DOMAIN t = Slots, Leave(t, s)
  PROVE  \A u \in Slots : table'[u] = IF oldinode # NoSlot /\ u \in {dir, oldinode}
                                      THEN NoNode ELSE t[u]
<1>1. CASE oldinode = NoSlot BY <1>1 DEF Leave
<1>2. CASE oldinode # NoSlot
  <2>1. table' = iso_iput(iso_iput(t, dir), oldinode) BY <1>2 DEF Leave, IInv, InHand
  <2> QED BY <1>2, <2>1, Put
<1> QED BY <1>1, <1>2

(* Open descriptors have other slots than the lookup. *)
LEMMA Apart ==
  ASSUME IInv, NEW u \in Slots, IsOpen(u)
  PROVE  /\ Looking => u # dir
         /\ oldinode # NoSlot => u # oldinode
         /\ table[u].free = 0
BY DEF IInv, InHand, Opened

Excused(w) == w = NoRec \/ Circular(D, w) \/ FarName(D, w)

(* A lookup that finds nothing. *)
LEMMA LeaveNone ==
  ASSUME IInv, Lawful, Ways, Looking, NEW t, DOMAIN t = Slots, Leave(t, NoSlot),
         \A u \in Slots : u # dir => t[u] = table[u],
         disc' = disc, past \subseteq past', LinkFits',
         seen' = {} /\ ret.room >= 3 => Excused(ret.wanted)
  PROVE  Ways'
<1>1. /\ ret' = [ret EXCEPT !.val = NoSlot] /\ pc' = "idle" /\ open' = open BY DEF Leave
<1>2. ASSUME NEW u \in Slots, IsOpen(u) PROVE table'[u] = table[u]
  BY <1>2, Apart, LeftTableIs
<1>3. Opening' BY <1>1, <1>2, OpeningFrame DEF Ways
<1>4. ret' = [call |-> "open", wanted |-> ret.wanted, val |-> ret'.val, room |-> ret.room]
  BY LeftRet
<1>5. ret'.wanted = ret.wanted /\ ret'.room = ret.room BY <1>4
<1>6. D' = D BY DEF D
<1>7. FindsFile' BY <1>5, <1>6 DEF FindsFile, Excused
<1> QED BY <1>1, <1>3, <1>7, WaysOut

LEMMA WaysMissing == ASSUME IInv, Lawful, Ways, LookupMissing PROVE Ways'
<1> DEFINE t == IF Len(path) > 1 THEN table ELSE iso_iput(table, dir)
           h == HomeAt(D, table[dir].inumber)
           c == Child(D, h, path[1])
<1>1. Looking /\ pc = "missing" /\ Leave(t, NoSlot) BY DEF LookupMissing, Looking
<1>2. disc' = disc /\ past \subseteq past' /\ seen' = seen BY DEF LookupMissing
<1>3. DOMAIN t = Slots /\ \A u \in Slots : u # dir => t[u] = table[u]
  <2>1. DOMAIN table = Slots BY DEF IInv, SlotTypes
  <2> QED BY <2>1, Put
<1>4. LinkFits' BY <1>2 DEF Ways, LinkFits
<1>5. ASSUME seen' = {} PROVE Excused(ret.wanted)
  <2>1. "part" \notin seen /\ seen = {} BY <1>2, <1>5
  <2>2. Absent(D, h, path[1]) BY <1>1, <2>1 DEF Ways, Search
  <2>3. /\ Asking /\ path \in Seq(Asked(D)) /\ path # << >>
        /\ OnChain(D, filename, Down(D, h, path))
    BY <1>1, <2>1 DEF Ways, Way
  <2>4. Down(D, h, path) = Down(D, c, Tail(path)) BY <2>3, DownFirst
  <2>5. Tail(path) \in Seq(Asked(D)) BY <2>3
  <2>6. CASE c = NoRec \/ Tail(path) # << >>
    <3>1. Down(D, h, path) = NoRec
      <4>1. CASE c = NoRec BY <2>4, <2>5, <4>1, DownNone
      <4>2. CASE c # NoRec /\ Tail(path) # << >>
        <5> DEFINE q == Tail(path)
        <5>1. ~D.rec[c].dir BY <2>2, <4>2 DEF Absent
        <5>2. Child(D, c, q[1]) = NoRec BY <5>1 DEF Child
        <5>3. q \in Seq(Asked(D)) /\ q # << >> BY <2>5, <4>2
        <5> HIDE DEF q, c
        <5>4. Down(D, c, q) = Down(D, NoRec, Tail(q)) BY <5>2, <5>3, DownFirst
        <5>5. Tail(q) \in Seq(Asked(D)) BY <5>3
        <5> QED BY <2>4, <5>4, <5>5, DownNone DEF q
      <4> QED BY <2>6, <4>1, <4>2
    <3>2. LinkOf(D, Down(D, h, path)) = << >> BY <3>1 DEF LinkOf
    <3>3. Target(D, filename) = NoRec BY <2>3, <3>1, <3>2, EndsThere
    <3> QED BY <2>3, <3>3 DEF Asking, Excused
  <2>7. CASE c # NoRec /\ Tail(path) = << >>
    <3>1. Down(D, h, path) = c BY <2>4, <2>7, DownEmpty
    <3>2. LinkOf(D, c) = << >> /\ FarName(D, c) BY <2>2, <2>7 DEF Absent, LinkOf
    <3>3. Target(D, filename) = c BY <2>3, <3>1, <3>2, EndsThere
    <3> QED BY <2>3, <3>2, <3>3 DEF Asking, Excused
  <2> QED BY <2>6, <2>7
<1> HIDE DEF t
<1> QED BY <1>1, <1>2, <1>3, <1>4, <1>5, LeaveNone

(* The slot of the directory that was given back is the first free one. *)
LEMMA SlotAgain ==
  ASSUME IInv, Looking, NEW ino, NEW bad, SlotGot(iso_iput(table, dir), ino, bad) # NoSlot
  PROVE  SlotGot(iso_iput(table, dir), ino, bad) = dir
<1> DEFINE t == iso_iput(table, dir)
           s == SlotGot(t, ino, bad)
<1>1. dir \in Slots /\ DOMAIN table = Slots /\ \A u \in Slots : u < dir => table[u].free = 0
  BY DEF IInv, InHand, SlotTypes
<1>2. /\ DOMAIN t = Slots /\ t[dir].free = 1
      /\ \A u \in Slots : u # dir => t[u] = table[u]
  BY <1>1, Put DEF NoNode
<1> HIDE DEF t
<1>3. s \in Slots /\ t[s].free = 1 /\ \A u \in Slots : t[u].free = 1 => s <= u BY <1>2, Get DEF t
<1> HIDE DEF s
<1>4. s \in Nat /\ dir \in Nat /\ s <= dir BY <1>1, <1>2, <1>3, NoSlotNotSlot
<1>5. ASSUME s < dir PROVE FALSE
  <2>1. s # dir /\ table[s].free = 0 BY <1>1, <1>3, <1>4, <1>5
  <2> QED BY <1>2, <1>3, <2>1
<1> QED BY <1>4, <1>5 DEF s, t

(* The inode that iso_iget reads from where a name leads. *)
LEMMA LedNode ==
  ASSUME Mounted, sb.ok, NEW ino, OnTrack(D, ino), NEW c, Leads(D, ino, c), NEW s, s # NoSlot,
         NoteDefect(ino, s), NEW bad, Lost(bad) = {}
  PROVE  LET n == Node(ino, bad)
             y == D.rec[RecAt(D, ino)]
         IN /\ Whole(D, n, past') /\ HomeAt(D, n.inumber) = c /\ n.inumber = ino
            /\ RecAt(D, ino) \in DOMAIN D.rec
            /\ n.mode = "link" => y.link # << >> /\ ~y.dir /\ c = RecAt(D, ino)
            /\ n.mode # "link" => LinkOf(D, c) = << >>
<1> DEFINE n == Node(ino, bad)
           x == RecAt(D, ino)
           y == D.rec[x]
           f == TypeAndSize(ReadRec(D, ino), Rock(D), D.area, cruft, {})
<1>1. Good(D) /\ cruft \in BOOLEAN /\ (cruft => "defect" \in past) BY GoodDisc DEF Mounted
<1>2. n.inumber = ino /\ n.mode = f.mode /\ n.size = f.size BY NodeIs
<1>3. /\ D.cell[ino + 1] # << >> /\ (~y.dir => (ino % SectorCells) + y.len <= SectorCells)
      /\ HomeAt(D, ino) = c
  BY DEF Leads
<1>4. x \in DOMAIN D.rec /\ ReadRec(D, ino) = y BY <1>1, <1>3, ReadIs
<1>5. cruft \/ Defective(y) => "defect" \in past'
  <2>1. RecordAt(ino) = y BY <1>4, ReadAt
  <2> QED BY <1>1, <2>1 DEF NoteDefect
<1> HIDE DEF n
<1>6. Whole(D, n, past') BY <1>1, <1>2, <1>3, <1>5, WholeRead
<1>7. n.mode = IF y.link # << >> THEN "link" ELSE IF y.dir THEN "dir" ELSE "file"
  BY <1>2, <1>6 DEF Whole, RecAt
<1>8. n.mode = "link" => y.link # << >> BY <1>7
<1>9. n.mode # "link" => y.link = << >> BY <1>7
<1>10. y.dir => y.link = << >> BY <1>1, <1>4, Linked
<1>11. n.mode = "link" => c = x BY <1>3, <1>8, <1>10 DEF HomeAt, Home
<1>12. n.mode # "link" => LinkOf(D, c) = << >>
  <2> SUFFICES ASSUME n.mode # "link" PROVE LinkOf(D, c) = << >> OBVIOUS
  <2>1. c = Home(D, x) BY <1>3 DEF HomeAt
  <2>2. c \in DOMAIN D.rec /\ D.rec[c].dir = y.dir /\ (~y.dir => c = x) BY <1>1, <1>4, <2>1, HomeIs
  <2>3. D.rec[c].link = << >> BY <1>1, <1>9, <2>2, Linked
  <2> QED BY <2>3 DEF LinkOf
<1> QED BY <1>2, <1>3, <1>4, <1>6, <1>8, <1>10, <1>11, <1>12 DEF n

LEMMA TailIs ==
  ASSUME NEW X, NEW p \in Seq(X), p # << >>
  PROVE  /\ Tail(p) \in Seq(X)
         /\ Len(p) > 1 => Tail(p) # << >>
         /\ Len(p) = 1 => Tail(p) = << >>
<1> DEFINE t == Tail(p)
<1>1. t \in Seq(X) /\ Len(t) = Len(p) - 1 /\ Len(p) \in Nat BY HeadTailProperties
<1> HIDE DEF t
<1>2. Len(<< >>) = 0 /\ (t # << >> => Len(t) \in Nat \ {0})
  <2>1. Len(<< >>) = 0 BY EmptySeq
  <2>2. t # << >> => Len(t) \in Nat \ {0} BY <1>1, EmptySeq, Zenon
  <2> QED BY <2>1, <2>2
<1>3. Len(p) > 1 => t # << >>
  <2> SUFFICES ASSUME t = << >>, Len(p) > 1 PROVE FALSE OBVIOUS
  <2>1. Len(t) = 0 BY <1>2
  <2>2. ASSUME NEW k \in Nat, k > 1 PROVE k - 1 # 0 BY <2>2
  <2> QED BY <1>1, <2>1, <2>2
<1>4. Len(p) = 1 => t = << >> BY <1>1, <1>2
<1> QED BY <1>1, <1>3, <1>4 DEF t

LEMMA FirstFreeThere ==
  ASSUME NEW t, NEW u \in Slots, t[u].free = 1, NEW ino
  PROVE  SlotGot(t, ino, {}) # NoSlot
<1>1. FreeSlots(t) # {} /\ FreeSlots(t) \subseteq Slots BY DEF FreeSlots
<1>2. \E s \in FreeSlots(t) : \A w \in FreeSlots(t) : s <= w BY <1>1, LeastSlot
<1>3. FirstFree(t) \in FreeSlots(t) BY <1>1, <1>2 DEF FirstFree
<1>4. FirstFree(t) # NoSlot BY <1>1, <1>3, NoSlotNotSlot
<1> QED BY <1>4 DEF SlotGot

(* What a lookup that reads an inode starts from. *)
LEMMA AtFound ==
  ASSUME IInv, Lawful, Ways, pc = "found", "part" \notin seen
  PROVE  LET h == HomeAt(D, table[dir].inumber) IN
         /\ Asking /\ path \in Seq(Asked(D)) /\ path # << >>
         /\ OnChain(D, filename, Down(D, Child(D, h, path[1]), Tail(path)))
         /\ Leads(D, scan.ino, Child(D, h, path[1]))
<1> DEFINE h == HomeAt(D, table[dir].inumber)
<1>1. Looking BY DEF Looking
<1>2. /\ Asking /\ path \in Seq(Asked(D)) /\ path # << >>
      /\ OnChain(D, filename, Down(D, h, path))
  BY <1>1 DEF Ways, Way
<1>3. Down(D, h, path) = Down(D, Child(D, h, path[1]), Tail(path)) BY <1>2, DownFirst
<1>4. Leads(D, scan.ino, Child(D, h, path[1])) BY DEF Ways, Search
<1> QED BY <1>2, <1>3, <1>4

LEMMA WaysDir == ASSUME IInv, Lawful, Ways, LookupDir PROVE Ways'
<1> DEFINE t == iso_iput(table, dir)
<1>1. PICK bad \in FailedReads : LET s == SlotGot(t, scan.ino, bad) IN
        /\ Note(bad, {}) /\ NoteDefect(scan.ino, s)
        /\ IF s = NoSlot THEN Leave(t, NoSlot)
           ELSE /\ table' = Got(t, scan.ino, bad) /\ dir' = s /\ path' = Tail(path)
                /\ pc' = "look" /\ UNCHANGED << filename, oldinode, ret, open >>
  BY DEF LookupDir
<1> DEFINE s == SlotGot(t, scan.ino, bad)
           g == Got(t, scan.ino, bad)
           n == Node(scan.ino, bad)
<1>2. pc = "found" /\ Looking /\ disc' = disc /\ D' = D /\ Len(path) > 1 BY DEF LookupDir, Looking, D
<1>3. dir \in Slots /\ DOMAIN table = Slots /\ table[dir].free = 0
  BY <1>2 DEF IInv, InHand, SlotTypes
<1>4. /\ DOMAIN t = Slots /\ t[dir].free = 1
      /\ \A u \in Slots : u # dir => t[u] = table[u]
  BY <1>3, Put DEF NoNode
<1>5. sb.ok /\ Mounted /\ OnTrack(D, scan.ino) BY <1>2 DEF Lawful, Mounted, Scanning
<1>6. past \subseteq past' BY <1>1, <1>5, DefectNoted
<1>7. /\ seen \subseteq seen' /\ ("overrun" \in seen' => "overrun" \in seen)
      /\ ("part" \notin seen' => Lost(bad) = {}) /\ ("read" \notin seen' => bad = {})
  <2>1. Note(bad, {}) BY <1>1
  <2>2. /\ seen \subseteq seen' /\ ("part" \notin seen' => Lost(bad) = {})
        /\ ("read" \notin seen' => bad = {})
    BY <2>1, Noted, Failing DEF Lawful
  <2>3. "overrun" \in seen' => "overrun" \in seen BY <2>1 DEF Note
  <2> QED BY <2>2, <2>3
<1>8. LinkFits' BY <1>7, FitsMore DEF Ways
<1>9. CASE s = NoSlot
  <2>1. Leave(t, NoSlot) BY <1>1, <1>9
  <2>2. seen' # {}
    <3> SUFFICES ASSUME seen' = {} PROVE FALSE OBVIOUS
    <3>1. bad = {} BY <1>7
    <3> HIDE DEF t
    <3> QED BY <1>3, <1>4, <1>9, <3>1, FirstFreeThere
  <2> HIDE DEF t, s
  <2> QED BY <1>2, <1>4, <1>6, <1>8, <2>1, <2>2, LeaveNone
<1>10. CASE s # NoSlot
  <2>1. /\ table' = g /\ dir' = s /\ path' = Tail(path) /\ pc' = "look"
        /\ UNCHANGED << filename, oldinode, ret, open >>
    BY <1>1, <1>10
  <2>2. s = dir BY <1>2, <1>10, SlotAgain
  <2>3. NoteDefect(scan.ino, s) BY <1>1
  <2> HIDE DEF t
  <2>4. g[s] = n /\ NodeIn(D, n) /\ \A u \in Slots : u # s => g[u] = t[u]
    BY <1>4, <1>5, <1>10, GotIs
  <2> HIDE DEF s, g, n
  <2>5. table'[dir] = n /\ \A u \in Slots : u # dir => table'[u] = table[u]
    BY <1>4, <2>1, <2>2, <2>4
  <2>6. Opening'
    <3>1. ASSUME NEW u \in Slots, IsOpen(u) PROVE table'[u] = table[u]
      BY <1>2, <2>5, <3>1, Apart
    <3> QED BY <1>2, <1>6, <2>1, <3>1, OpeningFrame DEF Ways
  <2>7. Way'
    <3> SUFFICES ASSUME "part" \notin seen'
                 PROVE  /\ Asking'
                        /\ path' \in Seq(Asked(D)) /\ path' # << >>
                        /\ Whole(D, table'[dir'], past')
                        /\ OnChain(D, filename', Down(D, HomeAt(D, table'[dir'].inumber), path'))
      BY <1>2 DEF Way
    <3>0. "part" \notin seen /\ Lost(bad) = {} BY <1>7
    <3> DEFINE c == Child(D, HomeAt(D, table[dir].inumber), path[1])
    <3>1. /\ Asking /\ path \in Seq(Asked(D)) /\ path # << >>
          /\ OnChain(D, filename, Down(D, c, Tail(path)))
          /\ Leads(D, scan.ino, c)
      BY <1>2, <3>0, AtFound
    <3> HIDE DEF c
    <3>2. Whole(D, n, past') /\ HomeAt(D, n.inumber) = c
      BY <1>5, <1>10, <2>3, <3>0, <3>1, LedNode DEF n
    <3>3. table'[dir'] = n BY <2>1, <2>2, <2>5
    <3>4. Asking' BY <1>2, <2>1, <3>1 DEF Asking
    <3>5. path' \in Seq(Asked(D)) /\ path' # << >> BY <1>2, <2>1, <3>1, TailIs
    <3> QED BY <2>1, <3>1, <3>2, <3>3, <3>4, <3>5
  <2>8. Roomy'
    <3>1. FreeSlots(table') = FreeSlots(table)
      <4>1. table'[dir].free = 0 BY <2>4, <2>5 DEF NodeIn
      <4> QED BY <1>3, <2>5, <4>1 DEF FreeSlots
    <3>2. Kept' = Kept BY <2>1, <2>2, <3>1 DEF Kept
    <3>3. seen' = {} => seen = {} BY <1>7
    <3> QED BY <1>2, <2>1, <3>2, <3>3 DEF Ways, Roomy
  <2>9. Search' /\ Following' /\ FindsFile' BY <2>1 DEF Search, Following, FindsFile
  <2> QED BY <1>8, <2>6, <2>7, <2>8, <2>9 DEF Ways
<1> QED BY <1>9, <1>10

LEMMA WaysLast == ASSUME IInv, Lawful, Ways, LookupLast PROVE Ways'
<1>1. PICK bad \in FailedReads : LET s == SlotGot(table, scan.ino, bad) IN
        /\ Note(bad, {}) /\ NoteDefect(scan.ino, s)
        /\ Leave(iso_iput(Got(table, scan.ino, bad), dir), s)
  BY DEF LookupLast
<1> DEFINE s == SlotGot(table, scan.ino, bad)
           g == Got(table, scan.ino, bad)
           n == Node(scan.ino, bad)
           t == iso_iput(g, dir)
<1>2. pc = "found" /\ Looking /\ disc' = disc /\ D' = D /\ Len(path) = 1 BY DEF LookupLast, Looking, D
<1>3. dir \in Slots /\ DOMAIN table = Slots /\ table[dir].free = 0 /\ oldinode \in Slots \union {NoSlot}
  BY <1>2 DEF IInv, InHand, SlotTypes
<1>4. sb.ok /\ Mounted /\ OnTrack(D, scan.ino) BY <1>2 DEF Lawful, Mounted, Scanning
<1>5. past \subseteq past' BY <1>1, <1>4, DefectNoted
<1>6. /\ seen \subseteq seen' /\ ("overrun" \in seen' => "overrun" \in seen)
      /\ ("part" \notin seen' => Lost(bad) = {}) /\ ("read" \notin seen' => bad = {})
  <2>1. Note(bad, {}) BY <1>1
  <2>2. /\ seen \subseteq seen' /\ ("part" \notin seen' => Lost(bad) = {})
        /\ ("read" \notin seen' => bad = {})
    BY <2>1, Noted, Failing DEF Lawful
  <2>3. "overrun" \in seen' => "overrun" \in seen BY <2>1 DEF Note
  <2> QED BY <2>2, <2>3
<1>7. LinkFits' BY <1>6, FitsMore DEF Ways
<1>8. Leave(t, s) /\ NoteDefect(scan.ino, s) BY <1>1
<1>9. /\ s # NoSlot => s \in Slots /\ table[s].free = 1 /\ g[s] = n /\ NodeIn(D, n)
      /\ \A u \in Slots : u # s => g[u] = table[u]
      /\ DOMAIN g = Slots /\ NoSlot \notin Slots
  BY <1>3, <1>4, GotIs, NoSlotNotSlot
<1> HIDE DEF g
<1>10. /\ DOMAIN t = Slots /\ t[dir].free = 1
       /\ \A u \in Slots : u # dir => t[u] = g[u]
  BY <1>3, <1>9, Put DEF NoNode
<1> HIDE DEF t
<1>11. CASE s = NoSlot
  <2>1. Leave(t, NoSlot) BY <1>8, <1>11
  <2>2. ~(seen' = {} /\ ret.room >= 3)
    <3> SUFFICES ASSUME seen' = {}, ret.room >= 3 PROVE FALSE OBVIOUS
    <3>1. bad = {} /\ seen = {} BY <1>6
    <3> DEFINE a == IF oldinode = NoSlot THEN dir ELSE oldinode
    <3>2. a \in Slots BY <1>3
    <3>3. Kept \ {dir, a} # {} BY <1>2, <1>3, <3>1, <3>2 DEF Ways, Roomy
    <3>4. PICK u \in Slots : table[u].free = 1 BY <3>3 DEF Kept, FreeSlots
    <3> QED BY <1>11, <3>1, <3>4, FirstFreeThere
  <2>3. \A u \in Slots : u # dir => t[u] = table[u] BY <1>9, <1>10, <1>11
  <2> HIDE DEF s
  <2> QED BY <1>2, <1>5, <1>7, <1>10, <2>1, <2>2, <2>3, LeaveNone
<1>12. CASE s # NoSlot
  <2>1. s \in Slots /\ s # dir /\ s # oldinode /\ ~IsOpen(s)
    <3>1. s \in Slots /\ table[s].free = 1 BY <1>9, <1>12
    <3> HIDE DEF s
    <3>2. oldinode # NoSlot => table[oldinode].free = 0 BY DEF IInv, InHand
    <3> QED BY <1>3, <1>12, <3>1, <3>2, Apart
  <2>2. \A u \in Slots : table'[u] = IF oldinode # NoSlot /\ u \in {dir, oldinode}
                                      THEN NoNode ELSE t[u]
    BY <1>2, <1>8, <1>10, LeftTableIs
  <2> HIDE DEF s, n
  <2>3. table'[s] = n /\ t[s] = n BY <1>9, <1>10, <1>12, <2>1, <2>2
  <2>4. ASSUME NEW u \in Slots, IsOpen(u) PROVE table'[u] = table[u] /\ u # s
    <3>1. u # dir /\ (oldinode # NoSlot => u # oldinode) /\ u # s BY <1>2, <2>1, <2>4, Apart
    <3> QED BY <1>9, <1>10, <2>2, <3>1
  <2> DEFINE c == Child(D, HomeAt(D, table[dir].inumber), path[1])
             y == D.rec[RecAt(D, scan.ino)]
  <2>5. ASSUME "part" \notin seen'
        PROVE  /\ Asking /\ OnChain(D, filename, c)
               /\ Whole(D, n, past') /\ HomeAt(D, n.inumber) = c /\ n.inumber = scan.ino
               /\ RecAt(D, scan.ino) \in DOMAIN D.rec
               /\ n.mode = "link" => y.link # << >> /\ ~y.dir /\ c = RecAt(D, scan.ino)
               /\ n.mode # "link" => LinkOf(D, c) = << >>
    <3>0. "part" \notin seen /\ Lost(bad) = {} BY <1>6, <2>5
    <3>1. /\ Asking /\ path \in Seq(Asked(D)) /\ path # << >>
          /\ OnChain(D, filename, Down(D, c, Tail(path)))
          /\ Leads(D, scan.ino, c)
      BY <1>2, <3>0, AtFound
    <3>2. Tail(path) = << >> BY <1>2, <3>1, TailIs
    <3>3. Down(D, c, Tail(path)) = c BY <3>2, DownEmpty
    <3> HIDE DEF c
    <3> QED BY <1>4, <1>8, <1>12, <3>0, <3>1, <3>3, LedNode DEF n
  <2> HIDE DEF c
  <2>6. CASE n.mode = "link"
    <3>1. pc' = "follow" /\ oldinode' = s /\ dir' = NoSlot /\ UNCHANGED << filename, ret, open >>
      BY <1>8, <1>12, <2>3, <2>6 DEF Leave
    <3>2. Opening' BY <1>2, <1>5, <2>4, <3>1, OpeningFrame DEF Ways
    <3>3. Following'
      <4> SUFFICES ASSUME "part" \notin seen'
                   PROVE  /\ Asking'
                          /\ Whole(D, table'[oldinode'], past') /\ table'[oldinode'].mode = "link"
                          /\ OnChain(D, filename', RecAt(D, table'[oldinode'].inumber))
        BY <1>2 DEF Following
      <4>1. table'[oldinode'] = n BY <2>3, <3>1
      <4>2. Asking' BY <1>2, <2>5, <3>1 DEF Asking
      <4> QED BY <2>5, <2>6, <3>1, <4>1, <4>2
    <3>4. Roomy'
      <4>1. Kept \subseteq Kept'
        <5>1. ASSUME NEW u \in Slots, table[u].free = 1, u # s PROVE table'[u].free = 1
          <6>1. u # dir /\ (oldinode # NoSlot => u # oldinode) BY <1>3, <5>1 DEF IInv, InHand
          <6> QED BY <1>9, <1>10, <2>2, <5>1, <6>1
        <5>2. table'[dir].free = 1 BY <1>3, <1>10, <2>2 DEF NoNode
        <5>3. oldinode # NoSlot => table'[oldinode].free = 1 BY <1>3, <2>2 DEF NoNode
        <5> QED BY <1>3, <1>12, <3>1, <5>1, <5>2, <5>3 DEF Kept, FreeSlots
      <4>2. seen' = {} => seen = {} BY <1>6
      <4> QED BY <1>2, <3>1, <4>1, <4>2 DEF Ways, Roomy
    <3>5. Way' /\ Search' /\ FindsFile' BY <3>1 DEF Way, Search, FindsFile, Looking
    <3> QED BY <1>7, <3>2, <3>3, <3>4, <3>5 DEF Ways
  <2>7. CASE n.mode # "link"
    <3>1. /\ pc' = "idle" /\ ret' = [ret EXCEPT !.val = s]
          /\ open' = [open EXCEPT ![s] = [used |-> 1, wanted |-> ret.wanted,
                                          ino |-> t[s].inumber, part |-> "part" \in seen']]
      BY <1>8, <1>12, <2>3, <2>7 DEF Leave
    <3>2. ret'.val = s
      <4>1. ret = [call |-> "open", wanted |-> ret.wanted, val |-> ret.val, room |-> ret.room]
        BY <1>2 DEF Lawful, Reading
      <4>2. ret' = [call |-> "open", wanted |-> ret.wanted, val |-> s, room |-> ret.room]
        BY <3>1, <4>1
      <4> QED BY <4>2
    <3>3. FindsFile' BY <1>12, <3>2 DEF FindsFile
    <3>4. DOMAIN open = Slots BY DEF IInv, SlotTypes
    <3> DEFINE new == [used |-> 1, wanted |-> ret.wanted,
                       ino |-> t[s].inumber, part |-> "part" \in seen']
    <3>5. open'[s] = new /\ \A u \in Slots : u # s => open'[u] = open[u] BY <2>1, <3>1, <3>4
    <3>6. new.wanted = ret.wanted BY Zenon
    <3>7. ~new.part => "part" \notin seen' BY Zenon
    <3> HIDE DEF new
    <3>8. Opening'
      <4> SUFFICES ASSUME NEW u \in Slots, IsOpen(u)', ~open'[u].part
                   PROVE  /\ Whole(D, table'[u], past') /\ table'[u].mode # "link"
                          /\ HomeAt(D, table'[u].inumber) = open'[u].wanted
        BY <1>2 DEF Opening
      <4>1. CASE u = s
        <5>1. "part" \notin seen' BY <3>5, <3>7, <4>1
        <5>2. c = Target(D, filename) BY <2>5, <2>7, <5>1, EndsThere
        <5>3. open'[u].wanted = c BY <2>5, <3>5, <3>6, <4>1, <5>1, <5>2 DEF Asking
        <5> QED BY <2>3, <2>5, <2>7, <4>1, <5>1, <5>3
      <4>2. CASE u # s
        <5>1. open'[u] = open[u] BY <3>5, <4>2
        <5>2. IsOpen(u) /\ ~open[u].part BY <5>1 DEF IsOpen
        <5>3. table'[u] = table[u] BY <2>4, <5>2
        <5> QED BY <1>5, <5>1, <5>2, <5>3, WholeMore DEF Ways, Opening
      <4> QED BY <4>1, <4>2
    <3> QED BY <1>7, <3>1, <3>3, <3>8, WaysOut
  <2> QED BY <2>6, <2>7
<1> QED BY <1>11, <1>12

(* The root's inode, read with or without a defect noted before. *)
LEMMA RootNode ==
  ASSUME Mounted, sb.ok, NEW bad, Lost(bad) = {}, NEW trouble, past \subseteq trouble
  PROVE  LET n == Node(sb.root_inode, bad) IN
         /\ Whole(D, n, trouble) /\ n.mode = "dir" /\ HomeAt(D, n.inumber) = RootRec(D)
<1> DEFINE ino == sb.root_inode
           n == Node(ino, bad)
           y == D.rec[RootRec(D)]
           f == TypeAndSize(ReadRec(D, ino), Rock(D), D.area, cruft, {})
<1>1. Good(D) /\ cruft \in BOOLEAN /\ (cruft => "defect" \in trouble) /\ ino = RootPlace(D)
  BY GoodDisc DEF Mounted
<1>2. /\ OnTrack(D, ino) /\ D.cell[ino + 1] # << >> /\ RootRec(D) \in DOMAIN D.rec /\ y.dir
      /\ RecAt(D, ino) = RootRec(D)
  BY <1>1, Rooted
<1>3. n.inumber = ino /\ n.mode = f.mode /\ n.size = f.size
  <2> DEFINE g == TypeAndSize(ReadRec(D, ino), Rock(D), D.area, cruft, Lost(bad))
  <2> HIDE DEF ino
  <2>1. n.inumber = ino /\ n.mode = g.mode /\ n.size = g.size BY <1>2, NodeIs
  <2>2. g = f OBVIOUS
  <2> QED BY <2>1, <2>2
<1>4. ~Defective(y)
  <2>1. y.size <= CruftLimit /\ y.size \in Nat BY <1>1, <1>2, DirFacts, Recorded
  <2> QED BY <2>1, SizesAssumption DEF Defective
<1> HIDE DEF n
<1>5. Whole(D, n, trouble) BY <1>1, <1>2, <1>3, <1>4, WholeRead
<1>6. y.link = << >> BY <1>1, <1>2, Linked
<1>7. n.mode = "dir" BY <1>2, <1>3, <1>5, <1>6 DEF Whole, RecAt
<1>8. HomeAt(D, n.inumber) = RootRec(D) BY <1>1, <1>2, <1>3, RootIsHome DEF HomeAt
<1> QED BY <1>5, <1>7, <1>8 DEF n

LEMMA SlotsFinite == IsFiniteSet(FreeSlots(table))
<1>1. IsFiniteSet(Slots) BY SlotsAssumption, FS_Interval DEF Slots
<1>2. FreeSlots(table) \subseteq Slots BY DEF FreeSlots
<1> QED BY <1>1, <1>2, FS_Subset

LEMMA WaysOpen == ASSUME IInv, Lawful, Ways, NEW name \in Requests, iso_open(name) PROVE Ways'
<1>1. PICK bad \in FailedReads : LET s == SlotGot(table, sb.root_inode, bad) IN
        /\ bad \subseteq {"inode"}
        /\ seen' = IF bad = {} THEN {} ELSE {"read"}
        /\ NoteDefect(sb.root_inode, s)
        /\ IF s = NoSlot \/ Node(sb.root_inode, bad).mode # "dir"
           THEN UNCHANGED << table, pc, openvars >>
           ELSE /\ table' = Got(table, sb.root_inode, bad)
                /\ pc' = "look" /\ dir' = s /\ path' = Split(name) /\ filename' = name
                /\ UNCHANGED << root, oldinode, scan >>
  BY DEF iso_open
<1> DEFINE s == SlotGot(table, sb.root_inode, bad)
           g == Got(table, sb.root_inode, bad)
           n == Node(sb.root_inode, bad)
<1>2. /\ pc = "idle" /\ sb.ok /\ disc' = disc /\ D' = D /\ open' = open
      /\ ret' = [call |-> "open", wanted |-> Target(D, name), val |-> NoSlot,
                 room |-> Cardinality(FreeSlots(table))]
  BY DEF iso_open, D
<1>3. ret'.call = "open" /\ ret'.wanted = Target(D, name) /\ ret'.room = Cardinality(FreeSlots(table))
  BY <1>2
<1>4. Mounted /\ Good(D) /\ OnTrack(D, sb.root_inode)
  <2>1. Mounted BY DEF Lawful
  <2>2. Good(D) BY <1>2, <2>1, GoodDisc
  <2> QED BY <1>2, <2>1, <2>2, Rooted DEF Mounted
<1>5. past \subseteq past' BY <1>1, <1>2, <1>4, DefectNoted
<1>6. LinkFits' BY <1>1 DEF LinkFits
<1>7. DOMAIN table = Slots /\ oldinode = NoSlot /\ NoSlot \notin Slots
  BY <1>2, NoSlotNotSlot DEF IInv, SlotTypes, InHand
<1>8. CASE s = NoSlot \/ n.mode # "dir"
  <2>1. UNCHANGED << table, pc, openvars >> BY <1>1, <1>8
  <2>2. Opening' BY <1>2, <1>5, <2>1, OpeningFrame DEF Ways
  <2>3. FindsFile'
    <3> SUFFICES ASSUME seen' = {}, ret'.room >= 3 PROVE FALSE BY DEF FindsFile
    <3>1. bad = {} BY <1>1
    <3>2. Lost(bad) = {} BY <3>1 DEF Lost
    <3>3. n.mode = "dir" BY <1>2, <1>4, <3>2, RootNode
    <3>4. FreeSlots(table) \ {0, 0} # {} BY <1>3, SlotsFinite, ThreeFree
    <3>5. PICK u \in Slots : table[u].free = 1 BY <3>4 DEF FreeSlots
    <3>6. s # NoSlot BY <3>1, <3>5, FirstFreeThere
    <3> QED BY <1>8, <3>3, <3>6
  <2> QED BY <1>2, <1>6, <2>1, <2>2, <2>3, WaysOut
<1>9. CASE ~(s = NoSlot \/ n.mode # "dir")
  <2>1. /\ table' = g /\ pc' = "look" /\ dir' = s /\ path' = Split(name) /\ filename' = name
        /\ UNCHANGED << root, oldinode, scan >>
    BY <1>1, <1>9
  <2>2. bad = {} BY <1>1, <1>9 DEF SlotGot
  <2>3. Lost(bad) = {} BY <2>2 DEF Lost
  <2>4. /\ s \in Slots /\ table[s].free = 1 /\ g[s] = n
        /\ \A u \in Slots : u # s => g[u] = table[u]
    BY <1>2, <1>4, <1>7, <1>9, GotIs
  <2>5. Whole(D, n, past') /\ HomeAt(D, n.inumber) = RootRec(D)
    BY <1>2, <1>4, <1>5, <2>3, RootNode
  <2> HIDE DEF s, g, n
  <2>6. Opening'
    <3>1. ASSUME NEW u \in Slots, IsOpen(u) PROVE table'[u] = table[u]
      BY <2>1, <2>4, <3>1, Apart
    <3> QED BY <1>2, <1>5, <3>1, OpeningFrame DEF Ways
  <2>7. Way'
    <3>1. Asking' BY <1>2, <1>3, <2>1 DEF Asking
    <3>2. IsSeq(name) BY <1>4 DEF Good, Sound, ChainSound
    <3>3. path' \in Seq(Asked(D)) /\ path' # << >> BY <2>1, <3>2, PartsAsked
    <3>4. Whole(D, table'[dir'], past') BY <2>1, <2>4, <2>5
    <3>5. Down(D, HomeAt(D, table'[dir'].inumber), path') = Reached(D, Split(name))
      BY <2>1, <2>4, <2>5 DEF Reached
    <3>6. Chain(D, name)[0] = Split(name) BY ChainIs
    <3>7. 0 \in 0 .. MaxHops BY SizesAssumption
    <3>8. OnChain(D, name, Reached(D, Split(name))) BY <3>6, <3>7 DEF OnChain
    <3> QED BY <1>2, <2>1, <3>1, <3>3, <3>4, <3>5, <3>8 DEF Way
  <2>8. Roomy'
    <3> SUFFICES ASSUME ret'.room >= 3, NEW a \in Slots, NEW b \in Slots PROVE Kept' \ {a, b} # {}
      BY DEF Roomy
    <3>1. FreeSlots(table) \ {a, b} # {} BY <1>3, SlotsFinite, ThreeFree
    <3>2. FreeSlots(table) \subseteq Kept' BY <1>7, <2>1, <2>4 DEF FreeSlots, Kept
    <3> QED BY <3>1, <3>2
  <2>9. Search' /\ Following' /\ FindsFile' BY <2>1 DEF Search, Following, FindsFile
  <2> QED BY <1>6, <2>6, <2>7, <2>8, <2>9 DEF Ways
<1> QED BY <1>8, <1>9

(* The text of the link that is followed. *)
LEMMA AtFollow ==
  ASSUME IInv, Lawful, Ways, pc = "follow", "part" \notin seen, NEW bad, Lost(bad) = {}
  PROVE  LET n == table[oldinode]
             x == RecAt(D, n.inumber)
             link == D.rec[x].link
         IN /\ Asking /\ Good(D) /\ x \in DOMAIN D.rec /\ OnChain(D, filename, x)
            /\ link # << >> /\ IsSeq(link) /\ link # NoText
            /\ n.size = Len(link) /\ n.size \in Nat \ {0}
            /\ LinkText(bad) = IF "link" \in bad THEN NoText ELSE link
<1> DEFINE n == table[oldinode]
           ino == n.inumber
           x == RecAt(D, ino)
           y == D.rec[x]
<1>1. Asking /\ Whole(D, n, past) /\ n.mode = "link" /\ OnChain(D, filename, x) BY DEF Ways, Following
<1>2. sb.ok /\ NodeIn(D, n)
  <2>1. oldinode \in Slots /\ table[oldinode].free = 0 BY NoSlotNotSlot DEF IInv, InHand
  <2> QED BY <2>1, HeldNode DEF Lawful
<1>3. Good(D) BY <1>2, GoodDisc DEF Lawful
<1>4. D.cell[ino + 1] # << >> BY <1>1, Zenon DEF Whole
<1>5. x \in DOMAIN D.rec /\ ReadRec(D, ino) = y BY <1>2, <1>3, <1>4, ReadIs DEF NodeIn
<1>6. y.link # << >> BY <1>1, Zenon DEF Whole, RecAt
<1>7. IsSeq(y.link) /\ y.link # NoText /\ ~y.dir /\ get_rock_ridge_symlink(y.su, D.area, {}) = y.link
  BY <1>3, <1>5, <1>6, Linked
<1>8. n.size = Len(y.link) BY <1>1, <1>6, Zenon DEF Whole, RecAt
<1>9. Len(y.link) \in Nat \ {0}
  <2> DEFINE l == y.link
             S == {l[i] : i \in DOMAIN l}
  <2>1. l \in Seq(S) /\ l # << >> BY <1>6, <1>7 DEF IsSeq
  <2> HIDE DEF l, S
  <2>2. Len(l) \in Nat \ {0} BY <2>1, EmptySeq
  <2> QED BY <2>2 DEF l
<1>10. (ino % SectorCells) + y.len <= SectorCells BY <1>1, <1>7, Zenon DEF Whole, RecAt
<1>11. ~((ino % SectorCells) + y.len > SectorCells)
  <2>1. OnTrack(D, ino) /\ Len(D.cell) \in Nat BY <1>2, <1>3, Celled DEF NodeIn
  <2>2. ino \in Nat /\ SectorCells \in Nat \ {0} BY <2>1, Cellular DEF OnTrack
  <2>3. ino % SectorCells \in Nat BY <2>2, DivMod
  <2>4. y.len \in Nat BY <1>3, <1>5, Recorded
  <2> HIDE DEF ino, y
  <2> QED BY <1>10, <2>2, <2>3, <2>4
<1>12. RecordAt(ino) = y BY <1>5, ReadAt
<1>13. LinkText(bad) = IF "link" \in bad THEN NoText ELSE y.link
  <2> HIDE DEF y
  <2> QED BY <1>7, <1>11, <1>12 DEF LinkText
<1> QED BY <1>1, <1>3, <1>5, <1>6, <1>7, <1>8, <1>9, <1>13

LEMMA WaysFollow == ASSUME IInv, Lawful, Ways, iso_follow_link PROVE Ways'
<1> DEFINE n == table[oldinode]
           Link(text) == SubSeq(text, 1, IF Len(text) < n.size THEN Len(text) ELSE n.size)
<1>1. PICK bad \in FailedReads :
        LET s == SlotGot(table, sb.root_inode, bad)
            t == Got(table, sb.root_inode, bad)
            text == LinkText(bad)
            link == Link(text)
        IN \/ /\ n.size = 0 \/ text = NoText
              /\ Note(bad, {}) /\ table' = iso_iput(t, oldinode) /\ pc' = "idle"
              /\ past \subseteq past' /\ ret' = [ret EXCEPT !.val = NoSlot]
           \/ /\ n.size # 0 /\ text # NoText
              /\ Note(bad, IF Len(text) > n.size THEN {"overrun"} ELSE {})
              /\ table' = t /\ dir' = s
              /\ path' = Split(IF link[1] = "/" THEN link ELSE DirName(filename) \o link)
              /\ pc' = IF s = NoSlot THEN "dead" ELSE "look"
              /\ UNCHANGED << filename, oldinode, ret, past >>
  BY Zenon DEF iso_follow_link
<1> DEFINE s == SlotGot(table, sb.root_inode, bad)
           t == Got(table, sb.root_inode, bad)
           text == LinkText(bad)
           link == Link(text)
           what == IF Len(text) > n.size THEN {"overrun"} ELSE {}
<1>2. pc = "follow" /\ disc' = disc /\ D' = D /\ open' = open BY DEF iso_follow_link, D
<1>3. sb.ok /\ Mounted /\ OnTrack(D, sb.root_inode)
  <2>1. Mounted /\ sb.ok BY <1>2 DEF Lawful, Mounted
  <2>2. Good(D) BY <2>1, GoodDisc
  <2> QED BY <2>1, <2>2, Rooted DEF Mounted
<1>4. /\ dir = NoSlot /\ oldinode \in Slots /\ NoSlot \notin Slots
      /\ table[oldinode].free = 0 /\ ~IsOpen(oldinode) /\ DOMAIN table = Slots
  BY <1>2, NoSlotNotSlot DEF IInv, InHand, Looking, SlotTypes
<1>5. /\ s # NoSlot => s \in Slots /\ table[s].free = 1 /\ t[s] = Node(sb.root_inode, bad)
      /\ \A u \in Slots : u # s => t[u] = table[u]
      /\ DOMAIN t = Slots
  BY <1>3, <1>4, GotIs
<1>6. past \subseteq past' BY <1>1
<1>7. ASSUME NEW u \in Slots, IsOpen(u) PROVE table'[u] = table[u]
  <2>1. u # oldinode /\ table[u].free = 0 BY <1>4, <1>7, Apart
  <2>2. table' = iso_iput(t, oldinode) \/ table' = t BY <1>1
  <2> HIDE DEF s, t
  <2>3. u # s BY <1>4, <1>5, <2>1
  <2>4. t[u] = table[u] BY <1>5, <2>3
  <2> QED BY <1>5, <2>1, <2>2, <2>4, Put
<1>8. Opening' BY <1>2, <1>6, <1>7, OpeningFrame DEF Ways
<1>9. CASE /\ n.size = 0 \/ text = NoText
           /\ Note(bad, {}) /\ pc' = "idle" /\ ret' = [ret EXCEPT !.val = NoSlot]
  <2>1. /\ seen \subseteq seen' /\ ("read" \notin seen' => bad = {})
        /\ ("part" \notin seen' => Lost(bad) = {})
    BY <1>9, Noted, Failing DEF Lawful
  <2>2. "overrun" \in seen' => "overrun" \in seen BY <1>9 DEF Note
  <2>3. LinkFits' BY <2>1, <2>2, FitsMore DEF Ways
  <2>4. seen' # {}
    <3> SUFFICES ASSUME seen' = {} PROVE FALSE OBVIOUS
    <3>1. bad = {} /\ Lost(bad) = {} /\ "part" \notin seen BY <2>1
    <3>2. /\ n.size \in Nat \ {0} /\ LinkText(bad) # NoText
      BY <1>2, <3>1, AtFollow
    <3> QED BY <1>9, <3>2
  <2>5. FindsFile' BY <2>4 DEF FindsFile
  <2> QED BY <1>8, <1>9, <2>3, <2>5, WaysOut
<1>10. CASE /\ n.size # 0 /\ text # NoText /\ Note(bad, what)
            /\ table' = t /\ dir' = s
            /\ path' = Split(IF link[1] = "/" THEN link ELSE DirName(filename) \o link)
            /\ pc' = IF s = NoSlot THEN "dead" ELSE "look"
            /\ UNCHANGED << filename, oldinode, ret, past >>
  <2>0. what \subseteq {"part", "overrun"} OBVIOUS
  <2>1. /\ seen \subseteq seen' /\ ("read" \notin seen' => bad = {})
        /\ ("part" \notin seen' => Lost(bad) = {})
    BY <1>10, <2>0, Noted, Failing DEF Lawful
  <2> DEFINE x == RecAt(D, n.inumber)
             l == D.rec[x].link
  <2>2. ASSUME "part" \notin seen'
        PROVE  /\ Asking /\ Good(D) /\ x \in DOMAIN D.rec /\ OnChain(D, filename, x)
               /\ l # << >> /\ text = l /\ link = l /\ what = {}
    <3>1. Lost(bad) = {} /\ "part" \notin seen BY <2>1, <2>2
    <3>2. /\ Asking /\ Good(D) /\ x \in DOMAIN D.rec /\ OnChain(D, filename, x)
          /\ l # << >> /\ IsSeq(l) /\ n.size = Len(l) /\ n.size \in Nat \ {0}
          /\ LinkText(bad) = IF "link" \in bad THEN NoText ELSE l
      BY <1>2, <3>1, AtFollow
    <3>3. text = l BY <1>10, <3>2, Zenon
    <3> HIDE DEF text, n, l
    <3>4. Len(text) = n.size /\ ~(n.size < n.size) /\ ~(n.size > n.size) BY <3>2, <3>3
    <3>5. SubSeq(l, 1, Len(l)) = l
      <4> DEFINE S == {l[i] : i \in DOMAIN l}
      <4>1. l \in Seq(S) BY <3>2 DEF IsSeq
      <4> HIDE DEF S
      <4> QED BY <4>1, Prefix
    <3>6. link = l BY <3>2, <3>3, <3>4, <3>5
    <3>7. what = {} BY <3>3, <3>4
    <3> QED BY <3>2, <3>3, <3>6, <3>7
  <2>3. LinkFits'
    <3>1. CASE "part" \in seen' BY <3>1 DEF LinkFits
    <3>2. CASE "part" \notin seen'
      <4>1. Note(bad, {}) BY <1>10, <2>2, <3>2
      <4>2. "overrun" \in seen' => "overrun" \in seen BY <4>1 DEF Note
      <4> QED BY <2>1, <4>2, FitsMore DEF Ways
    <3> QED BY <3>1, <3>2
  <2>4. FindsFile' BY <1>10 DEF FindsFile
  <2>5. CASE s = NoSlot BY <1>8, <1>10, <2>3, <2>4, <2>5, WaysOut
  <2>6. CASE s # NoSlot
    <3>1. pc' = "look" BY <1>10, <2>6
    <3>2. Way'
      <4> SUFFICES ASSUME "part" \notin seen'
                   PROVE  /\ Asking'
                          /\ path' \in Seq(Asked(D)) /\ path' # << >>
                          /\ Whole(D, table'[dir'], past')
                          /\ OnChain(D, filename', Down(D, HomeAt(D, table'[dir'].inumber), path'))
        BY <1>2 DEF Way
      <4>1. Lost(bad) = {} BY <2>1
      <4>2. /\ Asking /\ Good(D) /\ x \in DOMAIN D.rec /\ OnChain(D, filename, x)
            /\ l # << >> /\ link = l
        BY <2>2
      <4>3. path' = Split(IF l[1] = "/" THEN l ELSE DirName(filename) \o l) BY <1>10, <4>2
      <4>4. filename \in Requests BY <4>2 DEF Asking
      <4>5. /\ path' \in Seq(Asked(D)) /\ path' # << >>
            /\ OnChain(D, filename, Reached(D, path'))
        <5> HIDE DEF x
        <5> QED BY <4>2, <4>3, <4>4, HopsOn
      <4>6. table'[dir'] = Node(sb.root_inode, bad) BY <1>5, <1>10, <2>6
      <4>7. Whole(D, table'[dir'], past') /\ HomeAt(D, table'[dir'].inumber) = RootRec(D)
        BY <1>3, <1>6, <4>1, <4>6, RootNode
      <4>8. Asking' BY <1>2, <1>10, <4>2 DEF Asking
      <4> QED BY <1>10, <4>5, <4>7, <4>8 DEF Reached
    <3>3. Roomy'
      <4>1. Kept \subseteq Kept' BY <1>4, <1>5, <1>10, <2>6 DEF Kept, FreeSlots
      <4>2. seen' = {} => seen = {} BY <2>1
      <4> QED BY <1>2, <1>10, <4>1, <4>2 DEF Ways, Roomy
    <3>4. Search' /\ Following' BY <3>1 DEF Search, Following
    <3> QED BY <1>8, <2>3, <2>4, <3>2, <3>3, <3>4 DEF Ways
  <2> QED BY <2>5, <2>6
<1> QED BY <1>1, <1>9, <1>10

LEMMA WaysMount == ASSUME IInv, Lawful, Ways, iso_mount PROVE Ways'
<1>1. /\ pc' = "idle" /\ open' = [s \in Slots |-> NoFile] /\ ret'.call = "mount"
      /\ "overrun" \in seen' => "overrun" \in seen
      /\ seen \subseteq seen'
  BY DEF iso_mount, NoRet, Note
<1>2. Opening' BY <1>1 DEF Opening, IsOpen, NoFile
<1>3. LinkFits' BY <1>1, FitsMore DEF Ways
<1>4. FindsFile' BY <1>1 DEF FindsFile
<1> QED BY <1>1, <1>2, <1>3, <1>4, WaysOut

LEMMA WaysClose == ASSUME IInv, Lawful, Ways, NEW fd \in Slots, iso_close(fd) PROVE Ways'
<1>1. /\ pc' = "idle" /\ open' = [open EXCEPT ![fd] = NoFile] /\ ret'.call = "close"
      /\ table' = iso_iput(table, fd) /\ seen' = seen /\ past' = past /\ disc' = disc
  BY DEF iso_close, NoRet
<1>2. D' = D BY <1>1 DEF D
<1>3. DOMAIN table = Slots /\ DOMAIN open = Slots BY DEF IInv, SlotTypes
<1>4. ASSUME NEW s \in Slots, IsOpen(s)', ~open'[s].part
      PROVE  /\ Whole(D, table'[s], past') /\ table'[s].mode # "link"
             /\ HomeAt(D, table'[s].inumber) = open'[s].wanted
  <2>1. open'[s].used = 1 BY <1>4 DEF IsOpen
  <2>2. s # fd /\ open'[s] = open[s] BY <1>1, <1>3, <2>1 DEF NoFile
  <2>3. table'[s] = table[s] BY <1>1, <1>3, <2>2, Put
  <2>4. IsOpen(s) /\ ~open[s].part BY <1>4, <2>1, <2>2 DEF IsOpen
  <2> QED BY <1>1, <2>2, <2>3, <2>4 DEF Ways, Opening
<1>5. Opening' BY <1>2, <1>4 DEF Opening
<1>6. LinkFits' BY <1>1 DEF Ways, LinkFits
<1>7. FindsFile' BY <1>1 DEF FindsFile
<1> QED BY <1>1, <1>5, <1>6, <1>7, WaysOut

(* Calls that only look at the open files. *)
LEMMA WaysStill ==
  ASSUME Ways, UNCHANGED << disc, table, open, past >>, pc' \in {"idle", "list", "dead"},
         LinkFits', pc' = "idle" => ret'.call # "open"
  PROVE  Ways'
<1>1. Opening' BY OpeningFrame DEF Ways
<1>2. FindsFile' BY DEF FindsFile
<1> QED BY <1>1, <1>2, WaysOut

LEMMA WaysRead ==
  ASSUME IInv, Lawful, Ways, NEW fd \in Slots,
         \/ iso_fstat(fd) \/ ListStart(fd)
         \/ \E blkno \in 0 .. MaxBlkno, nblks \in 1 .. MaxRun : iso_bread(fd, blkno, nblks)
  PROVE  Ways'
<1>1. CASE iso_fstat(fd)
  <2>1. /\ UNCHANGED << disc, table, open, past, seen >> /\ pc' = "idle" /\ ret'.call = "fstat"
    BY <1>1 DEF iso_fstat
  <2>2. LinkFits' BY <2>1 DEF Ways, LinkFits
  <2> QED BY <2>1, <2>2, WaysStill
<1>2. CASE ListStart(fd)
  <2>1. /\ UNCHANGED << disc, table, open, past >> /\ pc' \in {"idle", "list"}
        /\ seen' \subseteq {"read"} /\ (pc' = "idle" => ret'.call = "list")
    BY <1>2 DEF ListStart
  <2>2. LinkFits' BY <2>1 DEF LinkFits
  <2> QED BY <2>1, <2>2, WaysStill
<1>3. CASE \E blkno \in 0 .. MaxBlkno, nblks \in 1 .. MaxRun : iso_bread(fd, blkno, nblks)
  <2>1. /\ UNCHANGED << disc, table, open, past, seen >> /\ pc' = "idle" /\ ret'.call = "bread"
    BY <1>3 DEF iso_bread
  <2>2. LinkFits' BY <2>1 DEF Ways, LinkFits
  <2> QED BY <2>1, <2>2, WaysStill
<1> QED BY <1>1, <1>2, <1>3

LEMMA WaysReaddir == ASSUME IInv, Lawful, Ways, iso_readdir PROVE Ways'
<1>1. pc = "list" /\ UNCHANGED << disc, table, open, past >> BY DEF iso_readdir
<1>2. ASSUME NEW blk, NEW off, NEW pos, ListRecord(blk, off, pos)
      PROVE  /\ pc' \in {"idle", "list"} /\ (pc' = "idle" => ret'.call = "list")
             /\ \E bad : Note(bad, {})
  <2>1. \/ pc' = "idle" /\ ret'.call = "list"
        \/ UNCHANGED << pc, ret >>
    BY <1>2 DEF ListRecord, EndOfList
  <2>2. \E bad : Note(bad, {}) BY <1>2 DEF ListRecord
  <2> QED BY <1>1, <2>1, <2>2
<1>3. /\ pc' \in {"idle", "list"} /\ (pc' = "idle" => ret'.call = "list")
      /\ \E bad : Note(bad, {})
  <2> DEFINE next == SectorAfter(ls.diroffset)
             b == iso_bmap(table[ls.fd], next \div BlockCells)
  <2>1. \/ ListRecord(data_block, ls.blockoffset, ls.diroffset)
        \/ ListRecord(Block(b), 0, next)
        \/ EndOfList(ls.names) /\ \E bad : Note(bad, {})
    BY Zenon DEF iso_readdir
  <2>2. CASE EndOfList(ls.names) /\ \E bad : Note(bad, {})
    BY <2>2 DEF EndOfList
  <2> QED BY <1>2, <2>1, <2>2
<1>4. PICK bad : Note(bad, {}) BY <1>3
<1>5. LinkFits' BY <1>4, FitsMore DEF Note, Ways
<1> QED BY <1>1, <1>3, <1>5, WaysStill

LEMMA WaysNext == ASSUME IInv, Lawful, Ways, [Next]_vars PROVE Ways'
<1>1. CASE FindStart BY <1>1, WaysFindStart
<1>2. CASE iso_find_entry BY <1>2, WaysScanEnd, WaysScanSector, WaysScanRecord DEF iso_find_entry
<1>3. CASE LookupMissing BY <1>3, WaysMissing
<1>4. CASE LookupDir BY <1>4, WaysDir
<1>5. CASE LookupLast BY <1>5, WaysLast
<1>6. CASE iso_follow_link BY <1>6, WaysFollow
<1>7. CASE iso_readdir BY <1>7, WaysReaddir
<1>8. CASE iso_mount BY <1>8, WaysMount
<1>9. ASSUME NEW name \in Requests, iso_open(name) PROVE Ways' BY <1>9, WaysOpen
<1>10. ASSUME NEW fd \in Slots,
              \/ iso_close(fd) \/ iso_fstat(fd) \/ ListStart(fd)
              \/ \E blkno \in 0 .. MaxBlkno, nblks \in 1 .. MaxRun : iso_bread(fd, blkno, nblks)
       PROVE  Ways'
  BY <1>10, WaysClose, WaysRead
<1>11. CASE UNCHANGED vars
  <2>1. /\ UNCHANGED << disc, table, pc, filename, path, dir, oldinode, scan, ret, open, seen, past >>
    BY <1>11 DEF vars, openvars
  <2>2. D' = D BY <2>1 DEF D
  <2> QED BY <2>1, <2>2 DEF Ways, Way, Search, Following, Opening, Roomy, LinkFits, FindsFile,
             Looking, Asking, IsOpen, Kept
<1> QED BY <1>1, <1>2, <1>3, <1>4, <1>5, <1>6, <1>7, <1>8, <1>9, <1>10, <1>11
        DEF Next, Driver, User, Rest

LEMMA InitWays == Init => Ways
<1> SUFFICES ASSUME Init PROVE Ways OBVIOUS
<1>1. pc = "idle" /\ seen = {} /\ ret.call = "none" /\ open = [s \in Slots |-> NoFile]
  BY DEF Init, NoRet
<1>2. Opening BY <1>1 DEF Opening, IsOpen, NoFile
<1> QED BY <1>1, <1>2 DEF Ways, Way, Search, Following, Roomy, LinkFits, FindsFile, Looking

LEMMA WaysInvariance == Spec => [](IInv /\ Lawful /\ Ways)
<1>1. IInv /\ Lawful /\ Ways /\ [Next]_vars => (IInv /\ Lawful /\ Ways)'
  BY NextInv, MountedNext, ScanningNext, CountsNext, ReadingNext, WaysNext DEF Lawful
<1> QED BY <1>1, InitInv, InitLawful, InitWays, PTL DEF Spec

(* The inode in the slot of an open file, and the record that was named. *)
LEMMA OpenFile ==
  ASSUME IInv, Lawful, Ways, NEW s \in Slots, IsOpen(s), ~open[s].part
  PROVE  LET r == open[s].wanted
             x == RecAt(D, table[s].inumber)
         IN /\ Good(D) /\ NodeIn(D, table[s]) /\ Whole(D, table[s], past) /\ table[s].mode # "link"
            /\ x \in DOMAIN D.rec /\ table[s].first_extent = Place(D, x)
            /\ r = Home(D, x) /\ r \in DOMAIN D.rec
<1> DEFINE n == table[s]
           x == RecAt(D, n.inumber)
           r == open[s].wanted
<1>1. table[s].free = 0 BY DEF IInv, Opened
<1>2. Mounted BY DEF Lawful
<1>3. sb.ok /\ NodeIn(D, n) BY <1>1, <1>2, HeldNode
<1>4. Good(D) BY <1>2, <1>3, GoodDisc
<1>5. Whole(D, n, past) /\ n.mode # "link" /\ HomeAt(D, n.inumber) = r BY DEF Ways, Opening
<1>6. D.cell[n.inumber + 1] # << >> BY <1>5, Zenon DEF Whole
<1>7. x \in DOMAIN D.rec /\ n.first_extent = Place(D, x) BY <1>3, <1>4, <1>6, ReadIs DEF NodeIn
<1>8. r = Home(D, x) BY <1>5 DEF HomeAt
<1>9. r \in DOMAIN D.rec BY <1>4, <1>7, <1>8, HomeIs
<1> QED BY <1>3, <1>4, <1>5, <1>7, <1>8, <1>9

LEMMA OpensRightThere == ASSUME IInv, Lawful, Ways PROVE OpensRight
<1>1. NamedFile
  <2> SUFFICES ASSUME NEW s \in Slots, IsOpen(s), ~open[s].part
               PROVE  /\ open[s].wanted # NoRec
                      /\ table[s].first_extent = Place(D, open[s].wanted)
    BY DEF NamedFile
  <2> DEFINE x == RecAt(D, table[s].inumber)
  <2>1. /\ Good(D) /\ x \in DOMAIN D.rec /\ table[s].first_extent = Place(D, x)
        /\ open[s].wanted = Home(D, x) /\ open[s].wanted \in DOMAIN D.rec
    BY OpenFile
  <2> HIDE DEF x
  <2>2. Place(D, Home(D, x)) = Place(D, x) BY <2>1, HomeIs
  <2>3. open[s].wanted # NoRec BY <2>1, Recorded
  <2> QED BY <2>1, <2>2, <2>3
<1> QED BY <1>1, Typed DEF OpensRight, Ways

LEMMA SizesKept == ASSUME IInv, Lawful, Ways PROVE SizeKept
<1> SUFFICES ASSUME NEW s \in Slots, IsOpen(s), ~open[s].part, "defect" \notin past
             PROVE  LET r == D.rec[open[s].wanted] IN
                    table[s].size = IF r.interleave THEN 0 ELSE r.size
  BY DEF SizeKept
<1> DEFINE n == table[s]
           x == RecAt(D, n.inumber)
           h == open[s].wanted
<1>1. /\ Good(D) /\ Whole(D, n, past) /\ n.mode # "link" /\ x \in DOMAIN D.rec
      /\ h = Home(D, x) /\ h \in DOMAIN D.rec
  BY OpenFile
<1>2. D.rec[x].link = << >> BY <1>1, Zenon DEF Whole, RecAt
<1>3. n.size = IF D.rec[x].interleave THEN 0 ELSE D.rec[x].size
  BY <1>1, <1>2, Zenon DEF Whole, RecAt
<1> HIDE DEF n, x, h
<1>4. CASE ~D.rec[x].dir
  <2>1. h = x BY <1>1, <1>4, HomeIs
  <2> QED BY <1>3, <2>1 DEF n, h
<1>5. CASE D.rec[x].dir
  <2>1. D.rec[h].size = D.rec[x].size /\ D.rec[h].dir BY <1>1, <1>5, HomeIs
  <2>2. ~D.rec[h].interleave /\ ~D.rec[x].interleave BY <1>1, <1>5, <2>1, DirFacts
  <2> QED BY <1>3, <2>1, <2>2 DEF n, h
<1> QED BY <1>4, <1>5

(* iso_open opens the file that the name stands for and nothing else, and   *)
(* does open it when no read fails and three slots are free; a link's text  *)
(* fits the buffer allocated for it.                                        *)
THEOREM OpensTheNamedFile == Spec => []OpensRight
<1>1. IInv /\ Lawful /\ Ways => OpensRight BY OpensRightThere
<1> QED BY <1>1, WaysInvariance, PTL

(* iso_bread reads all that the file has of the range asked for, and a file *)
(* keeps its size until a defective record is met.                          *)
THEOREM ReadsTheWholeFile == Spec => []ReadsRight
<1>1. ASSUME IInv, Lawful, Ways PROVE ReadsRight
  <2>1. ReadCovers BY <1>1 DEF Lawful, Reading, ReadCovers
  <2> QED BY <1>1, <2>1, SizesKept DEF ReadsRight
<1> QED BY <1>1, WaysInvariance, PTL
-----------------------------------------------------------------------------
(*** Listings ***)

(* The name of the record at p, in its place. *)
NameIn(d, r, names, p) ==
  LET k == Cardinality({q \in Listed(d, r) : q <= p})
      m == CellOf(d, r, p)[1]
  IN k \in 1 .. Len(names) /\ (names[k] \in d.rec[m].known \/ FarName(d, m))

(* The names of the records before pos, and no other. *)
NamesBefore(d, r, names, pos) ==
  LET v == Listed(d, r) IN
  /\ IsSeq(names) /\ Len(names) = Cardinality({q \in v : q < pos})
  /\ \A p \in v : p < pos => NameIn(d, r, names, p)

(* What stays of the names behind a place where bytes are lost. *)
NamesKept(d, r, names) ==
  /\ IsSeq(names) /\ Lossy(d, r) # {}
  /\ \A p \in Listed(d, r) : Legible(d, r, p) => NameIn(d, r, names, p)

(* The buffer from off on holds the directory from pos on: up to the end of *)
(* the sector's first block, up to a zero in the same sector, or as far as  *)
(* it was copied back for a record that reaches the end of the first half.  *)
HeldTo(d, r, blk, off, pos, z) ==
  /\ DOMAIN blk = 0 .. BlockCells - 1
  /\ \A i \in off .. z : blk[i] = CellOf(d, r, pos + (i - off))
  /\ (pos % SectorCells) + (z - off) < SectorCells
  /\ \/ z = BlockCells - 1 /\ pos % SectorCells = off
     \/ CellOf(d, r, pos + (z - off)) = << >>
     \/ /\ z < BlockCells - 1
        /\ \E q \in Lossy(d, r) : pos + (z - off) + 1 = q + BlockCells
Buffered(d, r, blk, off, pos) ==
  \E z \in off .. BlockCells - 1 : HeldTo(d, r, blk, off, pos, z)

OnRecord(d, r, pos) ==
  /\ pos \in 0 .. d.rec[r].size - 1
  /\ CellOf(d, r, pos) = << >> \/ Begins(CellOf(d, r, pos))

ListAt(d, r, l, blk) ==
  /\ l.blockoffset \in 0 .. BlockCells - 1 /\ OnRecord(d, r, l.diroffset)
  /\ Buffered(d, r, blk, l.blockoffset, l.diroffset)
  /\ NamesBefore(d, r, l.names, l.diroffset)
-----------------------------------------------------------------------------
LEMMA StaysInSector ==
  ASSUME NEW pos \in Nat, NEW len \in Nat, (pos % SectorCells) + len < SectorCells,
         NEW size \in Nat, size % SectorCells = 0, pos < size
  PROVE  pos + len < size /\ (pos + len) % SectorCells = (pos % SectorCells) + len
<1> DEFINE S == SectorCells
           l == pos \div S
           o == pos % S
<1>1. S \in Nat \ {0} BY Cellular
<1> HIDE DEF S
<1>2. l \in Nat /\ o \in 0 .. S - 1 /\ pos = l * S + o BY <1>1, DivMod
<1>3. l * S + S <= size BY <1>1, SectorEnd DEF S
<1>4. o + len < S BY DEF S
<1> HIDE DEF l, o
<1>5. l * S \in Nat BY <1>1, <1>2, Product
<1>6. pos + len = l * S + (o + len) /\ o + len \in 0 .. S - 1 BY <1>1, <1>2, <1>4, <1>5
<1>7. (l * S + (o + len)) % S = o + len BY <1>1, <1>2, <1>6, DivModOf
<1>8. pos + len < size BY <1>1, <1>3, <1>4, <1>5, <1>6
<1> QED BY <1>6, <1>7, <1>8 DEF S, o

(* A block of a directory, as it is read through the slot of its inode. *)
LEMMA DirBlock ==
  ASSUME Good(D), NEW n, NodeIn(D, n), NEW r \in DOMAIN D.rec, D.rec[r].dir,
         n.first_extent = Place(D, r), NEW k \in Nat, k * BlockCells + BlockCells <= D.rec[r].size
  PROVE  /\ OnDisc(iso_bmap(n, k))
         /\ \A i \in 0 .. BlockCells - 1 :
              Block(iso_bmap(n, k))[i] = CellOf(D, r, k * BlockCells + i)
         /\ DOMAIN Block(iso_bmap(n, k)) = 0 .. BlockCells - 1
<1> DEFINE b == iso_bmap(n, k)
           B == BlockCells
           P == Place(D, r)
           size == D.rec[r].size
           kB == k * B
<1>1. b \in Nat /\ b * B = P + kB BY Bmapped
<1>2. B \in Nat \ {0} BY Cellular
<1>3. kB \in Nat BY <1>2, Product
<1>4. P \in Nat /\ size \in Nat /\ P + size <= Len(D.cell) BY Recorded, DirFacts
<1>5. Len(D.cell) \in Nat BY Celled
<1>6. kB + B <= size OBVIOUS
<1>7. DOMAIN Block(b) = 0 .. BlockCells - 1 BY DEF Block
<1>8. ASSUME NEW i \in 0 .. BlockCells - 1 PROVE Block(b)[i] = D.cell[b * B + i + 1]
  BY <1>1, InBlock
<1> HIDE DEF b, B, P, size, kB
<1>9. (b + 1) * B = b * B + B BY <1>1, <1>2
<1>10. (b + 1) * B <= Len(D.cell)
  <2>1. (b + 1) * B = P + kB + B BY <1>1, <1>3, <1>4, <1>9
  <2> QED BY <2>1, <1>2, <1>3, <1>4, <1>5, <1>6
<1>11. ASSUME NEW i \in 0 .. B - 1 PROVE Block(b)[i] = CellOf(D, r, kB + i)
  <2>1. Block(b)[i] = D.cell[b * B + i + 1] BY <1>8 DEF B
  <2>2. b * B + i + 1 = P + (kB + i) + 1 BY <1>1, <1>2, <1>3, <1>4
  <2> QED BY <2>1, <2>2 DEF CellOf, P
<1> QED BY <1>7, <1>10, <1>11 DEF OnDisc, b, B, kB

LEMMA FirstBlock ==
  ASSUME Good(D), NEW n, NodeIn(D, n), NEW r \in DOMAIN D.rec, D.rec[r].dir,
         n.first_extent = Place(D, r), NEW pos \in Nat, pos % SectorCells = 0, pos < D.rec[r].size
  PROVE  LET b == iso_bmap(n, pos \div BlockCells) IN
         OnDisc(b) /\ Buffered(D, r, Block(b), 0, pos) /\ DOMAIN Block(b) = 0 .. BlockCells - 1
<1> DEFINE k == pos \div BlockCells
           size == D.rec[r].size
           b == iso_bmap(n, k)
<1>1. BlockCells \in Nat \ {0} /\ SectorCells \in Nat \ {0} /\ SectorCells = 2 * BlockCells BY Cellular
<1>2. pos % BlockCells = 0 BY Aligned
<1>3. k \in Nat /\ pos % BlockCells \in 0 .. BlockCells - 1 /\ pos = k * BlockCells + (pos % BlockCells)
  <2>1. BlockCells \in Nat \ {0} BY <1>1
  <2> QED BY <2>1, DivMod
<1>4. size \in Nat /\ size % SectorCells = 0 BY Recorded, DirFacts
<1>5. (pos \div SectorCells) * SectorCells + SectorCells <= size BY <1>1, <1>4, SectorEnd
<1>6. /\ pos \div SectorCells \in Nat /\ pos % SectorCells \in 0 .. SectorCells - 1
      /\ pos = (pos \div SectorCells) * SectorCells + (pos % SectorCells)
  <2>1. SectorCells \in Nat \ {0} BY <1>1
  <2> QED BY <2>1, DivMod
<1>7. (pos \div SectorCells) * SectorCells \in Nat BY <1>1, <1>6, Product
<1>8. pos + SectorCells <= size
  <2> DEFINE m == (pos \div SectorCells) * SectorCells
  <2>1. pos = m + 0 BY <1>6
  <2> QED BY <1>1, <1>4, <1>5, <1>7, <2>1
<1>9. k * BlockCells = pos
  <2> DEFINE m == k * BlockCells
  <2>1. m \in Nat BY <1>1, <1>3, Product
  <2>2. pos = m + 0 BY <1>2, <1>3
  <2> HIDE DEF m
  <2> QED BY <2>1, <2>2 DEF m
<1>10. k * BlockCells + BlockCells <= size
  <2> HIDE DEF k, size
  <2> QED BY <1>1, <1>4, <1>8, <1>9
<1>11. /\ OnDisc(b) /\ DOMAIN Block(b) = 0 .. BlockCells - 1
       /\ \A i \in 0 .. BlockCells - 1 : Block(b)[i] = CellOf(D, r, k * BlockCells + i)
  BY <1>3, <1>10, DirBlock
<1> HIDE DEF b, k, size
<1>12. \A i \in 0 .. BlockCells - 1 : Block(b)[i] = CellOf(D, r, pos + (i - 0)) BY <1>1, <1>9, <1>11
<1>13. (pos % SectorCells) + (BlockCells - 1 - 0) < SectorCells BY <1>1
<1>14. BlockCells - 1 \in 0 .. BlockCells - 1 BY <1>1
<1>15. Buffered(D, r, Block(b), 0, pos) BY <1>11, <1>12, <1>13, <1>14 DEF Buffered, HeldTo
<1> QED BY <1>11, <1>15 DEF b, k

(* The record in the buffer. *)
LEMMA InBuffer ==
  ASSUME NEW d, Good(d), NEW r \in DOMAIN d.rec, d.rec[r].dir, NEW blk,
         NEW off \in 0 .. BlockCells - 1, NEW pos, OnRecord(d, r, pos), Buffered(d, r, blk, off, pos)
  PROVE  /\ blk[off] = CellOf(d, r, pos)
         /\ blk[off] # << >> => pos \in StartsIn(d, r) /\ blk[off][2] = 0
<1>1. PICK z \in off .. BlockCells - 1 : \A i \in off .. z : blk[i] = CellOf(d, r, pos + (i - off))
  BY DEF Buffered, HeldTo
<1>2. BlockCells \in Nat BY Cellular
<1>3. off \in off .. z BY <1>1, <1>2
<1>4. pos \in Nat BY DEF OnRecord
<1>5. pos + (off - off) = pos BY <1>2, <1>4
<1>6. blk[off] = CellOf(d, r, pos) BY <1>1, <1>3, <1>5
<1> QED BY <1>6 DEF OnRecord, StartsIn, Begins

(* A record of a directory is not interrupted, and lies in one sector. *)
LEMMA RecordThere ==
  ASSUME NEW d, Good(d), NEW r \in DOMAIN d.rec, d.rec[r].dir, NEW pos \in StartsIn(d, r)
  PROVE  LET len == d.rec[CellOf(d, r, pos)[1]].len IN
         /\ len \in Nat \ {0} /\ pos \in 0 .. d.rec[r].size - 1
         /\ d.rec[r].size \in Nat /\ d.rec[r].size % SectorCells = 0
         /\ (pos % SectorCells) + len <= SectorCells
         /\ \A k \in 0 .. len - 1 : CellOf(d, r, pos + k) # << >>
         /\ \A k \in 1 .. len - 1 : ~Begins(CellOf(d, r, pos + k))
         /\ CellOf(d, r, pos) # << >> /\ Begins(CellOf(d, r, pos))
         /\ \/ (pos + len) % SectorCells = 0 \/ CellOf(d, r, pos + len) = << >>
            \/ Begins(CellOf(d, r, pos + len))
<1> DEFINE m == CellOf(d, r, pos)[1]
           len == d.rec[m].len
           next == pos + len
<1>1. pos \in 0 .. d.rec[r].size - 1 /\ Begins(CellOf(d, r, pos)) BY DEF StartsIn
<1>2. m \in DOMAIN d.rec BY MemberIs
<1>3. len \in Nat \ {0} BY <1>2, Recorded
<1>4. /\ (pos % SectorCells) + len <= SectorCells
      /\ \A q \in pos + 1 .. next - 1 : CellOf(d, r, q) = << m, q - pos >>
      /\ next % SectorCells = 0 \/ CellOf(d, r, next) = << >> \/ Begins(CellOf(d, r, next))
  BY <1>1, DirCells
<1>5. d.rec[r].size \in Nat /\ d.rec[r].size % SectorCells = 0 BY Recorded, DirFacts
<1>6. CellOf(d, r, pos) # << >> BY <1>1 DEF Begins
<1> HIDE DEF m, len
<1>7. pos \in Nat BY <1>1
<1>8. ASSUME NEW k \in 1 .. len - 1 PROVE CellOf(d, r, pos + k) # << >> /\ ~Begins(CellOf(d, r, pos + k))
  <2>1. pos + k \in pos + 1 .. next - 1 /\ (pos + k) - pos = k /\ k # 0 BY <1>3, <1>7
  <2>2. CellOf(d, r, pos + k) = << m, k >> BY <1>4, <2>1
  <2> QED BY <2>1, <2>2 DEF Begins
<1>9. ASSUME NEW k \in 0 .. len - 1 PROVE CellOf(d, r, pos + k) # << >>
  <2>1. CASE k = 0 BY <1>6, <1>7, <2>1
  <2>2. CASE k # 0
    <3>1. k \in 1 .. len - 1 BY <1>3, <2>2
    <3> QED BY <1>8, <3>1
  <2> QED BY <2>1, <2>2
<1> QED BY <1>1, <1>3, <1>4, <1>5, <1>6, <1>8, <1>9 DEF len, m

(* The cells of a record. *)
LEMMA RecordCells ==
  ASSUME NEW d, Good(d), NEW r \in DOMAIN d.rec, d.rec[r].dir, NEW pos \in StartsIn(d, r)
  PROVE  LET m == CellOf(d, r, pos)[1] IN
         \A i \in 1 .. d.rec[m].len - 1 : CellOf(d, r, pos + i) = << m, i >>
<1> DEFINE m == CellOf(d, r, pos)[1]
           len == d.rec[m].len
           next == pos + len
<1>1. pos \in 0 .. d.rec[r].size - 1 /\ Begins(CellOf(d, r, pos)) BY DEF StartsIn
<1>2. m \in DOMAIN d.rec BY MemberIs
<1>3. len \in Nat \ {0} BY <1>2, Recorded
<1>4. \A q \in pos + 1 .. next - 1 : CellOf(d, r, q) = << m, q - pos >> BY <1>1, DirCells
<1> HIDE DEF m, len
<1> SUFFICES ASSUME NEW i \in 1 .. len - 1 PROVE CellOf(d, r, pos + i) = << m, i >> BY DEF m, len
<1>5. pos \in Nat BY <1>1
<1>6. pos + i \in pos + 1 .. next - 1 /\ (pos + i) - pos = i BY <1>3, <1>5
<1> QED BY <1>4, <1>6

(* The next record, in the same buffer. *)
LEMMA NextInBuffer ==
  ASSUME NEW d, Good(d), NEW r \in DOMAIN d.rec, d.rec[r].dir, NEW blk,
         NEW off \in 0 .. BlockCells - 1, NEW pos \in StartsIn(d, r),
         NEW z \in off .. BlockCells - 1,
         HeldTo(d, r, blk, off, pos, z),
         NEW len, len = LenAt(d, r, pos), off + len <= z
  PROVE  OnRecord(d, r, pos + len) /\ Buffered(d, r, blk, off + len, pos + len)
<1>1. /\ len \in Nat \ {0} /\ pos \in 0 .. d.rec[r].size - 1
      /\ d.rec[r].size \in Nat /\ d.rec[r].size % SectorCells = 0
      /\ \/ (pos + len) % SectorCells = 0 \/ CellOf(d, r, pos + len) = << >>
         \/ Begins(CellOf(d, r, pos + len))
  BY RecordThere DEF LenAt
<1>2. BlockCells \in Nat \ {0} /\ SectorCells \in Nat \ {0} BY Cellular
<1>3. pos \in Nat /\ pos < d.rec[r].size BY <1>1
<1>0. off \in Nat /\ z \in Nat /\ off <= z /\ z <= BlockCells - 1 /\ len \in Nat /\ len > 0
      /\ BlockCells \in Nat /\ SectorCells \in Nat /\ d.rec[r].size \in Nat
  BY <1>1, <1>2
<1>4. /\ DOMAIN blk = 0 .. BlockCells - 1
      /\ \A i \in off .. z : blk[i] = CellOf(d, r, pos + (i - off))
      /\ (pos % SectorCells) + (z - off) < SectorCells
  BY DEF HeldTo
<1>6. pos % SectorCells \in Nat BY <1>2, <1>3, ModBound
<1>7. (pos % SectorCells) + len < SectorCells
  <2> DEFINE o == pos % SectorCells
  <2>1. o + (z - off) < SectorCells /\ o \in Nat BY <1>4, <1>6
  <2> HIDE DEF o
  <2>2. o + len < SectorCells BY <1>0, <2>1
  <2> QED BY <2>2 DEF o
<1>8. pos + len < d.rec[r].size /\ (pos + len) % SectorCells = (pos % SectorCells) + len
  BY <1>0, <1>1, <1>3, <1>7, StaysInSector
<1>9. OnRecord(d, r, pos + len)
  <2>1. (pos + len) % SectorCells # 0 BY <1>1, <1>6, <1>8
  <2>2. pos + len \in 0 .. d.rec[r].size - 1 BY <1>0, <1>3, <1>8
  <2> QED BY <1>1, <2>1, <2>2 DEF OnRecord
<1>10. z \in off + len .. BlockCells - 1 BY <1>0
<1>11. \A i \in off + len .. z : blk[i] = CellOf(d, r, (pos + len) + (i - (off + len)))
  <2> SUFFICES ASSUME NEW i \in off + len .. z
               PROVE  blk[i] = CellOf(d, r, (pos + len) + (i - (off + len)))
    OBVIOUS
  <2>1. i \in off .. z /\ i \in Int BY <1>0
  <2>2. (pos + len) + (i - (off + len)) = pos + (i - off) BY <1>0, <1>3, <2>1
  <2> QED BY <1>4, <2>1, <2>2
<1>12. ((pos + len) % SectorCells) + (z - (off + len)) < SectorCells
  <2> DEFINE o == pos % SectorCells
  <2>1. o + (z - off) < SectorCells /\ o \in Nat /\ (pos + len) % SectorCells = o + len BY <1>4, <1>6, <1>8
  <2> HIDE DEF o
  <2> QED BY <1>0, <2>1
<1>13. (pos + len) + (z - (off + len)) = pos + (z - off) BY <1>0, <1>3
<1>14. \/ z = BlockCells - 1 /\ (pos + len) % SectorCells = off + len
       \/ CellOf(d, r, (pos + len) + (z - (off + len))) = << >>
       \/ /\ z < BlockCells - 1
          /\ \E q \in Lossy(d, r) : (pos + len) + (z - (off + len)) + 1 = q + BlockCells
  <2>1. \/ z = BlockCells - 1 /\ pos % SectorCells = off
        \/ CellOf(d, r, pos + (z - off)) = << >>
        \/ /\ z < BlockCells - 1
           /\ \E q \in Lossy(d, r) : pos + (z - off) + 1 = q + BlockCells
    BY DEF HeldTo
  <2> QED BY <1>8, <1>13, <2>1
<1>15. HeldTo(d, r, blk, off + len, pos + len, z) BY <1>4, <1>11, <1>12, <1>14 DEF HeldTo
<1> QED BY <1>9, <1>10, <1>15 DEF Buffered

(* A record of len cells at off in a sector's first half, and reaching its  *)
(* end.                                                                     *)
Reaches(pos, off, len) == pos % SectorCells = off /\ off + len >= BlockCells

(* What a record that reaches the end of a sector's first half leaves. *)
LEMMA LossyOrZero ==
  ASSUME NEW d, Good(d), NEW r \in DOMAIN d.rec, d.rec[r].dir, NEW pos \in StartsIn(d, r),
         NEW off \in 0 .. BlockCells - 1,
         NEW len, len = LenAt(d, r, pos), Reaches(pos, off, len)
  PROVE  \/ pos \in Lossy(d, r)
         \/ CellOf(d, r, pos + (BlockCells - 1)) = << >> /\ len < BlockCells
<1>1. /\ len \in Nat \ {0} /\ pos \in 0 .. d.rec[r].size - 1
      /\ \A k \in 0 .. len - 1 : CellOf(d, r, pos + k) # << >>
  BY RecordThere DEF LenAt
<1>2. BlockCells \in Nat \ {0} BY Cellular
<1>3. pos \in Nat BY <1>1
<1>4. pos + BlockCells - 1 = pos + (BlockCells - 1) BY <1>2, <1>3
<1> SUFFICES ASSUME pos \notin Lossy(d, r)
             PROVE  CellOf(d, r, pos + (BlockCells - 1)) = << >> /\ len < BlockCells
  OBVIOUS
<1>5. off < BlockCells BY <1>2
<1>6. CellOf(d, r, pos + BlockCells - 1) = << >> BY <1>5 DEF Lossy, Reaches
<1>7. BlockCells - 1 \notin 0 .. len - 1 BY <1>1, <1>4, <1>6
<1>8. len < BlockCells BY <1>1, <1>2, <1>7
<1> QED BY <1>4, <1>6, <1>8

(* The buffer after a record that reaches the end of the block. *)
Copied(blk, off, len, b) ==
  LET frag == BlockCells - off
      big == [i \in 0 .. frag + BlockCells - 1 |->
                IF i < frag THEN blk[off + i] ELSE Block(b)[i - frag]]
  IN [i \in DOMAIN blk |-> IF i < BlockCells - len THEN big[len + i] ELSE blk[i]]

IsBlock(blk) == DOMAIN blk = 0 .. BlockCells - 1

ShiftedDown(blk, off, len, b) ==
  \A i \in 0 .. BlockCells - len - 1 : blk[i] = Block(b)[(len + i) - (BlockCells - off)]

LEMMA CopiedIs ==
  ASSUME NEW blk, IsBlock(blk), NEW b, NEW off \in Nat, off < BlockCells,
         NEW len \in Nat, len < BlockCells, off + len >= BlockCells
  PROVE  /\ IsBlock(Copied(blk, off, len, b))
         /\ ShiftedDown(Copied(blk, off, len, b), off, len, b)
<1> DEFINE B == BlockCells
           frag == B - off
           F(i) == IF i < frag THEN blk[off + i] ELSE Block(b)[i - frag]
           big == [i \in 0 .. frag + B - 1 |-> F(i)]
           G(i) == IF i < B - len THEN big[len + i] ELSE blk[i]
           new == [i \in DOMAIN blk |-> G(i)]
<1>1. B \in Nat \ {0} BY Cellular
<1>2. Copied(blk, off, len, b) = new BY DEF Copied
<1>3. DOMAIN blk = 0 .. B - 1 /\ DOMAIN new = 0 .. B - 1 BY DEF IsBlock
<1> HIDE DEF F, G
<1>4. ASSUME NEW i \in 0 .. B - 1 PROVE new[i] = G(i) BY <1>3
<1>5. ASSUME NEW i \in 0 .. frag + B - 1 PROVE big[i] = F(i) OBVIOUS
<1> HIDE DEF new, big
<1>6. ASSUME NEW i \in 0 .. B - len - 1 PROVE new[i] = Block(b)[(len + i) - frag]
  <2>1. i \in Nat /\ i < B - len /\ i \in 0 .. B - 1 BY <1>1
  <2>2. len + i \in 0 .. frag + B - 1 /\ ~(len + i < frag) BY <1>1, <2>1
  <2>3. new[i] = G(i) BY <1>4, <2>1
  <2>4. big[len + i] = F(len + i) BY <1>5, <2>2
  <2> HIDE DEF frag, B
  <2>5. G(i) = big[len + i] BY <2>1 DEF G
  <2>6. F(len + i) = Block(b)[(len + i) - frag] BY <2>2, Zenon DEF F
  <2> QED BY <2>3, <2>4, <2>5, <2>6
<1>7. DOMAIN new = 0 .. B - 1 BY <1>3 DEF new
<1> QED BY <1>2, <1>6, <1>7 DEF IsBlock, ShiftedDown

(* The second half of the sector, read for a record that reaches it.        *)
LEMMA SecondHalf ==
  ASSUME Good(D), NEW n, NodeIn(D, n), NEW r \in DOMAIN D.rec, D.rec[r].dir,
         n.first_extent = Place(D, r), NEW off \in 0 .. BlockCells - 1,
         NEW pos \in StartsIn(D, r),
         NEW len \in Nat, Reaches(pos, off, len), len <= BlockCells,
         NEW b, b = iso_bmap(n, (pos + len) \div BlockCells)
  PROVE  /\ OnDisc(b)
         /\ \A i \in 0 .. BlockCells - 1 : Block(b)[i] = CellOf(D, r, pos + ((BlockCells - off) + i))
<1> DEFINE S == SectorCells
           B == BlockCells
           q == pos \div S
           size == D.rec[r].size
           qS == q * S
<1>1. pos \in 0 .. size - 1 /\ size \in Nat /\ size % S = 0 BY RecordThere
<1>2. B \in Nat \ {0} /\ S \in Nat \ {0} /\ S = 2 * B BY Cellular
<1>3. pos \in Nat /\ pos < size BY <1>1
<1>4. off \in Nat /\ off <= B - 1 /\ off + len >= B /\ len <= B BY <1>2 DEF Reaches
<1>7. pos % S = off BY DEF Reaches
<1>9. q \in Nat /\ pos = qS + off /\ qS \in Nat
  <2>1. q \in Nat /\ pos % S \in 0 .. S - 1 /\ pos = q * S + (pos % S) BY <1>2, <1>3, DivMod
  <2>2. qS \in Nat BY <1>2, <2>1, Product
  <2> HIDE DEF q, S
  <2> QED BY <1>7, <2>1, <2>2
<1>10. qS + S <= size BY <1>1, <1>2, <1>3, SectorEnd
<1> DEFINE k == 2 * q + 1
<1>11. k \in Nat /\ k * B = qS + B
  <2> HIDE DEF S, B, q
  <2>1. k \in Nat BY <1>9
  <2>2. (2 * q + 1) * B = q * (2 * B) + B BY <1>2, <1>9
  <2> QED BY <1>2, <2>1, <2>2
<1>12. (pos + len) \div B = k
  <2> DEFINE o == off + len - B
  <2>1. o \in 0 .. B - 1 BY <1>2, <1>4
  <2>2. pos + len = k * B + o
    <3> DEFINE kB == k * B
    <3>1. kB = qS + B /\ pos = qS + off /\ qS \in Nat BY <1>9, <1>11
    <3>2. B \in Nat /\ off \in Nat /\ len \in Nat BY <1>2, <1>4
    <3> HIDE DEF qS, kB, S, B
    <3>3. pos + len = kB + (off + len - B) BY <3>1, <3>2
    <3> QED BY <3>3 DEF kB
  <2> HIDE DEF k, o
  <2>3. (k * B + o) \div B = k BY <1>2, <1>11, <2>1, DivModOf
  <2> QED BY <2>2, <2>3
<1>13. k * B + B <= size
  <2> HIDE DEF k, qS, S, size
  <2> QED BY <1>1, <1>2, <1>9, <1>10, <1>11
<1>14. b = iso_bmap(n, k) BY <1>12
<1>15. /\ OnDisc(b)
       /\ \A i \in 0 .. B - 1 : Block(b)[i] = CellOf(D, r, k * B + i)
  BY <1>11, <1>13, <1>14, DirBlock
<1>16. ASSUME NEW i \in 0 .. B - 1 PROVE k * B + i = pos + ((B - off) + i)
  <2> DEFINE kB == k * B
  <2>1. kB = qS + B /\ pos = qS + off /\ qS \in Nat BY <1>9, <1>11
  <2>2. B \in Nat /\ off \in Nat /\ i \in Nat BY <1>2, <1>4
  <2> HIDE DEF qS, kB, S, B
  <2>3. kB + i = pos + ((B - off) + i) BY <2>1, <2>2
  <2> QED BY <2>3 DEF kB
<1> HIDE DEF k
<1> QED BY <1>15, <1>16 DEF B

(* big_data_block, and whether the record in it is whole. *)
Glued(blk, off, b) ==
  LET frag == BlockCells - off
  IN [i \in 0 .. frag + BlockCells - 1 |-> IF i < frag THEN blk[off + i] ELSE Block(b)[i - frag]]
Intact(blk, off, len, b) ==
  \A i \in 1 .. len - 1 :
    /\ i \in DOMAIN Glued(blk, off, b) /\ (i < BlockCells - off \/ OnDisc(b))
    /\ Glued(blk, off, b)[i] = << blk[off][1], i >>

LEMMA IntactIs ==
  ASSUME NEW d, Good(d), NEW r \in DOMAIN d.rec, d.rec[r].dir, NEW blk, NEW b,
         NEW off \in 0 .. BlockCells - 1, NEW pos \in StartsIn(d, r), blk[off] = CellOf(d, r, pos),
         NEW len, len = LenAt(d, r, pos),
         \A i \in 1 .. len - 1 :
           /\ i < BlockCells - off => blk[off + i] = CellOf(d, r, pos + i)
           /\ ~(i < BlockCells - off) => /\ OnDisc(b) /\ i - (BlockCells - off) \in 0 .. BlockCells - 1
                                         /\ Block(b)[i - (BlockCells - off)] = CellOf(d, r, pos + i)
  PROVE  Intact(blk, off, len, b)
<1> DEFINE frag == BlockCells - off
           F(i) == IF i < frag THEN blk[off + i] ELSE Block(b)[i - frag]
           big == [i \in 0 .. frag + BlockCells - 1 |-> F(i)]
<1>1. BlockCells \in Nat \ {0} /\ off \in Nat BY Cellular
<1>2. len \in Nat \ {0} BY RecordThere DEF LenAt
<1>3. Glued(blk, off, b) = big BY DEF Glued
<1> SUFFICES ASSUME NEW i \in 1 .. len - 1
             PROVE  /\ i \in DOMAIN big /\ (i < frag \/ OnDisc(b))
                    /\ big[i] = << blk[off][1], i >>
  BY <1>3 DEF Intact
<1>4. CellOf(d, r, pos + i) = << blk[off][1], i >> BY RecordCells DEF LenAt
<1>5. F(i) = CellOf(d, r, pos + i) /\ (i < frag \/ OnDisc(b)) OBVIOUS
<1>6. i \in 0 .. frag + BlockCells - 1
  <2>1. i \in Nat /\ (i < frag \/ i - frag \in 0 .. BlockCells - 1) BY <1>2
  <2> HIDE DEF frag
  <2>2. frag \in Int BY <1>1 DEF frag
  <2> QED BY <1>1, <2>1, <2>2
<1> HIDE DEF F, frag
<1> QED BY <1>4, <1>5, <1>6

Splits(d, r, pos, len) ==
  len < BlockCells /\ (pos \in Lossy(d, r) \/ CellOf(d, r, pos + (BlockCells - 1)) = << >>)

(* A record that reaches the end of the block, with what is copied back. *)
LEMMA NextCopied ==
  ASSUME Good(D), NEW n, NodeIn(D, n), NEW r \in DOMAIN D.rec, D.rec[r].dir,
         n.first_extent = Place(D, r), NEW blk, IsBlock(blk),
         NEW off \in 0 .. BlockCells - 1,
         NEW pos \in StartsIn(D, r),
         NEW len, len = LenAt(D, r, pos), Reaches(pos, off, len), Splits(D, r, pos, len),
         NEW b, b = iso_bmap(n, (pos + len) \div BlockCells)
  PROVE  /\ OnRecord(D, r, pos + len)
         /\ Buffered(D, r, Copied(blk, off, len, b), 0, pos + len)
<1> DEFINE S == SectorCells
           B == BlockCells
           size == D.rec[r].size
           new == Copied(blk, off, len, b)
<1>1. /\ len \in Nat \ {0} /\ pos \in 0 .. size - 1
      /\ size \in Nat /\ size % S = 0
      /\ \/ (pos + len) % S = 0 \/ CellOf(D, r, pos + len) = << >>
         \/ Begins(CellOf(D, r, pos + len))
  BY RecordThere DEF LenAt
<1>2. B \in Nat \ {0} /\ S \in Nat \ {0} /\ S = 2 * B BY Cellular
<1>3. pos \in Nat /\ pos < size BY <1>1
<1>7. pos % S = off /\ off + len >= B BY DEF Reaches
<1>6. len \in Nat /\ len < BlockCells /\ len <= BlockCells BY <1>1, <1>2 DEF Splits
<1>15. \A i \in 0 .. B - 1 : Block(b)[i] = CellOf(D, r, pos + ((B - off) + i))
  BY <1>6, SecondHalf
<1> HIDE DEF S, size
<1>0. B \in Nat /\ B > 0 /\ S \in Nat /\ S = 2 * B /\ off \in Nat /\ len \in Nat /\ len > 0 /\ off <= B - 1
      /\ off + len >= B /\ len < B /\ pos \in Nat /\ size \in Nat
  <2> QED BY <1>1, <1>2, <1>3, <1>6, <1>7
<1>23. /\ DOMAIN new = 0 .. B - 1
       /\ \A i \in 0 .. B - len - 1 : new[i] = Block(b)[(len + i) - (B - off)]
  <2>1. /\ off < BlockCells /\ off \in Nat /\ len \in Nat /\ len < BlockCells
        /\ off + len >= BlockCells
    BY <1>0 DEF B
  <2>2. IsBlock(Copied(blk, off, len, b)) /\ ShiftedDown(Copied(blk, off, len, b), off, len, b)
    BY <2>1, CopiedIs
  <2> QED BY <2>2, Zenon DEF B, new, IsBlock, ShiftedDown
<1> HIDE DEF B, new
<1>16. (pos % S) + len < S BY <1>0, <1>7
<1>17. pos + len < size /\ (pos + len) % S = off + len
  BY <1>1, <1>3, <1>0, <1>7, <1>16, StaysInSector DEF S
<1>18. OnRecord(D, r, pos + len)
  <2>1. (pos + len) % S # 0 BY <1>0, <1>17
  <2>2. pos + len \in 0 .. size - 1 BY <1>0, <1>17
  <2> QED BY <1>1, <2>1, <2>2 DEF OnRecord, size
<1> DEFINE y == B - len - 1
<1>19. y \in 0 .. B - 1 /\ y \in Nat /\ y < B - 1 BY <1>0
<1>20. ASSUME NEW i \in 0 .. y PROVE new[i] = CellOf(D, r, (pos + len) + (i - 0))
  <2> DEFINE j == (len + i) - (B - off)
  <2>1. i \in Nat /\ i \in 0 .. B - len - 1 /\ j \in 0 .. B - 1 BY <1>0, <1>19
  <2>2. pos + ((B - off) + j) = (pos + len) + (i - 0) BY <1>0, <2>1
  <2>3. new[i] = Block(b)[j] BY <1>23, <2>1
  <2> HIDE DEF j
  <2>4. Block(b)[j] = CellOf(D, r, pos + ((B - off) + j)) BY <1>15, <2>1
  <2> QED BY <2>2, <2>3, <2>4
<1>21. ((pos + len) % S) + (y - 0) < S BY <1>0, <1>17
<1>22. \/ CellOf(D, r, (pos + len) + (y - 0)) = << >>
       \/ y < B - 1 /\ \E q \in Lossy(D, r) : (pos + len) + (y - 0) + 1 = q + B
  <2>1. (pos + len) + (y - 0) = pos + (B - 1) /\ (pos + len) + (y - 0) + 1 = pos + B BY <1>0
  <2>2. pos \in Lossy(D, r) \/ CellOf(D, r, pos + (B - 1)) = << >> BY DEF B, Splits
  <2> HIDE DEF y
  <2> QED BY <1>19, <2>1, <2>2
<1> HIDE DEF y
<1>24. Buffered(D, r, new, 0, pos + len)
  BY <1>19, <1>20, <1>21, <1>22, <1>23 DEF Buffered, HeldTo, B, S
<1> QED BY <1>18, <1>24, Zenon DEF new

LEMMA ListedIs ==
  ASSUME NEW d, Good(d), NEW r \in DOMAIN d.rec
  PROVE  /\ Listed(d, r) \subseteq StartsIn(d, r) /\ StartsIn(d, r) \subseteq Nat
         /\ IsFiniteSet(Listed(d, r))
         /\ \A p \in StartsIn(d, r) : p <= d.rec[r].size - 1
<1>1. d.rec[r].size \in Nat BY Recorded
<1>2. Listed(d, r) \subseteq StartsIn(d, r) BY DEF Listed, VisibleIn
<1>3. StartsIn(d, r) \subseteq 0 .. d.rec[r].size - 1 BY DEF StartsIn
<1>4. IsFiniteSet(0 .. d.rec[r].size - 1)
  <2>1. d.rec[r].size - 1 \in Int BY <1>1
  <2> QED BY <2>1, FS_Interval
<1>5. IsFiniteSet(Listed(d, r)) BY <1>2, <1>3, <1>4, FS_Subset
<1> QED BY <1>1, <1>2, <1>3, <1>5

LEMMA NamesSkip ==
  ASSUME NEW d, Good(d), NEW r \in DOMAIN d.rec, NEW names, NEW pos \in Nat, NEW next \in Nat,
         NamesBefore(d, r, names, pos), pos <= next, \A q \in Listed(d, r) : q < next => q < pos
  PROVE  NamesBefore(d, r, names, next)
<1> DEFINE v == Listed(d, r)
<1>1. v \subseteq Nat BY ListedIs
<1> HIDE DEF v
<1>2. {q \in v : q < next} = {q \in v : q < pos} BY <1>1 DEF v
<1>3. \A q \in v : q < next => q < pos BY DEF v
<1> QED BY <1>2, <1>3 DEF NamesBefore, v

LEMMA NamesAdd ==
  ASSUME NEW d, Good(d), NEW r \in DOMAIN d.rec, NEW names, NEW pos \in Listed(d, r), NEW next \in Nat,
         NamesBefore(d, r, names, pos), pos < next, \A q \in Listed(d, r) : q < next => q <= pos,
         NEW name, LET m == CellOf(d, r, pos)[1] IN name \in d.rec[m].known \/ FarName(d, m)
  PROVE  NamesBefore(d, r, Append(names, name), next)
<1> DEFINE v == Listed(d, r)
           before == {q \in v : q < pos}
           upto == {q \in v : q < next}
           l == Len(names)
           new == Append(names, name)
           U == {names[i] : i \in DOMAIN names} \union {name}
<1>1. v \subseteq Nat /\ IsFiniteSet(v) BY ListedIs
<1>2. /\ names \in Seq({names[i] : i \in DOMAIN names}) /\ l = Cardinality(before)
      /\ \A p \in v : p < pos =>
           LET k == Cardinality({q \in v : q <= p})
               m == CellOf(d, r, p)[1]
           IN k \in 1 .. l /\ (names[k] \in d.rec[m].known \/ FarName(d, m))
  BY DEF NamesBefore, NameIn, IsSeq
<1>3. names \in Seq(U) /\ name \in U
  <2> DEFINE W == {names[i] : i \in DOMAIN names}
  <2>1. names \in Seq(W) BY <1>2
  <2> HIDE DEF W
  <2>2. names \in Seq(W \union {name}) BY <2>1
  <2> QED BY <2>2 DEF W
<1> HIDE DEF U
<1>4. /\ l \in Nat /\ new \in Seq(U) /\ Len(new) = l + 1 /\ new[l + 1] = name
      /\ \A i \in 1 .. l : new[i] = names[i]
  BY <1>3
<1> HIDE DEF new, l
<1>5. IsSeq(new) BY <1>4, SeqIs
<1>6. pos \in v /\ pos \in Nat BY <1>1
<1>7. \A q \in v : q < next => q <= pos OBVIOUS
<1> HIDE DEF v
<1>8. upto = before \union {pos} /\ pos \notin before /\ upto = {q \in v : q <= pos}
  <2>1. ASSUME NEW q \in v PROVE (q < next <=> q <= pos) /\ (q <= pos <=> q < pos \/ q = pos)
    BY <1>1, <1>6, <1>7
  <2>2. upto = {q \in v : q <= pos} BY <2>1
  <2>3. pos \notin before BY <1>6
  <2>4. upto \subseteq before \union {pos} BY <2>1
  <2>5. before \union {pos} \subseteq upto BY <1>6, <2>1
  <2> QED BY <2>2, <2>3, <2>4, <2>5
<1>9. IsFiniteSet(before) BY <1>1, FS_Subset
<1>10. Cardinality(upto) = l + 1
  <2> HIDE DEF before, upto
  <2> QED BY <1>2, <1>8, <1>9, FS_AddElement
<1>11. ASSUME NEW p \in v, p < next
       PROVE  LET k == Cardinality({q \in v : q <= p})
                  m == CellOf(d, r, p)[1]
              IN k \in 1 .. Len(new) /\ (new[k] \in d.rec[m].known \/ FarName(d, m))
  <2>1. p \in Nat /\ p <= pos BY <1>1, <1>7, <1>11
  <2>2. CASE p = pos
    <3>1. Cardinality({q \in v : q <= p}) = l + 1 BY <1>8, <1>10, <2>2
    <3>2. l + 1 \in 1 .. Len(new) BY <1>4
    <3> QED BY <1>4, <2>2, <3>1, <3>2
  <2>3. CASE p # pos
    <3> DEFINE k == Cardinality({q \in v : q <= p})
               m == CellOf(d, r, p)[1]
    <3>1. p < pos BY <1>6, <2>1, <2>3
    <3>2. k \in 1 .. l /\ (names[k] \in d.rec[m].known \/ FarName(d, m)) BY <1>2, <3>1
    <3> HIDE DEF k
    <3>3. k \in 1 .. Len(new) /\ new[k] = names[k] BY <1>4, <3>2
    <3> QED BY <3>2, <3>3 DEF k
  <2> QED BY <2>2, <2>3
<1>12. Len(new) = Cardinality({q \in v : q < next}) BY <1>4, <1>10
<1> QED BY <1>5, <1>11, <1>12 DEF NamesBefore, NameIn, v, new

(* A name that is in its place stays there. *)
LEMMA NamesStay ==
  ASSUME NEW d, NEW r, NEW names, IsSeq(names), NEW name, NEW p, NameIn(d, r, names, p)
  PROVE  NameIn(d, r, Append(names, name), p)
<1> DEFINE k == Cardinality({q \in Listed(d, r) : q <= p})
           W == {names[i] : i \in DOMAIN names}
<1>1. k \in 1 .. Len(names) BY DEF NameIn
<1>2. names \in Seq(W) BY DEF IsSeq
<1> HIDE DEF W, k
<1>3. names \in Seq(W \union {name}) /\ name \in W \union {name} BY <1>2
<1>4. Len(names) \in Nat /\ Len(Append(names, name)) = Len(names) + 1 BY <1>3
<1>5. k \in 1 .. Len(Append(names, name)) /\ Append(names, name)[k] = names[k] BY <1>1, <1>3, <1>4
<1> QED BY <1>5 DEF NameIn, k

LEMMA SeqGrows == ASSUME NEW names, IsSeq(names), NEW name PROVE IsSeq(Append(names, name))
<1> DEFINE W == {names[i] : i \in DOMAIN names}
<1>1. names \in Seq(W) BY DEF IsSeq
<1> HIDE DEF W
<1>2. names \in Seq(W \union {name}) /\ name \in W \union {name} BY <1>1
<1>3. Append(names, name) \in Seq(W \union {name}) BY <1>2
<1> QED BY <1>3, SeqIs

LEMMA KeptGrows ==
  ASSUME NEW d, NEW r, NEW names, NamesKept(d, r, names), NEW name,
         NEW new, new = IF name = << >> THEN names ELSE Append(names, name)
  PROVE  NamesKept(d, r, new)
<1>1. CASE name = << >> BY <1>1
<1>2. CASE name # << >>
  <2>1. new = Append(names, name) /\ IsSeq(names) BY <1>2 DEF NamesKept
  <2>2. IsSeq(new) BY <2>1, SeqGrows
  <2>3. ASSUME NEW p \in Listed(d, r), Legible(d, r, p) PROVE NameIn(d, r, new, p)
    <3>1. NameIn(d, r, names, p) BY <2>3 DEF NamesKept
    <3> QED BY <2>1, <3>1, NamesStay
  <2> QED BY <2>2, <2>3 DEF NamesKept
<1> QED BY <1>1, <1>2

(* Where bytes are lost, the names before have all that is kept. *)
LEMMA KeptBefore ==
  ASSUME NEW d, NEW r, NEW names, NEW pos, NamesBefore(d, r, names, pos), NEW q \in Lossy(d, r),
         \A p \in Listed(d, r) : p + LenAt(d, r, p) <= q + BlockCells => p < pos
  PROVE  NamesKept(d, r, names)
<1>1. IsSeq(names) /\ \A p \in Listed(d, r) : p < pos => NameIn(d, r, names, p) BY DEF NamesBefore
<1>2. ASSUME NEW p \in Listed(d, r), Legible(d, r, p) PROVE NameIn(d, r, names, p)
  <2>1. p + LenAt(d, r, p) <= q + BlockCells BY <1>2 DEF Legible
  <2> QED BY <1>1, <2>1
<1> QED BY <1>1, <1>2 DEF NamesKept

(* The name of a record in a listing. *)
LEMMA ListedName ==
  ASSUME Good(D), sb.rock = Rock(D), NEW r \in DOMAIN D.rec, D.rec[r].dir,
         NEW pos \in StartsIn(D, r), NEW heap \in HeapTexts, NEW bad, Lost(bad) = {}
  PROVE  LET m == CellOf(D, r, pos)[1]
             name == ListName(D.rec[m], heap, bad)
         IN IF pos \in Listed(D, r) THEN name # << >> /\ (name \in D.rec[m].known \/ FarName(D, m))
            ELSE name = << >>
<1> DEFINE m == CellOf(D, r, pos)[1]
           y == D.rec[m]
           full == get_rock_ridge_filename(y.su, D.area, heap, {})
<1>1. m \in Members(D, r) BY MemberIs
<1>2. NamesSound(D, r) BY DEF Good, Sound
<1>3. /\ y.name # << >>
      /\ ~Dots(D, m) /\ HasNM(D, m) => full # << >> /\ (full \in y.known \/ FarName(D, m))
  BY <1>1, <1>2 DEF NamesSound
<1>4. ListName(y, heap, bad) =
        IF y.name \in {<< "0" >>, << "1" >>, << >>} \/ y.hidden \/ ~Rock(D) THEN << >> ELSE full
  BY DEF ListName
<1>5. pos \in Listed(D, r) <=> ~Dots(D, m) /\ ~y.hidden /\ HasNM(D, m) BY DEF Listed, VisibleIn
<1>6. Dots(D, m) <=> y.name \in {<< "0" >>, << "1" >>} BY DEF Dots
<1>7. /\ HasNM(D, m) => Rock(D)
      /\ Rock(D) /\ full # << >> => HasNM(D, m)
  BY DEF HasNM
<1> HIDE DEF y, full
<1>8. CASE pos \in Listed(D, r)
  <2>1. ~Dots(D, m) /\ ~y.hidden /\ HasNM(D, m) BY <1>5, <1>8
  <2>2. Rock(D) /\ full # << >> /\ (full \in y.known \/ FarName(D, m)) BY <1>3, <1>7, <2>1
  <2>3. ~(y.name \in {<< "0" >>, << "1" >>, << >>}) BY <1>3, <1>6, <2>1
  <2>4. ListName(y, heap, bad) = full BY <1>4, <2>1, <2>2, <2>3
  <2> QED BY <1>8, <2>2, <2>4 DEF y
<1>9. CASE pos \notin Listed(D, r)
  <2>1. y.name \in {<< "0" >>, << "1" >>, << >>} \/ y.hidden \/ ~Rock(D) \/ full = << >>
    BY <1>5, <1>6, <1>7, <1>9
  <2>2. ListName(y, heap, bad) = << >> BY <1>4, <2>1
  <2> QED BY <1>9, <2>2 DEF y
<1> QED BY <1>8, <1>9

(* What a turn of the loop does with a record of len cells listed as name. *)
Turned(blk, off, len, pos, b, bad, name) ==
  /\ Note(bad, {})
  /\ IF off + len >= BlockCells /\ (~OnDisc(b) \/ "dir" \in bad)
     THEN EndOfList(ls.names) /\ data_block' = blk
     ELSE /\ data_block' = IF off + len >= BlockCells THEN Copied(blk, off, len, b) ELSE blk
          /\ ls' = [ls EXCEPT !.diroffset = pos + len,
                              !.blockoffset = IF off + len >= BlockCells THEN 0 ELSE off + len,
                              !.names = IF name = << >> THEN @ ELSE Append(@, name)]
          /\ UNCHANGED << pc, ret >>

LEMMA ListRecordDoes ==
  ASSUME NEW blk, NEW off, NEW pos, ListRecord(blk, off, pos)
  PROVE  LET y == ListedAs(blk[off])
             b == iso_bmap(table[ls.fd], (pos + y.len) \div BlockCells)
         IN \E bad \in FailedReads : \E heap \in HeapTexts :
            \E name \in IF Intact(blk, off, y.len, b) THEN {ListName(y, heap, bad)} ELSE {<< >>, << "?" >>} :
              Turned(blk, off, y.len, pos, b, bad, name)
BY Zenon DEF ListRecord, Copied, Intact, Glued, Turned

(* One turn of the loop of iso_readdir_i: it goes on to the next record, or *)
(* behind a place where bytes are lost, or ends there.                      *)
LEMMA ListTurn ==
  ASSUME Good(D), sb.rock = Rock(D), NEW r \in DOMAIN D.rec, D.rec[r].dir,
         NodeIn(D, table[ls.fd]), table[ls.fd].first_extent = Place(D, r),
         ls = [fd |-> ls.fd, blockoffset |-> ls.blockoffset, diroffset |-> ls.diroffset,
               names |-> ls.names],
         NEW blk, NEW off \in 0 .. BlockCells - 1, NEW pos, OnRecord(D, r, pos),
         Buffered(D, r, blk, off, pos), NamesBefore(D, r, ls.names, pos),
         blk[off] = << >> => off = 0,
         ListRecord(blk, off, pos), seen' = {}
  PROVE  \/ UNCHANGED << pc, ret >> /\ ListAt(D, r, ls', data_block')
         \/ UNCHANGED << pc, ret >> /\ NamesKept(D, r, ls'.names)
         \/ EndOfList(ls.names) /\ NamesKept(D, r, ls.names)
<1> DEFINE y == ListedAs(blk[off])
           len == y.len
           end == pos + len
           b == iso_bmap(table[ls.fd], end \div BlockCells)
           whole == Intact(blk, off, len, b)
           spans == off + len >= BlockCells
<1>a. PICK bad \in FailedReads : \E heap \in HeapTexts :
         \E name \in IF whole THEN {ListName(y, heap, bad)} ELSE {<< >>, << "?" >>} :
           Turned(blk, off, len, pos, b, bad, name)
  BY ListRecordDoes
<1>b. PICK heap \in HeapTexts :
         \E name \in IF whole THEN {ListName(y, heap, bad)} ELSE {<< >>, << "?" >>} :
           Turned(blk, off, len, pos, b, bad, name)
  BY <1>a
<1>1. PICK name \in IF whole THEN {ListName(y, heap, bad)} ELSE {<< >>, << "?" >>} :
         Turned(blk, off, len, pos, b, bad, name)
  BY <1>b
<1>2. /\ Note(bad, {})
      /\ IF spans /\ (~OnDisc(b) \/ "dir" \in bad)
         THEN EndOfList(ls.names) /\ data_block' = blk
         ELSE /\ data_block' = IF spans THEN Copied(blk, off, len, b) ELSE blk
              /\ ls' = [ls EXCEPT !.diroffset = end,
                                  !.blockoffset = IF spans THEN 0 ELSE off + len,
                                  !.names = IF name = << >> THEN @ ELSE Append(@, name)]
              /\ UNCHANGED << pc, ret >>
  BY <1>1 DEF Turned
<1> DEFINE names == IF name = << >> THEN ls.names ELSE Append(ls.names, name)
<1>3. bad = {} /\ Lost(bad) = {} BY <1>2 DEF Note, Lost
<1>4. BlockCells \in Nat \ {0} /\ off \in Nat /\ off < BlockCells BY Cellular
<1>5. pos \in Nat BY DEF OnRecord
<1>6. /\ blk[off] = CellOf(D, r, pos)
      /\ blk[off] # << >> => pos \in StartsIn(D, r) /\ blk[off][2] = 0
  BY InBuffer
<1>7. CASE blk[off] = << >>
  <2>1. y = ZeroRec BY <1>7 DEF ListedAs, RecordOf
  <2>2. len = 0 /\ y.name = << >> BY <2>1 DEF ZeroRec
  <2>3. whole BY <2>2 DEF Intact
  <2>4. name = << >> BY <1>2, <2>2, <2>3 DEF ListName
  <2>5. ~spans /\ end = pos /\ off + len = off BY <1>4, <1>5, <2>2
  <2>6. /\ data_block' = blk /\ UNCHANGED << pc, ret >>
        /\ ls' = [ls EXCEPT !.diroffset = end, !.blockoffset = off + len, !.names = ls.names]
    BY <1>2, <2>4, <2>5
  <2> HIDE DEF end, len
  <2>7. ls' = [fd |-> ls.fd, blockoffset |-> off, diroffset |-> pos, names |-> ls.names]
    BY <2>5, <2>6
  <2>8. ls'.blockoffset = off /\ ls'.diroffset = pos /\ ls'.names = ls.names BY <2>7
  <2> QED BY <2>6, <2>8 DEF ListAt
<1>8. CASE blk[off] # << >>
  <2> DEFINE m == CellOf(D, r, pos)[1]
  <2>1. pos \in StartsIn(D, r) /\ y = D.rec[m] BY <1>6, <1>8 DEF ListedAs, RecordOf
  <2>m. len = D.rec[m].len BY <2>1
  <2>2. len \in Nat \ {0} /\ LenAt(D, r, pos) = len BY <2>1, RecordThere DEF LenAt
  <2>3. whole => IF pos \in Listed(D, r) THEN name # << >> /\ (name \in D.rec[m].known \/ FarName(D, m))
                 ELSE name = << >>
    BY <1>2, <1>3, <2>1, ListedName
  <2>4. /\ end \in Nat /\ pos < end
        /\ \A q \in StartsIn(D, r) : q < end => q <= pos
    BY <2>1, <2>m, RecordAhead
  <2>5. Listed(D, r) \subseteq StartsIn(D, r) /\ StartsIn(D, r) \subseteq Nat BY ListedIs
  <2>b. b = iso_bmap(table[ls.fd], (pos + len) \div BlockCells) BY DEF end
  <2> HIDE DEF y, len, end, m, b, whole
  <2>6. ASSUME whole PROVE NamesBefore(D, r, names, end)
    <3>1. CASE pos \in Listed(D, r)
      <4>1. name # << >> /\ (name \in D.rec[m].known \/ FarName(D, m)) BY <2>3, <2>6, <3>1
      <4>2. NamesBefore(D, r, Append(ls.names, name), end) BY <2>4, <2>5, <3>1, <4>1, NamesAdd DEF m
      <4> QED BY <4>1, <4>2
    <3>2. CASE pos \notin Listed(D, r)
      <4>1. name = << >> BY <2>3, <2>6, <3>2
      <4>2. \A q \in Listed(D, r) : q < end => q < pos
        <5> SUFFICES ASSUME NEW q \in Listed(D, r), q < end PROVE q < pos OBVIOUS
        <5>1. q \in Nat /\ q <= pos /\ q # pos BY <2>4, <2>5, <3>2
        <5> QED BY <1>5, <5>1
      <4>3. pos <= end BY <1>5, <2>4
      <4>4. NamesBefore(D, r, ls.names, end) BY <1>5, <2>4, <4>2, <4>3, NamesSkip
      <4> QED BY <4>1, <4>4
    <3> QED BY <3>1, <3>2
  <2>0. PICK z \in off .. BlockCells - 1 : HeldTo(D, r, blk, off, pos, z) BY DEF Buffered
  <2>7. /\ IsBlock(blk)
        /\ \A i \in off .. z : blk[i] = CellOf(D, r, pos + (i - off))
        /\ \/ z = BlockCells - 1 /\ pos % SectorCells = off
           \/ CellOf(D, r, pos + (z - off)) = << >>
           \/ /\ z < BlockCells - 1
              /\ \E q \in Lossy(D, r) : pos + (z - off) + 1 = q + BlockCells
    BY <2>0 DEF HeldTo, IsBlock
  <2>8. z \in Nat /\ off <= z /\ z <= BlockCells - 1 BY <1>4
  <2>9. ASSUME off + len <= z + 1 PROVE whole
    <3>1. ASSUME NEW i \in 1 .. len - 1
          PROVE  i < BlockCells - off /\ blk[off + i] = CellOf(D, r, pos + i)
      <4>1. off + i \in off .. z /\ (off + i) - off = i /\ i < BlockCells - off
        BY <1>4, <2>2, <2>8, <2>9
      <4> QED BY <2>7, <4>1
    <3> QED BY <1>6, <2>1, <2>2, <3>1, IntactIs DEF whole
  \* behind a place where bytes are lost
  <2>10. ASSUME NEW q \in Lossy(D, r), q + BlockCells < end PROVE NamesKept(D, r, ls.names)
    <3>1. q \in Nat BY <2>5 DEF Lossy
    <3>2. ASSUME NEW p \in Listed(D, r), p + LenAt(D, r, p) <= q + BlockCells PROVE p < pos
      <4>1. p \in StartsIn(D, r) /\ p \in Nat BY <2>5
      <4>2. LenAt(D, r, p) \in Nat \ {0} BY <4>1, RecordThere DEF LenAt
      <4>3. p < end BY <1>4, <2>4, <2>10, <3>1, <3>2, <4>1, <4>2
      <4>4. p <= pos BY <2>4, <4>1, <4>3
      <4>5. p # pos
        <5> SUFFICES ASSUME p = pos PROVE FALSE OBVIOUS
        <5>1. pos + len <= q + BlockCells BY <2>2, <3>2
        <5>2. end = pos + len BY DEF end
        <5> QED BY <1>4, <2>4, <2>10, <3>1, <5>1, <5>2
      <4> QED BY <1>5, <4>1, <4>4, <4>5
    <3> QED BY <3>2, KeptBefore
  <2>11. ASSUME NEW q \in Lossy(D, r), q + BlockCells <= end, whole PROVE NamesKept(D, r, names)
    <3>1. q \in Nat BY <2>5 DEF Lossy
    <3>2. ASSUME NEW p \in Listed(D, r), p + LenAt(D, r, p) <= q + BlockCells PROVE p < end
      <4>1. p \in StartsIn(D, r) /\ p \in Nat BY <2>5
      <4>2. LenAt(D, r, p) \in Nat \ {0} BY <4>1, RecordThere DEF LenAt
      <4> QED BY <1>4, <2>4, <2>11, <3>1, <3>2, <4>1, <4>2
    <3>3. NamesBefore(D, r, names, end) BY <2>6, <2>11
    <3> HIDE DEF names
    <3> QED BY <3>2, <3>3, KeptBefore
  <2>12. \/ EndOfList(ls.names)
         \/ /\ data_block' = IF spans THEN Copied(blk, off, len, b) ELSE blk
            /\ ls' = [ls EXCEPT !.diroffset = end, !.blockoffset = IF spans THEN 0 ELSE off + len,
                                !.names = names]
            /\ UNCHANGED << pc, ret >>
    BY <1>2 DEF y, len, end, b, whole
  <2>13. OnDisc(b) \/ ~spans
           => /\ data_block' = IF spans THEN Copied(blk, off, len, b) ELSE blk
              /\ ls' = [ls EXCEPT !.diroffset = end, !.blockoffset = IF spans THEN 0 ELSE off + len,
                                  !.names = names]
              /\ UNCHANGED << pc, ret >>
    BY <1>2, <1>3 DEF y, len, end, b, whole
  <2> HIDE DEF names
  <2>14. ASSUME ls' = [ls EXCEPT !.diroffset = end, !.blockoffset = IF spans THEN 0 ELSE off + len,
                                 !.names = names]
         PROVE  /\ ls'.names = names /\ ls'.diroffset = end
                /\ ls'.blockoffset = IF spans THEN 0 ELSE off + len
    <3>1. ls' = [fd |-> ls.fd, blockoffset |-> IF spans THEN 0 ELSE off + len, diroffset |-> end,
                 names |-> names]
      BY <2>14
    <3> QED BY <3>1
  <2>15. ASSUME NEW q \in Lossy(D, r), q + BlockCells < end
         PROVE  \/ UNCHANGED << pc, ret >> /\ NamesKept(D, r, ls'.names)
                \/ EndOfList(ls.names) /\ NamesKept(D, r, ls.names)
    <3>1. NamesKept(D, r, ls.names) BY <2>10, <2>15
    <3>2. NamesKept(D, r, names) BY <3>1, KeptGrows DEF names
    <3> QED BY <2>12, <2>14, <3>1, <3>2
  <2>16. ASSUME NEW q \in Lossy(D, r), q + BlockCells <= end, whole
         PROVE  \/ UNCHANGED << pc, ret >> /\ NamesKept(D, r, ls'.names)
                \/ EndOfList(ls.names) /\ (~OnDisc(b) /\ spans)
    <3>1. NamesKept(D, r, names) BY <2>11, <2>16
    <3> QED BY <2>12, <2>13, <2>14, <3>1
  <2>e. end = pos + len BY DEF end
  <2>17. CASE off + len <= z
    <3>1. ~spans /\ off + len \in 0 .. BlockCells - 1 BY <1>4, <2>2, <2>8, <2>17
    <3>2. whole BY <1>4, <2>2, <2>8, <2>9, <2>17
    <3>3. OnRecord(D, r, pos + len) /\ Buffered(D, r, blk, off + len, pos + len)
      BY <2>0, <2>1, <2>2, <2>7, <2>17, NextInBuffer
    <3>4. /\ data_block' = blk /\ UNCHANGED << pc, ret >>
          /\ ls'.names = names /\ ls'.diroffset = end /\ ls'.blockoffset = off + len
      BY <2>12, <2>13, <2>14, <3>1
    <3>5. NamesBefore(D, r, names, end) BY <2>6, <3>2
    <3>6. ListAt(D, r, ls', data_block') BY <2>e, <3>1, <3>3, <3>4, <3>5 DEF ListAt
    <3> QED BY <3>4, <3>6
  <2>18. CASE off + len > z
    <3>1. CellOf(D, r, pos + (z - off)) # << >>
      <4>1. z - off \in 0 .. len - 1 BY <1>4, <2>2, <2>8, <2>18
      <4> QED BY <2>1, <2>m, <4>1, RecordThere DEF m
    <3>2. CASE /\ z < BlockCells - 1
               /\ \E q \in Lossy(D, r) : pos + (z - off) + 1 = q + BlockCells
      <4>1. PICK q \in Lossy(D, r) : pos + (z - off) + 1 = q + BlockCells BY <3>2
      <4>2. q \in Nat BY <2>5 DEF Lossy
      <4>3. CASE off + len = z + 1
        <5>1. whole /\ ~spans BY <1>4, <2>2, <2>8, <2>9, <3>2, <4>3
        <5>2. q + BlockCells = end BY <1>4, <1>5, <2>2, <2>8, <2>e, <4>1, <4>2, <4>3
        <5>3. q + BlockCells <= end BY <1>4, <4>2, <5>2
        <5> QED BY <2>16, <5>1, <5>3
      <4>4. CASE off + len > z + 1
        <5>1. q + BlockCells < end BY <1>4, <1>5, <2>2, <2>8, <2>e, <4>1, <4>2, <4>4
        <5> QED BY <2>15, <5>1
      <4> QED BY <1>4, <2>2, <2>8, <2>18, <4>3, <4>4
    <3>3. CASE z = BlockCells - 1 /\ pos % SectorCells = off
      <4>1. spans BY <1>4, <2>2, <2>8, <2>18, <3>3
      <4>r. Reaches(pos, off, len) BY <3>3, <4>1 DEF Reaches
      <4>2. \/ pos \in Lossy(D, r)
            \/ CellOf(D, r, pos + (BlockCells - 1)) = << >> /\ len < BlockCells
        BY <2>1, <2>2, <4>r, LossyOrZero
      <4>3. CASE len > BlockCells
        <5>1. pos \in Lossy(D, r) BY <1>4, <2>2, <4>2, <4>3
        <5>2. pos + BlockCells < end BY <1>4, <1>5, <2>2, <2>e, <4>3
        <5> QED BY <2>15, <5>1, <5>2
      <4>4. CASE len <= BlockCells
        <5>1. /\ OnDisc(b)
              /\ \A i \in 0 .. BlockCells - 1 : Block(b)[i] = CellOf(D, r, pos + ((BlockCells - off) + i))
          BY <2>1, <2>2, <2>b, <4>r, <4>4, SecondHalf
        <5>2. whole
          <6>1. ASSUME NEW i \in 1 .. len - 1, i < BlockCells - off PROVE blk[off + i] = CellOf(D, r, pos + i)
            <7>1. off + i \in off .. z /\ (off + i) - off = i BY <1>4, <2>2, <2>8, <3>3, <6>1
            <7> QED BY <2>7, <7>1
          <6>2. ASSUME NEW i \in 1 .. len - 1, ~(i < BlockCells - off)
                PROVE  /\ i - (BlockCells - off) \in 0 .. BlockCells - 1
                       /\ Block(b)[i - (BlockCells - off)] = CellOf(D, r, pos + i)
            <7>1. /\ i - (BlockCells - off) \in 0 .. BlockCells - 1
                  /\ (BlockCells - off) + (i - (BlockCells - off)) = i
              BY <1>4, <2>2, <4>4, <6>2
            <7> QED BY <5>1, <7>1
          <6> QED BY <1>6, <2>1, <2>2, <5>1, <6>1, <6>2, IntactIs DEF whole
        <5>3. CASE len = BlockCells
          <6>1. pos \in Lossy(D, r) BY <1>4, <2>2, <4>2, <5>3
          <6>2. pos + BlockCells <= end BY <1>4, <1>5, <2>2, <2>e, <5>3
          <6> QED BY <2>16, <5>1, <5>2, <6>1, <6>2
        <5>4. CASE len < BlockCells
          <6>1. OnRecord(D, r, pos + len) /\ Buffered(D, r, Copied(blk, off, len, b), 0, pos + len)
            BY <2>1, <2>2, <2>7, <2>b, <4>r, <4>2, <5>4, NextCopied DEF Splits
          <6>2. /\ data_block' = Copied(blk, off, len, b) /\ UNCHANGED << pc, ret >>
                /\ ls'.names = names /\ ls'.diroffset = end /\ ls'.blockoffset = 0
            BY <2>12, <2>13, <2>14, <4>1, <5>1
          <6>3. NamesBefore(D, r, names, end) BY <2>6, <5>2
          <6>4. 0 \in 0 .. BlockCells - 1 BY <1>4
          <6>5. ListAt(D, r, ls', data_block') BY <2>e, <6>1, <6>2, <6>3, <6>4 DEF ListAt
          <6> QED BY <6>2, <6>5
        <5> QED BY <1>4, <2>2, <4>4, <5>3, <5>4
      <4> QED BY <1>4, <2>2, <4>3, <4>4
    <3> QED BY <2>7, <3>1, <3>2, <3>3
  <2> QED BY <1>4, <2>2, <2>8, <2>17, <2>18
<1> QED BY <1>7, <1>8

(* A listing under way has the names of the records before its place, or is *)
(* behind a place where bytes are lost.                                     *)
Listing ==
  /\ pc = "list" =>
       /\ ls = [fd |-> ls.fd, blockoffset |-> ls.blockoffset, diroffset |-> ls.diroffset,
                names |-> ls.names]
       /\ ls.fd \in Slots /\ IsOpen(ls.fd) /\ table[ls.fd].mode = "dir"
       /\ LET r == open[ls.fd].wanted IN
          seen = {} /\ ~open[ls.fd].part => ListAt(D, r, ls, data_block) \/ NamesKept(D, r, ls.names)
  /\ ret.call = "list" => pc = "idle" /\ ListingRight

LEMMA OpenDir ==
  ASSUME IInv, Lawful, Ways, NEW s \in Slots, IsOpen(s), ~open[s].part
  PROVE  LET n == table[s]
             r == open[s].wanted
         IN /\ Good(D) /\ NodeIn(D, n) /\ sb.rock = Rock(D)
            /\ r \in DOMAIN D.rec /\ n.first_extent = Place(D, r)
            /\ D.rec[r].dir <=> n.mode = "dir"
            /\ D.rec[r].dir => n.size = D.rec[r].size
<1> DEFINE n == table[s]
           r == open[s].wanted
           x == RecAt(D, n.inumber)
<1>1. /\ Good(D) /\ NodeIn(D, n) /\ Whole(D, n, past) /\ n.mode # "link"
      /\ x \in DOMAIN D.rec /\ n.first_extent = Place(D, x)
      /\ r = Home(D, x) /\ r \in DOMAIN D.rec
  BY OpenFile
<1>2. sb.ok /\ sb.rock = Rock(D)
  <2>1. table[s].free = 0 BY DEF IInv, Opened
  <2>2. sb.ok BY <2>1, HeldNode DEF Lawful
  <2> QED BY <2>2, Zenon DEF Lawful, Mounted
<1>3. D.rec[x].link = << >> BY <1>1, Zenon DEF Whole, RecAt
<1>4. n.mode = IF D.rec[x].dir THEN "dir" ELSE "file" BY <1>1, <1>3, Zenon DEF Whole, RecAt
<1>5. D.rec[x].dir => n.size = D.rec[x].size BY <1>1, <1>3, Zenon DEF Whole, RecAt
<1> HIDE DEF n, r, x
<1>6. /\ D.rec[r].dir = D.rec[x].dir /\ Place(D, r) = Place(D, x)
      /\ D.rec[x].dir => D.rec[r].size = D.rec[x].size
  BY <1>1, HomeIs
<1>7. D.rec[r].dir <=> n.mode = "dir" BY <1>4, <1>6
<1> QED BY <1>1, <1>2, <1>5, <1>6, <1>7 DEF n, r

(* What a listing that has come to its end must have. *)
ListedAll(d, r, names) ==
  LET v == Listed(d, r) IN
  /\ Lossy(d, r) = {} => Len(names) = Cardinality(v)
  /\ \A p \in v : Legible(d, r, p) =>
       LET k == Cardinality({q \in v : q <= p})
           m == CellOf(d, r, p)[1]
       IN k <= Len(names) /\ (names[k] \in d.rec[m].known \/ FarName(d, m))

LEMMA AllNamed ==
  ASSUME NEW d, NEW r, NEW names, NEW pos,
         \/ NamesKept(d, r, names)
         \/ NamesBefore(d, r, names, pos) /\ \A q \in Listed(d, r) : q < pos
  PROVE  ListedAll(d, r, names)
<1> DEFINE v == Listed(d, r)
<1>1. ASSUME NEW p \in v, Legible(d, r, p) PROVE NameIn(d, r, names, p) BY <1>1 DEF NamesKept, NamesBefore
<1>2. ASSUME Lossy(d, r) = {} PROVE Len(names) = Cardinality(v)
  <2>1. NamesBefore(d, r, names, pos) /\ \A q \in v : q < pos BY <1>2 DEF NamesKept
  <2>2. {q \in v : q < pos} = v BY <2>1
  <2> QED BY <2>1, <2>2 DEF NamesBefore
<1>3. IsSeq(names) BY DEF NamesKept, NamesBefore
<1>4. Len(names) \in Nat
  <2>1. names \in Seq({names[i] : i \in DOMAIN names}) BY <1>3 DEF IsSeq
  <2> QED BY <2>1
<1>5. ASSUME NEW p \in v, Legible(d, r, p)
      PROVE  LET k == Cardinality({q \in v : q <= p})
                 m == CellOf(d, r, p)[1]
             IN k <= Len(names) /\ (names[k] \in d.rec[m].known \/ FarName(d, m))
  <2> DEFINE k == Cardinality({q \in v : q <= p})
  <2>1. k \in 1 .. Len(names)
    BY <1>1, <1>5 DEF NameIn
  <2>2. k <= Len(names)
    <3> HIDE DEF k
    <3> QED BY <1>4, <2>1
  <2> QED BY <1>1, <1>5, <2>2 DEF NameIn
<1> QED BY <1>2, <1>5 DEF ListedAll

LEMMA ListsFromStart ==
  ASSUME Good(D), NEW n, NodeIn(D, n), NEW r \in DOMAIN D.rec, D.rec[r].dir, n.first_extent = Place(D, r)
  PROVE  LET b == iso_bmap(n, 0) IN
         /\ b # 0 /\ OnDisc(b)
         /\ ListAt(D, r, [fd |-> 0, blockoffset |-> 0, diroffset |-> 0, names |-> << >>], Block(b))
<1> DEFINE size == D.rec[r].size
           v == Listed(D, r)
<1>1. BlockCells \in Nat \ {0} /\ SectorCells \in Nat \ {0} BY Cellular
<1>2. size \in Nat /\ size > 0 /\ Begins(CellOf(D, r, 0)) BY Recorded, DirFacts
<1>3. 0 % SectorCells = 0 /\ 0 \div BlockCells = 0 BY <1>1
<1>4. OnDisc(iso_bmap(n, 0)) /\ Buffered(D, r, Block(iso_bmap(n, 0)), 0, 0)
  BY <1>2, <1>3, FirstBlock
<1>5. iso_bmap(n, 0) # 0
  <2> DEFINE P == Place(D, r) \div BlockCells
  <2>1. P + 0 > 0 BY <1>2, <1>3, SectorOnDisc
  <2>2. iso_bmap(n, 0) = P + 0 BY DEF iso_bmap
  <2> QED BY <2>1, <2>2
<1>6. OnRecord(D, r, 0) BY <1>2 DEF OnRecord
<1>7. NamesBefore(D, r, << >>, 0)
  <2>1. v \subseteq Nat BY ListedIs
  <2> HIDE DEF v
  <2>5. \A p \in v : ~(p < 0) BY <2>1
  <2>2. {q \in v : q < 0} = {} BY <2>5
  <2>3. Cardinality({q \in v : q < 0}) = 0 BY <2>2, FS_EmptySet
  <2>4. IsSeq(<< >>) /\ Len(<< >>) = 0 BY DEF IsSeq
  <2> QED BY <2>3, <2>4, <2>5 DEF NamesBefore, v
<1>8. 0 \in 0 .. BlockCells - 1 BY <1>1
<1> QED BY <1>4, <1>5, <1>6, <1>7, <1>8 DEF ListAt

LEMMA ListingStart == ASSUME IInv, Lawful, Ways, NEW fd \in Slots, ListStart(fd) PROVE Listing'
<1>1. PICK bad : LET b == iso_bmap(table[fd], 0) IN
        /\ seen' = IF bad = {} THEN {} ELSE {"read"}
        /\ IF table[fd].mode # "dir" \/ b = 0 \/ ~OnDisc(b) \/ bad # {}
           THEN /\ ret' = [call |-> "list", fd |-> fd, val |-> << >>]
                /\ UNCHANGED << pc, data_block, ls >>
           ELSE /\ pc' = "list" /\ data_block' = Block(b)
                /\ ls' = [NoList EXCEPT !.fd = fd] /\ ret' = NoRet
  BY DEF ListStart
<1>2. pc = "idle" /\ IsOpen(fd) /\ disc' = disc /\ D' = D /\ open' = open /\ table' = table
  BY DEF ListStart, D
<1> DEFINE b == iso_bmap(table[fd], 0)
           r == open[fd].wanted
           start == [fd |-> 0, blockoffset |-> 0, diroffset |-> 0, names |-> << >>]
<1>3. ASSUME ~open[fd].part, table[fd].mode = "dir"
      PROVE  /\ D.rec[r].dir
             /\ b # 0 /\ OnDisc(b) /\ ListAt(D, r, start, Block(b))
  <2>1. /\ Good(D) /\ NodeIn(D, table[fd]) /\ r \in DOMAIN D.rec
        /\ table[fd].first_extent = Place(D, r) /\ D.rec[r].dir
    BY <1>2, <1>3, OpenDir
  <2> QED BY <2>1, ListsFromStart
<1>4. CASE table[fd].mode # "dir" \/ b = 0 \/ ~OnDisc(b) \/ bad # {}
  <2>1. ret' = [call |-> "list", fd |-> fd, val |-> << >>] /\ pc' = "idle" BY <1>1, <1>2, <1>4
  <2>2. ASSUME seen' = {}, ~open[fd].part PROVE ~D.rec[r].dir
    <3>1. bad = {} BY <1>1, <2>2
    <3>2. table[fd].mode # "dir" BY <1>3, <1>4, <2>2, <3>1
    <3> QED BY <1>2, <2>2, <3>2, OpenDir
  <2>3. ret'.fd = fd /\ ret'.val = << >> BY <2>1
  <2>4. ListingRight' BY <1>2, <2>2, <2>3 DEF ListingRight
  <2> QED BY <2>1, <2>4 DEF Listing
<1>5. CASE ~(table[fd].mode # "dir" \/ b = 0 \/ ~OnDisc(b) \/ bad # {})
  <2>1. /\ pc' = "list" /\ data_block' = Block(b)
        /\ ls' = [NoList EXCEPT !.fd = fd] /\ ret' = NoRet
    BY <1>1, <1>5
  <2>2. ls' = [fd |-> fd, blockoffset |-> 0, diroffset |-> 0, names |-> << >>] BY <2>1 DEF NoList
  <2>3. /\ ls'.fd = fd /\ ls'.blockoffset = 0 /\ ls'.diroffset = 0 /\ ls'.names = << >> BY <2>2
  <2>4. ret'.call # "list" BY <2>1 DEF NoRet
  <2> HIDE DEF r, b
  <2>5. ~open[fd].part => ListAt(D, r, ls', data_block') BY <1>3, <1>5, <2>1, <2>3 DEF ListAt
  <2> QED BY <1>2, <1>5, <2>1, <2>2, <2>3, <2>4, <2>5 DEF Listing, IsOpen, r
<1> QED BY <1>4, <1>5

LEMMA ListingStep == ASSUME IInv, Lawful, Ways, Listing, iso_readdir PROVE Listing'
<1> DEFINE fd == ls.fd
           n == table[fd]
           r == open[fd].wanted
           pos == ls.diroffset
           off == ls.blockoffset
           next == SectorAfter(pos)
           b == iso_bmap(n, next \div BlockCells)
           Shape(l) == l = [fd |-> l.fd, blockoffset |-> l.blockoffset, diroffset |-> l.diroffset,
                            names |-> l.names]
<1>1. /\ pc = "list" /\ Shape(ls) /\ fd \in Slots /\ IsOpen(fd) /\ n.mode = "dir"
      /\ seen = {} /\ ~open[fd].part => ListAt(D, r, ls, data_block) \/ NamesKept(D, r, ls.names)
  BY DEF iso_readdir, Listing
<1>2. disc' = disc /\ D' = D /\ open' = open /\ table' = table BY DEF iso_readdir, D
<1>3. ret.call # "list" BY <1>1 DEF Listing
<1> HIDE DEF Shape
<1>4. ASSUME NEW blk, NEW o, NEW p, ListRecord(blk, o, p)
      PROVE  /\ seen \subseteq seen'
             /\ \/ EndOfList(ls.names)
                \/ UNCHANGED << pc, ret >> /\ Shape(ls') /\ ls'.fd = fd
  <2>1. seen \subseteq seen' BY <1>4 DEF ListRecord, Note
  <2>2. \/ EndOfList(ls.names)
        \/ /\ UNCHANGED << pc, ret >>
           /\ \E x, y, z : ls' = [ls EXCEPT !.diroffset = x, !.blockoffset = y, !.names = z]
    <3>1. PICK len, beyond, bad, name : Turned(blk, o, len, p, beyond, bad, name) BY <1>4, ListRecordDoes
    <3> QED BY <3>1, Zenon DEF Turned
  <2>3. ASSUME NEW x, NEW y, NEW z, ls' = [ls EXCEPT !.diroffset = x, !.blockoffset = y, !.names = z]
        PROVE  Shape(ls') /\ ls'.fd = fd
    <3>1. ls' = [fd |-> fd, blockoffset |-> y, diroffset |-> x, names |-> z]
      BY <1>1, <2>3 DEF Shape
    <3> QED BY <3>1 DEF Shape
  <2> QED BY <2>1, <2>2, <2>3, Zenon
<1>5. /\ seen \subseteq seen'
      /\ \/ EndOfList(ls.names)
         \/ UNCHANGED << pc, ret >> /\ Shape(ls') /\ ls'.fd = fd
  <2>1. \/ ListRecord(data_block, off, pos)
        \/ ListRecord(Block(b), 0, next)
        \/ EndOfList(ls.names) /\ \E bad : Note(bad, {})
    BY Zenon DEF iso_readdir
  <2>2. (\E bad : Note(bad, {})) => seen \subseteq seen' BY DEF Note
  <2> QED BY <1>4, <2>1, <2>2
<1>9. ASSUME NamesKept(D, r, ls.names)
      PROVE  \/ NamesKept(D, r, ls'.names)
             \/ EndOfList(ls.names)
  <2>1. ASSUME NEW blk, NEW o, NEW p, ListRecord(blk, o, p)
        PROVE  NamesKept(D, r, ls'.names) \/ EndOfList(ls.names)
    <3>1. \/ EndOfList(ls.names)
          \/ \E x, y, name : ls' = [ls EXCEPT !.diroffset = x, !.blockoffset = y,
                                              !.names = IF name = << >> THEN @ ELSE Append(@, name)]
      <4>1. PICK len, beyond, bad, name : Turned(blk, o, len, p, beyond, bad, name) BY <2>1, ListRecordDoes
      <4> QED BY <4>1, Zenon DEF Turned
    <3>2. ASSUME NEW x, NEW y, NEW name,
                 ls' = [ls EXCEPT !.diroffset = x, !.blockoffset = y,
                                  !.names = IF name = << >> THEN @ ELSE Append(@, name)]
          PROVE  NamesKept(D, r, ls'.names)
      <4> DEFINE new == IF name = << >> THEN ls.names ELSE Append(ls.names, name)
      <4>1. NamesKept(D, r, new) BY <1>9, KeptGrows
      <4>2. ls' = [ls EXCEPT !.diroffset = x, !.blockoffset = y, !.names = new] BY <3>2
      <4> HIDE DEF new
      <4>3. ls' = [fd |-> fd, blockoffset |-> y, diroffset |-> x, names |-> new] BY <1>1, <4>2 DEF Shape
      <4> QED BY <4>1, <4>3
    <3>3. CASE EndOfList(ls.names) BY <3>3
    <3>4. ASSUME NEW x, NEW y, NEW name,
                 ls' = [ls EXCEPT !.diroffset = x, !.blockoffset = y,
                                  !.names = IF name = << >> THEN @ ELSE Append(@, name)]
          PROVE  NamesKept(D, r, ls'.names)
      BY <3>4, <3>2
    <3> HIDE DEF r, fd, n, pos, off, next, b
    <3>5. CASE \E x, y, name : ls' = [ls EXCEPT !.diroffset = x, !.blockoffset = y,
                                          !.names = IF name = << >> THEN @ ELSE Append(@, name)]
      <4>1. PICK x, y, name : ls' = [ls EXCEPT !.diroffset = x, !.blockoffset = y,
                                     !.names = IF name = << >> THEN @ ELSE Append(@, name)]
        BY <3>5, Zenon
      <4> QED BY <4>1, <3>4, Zenon
    <3> QED BY <3>1, <3>3, <3>5
  <2>2. \/ \E blk, o, p : ListRecord(blk, o, p)
        \/ EndOfList(ls.names)
    BY Zenon DEF iso_readdir
  <2> QED BY <2>1, <2>2
<1>6. ASSUME seen' = {}, ~open[fd].part
      PROVE  \/ UNCHANGED << pc, ret >> /\ (ListAt(D, r, ls', data_block') \/ NamesKept(D, r, ls'.names))
             \/ EndOfList(ls.names) /\ ListedAll(D, r, ls.names)
  <2>1. CASE NamesKept(D, r, ls.names)
    <3>1. ListedAll(D, r, ls.names) BY <2>1, AllNamed
    <3> QED BY <1>5, <1>9, <2>1, <3>1
  <2> SUFFICES ASSUME ~NamesKept(D, r, ls.names)
               PROVE  \/ UNCHANGED << pc, ret >> /\ (ListAt(D, r, ls', data_block') \/ NamesKept(D, r, ls'.names))
                      \/ EndOfList(ls.names) /\ ListedAll(D, r, ls.names)
    BY <2>1
  <2>0. ListAt(D, r, ls, data_block) BY <1>1, <1>5, <1>6
  <2>2. /\ Good(D) /\ NodeIn(D, n) /\ sb.rock = Rock(D) /\ r \in DOMAIN D.rec
        /\ n.first_extent = Place(D, r) /\ D.rec[r].dir /\ n.size = D.rec[r].size
    BY <1>1, <1>6, OpenDir
  <2>3. /\ off \in 0 .. BlockCells - 1 /\ OnRecord(D, r, pos)
        /\ Buffered(D, r, data_block, off, pos) /\ NamesBefore(D, r, ls.names, pos)
    BY <2>0 DEF ListAt
  <2> DEFINE Turn(blk, o, p) ==
               /\ o \in 0 .. BlockCells - 1 /\ OnRecord(D, r, p)
               /\ Buffered(D, r, blk, o, p) /\ NamesBefore(D, r, ls.names, p)
               /\ blk[o] = << >> => o = 0
               /\ ListRecord(blk, o, p)
  <2>4. ASSUME NEW blk, NEW o, NEW p, Turn(blk, o, p)
        PROVE  \/ UNCHANGED << pc, ret >> /\ (ListAt(D, r, ls', data_block') \/ NamesKept(D, r, ls'.names))
               \/ EndOfList(ls.names) /\ ListedAll(D, r, ls.names)
    <3>1. ls = [fd |-> ls.fd, blockoffset |-> ls.blockoffset, diroffset |-> ls.diroffset,
                names |-> ls.names]
      BY <1>1 DEF Shape
    <3> QED BY <1>6, <2>2, <2>4, <3>1, ListTurn, AllNamed
  <2>5. CASE data_block[off] # << >>
    <3>1. ListRecord(data_block, off, pos) BY <2>5 DEF iso_readdir
    <3>2. Turn(data_block, off, pos) BY <2>3, <2>5, <3>1
    <3> QED BY <2>4, <3>2
  <2>6. CASE data_block[off] = << >>
    <3>1. CellOf(D, r, pos) = << >> BY <2>2, <2>3, <2>6, InBuffer
    <3>2. pos \in 0 .. D.rec[r].size - 1 BY <2>3 DEF OnRecord
    <3>3. /\ next \in Nat /\ pos < next /\ next <= D.rec[r].size /\ next % SectorCells = 0
          /\ \A q \in StartsIn(D, r) : q < next => q < pos
          /\ next < D.rec[r].size => CellOf(D, r, next) = << >> \/ Begins(CellOf(D, r, next))
      BY <2>2, <3>1, <3>2, ZeroAhead
    <3>4. D.rec[r].size \in Nat /\ Listed(D, r) \subseteq StartsIn(D, r)
          /\ StartsIn(D, r) \subseteq Nat /\ \A p \in StartsIn(D, r) : p <= D.rec[r].size - 1
      BY <2>2, Recorded, ListedIs
    <3>5. pos \in Nat BY <3>2
    <3> HIDE DEF next
    <3>6. CASE next < D.rec[r].size
      <4>1. OnDisc(b) /\ Buffered(D, r, Block(b), 0, next) BY <2>2, <3>3, <3>6, FirstBlock
      <4>2. \/ ListRecord(Block(b), 0, next)
            \/ Note({"dir"}, {})
        BY <2>2, <2>6, <3>6, <4>1 DEF iso_readdir, next
      <4>3. ~Note({"dir"}, {}) BY <1>6 DEF Note
      <4>4. OnRecord(D, r, next) BY <3>3, <3>4, <3>6 DEF OnRecord
      <4>5. NamesBefore(D, r, ls.names, next)
        <5>1. \A q \in Listed(D, r) : q < next => q < pos BY <3>3, <3>4
        <5>2. pos <= next BY <3>3, <3>5
        <5> QED BY <2>2, <2>3, <3>3, <3>5, <5>1, <5>2, NamesSkip
      <4>6. 0 \in 0 .. BlockCells - 1 BY Cellular
      <4> HIDE DEF b
      <4>7. Turn(Block(b), 0, next) BY <4>1, <4>2, <4>3, <4>4, <4>5, <4>6
      <4> HIDE DEF Turn
      <4> QED BY <2>4, <4>7
    <3>7. CASE ~(next < D.rec[r].size)
      <4>1. next = D.rec[r].size BY <3>3, <3>4, <3>7
      <4>2. ASSUME NEW q \in Listed(D, r) PROVE q < pos
        <5>1. q \in StartsIn(D, r) /\ q \in Nat /\ q <= D.rec[r].size - 1 BY <3>4
        <5>2. q < next BY <3>3, <3>4, <4>1, <5>1
        <5> QED BY <3>3, <5>1, <5>2
      <4>3. EndOfList(ls.names) BY <2>2, <2>6, <3>7 DEF iso_readdir, next
      <4> QED BY <2>3, <4>2, <4>3, AllNamed
    <3> QED BY <3>6, <3>7
  <2> QED BY <2>5, <2>6
<1>7. CASE EndOfList(ls.names)
  <2>1. pc' = "idle" /\ ret' = [call |-> "list", fd |-> fd, val |-> ls.names]
    BY <1>7 DEF EndOfList
  <2>2. ret'.fd = fd /\ ret'.val = ls.names BY <2>1
  <2>3. ASSUME seen' = {}, ~open[fd].part
        PROVE  D.rec[r].dir /\ ListedAll(D, r, ls.names)
    <3>1. D.rec[r].dir BY <1>1, <2>3, OpenDir
    <3>2. ~(UNCHANGED << pc, ret >>) BY <1>1, <2>1
    <3> QED BY <1>6, <2>3, <3>1, <3>2
  <2>4. ListingRight' BY <1>2, <2>2, <2>3 DEF ListingRight, ListedAll
  <2> QED BY <2>1, <2>4 DEF Listing
<1>8. CASE UNCHANGED << pc, ret >> /\ Shape(ls') /\ ls'.fd = fd
  <2>1. ASSUME seen' = {}, ~open[fd].part
        PROVE  ListAt(D, r, ls', data_block') \/ NamesKept(D, r, ls'.names)
    <3>1. ~EndOfList(ls.names) BY <1>1, <1>8 DEF EndOfList
    <3> QED BY <1>6, <2>1, <3>1
  <2>2. open'[fd].used = 1 BY <1>1, <1>2 DEF IsOpen
  <2>3. ls'.fd = fd /\ pc' = pc /\ ret' = ret BY <1>8
  <2>4. /\ ls' = [fd |-> ls'.fd, blockoffset |-> ls'.blockoffset, diroffset |-> ls'.diroffset,
                   names |-> ls'.names]
    BY <1>8 DEF Shape
  <2>5. /\ ls'.fd \in Slots /\ open'[ls'.fd].used = 1 /\ table'[ls'.fd].mode = "dir"
    BY <1>1, <1>2, <2>2, <2>3
  <2>6. seen' = {} /\ ~open'[ls'.fd].part
          => \/ ListAt(D, open'[ls'.fd].wanted, ls', data_block')
             \/ NamesKept(D, open'[ls'.fd].wanted, ls'.names)
    BY <1>2, <2>1, <2>3
  <2> QED BY <1>2, <1>3, <2>3, <2>4, <2>5, <2>6 DEF Listing, IsOpen
<1> QED BY <1>5, <1>7, <1>8

LEMMA ListingNext == ASSUME IInv, Lawful, Ways, Listing, [Next]_vars PROVE Listing'
<1>0. ASSUME pc' # "list", ret'.call # "list" PROVE Listing' BY <1>0 DEF Listing
<1>1. CASE FindStart \/ iso_find_entry
  <2>1. ret' = ret /\ Looking /\ pc' \in {"look", "scan", "missing", "found"}
    BY <1>1 DEF FindStart, iso_find_entry, ScanEnd, ScanSector, ScanRecord, Missing, Looking
  <2>2. ret.call # "list" BY <2>1 DEF Listing, Looking
  <2> QED BY <1>0, <2>1, <2>2
<1>2. ASSUME NEW t, NEW s, Looking, Leave(t, s) PROVE Listing'
  <2>1. ret'.call = "open" BY <1>2, LeftRet
  <2>2. pc' # "list" BY <1>2 DEF Leave
  <2> QED BY <1>0, <2>1, <2>2
<1>3. CASE LookupMissing
  <2>1. Looking /\ \E t, s : Leave(t, s) BY <1>3 DEF LookupMissing, Looking
  <2> QED BY <1>2, <2>1
<1>4. CASE LookupDir
  <2>1. Looking BY <1>4 DEF LookupDir, Looking
  <2>2. \/ \E t, s : Leave(t, s)
        \/ pc' = "look" /\ ret' = ret
    BY <1>4 DEF LookupDir
  <2>3. ret.call # "list" BY <2>1 DEF Listing, Looking
  <2> QED BY <1>0, <1>2, <2>1, <2>2, <2>3
<1>5. CASE LookupLast
  <2>1. Looking /\ \E t, s : Leave(t, s) BY <1>5 DEF LookupLast, Looking
  <2> QED BY <1>2, <2>1
<1>6. CASE iso_follow_link
  <2>1. ret.call = "open" /\ ret = [call |-> "open", wanted |-> ret.wanted, val |-> ret.val, room |-> ret.room]
    BY <1>6 DEF iso_follow_link, Lawful, Reading
  <2>2. pc' # "list" /\ (ret' = ret \/ ret' = [ret EXCEPT !.val = NoSlot])
    BY <1>6 DEF iso_follow_link
  <2>3. ret'.call = "open" BY <2>1, <2>2
  <2> QED BY <1>0, <2>2, <2>3
<1>7. CASE iso_readdir BY <1>7, ListingStep
<1>8. CASE iso_mount
  <2>1. pc' # "list" /\ ret'.call # "list" BY <1>8 DEF iso_mount, NoRet
  <2> QED BY <1>0, <2>1
<1>9. ASSUME NEW name \in Requests, iso_open(name) PROVE Listing'
  <2>1. pc' # "list" /\ ret'.call # "list" BY <1>9 DEF iso_open
  <2> QED BY <1>0, <2>1
<1>10. ASSUME NEW fd \in Slots,
              \/ iso_close(fd) \/ iso_fstat(fd)
              \/ \E blkno \in 0 .. MaxBlkno, nblks \in 1 .. MaxRun : iso_bread(fd, blkno, nblks)
       PROVE  Listing'
  <2>1. pc' = "idle" /\ ret'.call \in {"close", "fstat", "bread"}
    <3>1. iso_close(fd) => pc' = "idle" /\ ret'.call = "close" BY DEF iso_close, NoRet
    <3>2. iso_fstat(fd) => pc' = "idle" /\ ret'.call = "fstat" BY DEF iso_fstat
    <3>3. ASSUME NEW blkno, NEW nblks, iso_bread(fd, blkno, nblks)
          PROVE  pc' = "idle" /\ ret'.call = "bread"
      BY <3>3 DEF iso_bread
    <3> QED BY <1>10, <3>1, <3>2, <3>3
  <2> QED BY <1>0, <2>1
<1>11. ASSUME NEW fd \in Slots, ListStart(fd) PROVE Listing' BY <1>11, ListingStart
<1>12. CASE UNCHANGED vars
  <2>1. UNCHANGED << disc, table, pc, ls, data_block, ret, open, seen >>
    BY <1>12 DEF vars
  <2>2. D' = D BY <2>1 DEF D
  <2> QED BY <2>1, <2>2 DEF Listing, ListingRight, IsOpen
<1> QED BY <1>1, <1>3, <1>4, <1>5, <1>6, <1>7, <1>8, <1>9, <1>10, <1>11, <1>12
        DEF Next, Driver, User, Rest

(* A listing in which no read fails has the names of the directory's        *)
(* records that Rock Ridge names, each in its place, as far as              *)
(* iso_readdir_i copies back what follows a record that spans two blocks;   *)
(* it is whole, and has nothing else, where no bytes are lost that way.     *)
THEOREM ListsTheDirectory == Spec => []ListingRight
<1> DEFINE J == IInv /\ Lawful /\ Ways /\ Listing
<1>1. Init => Listing
  <2>1. ASSUME Init PROVE pc = "idle" /\ ret.call = "none" BY <2>1 DEF Init, NoRet
  <2> QED BY <2>1 DEF Listing
<1>2. J /\ [Next]_vars => J'
  BY NextInv, MountedNext, ScanningNext, CountsNext, ReadingNext, WaysNext, ListingNext DEF Lawful
<1>3. J => ListingRight BY DEF Listing, ListingRight
<1> QED BY <1>1, <1>2, <1>3, InitInv, InitLawful, InitWays, PTL DEF Spec
=============================================================================
