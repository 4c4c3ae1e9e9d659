----------------------------- MODULE BlockStore -----------------------------
(* What tools/bio.c promises to the ext2 library: a store of blocks whose   *)
(* reads see the latest writes, while the device below it lags behind.  A   *)
(* block is pending from the time it is written until it has reached the    *)
(* device; only pending blocks are ever written to the device.              *)
CONSTANTS Blocks, Data

VARIABLES
  content,      \* what bread returns for a block
  stable,       \* what the device holds
  pending,      \* blocks written since they were last put on the device
  call          \* the last call, with its block and data

vars == << content, stable, pending, call >>

Init ==
  /\ stable \in [Blocks -> Data] /\ content = stable
  /\ pending = {}
  /\ call = << >>

(* The blocks W reach the device. *)
WriteBack(W) ==
  stable' = [b \in Blocks |-> IF b \in W THEN content[b] ELSE stable[b]]

(* What the other blocks than b read as.  It stays the same, except that a  *)
(* block that could not be read may have become readable again.             *)
Others(b) ==
  \A c \in Blocks \ {b} :
    content'[c] = content[c] \/ (c \notin pending /\ content'[c] = stable[c])

Read(b) ==
  /\ \E W \in SUBSET (pending \ {b}) : WriteBack(W) /\ pending' = pending \ W
  /\ content' \in [Blocks -> Data] /\ Others(b)
  /\ content'[b] \in {content[b], stable[b]}
  /\ b \in pending => content'[b] = content[b]
  /\ call' = << "read", b, content'[b] >>

(* The device could not be read: the block reads as anything until it is    *)
(* written, dropped from the cache or the store is reset; the device keeps  *)
(* what it has.                                                             *)
ReadError(b) ==
  /\ b \notin pending
  /\ \E W \in SUBSET pending : WriteBack(W) /\ pending' = pending \ W
  /\ content' \in [Blocks -> Data] /\ Others(b)
  /\ call' = << "read error", b >>

Write(b, d) ==
  /\ \E W \in SUBSET (pending \ {b}) :
       WriteBack(W) /\ pending' = (pending \ W) \union {b}
  /\ content' \in [Blocks -> Data] /\ Others(b) /\ content'[b] = d
  /\ call' = << "write", b, d >>

Flush ==
  /\ WriteBack(pending) /\ pending' = {}
  /\ call' = << "flush" >> /\ UNCHANGED content

(* What is pending is lost. *)
Reset ==
  /\ content' = stable /\ pending' = {}
  /\ call' = << "reset" >> /\ UNCHANGED stable

Next ==
  \/ \E b \in Blocks : Read(b) \/ ReadError(b) \/ \E d \in Data : Write(b, d)
  \/ Flush \/ Reset

Spec == Init /\ [][Next]_vars
=============================================================================
