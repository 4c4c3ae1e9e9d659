------------------------------- MODULE MCBio --------------------------------
(* Two buffers and three blocks, so that buffers are recycled; two  *)
(* contents, so that a stale block can be told from the latest.             *)
EXTENDS Bio

MCBlocks == 0 .. 2
=============================================================================
