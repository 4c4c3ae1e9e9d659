---------------------------- MODULE MCConfigFile ----------------------------
(* Every file of up to MaxLen characters, and longer ones, of two lines,   *)
(* made of the characters that matter most.                                *)
EXTENDS ConfigFile

CONSTANTS MaxLen, MaxLong
MCFiles == UNION {[1 .. n -> Alphabet] : n \in 0 .. MaxLen}
           \cup UNION {[1 .. n -> {"n", ":", "nl", "x"}] : n \in MaxLen + 1 .. MaxLong}
=============================================================================
