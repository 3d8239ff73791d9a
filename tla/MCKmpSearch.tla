---------------------------- MODULE MCKmpSearch ----------------------------
(* Every pattern of up to MaxPattern bytes over Byte. *)
EXTENDS KmpSearch
LOCAL INSTANCE SequencesExt

CONSTANT MaxPattern

MCPatterns == BoundedSeq(Byte, MaxPattern)
=============================================================================
