----------------------- MODULE MCSinglePatternSearch -----------------------
(* Every pattern of up to MaxPattern bytes over Byte.  With Modulus 7 and
   Base 4 most windows share their hash with another. *)
EXTENDS SinglePatternSearch
LOCAL INSTANCE SequencesExt

CONSTANT MaxPattern

MCPatterns == BoundedSeq(Byte, MaxPattern)
=============================================================================
