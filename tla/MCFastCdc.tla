----------------------------- MODULE MCFastCdc -----------------------------
(* Three-bit hashes, two bytes and every pair of masks.  The sizes make each
   region of the search empty, odd and even, and let a chunk be cut by either
   mask, by max_size and by the end. *)
EXTENDS FastCdc, TLC

MCGearTable == 0 :> 6 @@ 1 :> 5

Sizes == { <<1, 1, 1>>, <<1, 2, 4>>, <<2, 2, 5>>, <<2, 3, 4>>, <<3, 4, 6>>, <<1, 4, 5>> }

MCConfigs ==
    { [min_size |-> s[1], avg_size |-> s[2], max_size |-> s[3],
       mask_small |-> small, mask_large |-> large] :
        s \in Sizes, small, large \in SUBSET Bits }
=============================================================================
