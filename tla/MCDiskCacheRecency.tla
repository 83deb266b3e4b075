------------------------ MODULE MCDiskCacheRecency ------------------------
(* Instances of DiskCacheRecency for TLC: outputs of two blocks.           *)
EXTENDS DiskCacheRecency

TwoBlocks == [o \in Outputs |-> 2]
NoDamage == {}
=============================================================================
