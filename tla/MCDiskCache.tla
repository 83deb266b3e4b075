---------------------------- MODULE MCDiskCache ----------------------------
(* Instances of DiskCache for TLC. *)
EXTENDS DiskCache, TLC

Symmetry == Permutations(Clients)

(* The last block of an output is its last byte; one output is empty.     *)
Mixed == [o \in Outputs |-> IF o = "o1" THEN 2 ELSE 0]

(* Damage that leaves o1 with the right size and o2 too long.             *)
AnyDamage == {<<"good", "bad">>}
=============================================================================
