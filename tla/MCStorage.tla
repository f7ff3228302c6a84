----------------------------- MODULE MCStorage -----------------------------
(***************************************************************************)
(* A USB stick without partitions that sorts before an internal disk with  *)
(* two, an internal disk with nothing on it, a LUKS mapper and an md array *)
(* (which has no dm/name).                                                 *)
(***************************************************************************)
EXTENDS Storage, TLC

DiskNames == <<"dm0", "md0", "nvme", "sda", "sdb">>
PartsOfDisk == [d \in {"nvme", "sda", "sdb"} |-> IF d = "sdb" THEN <<"sdb1", "sdb2">> ELSE <<>>]
MountPointSymmetry == Permutations(MountPoints)
=============================================================================
