---------------------------- MODULE MCLockSpace ----------------------------
(* Instances of LockSpace for TLC. *)
EXTENDS LockSpace, TLC

Symmetry == Permutations(Daemons) \cup Permutations(Owners) \cup Permutations(Inodes)
=============================================================================
