---------------------------- MODULE MCDomainJob ----------------------------
(* Instances of DomainJob for TLC. *)
EXTENDS DomainJob, TLC

Symmetry == Permutations(Threads)
=============================================================================
