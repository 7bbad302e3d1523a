------------------------ MODULE MCDomainJobDiscard -------------------------
(* Instances of DomainJobDiscard for TLC. *)
EXTENDS DomainJobDiscard, TLC

Symmetry == Permutations(Threads)
=============================================================================
