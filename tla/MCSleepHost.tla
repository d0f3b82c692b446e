---------------------------- MODULE MCSleepHost ----------------------------
(* Instances of SleepHost for TLC, which tells no Rendez from another.     *)
EXTENDS SleepHost

Symmetry == Permutations(Rendezes)
=============================================================================
