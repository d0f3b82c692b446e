----------------------------- MODULE MCVmSched -----------------------------
(* Instances of VmSched for TLC.  Main and Root are told apart by Init; a  *)
(* rescuer by Rescue.  The other processes and Progs are interchangeable.  *)
EXTENDS VmSched, TLC

Symmetry == Permutations(Vms \ {Main}) \cup Permutations(Slaves)
              \cup Permutations(Progs \ ({Root} \cup Rescuers))
=============================================================================
