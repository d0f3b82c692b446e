-------------------------------- MODULE Dis --------------------------------
(***************************************************************************)
(* What the modules about the virtual machine of Dis have in common: its   *)
(* threads (struct Prog), each on the list isched.head or free.            *)
(***************************************************************************)
CONSTANTS Progs,      \* the Dis threads, existing or not
          None        \* nil

ASSUME NoneAssumption == None \notin Progs
=============================================================================
