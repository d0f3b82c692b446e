------------------------------ MODULE ERendez ------------------------------
(***************************************************************************)
(* erendezvous(tag, value) over the semaphores of the host                 *)
(* (emu/os-Linux.c).  Who comes first hangs a Tag, here a cell, in the     *)
(* hash table and waits on its semaphore; who comes second clears t->tag   *)
(* and, outside the lock, raises the semaphore.  The first may notice      *)
(* before that, and the cell serve another rendezvous when it is raised.   *)
(*                                                                         *)
(* A critical section under hlock is one step.  The values are left out:   *)
(* all callers pass 0 and ignore what they get.  So are the blocks that    *)
(* semaphores are allocated in, and EINTR, upon which the wait is begun    *)
(* again.  The module has operations but no Next: their callers have.      *)
(***************************************************************************)
EXTENDS Naturals, FiniteSets, SequencesExt

CONSTANTS Callers,     \* processes; the tags are those that are waited for
          Nobody       \* nil, for a tag and for a cell

\* As many cells as callers are enough, for each uses one at a time.
Cells == 1 .. Cardinality(Callers)

VARIABLES tag,     \* t->tag
          sem,     \* the value of t's semaphore
          ht,      \* the cells in the hash table
          ft,      \* the free list
          made,    \* number of cells that have been allocated
          cell,    \* t, of each caller
          epc      \* where each caller is in erendezvous

erVars == <<tag, sem, ht, ft, made, cell, epc>>

ErInit ==
  /\ tag = [t \in Cells |-> Nobody]
  /\ sem = [t \in Cells |-> 0]
  /\ ht = {} /\ ft = <<>> /\ made = 0
  /\ cell = [p \in Callers |-> Nobody]
  /\ epc = [p \in Callers |-> "out"]

Waiting(g) == {t \in ht : tag[t] = g}

(* The second: take the first, if there is one.                            *)
Take(p, g) ==
  /\ epc[p] = "out"
  /\ \E t \in Waiting(g) :
       /\ tag' = [tag EXCEPT ![t] = Nobody]
       /\ cell' = [cell EXCEPT ![p] = t]
  /\ epc' = [epc EXCEPT ![p] = "post"]
  /\ UNCHANGED <<sem, ht, ft, made>>

(* The first: hang up a cell, a free one or a new one.                     *)
Hang(p, g) ==
  LET t == IF ft = <<>> THEN made + 1 ELSE Head(ft) IN
  /\ epc[p] = "out" /\ Waiting(g) = {}
  /\ IF ft = <<>> THEN made' = t /\ UNCHANGED ft ELSE ft' = Tail(ft) /\ UNCHANGED made
  /\ tag' = [tag EXCEPT ![t] = g]
  /\ sem' = [sem EXCEPT ![t] = 0]
  /\ ht' = ht \cup {t}
  /\ cell' = [cell EXCEPT ![p] = t]
  /\ epc' = [epc EXCEPT ![p] = "test"]

Enter(p, g) == Take(p, g) \/ Hang(p, g)

(* semop(+1), and the second returns.                                      *)
Post(p) ==
  /\ epc[p] = "post"
  /\ sem' = [sem EXCEPT ![cell[p]] = @ + 1]
  /\ cell' = [cell EXCEPT ![p] = Nobody]
  /\ epc' = [epc EXCEPT ![p] = "out"]
  /\ UNCHANGED <<tag, ht, ft, made>>

(* while(t->tag), without the lock                                         *)
Test(p) ==
  /\ epc[p] = "test"
  /\ epc' = [epc EXCEPT ![p] = IF tag[cell[p]] = Nobody THEN "unlink" ELSE "semop"]
  /\ UNCHANGED <<tag, sem, ht, ft, made, cell>>

\* Mutant of Semop: t->tag is not looked at again.
SemopOnce(p) ==
  /\ epc[p] = "semop" /\ sem[cell[p]] > 0
  /\ sem' = [sem EXCEPT ![cell[p]] = @ - 1]
  /\ epc' = [epc EXCEPT ![p] = "unlink"]
  /\ UNCHANGED <<tag, ht, ft, made, cell>>

(* semop(-1)                                                               *)
Semop(p) ==
  /\ epc[p] = "semop" /\ sem[cell[p]] > 0
  /\ sem' = [sem EXCEPT ![cell[p]] = @ - 1]
  /\ epc' = [epc EXCEPT ![p] = "test"]
  /\ UNCHANGED <<tag, ht, ft, made, cell>>

\* Mutant of Unlink: the cell stays in the hash table.
UnlinkKept(p) ==
  /\ epc[p] = "unlink"
  /\ ft' = <<cell[p]>> \o ft
  /\ cell' = [cell EXCEPT ![p] = Nobody]
  /\ epc' = [epc EXCEPT ![p] = "out"]
  /\ UNCHANGED <<tag, sem, ht, made>>

(* The first frees the cell, and returns.                                  *)
Unlink(p) ==
  /\ epc[p] = "unlink"
  /\ ht' = ht \ {cell[p]}
  /\ ft' = <<cell[p]>> \o ft
  /\ cell' = [cell EXCEPT ![p] = Nobody]
  /\ epc' = [epc EXCEPT ![p] = "out"]
  /\ UNCHANGED <<tag, sem, made>>

Leave(p) == Post(p) \/ Unlink(p)

-----------------------------------------------------------------------------
(* The call of p has been answered by that of another.                     *)
Met(p) == epc[p] = "post" \/ (epc[p] # "out" /\ tag[cell[p]] = Nobody)

First(p) == epc[p] \in {"test", "semop", "unlink"}

(***************************************************************************)
(* A cell is free or in the table with its one first caller; no two calls  *)
(* with the same tag wait, unless for each other; and a first caller that  *)
(* has been met does not block: the semaphore is raised, or will be.       *)
(***************************************************************************)
ErTypeOK ==
  /\ made \in {0} \cup Cells /\ ht \cup ToSet(ft) = 1 .. made
  /\ ht \cap ToSet(ft) = {} /\ IsInjective(ft)
  /\ ht = {cell[p] : p \in {q \in Callers : First(q)}}
  /\ \A p, q \in Callers : First(p) /\ First(q) /\ cell[p] = cell[q] => p = q
  /\ \A s, t \in ht : tag[s] = tag[t] /\ tag[s] # Nobody => s = t
  /\ \A p \in Callers : epc[p] = "semop" /\ tag[cell[p]] = Nobody =>
       sem[cell[p]] > 0 \/ \E q \in Callers : epc[q] = "post" /\ cell[q] = cell[p]
=============================================================================
