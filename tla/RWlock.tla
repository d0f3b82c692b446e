------------------------------- MODULE RWlock -------------------------------
(***************************************************************************)
(* QLock and RWlock (emu/lock.c).                                          *)
(*                                                                         *)
(* A RWlock is made of two QLocks, x and k, a spin lock l and a count of   *)
(* readers.  A QLock is a flag and a queue under a spin lock, use, which   *)
(* is modelled because canqlock fails when it is held.  A process leaves   *)
(* the queue by rendezvous, after use is unlocked.                         *)
(***************************************************************************)
EXTENDS Integers, Sequences

CONSTANTS Procs, None

ASSUME NoneAssumption == None \notin Procs

Locks == {"x", "k"}

VARIABLES locked,   \* QLock.locked
          queue,    \* QLock.head .. tail
          use,      \* QLock.use: the process that holds it
          l,        \* RWlock.l: the process that holds it
          readers,  \* RWlock.readers
          pc,
          tgt       \* whom qunlock is about to meet

vars == <<locked, queue, use, l, readers, pc, tgt>>

(* For a reader, for the last of them, and for a writer; "in" is inside    *)
(* use, "wait" in the rendezvous of qlock, "meet" in that of qunlock.      *)
PC == {"idle", "read", "write",
       "r.x", "r.x.in", "r.x.wait", "r.l", "r.k", "r.ux", "r.ux.in", "r.ux.meet",
       "u.l", "u.n", "u.k", "u.k.in", "u.k.meet", "u.ul",
       "w.x", "w.x.in", "w.x.wait", "w.k", "w.k.in", "w.k.wait",
       "v.k", "v.k.in", "v.k.meet", "v.x", "v.x.in", "v.x.meet"}

(* Where a process is after it was met.                                    *)
After(c) ==
  CASE c = "r.x.wait" -> "r.l"
    [] c = "w.x.wait" -> "w.k"
    [] c = "w.k.wait" -> "write"
    [] OTHER -> c

-----------------------------------------------------------------------------
(***************************************************************************)
(* QLock: the steps of qlock and qunlock on q, from one pc to another.     *)
(***************************************************************************)
(* lock(&q->use)                                                           *)
Use(p, q, from, in) ==
  /\ pc[p] = from
  /\ use[q] = None
  /\ use' = [use EXCEPT ![q] = p]
  /\ pc' = [pc EXCEPT ![p] = in]
  /\ UNCHANGED <<locked, queue, l, readers, tgt>>

\* Mutant of Take: the queue is a stack.
TakeFirst(p, q, in, got, wait) ==
  /\ pc[p] = in
  /\ use' = [use EXCEPT ![q] = None]
  /\ IF locked[q]
       THEN /\ queue' = [queue EXCEPT ![q] = <<p>> \o @]
            /\ pc' = [pc EXCEPT ![p] = wait]
            /\ UNCHANGED locked
       ELSE /\ locked' = [locked EXCEPT ![q] = TRUE]
            /\ pc' = [pc EXCEPT ![p] = got]
            /\ UNCHANGED queue
  /\ UNCHANGED <<l, readers, tgt>>

(* qlock(): take the lock, or queue.                                       *)
Take(p, q, in, got, wait) ==
  /\ pc[p] = in
  /\ use' = [use EXCEPT ![q] = None]
  /\ IF locked[q]
       THEN /\ queue' = [queue EXCEPT ![q] = Append(@, p)]
            /\ pc' = [pc EXCEPT ![p] = wait]
            /\ UNCHANGED locked
       ELSE /\ locked' = [locked EXCEPT ![q] = TRUE]
            /\ pc' = [pc EXCEPT ![p] = got]
            /\ UNCHANGED queue
  /\ UNCHANGED <<l, readers, tgt>>

(* qunlock(): pass the lock to the first in the queue, or clear it.        *)
Pass(p, q, in, done, meet) ==
  /\ pc[p] = in
  /\ use' = [use EXCEPT ![q] = None]
  /\ IF queue[q] = <<>>
       THEN /\ locked' = [locked EXCEPT ![q] = FALSE]
            /\ pc' = [pc EXCEPT ![p] = done]
            /\ UNCHANGED <<queue, tgt>>
       ELSE /\ queue' = [queue EXCEPT ![q] = Tail(@)]
            /\ tgt' = [tgt EXCEPT ![p] = Head(queue[q])]
            /\ pc' = [pc EXCEPT ![p] = meet]
            /\ UNCHANGED locked
  /\ UNCHANGED <<l, readers>>

(* erendezvous(p): the lock is the other's.                                *)
Meet(p, meet, done) ==
  LET w == tgt[p] IN
  /\ pc[p] = meet
  /\ pc[w] \in {"r.x.wait", "w.x.wait", "w.k.wait"}
  /\ pc' = [pc EXCEPT ![p] = done, ![w] = After(pc[w])]
  /\ tgt' = [tgt EXCEPT ![p] = None]
  /\ UNCHANGED <<locked, queue, use, l, readers>>

Goto(p, from, to) ==
  /\ pc[p] = from
  /\ pc' = [pc EXCEPT ![p] = to]

-----------------------------------------------------------------------------
(***************************************************************************)
(* rlock: qlock(&l->x), count, canqlock(&l->k), qunlock(&l->x)             *)
(***************************************************************************)
RLock(p) == Goto(p, "idle", "r.x") /\ UNCHANGED <<locked, queue, use, l, readers, tgt>>

(* canrlock(): canqlock(&l->x) fails if it is locked or if anybody has its *)
(* spin lock.                                                              *)
CanRLock(p) ==
  /\ Goto(p, "idle", "r.l")
  /\ ~locked["x"] /\ use["x"] = None
  /\ locked' = [locked EXCEPT !["x"] = TRUE]
  /\ UNCHANGED <<queue, use, l, readers, tgt>>

LockL(p, from, to) ==
  /\ Goto(p, from, to)
  /\ l = None
  /\ l' = p
  /\ UNCHANGED <<locked, queue, use, readers, tgt>>

UnlockL(p, from, to) ==
  /\ Goto(p, from, to)
  /\ l' = None
  /\ UNCHANGED <<locked, queue, use, readers, tgt>>

\* Mutant of Count: only who gets k is counted.
CountFirst(p) ==
  /\ Goto(p, "r.k", "r.ux")
  /\ readers' = IF use["k"] = None /\ ~locked["k"] THEN readers + 1 ELSE readers
  /\ locked' = IF use["k"] = None THEN [locked EXCEPT !["k"] = TRUE] ELSE locked
  /\ l' = None
  /\ UNCHANGED <<queue, use, tgt>>

(* readers++; canqlock(&l->k), whose result is not looked at; unlock(l).   *)
Count(p) ==
  /\ Goto(p, "r.k", "r.ux")
  /\ readers' = readers + 1
  /\ locked' = IF use["k"] = None THEN [locked EXCEPT !["k"] = TRUE] ELSE locked
  /\ l' = None
  /\ UNCHANGED <<queue, use, tgt>>

RLockStep(p) ==
  \/ Use(p, "x", "r.x", "r.x.in") \/ Take(p, "x", "r.x.in", "r.l", "r.x.wait")
  \/ LockL(p, "r.l", "r.k")
  \/ Count(p)
  \/ Use(p, "x", "r.ux", "r.ux.in") \/ Pass(p, "x", "r.ux.in", "read", "r.ux.meet")
  \/ Meet(p, "r.ux.meet", "read")

(***************************************************************************)
(* runlock: under l, the last reader passes k on                           *)
(***************************************************************************)
RUnlock(p) == Goto(p, "read", "u.l") /\ UNCHANGED <<locked, queue, use, l, readers, tgt>>

\* Mutant of Uncount: k is passed on by any reader.
UncountAny(p) ==
  /\ Goto(p, "u.n", "u.k")
  /\ readers' = readers - 1
  /\ UNCHANGED <<locked, queue, use, l, tgt>>

Uncount(p) ==
  /\ Goto(p, "u.n", IF readers = 1 THEN "u.k" ELSE "u.ul")
  /\ readers' = readers - 1
  /\ UNCHANGED <<locked, queue, use, l, tgt>>

RUnlockStep(p) ==
  \/ LockL(p, "u.l", "u.n")
  \/ Uncount(p)
  \/ Use(p, "k", "u.k", "u.k.in") \/ Pass(p, "k", "u.k.in", "u.ul", "u.k.meet")
  \/ Meet(p, "u.k.meet", "u.ul")
  \/ UnlockL(p, "u.ul", "idle")

(***************************************************************************)
(* wlock: qlock(&l->x), qlock(&l->k); wunlock: qunlock of both             *)
(***************************************************************************)
WLock(p) == Goto(p, "idle", "w.x") /\ UNCHANGED <<locked, queue, use, l, readers, tgt>>

WLockStep(p) ==
  \/ Use(p, "x", "w.x", "w.x.in") \/ Take(p, "x", "w.x.in", "w.k", "w.x.wait")
  \/ Use(p, "k", "w.k", "w.k.in") \/ Take(p, "k", "w.k.in", "write", "w.k.wait")

WUnlock(p) == Goto(p, "write", "v.k") /\ UNCHANGED <<locked, queue, use, l, readers, tgt>>

WUnlockStep(p) ==
  \/ Use(p, "k", "v.k", "v.k.in") \/ Pass(p, "k", "v.k.in", "v.x", "v.k.meet")
  \/ Meet(p, "v.k.meet", "v.x")
  \/ Use(p, "x", "v.x", "v.x.in") \/ Pass(p, "x", "v.x.in", "idle", "v.x.meet")
  \/ Meet(p, "v.x.meet", "idle")

-----------------------------------------------------------------------------
Init ==
  /\ locked = [q \in Locks |-> FALSE]
  /\ queue = [q \in Locks |-> <<>>]
  /\ use = [q \in Locks |-> None]
  /\ l = None
  /\ readers = 0
  /\ pc = [p \in Procs |-> "idle"]
  /\ tgt = [p \in Procs |-> None]

Step(p) == RLockStep(p) \/ RUnlockStep(p) \/ WLockStep(p) \/ WUnlockStep(p)

Next == \E p \in Procs :
  RLock(p) \/ CanRLock(p) \/ RUnlock(p) \/ WLock(p) \/ WUnlock(p) \/ Step(p)

Spec == Init /\ [][Next]_vars

(* A process goes on in these routines, also past a spin lock that others  *)
(* take again and again, and leaves what it locked; nobody need begin.     *)
Fairness ==
  \A p \in Procs : SF_vars(Step(p)) /\ WF_vars(RUnlock(p)) /\ WF_vars(WUnlock(p))

FairSpec == Spec /\ Fairness

-----------------------------------------------------------------------------
TypeOK ==
  /\ locked \in [Locks -> BOOLEAN]
  /\ queue \in [Locks -> Seq(Procs)]
  /\ use \in [Locks -> Procs \cup {None}]
  /\ l \in Procs \cup {None}
  /\ readers \in Nat
  /\ pc \in [Procs -> PC]
  /\ tgt \in [Procs -> Procs \cup {None}]

\* rlock() does not look at what canqlock(&l->k) returns: it never fails because
\* somebody else is inside k, only because a reader has locked it.
CanQLockSure ==
  \A p \in Procs : pc[p] = "r.k" => use["k"] = None /\ (locked["k"] <=> readers > 0)

\* The one who passes a QLock on meets the one it was passed to, and nobody
\* else does.
MeetsWaiter ==
  \A p, q \in Procs :
    /\ tgt[p] # None /\ tgt[p] = tgt[q] => p = q
    /\ tgt[p] # None =>
         IF pc[p] = "u.k.meet" THEN pc[tgt[p]] = "w.k.wait" ELSE pc[tgt[p]] \in {"r.x.wait", "w.x.wait"}

\* "It allows concurrent readers but gives each writer exclusive access."  Nor is
\* there another way in: a QLock that is passed on reaches its waiter.
Writing(p) == pc[p] \in {"write", "v.k"}
Reading(p) == pc[p] \in {"r.ux", "r.ux.in", "r.ux.meet", "read", "u.l"}
Exclusion ==
  /\ \A p, q \in Procs : p # q /\ Writing(p) => ~Writing(q) /\ ~Reading(q)
  /\ CanQLockSure
  /\ MeetsWaiter

\* A writer, or a reader, gets the lock in the end: the queues are in order of
\* arrival and readers that come later wait for x behind the writer.
Served ==
  \A p \in Procs :
    (pc[p] = "w.x" ~> pc[p] = "write") /\ (pc[p] = "r.x" ~> pc[p] = "read")

=============================================================================
