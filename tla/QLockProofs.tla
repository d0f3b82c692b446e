----------------------------- MODULE QLockProofs -----------------------------
(***************************************************************************)
(* The QLocks of a RWlock, and the server whose processes take turns       *)
(* behind one (exq.qwait of exportfs.c); the two share no variable.        *)
(*                                                                         *)
(* RWlock: type correctness and mutual exclusion, for any number of        *)
(* processes.  Exclusion is not inductive: it needs to know who has each   *)
(* spin lock, each QLock, and who waits for whom.                          *)
(***************************************************************************)
EXTENDS RWlock, Export, QueueProofs, FiniteSetTheorems

(* Who is inside use of a QLock, and who holds the spin lock of a RWlock.  *)
InUse(q) == IF q = "x" THEN {"r.x.in", "r.ux.in", "w.x.in", "v.x.in"}
                       ELSE {"u.k.in", "w.k.in", "v.k.in"}
InL == {"r.k", "u.n", "u.k", "u.k.in", "u.k.meet", "u.ul"}

(* Who holds x: a process that is about to meet the next one holds it for  *)
(* that one.                                                               *)
HasX == {"r.l", "r.k", "r.ux", "r.ux.in", "r.ux.meet",
         "w.k", "w.k.in", "w.k.wait", "write", "v.k", "v.k.in",
         "v.x", "v.x.in", "v.x.meet"}

(* k is held by a writer, by the readers that are counted, or by the last  *)
(* of them, who is no longer counted.                                      *)
HasK     == {"write", "v.k", "v.k.in"}
LastR    == {"u.k", "u.k.in", "u.k.meet"}
Counted  == {"r.ux", "r.ux.in", "r.ux.meet", "read", "u.l", "u.n"}
Readers  == {p \in Procs : pc[p] \in Counted}

WaitFor(q) == IF q = "x" THEN {"r.x.wait", "w.x.wait"} ELSE {"w.k.wait"}

SpinInv ==
  \A p \in Procs :
    /\ l = p <=> pc[p] \in InL
    /\ \A q \in Locks : use[q] = p <=> pc[p] \in InUse(q)

XInv ==
  /\ \A p, q \in Procs : pc[p] \in HasX /\ pc[q] \in HasX => p = q
  /\ locked["x"] <=> \E p \in Procs : pc[p] \in HasX

CountInv == IsFiniteSet(Readers) /\ readers = Cardinality(Readers)

KInv ==
  /\ locked["k"] <=> readers > 0 \/ \E p \in Procs : pc[p] \in HasK \cup LastR
  /\ \A p \in Procs : pc[p] \in HasK \cup LastR => readers = 0
  /\ \A p, q \in Procs : pc[p] \in HasK => pc[q] \notin LastR

QueueInv ==
  \A q \in Locks :
    /\ IsInjective(queue[q])
    /\ \A p \in ToSet(queue[q]) : pc[p] \in WaitFor(q) /\ \A m \in Procs : tgt[m] # p

MeetInv ==
  \A p \in Procs :
    /\ pc[p] # "v.k.meet"
    /\ tgt[p] # None <=> pc[p] \in {"r.ux.meet", "v.x.meet", "u.k.meet"}
    /\ pc[p] = "u.k.meet" => pc[tgt[p]] \in WaitFor("k")
    /\ pc[p] \in {"r.ux.meet", "v.x.meet"} => pc[tgt[p]] \in WaitFor("x")
    /\ \A q \in Procs : tgt[p] # None /\ tgt[p] = tgt[q] => p = q

IInv == TypeOK /\ SpinInv /\ XInv /\ CountInv /\ KInv /\ QueueInv /\ MeetInv
-----------------------------------------------------------------------------
USE NoneAssumption

(* A process that goes from a to b holds and waits for what it did before. *)
Same(a, b) ==
  /\ a \in HasX <=> b \in HasX
  /\ a \in HasK <=> b \in HasK
  /\ a \in LastR <=> b \in LastR
  /\ a \in Counted <=> b \in Counted
  /\ \A q \in Locks : a \in WaitFor(q) <=> b \in WaitFor(q)
  /\ a = "v.k.meet" <=> b = "v.k.meet"
  /\ a = "u.k.meet" <=> b = "u.k.meet"
  /\ a \in {"r.ux.meet", "v.x.meet"} <=> b \in {"r.ux.meet", "v.x.meet"}

\* Who is about to be met is waiting for a QLock.
LEMMA TargetsWait ==
  ASSUME TypeOK, MeetInv
  PROVE  \A x \in Procs : tgt[x] # None =>
           tgt[x] \in Procs /\ pc[tgt[x]] \in {"r.x.wait", "w.x.wait", "w.k.wait"}
  <1> SUFFICES ASSUME NEW x \in Procs, tgt[x] # None
               PROVE  tgt[x] \in Procs /\ pc[tgt[x]] \in {"r.x.wait", "w.x.wait", "w.k.wait"}
    OBVIOUS
  <1>1. tgt[x] \in Procs
    BY DEF TypeOK
  <1>2. pc[tgt[x]] \in WaitFor("x") \cup WaitFor("k")
    BY DEF MeetInv
  <1> QED BY <1>1, <1>2 DEF WaitFor

\* A spin lock is taken or left, or a call begins: no QLock changes hands.
LEMMA SameInv ==
  ASSUME IInv, NEW p \in Procs, NEW b \in PC, Same(pc[p], b),
         pc' = [pc EXCEPT ![p] = b],
         UNCHANGED <<locked, queue, readers, tgt>>
  PROVE  XInv' /\ CountInv' /\ KInv' /\ QueueInv' /\ MeetInv'
  <1>1. /\ TypeOK /\ XInv /\ CountInv /\ KInv /\ QueueInv /\ MeetInv
        /\ "x" \in Locks /\ "k" \in Locks
        /\ \A x \in Procs : pc'[x] = IF x = p THEN b ELSE pc[x]
        /\ \A x \in Procs : Same(pc[x], pc'[x])
    BY DEF IInv, TypeOK, Same, Locks
  <1> USE <1>1
  <1>2. Readers' = Readers
    BY DEF Readers, Same
  <1>3. CountInv' /\ XInv' /\ KInv'
    BY <1>2 DEF CountInv, XInv, KInv, Same
  <1>4. QueueInv'
    <2> SUFFICES ASSUME NEW q \in Locks
                 PROVE  /\ IsInjective(queue[q])
                        /\ \A x \in ToSet(queue[q]) : /\ pc'[x] \in WaitFor(q)
                                                       /\ \A m \in Procs : tgt[m] # x
      BY DEF QueueInv
    <2>1. ToSet(queue[q]) \subseteq Procs
      BY QueueSubset DEF TypeOK
    <2> QED BY <2>1 DEF QueueInv, Same
  <1>5. MeetInv'
    <2>1. \A x \in Procs : tgt[x] # None => tgt[x] \in Procs
      BY DEF TypeOK
    <2> QED BY <2>1 DEF MeetInv, Same
  <1> QED BY <1>3, <1>4, <1>5

\* lock(&q->use)
LEMMA UseInv ==
  ASSUME IInv, NEW p \in Procs, NEW q, NEW from, NEW in, Use(p, q, from, in),
         \/ q = "x" /\ from = "r.x" /\ in = "r.x.in"
         \/ q = "x" /\ from = "r.ux" /\ in = "r.ux.in"
         \/ q = "k" /\ from = "u.k" /\ in = "u.k.in"
         \/ q = "x" /\ from = "w.x" /\ in = "w.x.in"
         \/ q = "k" /\ from = "w.k" /\ in = "w.k.in"
         \/ q = "k" /\ from = "v.k" /\ in = "v.k.in"
         \/ q = "x" /\ from = "v.x" /\ in = "v.x.in"
  PROVE  IInv'
  <1>0. TypeOK /\ SpinInv /\ q \in Locks /\ in \in PC /\ "x" \in Locks
    BY DEF IInv, PC, Locks
  <1>1. /\ pc[p] = from /\ (from \in InL <=> in \in InL)
        /\ \A r \in Locks : in \in InUse(r) <=> r = q
        /\ \A r \in Locks : from \notin InUse(r)
    <2>1. pc[p] = from
      BY DEF Use
    <2>2. from \in InL <=> in \in InL
      BY DEF InL
    <2>3. from \notin InUse("x") /\ from \notin InUse("k")
      BY DEF InUse
    <2>4. (in \in InUse("x") <=> q = "x") /\ (in \in InUse("k") <=> q = "k")
      BY DEF InUse
    <2> QED BY <2>1, <2>2, <2>3, <2>4 DEF Locks
  <1>2. /\ use[q] = None
        /\ \A x \in Procs : pc'[x] = IF x = p THEN in ELSE pc[x]
        /\ \A r \in Locks : use'[r] = IF r = q THEN p ELSE use[r]
        /\ l' = l
    BY <1>0 DEF Use, TypeOK
  <1>3. TypeOK'
    BY <1>0 DEF Use, TypeOK
  <1>4. SpinInv'
    <2>1. ASSUME NEW x \in Procs, NEW r \in Locks
          PROVE  (l' = x <=> pc'[x] \in InL) /\ (use'[r] = x <=> pc'[x] \in InUse(r))
      BY <1>0, <1>1, <1>2 DEF SpinInv
    <2> QED BY <1>0, <2>1 DEF SpinInv
  <1>5. Same(pc[p], in)
    BY <1>1 DEF Same, HasX, HasK, LastR, Counted, WaitFor
  <1>6. XInv' /\ CountInv' /\ KInv' /\ QueueInv' /\ MeetInv'
    BY <1>0, <1>5, SameInv DEF Use
  <1> QED BY <1>3, <1>4, <1>6 DEF IInv

\* A call begins.
LEMMA BeginInv ==
  ASSUME IInv, NEW p \in Procs, RLock(p) \/ RUnlock(p) \/ WLock(p) \/ WUnlock(p)
  PROVE  IInv'
  <1>1. PICK b \in PC : /\ pc' = [pc EXCEPT ![p] = b] /\ Same(pc[p], b)
                        /\ pc[p] \notin InL /\ b \notin InL
                        /\ \A r \in Locks : pc[p] \notin InUse(r) /\ b \notin InUse(r)
                        /\ UNCHANGED <<locked, queue, use, l, readers, tgt>>
    BY DEF RLock, RUnlock, WLock, WUnlock, Goto, PC, InL, InUse,
           Same, HasX, HasK, LastR, Counted, WaitFor
  <1>2. /\ TypeOK /\ SpinInv
        /\ \A x \in Procs : pc'[x] = IF x = p THEN b ELSE pc[x]
    BY <1>1 DEF IInv, TypeOK
  <1>3. TypeOK'
    BY <1>1, <1>2 DEF TypeOK
  <1>4. SpinInv'
    BY <1>1, <1>2 DEF SpinInv
  <1>5. XInv' /\ CountInv' /\ KInv' /\ QueueInv' /\ MeetInv'
    BY <1>1, SameInv
  <1> QED BY <1>3, <1>4, <1>5 DEF IInv

\* lock(&l->l) and unlock(&l->l)
LEMMA LInv ==
  ASSUME IInv, NEW p \in Procs,
         LockL(p, "r.l", "r.k") \/ LockL(p, "u.l", "u.n") \/ UnlockL(p, "u.ul", "idle")
  PROVE  IInv'
  <1>1. PICK b \in PC : /\ pc' = [pc EXCEPT ![p] = b] /\ Same(pc[p], b)
                        /\ \/ pc[p] \notin InL /\ b \in InL /\ l = None /\ l' = p
                           \/ pc[p] \in InL /\ b \notin InL /\ l' = None
                        /\ \A r \in Locks : pc[p] \notin InUse(r) /\ b \notin InUse(r)
                        /\ UNCHANGED <<locked, queue, use, readers, tgt>>
    BY DEF LockL, UnlockL, Goto, PC, InL, InUse,
           Same, HasX, HasK, LastR, Counted, WaitFor
  <1>2. /\ TypeOK /\ SpinInv
        /\ \A x \in Procs : pc'[x] = IF x = p THEN b ELSE pc[x]
    BY <1>1 DEF IInv, TypeOK
  <1>3. TypeOK'
    BY <1>1, <1>2 DEF TypeOK
  <1>4. SpinInv'
    BY <1>1, <1>2 DEF SpinInv
  <1>5. XInv' /\ CountInv' /\ KInv' /\ QueueInv' /\ MeetInv'
    BY <1>1, SameInv
  <1> QED BY <1>3, <1>4, <1>5 DEF IInv

\* qlock() takes the lock or queues.
LEMMA TakeInv ==
  ASSUME IInv, NEW p \in Procs, NEW q, NEW in, NEW got, NEW wait,
         Take(p, q, in, got, wait),
         \/ q = "x" /\ in = "r.x.in" /\ got = "r.l" /\ wait = "r.x.wait"
         \/ q = "x" /\ in = "w.x.in" /\ got = "w.k" /\ wait = "w.x.wait"
         \/ q = "k" /\ in = "w.k.in" /\ got = "write" /\ wait = "w.k.wait"
  PROVE  IInv'
  <1>0. /\ TypeOK /\ q \in Locks /\ got \in PC /\ wait \in PC
        /\ "x" \in Locks /\ "k" \in Locks
    BY DEF IInv, PC, Locks
  <1>1. /\ TypeOK /\ SpinInv /\ XInv /\ CountInv /\ KInv /\ QueueInv /\ MeetInv
        /\ q \in Locks /\ pc[p] = in /\ in \in InUse(q)
        /\ \A r \in Locks : use'[r] = IF r = q THEN None ELSE use[r]
        /\ UNCHANGED <<l, readers, tgt>>
    BY DEF Take, IInv, TypeOK, InUse, Locks
  <1> DEFINE to == IF locked[q] THEN wait ELSE got
  <1>2. /\ \A x \in Procs : pc'[x] = IF x = p THEN to ELSE pc[x]
        /\ to \notin InL \cup Counted \cup LastR
        /\ in \notin InL \cup Counted \cup LastR \cup HasK
        /\ \A r \in Locks : to \notin InUse(r) /\ in \notin WaitFor(r)
        /\ \A r \in Locks : r # q => in \notin InUse(r)
    <2>1. \A x \in Procs : pc'[x] = IF x = p THEN to ELSE pc[x]
      BY <1>0 DEF Take, TypeOK
    <2>2. /\ in \notin InL \cup Counted \cup LastR \cup HasK
          /\ \A r \in Locks : in \notin WaitFor(r)
          /\ \A r \in Locks : r # q => in \notin InUse(r)
      BY DEF InL, InUse, Counted, LastR, HasK, WaitFor, Locks
    <2>3. \A s \in {got, wait} : s \notin InL \cup Counted \cup LastR
                                /\ \A r \in Locks : s \notin InUse(r)
      BY DEF InL, InUse, Counted, LastR, Locks
    <2> QED BY <2>1, <2>2, <2>3
  <1>3. TypeOK'
    <2>1. Append(queue[q], p) \in Seq(Procs)
      BY <1>0 DEF TypeOK
    <2> QED BY <1>0, <2>1 DEF Take, TypeOK
  <1>4. SpinInv'
    <2>1. ASSUME NEW x \in Procs, NEW r \in Locks
          PROVE  (l' = x <=> pc'[x] \in InL) /\ (use'[r] = x <=> pc'[x] \in InUse(r))
      BY <1>1, <1>2 DEF SpinInv
    <2> QED BY <1>0, <2>1 DEF SpinInv
  <1>5. Readers' = Readers
    BY <1>1, <1>2 DEF Readers
  <1>6. CountInv'
    BY <1>1, <1>5 DEF CountInv
  <1>7. \A m \in Procs : tgt[m] # p
    <2> SUFFICES ASSUME NEW m \in Procs, tgt[m] = p PROVE FALSE
      OBVIOUS
    <2>1. pc[tgt[m]] \in WaitFor("x") \cup WaitFor("k")
      BY <1>1 DEF MeetInv
    <2> QED BY <1>0, <1>1, <1>2, <2>1
  <1>8. MeetInv'
    <2>1. to \notin {"v.k.meet", "u.k.meet", "r.ux.meet", "v.x.meet"}
          /\ in \notin {"v.k.meet", "u.k.meet", "r.ux.meet", "v.x.meet"}
      BY DEF HasX
    <2>2. \A x \in Procs : tgt[x] # None => tgt[x] \in Procs
      BY <1>1 DEF TypeOK
    <2> QED BY <1>1, <1>2, <1>7, <2>1, <2>2 DEF MeetInv
  <1>9. CASE locked[q]
    <2>1. /\ locked' = locked /\ to = wait /\ wait \in WaitFor(q) /\ wait \notin HasK
          /\ wait \in HasX <=> in \in HasX
          /\ \A r \in Locks : queue'[r] = IF r = q THEN Append(queue[q], p) ELSE queue[r]
      BY <1>1, <1>9 DEF Take, TypeOK, WaitFor, HasX, HasK
    <2>2. XInv' /\ KInv'
      BY <1>1, <1>2, <2>1 DEF XInv, KInv
    <2>3. QueueInv'
      <3>1. /\ \A r \in Locks : queue[r] \in Seq(Procs) /\ ToSet(queue[r]) \subseteq Procs
            /\ \A r \in Locks : p \notin ToSet(queue[r])
        BY <1>1, <1>2, QueueSubset DEF TypeOK, QueueInv
      <3>2. /\ ToSet(queue'[q]) = ToSet(queue[q]) \cup {p}
            /\ IsInjective(queue'[q])
        BY <1>1, <2>1, <3>1, AppendQueue DEF QueueInv
      <3>3. ASSUME NEW r \in Locks, NEW x \in ToSet(queue'[r])
            PROVE  pc'[x] \in WaitFor(r) /\ \A m \in Procs : tgt'[m] # x
        BY <1>1, <1>2, <1>7, <2>1, <3>1, <3>2 DEF QueueInv
      <3> QED BY <1>1, <2>1, <3>2, <3>3 DEF QueueInv
    <2> QED BY <1>3, <1>4, <1>6, <1>8, <2>2, <2>3 DEF IInv
  <1>10. CASE ~locked[q]
    <2>1. /\ queue' = queue /\ to = got /\ got \in HasX
          /\ \A r \in Locks : locked'[r] = IF r = q THEN TRUE ELSE locked[r]
      BY <1>1, <1>10 DEF Take, TypeOK, HasX
    <2>2. ASSUME q = "x" PROVE XInv' /\ KInv'
      <3>1. XInv'
        BY <1>1, <1>2, <1>10, <2>1, <2>2 DEF XInv
      <3>2. KInv'
        <4>1. locked'["k"] = locked["k"] /\ got \notin HasK
          BY <1>0, <2>1, <2>2 DEF HasK
        <4>2. \A x \in Procs : /\ pc'[x] \in HasK <=> pc[x] \in HasK
                               /\ pc'[x] \in LastR <=> pc[x] \in LastR
          BY <1>1, <1>2, <2>1, <4>1
        <4> QED BY <1>1, <4>1, <4>2 DEF KInv
      <3> QED BY <3>1, <3>2
    <2>3. ASSUME q = "k" PROVE XInv' /\ KInv'
      <3>1. XInv'
        <4>1. locked'["x"] = locked["x"] /\ in \in HasX
          BY <1>0, <2>1, <2>3 DEF HasX
        <4> QED BY <1>1, <1>2, <2>1, <4>1 DEF XInv
      <3>2. /\ \A x \in Procs : pc[x] \notin HasK \cup LastR
            /\ ~(readers > 0) /\ got \in HasK
        BY <1>1, <1>10, <2>3 DEF KInv, HasK
      <3>3. readers = 0
        BY <1>1, <3>2 DEF TypeOK
      <3>4. KInv'
        BY <1>1, <1>2, <2>1, <2>3, <3>2, <3>3 DEF KInv
      <3> QED BY <3>1, <3>4
    <2>4. QueueInv'
      <3>1. \A r \in Locks : ToSet(queue[r]) \subseteq Procs /\ p \notin ToSet(queue[r])
        BY <1>1, <1>2, QueueSubset DEF TypeOK, QueueInv
      <3> QED BY <1>1, <1>2, <2>1, <3>1 DEF QueueInv
    <2> QED BY <1>1, <1>3, <1>4, <1>6, <1>8, <2>2, <2>3, <2>4 DEF IInv, Locks
  <1> QED BY <1>9, <1>10

\* qunlock() passes the lock on, or clears it.
LEMMA PassInv ==
  ASSUME IInv, NEW p \in Procs, NEW q, NEW in, NEW done, NEW meet,
         Pass(p, q, in, done, meet),
         \/ q = "x" /\ in = "r.ux.in" /\ done = "read" /\ meet = "r.ux.meet"
         \/ q = "k" /\ in = "u.k.in"  /\ done = "u.ul" /\ meet = "u.k.meet"
         \/ q = "k" /\ in = "v.k.in"  /\ done = "v.x"  /\ meet = "v.k.meet"
         \/ q = "x" /\ in = "v.x.in"  /\ done = "idle" /\ meet = "v.x.meet"
  PROVE  IInv'
  <1>0. /\ TypeOK /\ q \in Locks /\ done \in PC /\ meet \in PC
        /\ "x" \in Locks /\ "k" \in Locks
    BY DEF IInv, PC, Locks
  <1>1. /\ SpinInv /\ XInv /\ CountInv /\ KInv /\ QueueInv /\ MeetInv
        /\ pc[p] = in /\ in \in InUse(q)
        /\ \A r \in Locks : use'[r] = IF r = q THEN None ELSE use[r]
        /\ UNCHANGED <<l, readers>>
    BY <1>0 DEF Pass, IInv, TypeOK, InUse
  <1> DEFINE to == IF queue[q] = <<>> THEN done ELSE meet
  <1>2. /\ \A x \in Procs : pc'[x] = IF x = p THEN to ELSE pc[x]
        /\ to \in InL <=> in \in InL
        /\ to \in Counted <=> in \in Counted
        /\ to \notin HasK
        /\ \A r \in Locks : to \notin InUse(r) /\ in \notin WaitFor(r)
        /\ \A r \in Locks : r # q => in \notin InUse(r)
    <2>1. \A x \in Procs : pc'[x] = IF x = p THEN to ELSE pc[x]
      BY <1>0 DEF Pass, TypeOK
    <2>2. /\ \A r \in Locks : in \notin WaitFor(r)
          /\ \A r \in Locks : r # q => in \notin InUse(r)
      BY DEF InUse, WaitFor, Locks
    <2>3. \A s \in {done, meet} : /\ s \in InL <=> in \in InL
                                  /\ s \in Counted <=> in \in Counted
                                  /\ s \notin HasK
                                  /\ \A r \in Locks : s \notin InUse(r)
      BY DEF InL, InUse, Counted, HasK, Locks
    <2> QED BY <2>1, <2>2, <2>3
  <1>3. SpinInv'
    <2>1. ASSUME NEW x \in Procs, NEW r \in Locks
          PROVE  (l' = x <=> pc'[x] \in InL) /\ (use'[r] = x <=> pc'[x] \in InUse(r))
      BY <1>0, <1>1, <1>2 DEF SpinInv
    <2> QED BY <1>0, <2>1 DEF SpinInv
  <1>4. Readers' = Readers
    BY <1>1, <1>2 DEF Readers
  <1>5. CountInv'
    BY <1>1, <1>4 DEF CountInv
  <1>6. \A r \in Locks : ToSet(queue[r]) \subseteq Procs /\ p \notin ToSet(queue[r])
    BY <1>0, <1>1, <1>2, QueueSubset DEF TypeOK, QueueInv
  <1>7. \A x \in Procs : tgt[x] # None => tgt[x] \in Procs /\ tgt[x] # p
    <2> SUFFICES ASSUME NEW x \in Procs, tgt[x] # None
                 PROVE  tgt[x] \in Procs /\ pc[tgt[x]] \in WaitFor("x") \cup WaitFor("k")
      BY <1>0, <1>1, <1>2
    <2> QED BY <1>0, <1>1 DEF TypeOK, MeetInv
  <1>8. /\ q = "x" => in \in HasX
        /\ q = "k" => in \in HasK \/ (in \in LastR /\ l = p)
    BY <1>1 DEF HasX, HasK, LastR, SpinInv, InL
  <1>9. in \notin {"v.k.meet", "u.k.meet", "r.ux.meet", "v.x.meet"} /\ tgt[p] = None
    <2>1. in \notin {"v.k.meet", "u.k.meet", "r.ux.meet", "v.x.meet"}
      OBVIOUS
    <2> QED BY <1>1, <2>1 DEF MeetInv
  <1>10. CASE queue[q] = <<>>
    <2>1. /\ UNCHANGED <<queue, tgt>> /\ to = done
          /\ locked' = [locked EXCEPT ![q] = FALSE]
          /\ \A r \in Locks : locked'[r] = IF r = q THEN FALSE ELSE locked[r]
      BY <1>0, <1>10 DEF Pass, TypeOK
    <2>2. TypeOK'
      BY <1>0, <1>10 DEF Pass, TypeOK
    <2>3. XInv' /\ KInv'
      <3>1. CASE q = "x"
        <4>1. done \notin HasX /\ done \notin LastR /\ in \notin HasK \cup LastR
          BY <3>1 DEF HasX, HasK, LastR
        <4>2. locked'["k"] = locked["k"] /\ ~locked'["x"]
          BY <1>0, <2>1, <3>1
        <4>3. \A x \in Procs : pc[x] \in HasX => x = p
          BY <1>1, <1>8, <3>1 DEF XInv
        <4>4. XInv'
          BY <1>1, <1>2, <2>1, <4>1, <4>2, <4>3 DEF XInv
        <4>5. \A x \in Procs : (pc'[x] \in HasK <=> pc[x] \in HasK) /\ (pc'[x] \in LastR <=> pc[x] \in LastR)
          BY <1>1, <1>2, <2>1, <4>1
        <4>6. KInv'
          BY <1>1, <4>2, <4>5 DEF KInv
        <4> QED BY <4>4, <4>6
      <3>2. CASE q = "k"
        <4>1. (done \in HasX <=> in \in HasX) /\ done \notin HasK \cup LastR
          BY <3>2 DEF HasX, HasK, LastR
        <4>2. locked'["x"] = locked["x"] /\ ~locked'["k"]
          BY <1>0, <2>1, <3>2
        <4>3. HasK \subseteq HasX /\ LastR \subseteq InL
          BY DEF HasK, HasX, LastR, InL
        <4>4. readers = 0 /\ \A x \in Procs : pc[x] \in HasK \cup LastR => x = p
          BY <1>1, <1>8, <3>2, <4>3 DEF KInv, XInv, SpinInv
        <4>5. XInv'
          BY <1>1, <1>2, <2>1, <4>1, <4>2 DEF XInv
        <4>6. KInv'
          BY <1>1, <1>2, <2>1, <4>1, <4>2, <4>4 DEF KInv
        <4> QED BY <4>5, <4>6
      <3> QED BY <1>0, <3>1, <3>2 DEF Locks
    <2>4. QueueInv'
      BY <1>1, <1>2, <1>6, <2>1 DEF QueueInv
    <2>5. MeetInv'
      <3>1. done \notin {"v.k.meet", "u.k.meet", "r.ux.meet", "v.x.meet"}
        OBVIOUS
      <3> QED BY <1>1, <1>2, <1>7, <1>9, <2>1, <3>1 DEF MeetInv
    <2> QED BY <1>3, <1>5, <2>2, <2>3, <2>4, <2>5 DEF IInv
  <1>11. CASE queue[q] # <<>>
    <2> DEFINE w == Head(queue[q])
    <2>1. queue[q] \in Seq(Procs)
      BY <1>0 DEF TypeOK
    <2>2. /\ w \in Procs /\ Tail(queue[q]) \in Seq(Procs)
          /\ w \in ToSet(queue[q]) /\ w \notin ToSet(Tail(queue[q]))
          /\ ToSet(Tail(queue[q])) \subseteq ToSet(queue[q])
          /\ IsInjective(Tail(queue[q]))
      BY <1>0, <1>1, <1>11, <2>1, TailQueue DEF QueueInv
    <2> HIDE DEF w
    <2>3. /\ UNCHANGED locked /\ to = meet
          /\ \A r \in Locks : queue'[r] = IF r = q THEN Tail(queue[q]) ELSE queue[r]
          /\ \A x \in Procs : tgt'[x] = IF x = p THEN w ELSE tgt[x]
      BY <1>0, <1>11 DEF Pass, TypeOK, w
    <2>4. TypeOK'
      BY <1>0, <1>11, <2>2 DEF Pass, TypeOK, w
    <2>5. pc[w] \in WaitFor(q) /\ w # p /\ \A m \in Procs : tgt[m] # w
      BY <1>0, <1>1, <1>6, <2>2 DEF QueueInv
    <2>6. in # "v.k.in"
      <3> SUFFICES ASSUME in = "v.k.in" PROVE FALSE
        OBVIOUS
      <3>1. in \in HasX /\ q = "k" /\ WaitFor("k") \subseteq HasX
        BY DEF HasX, WaitFor
      <3> QED BY <1>1, <2>2, <2>5, <3>1 DEF XInv
    <2>7. /\ meet \in HasX <=> in \in HasX
          /\ meet \in LastR <=> in \in LastR
          /\ in \notin HasK
      BY <2>6 DEF HasX, LastR, HasK
    <2>8. XInv' /\ KInv'
      BY <1>1, <1>2, <2>3, <2>7 DEF XInv, KInv
    <2>9. QueueInv'
      <3> SUFFICES ASSUME NEW r \in Locks
                   PROVE  /\ IsInjective(queue'[r])
                          /\ \A x \in ToSet(queue'[r]) : /\ pc'[x] \in WaitFor(r)
                                                          /\ \A m \in Procs : tgt'[m] # x
        BY DEF QueueInv
      <3>1. \A x \in ToSet(queue'[r]) : x \in ToSet(queue[r]) /\ x \in Procs /\ x # p
        BY <1>6, <2>2, <2>3
      <3>2. \A x \in ToSet(queue'[r]) : x # w
        <4>1. r # q => WaitFor(r) \cap WaitFor(q) = {}
          BY <1>0 DEF WaitFor, Locks
        <4> QED BY <1>1, <2>2, <2>3, <2>5, <4>1 DEF QueueInv
      <3> QED BY <1>1, <1>2, <2>2, <2>3, <3>1, <3>2 DEF QueueInv
    <2>10. MeetInv'
      <3>1. /\ meet \in {"r.ux.meet", "v.x.meet", "u.k.meet"}
            /\ meet = "u.k.meet" <=> q = "k"
        BY <2>6
      <3>2. w # None /\ pc'[w] = pc[w]
        BY <1>2, <2>2, <2>5
      <3>3. \A x \in Procs : tgt[x] # None => pc'[tgt[x]] = pc[tgt[x]] /\ tgt[x] # w
        BY <1>2, <1>7, <2>5
      <3>4. ASSUME NEW x \in Procs
            PROVE  /\ pc'[x] # "v.k.meet"
                   /\ tgt'[x] # None <=> pc'[x] \in {"r.ux.meet", "v.x.meet", "u.k.meet"}
                   /\ pc'[x] = "u.k.meet" => pc'[tgt'[x]] \in WaitFor("k")
                   /\ pc'[x] \in {"r.ux.meet", "v.x.meet"} => pc'[tgt'[x]] \in WaitFor("x")
        <4>1. CASE x = p
          <5>1. pc'[x] = meet /\ tgt'[x] = w /\ pc'[w] \in WaitFor(q)
            BY <1>2, <2>3, <2>5, <3>2, <4>1
          <5>2. q = "x" \/ q = "k"
            BY <1>0 DEF Locks
          <5> QED BY <3>1, <3>2, <5>1, <5>2
        <4>2. CASE x # p
          BY <1>1, <1>2, <2>3, <3>3, <4>2 DEF MeetInv
        <4> QED BY <4>1, <4>2
      <3>5. ASSUME NEW x \in Procs, NEW y \in Procs, tgt'[x] # None, tgt'[x] = tgt'[y]
            PROVE  x = y
        BY <1>1, <2>3, <2>5, <3>5 DEF MeetInv
      <3> QED BY <3>4, <3>5 DEF MeetInv
    <2> QED BY <1>3, <1>5, <2>4, <2>8, <2>9, <2>10 DEF IInv
  <1> QED BY <1>10, <1>11

\* erendezvous() lets the next holder of the lock go on.
LEMMA MeetsInv ==
  ASSUME IInv, NEW p \in Procs, NEW meet, NEW done, Meet(p, meet, done),
         \/ meet = "r.ux.meet" /\ done = "read"
         \/ meet = "u.k.meet"  /\ done = "u.ul"
         \/ meet = "v.k.meet"  /\ done = "v.x"
         \/ meet = "v.x.meet"  /\ done = "idle"
  PROVE  IInv'
  <1> DEFINE w == tgt[p]
  <1>0. /\ TypeOK /\ SpinInv /\ XInv /\ CountInv /\ KInv /\ QueueInv /\ MeetInv
        /\ "x" \in Locks /\ "k" \in Locks
    BY DEF IInv, Locks
  <1>1. /\ pc[p] = meet /\ meet # "v.k.meet" /\ w \in Procs /\ w # p
        /\ \A x \in Procs : x # p => tgt[x] # w
    <2>1. pc[p] = meet /\ pc[w] \in {"r.x.wait", "w.x.wait", "w.k.wait"}
      BY DEF Meet
    <2>2. w # None /\ meet # "v.k.meet"
      BY <1>0, <2>1 DEF MeetInv
    <2>3. w \in Procs
      BY <1>0, <2>2 DEF TypeOK
    <2> QED BY <1>0, <2>1, <2>2, <2>3 DEF MeetInv
  <1>2. /\ pc[w] \in {"r.x.wait", "w.x.wait", "w.k.wait"}
        /\ meet = "u.k.meet" <=> pc[w] = "w.k.wait"
    BY <1>0, <1>1 DEF Meet, MeetInv, WaitFor
  <1> DEFINE go == After(pc[w])
  <1>3. /\ go \in PC /\ done \in PC
        /\ go = IF pc[w] = "r.x.wait" THEN "r.l" ELSE IF pc[w] = "w.x.wait" THEN "w.k" ELSE "write"
    BY <1>2 DEF After, PC
  <1> HIDE DEF w, go
  <1>4. /\ \A x \in Procs : pc'[x] = IF x = w THEN go ELSE IF x = p THEN done ELSE pc[x]
        /\ \A x \in Procs : tgt'[x] = IF x = p THEN None ELSE tgt[x]
        /\ UNCHANGED <<locked, queue, use, l, readers>>
    BY <1>0, <1>1 DEF Meet, TypeOK, w, go
  <1>5. TypeOK'
    BY <1>0, <1>1, <1>3 DEF Meet, TypeOK, w, go
  <1>6. /\ \A r \in Locks : /\ pc[w] \notin InUse(r) /\ go \notin InUse(r)
                           /\ meet \notin InUse(r) /\ done \notin InUse(r)
                           /\ meet \notin WaitFor(r)
        /\ pc[w] \notin InL /\ go \notin InL /\ (meet \in InL <=> done \in InL)
        /\ pc[w] \notin Counted /\ go \notin Counted /\ (meet \in Counted <=> done \in Counted)
    <2>1. \A r \in Locks : /\ pc[w] \notin InUse(r) /\ go \notin InUse(r)
                           /\ meet \notin InUse(r) /\ done \notin InUse(r)
                           /\ meet \notin WaitFor(r)
      BY <1>2, <1>3 DEF InUse, WaitFor, Locks
    <2>2. pc[w] \notin InL /\ go \notin InL /\ (meet \in InL <=> done \in InL)
      BY <1>1, <1>2, <1>3 DEF InL
    <2>3. pc[w] \notin Counted /\ go \notin Counted /\ (meet \in Counted <=> done \in Counted)
      BY <1>1, <1>2, <1>3 DEF Counted
    <2> QED BY <2>1, <2>2, <2>3
  <1>7. SpinInv'
    <2>1. ASSUME NEW x \in Procs, NEW r \in Locks
          PROVE  (l' = x <=> pc'[x] \in InL) /\ (use'[r] = x <=> pc'[x] \in InUse(r))
      BY <1>0, <1>1, <1>4, <1>6 DEF SpinInv
    <2> QED BY <1>0, <2>1 DEF SpinInv
  <1>8. Readers' = Readers
    BY <1>1, <1>4, <1>6 DEF Readers
  <1>9. CountInv'
    BY <1>0, <1>4, <1>8 DEF CountInv
  <1>10. XInv' /\ KInv'
    <2>1. CASE meet = "u.k.meet"
      <3>1. /\ pc[w] \in HasX /\ pc[w] \notin HasK \cup LastR
            /\ go \in HasX /\ go \in HasK /\ go \notin LastR
            /\ meet \notin HasX /\ meet \in LastR /\ meet \notin HasK
            /\ done \notin HasX /\ done \notin LastR /\ done \notin HasK
        BY <1>2, <1>3, <2>1 DEF HasX, HasK, LastR
      <3>2. LastR \subseteq InL
        BY DEF LastR, InL
      <3>3. \A x \in Procs : pc[x] \notin HasK /\ (pc[x] \in LastR => x = p)
        <4>1. \A x \in Procs : pc[x] \notin HasK
          BY <1>0, <1>1, <3>1 DEF KInv
        <4>2. \A x \in Procs : pc[x] \in LastR => l = x
          BY <1>0, <3>2 DEF SpinInv
        <4>3. l = p
          BY <1>1, <3>1, <4>2
        <4> QED BY <4>1, <4>2, <4>3
      <3>4. XInv'
        BY <1>0, <1>1, <1>4, <3>1 DEF XInv
      <3>5. KInv'
        BY <1>0, <1>1, <1>4, <3>1, <3>3 DEF KInv
      <3> QED BY <3>4, <3>5
    <2>2. CASE meet # "u.k.meet"
      <3>1. /\ pc[w] \notin HasX \cup HasK \cup LastR
            /\ go \in HasX /\ go \notin HasK \cup LastR
            /\ meet \in HasX /\ meet \notin HasK \cup LastR
            /\ done \notin HasX \cup HasK \cup LastR
        BY <1>1, <1>2, <1>3, <2>2 DEF HasX, HasK, LastR
      <3>2. XInv'
        BY <1>0, <1>1, <1>4, <3>1 DEF XInv
      <3>3. \A x \in Procs : (pc'[x] \in HasK <=> pc[x] \in HasK) /\ (pc'[x] \in LastR <=> pc[x] \in LastR)
        BY <1>1, <1>4, <3>1
      <3>4. KInv'
        BY <1>0, <1>4, <3>3 DEF KInv
      <3> QED BY <3>2, <3>4
    <2> QED BY <2>1, <2>2
  <1>11. QueueInv'
    <2> SUFFICES ASSUME NEW r \in Locks
                 PROVE  /\ IsInjective(queue[r])
                        /\ \A x \in ToSet(queue[r]) : /\ pc'[x] \in WaitFor(r)
                                                       /\ \A m \in Procs : tgt'[m] # x
      BY <1>4 DEF QueueInv
    <2>1. \A x \in ToSet(queue[r]) : x \in Procs /\ x # w /\ x # p
      <3>1. ToSet(queue[r]) \subseteq Procs
        BY <1>0, QueueSubset DEF TypeOK
      <3> QED BY <1>0, <1>1, <1>6, <3>1 DEF QueueInv, w
    <2> QED BY <1>0, <1>4, <2>1 DEF QueueInv
  <1>12. MeetInv'
    <2>1. /\ go \notin {"v.k.meet", "u.k.meet", "r.ux.meet", "v.x.meet"}
          /\ done \notin {"v.k.meet", "u.k.meet", "r.ux.meet", "v.x.meet"}
      BY <1>2, <1>3
    <2>2. tgt[w] = None
      BY <1>0, <1>1, <1>2 DEF MeetInv
    <2>3. \A x \in Procs : tgt[x] # None => pc[tgt[x]] \in WaitFor("x") \cup WaitFor("k") /\ tgt[x] \in Procs
      BY <1>0 DEF MeetInv, TypeOK
    <2>4. \A x \in Procs : x # p /\ tgt[x] # None => tgt[x] # w /\ tgt[x] # p /\ pc'[tgt[x]] = pc[tgt[x]]
      BY <1>0, <1>1, <1>4, <1>6, <2>3
    <2>5. ASSUME NEW x \in Procs
          PROVE  /\ pc'[x] # "v.k.meet"
                 /\ tgt'[x] # None <=> pc'[x] \in {"r.ux.meet", "v.x.meet", "u.k.meet"}
                 /\ pc'[x] = "u.k.meet" => pc'[tgt'[x]] \in WaitFor("k")
                 /\ pc'[x] \in {"r.ux.meet", "v.x.meet"} => pc'[tgt'[x]] \in WaitFor("x")
      <3>1. CASE x = p \/ x = w
        BY <1>1, <1>4, <2>1, <2>2, <3>1
      <3>2. CASE x # p /\ x # w
        BY <1>0, <1>4, <2>4, <3>2 DEF MeetInv
      <3> QED BY <3>1, <3>2
    <2>6. ASSUME NEW x \in Procs, NEW y \in Procs, tgt'[x] # None, tgt'[x] = tgt'[y]
          PROVE  x = y
      BY <1>0, <1>4, <2>6 DEF MeetInv
    <2> QED BY <2>5, <2>6 DEF MeetInv
  <1> QED BY <1>5, <1>7, <1>9, <1>10, <1>11, <1>12 DEF IInv

\* A reader is counted, and k is locked if nobody has locked it: canqlock()
\* does not fail because of another process inside k.
LEMMA CountStepInv ==
  ASSUME IInv, NEW p \in Procs, Count(p)
  PROVE  IInv' /\ use["k"] = None
  <1>0. /\ TypeOK /\ SpinInv /\ XInv /\ CountInv /\ KInv /\ QueueInv /\ MeetInv
        /\ "x" \in Locks /\ "k" \in Locks
    BY DEF IInv, Locks
  <1>1. /\ pc[p] = "r.k" /\ readers' = readers + 1 /\ l' = None
        /\ \A x \in Procs : pc'[x] = IF x = p THEN "r.ux" ELSE pc[x]
        /\ UNCHANGED <<queue, use, tgt>>
    BY <1>0 DEF Count, Goto, TypeOK
  <1>2. /\ \A x \in Procs : pc[x] \in HasX => x = p
        /\ \A x \in Procs : pc[x] \in InL => x = p
    BY <1>0, <1>1 DEF XInv, SpinInv, HasX, InL
  <1>3. use["k"] = None
    <2>1. \A x \in Procs : pc[x] \notin InUse("k")
      BY <1>1, <1>2 DEF InUse, HasX, InL
    <2>2. use["k"] \in Procs \cup {None}
      BY <1>0 DEF TypeOK
    <2> QED BY <1>0, <2>1, <2>2 DEF SpinInv
  <1>4. locked'["k"] /\ locked'["x"] = locked["x"]
    BY <1>0, <1>3 DEF Count, TypeOK
  <1>5. TypeOK'
    <2>1. "r.ux" \in PC
      BY DEF PC
    <2> QED BY <1>0, <2>1 DEF Count, Goto, TypeOK
  <1>6. SpinInv'
    <2>1. ASSUME NEW x \in Procs, NEW r \in Locks
          PROVE  (l' = x <=> pc'[x] \in InL) /\ (use'[r] = x <=> pc'[x] \in InUse(r))
      <3>1. /\ "r.ux" \notin InL /\ "r.ux" \notin InUse(r) /\ "r.k" \notin InUse(r)
        BY DEF InL, InUse
      <3> QED BY <1>0, <1>1, <1>2, <3>1 DEF SpinInv
    <2> QED BY <1>0, <2>1 DEF SpinInv
  <1>7. XInv'
    BY <1>0, <1>1, <1>4 DEF XInv, HasX
  <1>8. CountInv'
    <2>1. Readers' = Readers \cup {p} /\ p \notin Readers
      BY <1>1 DEF Readers, Counted
    <2> QED BY <1>0, <1>1, <2>1, FS_AddElement DEF CountInv
  <1>9. KInv'
    <2>1. \A x \in Procs : pc'[x] \notin HasK \cup LastR
      BY <1>1, <1>2 DEF HasK, LastR, HasX, InL
    <2>2. readers' > 0
      BY <1>0, <1>1 DEF TypeOK
    <2> QED BY <1>4, <2>1, <2>2 DEF KInv
  <1>10. QueueInv'
    <2>1. \A r \in Locks : ToSet(queue[r]) \subseteq Procs /\ p \notin ToSet(queue[r])
      BY <1>0, <1>1, QueueSubset DEF TypeOK, QueueInv, WaitFor
    <2> QED BY <1>0, <1>1, <2>1 DEF QueueInv
  <1>11. MeetInv'
    <2>1. \A x \in Procs : tgt[x] # None => tgt[x] \in Procs /\ tgt[x] # p
      BY <1>0, <1>1, TargetsWait
    <2> QED BY <1>0, <1>1, <2>1 DEF MeetInv
  <1> QED BY <1>3, <1>5, <1>6, <1>7, <1>8, <1>9, <1>10, <1>11 DEF IInv

\* A reader is no longer counted; the last one keeps k until it passes it on.
LEMMA UncountInv ==
  ASSUME IInv, NEW p \in Procs, Uncount(p)
  PROVE  IInv'
  <1> DEFINE to == IF readers = 1 THEN "u.k" ELSE "u.ul"
  <1>0. /\ TypeOK /\ SpinInv /\ XInv /\ CountInv /\ KInv /\ QueueInv /\ MeetInv
        /\ "x" \in Locks /\ "k" \in Locks
    BY DEF IInv, Locks
  <1>1. /\ pc[p] = "u.n" /\ readers' = readers - 1
        /\ \A x \in Procs : pc'[x] = IF x = p THEN to ELSE pc[x]
        /\ UNCHANGED <<locked, queue, use, l, tgt>>
    BY <1>0 DEF Uncount, Goto, TypeOK
  <1>2. CountInv' /\ readers > 0
    <2>1. Readers' = Readers \ {p} /\ p \in Readers
      BY <1>1 DEF Readers, Counted
    <2>2. Readers # {}
      BY <2>1
    <2>3. Cardinality(Readers) # 0
      BY <1>0, <2>2, FS_EmptySet DEF CountInv
    <2>4. IsFiniteSet(Readers') /\ Cardinality(Readers') = readers - 1
      <3>1. IsFiniteSet(Readers) /\ readers = Cardinality(Readers)
        BY <1>0 DEF CountInv
      <3> HIDE DEF Readers
      <3>2. IsFiniteSet(Readers \ {p}) /\ Cardinality(Readers \ {p}) = Cardinality(Readers) - 1
        BY <2>1, <3>1, FS_RemoveElement
      <3> QED BY <2>1, <3>1, <3>2
    <2>5. CountInv'
      BY <1>1, <2>4 DEF CountInv
    <2>6. readers > 0
      BY <1>0, <2>3 DEF CountInv, TypeOK
    <2> QED BY <2>5, <2>6
  <1>3. TypeOK'
    <2>1. to \in PC /\ readers - 1 \in Nat
      BY <1>0, <1>2 DEF PC, TypeOK
    <2> QED BY <1>0, <2>1 DEF Uncount, Goto, TypeOK
  <1>4. SpinInv'
    <2>1. ASSUME NEW x \in Procs, NEW r \in Locks
          PROVE  (l' = x <=> pc'[x] \in InL) /\ (use'[r] = x <=> pc'[x] \in InUse(r))
      <3>1. to \in InL /\ "u.n" \in InL /\ to \notin InUse(r) /\ "u.n" \notin InUse(r)
        BY DEF InL, InUse
      <3> QED BY <1>0, <1>1, <3>1 DEF SpinInv
    <2> QED BY <1>0, <2>1 DEF SpinInv
  <1>5. XInv'
    <2>1. to \notin HasX /\ "u.n" \notin HasX
      BY DEF HasX
    <2> QED BY <1>0, <1>1, <2>1 DEF XInv
  <1>6. KInv'
    <2>1. \A x \in Procs : pc[x] \notin HasK \cup LastR
      BY <1>0, <1>2 DEF KInv
    <2>2. locked["k"]
      BY <1>0, <1>2 DEF KInv
    <2>3. CASE readers = 1
      <3>1. to = "u.k" /\ readers' = 0 /\ "u.k" \in LastR /\ "u.k" \notin HasK
        BY <1>1, <2>3 DEF HasK, LastR
      <3> QED BY <1>1, <2>1, <2>2, <3>1 DEF KInv
    <2>4. CASE readers # 1
      <3>1. to = "u.ul" /\ readers' > 0 /\ "u.ul" \notin LastR /\ "u.ul" \notin HasK
        BY <1>0, <1>1, <1>2, <2>4 DEF HasK, LastR, TypeOK
      <3> QED BY <1>1, <2>1, <2>2, <3>1 DEF KInv
    <2> QED BY <2>3, <2>4
  <1>7. QueueInv'
    <2>1. \A r \in Locks : ToSet(queue[r]) \subseteq Procs /\ p \notin ToSet(queue[r])
      BY <1>0, <1>1, QueueSubset DEF TypeOK, QueueInv, WaitFor
    <2> QED BY <1>0, <1>1, <2>1 DEF QueueInv
  <1>8. MeetInv'
    <2>1. \A x \in Procs : tgt[x] # None => tgt[x] \in Procs /\ tgt[x] # p
      BY <1>0, <1>1, TargetsWait
    <2> QED BY <1>0, <1>1, <2>1 DEF MeetInv
  <1> QED BY <1>2, <1>3, <1>4, <1>5, <1>6, <1>7, <1>8 DEF IInv

\* canqlock(&l->x) takes x only if nobody has it.
LEMMA CanRLockInv ==
  ASSUME IInv, NEW p \in Procs, CanRLock(p)
  PROVE  IInv'
  <1>0. /\ TypeOK /\ SpinInv /\ XInv /\ CountInv /\ KInv /\ QueueInv /\ MeetInv
        /\ "x" \in Locks /\ "k" \in Locks /\ "x" # "k"
    BY DEF IInv, Locks
  <1>1. /\ pc[p] = "idle" /\ ~locked["x"] /\ locked'["x"] /\ locked'["k"] = locked["k"]
        /\ \A x \in Procs : pc'[x] = IF x = p THEN "r.l" ELSE pc[x]
        /\ UNCHANGED <<queue, use, l, readers, tgt>>
    BY <1>0 DEF CanRLock, Goto, TypeOK
  <1>2. TypeOK'
    <2>1. "r.l" \in PC
      BY DEF PC
    <2> QED BY <1>0, <2>1 DEF CanRLock, Goto, TypeOK
  <1>3. SpinInv'
    BY <1>0, <1>1 DEF SpinInv, InL, InUse
  <1>4. XInv'
    <2>1. "r.l" \in HasX /\ \A x \in Procs : pc[x] \notin HasX
      BY <1>0, <1>1 DEF XInv, HasX
    <2> QED BY <1>1, <2>1 DEF XInv
  <1>5. Readers' = Readers
    BY <1>1 DEF Readers, Counted
  <1>6. CountInv' /\ KInv'
    BY <1>0, <1>1, <1>5 DEF CountInv, KInv, HasK, LastR
  <1>7. QueueInv'
    <2>1. \A r \in Locks : ToSet(queue[r]) \subseteq Procs /\ p \notin ToSet(queue[r])
      BY <1>0, <1>1, QueueSubset DEF TypeOK, QueueInv, WaitFor
    <2> QED BY <1>0, <1>1, <2>1 DEF QueueInv
  <1>8. MeetInv'
    <2>1. \A x \in Procs : tgt[x] # None => tgt[x] \in Procs /\ tgt[x] # p
      BY <1>0, <1>1, TargetsWait
    <2> QED BY <1>0, <1>1, <2>1 DEF MeetInv
  <1> QED BY <1>2, <1>3, <1>4, <1>6, <1>7, <1>8 DEF IInv

-----------------------------------------------------------------------------
\* Nobody has or wants a lock at first.
LEMMA InitIInv == Init => IInv
  <1> SUFFICES ASSUME Init PROVE IInv
    OBVIOUS
  <1> USE DEF Init
  <1>1. TypeOK
    BY DEF TypeOK, PC, Locks
  <1>2. SpinInv /\ XInv /\ MeetInv
    BY DEF SpinInv, InL, InUse, XInv, HasX, MeetInv, Locks
  <1>3. Readers = {}
    BY DEF Readers, Counted
  <1>4. CountInv /\ KInv
    BY <1>3, FS_EmptySet DEF CountInv, KInv, HasK, LastR, Locks
  <1>5. QueueInv
    BY EmptyQueue DEF QueueInv, Locks
  <1> QED BY <1>1, <1>2, <1>4, <1>5 DEF IInv

\* Every step of qlock, qunlock, rlock, canrlock, runlock, wlock and wunlock
\* keeps it.
LEMMA NextIInv == IInv /\ [Next]_vars => IInv'
  <1> SUFFICES ASSUME IInv, [Next]_vars PROVE IInv'
    OBVIOUS
  <1>1. CASE UNCHANGED vars
    <2>1. /\ TypeOK' /\ SpinInv' /\ XInv' /\ QueueInv' /\ MeetInv'
      BY <1>1 DEF IInv, vars, TypeOK, SpinInv, XInv, QueueInv, MeetInv
    <2>2. CountInv' /\ KInv'
      BY <1>1 DEF IInv, vars, CountInv, Readers, KInv
    <2> QED BY <2>1, <2>2 DEF IInv
  <1>2. ASSUME NEW p \in Procs, RLock(p) \/ RUnlock(p) \/ WLock(p) \/ WUnlock(p)
        PROVE  IInv'
    BY <1>2, BeginInv
  <1>3. ASSUME NEW p \in Procs, CanRLock(p) PROVE IInv'
    BY <1>3, CanRLockInv
  <1>4. ASSUME NEW p \in Procs, RLockStep(p) PROVE IInv'
    BY <1>4, UseInv, TakeInv, LInv, CountStepInv, PassInv, MeetsInv DEF RLockStep
  <1>5. ASSUME NEW p \in Procs, RUnlockStep(p) PROVE IInv'
    BY <1>5, LInv, UncountInv, UseInv, PassInv, MeetsInv DEF RUnlockStep
  <1>6. ASSUME NEW p \in Procs, WLockStep(p) PROVE IInv'
    BY <1>6, UseInv, TakeInv DEF WLockStep
  <1>7. ASSUME NEW p \in Procs, WUnlockStep(p) PROVE IInv'
    BY <1>7, UseInv, PassInv, MeetsInv DEF WUnlockStep
  <1> QED BY <1>1, <1>2, <1>3, <1>4, <1>5, <1>6, <1>7 DEF Next, Step

\* The inductive invariant holds for any number of processes.
THEOREM IInvHolds == Spec => []IInv
  BY InitIInv, NextIInv, PTL DEF Spec

\* Every variable has its type: no count of readers is negative.
THEOREM TypeCorrect == Spec => []TypeOK
  <1>1. IInv => TypeOK
    BY DEF IInv
  <1> QED BY <1>1, IInvHolds, PTL

\* What Exclusion says of the locks follows from the inductive invariant.
LEMMA IInvExclusion == IInv => Exclusion
  <1> SUFFICES ASSUME IInv PROVE Exclusion
    OBVIOUS
  <1>0. /\ TypeOK /\ SpinInv /\ XInv /\ CountInv /\ KInv /\ QueueInv /\ MeetInv
    BY DEF IInv
  <1>1. ASSUME NEW p \in Procs, NEW q \in Procs, p # q, Writing(p)
        PROVE  ~Writing(q) /\ ~Reading(q)
    <2>1. pc[p] \in HasX /\ pc[p] \in HasK
      BY <1>1 DEF Writing, HasX, HasK
    <2>2. ~Writing(q)
      BY <1>0, <1>1, <2>1 DEF XInv, Writing, HasX
    <2>3. Readers = {}
      BY <1>0, <2>1, FS_EmptySet DEF KInv, CountInv
    <2>4. ~Reading(q)
      BY <2>3 DEF Readers, Reading, Counted
    <2> QED BY <2>2, <2>4
  <1>2. CanQLockSure
    <2> SUFFICES ASSUME NEW p \in Procs, pc[p] = "r.k"
                 PROVE  use["k"] = None /\ (locked["k"] <=> readers > 0)
      BY DEF CanQLockSure
    <2>1. \A x \in Procs : x # p => pc[x] \notin HasX \cup InL
      BY <1>0 DEF XInv, SpinInv, HasX, InL
    <2>2. \A x \in Procs : pc[x] \notin InUse("k") \cup HasK \cup LastR
      BY <2>1 DEF HasX, InL, InUse, HasK, LastR
    <2>3. "k" \in Locks /\ use["k"] \in Procs \cup {None}
      BY <1>0 DEF TypeOK, Locks
    <2> QED BY <1>0, <2>2, <2>3 DEF SpinInv, KInv
  <1>3. MeetsWaiter
    BY <1>0 DEF MeetInv, MeetsWaiter, WaitFor
  <1> QED BY <1>1, <1>2, <1>3 DEF Exclusion

\* A writer has the lock alone, rlock() need not look at what canqlock()
\* returns, and a QLock that is passed on reaches its waiter.
THEOREM ExclusionHolds == Spec => []Exclusion
  BY IInvHolds, IInvExclusion, PTL

-----------------------------------------------------------------------------
(***************************************************************************)
(* Export: who refers to an Export, where a request is, and who answers    *)
(* it, for any number of exports, slaves, requests and flushes.            *)
(*                                                                         *)
(* What export and slave say of a request belongs to whoever has it in     *)
(* hand: an exportproc until it is queued (or again when it is flushed     *)
(* from the queue), a slave from then on.                                  *)
(***************************************************************************)
ExportPlaces ==
  {"read", "enqueue", "spawn", "wake", "flushqueue", "flushed", "flushwork", "flushswi",
   "flushreply", "shutqueue", "shutwork", "shutswi", "shutfree", "gone"}

SlavePlaces == {"none", "qlock", "qwait", "sleep", "asleep", "take", "qunlock", "join",
                "work", "reply"}

(* Where exportproc serves a flush, and holds a reference for it.          *)
FlushPlaces == {"flushqueue", "flushed", "flushwork", "flushswi", "flushreply"}

ExqTypes ==
  /\ exq \in Seq(Reqs)
  /\ qholder \in Slaves \cup {Nil} /\ qwait \in Seq(Slaves) /\ rwait \in Slaves \cup {Nil}

FsTypes ==
  /\ ref \in [Exports -> Int] /\ work \in [Exports -> SUBSET Reqs]

ReqTypes ==
  /\ export \in [Reqs -> Exports \cup {Nil}]
  /\ slave \in [Reqs -> Slaves \cup {Nil}]
  /\ flushtag \in [Reqs -> Flushes \cup {Nil}]
  /\ shut \in [Reqs -> BOOLEAN]
  /\ reqs \in 0 .. MaxReqs /\ flushes \in 0 .. MaxFlushes
  /\ replies \in [Reqs -> Nat] /\ rflushes \in [Flushes -> Nat]

(* exportproc and exslave are never where the other may be, and swiproc is *)
(* called for a slave.                                                     *)
ServerTypes ==
  /\ place \in [Servers -> ExportPlaces \cup SlavePlaces]
  /\ \A e \in Exports : place[e] \in ExportPlaces
  /\ \A e \in Exports : place[e] \in {"flushswi", "shutswi"} => target[e] \in Slaves
  /\ \A s \in Slaves : place[s] \in SlavePlaces
  /\ req \in [Servers -> Reqs \cup {Nil}]
  /\ flush \in [Exports -> Flushes \cup {Nil}]
  /\ target \in [Exports -> Slaves \cup {Nil}]

(* Who holds the QLock exq.qwait, waits for it, and sleeps on exq.rwait.   *)
ExqWait(s) ==
  /\ (qholder = s) <=> (place[s] \in {"sleep", "asleep", "take", "qunlock"})
  /\ (rwait = s) <=> (place[s] = "asleep")
  /\ (s \in ToSet(qwait)) <=> (place[s] = "qwait")

ExqWaitInv == IsInjective(qwait) /\ \A s \in Slaves : ExqWait(s)

(* q->slave of a request that a slave has is that slave: no two have one.  *)
SlaveHand(s) ==
  /\ req[s] # Nil => /\ place[s] \in {"qunlock", "join", "work", "reply"}
                     /\ export[req[s]] # Nil /\ slave[req[s]] = s
  /\ place[s] \in {"join", "work", "reply"} => req[s] # Nil

SlaveHands == \A s \in Slaves : SlaveHand(s)

(* exportproc has a request it has read or unlinked; the one it shall      *)
(* flush it only names.                                                    *)
Owns(e) == place[e] \in {"enqueue", "flushed"}

ExportHand(e) ==
  /\ place[e] \in FlushPlaces \cup {"enqueue"} => req[e] # Nil
  /\ Owns(e) => /\ export[req[e]] = e
                /\ req[e] \notin ToSet(exq)
                /\ \A s \in Slaves : req[s] # req[e]
  /\ flush[e] # Nil <=> place[e] \in FlushPlaces

ExportHands == \A e \in Exports : ExportHand(e)

QueueHands ==
  /\ IsInjective(exq)
  /\ \A i \in ToSet(exq) : export[i] # Nil /\ \A s \in Slaves : req[s] # i

FreshReqs == \A i \in Reqs : i > reqs => export[i] = Nil /\ replies[i] = 0

(* r.ref counts the requests, the exportproc, and the flush it serves.     *)
RefsCounted ==
  \A e \in Exports :
    ref[e] = Cardinality(Live(e)) + (IF place[e] = "gone" THEN 0 ELSE 1)
              + (IF flush[e] = Nil THEN 0 ELSE 1)

WorkListed ==
  \A e \in Exports :
    work[e] = {i \in Live(e) : \E s \in Slaves : req[s] = i /\ place[s] = "work"}

ExportInv ==
  /\ ExqTypes /\ FsTypes /\ ReqTypes /\ ServerTypes
  /\ ExqWaitInv /\ SlaveHands /\ ExportHands /\ QueueHands /\ FreshReqs
  /\ RefsCounted /\ WorkListed

-----------------------------------------------------------------------------
\* An exportproc is no slave, and neither is a nil pointer.
LEMMA Apart ==
  /\ \A e \in Exports, s \in Slaves : e # s
  /\ Nil \notin Exports /\ Nil \notin Slaves /\ Nil \notin Nat /\ Nil \notin Servers
  /\ MaxReqs \in Nat /\ MaxFlushes \in Nat
  BY ExportAssumption DEF Servers

\* From here on: processes are told apart, and names for lists are expanded.
USE Apart DEF Servers, To, exqVars, lockVars, fsVars, reqVars, hands, sent, answers

\* The requests of an Export can be counted.
LEMMA LiveFinite ==
  ASSUME NEW e, NEW I \in SUBSET Live(e)
  PROVE  /\ IsFiniteSet(Live(e)) /\ Cardinality(Live(e)) \in Nat
         /\ IsFiniteSet(I) /\ Cardinality(I) \in Nat
  <1>1. Live(e) \in SUBSET Reqs /\ I \in SUBSET Reqs
    BY DEF Live
  <1>2. IsFiniteSet(Reqs)
    BY FS_Interval DEF Reqs
  <1>3. IsFiniteSet(Live(e)) /\ IsFiniteSet(I)
    BY <1>1, <1>2, FS_Subset
  <1> QED BY <1>3, FS_CardinalityType

\* Reading a request (exalloc) makes one more of its Export.
LEMMA LiveMore ==
  ASSUME NEW e \in Exports, NEW i \in Reqs, ReqTypes, export[i] = Nil,
         export' = [export EXCEPT ![i] = e]
  PROVE  /\ Cardinality(Live(e))' = Cardinality(Live(e)) + 1
         /\ \A d \in Exports \ {e} : Live(d)' = Live(d)
  <1>1. Live(e)' = Live(e) \cup {i} /\ i \notin Live(e)
    BY DEF Live, ReqTypes
  <1>2. IsFiniteSet(Live(e))
    BY LiveFinite, {} \in SUBSET Live(e)
  <1>3. Cardinality(Live(e)') = Cardinality(Live(e)) + 1
    BY <1>1, <1>2, FS_AddElement
  <1>4. \A d \in Exports \ {e} : Live(d)' = Live(d)
    BY DEF Live, ReqTypes
  <1> QED BY <1>3, <1>4

\* Freeing the requests in I makes as many less of their Export.
LEMMA LiveLess ==
  ASSUME NEW e \in Exports, NEW I \in SUBSET Live(e),
         \A i \in Reqs : export'[i] = IF i \in I THEN Nil ELSE export[i]
  PROVE  /\ Cardinality(Live(e))' = Cardinality(Live(e)) - Cardinality(I)
         /\ \A d \in Exports \ {e} : Live(d)' = Live(d)
  <1>1. Live(e)' = Live(e) \ I /\ Live(e) \cap I = I
    BY DEF Live
  <1>2. IsFiniteSet(Live(e))
    BY LiveFinite
  <1>3. Cardinality(Live(e)') = Cardinality(Live(e)) - Cardinality(I)
    BY <1>1, <1>2, FS_Difference
  <1>4. \A d \in Exports \ {e} : Live(d)' = Live(d)
    BY DEF Live
  <1> QED BY <1>3, <1>4

\* A step that allocates, frees and ends nothing keeps the references right.
LEMMA SameRefs ==
  ASSUME UNCHANGED <<ref, export>>,
         \A e \in Exports : place'[e] = "gone" <=> place[e] = "gone",
         \A e \in Exports : flush'[e] = Nil <=> flush[e] = Nil,
         RefsCounted
  PROVE  RefsCounted'
  BY DEF RefsCounted, Live

\* A step that starts and ends no work keeps fs->work right.
LEMMA SameWork ==
  ASSUME UNCHANGED work, ReqTypes, ServerTypes, SlaveHands,
         \A s \in Slaves : place'[s] = "work" <=> place[s] = "work",
         \A s \in Slaves :
           place[s] = "work" => req'[s] = req[s] /\ export'[req[s]] = export[req[s]],
         WorkListed
  PROVE  WorkListed'
  <1> SUFFICES ASSUME NEW e \in Exports
               PROVE  work[e] = {i \in Live(e)' : \E s \in Slaves :
                                                    req'[s] = i /\ place'[s] = "work"}
    BY DEF WorkListed
  <1>1. ASSUME NEW i \in Reqs, NEW s \in Slaves, req[s] = i, place[s] = "work"
        PROVE  i \in Live(e)' <=> i \in Live(e)
    BY <1>1 DEF Live
  <1>2. ASSUME NEW i
        PROVE  (i \in Live(e)' /\ \E s \in Slaves : req'[s] = i /\ place'[s] = "work")
                <=> (i \in Live(e) /\ \E s \in Slaves : req[s] = i /\ place[s] = "work")
    BY <1>1 DEF Live
  <1>3. work[e] = {i \in Live(e) : \E s \in Slaves : req[s] = i /\ place[s] = "work"}
    BY DEF WorkListed
  <1> QED BY <1>2, <1>3

\* An increasing function takes no value twice.
LEMMA Increasing ==
  ASSUME NEW n \in Nat, NEW S \in SUBSET Nat, NEW f \in [1 .. n -> S],
         \A j, k \in 1 .. n : j < k => f[j] < f[k]
  PROVE  \A j, k \in 1 .. n : f[j] = f[k] => j = k
  <1> SUFFICES ASSUME NEW j \in 1 .. n, NEW k \in 1 .. n, f[j] = f[k], j # k PROVE FALSE
    OBVIOUS
  <1>1. f[j] \in Nat /\ f[k] \in Nat
    OBVIOUS
  <1>2. j < k \/ k < j
    OBVIOUS
  <1> QED BY <1>1, <1>2

\* A function on 1 .. n is a sequence.
LEMMA FunctionSeq ==
  ASSUME NEW S, NEW n \in Nat, NEW f \in [1 .. n -> S]
  PROVE  f \in Seq(S)
  BY SeqDef

\* exshutdown unlinks the requests of its Export from the queue, and no others.
LEMMA UnlinkQueue ==
  ASSUME NEW e, exq \in Seq(Reqs), NEW r \in Unlinked(e)
  PROVE  /\ r \in Seq(Reqs) /\ ToSet(r) = ToSet(exq) \ Queued(e)
         /\ IsInjective(exq) => IsInjective(r)
  <1> DEFINE I    == Queued(e)
             left == {k \in DOMAIN exq : exq[k] \notin I}
             n    == Cardinality(left)
  <1>1. /\ Len(exq) \in Nat /\ DOMAIN exq = 1 .. Len(exq)
        /\ \A k \in 1 .. Len(exq) : exq[k] \in Reqs
    OBVIOUS
  <1>2. IsFiniteSet(left) /\ n \in Nat
    <2>1. left \in SUBSET (1 .. Len(exq)) /\ IsFiniteSet(1 .. Len(exq))
      BY <1>1, FS_Interval
    <2>2. IsFiniteSet(left)
      BY <2>1, FS_Subset
    <2> QED BY <2>2, FS_CardinalityType
  <1>3. IsFiniteSet(1 .. n) /\ Cardinality(1 .. n) = n
    BY <1>2, FS_Interval
  <1>4. PICK at \in [1 .. n -> left] : /\ \A j, k \in 1 .. n : j < k => at[j] < at[k]
                                      /\ r = [k \in 1 .. n |-> exq[at[k]]]
    BY DEF Unlinked
  <1>5. left \subseteq 1 .. Len(exq) /\ \A k \in left : exq[k] \in Reqs \ I
    BY <1>1
  <1> HIDE DEF n, left, I
  <1>6. \A j, k \in 1 .. n : at[j] = at[k] => j = k
    <2>1. left \subseteq Nat
      BY <1>1, <1>5
    <2> QED BY <1>2, <1>4, <2>1, Increasing
  <1>7. at \in Injection(1 .. n, left)
    BY <1>4, <1>6 DEF Injection, IsInjective
  <1>8. at \in Surjection(1 .. n, left)
    BY <1>2, <1>3, <1>7, FS_Injection DEF n
  <1>9. \A k \in left : \E j \in 1 .. n : at[j] = k
    BY <1>8 DEF Surjection
  <1>10. r \in [1 .. n -> Reqs] /\ \A k \in 1 .. n : r[k] = exq[at[k]]
    BY <1>4, <1>5
  <1>11. r \in Seq(Reqs) /\ DOMAIN r = 1 .. n
    BY <1>2, <1>10, FunctionSeq
  <1>12. ToSet(r) \subseteq ToSet(exq) \ I
    <2> SUFFICES ASSUME NEW k \in 1 .. n PROVE r[k] \in ToSet(exq) \ I
      BY <1>11 DEF ToSet
    <2> QED BY <1>1, <1>4, <1>5, <1>10 DEF ToSet
  <1>13. ToSet(exq) \ I \subseteq ToSet(r)
    <2> SUFFICES ASSUME NEW x \in ToSet(exq) \ I PROVE x \in ToSet(r)
      OBVIOUS
    <2>1. PICK k \in DOMAIN exq : exq[k] = x
      BY DEF ToSet
    <2>2. PICK j \in 1 .. n : at[j] = k
      BY <1>9, <2>1 DEF left
    <2> QED BY <2>1, <2>2, <1>10, <1>11 DEF ToSet
  <1>14. ASSUME IsInjective(exq) PROVE IsInjective(r)
    <2>1. ASSUME NEW j \in 1 .. n, NEW k \in 1 .. n, r[j] = r[k] PROVE j = k
      <3>1. at[j] \in DOMAIN exq /\ at[k] \in DOMAIN exq /\ exq[at[j]] = exq[at[k]]
        BY <1>1, <1>4, <1>5, <1>10, <2>1
      <3>2. at[j] = at[k]
        BY <1>14, <3>1 DEF IsInjective
      <3> QED BY <1>6, <3>2
    <2>2. \A j, k \in DOMAIN r : r[j] = r[k] => j = k
      BY <1>11, <2>1
    <2> QED BY <2>2 DEF IsInjective
  <1> QED BY <1>11, <1>12, <1>13, <1>14 DEF I

\* exportproc: a request is read into memory of its own, and in hand.
LEMMA ReadRequestInv ==
  ASSUME ExportInv, NEW e \in Exports, ReadRequest(e)
  PROVE  ExportInv'
  <1>0. /\ ExqTypes /\ FsTypes /\ ReqTypes /\ ServerTypes
        /\ ExqWaitInv /\ SlaveHands /\ ExportHands /\ QueueHands /\ FreshReqs
        /\ RefsCounted /\ WorkListed /\ e \in Servers
    BY DEF ExportInv
  <1> DEFINE i == reqs + 1
  <1>a. i \in Reqs /\ export[i] = Nil /\ replies[i] = 0 /\ reqs \in Nat
    BY <1>0 DEF ReadRequest, FreshReqs, ReqTypes, Reqs
  <1>b. i \notin ToSet(exq) /\ \A s \in Slaves : req[s] # i
    BY <1>0, <1>a DEF QueueHands, SlaveHands, SlaveHand
  <1>c. /\ export' = [export EXCEPT ![i] = e] /\ ref' = [ref EXCEPT ![e] = @ + 1]
        /\ place' = [place EXCEPT ![e] = "enqueue"] /\ req' = [req EXCEPT ![e] = i]
        /\ UNCHANGED <<exq, flush, work>> /\ place[e] = "read" /\ reqs' = i
    BY DEF ReadRequest
  <1> HIDE DEF i
  <1>1. ExqTypes'
    BY <1>0 DEF ExqTypes, ReadRequest
  <1>2. FsTypes'
    BY <1>0 DEF FsTypes, ReadRequest
  <1>3. ReqTypes'
    BY <1>0 DEF ReqTypes, Reqs, Flushes, ReadRequest
  <1>4. ServerTypes'
    BY <1>0 DEF ServerTypes, ExportPlaces, SlavePlaces, ReadRequest
  <1>5. ExqWaitInv'
    BY <1>0 DEF ExqWaitInv, ExqWait, ExqTypes, ServerTypes, ReadRequest
  <1>6. SlaveHands'
    BY <1>0 DEF SlaveHands, SlaveHand, ServerTypes, ReqTypes, ReadRequest
  <1>7. ExportHands'
    <2> SUFFICES ASSUME NEW d \in Exports PROVE ExportHand(d)'
      BY DEF ExportHands
    <2>1. CASE d = e
      BY <1>0, <1>a, <1>b, <1>c, <2>1 DEF ExportHands, ExportHand, Owns, FlushPlaces,
                                          ServerTypes, ReqTypes, Reqs
    <2>2. CASE d # e
      BY <1>0, <1>a, <1>b, <1>c, <2>2 DEF ExportHands, ExportHand, Owns, ServerTypes, ReqTypes
    <2> QED BY <2>1, <2>2
  <1>8. QueueHands'
    BY <1>0 DEF QueueHands, ServerTypes, ReadRequest
  <1>9. FreshReqs'
    BY <1>0, <1>a DEF FreshReqs, ReadRequest, ReqTypes, Reqs, i
  <1>10. RefsCounted'
    <2>1. /\ Cardinality(Live(e))' = Cardinality(Live(e)) + 1
          /\ \A d \in Exports \ {e} : Live(d)' = Live(d)
      BY <1>0, <1>a, <1>c, LiveMore
    <2>2. ASSUME NEW d PROVE Cardinality(Live(d)) \in Nat
      BY LiveFinite, {} \in SUBSET Live(d)
    <2> QED BY <1>0, <1>c, <2>1, <2>2 DEF RefsCounted, ServerTypes, FsTypes
  <1>11. WorkListed'
    BY <1>0, <1>b, <1>c, SameWork DEF ServerTypes, ReqTypes, SlaveHands, SlaveHand
  <1> QED BY <1>1, <1>2, <1>3, <1>4, <1>5, <1>6, <1>7, <1>8, <1>9, <1>10, <1>11 DEF ExportInv

\* exportproc: a flush is read; the request it names may be anywhere.
LEMMA ReadFlushInv ==
  ASSUME ExportInv, NEW e \in Exports, ReadFlush(e)
  PROVE  ExportInv'
  <1>0. /\ ExqTypes /\ FsTypes /\ ReqTypes /\ ServerTypes
        /\ ExqWaitInv /\ SlaveHands /\ ExportHands /\ QueueHands /\ FreshReqs
        /\ RefsCounted /\ WorkListed /\ e \in Servers
    BY DEF ExportInv
  <1> DEFINE f == flushes + 1
  <1>a. /\ place' = [place EXCEPT ![e] = "flushqueue"] /\ place[e] = "read" /\ f \in Flushes
        /\ flush' = [flush EXCEPT ![e] = f] /\ ref' = [ref EXCEPT ![e] = @ + 1]
        /\ UNCHANGED <<exq, work, export, target>> /\ f # Nil
    BY DEF ReadFlush, Flushes
  <1>b. PICK i \in Reqs : req' = [req EXCEPT ![e] = i]
    <2>1. 1 .. reqs \subseteq Reqs
      BY <1>0 DEF ReqTypes, Reqs
    <2> QED BY <2>1 DEF ReadFlush
  <1>c. flush[e] = Nil
    BY <1>0, <1>a DEF ExportHands, ExportHand, FlushPlaces
  <1>1. ExqTypes'
    BY <1>0 DEF ExqTypes, ReadFlush
  <1>2. FsTypes'
    BY <1>0 DEF FsTypes, ReadFlush
  <1>3. ReqTypes'
    BY <1>0 DEF ReqTypes, Reqs, Flushes, ReadFlush
  <1>4. ServerTypes'
    BY <1>0, <1>a, <1>b DEF ServerTypes, ExportPlaces, SlavePlaces
  <1>5. ExqWaitInv'
    BY <1>0 DEF ExqWaitInv, ExqWait, ExqTypes, ServerTypes, ReadFlush
  <1>6. SlaveHands'
    BY <1>0 DEF SlaveHands, SlaveHand, ServerTypes, ReqTypes, ReadFlush
  <1>7. ExportHands'
    BY <1>0, <1>a, <1>b DEF ExportHands, ExportHand, Owns, FlushPlaces, ServerTypes, Reqs
  <1>8. QueueHands'
    BY <1>0 DEF QueueHands, ServerTypes, ReadFlush
  <1>9. FreshReqs'
    BY <1>0 DEF FreshReqs, ReadFlush
  <1>10. RefsCounted'
    <2>1. \A d : Live(d)' = Live(d)
      BY <1>a DEF Live
    <2>2. ASSUME NEW d PROVE Cardinality(Live(d)) \in Nat
      BY LiveFinite, {} \in SUBSET Live(d)
    <2> QED BY <1>0, <1>a, <1>c, <2>1, <2>2 DEF RefsCounted, ServerTypes, FsTypes
  <1>11. WorkListed'
    BY <1>0, SameWork DEF ServerTypes, ReadFlush
  <1> QED BY <1>1, <1>2, <1>3, <1>4, <1>5, <1>6, <1>7, <1>8, <1>9, <1>10, <1>11 DEF ExportInv

\* exportproc: the connection has ended.
LEMMA ReadEofInv ==
  ASSUME ExportInv, NEW e \in Exports, ReadEof(e)
  PROVE  ExportInv'
  <1>0. /\ ExqTypes /\ FsTypes /\ ReqTypes /\ ServerTypes
        /\ ExqWaitInv /\ SlaveHands /\ ExportHands /\ QueueHands /\ FreshReqs
        /\ RefsCounted /\ WorkListed /\ e \in Servers
    BY DEF ExportInv
  <1>1. ExqTypes'
    BY <1>0 DEF ExqTypes, ReadEof
  <1>2. FsTypes'
    BY <1>0 DEF FsTypes, ReadEof
  <1>3. ReqTypes'
    BY <1>0 DEF ReqTypes, Reqs, Flushes, ReadEof
  <1>4. ServerTypes'
    BY <1>0 DEF ServerTypes, ExportPlaces, SlavePlaces, ReadEof
  <1>5. ExqWaitInv'
    BY <1>0 DEF ExqWaitInv, ExqWait, ExqTypes, ServerTypes, ReadEof
  <1>6. SlaveHands'
    BY <1>0 DEF SlaveHands, SlaveHand, ServerTypes, ReqTypes, ReadEof
  <1>7. ExportHands'
    BY <1>0 DEF ExportHands, ExportHand, Owns, FlushPlaces, ServerTypes, ReadEof
  <1>8. QueueHands'
    BY <1>0 DEF QueueHands, ServerTypes, ReadEof
  <1>9. FreshReqs'
    BY <1>0 DEF FreshReqs, ReadEof
  <1>10. RefsCounted'
    BY <1>0, SameRefs DEF ServerTypes, ExportHands, ExportHand, FlushPlaces, ReadEof
  <1>11. WorkListed'
    BY <1>0, SameWork DEF ServerTypes, ReadEof
  <1> QED BY <1>1, <1>2, <1>3, <1>4, <1>5, <1>6, <1>7, <1>8, <1>9, <1>10, <1>11 DEF ExportInv

\* exportproc: the request in hand is linked behind exq.tail.
LEMMA EnqueueInv ==
  ASSUME ExportInv, NEW e \in Exports, Enqueue(e)
  PROVE  ExportInv'
  <1>0. /\ ExqTypes /\ FsTypes /\ ReqTypes /\ ServerTypes
        /\ ExqWaitInv /\ SlaveHands /\ ExportHands /\ QueueHands /\ FreshReqs
        /\ RefsCounted /\ WorkListed /\ e \in Servers
    BY DEF ExportInv
  <1> DEFINE i == req[e]
  <1>a. /\ i \in Reqs /\ export[i] = e /\ i \notin ToSet(exq)
        /\ \A s \in Slaves : req[s] # i
    BY <1>0 DEF Enqueue, ExportHands, ExportHand, Owns, ServerTypes
  <1>b. /\ exq' \in Seq(Reqs) /\ IsInjective(exq')
        /\ \A j \in ToSet(exq') : j = i \/ j \in ToSet(exq)
    BY <1>0, <1>a, AppendQueue DEF Enqueue, ExqTypes, QueueHands
  <1>c. /\ place' = [place EXCEPT ![e] = "spawn"] /\ req' = [req EXCEPT ![e] = Nil]
        /\ UNCHANGED <<export, flush>> /\ place[e] = "enqueue"
    BY DEF Enqueue
  <1> HIDE DEF i
  <1>1. ExqTypes'
    BY <1>0, <1>b DEF ExqTypes, Enqueue
  <1>2. FsTypes'
    BY <1>0 DEF FsTypes, Enqueue
  <1>3. ReqTypes'
    BY <1>0 DEF ReqTypes, Reqs, Flushes, Enqueue
  <1>4. ServerTypes'
    BY <1>0 DEF ServerTypes, ExportPlaces, SlavePlaces, Enqueue
  <1>5. ExqWaitInv'
    BY <1>0 DEF ExqWaitInv, ExqWait, ExqTypes, ServerTypes, Enqueue
  <1>6. SlaveHands'
    BY <1>0 DEF SlaveHands, SlaveHand, ServerTypes, ReqTypes, Enqueue
  <1>7. ExportHands'
    <2> SUFFICES ASSUME NEW d \in Exports PROVE ExportHand(d)'
      BY DEF ExportHands
    <2>1. CASE d = e
      BY <1>0, <1>c, <2>1 DEF ExportHands, ExportHand, Owns, FlushPlaces, ServerTypes
    <2>2. CASE d # e
      BY <1>0, <1>a, <1>b, <1>c, <2>2 DEF ExportHands, ExportHand, Owns, ServerTypes
    <2> QED BY <2>1, <2>2
  <1>8. QueueHands'
    BY <1>0, <1>a, <1>b, <1>c DEF QueueHands, ServerTypes
  <1>9. FreshReqs'
    BY <1>0 DEF FreshReqs, Enqueue
  <1>10. RefsCounted'
    BY <1>0, SameRefs DEF ServerTypes, ExportHands, ExportHand, FlushPlaces, Enqueue
  <1>11. WorkListed'
    BY <1>0, SameWork DEF ServerTypes, Enqueue
  <1> QED BY <1>1, <1>2, <1>3, <1>4, <1>5, <1>6, <1>7, <1>8, <1>9, <1>10, <1>11 DEF ExportInv

\* exportproc: kproc("exportfs", exslave) makes a slave, if one is needed.
LEMMA SpawnInv ==
  ASSUME ExportInv, NEW e \in Exports, Spawn(e)
  PROVE  ExportInv'
  <1>0. /\ ExqTypes /\ FsTypes /\ ReqTypes /\ ServerTypes
        /\ ExqWaitInv /\ SlaveHands /\ ExportHands /\ QueueHands /\ FreshReqs
        /\ RefsCounted /\ WorkListed /\ e \in Servers
    BY DEF ExportInv
  <1>a. /\ \A d \in Exports : place'[d] = IF d = e THEN "wake" ELSE place[d]
        /\ \A s \in Slaves : place'[s] = place[s] \/ (place[s] = "none" /\ place'[s] = "qlock")
        /\ place[e] = "spawn"
    <2>1. CASE NeedSlave
      <3>1. Unborn # {} /\ place' = [place EXCEPT ![NewSlave] = "qlock", ![e] = "wake"]
        BY <2>1 DEF Spawn
      <3>2. NewSlave \in Slaves /\ place[NewSlave] = "none"
        BY <3>1 DEF NewSlave, Unborn
      <3> QED BY <1>0, <3>1, <3>2 DEF ServerTypes, Spawn
    <2>2. CASE ~NeedSlave
      BY <1>0, <2>2 DEF ServerTypes, Spawn
    <2> QED BY <2>1, <2>2
  <1>1. ExqTypes'
    BY <1>0 DEF ExqTypes, Spawn
  <1>2. FsTypes'
    BY <1>0 DEF FsTypes, Spawn
  <1>3. ReqTypes'
    BY <1>0 DEF ReqTypes, Reqs, Flushes, Spawn
  <1>4. ServerTypes'
    <2>1. place' \in [Servers -> ExportPlaces \cup SlavePlaces]
      BY <1>0 DEF ServerTypes, ExportPlaces, SlavePlaces, Spawn
    <2> QED BY <1>0, <1>a, <2>1 DEF ServerTypes, ExportPlaces, SlavePlaces, Spawn
  <1>5. ExqWaitInv'
    <2>1. UNCHANGED <<exqVars, lockVars, rwait, fsVars, reqVars, hands, sent, answers>>
      BY DEF Spawn
    <2> QED BY <1>0, <1>a, <2>1 DEF ExqWaitInv, ExqWait, ExqTypes, ServerTypes
  <1>6. SlaveHands'
    <2>1. UNCHANGED <<exqVars, lockVars, rwait, fsVars, reqVars, hands, sent, answers>>
      BY DEF Spawn
    <2> QED BY <1>0, <1>a, <2>1 DEF SlaveHands, SlaveHand, ServerTypes, ReqTypes
  <1>7. ExportHands'
    <2>1. UNCHANGED <<exqVars, lockVars, rwait, fsVars, reqVars, hands, sent, answers>>
      BY DEF Spawn
    <2> QED BY <1>0, <1>a, <2>1 DEF ExportHands, ExportHand, Owns, FlushPlaces, ServerTypes
  <1>8. QueueHands'
    <2>1. UNCHANGED <<exqVars, lockVars, rwait, fsVars, reqVars, hands, sent, answers>>
      BY DEF Spawn
    <2> QED BY <1>0, <1>a, <2>1 DEF QueueHands, ServerTypes
  <1>9. FreshReqs'
    BY <1>0 DEF FreshReqs, Spawn
  <1>10. RefsCounted'
    <2>1. UNCHANGED <<exqVars, lockVars, rwait, fsVars, reqVars, hands, sent, answers>>
      BY DEF Spawn
    <2> QED BY <1>0, <1>a, <2>1, SameRefs DEF ServerTypes, ExportHands, ExportHand, FlushPlaces
  <1>11. WorkListed'
    <2>1. UNCHANGED <<exqVars, lockVars, rwait, fsVars, reqVars, hands, sent, answers>>
      BY DEF Spawn
    <2> QED BY <1>0, <1>a, <2>1, SameWork DEF ServerTypes
  <1> QED BY <1>1, <1>2, <1>3, <1>4, <1>5, <1>6, <1>7, <1>8, <1>9, <1>10, <1>11 DEF ExportInv

\* exportproc: Wakeup(&exq.rwait) takes the slave that sleeps there off it.
LEMMA WakeInv ==
  ASSUME ExportInv, NEW e \in Exports, Wake(e)
  PROVE  ExportInv'
  <1>0. /\ ExqTypes /\ FsTypes /\ ReqTypes /\ ServerTypes
        /\ ExqWaitInv /\ SlaveHands /\ ExportHands /\ QueueHands /\ FreshReqs
        /\ RefsCounted /\ WorkListed /\ e \in Servers
    BY DEF ExportInv
  <1>a. /\ \A d \in Exports : place'[d] = IF d = e THEN "read" ELSE place[d]
        /\ \A s \in Slaves : place'[s] = IF s = rwait THEN "take" ELSE place[s]
        /\ place[e] = "wake" /\ UNCHANGED <<exqVars, lockVars, fsVars, reqVars, hands, sent>>
    BY <1>0 DEF ServerTypes, ExqTypes, Wake
  <1>1. ExqTypes'
    BY <1>0 DEF ExqTypes, Wake
  <1>2. FsTypes'
    BY <1>0 DEF FsTypes, Wake
  <1>3. ReqTypes'
    BY <1>0 DEF ReqTypes, Reqs, Flushes, Wake
  <1>4. ServerTypes'
    <2>1. place' \in [Servers -> ExportPlaces \cup SlavePlaces]
      BY <1>0 DEF ServerTypes, ExportPlaces, SlavePlaces, Wake
    <2> QED BY <1>0, <1>a, <2>1 DEF ServerTypes, ExportPlaces, SlavePlaces
  <1>5. ExqWaitInv'
    BY <1>0 DEF ExqWaitInv, ExqWait, ExqTypes, ServerTypes, Wake
  <1>6. SlaveHands'
    BY <1>0, <1>a DEF SlaveHands, SlaveHand, ExqWaitInv, ExqWait, ServerTypes
  <1>7. ExportHands'
    BY <1>0, <1>a DEF ExportHands, ExportHand, Owns, FlushPlaces
  <1>8. QueueHands'
    BY <1>0 DEF QueueHands, ServerTypes, Wake
  <1>9. FreshReqs'
    BY <1>0 DEF FreshReqs, Wake
  <1>10. RefsCounted'
    BY <1>0, <1>a, SameRefs
  <1>11. WorkListed'
    BY <1>0, <1>a, SameWork DEF ExqWaitInv, ExqWait
  <1> QED BY <1>1, <1>2, <1>3, <1>4, <1>5, <1>6, <1>7, <1>8, <1>9, <1>10, <1>11 DEF ExportInv

\* exflushed: a request that is queued is unlinked, and in hand.
LEMMA FlushQueueInv ==
  ASSUME ExportInv, NEW e \in Exports, FlushQueue(e)
  PROVE  ExportInv'
  <1>0. /\ ExqTypes /\ FsTypes /\ ReqTypes /\ ServerTypes
        /\ ExqWaitInv /\ SlaveHands /\ ExportHands /\ QueueHands /\ FreshReqs
        /\ RefsCounted /\ WorkListed /\ e \in Servers
    BY DEF ExportInv
  <1>a. /\ exq' \in Seq(Reqs) /\ IsInjective(exq') /\ ToSet(exq') \subseteq ToSet(exq)
        /\ \/ /\ place' = [place EXCEPT ![e] = "flushed"] /\ export[req[e]] = e
              /\ req[e] \in ToSet(exq) \ ToSet(exq')
           \/ place' = [place EXCEPT ![e] = "flushwork"]
    <2>1. /\ RemoveFirst(exq, req[e]) \in Seq(Reqs) /\ IsInjective(RemoveFirst(exq, req[e]))
          /\ ToSet(RemoveFirst(exq, req[e])) = ToSet(exq) \ {req[e]}
      BY <1>0, RemoveQueue DEF ExqTypes, QueueHands
    <2> QED BY <1>0, <2>1 DEF ExqTypes, QueueHands, FlushQueue
  <1>b. UNCHANGED <<flush, req, export>> /\ place[e] = "flushqueue"
    BY DEF FlushQueue
  <1>1. ExqTypes'
    BY <1>0, <1>a DEF ExqTypes, FlushQueue
  <1>2. FsTypes'
    BY <1>0 DEF FsTypes, FlushQueue
  <1>3. ReqTypes'
    BY <1>0 DEF ReqTypes, Reqs, Flushes, FlushQueue
  <1>4. ServerTypes'
    BY <1>0 DEF ServerTypes, ExportPlaces, SlavePlaces, FlushQueue
  <1>5. ExqWaitInv'
    BY <1>0 DEF ExqWaitInv, ExqWait, ExqTypes, ServerTypes, FlushQueue
  <1>6. SlaveHands'
    BY <1>0 DEF SlaveHands, SlaveHand, ServerTypes, ReqTypes, FlushQueue
  <1>7. ExportHands'
    <2> SUFFICES ASSUME NEW d \in Exports PROVE ExportHand(d)'
      BY DEF ExportHands
    <2>1. CASE d = e
      <3>1. \A s \in Slaves : req[e] \in ToSet(exq) => req[s] # req[e]
        BY <1>0 DEF QueueHands
      <3> QED BY <1>0, <1>a, <1>b, <2>1, <3>1 DEF ExportHands, ExportHand, Owns, FlushPlaces,
                                                  ServerTypes
    <2>2. CASE d # e
      BY <1>0, <1>a, <1>b, <2>2 DEF ExportHands, ExportHand, Owns, ServerTypes
    <2> QED BY <2>1, <2>2
  <1>8. QueueHands'
    BY <1>0, <1>a, <1>b DEF QueueHands, ServerTypes
  <1>9. FreshReqs'
    BY <1>0 DEF FreshReqs, FlushQueue
  <1>10. RefsCounted'
    BY <1>0, <1>a, <1>b, SameRefs DEF ServerTypes, FlushQueue
  <1>11. WorkListed'
    BY <1>0, <1>a, <1>b, SameWork DEF ServerTypes, FlushQueue
  <1> QED BY <1>1, <1>2, <1>3, <1>4, <1>5, <1>6, <1>7, <1>8, <1>9, <1>10, <1>11 DEF ExportInv

\* exportproc: the request that was unlinked is freed, with the flush's own Exq.
LEMMA FlushedInv ==
  ASSUME ExportInv, NEW e \in Exports, Flushed(e)
  PROVE  ExportInv'
  <1>0. /\ ExqTypes /\ FsTypes /\ ReqTypes /\ ServerTypes
        /\ ExqWaitInv /\ SlaveHands /\ ExportHands /\ QueueHands /\ FreshReqs
        /\ RefsCounted /\ WorkListed /\ e \in Servers
    BY DEF ExportInv
  <1> DEFINE i == req[e]
  <1>a. /\ i \in Reqs /\ export[i] = e /\ i \notin ToSet(exq)
        /\ \A s \in Slaves : req[s] # i
        /\ flush[e] # Nil /\ flush[e] \in Flushes
    BY <1>0 DEF Flushed, ExportHands, ExportHand, Owns, FlushPlaces, ServerTypes
  <1>b. /\ place' = [place EXCEPT ![e] = "read"] /\ req' = [req EXCEPT ![e] = Nil]
        /\ flush' = [flush EXCEPT ![e] = Nil] /\ ref' = [ref EXCEPT ![e] = @ - 2]
        /\ export' = [export EXCEPT ![i] = Nil] /\ UNCHANGED <<exq, slave, work>>
        /\ rflushes' = [rflushes EXCEPT ![flush[e]] = @ + 1] /\ place[e] = "flushed"
    BY DEF Flushed, FlushEnd, Answered
  <1> HIDE DEF i
  <1>1. ExqTypes'
    BY <1>0 DEF ExqTypes, Flushed, FlushEnd, Answered
  <1>2. FsTypes'
    BY <1>0 DEF FsTypes, Flushed, FlushEnd, Answered
  <1>3. ReqTypes'
    BY <1>0, <1>a, <1>b DEF ReqTypes, Flushed
  <1>4. ServerTypes'
    BY <1>0 DEF ServerTypes, ExportPlaces, SlavePlaces, Flushed, FlushEnd, Answered
  <1>5. ExqWaitInv'
    BY <1>0 DEF ExqWaitInv, ExqWait, ExqTypes, ServerTypes, Flushed, FlushEnd, Answered
  <1>6. SlaveHands'
    BY <1>0, <1>a, <1>b DEF SlaveHands, SlaveHand, ServerTypes, ReqTypes
  <1>7. ExportHands'
    <2> SUFFICES ASSUME NEW d \in Exports PROVE ExportHand(d)'
      BY DEF ExportHands
    <2>1. CASE d = e
      BY <1>0, <1>b, <2>1 DEF Owns, ExportHand, FlushPlaces, ServerTypes
    <2>2. CASE d # e
      BY <1>0, <1>a, <1>b, <2>2 DEF ExportHands, ExportHand, Owns, ServerTypes, ReqTypes
    <2> QED BY <2>1, <2>2
  <1>8. QueueHands'
    BY <1>0, <1>a, <1>b DEF QueueHands, ServerTypes, ReqTypes
  <1>9. FreshReqs'
    BY <1>0, <1>a, <1>b DEF FreshReqs, ReqTypes, Flushed
  <1>10. RefsCounted'
    <2>1. {i} \in SUBSET Live(e) /\ Cardinality({i}) = 1
      BY <1>a, FS_Singleton DEF Live
    <2>2. \A j \in Reqs : export'[j] = IF j \in {i} THEN Nil ELSE export[j]
      BY <1>0, <1>b DEF ReqTypes
    <2>3. /\ Cardinality(Live(e))' = Cardinality(Live(e)) - Cardinality({i})
          /\ \A d \in Exports \ {e} : Live(d)' = Live(d)
      BY <2>1, <2>2, LiveLess
    <2>4. ASSUME NEW d PROVE Cardinality(Live(d)) \in Nat
      BY LiveFinite, {} \in SUBSET Live(d)
    <2> QED BY <1>0, <1>a, <1>b, <2>1, <2>3, <2>4 DEF RefsCounted, ServerTypes, FsTypes
  <1>11. WorkListed'
    BY <1>0, <1>a, <1>b, SameWork DEF ServerTypes, ReqTypes, SlaveHands, SlaveHand
  <1> QED BY <1>1, <1>2, <1>3, <1>4, <1>5, <1>6, <1>7, <1>8, <1>9, <1>10, <1>11 DEF ExportInv

\* exflushed: a request in fs->work is given the tag of the flush.
LEMMA FlushWorkInv ==
  ASSUME ExportInv, NEW e \in Exports, FlushWork(e)
  PROVE  ExportInv'
  <1>0. /\ ExqTypes /\ FsTypes /\ ReqTypes /\ ServerTypes
        /\ ExqWaitInv /\ SlaveHands /\ ExportHands /\ QueueHands /\ FreshReqs
        /\ RefsCounted /\ WorkListed /\ e \in Servers
    BY DEF ExportInv
  <1>a. \/ /\ req[e] \in work[e] /\ place' = [place EXCEPT ![e] = "flushswi"]
           /\ target' = [target EXCEPT ![e] = slave[req[e]]]
           /\ flushtag' = [flushtag EXCEPT ![req[e]] = flush[e]]
        \/ place' = [place EXCEPT ![e] = "flushreply"] /\ UNCHANGED <<flushtag, target>>
    BY DEF FlushWork
  <1>b. /\ flush[e] \in Flushes /\ req[e] \in Reqs
        /\ req[e] \in work[e] => slave[req[e]] \in Slaves
    BY <1>0 DEF FlushWork, ExportHands, ExportHand, FlushPlaces, ServerTypes, ReqTypes,
                WorkListed, SlaveHands, SlaveHand
  <1>1. ExqTypes'
    BY <1>0 DEF ExqTypes, FlushWork
  <1>2. FsTypes'
    BY <1>0 DEF FsTypes, FlushWork
  <1>3. ReqTypes'
    BY <1>0, <1>a, <1>b DEF ReqTypes, FlushWork
  <1>4. ServerTypes'
    <2>1. UNCHANGED <<req, flush>>
      BY DEF FlushWork
    <2>2. target' \in [Exports -> Slaves \cup {Nil}]
      BY <1>0, <1>a, <1>b DEF ServerTypes
    <2>3. place' \in [Servers -> ExportPlaces \cup SlavePlaces]
      BY <1>0, <1>a DEF ServerTypes, ExportPlaces
    <2>4. ASSUME NEW d \in Exports
          PROVE  /\ place'[d] \in ExportPlaces
                 /\ place'[d] \in {"flushswi", "shutswi"} => target'[d] \in Slaves
      BY <1>0, <1>a, <1>b DEF ServerTypes, ExportPlaces
    <2>5. \A s \in Slaves : place'[s] \in SlavePlaces
      BY <1>0, <1>a DEF ServerTypes
    <2> QED BY <1>0, <2>1, <2>2, <2>3, <2>4, <2>5 DEF ServerTypes
  <1>5. ExqWaitInv'
    BY <1>0 DEF ExqWaitInv, ExqWait, ExqTypes, ServerTypes, FlushWork
  <1>6. SlaveHands'
    BY <1>0 DEF SlaveHands, SlaveHand, ServerTypes, ReqTypes, FlushWork
  <1>7. ExportHands'
    BY <1>0 DEF ExportHands, ExportHand, Owns, FlushPlaces, ServerTypes, FlushWork
  <1>8. QueueHands'
    BY <1>0 DEF QueueHands, ServerTypes, FlushWork
  <1>9. FreshReqs'
    BY <1>0 DEF FreshReqs, FlushWork
  <1>10. RefsCounted'
    BY <1>0, SameRefs DEF ServerTypes, ExportHands, ExportHand, FlushPlaces, FlushWork
  <1>11. WorkListed'
    BY <1>0, SameWork DEF ServerTypes, FlushWork
  <1> QED BY <1>1, <1>2, <1>3, <1>4, <1>5, <1>6, <1>7, <1>8, <1>9, <1>10, <1>11 DEF ExportInv

\* exflushed: swiproc may find the slave asleep, waiting for another request.
LEMMA FlushSwiInv ==
  ASSUME ExportInv, NEW e \in Exports, FlushSwi(e)
  PROVE  ExportInv'
  <1>0. /\ ExqTypes /\ FsTypes /\ ReqTypes /\ ServerTypes
        /\ ExqWaitInv /\ SlaveHands /\ ExportHands /\ QueueHands /\ FreshReqs
        /\ RefsCounted /\ WorkListed /\ e \in Servers
    BY DEF ExportInv
  <1>a. /\ \A d \in Exports : place'[d] = IF d = e THEN "read" ELSE place[d]
        /\ place[e] = "flushswi" /\ flush[e] \in Flushes
        /\ flush' = [flush EXCEPT ![e] = Nil] /\ ref' = [ref EXCEPT ![e] = @ - 1]
        /\ UNCHANGED export
    BY <1>0 DEF FlushSwi, FlushEnd, Swiproc, ServerTypes, ExportHands, ExportHand, FlushPlaces
  <1>1. ExqTypes'
    BY <1>0 DEF ExqTypes, FlushSwi, FlushEnd, Swiproc
  <1>2. FsTypes'
    BY <1>0 DEF FsTypes, FlushSwi, FlushEnd, Swiproc
  <1>3. ReqTypes'
    BY <1>0 DEF ReqTypes, Reqs, Flushes, FlushSwi, FlushEnd, Swiproc
  <1>4. ServerTypes'
    BY <1>0 DEF ServerTypes, ExportPlaces, SlavePlaces, FlushSwi, FlushEnd, Swiproc
  <1>5. ExqWaitInv'
    BY <1>0 DEF ExqWaitInv, ExqWait, ExqTypes, ServerTypes, FlushSwi, FlushEnd, Swiproc
  <1>6. SlaveHands'
    BY <1>0 DEF SlaveHands, SlaveHand, ServerTypes, ReqTypes, FlushSwi, FlushEnd, Swiproc
  <1>7. ExportHands'
    BY <1>0 DEF ExportHands, ExportHand, Owns, FlushPlaces, ServerTypes, FlushSwi, FlushEnd,
                Swiproc
  <1>8. QueueHands'
    BY <1>0 DEF QueueHands, ServerTypes, FlushSwi, FlushEnd, Swiproc
  <1>9. FreshReqs'
    BY <1>0 DEF FreshReqs, FlushSwi, FlushEnd, Swiproc
  <1>10. RefsCounted'
    <2>1. \A d : Live(d)' = Live(d)
      BY <1>a DEF Live
    <2>2. ASSUME NEW d PROVE Cardinality(Live(d)) \in Nat
      BY LiveFinite, {} \in SUBSET Live(d)
    <2> QED BY <1>0, <1>a, <2>1, <2>2 DEF RefsCounted, ServerTypes, FsTypes, Flushes
  <1>11. WorkListed'
    BY <1>0, SameWork DEF ServerTypes, ExqWaitInv, ExqWait, FlushSwi, FlushEnd, Swiproc
  <1> QED BY <1>1, <1>2, <1>3, <1>4, <1>5, <1>6, <1>7, <1>8, <1>9, <1>10, <1>11 DEF ExportInv

\* exportproc answers the flush of a request that it does not know.
LEMMA FlushReplyInv ==
  ASSUME ExportInv, NEW e \in Exports, FlushReply(e)
  PROVE  ExportInv'
  <1>0. /\ ExqTypes /\ FsTypes /\ ReqTypes /\ ServerTypes
        /\ ExqWaitInv /\ SlaveHands /\ ExportHands /\ QueueHands /\ FreshReqs
        /\ RefsCounted /\ WorkListed /\ e \in Servers
    BY DEF ExportInv
  <1>a. /\ \A d \in Exports : place'[d] = IF d = e THEN "read" ELSE place[d]
        /\ place[e] = "flushreply" /\ flush[e] \in Flushes
        /\ flush' = [flush EXCEPT ![e] = Nil] /\ ref' = [ref EXCEPT ![e] = @ - 1]
        /\ UNCHANGED export
    BY <1>0 DEF FlushReply, FlushEnd, ServerTypes, ExportHands, ExportHand, FlushPlaces
  <1>1. ExqTypes'
    BY <1>0 DEF ExqTypes, FlushReply, FlushEnd, Answered
  <1>2. FsTypes'
    BY <1>0 DEF FsTypes, FlushReply, FlushEnd, Answered
  <1>3. ReqTypes'
    BY <1>0, <1>a DEF ReqTypes, FlushReply, Answered
  <1>4. ServerTypes'
    BY <1>0 DEF ServerTypes, ExportPlaces, SlavePlaces, FlushReply, FlushEnd, Answered
  <1>5. ExqWaitInv'
    BY <1>0 DEF ExqWaitInv, ExqWait, ExqTypes, ServerTypes, FlushReply, FlushEnd, Answered
  <1>6. SlaveHands'
    BY <1>0 DEF SlaveHands, SlaveHand, ServerTypes, ReqTypes, FlushReply, FlushEnd, Answered
  <1>7. ExportHands'
    BY <1>0 DEF ExportHands, ExportHand, Owns, FlushPlaces, ServerTypes, FlushReply, FlushEnd,
                Answered
  <1>8. QueueHands'
    BY <1>0 DEF QueueHands, ServerTypes, FlushReply, FlushEnd, Answered
  <1>9. FreshReqs'
    BY <1>0 DEF FreshReqs, FlushReply, FlushEnd, Answered
  <1>10. RefsCounted'
    <2>1. \A d : Live(d)' = Live(d)
      BY <1>a DEF Live
    <2>2. ASSUME NEW d PROVE Cardinality(Live(d)) \in Nat
      BY LiveFinite, {} \in SUBSET Live(d)
    <2> QED BY <1>0, <1>a, <2>1, <2>2 DEF RefsCounted, ServerTypes, FsTypes, Flushes
  <1>11. WorkListed'
    BY <1>0, SameWork DEF ServerTypes, FlushReply, FlushEnd, Answered
  <1> QED BY <1>1, <1>2, <1>3, <1>4, <1>5, <1>6, <1>7, <1>8, <1>9, <1>10, <1>11 DEF ExportInv

\* exshutdown: what is queued is unlinked and freed.
LEMMA ShutQueueInv ==
  ASSUME ExportInv, NEW e \in Exports, ShutQueue(e)
  PROVE  ExportInv'
  <1>0. /\ ExqTypes /\ FsTypes /\ ReqTypes /\ ServerTypes
        /\ ExqWaitInv /\ SlaveHands /\ ExportHands /\ QueueHands /\ FreshReqs
        /\ RefsCounted /\ WorkListed /\ e \in Servers
    BY DEF ExportInv
  <1> DEFINE I == Queued(e)
  <1>a. /\ exq' \in Seq(Reqs) /\ IsInjective(exq') /\ ToSet(exq') = ToSet(exq) \ I
    <2>1. exq' \in Unlinked(e) /\ exq \in Seq(Reqs) /\ IsInjective(exq)
      BY <1>0 DEF ShutQueue, ExqTypes, QueueHands
    <2> QED BY <2>1, UnlinkQueue
  <1>b. /\ place' = [place EXCEPT ![e] = "shutwork"] /\ place[e] = "shutqueue"
        /\ ref' = [ref EXCEPT ![e] = @ - Cardinality(I)]
        /\ export' = [i \in Reqs |-> IF i \in I THEN Nil ELSE export[i]]
        /\ UNCHANGED <<qholder, qwait, rwait, work, slave, req, flush>>
    BY DEF ShutQueue, Free
  <1>c. /\ I \in SUBSET Live(e) /\ I \subseteq ToSet(exq)
        /\ \A s \in Slaves : req[s] \notin I
    BY <1>0, QueueSubset DEF Queued, Live, QueueHands, ExqTypes
  <1>d. Cardinality(I) \in Nat
    BY <1>c, LiveFinite
  <1> HIDE DEF I
  <1>1. ExqTypes'
    BY <1>0, <1>a, <1>b DEF ExqTypes
  <1>2. FsTypes'
    BY <1>0, <1>b, <1>d DEF FsTypes
  <1>3. ReqTypes'
    BY <1>0, <1>b DEF ReqTypes, ShutQueue
  <1>4. ServerTypes'
    BY <1>0 DEF ServerTypes, ExportPlaces, SlavePlaces, ShutQueue, Free
  <1>5. ExqWaitInv'
    BY <1>0 DEF ExqWaitInv, ExqWait, ExqTypes, ServerTypes, ShutQueue, Free
  <1>6. SlaveHands'
    BY <1>0, <1>b, <1>c DEF SlaveHands, SlaveHand, ServerTypes
  <1>7. ExportHands'
    <2> SUFFICES ASSUME NEW d \in Exports PROVE ExportHand(d)'
      BY DEF ExportHands
    <2>1. CASE d = e
      BY <1>0, <1>b, <2>1 DEF ExportHands, ExportHand, Owns, FlushPlaces, ServerTypes
    <2>2. CASE d # e
      BY <1>0, <1>a, <1>b, <1>c, <2>2 DEF ExportHands, ExportHand, Owns, FlushPlaces,
                                                  ServerTypes, Live
    <2> QED BY <2>1, <2>2
  <1>8. QueueHands'
    BY <1>0, <1>a, <1>b, QueueSubset DEF QueueHands, ExqTypes
  <1>9. FreshReqs'
    BY <1>0, <1>b DEF FreshReqs, ShutQueue
  <1>10. RefsCounted'
    <2>1. /\ Cardinality(Live(e))' = Cardinality(Live(e)) - Cardinality(I)
          /\ \A d \in Exports \ {e} : Live(d)' = Live(d)
      BY <1>b, <1>c, LiveLess
    <2>2. ASSUME NEW d PROVE Cardinality(Live(d)) \in Nat
      BY LiveFinite, {} \in SUBSET Live(d)
    <2> QED BY <1>0, <1>b, <1>d, <2>1, <2>2 DEF RefsCounted, ServerTypes, FsTypes
  <1>11. WorkListed'
    BY <1>0, <1>b, <1>c, SameWork DEF ServerTypes, SlaveHands, SlaveHand
  <1> QED BY <1>1, <1>2, <1>3, <1>4, <1>5, <1>6, <1>7, <1>8, <1>9, <1>10, <1>11 DEF ExportInv

\* exshutdown: the next request of fs->work that has not been interrupted.
LEMMA ShutWorkInv ==
  ASSUME ExportInv, NEW e \in Exports, ShutWork(e)
  PROVE  ExportInv'
  <1>0. /\ ExqTypes /\ FsTypes /\ ReqTypes /\ ServerTypes
        /\ ExqWaitInv /\ SlaveHands /\ ExportHands /\ QueueHands /\ FreshReqs
        /\ RefsCounted /\ WorkListed /\ e \in Servers
    BY DEF ExportInv
  <1>a. \/ place' = [place EXCEPT ![e] = "shutfree"] /\ UNCHANGED target
        \/ \E s \in Slaves : /\ place' = [place EXCEPT ![e] = "shutswi"]
                             /\ target' = [target EXCEPT ![e] = s]
    <2>1. \A i \in work[e] : slave[i] \in Slaves
      BY <1>0 DEF WorkListed, SlaveHands, SlaveHand
    <2> QED BY <2>1 DEF ShutWork
  <1>1. ExqTypes'
    BY <1>0 DEF ExqTypes, ShutWork
  <1>2. FsTypes'
    BY <1>0 DEF FsTypes, ShutWork
  <1>3. ReqTypes'
    BY <1>0 DEF ReqTypes, Reqs, Flushes, ShutWork
  <1>4. ServerTypes'
    <2>1. UNCHANGED <<req, flush>>
      BY DEF ShutWork
    <2>2. target' \in [Exports -> Slaves \cup {Nil}]
      BY <1>0, <1>a DEF ServerTypes
    <2>3. place' \in [Servers -> ExportPlaces \cup SlavePlaces]
      BY <1>0, <1>a DEF ServerTypes, ExportPlaces
    <2>4. ASSUME NEW d \in Exports
          PROVE  /\ place'[d] \in ExportPlaces
                 /\ place'[d] \in {"flushswi", "shutswi"} => target'[d] \in Slaves
      BY <1>0, <1>a DEF ServerTypes, ExportPlaces
    <2>5. \A s \in Slaves : place'[s] \in SlavePlaces
      BY <1>0, <1>a DEF ServerTypes
    <2> QED BY <1>0, <2>1, <2>2, <2>3, <2>4, <2>5 DEF ServerTypes
  <1>5. ExqWaitInv'
    BY <1>0 DEF ExqWaitInv, ExqWait, ExqTypes, ServerTypes, ShutWork
  <1>6. SlaveHands'
    BY <1>0 DEF SlaveHands, SlaveHand, ServerTypes, ReqTypes, ShutWork
  <1>7. ExportHands'
    BY <1>0 DEF ExportHands, ExportHand, Owns, FlushPlaces, ServerTypes, ShutWork
  <1>8. QueueHands'
    BY <1>0 DEF QueueHands, ServerTypes, ShutWork
  <1>9. FreshReqs'
    BY <1>0 DEF FreshReqs, ShutWork
  <1>10. RefsCounted'
    BY <1>0, SameRefs DEF ServerTypes, ExportHands, ExportHand, FlushPlaces, ShutWork
  <1>11. WorkListed'
    BY <1>0, SameWork DEF ServerTypes, ShutWork
  <1> QED BY <1>1, <1>2, <1>3, <1>4, <1>5, <1>6, <1>7, <1>8, <1>9, <1>10, <1>11 DEF ExportInv

\* exshutdown: swiproc may find the slave asleep, waiting for another request.
LEMMA ShutSwiInv ==
  ASSUME ExportInv, NEW e \in Exports, ShutSwi(e)
  PROVE  ExportInv'
  <1>0. /\ ExqTypes /\ FsTypes /\ ReqTypes /\ ServerTypes
        /\ ExqWaitInv /\ SlaveHands /\ ExportHands /\ QueueHands /\ FreshReqs
        /\ RefsCounted /\ WorkListed /\ e \in Servers
    BY DEF ExportInv
  <1>1. ExqTypes'
    BY <1>0 DEF ExqTypes, ShutSwi, Swiproc
  <1>2. FsTypes'
    BY <1>0 DEF FsTypes, ShutSwi, Swiproc
  <1>3. ReqTypes'
    BY <1>0 DEF ReqTypes, Reqs, Flushes, ShutSwi, Swiproc
  <1>4. ServerTypes'
    BY <1>0 DEF ServerTypes, ExportPlaces, SlavePlaces, ShutSwi, Swiproc
  <1>5. ExqWaitInv'
    BY <1>0 DEF ExqWaitInv, ExqWait, ExqTypes, ServerTypes, ShutSwi, Swiproc
  <1>6. SlaveHands'
    BY <1>0 DEF SlaveHands, SlaveHand, ServerTypes, ReqTypes, ShutSwi, Swiproc
  <1>7. ExportHands'
    BY <1>0 DEF ExportHands, ExportHand, Owns, FlushPlaces, ServerTypes, ShutSwi, Swiproc
  <1>8. QueueHands'
    BY <1>0 DEF QueueHands, ServerTypes, ShutSwi, Swiproc
  <1>9. FreshReqs'
    BY <1>0 DEF FreshReqs, ShutSwi, Swiproc
  <1>10. RefsCounted'
    BY <1>0, SameRefs DEF ServerTypes, ExportHands, ExportHand, FlushPlaces, ShutSwi, Swiproc
  <1>11. WorkListed'
    BY <1>0, SameWork DEF ServerTypes, ExqWaitInv, ExqWait, ShutSwi, Swiproc
  <1> QED BY <1>1, <1>2, <1>3, <1>4, <1>5, <1>6, <1>7, <1>8, <1>9, <1>10, <1>11 DEF ExportInv

\* exshutdown: exportproc gives up its own reference to the Export.
LEMMA ShutFreeInv ==
  ASSUME ExportInv, NEW e \in Exports, ShutFree(e)
  PROVE  ExportInv'
  <1>0. /\ ExqTypes /\ FsTypes /\ ReqTypes /\ ServerTypes
        /\ ExqWaitInv /\ SlaveHands /\ ExportHands /\ QueueHands /\ FreshReqs
        /\ RefsCounted /\ WorkListed /\ e \in Servers
    BY DEF ExportInv
  <1>1. ExqTypes'
    BY <1>0 DEF ExqTypes, ShutFree
  <1>2. FsTypes'
    BY <1>0 DEF FsTypes, ShutFree
  <1>3. ReqTypes'
    BY <1>0 DEF ReqTypes, Reqs, Flushes, ShutFree
  <1>4. ServerTypes'
    BY <1>0 DEF ServerTypes, ExportPlaces, SlavePlaces, ShutFree
  <1>5. ExqWaitInv'
    BY <1>0 DEF ExqWaitInv, ExqWait, ExqTypes, ServerTypes, ShutFree
  <1>6. SlaveHands'
    BY <1>0 DEF SlaveHands, SlaveHand, ServerTypes, ReqTypes, ShutFree
  <1>7. ExportHands'
    BY <1>0 DEF ExportHands, ExportHand, Owns, FlushPlaces, ServerTypes, ShutFree
  <1>8. QueueHands'
    BY <1>0 DEF QueueHands, ServerTypes, ShutFree
  <1>9. FreshReqs'
    BY <1>0 DEF FreshReqs, ShutFree
  <1>10. RefsCounted'
    <2>1. /\ place' = [place EXCEPT ![e] = "gone"] /\ place[e] = "shutfree"
          /\ ref' = [ref EXCEPT ![e] = @ - 1] /\ UNCHANGED <<flush, export>>
      BY DEF ShutFree
    <2>2. \A d : Live(d)' = Live(d)
      BY <2>1 DEF Live
    <2>3. ASSUME NEW d PROVE Cardinality(Live(d)) \in Nat
      BY LiveFinite, {} \in SUBSET Live(d)
    <2> QED BY <1>0, <2>1, <2>2, <2>3 DEF RefsCounted, ServerTypes, FsTypes
  <1>11. WorkListed'
    BY <1>0, SameWork DEF ServerTypes, ShutFree
  <1> QED BY <1>1, <1>2, <1>3, <1>4, <1>5, <1>6, <1>7, <1>8, <1>9, <1>10, <1>11 DEF ExportInv

\* exslave: qlock(&exq.qwait) succeeds, or the slave queues.
LEMMA SlaveLockInv ==
  ASSUME ExportInv, NEW s \in Slaves, SlaveLock(s)
  PROVE  ExportInv'
  <1>0. /\ ExqTypes /\ FsTypes /\ ReqTypes /\ ServerTypes
        /\ ExqWaitInv /\ SlaveHands /\ ExportHands /\ QueueHands /\ FreshReqs
        /\ RefsCounted /\ WorkListed /\ s \in Servers
    BY DEF ExportInv
  <1>a. /\ req[s] = Nil /\ s \notin ToSet(qwait) /\ place[s] = "qlock"
        /\ \/ /\ qholder = Nil /\ qholder' = s /\ UNCHANGED qwait
              /\ place' = [place EXCEPT ![s] = "sleep"]
           \/ /\ qwait' = Append(qwait, s) /\ UNCHANGED qholder
              /\ place' = [place EXCEPT ![s] = "qwait"]
    BY <1>0 DEF SlaveLock, SlaveHands, SlaveHand, ExqWaitInv, ExqWait
  <1>b. /\ Append(qwait, s) \in Seq(Slaves) /\ IsInjective(Append(qwait, s))
        /\ ToSet(Append(qwait, s)) = ToSet(qwait) \cup {s}
    BY <1>0, <1>a, AppendQueue DEF ExqTypes, ExqWaitInv
  <1>1. ExqTypes'
    BY <1>0 DEF ExqTypes, SlaveLock
  <1>2. FsTypes'
    BY <1>0 DEF FsTypes, SlaveLock
  <1>3. ReqTypes'
    BY <1>0 DEF ReqTypes, Reqs, Flushes, SlaveLock
  <1>4. ServerTypes'
    BY <1>0 DEF ServerTypes, ExportPlaces, SlavePlaces, SlaveLock
  <1>5. ExqWaitInv'
    <2>1. UNCHANGED rwait
      BY DEF SlaveLock
    <2>2. IsInjective(qwait')
      BY <1>0, <1>a, <1>b DEF ExqWaitInv
    <2>3. ASSUME NEW x \in Slaves PROVE ExqWait(x)'
      <3>1. ExqWait(x) /\ ExqWait(s)
        BY <1>0 DEF ExqWaitInv
      <3>2. CASE x = s
        BY <1>0, <1>a, <1>b, <2>1, <3>1, <3>2 DEF ExqWait, ServerTypes
      <3>3. CASE x # s
        BY <1>0, <1>a, <1>b, <2>1, <3>1, <3>3 DEF ExqWait, ServerTypes
      <3> QED BY <3>2, <3>3
    <2> QED BY <2>2, <2>3 DEF ExqWaitInv
  <1>6. SlaveHands'
    <2>1. UNCHANGED <<req, export, slave>>
      BY DEF SlaveLock
    <2> QED BY <1>0, <1>a, <2>1 DEF SlaveHands, SlaveHand, ServerTypes
  <1>7. ExportHands'
    BY <1>0 DEF ExportHands, ExportHand, Owns, FlushPlaces, ServerTypes, SlaveLock
  <1>8. QueueHands'
    BY <1>0 DEF QueueHands, ServerTypes, SlaveLock
  <1>9. FreshReqs'
    BY <1>0 DEF FreshReqs, SlaveLock
  <1>10. RefsCounted'
    BY <1>0, SameRefs DEF ServerTypes, ExportHands, ExportHand, FlushPlaces, SlaveLock
  <1>11. WorkListed'
    BY <1>0, SameWork DEF ServerTypes, SlaveLock
  <1> QED BY <1>1, <1>2, <1>3, <1>4, <1>5, <1>6, <1>7, <1>8, <1>9, <1>10, <1>11 DEF ExportInv

\* exslave: Sleep(&exq.rwait, exwork, nil)
LEMMA SlaveSleepInv ==
  ASSUME ExportInv, NEW s \in Slaves, SlaveSleep(s)
  PROVE  ExportInv'
  <1>0. /\ ExqTypes /\ FsTypes /\ ReqTypes /\ ServerTypes
        /\ ExqWaitInv /\ SlaveHands /\ ExportHands /\ QueueHands /\ FreshReqs
        /\ RefsCounted /\ WorkListed /\ s \in Servers
    BY DEF ExportInv
  <1>a. req[s] = Nil /\ place[s] = "sleep"
    BY <1>0 DEF SlaveSleep, SlaveHands, SlaveHand
  <1>1. ExqTypes'
    BY <1>0 DEF ExqTypes, SlaveSleep
  <1>2. FsTypes'
    BY <1>0 DEF FsTypes, SlaveSleep
  <1>3. ReqTypes'
    BY <1>0 DEF ReqTypes, Reqs, Flushes, SlaveSleep
  <1>4. ServerTypes'
    BY <1>0 DEF ServerTypes, ExportPlaces, SlavePlaces, SlaveSleep
  <1>5. ExqWaitInv'
    BY <1>0 DEF ExqWaitInv, ExqWait, ExqTypes, ServerTypes, SlaveSleep
  <1>6. SlaveHands'
    <2>1. /\ UNCHANGED <<req, export, slave>>
          /\ \/ place' = [place EXCEPT ![s] = "take"]
             \/ place' = [place EXCEPT ![s] = "asleep"]
      BY DEF SlaveSleep
    <2> QED BY <1>0, <1>a, <2>1 DEF SlaveHands, SlaveHand, ServerTypes
  <1>7. ExportHands'
    BY <1>0 DEF ExportHands, ExportHand, Owns, FlushPlaces, ServerTypes, SlaveSleep
  <1>8. QueueHands'
    BY <1>0 DEF QueueHands, ServerTypes, SlaveSleep
  <1>9. FreshReqs'
    BY <1>0 DEF FreshReqs, SlaveSleep
  <1>10. RefsCounted'
    BY <1>0, SameRefs DEF ServerTypes, ExportHands, ExportHand, FlushPlaces, SlaveSleep
  <1>11. WorkListed'
    BY <1>0, SameWork DEF ServerTypes, SlaveSleep
  <1> QED BY <1>1, <1>2, <1>3, <1>4, <1>5, <1>6, <1>7, <1>8, <1>9, <1>10, <1>11 DEF ExportInv

\* exslave: the first request of the queue, if it is still there, is in hand.
LEMMA SlaveTakeInv ==
  ASSUME ExportInv, NEW s \in Slaves, SlaveTake(s)
  PROVE  ExportInv'
  <1>0. /\ ExqTypes /\ FsTypes /\ ReqTypes /\ ServerTypes
        /\ ExqWaitInv /\ SlaveHands /\ ExportHands /\ QueueHands /\ FreshReqs
        /\ RefsCounted /\ WorkListed /\ s \in Servers
    BY DEF ExportInv
  <1>a. /\ req[s] = Nil /\ place[s] = "take" /\ place' = [place EXCEPT ![s] = "qunlock"]
        /\ UNCHANGED <<export, flush, work, qholder, qwait, rwait>>
    BY <1>0 DEF SlaveTake, SlaveHands, SlaveHand
  <1>b. \/ UNCHANGED <<exq, slave, req>>
        \/ \E i \in Reqs :
             /\ export[i] # Nil /\ i \in ToSet(exq) /\ \A x \in Slaves : req[x] # i
             /\ exq' \in Seq(Reqs) /\ IsInjective(exq') /\ ToSet(exq') = ToSet(exq) \ {i}
             /\ slave' = [slave EXCEPT ![i] = s] /\ req' = [req EXCEPT ![s] = i]
    <2>1. CASE exq = <<>>
      BY <2>1 DEF SlaveTake
    <2>2. CASE exq # <<>>
      <3>1. /\ Tail(exq) \in Seq(Reqs) /\ IsInjective(Tail(exq)) /\ Head(exq) \in Reqs
            /\ Head(exq) \in ToSet(exq) /\ ToSet(Tail(exq)) = ToSet(exq) \ {Head(exq)}
        BY <1>0, <2>2, TailQueue DEF ExqTypes, QueueHands
      <3> QED BY <1>0, <2>2, <3>1 DEF SlaveTake, QueueHands
    <2> QED BY <2>1, <2>2
  <1>1. ExqTypes'
    BY <1>0, <1>a, <1>b DEF ExqTypes
  <1>2. FsTypes'
    BY <1>0 DEF FsTypes, SlaveTake
  <1>3. ReqTypes'
    <2>1. slave' \in [Reqs -> Slaves \cup {Nil}]
      BY <1>0, <1>b DEF ReqTypes
    <2> QED BY <1>0, <2>1 DEF ReqTypes, SlaveTake
  <1>4. ServerTypes'
    <2>1. req' \in [Servers -> Reqs \cup {Nil}]
      BY <1>0, <1>b DEF ServerTypes
    <2> QED BY <1>0, <1>a, <2>1 DEF ServerTypes, ExportPlaces, SlavePlaces, SlaveTake
  <1>5. ExqWaitInv'
    BY <1>0 DEF ExqWaitInv, ExqWait, ExqTypes, ServerTypes, SlaveTake
  <1>6. SlaveHands'
    <2>1. CASE UNCHANGED <<exq, slave, req>>
      BY <1>0, <1>a, <2>1 DEF SlaveHands, SlaveHand, ServerTypes
    <2>2. ASSUME NEW i \in Reqs, export[i] # Nil, \A x \in Slaves : req[x] # i,
                 slave' = [slave EXCEPT ![i] = s], req' = [req EXCEPT ![s] = i]
          PROVE  SlaveHands'
      <3> SUFFICES ASSUME NEW x \in Slaves PROVE SlaveHand(x)'
        BY DEF SlaveHands
      <3>1. CASE x = s
        BY <1>0, <1>a, <2>2, <3>1 DEF SlaveHand, ServerTypes, ReqTypes, Reqs
      <3>2. CASE x # s
        BY <1>0, <1>a, <2>2, <3>2 DEF SlaveHands, SlaveHand, ServerTypes, ReqTypes
      <3> QED BY <3>1, <3>2
    <2> QED BY <1>b, <2>1, <2>2
  <1>7. ExportHands'
    <2> SUFFICES ASSUME NEW d \in Exports PROVE ExportHand(d)'
      BY DEF ExportHands
    <2>1. place'[d] = place[d] /\ req'[d] = req[d]
      BY <1>0, <1>a, <1>b DEF ServerTypes
    <2>2. ToSet(exq') \subseteq ToSet(exq)
      BY <1>b
    <2>3. ASSUME Owns(d), NEW x \in Slaves PROVE req'[x] # req[d]
      BY <1>0, <1>b, <2>3 DEF ExportHands, ExportHand, ServerTypes
    <2> QED BY <1>0, <1>a, <2>1, <2>2, <2>3 DEF ExportHands, ExportHand, Owns
  <1>8. QueueHands'
    BY <1>0, <1>a, <1>b DEF QueueHands, ServerTypes
  <1>9. FreshReqs'
    BY <1>0 DEF FreshReqs, SlaveTake
  <1>10. RefsCounted'
    BY <1>0, SameRefs DEF ServerTypes, ExportHands, ExportHand, FlushPlaces, SlaveTake
  <1>11. WorkListed'
    <2>1. \A x \in Slaves : place[x] = "work" => req'[x] = req[x]
      BY <1>0, <1>a, <1>b DEF ServerTypes
    <2> QED BY <1>0, <1>a, <2>1, SameWork DEF ServerTypes
  <1> QED BY <1>1, <1>2, <1>3, <1>4, <1>5, <1>6, <1>7, <1>8, <1>9, <1>10, <1>11 DEF ExportInv

\* exslave: qunlock(&exq.qwait) passes the lock on to the slave that waits first.
LEMMA SlaveUnlockInv ==
  ASSUME ExportInv, NEW s \in Slaves, SlaveUnlock(s)
  PROVE  ExportInv'
  <1>0. /\ ExqTypes /\ FsTypes /\ ReqTypes /\ ServerTypes
        /\ ExqWaitInv /\ SlaveHands /\ ExportHands /\ QueueHands /\ FreshReqs
        /\ RefsCounted /\ WorkListed /\ s \in Servers
    BY DEF ExportInv
  <1> DEFINE mine == IF req[s] = Nil THEN "qlock" ELSE "join"
  <1>a. /\ place[s] = "qunlock" /\ s \notin ToSet(qwait)
        /\ UNCHANGED <<exqVars, rwait, fsVars, reqVars, hands, sent, answers>>
    BY <1>0 DEF SlaveUnlock, ExqWaitInv, ExqWait
  <1>b. \/ /\ qholder' = Nil /\ UNCHANGED qwait /\ place' = [place EXCEPT ![s] = mine]
        \/ \E h \in Slaves :
             /\ qholder' = h /\ place[h] = "qwait" /\ h # s
             /\ qwait' \in Seq(Slaves) /\ IsInjective(qwait') /\ ToSet(qwait') = ToSet(qwait) \ {h}
             /\ place' = [place EXCEPT ![s] = mine, ![h] = "sleep"]
    <2>1. CASE qwait = <<>>
      BY <2>1 DEF SlaveUnlock
    <2>2. CASE qwait # <<>>
      <3>1. /\ Tail(qwait) \in Seq(Slaves) /\ IsInjective(Tail(qwait)) /\ Head(qwait) \in Slaves
            /\ Head(qwait) \in ToSet(qwait) /\ ToSet(Tail(qwait)) = ToSet(qwait) \ {Head(qwait)}
        BY <1>0, <2>2, TailQueue DEF ExqTypes, ExqWaitInv
      <3> QED BY <1>0, <1>a, <2>2, <3>1 DEF SlaveUnlock, ExqWaitInv, ExqWait
    <2> QED BY <2>1, <2>2
  <1>c. mine \in {"qlock", "join"} /\ (mine = "join" <=> req[s] # Nil)
    OBVIOUS
  <1> HIDE DEF mine
  <1>d. /\ \A d \in Exports : place'[d] = place[d]
        /\ \A x \in Slaves : \/ x = s /\ place'[x] = mine
                             \/ x # s /\ place'[x] = place[x]
                             \/ x # s /\ place[x] = "qwait" /\ place'[x] = "sleep"
    BY <1>0, <1>b DEF ServerTypes
  <1>1. ExqTypes'
    BY <1>0, <1>a, <1>b DEF ExqTypes
  <1>2. FsTypes'
    BY <1>0 DEF FsTypes, SlaveUnlock
  <1>3. ReqTypes'
    BY <1>0 DEF ReqTypes, Reqs, Flushes, SlaveUnlock
  <1>4. ServerTypes'
    <2>1. place' \in [Servers -> ExportPlaces \cup SlavePlaces]
      BY <1>0, <1>b, <1>c DEF ServerTypes, SlavePlaces
    <2> QED BY <1>0, <1>a, <1>c, <1>d, <2>1 DEF ServerTypes, SlavePlaces
  <1>5. ExqWaitInv'
    <2>1. IsInjective(qwait')
      BY <1>0, <1>b DEF ExqWaitInv
    <2>2. ASSUME NEW x \in Slaves PROVE ExqWait(x)'
      <3>1. ExqWait(x) /\ ExqWait(s)
        BY <1>0 DEF ExqWaitInv
      <3>2. CASE qholder' = Nil /\ UNCHANGED qwait /\ place' = [place EXCEPT ![s] = mine]
        BY <1>0, <1>a, <1>c, <3>1, <3>2 DEF ExqWait, ServerTypes
      <3>3. ASSUME NEW h \in Slaves, qholder' = h, place[h] = "qwait", h # s,
                   ToSet(qwait') = ToSet(qwait) \ {h},
                   place' = [place EXCEPT ![s] = mine, ![h] = "sleep"]
            PROVE  ExqWait(x)'
        <4>1. CASE x = s
          BY <1>0, <1>a, <1>c, <3>1, <3>3, <4>1 DEF ExqWait, ServerTypes
        <4>2. CASE x # s
          BY <1>0, <1>a, <1>c, <3>1, <3>3, <4>2 DEF ExqWait, ServerTypes
        <4> QED BY <4>1, <4>2
      <3> QED BY <1>b, <3>2, <3>3
    <2> QED BY <2>1, <2>2 DEF ExqWaitInv
  <1>6. SlaveHands'
    BY <1>0, <1>a, <1>c, <1>d DEF SlaveHands, SlaveHand
  <1>7. ExportHands'
    BY <1>0, <1>a, <1>d DEF ExportHands, ExportHand, Owns
  <1>8. QueueHands'
    BY <1>0, <1>a DEF QueueHands
  <1>9. FreshReqs'
    BY <1>0 DEF FreshReqs, SlaveUnlock
  <1>10. RefsCounted'
    BY <1>0, <1>a, <1>d, SameRefs
  <1>11. WorkListed'
    BY <1>0, <1>a, <1>c, <1>d, SameWork
  <1> QED BY <1>1, <1>2, <1>3, <1>4, <1>5, <1>6, <1>7, <1>8, <1>9, <1>10, <1>11 DEF ExportInv

\* exslave: the request in hand is put on fs->work.
LEMMA SlaveJoinInv ==
  ASSUME ExportInv, NEW s \in Slaves, SlaveJoin(s)
  PROVE  ExportInv'
  <1>0. /\ ExqTypes /\ FsTypes /\ ReqTypes /\ ServerTypes
        /\ ExqWaitInv /\ SlaveHands /\ ExportHands /\ QueueHands /\ FreshReqs
        /\ RefsCounted /\ WorkListed /\ s \in Servers
    BY DEF ExportInv
  <1>a. /\ req[s] \in Reqs /\ Fs(s) \in Exports /\ export[req[s]] = Fs(s)
        /\ place[s] = "join" /\ place' = [place EXCEPT ![s] = "work"]
        /\ work' = [work EXCEPT ![Fs(s)] = @ \cup {req[s]}] /\ UNCHANGED <<export, req>>
    BY <1>0 DEF SlaveJoin, SlaveHands, SlaveHand, ServerTypes, ReqTypes, Fs
  <1>1. ExqTypes'
    BY <1>0 DEF ExqTypes, SlaveJoin, Fs
  <1>2. FsTypes'
    BY <1>0, <1>a DEF FsTypes, SlaveJoin
  <1>3. ReqTypes'
    BY <1>0 DEF ReqTypes, Reqs, Flushes, SlaveJoin, Fs
  <1>4. ServerTypes'
    BY <1>0 DEF ServerTypes, ExportPlaces, SlavePlaces, SlaveJoin, Fs
  <1>5. ExqWaitInv'
    BY <1>0 DEF ExqWaitInv, ExqWait, ExqTypes, ServerTypes, SlaveJoin, Fs
  <1>6. SlaveHands'
    BY <1>0 DEF SlaveHands, SlaveHand, ServerTypes, ReqTypes, SlaveJoin, Fs
  <1>7. ExportHands'
    BY <1>0 DEF ExportHands, ExportHand, Owns, FlushPlaces, ServerTypes, SlaveJoin, Fs
  <1>8. QueueHands'
    BY <1>0 DEF QueueHands, ServerTypes, SlaveJoin, Fs
  <1>9. FreshReqs'
    BY <1>0 DEF FreshReqs, SlaveJoin, Fs
  <1>10. RefsCounted'
    BY <1>0, SameRefs DEF ServerTypes, ExportHands, ExportHand, FlushPlaces, SlaveJoin, Fs
  <1>11. WorkListed'
    <2> SUFFICES ASSUME NEW d \in Exports, NEW i \in Reqs
                 PROVE  i \in work'[d] <=> /\ export[i] = d
                                           /\ \E x \in Slaves : req[x] = i /\ place'[x] = "work"
      BY <1>2, <1>a DEF WorkListed, FsTypes, Live
    <2>1. i \in work[d] <=> export[i] = d /\ \E x \in Slaves : req[x] = i /\ place[x] = "work"
      BY <1>0 DEF WorkListed, Live
    <2>2. \A x \in Slaves : req[x] = i /\ req[s] = i => x = s
      BY <1>0, <1>a DEF SlaveHands, SlaveHand
    <2>3. \A x \in Slaves : x # s => place'[x] = place[x]
      BY <1>0, <1>a DEF ServerTypes
    <2>4. place'[s] = "work"
      BY <1>0, <1>a DEF ServerTypes
    <2>5. CASE req[s] = i /\ Fs(s) = d
      BY <1>0, <1>a, <2>1, <2>2, <2>3, <2>4, <2>5 DEF FsTypes
    <2>6. CASE req[s] # i \/ Fs(s) # d
      BY <1>0, <1>a, <2>1, <2>3, <2>4, <2>6 DEF FsTypes
    <2> QED BY <2>5, <2>6
  <1> QED BY <1>1, <1>2, <1>3, <1>4, <1>5, <1>6, <1>7, <1>8, <1>9, <1>10, <1>11 DEF ExportInv

\* exslave: a request that was served is taken off fs->work.
LEMMA SlaveLeaveInv ==
  ASSUME ExportInv, NEW s \in Slaves, SlaveLeave(s)
  PROVE  ExportInv'
  <1>0. /\ ExqTypes /\ FsTypes /\ ReqTypes /\ ServerTypes
        /\ ExqWaitInv /\ SlaveHands /\ ExportHands /\ QueueHands /\ FreshReqs
        /\ RefsCounted /\ WorkListed /\ s \in Servers
    BY DEF ExportInv
  <1>a. /\ req[s] \in Reqs /\ Fs(s) \in Exports /\ export[req[s]] = Fs(s)
        /\ place[s] = "work" /\ place' = [place EXCEPT ![s] = "reply"]
        /\ work' = [work EXCEPT ![Fs(s)] = @ \ {req[s]}] /\ UNCHANGED <<export, req>>
    BY <1>0 DEF SlaveLeave, SlaveHands, SlaveHand, ServerTypes, ReqTypes, Fs
  <1>1. ExqTypes'
    BY <1>0 DEF ExqTypes, SlaveLeave, Fs
  <1>2. FsTypes'
    BY <1>0 DEF FsTypes, SlaveLeave, Fs
  <1>3. ReqTypes'
    BY <1>0 DEF ReqTypes, Reqs, Flushes, SlaveLeave, Fs
  <1>4. ServerTypes'
    BY <1>0 DEF ServerTypes, ExportPlaces, SlavePlaces, SlaveLeave, Fs
  <1>5. ExqWaitInv'
    BY <1>0 DEF ExqWaitInv, ExqWait, ExqTypes, ServerTypes, SlaveLeave, Fs
  <1>6. SlaveHands'
    BY <1>0 DEF SlaveHands, SlaveHand, ServerTypes, ReqTypes, SlaveLeave, Fs
  <1>7. ExportHands'
    BY <1>0 DEF ExportHands, ExportHand, Owns, FlushPlaces, ServerTypes, SlaveLeave, Fs
  <1>8. QueueHands'
    BY <1>0 DEF QueueHands, ServerTypes, SlaveLeave, Fs
  <1>9. FreshReqs'
    BY <1>0 DEF FreshReqs, SlaveLeave, Fs
  <1>10. RefsCounted'
    BY <1>0, SameRefs DEF ServerTypes, ExportHands, ExportHand, FlushPlaces, SlaveLeave, Fs
  <1>11. WorkListed'
    <2> SUFFICES ASSUME NEW d \in Exports, NEW i \in Reqs
                 PROVE  i \in work'[d] <=> /\ export[i] = d
                                           /\ \E x \in Slaves : req[x] = i /\ place'[x] = "work"
      BY <1>2, <1>a DEF WorkListed, FsTypes, Live
    <2>1. i \in work[d] <=> export[i] = d /\ \E x \in Slaves : req[x] = i /\ place[x] = "work"
      BY <1>0 DEF WorkListed, Live
    <2>2. \A x \in Slaves : req[x] = i /\ req[s] = i => x = s
      BY <1>0, <1>a DEF SlaveHands, SlaveHand
    <2>3. \A x \in Slaves : x # s => place'[x] = place[x]
      BY <1>0, <1>a DEF ServerTypes
    <2>4. place'[s] = "reply"
      BY <1>0, <1>a DEF ServerTypes
    <2>5. CASE req[s] = i /\ Fs(s) = d
      BY <1>0, <1>a, <2>1, <2>2, <2>3, <2>4, <2>5 DEF FsTypes
    <2>6. CASE req[s] # i \/ Fs(s) # d
      BY <1>0, <1>a, <2>1, <2>3, <2>4, <2>6 DEF FsTypes
    <2> QED BY <2>5, <2>6
  <1> QED BY <1>1, <1>2, <1>3, <1>4, <1>5, <1>6, <1>7, <1>8, <1>9, <1>10, <1>11 DEF ExportInv

\* exslave: the request is answered, or not, and freed.
LEMMA SlaveReplyInv ==
  ASSUME ExportInv, NEW s \in Slaves, SlaveReply(s)
  PROVE  ExportInv'
  <1>0. /\ ExqTypes /\ FsTypes /\ ReqTypes /\ ServerTypes
        /\ ExqWaitInv /\ SlaveHands /\ ExportHands /\ QueueHands /\ FreshReqs
        /\ RefsCounted /\ WorkListed /\ s \in Servers
    BY DEF ExportInv
  <1> DEFINE i == req[s]
  <1>d. PICK d \in Exports : d = Fs(s)
    BY <1>0 DEF SlaveReply, SlaveHands, SlaveHand, ServerTypes, ReqTypes, Fs
  <1>a. /\ i \in Reqs /\ export[i] = d /\ i # Nil
        /\ \A x \in Slaves : x # s => req[x] # i
        /\ i \notin ToSet(exq) /\ \A e \in Exports : Owns(e) => req[e] # i
    BY <1>0, <1>d DEF SlaveReply, SlaveHands, SlaveHand, ServerTypes, ReqTypes, Fs, QueueHands,
                ExportHands, ExportHand, Reqs
  <1>b. /\ place[s] = "reply" /\ place' = [place EXCEPT ![s] = "qlock"]
        /\ req' = [req EXCEPT ![s] = Nil] /\ ref' = [ref EXCEPT ![d] = @ - Cardinality({i})]
        /\ export' = [j \in Reqs |-> IF j \in {i} THEN Nil ELSE export[j]]
        /\ UNCHANGED <<exq, flush, work, slave, reqs, flushes, flushtag, shut>>
    BY <1>d DEF SlaveReply, Free
  <1>c. /\ replies' \in [Reqs -> Nat] /\ rflushes' \in [Flushes -> Nat]
        /\ \A j \in Reqs : j # i => replies'[j] = replies[j]
    <2>1. flushtag[i] # Nil => flushtag[i] \in Flushes
      BY <1>0, <1>a DEF ReqTypes
    <2> QED BY <1>0, <1>a, <2>1 DEF SlaveReply, Answered, ReqTypes
  <1>f. Cardinality({i}) = 1
    BY FS_Singleton
  <1> HIDE DEF i
  <1>1. ExqTypes'
    BY <1>0 DEF ExqTypes, SlaveReply, Free, Fs, Answered
  <1>2. FsTypes'
    BY <1>0, <1>a, <1>b, <1>f DEF FsTypes
  <1>3. ReqTypes'
    BY <1>0, <1>b, <1>c DEF ReqTypes
  <1>4. ServerTypes'
    BY <1>0 DEF ServerTypes, ExportPlaces, SlavePlaces, SlaveReply, Free, Fs, Answered
  <1>5. ExqWaitInv'
    BY <1>0 DEF ExqWaitInv, ExqWait, ExqTypes, ServerTypes, SlaveReply, Free, Fs, Answered
  <1>6. SlaveHands'
    BY <1>0, <1>a, <1>b DEF SlaveHands, SlaveHand, ServerTypes
  <1>7. ExportHands'
    <2>1. ASSUME NEW e \in Exports PROVE ExportHand(e)'
      <3>1. place'[e] = place[e] /\ req'[e] = req[e]
        BY <1>0, <1>b DEF ServerTypes
      <3>2. ASSUME Owns(e)
            PROVE  export'[req[e]] = export[req[e]] /\ \A x \in Slaves : req'[x] # req[e]
        BY <1>0, <1>a, <1>b, <3>2 DEF ServerTypes, ExportHands, ExportHand, Owns, ReqTypes,
                                            FlushPlaces
      <3> QED BY <1>0, <1>b, <3>1, <3>2 DEF ExportHands, ExportHand, Owns
    <2> QED BY <2>1 DEF ExportHands
  <1>8. QueueHands'
    <2>1. ASSUME NEW j \in ToSet(exq), NEW x \in Slaves
          PROVE  export'[j] = export[j] /\ req'[x] # j
      <3>1. j \in Reqs /\ j # i
        BY <1>0, <1>a, QueueSubset DEF ExqTypes
      <3> QED BY <1>0, <1>b, <3>1 DEF QueueHands, ServerTypes, Reqs
    <2>2. ASSUME NEW j \in ToSet(exq) PROVE export'[j] # Nil
      <3>1. j \in Reqs /\ j # i
        BY <1>0, <1>a, QueueSubset DEF ExqTypes
      <3> QED BY <1>0, <1>b, <3>1 DEF QueueHands
    <2> QED BY <1>0, <1>b, <2>1, <2>2 DEF QueueHands
  <1>9. FreshReqs'
    BY <1>0, <1>a, <1>b, <1>c DEF FreshReqs
  <1>10. RefsCounted'
    <2>1. {i} \in SUBSET Live(d)
      BY <1>a DEF Live
    <2>2. /\ Cardinality(Live(d))' = Cardinality(Live(d)) - Cardinality({i})
          /\ \A e \in Exports \ {d} : Live(e)' = Live(e)
      <3>1. \A j \in Reqs : export'[j] = IF j \in {i} THEN Nil ELSE export[j]
        BY <1>b
      <3> QED BY <1>a, <2>1, <3>1, LiveLess
    <2>3. ASSUME NEW e PROVE Cardinality(Live(e)) \in Nat
      BY LiveFinite, {} \in SUBSET Live(e)
    <2> QED BY <1>0, <1>a, <1>b, <1>f, <2>2, <2>3 DEF RefsCounted, ServerTypes, FsTypes
  <1>11. WorkListed'
    BY <1>0, <1>a, <1>b, SameWork DEF ServerTypes, SlaveHands, SlaveHand
  <1> QED BY <1>1, <1>2, <1>3, <1>4, <1>5, <1>6, <1>7, <1>8, <1>9, <1>10, <1>11 DEF ExportInv

\* At first each Export has its exportproc and nothing else.
LEMMA InitExportInv == ExportInit => ExportInv
  <1> SUFFICES ASSUME ExportInit PROVE ExportInv
    OBVIOUS
  <1> USE DEF ExportInit
  <1>1. ExqTypes /\ FsTypes /\ ReqTypes
    BY DEF ExqTypes, FsTypes, ReqTypes, Reqs, Flushes
  <1>2. ServerTypes
    BY DEF ServerTypes, ExportPlaces, SlavePlaces
  <1>3. ExqWaitInv
    BY EmptyQueue DEF ExqWaitInv, ExqWait
  <1>4. SlaveHands /\ ExportHands
    BY DEF SlaveHands, SlaveHand, ExportHands, ExportHand, Owns, FlushPlaces
  <1>5. QueueHands /\ FreshReqs
    BY EmptyQueue DEF QueueHands, FreshReqs
  <1>6. \A e \in Exports : Live(e) = {}
    BY DEF Live
  <1>7. RefsCounted
    <2>1. \A e \in Exports : Cardinality(Live(e)) = 0
      BY <1>6, FS_EmptySet
    <2> QED BY <2>1 DEF RefsCounted
  <1>8. WorkListed
    BY <1>6 DEF WorkListed
  <1> QED BY <1>1, <1>2, <1>3, <1>4, <1>5, <1>7, <1>8 DEF ExportInv

\* Every step keeps the invariant.
LEMMA NextExportInv == ExportInv /\ [ExportNext]_exportVars => ExportInv'
  <1> SUFFICES ASSUME ExportInv, [ExportNext]_exportVars PROVE ExportInv'
    OBVIOUS
  <1>1. CASE UNCHANGED exportVars
    <2>1. UNCHANGED <<exq, qholder, qwait, rwait, ref, work, export, slave, flushtag, shut,
                      place, req, flush, target, reqs, flushes, replies, rflushes>>
      BY <1>1 DEF exportVars
    <2>2. (ExqTypes /\ FsTypes /\ ReqTypes /\ ServerTypes)'
      BY <2>1 DEF ExportInv, ExqTypes, FsTypes, ReqTypes, ServerTypes
    <2>3. (ExqWaitInv /\ SlaveHands /\ ExportHands /\ QueueHands /\ FreshReqs)'
      BY <2>1 DEF ExportInv, ExqWaitInv, ExqWait, SlaveHands, SlaveHand, ExportHands,
                  ExportHand, Owns, QueueHands, FreshReqs
    <2>4. (RefsCounted /\ WorkListed)'
      BY <2>1 DEF ExportInv, RefsCounted, WorkListed, Live
    <2> QED BY <2>2, <2>3, <2>4 DEF ExportInv
  <1>2. ASSUME NEW e \in Exports, ReadRequest(e) \/ ReadFlush(e) \/ ReadEof(e) PROVE ExportInv'
    BY <1>2, ReadRequestInv, ReadFlushInv, ReadEofInv
  <1>3. ASSUME NEW e \in Exports, ExportStep(e) PROVE ExportInv'
    BY <1>3, EnqueueInv, SpawnInv, WakeInv, FlushQueueInv, FlushedInv, FlushWorkInv,
       FlushSwiInv, FlushReplyInv, ShutQueueInv, ShutWorkInv, ShutSwiInv, ShutFreeInv
       DEF ExportStep
  <1>4. ASSUME NEW s \in Slaves, SlaveStep(s) \/ SlaveLeave(s) PROVE ExportInv'
    BY <1>4, SlaveLockInv, SlaveSleepInv, SlaveTakeInv, SlaveUnlockInv, SlaveJoinInv,
       SlaveReplyInv, SlaveLeaveInv DEF SlaveStep
  <1> QED BY <1>1, <1>2, <1>3, <1>4 DEF ExportNext

(* The invariant of exportproc, exslave, exflushed and exshutdown, for any *)
(* number of exports, slaves and requests.                                 *)
THEOREM ExportInvHolds == ExportSpec => []ExportInv
  BY InitExportInv, NextExportInv, PTL DEF ExportSpec

(* r.ref of an Export is the number of those who refer to it (exfree frees *)
(* it when the last one goes), fs->work is what the slaves work on,        *)
(* exq.qwait has one holder, and who sleeps on exq.rwait is that one.      *)
THEOREM ExportTypeCorrect == ExportSpec => []ExportTypeOK
  <1>1. ExportInv => ExportTypeOK
    BY DEF ExportInv, ExportTypeOK, RefsCounted, WorkListed, ExqWaitInv, ExqWait
  <1> QED BY <1>1, ExportInvHolds, PTL

-----------------------------------------------------------------------------
(* What is still to be answered.  The flush that exportproc has in hand is *)
(* not the flushtag of a request, unless exflushed has just made it that;  *)
(* the flush that is to be answered in the place of a request was not      *)
(* answered; and nobody else has either.                                   *)
OwedByExport ==
  \A e \in Exports : flush[e] # Nil =>
    /\ flush[e] <= flushes
    /\ place[e] # "flushswi" =>
         rflushes[flush[e]] = 0 /\ \A i \in Reqs : flushtag[i] # flush[e]

OwedBySlave ==
  \A i \in Reqs : flushtag[i] # Nil =>
    /\ flushtag[i] <= flushes /\ i <= reqs
    /\ export[i] # Nil => rflushes[flushtag[i]] = 0

FlushesApart ==
  /\ \A d, e \in Exports : flush[d] # Nil /\ flush[d] = flush[e] => d = e
  /\ \A i, j \in Reqs : flushtag[i] # Nil /\ flushtag[i] = flushtag[j] => i = j

FreshFlushes == \A f \in Flushes : f > flushes => rflushes[f] = 0

AnswerInv == AnsweredOnce /\ OwedByExport /\ OwedBySlave /\ FlushesApart /\ FreshFlushes

\* A step that answers nothing and reads nothing owes what was owed before.
LEMMA SameAnswers ==
  ASSUME AnswerInv,
         UNCHANGED <<replies, rflushes, flushtag, flush, flushes, reqs>>,
         \A i \in Reqs : export'[i] # Nil => export[i] # Nil,
         \A e \in Exports : flush[e] # Nil /\ place'[e] # "flushswi" => place[e] # "flushswi"
  PROVE  AnswerInv'
  <1>1. AnsweredOnce' /\ FreshFlushes'
    BY DEF AnswerInv, AnsweredOnce, FreshFlushes
  <1>2. OwedByExport'
    BY DEF AnswerInv, OwedByExport
  <1>3. OwedBySlave' /\ FlushesApart'
    BY DEF AnswerInv, OwedBySlave, FlushesApart
  <1> QED BY <1>1, <1>2, <1>3 DEF AnswerInv

\* A request that is read is new, and has not been answered.
LEMMA ReadRequestAnswers ==
  ASSUME ExportInv, AnswerInv, NEW e \in Exports, ReadRequest(e)
  PROVE  AnswerInv'
  <1>1. /\ ReqTypes /\ ServerTypes /\ FreshReqs /\ place[e] = "read"
        /\ UNCHANGED <<replies, rflushes, flushtag, flush, flushes>> /\ reqs' = reqs + 1
        /\ export' = [export EXCEPT ![reqs + 1] = e] /\ reqs + 1 \in Reqs
        /\ place' = [place EXCEPT ![e] = "enqueue"]
    BY DEF ExportInv, ReadRequest
  <1>2. AnsweredOnce' /\ FreshFlushes'
    BY <1>1 DEF AnswerInv, AnsweredOnce, FreshFlushes, FreshReqs, ReqTypes, Reqs
  <1>3. OwedByExport'
    BY <1>1 DEF AnswerInv, OwedByExport, ServerTypes
  <1>4. OwedBySlave' /\ FlushesApart'
    BY <1>1 DEF AnswerInv, OwedBySlave, FlushesApart, ReqTypes, Reqs
  <1> QED BY <1>2, <1>3, <1>4 DEF AnswerInv

\* A flush that is read is new: no request has it as its flushtag.
LEMMA ReadFlushAnswers ==
  ASSUME ExportInv, AnswerInv, NEW e \in Exports, ReadFlush(e)
  PROVE  AnswerInv'
  <1>1. /\ ReqTypes /\ ServerTypes /\ place[e] = "read" /\ flushes' = flushes + 1
        /\ UNCHANGED <<replies, rflushes, flushtag, export, reqs>> /\ flushes + 1 \in Flushes
        /\ flush' = [flush EXCEPT ![e] = flushes + 1]
        /\ place' = [place EXCEPT ![e] = "flushqueue"]
    BY DEF ExportInv, ReadFlush
  <1>2. flushes \in Nat /\ \A d \in Exports : flush[d] # Nil => flush[d] \in Nat
    BY <1>1 DEF ReqTypes, ServerTypes, Flushes
  <1>3. \A i \in Reqs : flushtag[i] # Nil => flushtag[i] \in Nat
    BY <1>1 DEF ReqTypes, Flushes
  <1>4. AnsweredOnce' /\ FreshFlushes'
    BY <1>1, <1>2 DEF AnswerInv, AnsweredOnce, FreshFlushes, Flushes
  <1>5. OwedByExport'
    <2> SUFFICES ASSUME NEW d \in Exports, flush'[d] # Nil
                 PROVE  /\ flush'[d] <= flushes + 1
                        /\ place'[d] # "flushswi" =>
                             /\ rflushes[flush'[d]] = 0
                             /\ \A i \in Reqs : flushtag[i] # flush'[d]
      BY <1>1 DEF OwedByExport
    <2>1. CASE d = e
      <3>1. flush'[d] = flushes + 1
        BY <1>1, <2>1 DEF ServerTypes
      <3>2. rflushes[flushes + 1] = 0
        BY <1>1, <1>2 DEF AnswerInv, FreshFlushes
      <3>3. \A i \in Reqs : flushtag[i] # flushes + 1
        BY <1>2, <1>3 DEF AnswerInv, OwedBySlave
      <3> QED BY <1>2, <3>1, <3>2, <3>3
    <2>2. CASE d # e
      BY <1>1, <1>2, <2>2 DEF AnswerInv, OwedByExport, ServerTypes
    <2> QED BY <2>1, <2>2
  <1>6. OwedBySlave'
    BY <1>1, <1>2, <1>3 DEF AnswerInv, OwedBySlave
  <1>7. FlushesApart'
    BY <1>1, <1>2 DEF AnswerInv, OwedByExport, FlushesApart, ServerTypes
  <1> QED BY <1>4, <1>5, <1>6, <1>7 DEF AnswerInv

\* exflushed leaves the answer to a flush to the slave.
LEMMA FlushWorkAnswers ==
  ASSUME ExportInv, AnswerInv, NEW e \in Exports, FlushWork(e)
  PROVE  AnswerInv'
  <1>1. /\ ReqTypes /\ ServerTypes /\ FreshReqs /\ place[e] = "flushwork" /\ flush[e] # Nil
        /\ UNCHANGED <<replies, rflushes, export, reqs, flushes, flush>>
        /\ flush[e] \in Flushes /\ flush[e] \in Nat /\ req[e] \in Reqs
        /\ req[e] \in work[e] => export[req[e]] # Nil
    BY DEF ExportInv, FlushWork, ExportHands, ExportHand, FlushPlaces, ServerTypes, Flushes,
           WorkListed, Live
  <1>2. CASE req[e] \in work[e]
    <2> DEFINE i == req[e]
               f == flush[e]
    <2>1. /\ flushtag' = [flushtag EXCEPT ![i] = f] /\ place' = [place EXCEPT ![e] = "flushswi"]
          /\ export[i] # Nil /\ i <= reqs
      BY <1>1, <1>2 DEF FlushWork, FreshReqs, ReqTypes, Reqs
    <2>2. f <= flushes /\ rflushes[f] = 0 /\ \A j \in Reqs : flushtag[j] # f
      BY <1>1 DEF AnswerInv, OwedByExport
    <2>3. \A d \in Exports : flush[d] = f => d = e
      BY <1>1 DEF AnswerInv, FlushesApart
    <2>4. AnsweredOnce' /\ FreshFlushes'
      BY <1>1 DEF AnswerInv, AnsweredOnce, FreshFlushes
    <2> HIDE DEF i, f
    <2>5. \A j \in Reqs : flushtag'[j] = IF j = i THEN f ELSE flushtag[j]
      BY <1>1, <2>1 DEF ReqTypes
    <2>6. \A d \in Exports : place'[d] = IF d = e THEN "flushswi" ELSE place[d]
      BY <1>1, <2>1 DEF ServerTypes
    <2>7. OwedByExport'
      BY <1>1, <2>3, <2>5, <2>6 DEF AnswerInv, OwedByExport
    <2>8. OwedBySlave'
      BY <1>1, <2>1, <2>2, <2>5 DEF AnswerInv, OwedBySlave
    <2>9. FlushesApart'
      BY <1>1, <2>2, <2>5 DEF AnswerInv, FlushesApart
    <2> QED BY <2>4, <2>7, <2>8, <2>9 DEF AnswerInv
  <1>3. CASE req[e] \notin work[e]
    <2>1. flushtag' = flushtag /\ place' = [place EXCEPT ![e] = "flushreply"]
      BY <1>3 DEF FlushWork
    <2> QED BY <1>1, <2>1, SameAnswers DEF ServerTypes
  <1> QED BY <1>2, <1>3

\* ... and after swiproc exportproc forgets about the flush.
LEMMA FlushSwiAnswers ==
  ASSUME ExportInv, AnswerInv, NEW e \in Exports, FlushSwi(e)
  PROVE  AnswerInv'
  <1>1. /\ ServerTypes /\ UNCHANGED <<replies, rflushes, flushtag, export, reqs, flushes>>
        /\ flush' = [flush EXCEPT ![e] = Nil]
        /\ \A d \in Exports : d # e => place'[d] = place[d]
    BY DEF ExportInv, FlushSwi, FlushEnd, Swiproc, ServerTypes
  <1>2. \A d \in Exports : flush'[d] = IF d = e THEN Nil ELSE flush[d]
    BY <1>1 DEF ServerTypes
  <1>3. AnsweredOnce' /\ FreshFlushes' /\ OwedBySlave'
    BY <1>1 DEF AnswerInv, AnsweredOnce, FreshFlushes, OwedBySlave
  <1>4. OwedByExport'
    BY <1>1, <1>2 DEF AnswerInv, OwedByExport
  <1>5. FlushesApart'
    BY <1>1, <1>2 DEF AnswerInv, FlushesApart
  <1> QED BY <1>3, <1>4, <1>5 DEF AnswerInv

\* exportproc answers a flush.
LEMMA ExportAnswers ==
  ASSUME ExportInv, AnswerInv, NEW e \in Exports, Flushed(e) \/ FlushReply(e)
  PROVE  AnswerInv'
  <1> DEFINE f == flush[e]
  <1>1. /\ ReqTypes /\ ServerTypes /\ f # Nil /\ f \in Flushes /\ place[e] # "flushswi"
        /\ UNCHANGED <<replies, flushtag, reqs, flushes>>
        /\ flush' = [flush EXCEPT ![e] = Nil]
        /\ rflushes' = [rflushes EXCEPT ![f] = @ + 1]
        /\ place' = [place EXCEPT ![e] = "read"]
    BY DEF ExportInv, Flushed, FlushReply, FlushEnd, Answered, ServerTypes, ExportHands,
           ExportHand, FlushPlaces
  <1>2. \A i \in Reqs : export'[i] # Nil => export[i] # Nil
    BY <1>1 DEF Flushed, FlushReply, ReqTypes
  <1>3. f <= flushes /\ rflushes[f] = 0 /\ \A i \in Reqs : flushtag[i] # f
    BY <1>1 DEF AnswerInv, OwedByExport
  <1>4. \A d \in Exports : flush[d] = f => d = e
    BY <1>1 DEF AnswerInv, FlushesApart
  <1> HIDE DEF f
  <1>5. \A g \in Flushes : rflushes'[g] = IF g = f THEN 1 ELSE rflushes[g]
    BY <1>1, <1>3 DEF ReqTypes
  <1>6. \A d \in Exports : flush'[d] = IF d = e THEN Nil ELSE flush[d]
    BY <1>1 DEF ServerTypes
  <1>7. flushes \in Nat /\ f \in Nat /\ \A g \in Flushes : g \in Nat
    BY <1>1 DEF ReqTypes, Flushes
  <1>8. AnsweredOnce' /\ FreshFlushes'
    BY <1>1, <1>2, <1>3, <1>5, <1>7 DEF AnswerInv, AnsweredOnce, FreshFlushes
  <1>9. OwedByExport'
    BY <1>1, <1>4, <1>5, <1>6 DEF AnswerInv, OwedByExport, ServerTypes
  <1>10. OwedBySlave'
    BY <1>1, <1>2, <1>3, <1>5 DEF AnswerInv, OwedBySlave, ReqTypes
  <1>11. FlushesApart'
    BY <1>1, <1>6 DEF AnswerInv, FlushesApart
  <1> QED BY <1>8, <1>9, <1>10, <1>11 DEF AnswerInv

\* A slave answers its request, or the flush of it, or nothing.
LEMMA SlaveAnswers ==
  ASSUME ExportInv, AnswerInv, NEW s \in Slaves, SlaveReply(s)
  PROVE  AnswerInv'
  <1> DEFINE i == req[s]
  <1>1. /\ ReqTypes /\ ServerTypes /\ i \in Reqs /\ export[i] # Nil
        /\ UNCHANGED <<flush, flushtag, reqs, flushes>>
        /\ place' = [place EXCEPT ![s] = "qlock"]
        /\ \A j \in Reqs : export'[j] = IF j = i THEN Nil ELSE export[j]
    BY DEF ExportInv, SlaveReply, Free, SlaveHands, SlaveHand, ServerTypes
  <1>2. \A e \in Exports : place'[e] = place[e]
    BY <1>1 DEF ServerTypes
  <1>3. CASE UNCHANGED answers
    BY <1>1, <1>2, <1>3, SameAnswers
  <1>4. CASE replies' = [replies EXCEPT ![i] = @ + 1] /\ UNCHANGED rflushes
    <2>1. AnsweredOnce'
      BY <1>1, <1>4 DEF AnswerInv, AnsweredOnce, ReqTypes
    <2>2. FreshFlushes' /\ OwedByExport' /\ OwedBySlave' /\ FlushesApart'
      BY <1>1, <1>2, <1>4 DEF AnswerInv, FreshFlushes, OwedByExport, OwedBySlave, FlushesApart
    <2> QED BY <2>1, <2>2 DEF AnswerInv
  <1>5. CASE /\ flushtag[i] # Nil /\ UNCHANGED replies
             /\ rflushes' = [rflushes EXCEPT ![flushtag[i]] = @ + 1]
    <2> DEFINE f == flushtag[i]
    <2>1. /\ f \in Flushes /\ f \in Nat /\ f <= flushes /\ rflushes[f] = 0 /\ flushes \in Nat
          /\ \A j \in Reqs : flushtag[j] = f => j = i
      BY <1>1, <1>5 DEF AnswerInv, OwedBySlave, FlushesApart, ReqTypes, Flushes
    <2>2. \A g \in Flushes : rflushes'[g] = IF g = f THEN 1 ELSE rflushes[g]
      BY <1>1, <1>5, <2>1 DEF ReqTypes
    <2> HIDE DEF f
    <2>3. \A g \in Flushes : g \in Nat
      BY DEF Flushes
    <2>4. AnsweredOnce' /\ FreshFlushes'
      BY <1>1, <1>5, <2>1, <2>2, <2>3 DEF AnswerInv, AnsweredOnce, FreshFlushes
    <2>5. OwedByExport'
      BY <1>1, <1>2, <2>2 DEF AnswerInv, OwedByExport, ServerTypes, f
    <2>6. OwedBySlave'
      <3>1. ASSUME NEW j \in Reqs, flushtag[j] # Nil, export'[j] # Nil
            PROVE  rflushes'[flushtag[j]] = 0
        <4>1. j # i /\ export[j] # Nil /\ flushtag[j] \in Flushes /\ flushtag[j] # f
          BY <1>1, <2>1, <3>1 DEF ReqTypes
        <4> QED BY <2>2, <3>1, <4>1 DEF AnswerInv, OwedBySlave
      <3> QED BY <1>1, <3>1 DEF AnswerInv, OwedBySlave
    <2>7. FlushesApart'
      BY <1>1 DEF AnswerInv, FlushesApart
    <2> QED BY <2>4, <2>5, <2>6, <2>7 DEF AnswerInv
  <1> QED BY <1>3, <1>4, <1>5 DEF SlaveReply, Answered

\* Every step keeps what is owed apart from what is answered.
LEMMA NextAnswers == ExportInv /\ AnswerInv /\ [ExportNext]_exportVars => AnswerInv'
  <1> SUFFICES ASSUME ExportInv, AnswerInv, [ExportNext]_exportVars PROVE AnswerInv'
    OBVIOUS
  <1>0. ReqTypes /\ ServerTypes /\ ExqTypes /\ ExportHands
    BY DEF ExportInv
  <1>1. CASE UNCHANGED exportVars
    BY <1>1, SameAnswers DEF exportVars
  <1>2. ASSUME NEW e \in Exports, ReadEof(e) \/ Enqueue(e) \/ FlushQueue(e) \/ ShutFree(e)
        PROVE  AnswerInv'
    BY <1>0, <1>2, SameAnswers DEF ReadEof, Enqueue, FlushQueue, ShutFree, ServerTypes
  <1>3. ASSUME NEW e \in Exports, Spawn(e) \/ Wake(e)
        PROVE  AnswerInv'
    <2>1. /\ UNCHANGED <<replies, rflushes, flushtag, flush, flushes, reqs, export>>
          /\ flush[e] = Nil
      BY <1>0, <1>3 DEF Spawn, Wake, ExportHands, ExportHand, FlushPlaces
    <2>2. Spawn(e) /\ NeedSlave => NewSlave \in Slaves
      BY DEF Spawn, NewSlave, Unborn
    <2>3. \A d \in Exports : d # e => place'[d] = place[d]
      BY <1>0, <1>3, <2>2 DEF Spawn, Wake, ServerTypes, ExqTypes
    <2> QED BY <2>1, <2>3, SameAnswers
  <1>4. ASSUME NEW e \in Exports, ShutQueue(e) \/ ShutWork(e) \/ ShutSwi(e)
        PROVE  AnswerInv'
    <2>1. /\ UNCHANGED <<replies, rflushes, flushtag, flush, flushes, reqs>>
          /\ flush[e] = Nil
      BY <1>0, <1>4 DEF ShutQueue, ShutWork, ShutSwi, ExportHands, ExportHand, FlushPlaces
    <2>2. \A i \in Reqs : export'[i] # Nil => export[i] # Nil
      BY <1>4 DEF ShutQueue, ShutWork, ShutSwi, Free
    <2>3. \A d \in Exports : d # e => place'[d] = place[d]
      BY <1>0, <1>4 DEF ShutQueue, ShutWork, ShutSwi, Swiproc, ServerTypes
    <2> QED BY <2>1, <2>2, <2>3, SameAnswers
  <1>5. ASSUME NEW s \in Slaves, SlaveStep(s) \/ SlaveLeave(s), ~SlaveReply(s)
        PROVE  AnswerInv'
    <2>1. UNCHANGED <<replies, rflushes, flushtag, flush, flushes, reqs, export>>
      BY <1>5 DEF SlaveStep, SlaveLock, SlaveSleep, SlaveTake, SlaveUnlock, SlaveJoin,
                  SlaveLeave
    <2>2. qwait # <<>> => Head(qwait) \in Slaves
      BY <1>0 DEF ExqTypes
    <2>3. \A d \in Exports : place'[d] = place[d]
      BY <1>0, <1>5, <2>2 DEF SlaveStep, SlaveLock, SlaveSleep, SlaveTake, SlaveUnlock,
                              SlaveJoin, SlaveLeave, ServerTypes
    <2> QED BY <2>1, <2>3, SameAnswers
  <1> QED BY <1>1, <1>2, <1>3, <1>4, <1>5, ReadRequestAnswers, ReadFlushAnswers,
             FlushWorkAnswers, FlushSwiAnswers, ExportAnswers, SlaveAnswers
             DEF ExportNext, ExportStep, SlaveStep

(* A request is answered at most once, and is freed then; a flush too,     *)
(* though exportproc and a slave may both be about to answer it.           *)
THEOREM AnsweredOnceHolds == ExportSpec => []AnsweredOnce
  <1>1. ExportInit => AnswerInv
    BY DEF ExportInit, AnswerInv, AnsweredOnce, OwedByExport, OwedBySlave, FlushesApart,
           FreshFlushes, Flushes
  <1>2. AnswerInv => AnsweredOnce
    BY DEF AnswerInv
  <1> QED BY <1>1, <1>2, ExportInvHolds, NextAnswers, PTL DEF ExportSpec

-----------------------------------------------------------------------------
(* No request is lost, as long as exq.tail is the last of the queue when   *)
(* there is one: exflushed and exshutdown, which take requests out of the  *)
(* queue, leave exq.tail alone (exportfs.c:311, 346).                      *)
TailLast == exq # <<>> => Last(exq) = tail

(* On the queue, or in somebody's hand.                                    *)
Kept(i) ==
  \/ i \in ToSet(exq)
  \/ \E s \in Slaves : req[s] = i
  \/ \E e \in Exports : Owns(e) /\ req[e] = i

(* A request whose Exq has not been freed is somewhere.                    *)
NoneLost == \A i \in Reqs : export[i] # Nil => Kept(i)

\* A step that moves no request loses none.
LEMMA SameKept ==
  ASSUME NoneLost, UNCHANGED <<exq, export>>,
         \A s \in Slaves : req'[s] = req[s],
         \A e \in Exports : Owns(e) => Owns(e)' /\ req'[e] = req[e]
  PROVE  NoneLost'
  BY DEF NoneLost, Kept

\* A request that is read is in the hand of exportproc.
LEMMA ReadRequestKept ==
  ASSUME ExportInv, NoneLost, NEW e \in Exports, ReadRequest(e)
  PROVE  NoneLost'
  <1>1. /\ ReqTypes /\ ServerTypes /\ place[e] = "read" /\ UNCHANGED exq
        /\ export' = [export EXCEPT ![reqs + 1] = e] /\ req' = [req EXCEPT ![e] = reqs + 1]
        /\ place' = [place EXCEPT ![e] = "enqueue"]
    BY DEF ExportInv, ReadRequest
  <1> SUFFICES ASSUME NEW i \in Reqs, export'[i] # Nil PROVE Kept(i)'
    BY DEF NoneLost
  <1>2. CASE i = reqs + 1
    BY <1>1, <1>2 DEF Kept, Owns, ServerTypes
  <1>3. CASE i # reqs + 1
    <2>1. Kept(i)
      BY <1>1, <1>3 DEF NoneLost, ReqTypes
    <2> QED BY <1>1, <2>1 DEF Kept, Owns, ServerTypes
  <1> QED BY <1>2, <1>3

\* The one step that may lose a request.
LEMMA EnqueueKept ==
  ASSUME ExportInv, TailLast, NoneLost, NEW e \in Exports, Enqueue(e)
  PROVE  NoneLost'
  <1>1. /\ ExqTypes /\ ServerTypes /\ place[e] = "enqueue" /\ req[e] \in Reqs
        /\ exq' = Append(exq, req[e]) /\ UNCHANGED export /\ req' = [req EXCEPT ![e] = Nil]
        /\ place' = [place EXCEPT ![e] = "spawn"]
    BY DEF ExportInv, Enqueue, TailLast, ExportHands, ExportHand, ServerTypes
  <1>2. ToSet(exq') = ToSet(exq) \cup {req[e]}
    BY <1>1, AppendQueue DEF ExqTypes
  <1> SUFFICES ASSUME NEW i \in Reqs, export[i] # Nil PROVE Kept(i)'
    BY <1>1 DEF NoneLost
  <1>3. Kept(i)
    BY DEF NoneLost
  <1>4. CASE i \in ToSet(exq)
    BY <1>2, <1>4 DEF Kept
  <1>5. ASSUME NEW s \in Slaves, req[s] = i PROVE Kept(i)'
    BY <1>1, <1>5 DEF Kept, ServerTypes
  <1>6. ASSUME NEW d \in Exports, Owns(d), req[d] = i PROVE Kept(i)'
    <2>1. CASE d = e
      BY <1>2, <1>6, <2>1 DEF Kept
    <2>2. CASE d # e
      BY <1>1, <1>6, <2>2 DEF Kept, Owns, ServerTypes
    <2> QED BY <2>1, <2>2
  <1> QED BY <1>3, <1>4, <1>5, <1>6 DEF Kept

\* What exflushed unlinks it has in hand, and the rest stays queued.
LEMMA FlushQueueKept ==
  ASSUME ExportInv, NoneLost, NEW e \in Exports, FlushQueue(e)
  PROVE  NoneLost'
  <1>1. ServerTypes /\ place[e] = "flushqueue" /\ UNCHANGED <<export, req>>
    BY DEF ExportInv, FlushQueue
  <1>2. CASE req[e] \in ToSet(exq) /\ export[req[e]] = e
    <2>1. /\ exq' = RemoveFirst(exq, req[e]) /\ place' = [place EXCEPT ![e] = "flushed"]
      BY <1>2 DEF FlushQueue
    <2>2. ToSet(exq') = ToSet(exq) \ {req[e]}
      BY <2>1, RemoveQueue DEF ExportInv, ExqTypes, QueueHands
    <2>3. Owns(e)' /\ \A d \in Exports : Owns(d) => Owns(d)'
      BY <1>1, <2>1 DEF Owns, ServerTypes
    <2> QED BY <1>1, <2>2, <2>3 DEF NoneLost, Kept
  <1>3. CASE ~(req[e] \in ToSet(exq) /\ export[req[e]] = e)
    <2>1. UNCHANGED exq /\ place' = [place EXCEPT ![e] = "flushwork"]
      BY <1>3 DEF FlushQueue
    <2>2. \A d \in Exports : Owns(d) => Owns(d)'
      BY <1>1, <2>1 DEF Owns, ServerTypes
    <2> QED BY <1>1, <2>1, <2>2, SameKept
  <1> QED BY <1>2, <1>3

\* The only request that goes is the one that is freed.
LEMMA FlushedKept ==
  ASSUME ExportInv, NoneLost, NEW e \in Exports, Flushed(e)
  PROVE  NoneLost'
  <1>1. /\ ReqTypes /\ ServerTypes /\ UNCHANGED exq /\ req[e] \in Reqs
        /\ export' = [export EXCEPT ![req[e]] = Nil] /\ req' = [req EXCEPT ![e] = Nil]
        /\ place' = [place EXCEPT ![e] = "read"]
    BY DEF ExportInv, Flushed, FlushEnd, ExportHands, ExportHand, FlushPlaces, ServerTypes
  <1> SUFFICES ASSUME NEW i \in Reqs, export'[i] # Nil PROVE Kept(i)'
    BY DEF NoneLost
  <1>2. i # req[e] /\ Kept(i)
    BY <1>1 DEF NoneLost, ReqTypes
  <1> QED BY <1>1, <1>2 DEF Kept, Owns, ServerTypes

\* What exshutdown unlinks it frees.
LEMMA ShutQueueKeeps ==
  ASSUME ExportInv, NoneLost, NEW e \in Exports, ShutQueue(e)
  PROVE  NoneLost'
  <1>1. /\ ServerTypes /\ UNCHANGED req /\ place' = [place EXCEPT ![e] = "shutwork"]
        /\ \A i \in Reqs : export'[i] = IF i \in Queued(e) THEN Nil ELSE export[i]
        /\ place[e] = "shutqueue" /\ exq' \in Unlinked(e) /\ exq \in Seq(Reqs)
    BY DEF ExportInv, ShutQueue, Free, ExqTypes
  <1>2. ToSet(exq') = ToSet(exq) \ Queued(e)
    BY <1>1, UnlinkQueue
  <1>3. \A d \in Exports : Owns(d) => Owns(d)'
    BY <1>1 DEF Owns, ServerTypes
  <1> QED BY <1>1, <1>2, <1>3 DEF NoneLost, Kept

\* What a slave takes from the queue it has in hand.
LEMMA SlaveTakeKept ==
  ASSUME ExportInv, NoneLost, NEW s \in Slaves, SlaveTake(s)
  PROVE  NoneLost'
  <1>1. /\ ExqTypes /\ ServerTypes /\ UNCHANGED export /\ req[s] = Nil
        /\ place' = [place EXCEPT ![s] = "qunlock"]
    BY DEF ExportInv, SlaveTake, SlaveHands, SlaveHand
  <1>2. \A d \in Exports : place'[d] = place[d]
    BY <1>1 DEF ServerTypes
  <1>3. CASE exq = <<>>
    <2>1. UNCHANGED <<exq, req>>
      BY <1>3 DEF SlaveTake
    <2> QED BY <1>1, <1>2, <2>1, SameKept DEF Owns
  <1>4. CASE exq # <<>>
    <2>1. exq' = Tail(exq) /\ req' = [req EXCEPT ![s] = Head(exq)]
      BY <1>4 DEF SlaveTake
    <2>2. ToSet(exq) = ToSet(exq') \cup {Head(exq)}
      BY <1>1, <1>4, <2>1, TailQueue DEF ExqTypes
    <2> SUFFICES ASSUME NEW i \in Reqs, export[i] # Nil PROVE Kept(i)'
      BY <1>1 DEF NoneLost
    <2>3. Kept(i) /\ i # Nil
      BY DEF NoneLost, Reqs
    <2>4. CASE i = Head(exq)
      BY <1>1, <2>1, <2>4 DEF Kept, ServerTypes
    <2>5. CASE i # Head(exq)
      BY <1>1, <1>2, <2>1, <2>2, <2>3, <2>5 DEF Kept, Owns, ServerTypes
    <2> QED BY <2>4, <2>5
  <1> QED BY <1>3, <1>4

\* The request a slave has answered is freed.
LEMMA SlaveReplyKept ==
  ASSUME ExportInv, NoneLost, NEW s \in Slaves, SlaveReply(s)
  PROVE  NoneLost'
  <1>1. /\ ServerTypes /\ UNCHANGED exq /\ place' = [place EXCEPT ![s] = "qlock"]
        /\ \A j \in Reqs : export'[j] = IF j = req[s] THEN Nil ELSE export[j]
        /\ req' = [req EXCEPT ![s] = Nil]
    BY DEF ExportInv, SlaveReply, Free
  <1> SUFFICES ASSUME NEW i \in Reqs, export'[i] # Nil PROVE Kept(i)'
    BY DEF NoneLost
  <1>2. i # req[s] /\ Kept(i)
    BY <1>1 DEF NoneLost
  <1> QED BY <1>1, <1>2 DEF Kept, Owns, ServerTypes

\* Every step that finds exq.tail at the end of the queue loses no request.
LEMMA NextKept == ExportInv /\ TailLast /\ NoneLost /\ [ExportNext]_exportVars => NoneLost'
  <1> SUFFICES ASSUME ExportInv, TailLast, NoneLost, [ExportNext]_exportVars PROVE NoneLost'
    OBVIOUS
  <1>0. ServerTypes /\ ExqTypes
    BY DEF ExportInv
  <1>1. CASE UNCHANGED exportVars
    BY <1>1, SameKept DEF exportVars, Owns
  <1>2. ASSUME NEW e \in Exports,
               \/ ReadFlush(e) \/ ReadEof(e) \/ FlushWork(e) \/ FlushReply(e)
               \/ ShutWork(e) \/ ShutFree(e)
        PROVE  NoneLost'
    <2>1. UNCHANGED <<exq, export>> /\ ~Owns(e)
      BY <1>2 DEF ReadFlush, ReadEof, FlushWork, FlushReply, FlushEnd, ShutWork, ShutFree, Owns
    <2>2. \A p \in Servers : p # e => req'[p] = req[p] /\ place'[p] = place[p]
      BY <1>0, <1>2 DEF ReadFlush, ReadEof, FlushWork, FlushReply, FlushEnd, ShutWork,
                        ShutFree, ServerTypes
    <2> QED BY <2>1, <2>2, SameKept DEF Owns
  <1>3. ASSUME NEW e \in Exports, Spawn(e) \/ Wake(e) \/ FlushSwi(e) \/ ShutSwi(e)
        PROVE  NoneLost'
    <2>1. UNCHANGED <<exq, export>> /\ ~Owns(e)
      BY <1>3 DEF Spawn, Wake, FlushSwi, FlushEnd, ShutSwi, Owns
    <2>2. \A p \in Servers : p # e => req'[p] = req[p]
      BY <1>0, <1>3 DEF Spawn, Wake, FlushSwi, FlushEnd, ShutSwi, ServerTypes
    <2>3. NeedSlave /\ Spawn(e) => NewSlave \in Slaves
      BY DEF Spawn, NewSlave, Unborn
    <2>4. FlushSwi(e) \/ ShutSwi(e) => target[e] \in Slaves
      BY <1>0 DEF FlushSwi, ShutSwi, ServerTypes
    <2>5. \A d \in Exports : d # e => place'[d] = place[d]
      BY <1>0, <1>3, <2>3, <2>4 DEF Spawn, Wake, FlushSwi, ShutSwi, Swiproc, ServerTypes,
                                    ExqTypes
    <2> QED BY <2>1, <2>2, <2>5, SameKept DEF Owns
  <1>4. ASSUME NEW s \in Slaves,
               \/ SlaveLock(s) \/ SlaveSleep(s) \/ SlaveUnlock(s) \/ SlaveJoin(s)
               \/ SlaveLeave(s)
        PROVE  NoneLost'
    <2>1. UNCHANGED <<exq, export, req>>
      BY <1>4 DEF SlaveLock, SlaveSleep, SlaveUnlock, SlaveJoin, SlaveLeave
    <2>2. qwait # <<>> => Head(qwait) \in Slaves
      BY <1>0 DEF ExqTypes
    <2>3. \A d \in Exports : place'[d] = place[d]
      BY <1>0, <1>4, <2>2 DEF SlaveLock, SlaveSleep, SlaveUnlock, SlaveJoin, SlaveLeave,
                              ServerTypes
    <2> QED BY <2>1, <2>3, SameKept DEF Owns
  <1> QED BY <1>1, <1>2, <1>3, <1>4, ReadRequestKept, EnqueueKept, FlushQueueKept, FlushedKept,
             ShutQueueKeeps, SlaveTakeKept, SlaveReplyKept
             DEF ExportNext, ExportStep, SlaveStep

\* In one place: who has a request, and where in the queue it is.
LEMMA InOnePlace ==
  ASSUME ExportInv, NEW i \in Reqs, export[i] # Nil, Kept(i)
  PROVE  Cardinality(Held(i)) + Cardinality({k \in DOMAIN exq : exq[k] = i}) = 1
  <1> DEFINE at == {k \in DOMAIN exq : exq[k] = i}
  <1>0. /\ ServerTypes /\ SlaveHands /\ ExportHands /\ QueueHands /\ i # Nil
    BY DEF ExportInv, Reqs
  <1>1. \A p \in Servers : p \in Held(i) <=> req[p] = i /\ (p \in Slaves \/ Owns(p))
    BY DEF Held, Owns
  <1>2. Cardinality({}) = 0 /\ \A x : Cardinality({x}) = 1
    BY FS_EmptySet, FS_Singleton
  <1>3. ASSUME i \in ToSet(exq) PROVE Cardinality(Held(i)) + Cardinality(at) = 1
    <2>1. Held(i) = {}
      BY <1>0, <1>1, <1>3 DEF Held, QueueHands, ExportHands, ExportHand
    <2>2. PICK k \in DOMAIN exq : exq[k] = i
      BY <1>3 DEF ToSet
    <2>3. at = {k}
      BY <1>0, <2>2 DEF QueueHands, IsInjective
    <2>4. Cardinality(at) = 1
      BY <1>2, <2>3
    <2>5. Cardinality(Held(i)) = 0
      BY <1>2, <2>1
    <2> QED BY <2>4, <2>5
  <1>4. ASSUME i \notin ToSet(exq) PROVE Cardinality(Held(i)) + Cardinality(at) = 1
    <2>1. at = {}
      BY <1>4 DEF ToSet
    <2>2. \E p : Held(i) = {p}
      <3>1. ASSUME NEW s \in Slaves, req[s] = i PROVE Held(i) = {s}
        <4>1. \A x \in Slaves : req[x] = i => x = s
          BY <1>0, <3>1 DEF SlaveHands, SlaveHand
        <4>2. \A e \in Exports : Owns(e) => req[e] # i
          BY <1>0, <3>1 DEF ExportHands, ExportHand
        <4> QED BY <1>1, <3>1, <4>1, <4>2 DEF Held
      <3>2. ASSUME NEW e \in Exports, Owns(e), req[e] = i PROVE Held(i) = {e}
        <4>1. \A x \in Slaves : req[x] # i
          BY <1>0, <3>2 DEF ExportHands, ExportHand
        <4>2. \A d \in Exports : Owns(d) /\ req[d] = i => d = e
          BY <1>0, <3>2 DEF ExportHands, ExportHand
        <4> QED BY <1>1, <3>2, <4>1, <4>2 DEF Held
      <3> QED BY <1>4, <3>1, <3>2 DEF Kept
    <2>3. PICK p : Held(i) = {p}
      BY <2>2
    <2>4. Cardinality(at) = 0
      BY <1>2, <2>1
    <2>5. Cardinality(Held(i)) = 1
      BY <1>2, <2>3
    <2> QED BY <2>4, <2>5
  <1>5. Cardinality(Held(i)) + Cardinality(at) = 1
    BY <1>3, <1>4
  <1> QED BY <1>5

(* A request that exportproc has read and that nobody has answered or      *)
(* discarded is on the queue or in the hand of one process, and never in   *)
(* two places, as long as exq.tail is the last of the queue.               *)
THEOREM RequestKeptHolds == ExportSpec /\ []TailLast => []RequestKept
  <1>1. ExportInit => NoneLost
    BY DEF ExportInit, NoneLost
  <1>2. ExportInv /\ NoneLost /\ AnsweredOnce => RequestKept
    BY InOnePlace DEF NoneLost, RequestKept
  <1> QED BY <1>1, <1>2, ExportInvHolds, AnsweredOnceHolds, NextKept, PTL DEF ExportSpec

=============================================================================
