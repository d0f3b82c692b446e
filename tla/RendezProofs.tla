---------------------------- MODULE RendezProofs ----------------------------
(***************************************************************************)
(* Type correctness and the safety of Sleep, Wakeup and swiproc, for any   *)
(* processes and Rendezes.  The invariant says, of each process in Sleep,  *)
(* which of Proc.r, Rendez.p and Rendez.l name it, and, of each process in *)
(* a call of the host, how far its interruption is.                        *)
(***************************************************************************)
EXTENDS Rendez, TLAPS, FiniteSetTheorems

Others == Wakers \cup Killers

SleepPC == {"sleep", "rendez", "woken"}
HostPC  == {"host", "leave", "spin"}
SwiPC   == {"swiproc", "swilock", "swihost", "kill"}

\* Where a process of each kind can be, and what it has in hand there.
PlaceInv ==
  /\ \A p \in Users :
       /\ pc[p] \in {"idle"} \cup SleepPC \cup HostPC
       /\ pc[p] \in SleepPC <=> arg[p] # None
       /\ pc[p] \in SleepPC => p \in Sleepers
  /\ \A p, q \in Sleepers : arg[p] # None /\ arg[p] = arg[q] => p = q
  /\ \A w \in Others :
       /\ pc[w] \notin SleepPC \cup HostPC
       /\ pc[w] = "wakeup" => w \in Wakers
       /\ pc[w] \in SwiPC => w \in Killers
       /\ pc[w] \in {"wakeup", "meet", "swilock"} => arg[w] # None
       /\ pc[w] \in {"meet"} \cup SwiPC => tgt[w] # None

\* A process that has announced itself in Proc.r is in Sleep; who has taken it
\* has cleared Proc.r and holds the lock of its Rendez until they meet.
TakenInv ==
  /\ \A p \in Users :
       /\ pr[p] # None => pr[p] = arg[p] /\ pc[p] \in {"sleep", "rendez"}
       /\ pc[p] \in {"sleep", "rendez"} /\ pr[p] = None =>
            \E w \in Others : Meeting(w, p)
  /\ \A w \in Others : \A p \in Users : Meeting(w, p) =>
       /\ arg[w] = arg[p] /\ pr[p] = None
       /\ pc[p] \in {"sleep", "rendez"}
  /\ \A r \in Rendezes :
       /\ \A p \in Users : rp[r] = p <=> pc[p] = "rendez" /\ arg[p] = r /\ pr[p] = r
       /\ \A w \in Others : lk[r] = w <=> pc[w] = "meet" /\ arg[w] = r

\* swipend is set only where it will be looked at; a signal, or a process that
\* is about to send one, has set intwait, and there is one of these at most.
Heeds(p) ==
  \/ pc[p] \in {"rendez", "woken", "host", "leave"}
  \/ pc[p] = "sleep" /\ pr[p] = None

IntrInv ==
  \A p \in Users :
    /\ swipend[p] => Heeds(p)
    /\ intwait[p] => pc[p] \in HostPC
    /\ intwait[p] /\ pc[p] \in {"host", "leave"} => swipend[p]
    /\ intwait[p] /\ pc[p] = "spin" => eintr[p]
    /\ sig[p] => intwait[p] /\ \A k \in Killers : ~(pc[k] = "kill" /\ tgt[k] = p)
    /\ \A k \in Killers : pc[k] = "kill" /\ tgt[k] = p => intwait[p]
    /\ \A j, k \in Killers : pc[j] = "kill" /\ pc[k] = "kill" /\ tgt[j] = p /\ tgt[k] = p => j = k

IInv == TypeOK /\ PlaceInv /\ TakenInv /\ IntrInv

-----------------------------------------------------------------------------
USE ProcsAssumption DEF Users, Procs, Others, Meeting

\* Nobody sleeps at first.
LEMMA InitIInv == Init => IInv
  <1> SUFFICES ASSUME Init PROVE IInv
    OBVIOUS
  <1> USE DEF Init
  <1>1. TypeOK
    BY DEF TypeOK, PC
  <1>2. PlaceInv /\ TakenInv /\ IntrInv
    BY DEF PlaceInv, TakenInv, IntrInv, SleepPC, HostPC, SwiPC
  <1> QED BY <1>1, <1>2 DEF IInv

\* What the invariant says of one process's interruption.
LEMMA IntrOf ==
  ASSUME IntrInv, NEW x \in Users
  PROVE  /\ swipend[x] => Heeds(x)
         /\ intwait[x] => pc[x] \in HostPC
         /\ intwait[x] /\ pc[x] \in {"host", "leave"} => swipend[x]
         /\ intwait[x] /\ pc[x] = "spin" => eintr[x]
         /\ sig[x] => intwait[x] /\ \A k \in Killers : ~(pc[k] = "kill" /\ tgt[k] = x)
         /\ \A k \in Killers : pc[k] = "kill" /\ tgt[k] = x => intwait[x]
         /\ \A j, k \in Killers :
              pc[j] = "kill" /\ pc[k] = "kill" /\ tgt[j] = x /\ tgt[k] = x => j = k
  BY DEF IntrInv

\* What happens to a process that is not in a call of the host leaves the
\* interruptions of such calls alone.
LEMMA IntrKept ==
  ASSUME IntrInv, UNCHANGED <<intwait, sig, eintr>>,
         \A k \in Killers : /\ pc[k] = "kill" <=> pc'[k] = "kill"
                            /\ pc[k] = "kill" => tgt'[k] = tgt[k],
         \A x \in Users :
           \/ pc'[x] = pc[x] /\ swipend'[x] = swipend[x] /\ (Heeds(x) => Heeds(x)')
           \/ pc[x] \notin HostPC /\ (swipend'[x] => Heeds(x)')
  PROVE  IntrInv'
  <1>1. ASSUME NEW x \in Users
        PROVE  /\ swipend'[x] => Heeds(x)'
               /\ intwait[x] => pc'[x] \in HostPC
               /\ intwait[x] /\ pc'[x] \in {"host", "leave"} => swipend'[x]
               /\ intwait[x] /\ pc'[x] = "spin" => eintr[x]
    BY DEF IntrInv
  <1>2. ASSUME NEW x \in Users
        PROVE  /\ sig[x] => intwait[x] /\ \A k \in Killers : ~(pc'[k] = "kill" /\ tgt'[k] = x)
               /\ \A k \in Killers : pc'[k] = "kill" /\ tgt'[k] = x => intwait[x]
               /\ \A j, k \in Killers :
                    pc'[j] = "kill" /\ pc'[k] = "kill" /\ tgt'[j] = x /\ tgt'[k] = x => j = k
    BY DEF IntrInv
  <1> QED BY <1>1, <1>2 DEF IntrInv

\* Sleep announces the process ...
LEMMA SleepStartInv ==
  ASSUME IInv, NEW p \in Users, NEW r \in Rendezes, SleepStart(p, r)
  PROVE  IInv'
  <1>0. TypeOK /\ PlaceInv /\ TakenInv /\ IntrInv
    BY DEF IInv
  <1>1. /\ pc[p] = "idle" /\ p \in Sleepers /\ \A q \in Sleepers : arg[q] # r
        /\ \A x \in Procs : arg'[x] = IF x = p THEN r ELSE arg[x]
        /\ \A x \in Users : pr'[x] = IF x = p THEN r ELSE pr[x]
        /\ \A x \in Procs : pc'[x] = IF x = p THEN "sleep" ELSE pc[x]
        /\ UNCHANGED <<rp, lk, cond, swipend, tgt, syscall, intwait, sig, eintr>>
    BY <1>0 DEF SleepStart, Goto, TypeOK, hostVars
  <1>2. TypeOK'
    BY <1>0, <1>1 DEF SleepStart, Goto, TypeOK, PC
  <1>3. PlaceInv'
    BY <1>0, <1>1 DEF PlaceInv, SleepPC, HostPC, SwiPC
  <1>4. TakenInv'
    BY <1>0, <1>1 DEF TakenInv, PlaceInv
  <1>5. IntrInv'
    <2>1. ~swipend[p]
      BY <1>0, <1>1 DEF IntrInv, Heeds
    <2> QED BY <1>0, <1>1, <2>1, IntrKept DEF Heeds, HostPC
  <1> QED BY <1>2, <1>3, <1>4, <1>5 DEF IInv

\* ... and need not sleep ...
LEMMA SleepReadyInv ==
  ASSUME IInv, NEW p \in Users, SleepReady(p)
  PROVE  IInv'
  <1>0. TypeOK /\ PlaceInv /\ TakenInv /\ IntrInv
    BY DEF IInv
  <1>1. /\ pc[p] = "sleep" /\ arg[p] \in Rendezes /\ p \in Sleepers
        /\ lk[arg[p]] = None /\ pr[p] = arg[p]
    BY <1>0 DEF SleepReady, TypeOK, PlaceInv, TakenInv, SleepPC
  <1>2. /\ \A x \in Procs : arg'[x] = IF x = p THEN None ELSE arg[x]
        /\ \A x \in Users : pr'[x] = IF x = p THEN None ELSE pr[x]
        /\ \A x \in Procs : pc'[x] = IF x = p THEN "idle" ELSE pc[x]
        /\ UNCHANGED <<rp, lk, swipend, tgt, syscall, intwait, sig, eintr>>
    BY <1>0 DEF SleepReady, Goto, TypeOK, hostVars
  <1>3. TypeOK'
    BY <1>0, <1>1, <1>2 DEF SleepReady, Goto, TypeOK, PC
  <1>4. PlaceInv'
    BY <1>0, <1>1, <1>2 DEF PlaceInv, SleepPC, HostPC, SwiPC
  <1>5. TakenInv'
    BY <1>0, <1>1, <1>2 DEF TakenInv, PlaceInv
  <1>6. IntrInv'
    <2>1. ~swipend[p]
      BY <1>0, <1>1 DEF IntrInv, Heeds, TypeOK
    <2> QED BY <1>0, <1>1, <1>2, <2>1, IntrKept DEF Heeds, HostPC
  <1> QED BY <1>3, <1>4, <1>5, <1>6 DEF IInv

\* ... or lists it in the Rendez, where nobody else is ...
LEMMA SleepWaitInv ==
  ASSUME IInv, NEW p \in Users, SleepWait(p)
  PROVE  IInv'
  <1>0. TypeOK /\ PlaceInv /\ TakenInv /\ IntrInv
    BY DEF IInv
  <1>1. /\ pc[p] = "sleep" /\ arg[p] \in Rendezes /\ p \in Sleepers
        /\ lk[arg[p]] = None /\ pr[p] = arg[p]
        /\ \A x \in Users : arg[x] = arg[p] => x = p
    BY <1>0 DEF SleepWait, TypeOK, PlaceInv, TakenInv, SleepPC
  <1>2. /\ \A x \in Users : swipend'[x] = IF x = p THEN FALSE ELSE swipend[x]
        /\ \A r \in Rendezes : rp'[r] = IF r = arg[p] THEN p ELSE rp[r]
        /\ \A x \in Procs : pc'[x] = IF x = p THEN "rendez" ELSE pc[x]
        /\ UNCHANGED <<lk, cond, pr, arg, tgt, syscall, intwait, sig, eintr>>
    BY <1>0, <1>1 DEF SleepWait, Goto, TypeOK, hostVars
  <1>3. TypeOK'
    BY <1>0, <1>1, <1>2 DEF SleepWait, Goto, TypeOK, PC
  <1>4. PlaceInv'
    BY <1>0, <1>1, <1>2 DEF PlaceInv, SleepPC, HostPC, SwiPC
  <1>5. TakenInv'
    BY <1>0, <1>1, <1>2 DEF TakenInv, PlaceInv
  <1>6. IntrInv'
    BY <1>0, <1>1, <1>2, IntrKept DEF Heeds, HostPC
  <1> QED BY <1>3, <1>4, <1>5, <1>6 DEF IInv

\* ... until it returns.
LEMMA SleepReturnInv ==
  ASSUME IInv, NEW p \in Users, SleepReturn(p)
  PROVE  IInv'
  <1>0. TypeOK /\ PlaceInv /\ TakenInv /\ IntrInv
    BY DEF IInv
  <1>1. /\ pc[p] = "woken" /\ arg[p] \in Rendezes
        /\ pr[p] = None
    BY <1>0 DEF SleepReturn, TypeOK, PlaceInv, TakenInv, SleepPC
  <1>2. /\ \A x \in Users : swipend'[x] = IF x = p THEN FALSE ELSE swipend[x]
        /\ \A x \in Procs : arg'[x] = IF x = p THEN None ELSE arg[x]
        /\ \A x \in Procs : pc'[x] = IF x = p THEN "idle" ELSE pc[x]
        /\ UNCHANGED <<rp, lk, pr, tgt, syscall, intwait, sig, eintr>>
    BY <1>0, <1>1 DEF SleepReturn, Goto, TypeOK, hostVars
  <1>3. TypeOK'
    <2>1. cond' \in [Rendezes -> BOOLEAN]
      BY <1>0 DEF SleepReturn, TypeOK
    <2> QED BY <1>0, <1>1, <1>2, <2>1 DEF SleepReturn, Goto, TypeOK, PC
  <1>4. PlaceInv'
    BY <1>0, <1>1, <1>2 DEF PlaceInv, SleepPC, HostPC, SwiPC
  <1>5. TakenInv'
    BY <1>0, <1>1, <1>2 DEF TakenInv, PlaceInv
  <1>6. IntrInv'
    BY <1>0, <1>1, <1>2, IntrKept DEF Heeds, HostPC
  <1> QED BY <1>3, <1>4, <1>5, <1>6 DEF IInv

\* An event occurs.
LEMMA EventInv ==
  ASSUME IInv, NEW w \in Wakers, NEW r \in Rendezes, Event(w, r)
  PROVE  IInv'
  <1>0. TypeOK /\ PlaceInv /\ TakenInv /\ IntrInv
    BY DEF IInv
  <1>1. /\ pc[w] = "idle" /\ w \notin Users /\ w \notin Killers
        /\ \A x \in Procs : arg'[x] = IF x = w THEN r ELSE arg[x]
        /\ \A x \in Procs : pc'[x] = IF x = w THEN "wakeup" ELSE pc[x]
        /\ UNCHANGED <<rp, lk, pr, swipend, tgt, syscall, intwait, sig, eintr>>
    BY <1>0 DEF Event, Goto, TypeOK, hostVars
  <1>2. TypeOK'
    BY <1>0, <1>1 DEF Event, Goto, TypeOK, PC
  <1>3. PlaceInv'
    BY <1>0, <1>1 DEF PlaceInv, SleepPC, HostPC, SwiPC
  <1>4. TakenInv'
    BY <1>0, <1>1 DEF TakenInv
  <1>5. IntrInv'
    BY <1>0, <1>1, IntrKept DEF Heeds, HostPC
  <1> QED BY <1>2, <1>3, <1>4, <1>5 DEF IInv

\* Wakeup takes the sleeper.
LEMMA WakeupInv ==
  ASSUME IInv, NEW w \in Wakers, Wakeup(w)
  PROVE  IInv'
  <1>0. TypeOK /\ PlaceInv /\ TakenInv /\ IntrInv
    BY DEF IInv
  <1> DEFINE r == arg[w]
             p == rp[r]
  <1>1. pc[w] = "wakeup" /\ r \in Rendezes /\ lk[r] = None /\ w \notin Users /\ w \notin Killers
    BY <1>0 DEF Wakeup, TypeOK, PlaceInv
  <1>2. CASE p = None
    <2>1. /\ \A x \in Procs : arg'[x] = IF x = w THEN None ELSE arg[x]
          /\ \A x \in Procs : pc'[x] = IF x = w THEN "idle" ELSE pc[x]
          /\ UNCHANGED <<rp, lk, cond, pr, swipend, tgt, syscall, intwait, sig, eintr>>
      BY <1>0, <1>2 DEF Wakeup, Goto, TypeOK, hostVars
    <2>2. TypeOK'
      BY <1>0, <1>1, <1>2, <2>1 DEF Wakeup, Goto, TypeOK, PC
    <2>3. PlaceInv'
      BY <1>0, <1>1, <2>1 DEF PlaceInv, SleepPC, HostPC, SwiPC
    <2>4. TakenInv'
      BY <1>0, <1>1, <2>1 DEF TakenInv
    <2>5. IntrInv'
      BY <1>0, <1>1, <2>1, IntrKept DEF Heeds, HostPC
    <2> QED BY <2>2, <2>3, <2>4, <2>5 DEF IInv
  <1>3. CASE p # None
    <2>1. p \in Sleepers /\ pc[p] = "rendez" /\ arg[p] = r /\ pr[p] = r
      BY <1>0, <1>1, <1>3 DEF TypeOK, TakenInv
    <2>2. \A x \in Users : arg[x] = r => x = p
      BY <1>0, <1>1, <2>1 DEF PlaceInv
    <2>3. UNCHANGED <<cond, arg, swipend, syscall, intwait, sig, eintr>>
      BY <1>3 DEF Wakeup, hostVars
    <2> HIDE DEF p, r
    <2>4. /\ \A x \in Rendezes : rp'[x] = IF x = r THEN None ELSE rp[x]
          /\ \A x \in Rendezes : lk'[x] = IF x = r THEN w ELSE lk[x]
          /\ \A x \in Users : pr'[x] = IF x = p THEN None ELSE pr[x]
          /\ \A x \in Procs : tgt'[x] = IF x = w THEN p ELSE tgt[x]
          /\ \A x \in Procs : pc'[x] = IF x = w THEN "meet" ELSE pc[x]
      BY <1>0, <1>1, <1>3, <2>1 DEF Wakeup, Goto, TypeOK, p, r
    <2>5. TypeOK'
      BY <1>0, <1>1, <1>3, <2>1, <2>3, <2>4 DEF Wakeup, Goto, TypeOK, PC, p, r
    <2>6. PlaceInv'
      BY <1>0, <1>1, <2>1, <2>3, <2>4 DEF PlaceInv, SleepPC, HostPC, SwiPC, r
    <2>7. TakenInv'
      BY <1>0, <1>1, <2>1, <2>2, <2>3, <2>4 DEF TakenInv, r
    <2>8. IntrInv'
      BY <1>0, <1>1, <2>1, <2>3, <2>4, IntrKept DEF Heeds, HostPC
    <2> QED BY <2>5, <2>6, <2>7, <2>8 DEF IInv
  <1> QED BY <1>2, <1>3

\* They meet, and the lock of the Rendez is unlocked.
LEMMA MeetInv ==
  ASSUME IInv, NEW w \in Others, Meet(w)
  PROVE  IInv'
  <1>0. TypeOK /\ PlaceInv /\ TakenInv /\ IntrInv
    BY DEF IInv
  <1> DEFINE p == tgt[w]
             r == arg[w]
  <1>1. pc[w] = "meet" /\ pc[p] = "rendez" /\ p \in Users /\ w \notin Users
    BY <1>0 DEF Meet, TypeOK, PlaceInv
  <1>2. r \in Rendezes /\ arg[p] = r /\ pr[p] = None /\ lk[r] = w
    BY <1>0, <1>1 DEF TypeOK, PlaceInv, TakenInv
  <1>3. \A x \in Others : pc[x] = "meet" /\ arg[x] = r => x = w
    BY <1>0, <1>2 DEF TakenInv
  <1> HIDE DEF p, r
  <1>4. /\ \A x \in Rendezes : lk'[x] = IF x = r THEN None ELSE lk[x]
        /\ \A x \in Procs : arg'[x] = IF x = w THEN None ELSE arg[x]
        /\ \A x \in Procs : tgt'[x] = IF x = w THEN None ELSE tgt[x]
        /\ \A x \in Procs : pc'[x] = IF x = p THEN "woken" ELSE IF x = w THEN "idle" ELSE pc[x]
        /\ UNCHANGED <<rp, cond, pr, swipend, syscall, intwait, sig, eintr>>
    BY <1>0, <1>1 DEF Meet, TypeOK, hostVars, p, r
  <1>5. TypeOK'
    BY <1>0, <1>1, <1>2, <1>4 DEF Meet, TypeOK, PC, p, r
  <1>6. PlaceInv'
    BY <1>0, <1>1, <1>2, <1>4 DEF PlaceInv, SleepPC, HostPC, SwiPC
  <1>7. TakenInv'
    BY <1>0, <1>1, <1>2, <1>3, <1>4 DEF TakenInv, r
  <1>8. IntrInv'
    BY <1>0, <1>1, <1>4, IntrKept DEF Heeds, HostPC
  <1> QED BY <1>5, <1>6, <1>7, <1>8 DEF IInv

-----------------------------------------------------------------------------
\* swiproc begins, and reads Proc.r without a lock.
LEMMA SwiReadInv ==
  ASSUME IInv, NEW k \in Killers, SwiRead(k) \/ \E p \in Users : SwiStart(k, p)
  PROVE  IInv'
  <1>0. TypeOK /\ PlaceInv /\ TakenInv /\ IntrInv
    BY DEF IInv
  <1>1. CASE SwiRead(k)
    <2> DEFINE r == pr[tgt[k]]
    <2>1. pc[k] = "swiproc" /\ r \in Rendezes \cup {None} /\ tgt[k] \in Users /\ k \notin Users
      BY <1>0, <1>1 DEF SwiRead, TypeOK, PlaceInv, SwiPC
    <2> HIDE DEF r
    <2>2. /\ \A x \in Procs : arg'[x] = IF x = k THEN r ELSE arg[x]
          /\ \A x \in Procs : pc'[x] = IF x = k THEN IF r = None THEN "swihost" ELSE "swilock" ELSE pc[x]
          /\ UNCHANGED <<rp, lk, cond, pr, swipend, tgt, syscall, intwait, sig, eintr>>
      BY <1>0, <1>1 DEF SwiRead, Goto, TypeOK, rendezVars, hostVars, r
    <2>3. TypeOK'
      BY <1>0, <1>1, <2>1, <2>2 DEF SwiRead, Goto, TypeOK, PC, r
    <2>4. PlaceInv'
      BY <1>0, <2>1, <2>2 DEF PlaceInv, SleepPC, HostPC, SwiPC
    <2>5. TakenInv'
      BY <1>0, <2>1, <2>2 DEF TakenInv
    <2>6. IntrInv'
      BY <1>0, <2>1, <2>2, IntrKept DEF Heeds, HostPC
    <2> QED BY <2>3, <2>4, <2>5, <2>6 DEF IInv
  <1>2. ASSUME NEW p \in Users, SwiStart(k, p) PROVE IInv'
    <2>1. /\ pc[k] = "idle" /\ k \notin Users
          /\ \A x \in Procs : tgt'[x] = IF x = k THEN p ELSE tgt[x]
          /\ \A x \in Procs : pc'[x] = IF x = k THEN "swiproc" ELSE pc[x]
          /\ UNCHANGED <<rp, lk, cond, pr, swipend, arg, syscall, intwait, sig, eintr>>
      BY <1>0, <1>2 DEF SwiStart, Goto, TypeOK, rendezVars, hostVars
    <2>2. TypeOK'
      BY <1>0, <1>2, <2>1 DEF SwiStart, Goto, TypeOK, PC
    <2>3. PlaceInv'
      BY <1>0, <2>1 DEF PlaceInv, SleepPC, HostPC, SwiPC
    <2>4. TakenInv'
      BY <1>0, <2>1 DEF TakenInv
    <2>5. IntrInv'
      BY <1>0, <2>1, IntrKept DEF Heeds, HostPC
    <2> QED BY <2>2, <2>3, <2>4, <2>5 DEF IInv
  <1> QED BY <1>1, <1>2

\* swiproc pulls a process out of Sleep, where it sleeps or is about to.
LEMMA SwiLockInv ==
  ASSUME IInv, NEW k \in Killers, SwiLock(k)
  PROVE  IInv'
  <1>0. TypeOK /\ PlaceInv /\ TakenInv /\ IntrInv
    BY DEF IInv
  <1> DEFINE p == tgt[k]
             r == arg[k]
  <1>1. /\ pc[k] = "swilock" /\ r \in Rendezes /\ lk[r] = None /\ p \in Users
        /\ k \notin Users /\ UNCHANGED <<cond, syscall, intwait, sig, eintr>>
    BY <1>0 DEF SwiLock, TypeOK, PlaceInv, SwiPC, hostVars
  <1>2. CASE pr[p] # r
    <2>1. /\ \A x \in Procs : arg'[x] = IF x = k THEN None ELSE arg[x]
          /\ \A x \in Procs : tgt'[x] = IF x = k THEN None ELSE tgt[x]
          /\ \A x \in Procs : pc'[x] = IF x = k THEN "idle" ELSE pc[x]
          /\ UNCHANGED <<rp, lk, pr, swipend>>
      BY <1>0, <1>2 DEF SwiLock, Goto, TypeOK
    <2>2. TypeOK'
      BY <1>0, <1>1, <1>2, <2>1 DEF SwiLock, Goto, TypeOK, PC
    <2>3. PlaceInv'
      BY <1>0, <1>1, <2>1 DEF PlaceInv, SleepPC, HostPC, SwiPC
    <2>4. TakenInv'
      BY <1>0, <1>1, <2>1 DEF TakenInv
    <2>5. IntrInv'
      BY <1>0, <1>1, <2>1, IntrKept DEF Heeds, HostPC
    <2> QED BY <2>2, <2>3, <2>4, <2>5 DEF IInv
  <1>3. CASE pr[p] = r
    <2>1. p \in Sleepers /\ pc[p] \in {"sleep", "rendez"} /\ arg[p] = r
      BY <1>0, <1>1, <1>3 DEF TypeOK, TakenInv, PlaceInv, SleepPC
    <2>2. \A x \in Users : arg[x] = r => x = p
      BY <1>0, <1>1, <2>1 DEF PlaceInv
    <2> HIDE DEF p, r
    <2>3. /\ rp' = [rp EXCEPT ![r] = None]
          /\ lk' = [lk EXCEPT ![r] = k]
          /\ pr' = [pr EXCEPT ![p] = None]
          /\ swipend' = [swipend EXCEPT ![p] = TRUE]
          /\ pc' = [pc EXCEPT ![k] = "meet"]
          /\ UNCHANGED <<arg, tgt>>
      BY <1>3 DEF SwiLock, Goto, p, r
    <2>4. /\ \A x \in Rendezes : rp'[x] = IF x = r THEN None ELSE rp[x]
          /\ \A x \in Rendezes : lk'[x] = IF x = r THEN k ELSE lk[x]
          /\ \A x \in Users : pr'[x] = IF x = p THEN None ELSE pr[x]
          /\ \A x \in Users : swipend'[x] = IF x = p THEN TRUE ELSE swipend[x]
          /\ \A x \in Procs : pc'[x] = IF x = k THEN "meet" ELSE pc[x]
      BY <1>0, <2>3 DEF TypeOK
    <2>5. TypeOK'
      <3>1. /\ rp' \in [Rendezes -> Sleepers \cup {None}]
            /\ lk' \in [Rendezes -> Wakers \cup Killers \cup {None}]
            /\ pr' \in [Users -> Rendezes \cup {None}]
            /\ swipend' \in [Users -> BOOLEAN]
            /\ pc' \in [Procs -> PC]
        BY <1>0, <2>3 DEF TypeOK, PC
      <3>2. \A x \in Users : pc'[x] = pc[x]
        BY <1>1, <2>4
      <3> QED BY <1>0, <1>1, <2>3, <3>1, <3>2 DEF TypeOK
    <2>6. PlaceInv'
      BY <1>0, <1>1, <2>1, <2>3, <2>4 DEF PlaceInv, SleepPC, HostPC, SwiPC, p, r
    <2>7. TakenInv'
      BY <1>0, <1>1, <2>1, <2>2, <2>3, <2>4 DEF TakenInv, p, r
    <2>8. IntrInv'
      <3>1. ASSUME NEW x \in Users
            PROVE  /\ pc'[x] = pc[x]
                   /\ Heeds(x) => Heeds(x)'
                   /\ x = p => Heeds(x)' /\ pc[x] \notin HostPC
        BY <1>1, <2>1, <2>4 DEF Heeds, HostPC
      <3>2. \A j \in Killers : /\ pc[j] = "kill" <=> pc'[j] = "kill"
                              /\ tgt'[j] = tgt[j]
        BY <1>1, <2>3, <2>4
      <3>3. \A x \in Users :
              \/ pc'[x] = pc[x] /\ swipend'[x] = swipend[x] /\ (Heeds(x) => Heeds(x)')
              \/ pc[x] \notin HostPC /\ (swipend'[x] => Heeds(x)')
        <4>1. SUFFICES ASSUME NEW x \in Users
              PROVE \/ pc'[x] = pc[x] /\ swipend'[x] = swipend[x] /\ (Heeds(x) => Heeds(x)')
                    \/ pc[x] \notin HostPC /\ (swipend'[x] => Heeds(x)')
          OBVIOUS
        <4>2. CASE x = p
          BY <3>1, <4>2
        <4>3. CASE x # p
          <5>1. swipend'[x] = swipend[x]
            BY <2>4, <4>3
          <5> QED BY <3>1, <5>1
        <4> QED BY <4>2, <4>3
      <3> QED BY <1>0, <1>1, <3>2, <3>3, IntrKept
    <2> QED BY <2>5, <2>6, <2>7, <2>8 DEF IInv
  <1> QED BY <1>2, <1>3

\* swiproc notes that a call of the host is interrupted, once ...
LEMMA SwiHostInv ==
  ASSUME IInv, NEW k \in Killers, SwiHost(k)
  PROVE  IInv'
  <1>0. TypeOK /\ PlaceInv /\ TakenInv /\ IntrInv
    BY DEF IInv
  <1> DEFINE p == tgt[k]
  <1>1. /\ pc[k] = "swihost" /\ p \in Users /\ k \notin Users
        /\ UNCHANGED <<rp, lk, cond, pr, arg, syscall, sig, eintr>>
    BY <1>0 DEF SwiHost, TypeOK, PlaceInv, SwiPC, rendezVars
  <1>2. CASE syscall[p] /\ ~intwait[p]
    <2>1. /\ intwait' = [intwait EXCEPT ![p] = TRUE]
          /\ swipend' = [swipend EXCEPT ![p] = TRUE]
          /\ pc' = [pc EXCEPT ![k] = "kill"]
          /\ UNCHANGED tgt
      BY <1>2 DEF SwiHost, Goto
    <2>2. pc[p] \in {"host", "leave"} /\ p = tgt[k]
      BY <1>0, <1>1, <1>2 DEF TypeOK
    <2> HIDE DEF p
    <2>3. /\ \A x \in Users : intwait'[x] = IF x = p THEN TRUE ELSE intwait[x]
          /\ \A x \in Users : swipend'[x] = IF x = p THEN TRUE ELSE swipend[x]
          /\ \A x \in Procs : pc'[x] = IF x = k THEN "kill" ELSE pc[x]
      BY <1>0, <2>1 DEF TypeOK
    <2>4. TypeOK'
      <3>1. /\ intwait' \in [Users -> BOOLEAN]
            /\ swipend' \in [Users -> BOOLEAN]
            /\ pc' \in [Procs -> PC]
        BY <1>0, <2>1 DEF TypeOK, PC
      <3>2. \A x \in Users : pc'[x] = pc[x]
        BY <1>1, <2>3
      <3> QED BY <1>0, <1>1, <2>1, <3>1, <3>2 DEF TypeOK
    <2>5. PlaceInv'
      BY <1>0, <1>1, <2>1, <2>2, <2>3 DEF PlaceInv, SleepPC, HostPC, SwiPC
    <2>6. TakenInv'
      BY <1>0, <1>1, <2>1, <2>3 DEF TakenInv
    <2>7. IntrInv'
      <3>1. \A j \in Killers : pc[j] = "kill" => tgt[j] # p
        BY <1>0, <1>1, <1>2 DEF IntrInv, p
      <3>2. ~sig[p]
        BY <1>0, <1>1, <1>2 DEF IntrInv, p
      <3>3. ASSUME NEW x \in Users
            PROVE  /\ swipend'[x] => Heeds(x)'
                   /\ intwait'[x] => pc'[x] \in HostPC
                   /\ intwait'[x] /\ pc'[x] \in {"host", "leave"} => swipend'[x]
                   /\ intwait'[x] /\ pc'[x] = "spin" => eintr[x]
        <4>1. pc'[x] = pc[x] /\ (Heeds(x) => Heeds(x)')
          BY <1>1, <2>3 DEF Heeds
        <4>2. x = p => Heeds(x)
          BY <2>2 DEF Heeds
        <4> QED BY <1>0, <2>2, <2>3, <4>1, <4>2 DEF IntrInv, HostPC
      <3>4. ASSUME NEW x \in Users
            PROVE  /\ sig[x] => intwait'[x] /\ \A j \in Killers : ~(pc'[j] = "kill" /\ tgt[j] = x)
                   /\ \A j \in Killers : pc'[j] = "kill" /\ tgt[j] = x => intwait'[x]
                   /\ \A i, j \in Killers :
                        pc'[i] = "kill" /\ pc'[j] = "kill" /\ tgt[i] = x /\ tgt[j] = x => i = j
        <4>1. \A j \in Killers : pc'[j] = "kill" /\ tgt[j] = x =>
                (j = k /\ x = p) \/ (pc[j] = "kill" /\ tgt[j] = x /\ x # p)
          <5>1. SUFFICES ASSUME NEW j \in Killers, pc'[j] = "kill", tgt[j] = x
                PROVE  (j = k /\ x = p) \/ (pc[j] = "kill" /\ x # p)
            OBVIOUS
          <5>2. CASE j = k
            BY <2>2, <5>1, <5>2
          <5>3. CASE j # k
            <6>1. pc[j] = "kill"
              BY <2>3, <5>1, <5>3
            <6> QED BY <3>1, <5>1, <6>1
          <5> QED BY <5>2, <5>3
        <4>2. CASE x = p
          BY <1>1, <2>3, <3>2, <4>1, <4>2
        <4>3. CASE x # p
          <5>1. intwait'[x] = intwait[x]
            BY <2>3, <4>3
          <5> QED BY <1>0, <4>1, <4>3, <5>1, IntrOf
        <4> QED BY <4>2, <4>3
      <3> QED BY <1>1, <2>1, <3>3, <3>4 DEF IntrInv
    <2> QED BY <2>4, <2>5, <2>6, <2>7 DEF IInv
  <1>3. CASE ~(syscall[p] /\ ~intwait[p])
    <2>1. /\ \A x \in Procs : tgt'[x] = IF x = k THEN None ELSE tgt[x]
          /\ \A x \in Procs : pc'[x] = IF x = k THEN "idle" ELSE pc[x]
          /\ UNCHANGED <<intwait, swipend>>
      BY <1>0, <1>3 DEF SwiHost, Goto, TypeOK
    <2>2. TypeOK'
      BY <1>0, <1>1, <1>3, <2>1 DEF SwiHost, Goto, TypeOK, PC
    <2>3. PlaceInv'
      BY <1>0, <1>1, <2>1 DEF PlaceInv, SleepPC, HostPC, SwiPC
    <2>4. TakenInv'
      BY <1>0, <1>1, <2>1 DEF TakenInv
    <2>5. IntrInv'
      BY <1>0, <1>1, <2>1, IntrKept DEF Heeds, HostPC
    <2> QED BY <2>2, <2>3, <2>4, <2>5 DEF IInv
  <1> QED BY <1>2, <1>3

\* ... and sends the signal.
LEMMA HostIntrInv ==
  ASSUME IInv, NEW k \in Killers, HostIntr(k)
  PROVE  IInv'
  <1>0. TypeOK /\ PlaceInv /\ TakenInv /\ IntrInv
    BY DEF IInv
  <1> DEFINE p == tgt[k]
  <1>1. /\ pc[k] = "kill" /\ p \in Users /\ k \notin Users /\ p = tgt[k]
        /\ UNCHANGED <<rp, lk, cond, pr, swipend, arg, syscall, intwait, eintr>>
    BY <1>0 DEF HostIntr, TypeOK, PlaceInv, SwiPC, rendezVars
  <1> HIDE DEF p
  <1>2. /\ \A x \in Users : sig'[x] = IF x = p THEN TRUE ELSE sig[x]
        /\ \A x \in Procs : tgt'[x] = IF x = k THEN None ELSE tgt[x]
        /\ \A x \in Procs : pc'[x] = IF x = k THEN "idle" ELSE pc[x]
    BY <1>0 DEF HostIntr, Goto, TypeOK, p
  <1>3. TypeOK'
    <2>1. \A x \in Users : pc'[x] = pc[x]
      BY <1>1, <1>2
    <2> QED BY <1>0, <1>1, <2>1 DEF HostIntr, Goto, TypeOK, PC
  <1>4. PlaceInv'
    BY <1>0, <1>1, <1>2 DEF PlaceInv, SleepPC, HostPC, SwiPC
  <1>5. TakenInv'
    BY <1>0, <1>1, <1>2 DEF TakenInv
  <1>6. IntrInv'
    <2>1. intwait[p] /\ \A j \in Killers : pc[j] = "kill" /\ tgt[j] = p => j = k
      BY <1>0, <1>1 DEF IntrInv
    <2>2. \A x \in Users : pc'[x] = pc[x] /\ (Heeds(x) => Heeds(x)')
      BY <1>1, <1>2 DEF Heeds
    <2>3. ASSUME NEW x \in Users
          PROVE  /\ swipend[x] => Heeds(x)'
                 /\ intwait[x] => pc'[x] \in HostPC
                 /\ intwait[x] /\ pc'[x] \in {"host", "leave"} => swipend[x]
                 /\ intwait[x] /\ pc'[x] = "spin" => eintr[x]
      BY <1>0, <2>2 DEF IntrInv
    <2>4. ASSUME NEW x \in Users
          PROVE  /\ sig'[x] => intwait[x] /\ \A j \in Killers : ~(pc'[j] = "kill" /\ tgt'[j] = x)
                 /\ \A j \in Killers : pc'[j] = "kill" /\ tgt'[j] = x => intwait[x]
                 /\ \A i, j \in Killers :
                      pc'[i] = "kill" /\ pc'[j] = "kill" /\ tgt'[i] = x /\ tgt'[j] = x => i = j
      <3>1. \A j \in Killers : pc'[j] = "kill" /\ tgt'[j] = x =>
              pc[j] = "kill" /\ tgt[j] = x /\ x # p
        BY <1>2, <2>1
      <3>2. CASE x = p
        BY <1>2, <2>1, <3>1, <3>2
      <3>3. CASE x # p
          <4>1. sig'[x] = sig[x]
            BY <1>2, <3>3
          <4> QED BY <1>0, <3>1, <4>1, IntrOf
      <3> QED BY <3>2, <3>3
    <2> QED BY <1>1, <2>3, <2>4 DEF IntrInv
  <1> QED BY <1>3, <1>4, <1>5, <1>6 DEF IInv

-----------------------------------------------------------------------------
\* A call of the host begins and ends.
LEMMA HostInv ==
  ASSUME IInv, NEW p \in Users, OsEnter(p) \/ HostReturn(p)
  PROVE  IInv'
  <1>0. TypeOK /\ PlaceInv /\ TakenInv /\ IntrInv
    BY DEF IInv
  <1>1. CASE OsEnter(p)
    <2>1. /\ pc[p] = "idle"
          /\ \A x \in Users : syscall'[x] = IF x = p THEN TRUE ELSE syscall[x]
          /\ \A x \in Procs : pc'[x] = IF x = p THEN "host" ELSE pc[x]
          /\ UNCHANGED <<rp, lk, cond, pr, swipend, arg, tgt, intwait, sig, eintr>>
      BY <1>0, <1>1 DEF OsEnter, Goto, TypeOK, rendezVars
    <2>2. TypeOK'
      BY <1>0, <1>1, <2>1 DEF OsEnter, Goto, TypeOK, PC
    <2>3. PlaceInv'
      BY <1>0, <2>1 DEF PlaceInv, SleepPC, HostPC, SwiPC
    <2>4. TakenInv'
      BY <1>0, <2>1 DEF TakenInv
    <2>5. IntrInv'
      BY <1>0, <2>1, IntrKept DEF Heeds, HostPC
    <2> QED BY <2>2, <2>3, <2>4, <2>5 DEF IInv
  <1>2. CASE HostReturn(p)
    <2>1. /\ pc[p] = "host"
          /\ \A x \in Procs : pc'[x] = IF x = p THEN "leave" ELSE pc[x]
          /\ UNCHANGED <<rp, lk, cond, pr, swipend, arg, tgt, syscall, intwait, sig, eintr>>
      BY <1>0, <1>2 DEF HostReturn, Goto, TypeOK, rendezVars, hostVars
    <2>2. TypeOK'
      BY <1>0, <1>2, <2>1 DEF HostReturn, Goto, TypeOK, PC
    <2>3. PlaceInv'
      BY <1>0, <2>1 DEF PlaceInv, SleepPC, HostPC, SwiPC
    <2>4. TakenInv'
      BY <1>0, <2>1 DEF TakenInv
    <2>5. IntrInv'
      <3>1. ASSUME NEW x \in Users
            PROVE  /\ Heeds(x) => Heeds(x)'
                   /\ pc[x] \in HostPC => pc'[x] \in HostPC
                   /\ pc'[x] \in {"host", "leave"} <=> pc[x] \in {"host", "leave"}
                   /\ pc'[x] = "spin" <=> pc[x] = "spin"
        BY <2>1 DEF Heeds, HostPC
      <3>2. \A k \in Killers : pc'[k] = pc[k]
        BY <2>1
      <3>3. ASSUME NEW x \in Users
            PROVE  /\ swipend[x] => Heeds(x)'
                   /\ intwait[x] => pc'[x] \in HostPC
                   /\ intwait[x] /\ pc'[x] \in {"host", "leave"} => swipend[x]
                   /\ intwait[x] /\ pc'[x] = "spin" => eintr[x]
        <4>1. /\ swipend[x] => Heeds(x)
              /\ intwait[x] => pc[x] \in HostPC
              /\ intwait[x] /\ pc[x] \in {"host", "leave"} => swipend[x]
              /\ intwait[x] /\ pc[x] = "spin" => eintr[x]
          BY <1>0, IntrOf
        <4> QED BY <3>1, <4>1
      <3>4. ASSUME NEW x \in Users
            PROVE  /\ sig[x] => intwait[x] /\ \A j \in Killers : ~(pc'[j] = "kill" /\ tgt[j] = x)
                   /\ \A j \in Killers : pc'[j] = "kill" /\ tgt[j] = x => intwait[x]
                   /\ \A i, j \in Killers :
                        pc'[i] = "kill" /\ pc'[j] = "kill" /\ tgt[i] = x /\ tgt[j] = x => i = j
        BY <1>0, <3>2, IntrOf
      <3> QED BY <2>1, <3>3, <3>4 DEF IntrInv
    <2> QED BY <2>2, <2>3, <2>4, <2>5 DEF IInv
  <1> QED BY <1>1, <1>2

\* osleave() takes the interrupt, waits for the signal and returns.
LEMMA OsLeaveInv ==
  ASSUME IInv, NEW p \in Users, OsLeave(p) \/ OsLeft(p)
  PROVE  IInv'
  <1>0. TypeOK /\ PlaceInv /\ TakenInv /\ IntrInv
    BY DEF IInv
  <1>1. CASE OsLeave(p)
    <2>1. /\ pc[p] = "leave"
          /\ \A x \in Users : eintr'[x] = IF x = p THEN swipend[p] ELSE eintr[x]
          /\ \A x \in Users : swipend'[x] = IF x = p THEN FALSE ELSE swipend[x]
          /\ \A x \in Users : syscall'[x] = IF x = p THEN FALSE ELSE syscall[x]
          /\ \A x \in Procs : pc'[x] = IF x = p THEN "spin" ELSE pc[x]
          /\ UNCHANGED <<rp, lk, cond, pr, arg, tgt, intwait, sig>>
      BY <1>0, <1>1 DEF OsLeave, Goto, TypeOK, rendezVars
    <2>2. TypeOK'
      <3>1. swipend[p] \in BOOLEAN
        BY <1>0 DEF TypeOK
      <3> QED BY <1>0, <1>1, <2>1, <3>1 DEF OsLeave, Goto, TypeOK, PC
    <2>3. PlaceInv'
      BY <1>0, <2>1 DEF PlaceInv, SleepPC, HostPC, SwiPC
    <2>4. TakenInv'
      BY <1>0, <2>1 DEF TakenInv
    <2>5. IntrInv'
      <3>1. ASSUME NEW x \in Users
            PROVE  /\ swipend'[x] => Heeds(x)'
                   /\ intwait[x] => pc'[x] \in HostPC
                   /\ intwait[x] /\ pc'[x] \in {"host", "leave"} => swipend'[x]
                   /\ intwait[x] /\ pc'[x] = "spin" => eintr'[x]
        BY <1>0, <2>1 DEF IntrInv, Heeds, HostPC
      <3>2. ASSUME NEW x \in Users
            PROVE  /\ sig[x] => intwait[x] /\ \A j \in Killers : ~(pc'[j] = "kill" /\ tgt[j] = x)
                   /\ \A j \in Killers : pc'[j] = "kill" /\ tgt[j] = x => intwait[x]
                   /\ \A i, j \in Killers :
                        pc'[i] = "kill" /\ pc'[j] = "kill" /\ tgt[i] = x /\ tgt[j] = x => i = j
        BY <1>0, <2>1 DEF IntrInv
      <3> QED BY <2>1, <3>1, <3>2 DEF IntrInv
    <2> QED BY <2>2, <2>3, <2>4, <2>5 DEF IInv
  <1>2. CASE OsLeft(p)
    <2>1. /\ pc[p] = "spin" /\ ~intwait[p]
          /\ \A x \in Users : eintr'[x] = IF x = p THEN FALSE ELSE eintr[x]
          /\ \A x \in Procs : pc'[x] = IF x = p THEN "idle" ELSE pc[x]
          /\ UNCHANGED <<rp, lk, cond, pr, swipend, arg, tgt, syscall, intwait, sig>>
      BY <1>0, <1>2 DEF OsLeft, Goto, TypeOK, rendezVars
    <2>2. TypeOK'
      BY <1>0, <1>2, <2>1 DEF OsLeft, Goto, TypeOK, PC
    <2>3. PlaceInv'
      BY <1>0, <2>1 DEF PlaceInv, SleepPC, HostPC, SwiPC
    <2>4. TakenInv'
      BY <1>0, <2>1 DEF TakenInv
    <2>5. IntrInv'
      <3>1. ASSUME NEW x \in Users
            PROVE  /\ swipend[x] => Heeds(x)'
                   /\ intwait[x] => pc'[x] \in HostPC
                   /\ intwait[x] /\ pc'[x] \in {"host", "leave"} => swipend[x]
                   /\ intwait[x] /\ pc'[x] = "spin" => eintr'[x]
        BY <1>0, <2>1 DEF IntrInv, Heeds, HostPC
      <3>2. ASSUME NEW x \in Users
            PROVE  /\ sig[x] => intwait[x] /\ \A j \in Killers : ~(pc'[j] = "kill" /\ tgt[j] = x)
                   /\ \A j \in Killers : pc'[j] = "kill" /\ tgt[j] = x => intwait[x]
                   /\ \A i, j \in Killers :
                        pc'[i] = "kill" /\ pc'[j] = "kill" /\ tgt[i] = x /\ tgt[j] = x => i = j
        BY <1>0, <2>1 DEF IntrInv
      <3> QED BY <2>1, <3>1, <3>2 DEF IntrInv
    <2> QED BY <2>2, <2>3, <2>4, <2>5 DEF IInv
  <1> QED BY <1>1, <1>2

\* The signal arrives.
LEMMA TrapInv ==
  ASSUME IInv, NEW p \in Users, TrapUSR1(p)
  PROVE  IInv'
  <1>0. TypeOK /\ PlaceInv /\ TakenInv /\ IntrInv
    BY DEF IInv
  <1>1. /\ sig[p] /\ sig' = [sig EXCEPT ![p] = FALSE]
        /\ intwait' = [intwait EXCEPT ![p] = FALSE] \/ intwait' = intwait
        /\ (pc[p] = "host" /\ pc' = [pc EXCEPT ![p] = "leave"]) \/ pc' = pc
        /\ UNCHANGED <<rp, lk, cond, pr, swipend, arg, tgt, syscall, eintr>>
    BY DEF TrapUSR1, Goto, rendezVars
  <1>2. /\ \A x \in Users : sig'[x] = IF x = p THEN FALSE ELSE sig[x]
        /\ \A x \in Users : x # p => intwait'[x] = intwait[x]
        /\ \A x \in Users : intwait'[x] => intwait[x]
        /\ \A x \in Procs : x # p => pc'[x] = pc[x]
        /\ pc'[p] = pc[p] \/ (pc[p] = "host" /\ pc'[p] = "leave")
    BY <1>0, <1>1 DEF TypeOK
  <1>3. TypeOK'
    <2>1. /\ sig' \in [Users -> BOOLEAN] /\ intwait' \in [Users -> BOOLEAN]
          /\ pc' \in [Procs -> PC]
      <3>1. /\ sig \in [Users -> BOOLEAN] /\ intwait \in [Users -> BOOLEAN]
            /\ pc \in [Procs -> PC] /\ "leave" \in PC
        BY <1>0 DEF TypeOK, PC
      <3>2. sig' \in [Users -> BOOLEAN]
        BY <1>1, <3>1
      <3>3. intwait' \in [Users -> BOOLEAN]
        BY <1>1, <3>1
      <3>4. pc' \in [Procs -> PC]
        BY <1>1, <3>1
      <3> QED BY <3>2, <3>3, <3>4
    <2>2. \A x \in Users : pc'[x] \in {"host", "leave"} <=> pc[x] \in {"host", "leave"}
      BY <1>2
    <2> QED BY <1>0, <1>1, <2>1, <2>2 DEF TypeOK
  <1>4. PlaceInv'
    BY <1>0, <1>1, <1>2 DEF PlaceInv, SleepPC, HostPC, SwiPC
  <1>5. TakenInv'
    BY <1>0, <1>1, <1>2 DEF TakenInv
  <1>6. IntrInv'
    <2>1. ASSUME NEW x \in Users
          PROVE  /\ Heeds(x) => Heeds(x)'
                 /\ pc[x] \in HostPC => pc'[x] \in HostPC
                 /\ pc'[x] \in {"host", "leave"} <=> pc[x] \in {"host", "leave"}
                 /\ pc'[x] = "spin" <=> pc[x] = "spin"
      BY <1>1, <1>2 DEF Heeds, HostPC
    <2>2. \A k \in Killers : pc'[k] = pc[k]
      BY <1>2
    <2>3. ASSUME NEW x \in Users
          PROVE  /\ swipend[x] => Heeds(x)'
                 /\ intwait'[x] => pc'[x] \in HostPC
                 /\ intwait'[x] /\ pc'[x] \in {"host", "leave"} => swipend[x]
                 /\ intwait'[x] /\ pc'[x] = "spin" => eintr[x]
      <3>1. /\ swipend[x] => Heeds(x)
            /\ intwait'[x] => pc[x] \in HostPC
            /\ intwait'[x] /\ pc[x] \in {"host", "leave"} => swipend[x]
            /\ intwait'[x] /\ pc[x] = "spin" => eintr[x]
        BY <1>0, <1>2, IntrOf
      <3> QED BY <2>1, <3>1
    <2>4. ASSUME NEW x \in Users
          PROVE  /\ sig'[x] => intwait'[x] /\ \A j \in Killers : ~(pc'[j] = "kill" /\ tgt[j] = x)
                 /\ \A j \in Killers : pc'[j] = "kill" /\ tgt[j] = x => intwait'[x]
                 /\ \A i, j \in Killers :
                      pc'[i] = "kill" /\ pc'[j] = "kill" /\ tgt[i] = x /\ tgt[j] = x => i = j
      <3>1. CASE x = p
        <4>1. ~sig'[x] /\ \A j \in Killers : ~(pc[j] = "kill" /\ tgt[j] = x)
          BY <1>0, <1>1, <1>2, <3>1, IntrOf
        <4> QED BY <2>2, <4>1
      <3>2. CASE x # p
        <4>1. sig'[x] = sig[x] /\ intwait'[x] = intwait[x]
          BY <1>2, <3>2
        <4> QED BY <1>0, <2>2, <4>1, IntrOf
      <3> QED BY <3>1, <3>2
    <2> QED BY <1>1, <2>3, <2>4 DEF IntrInv
  <1> QED BY <1>3, <1>4, <1>5, <1>6 DEF IInv

-----------------------------------------------------------------------------
\* Every step keeps the invariant.
LEMMA NextIInv == IInv /\ [Next]_vars => IInv'
  <1> SUFFICES ASSUME IInv, [Next]_vars PROVE IInv'
    OBVIOUS
  <1>1. CASE UNCHANGED vars
    <2>1. TypeOK' /\ PlaceInv'
      BY <1>1 DEF IInv, vars, TypeOK, PlaceInv
    <2>2. TakenInv' /\ IntrInv'
      BY <1>1 DEF IInv, vars, TakenInv, IntrInv, Heeds
    <2> QED BY <2>1, <2>2 DEF IInv
  <1>2. ASSUME NEW p \in Users, SleepStep(p) PROVE IInv'
    BY <1>2, SleepReadyInv, SleepWaitInv, SleepReturnInv DEF SleepStep
  <1>3. ASSUME NEW p \in Users, HostStep(p) \/ OsEnter(p) \/ HostReturn(p) PROVE IInv'
    BY <1>3, HostInv, OsLeaveInv DEF HostStep
  <1>4. ASSUME NEW p \in Users, TrapUSR1(p) PROVE IInv'
    BY <1>4, TrapInv
  <1>5. ASSUME NEW p \in Users, NEW r \in Rendezes, SleepStart(p, r) PROVE IInv'
    BY <1>5, SleepStartInv
  <1>6. ASSUME NEW w \in Wakers, WakeStep(w) \/ \E r \in Rendezes : Event(w, r) PROVE IInv'
    BY <1>6, WakeupInv, MeetInv, EventInv DEF WakeStep
  <1>7. ASSUME NEW k \in Killers, SwiStep(k) \/ \E p \in Users : SwiStart(k, p) PROVE IInv'
    BY <1>7, SwiReadInv, SwiLockInv, SwiHostInv, HostIntrInv, MeetInv DEF SwiStep
  <1> QED BY <1>1, <1>2, <1>3, <1>4, <1>5, <1>6, <1>7 DEF Next

\* The inductive invariant holds for any processes and Rendezes.
THEOREM IInvHolds == Spec => []IInv
  BY InitIInv, NextIInv, PTL DEF Spec

\* Every variable has its type, and Proc.syscall is set in calls of the host.
THEOREM TypeCorrect == Spec => []TypeOK
  <1>1. IInv => TypeOK
    BY DEF IInv
  <1> QED BY <1>1, IInvHolds, PTL

\* Whoever sleeps can be found, or has been taken by one process.
LEMMA IInvSleeperFound == IInv => SleeperFound
  <1> SUFFICES ASSUME IInv PROVE SleeperFound
    OBVIOUS
  <1>0. TypeOK /\ PlaceInv /\ TakenInv /\ IntrInv
    BY DEF IInv
  <1> DEFINE Meeters(p) == {w \in Others : Meeting(w, p)}
  <1>1. \A r \in Rendezes : rp[r] # None => pc[rp[r]] = "rendez" /\ arg[rp[r]] = r
    BY <1>0 DEF TypeOK, TakenInv
  <1>2. ASSUME NEW p \in Sleepers, pc[p] = "rendez"
        PROVE  \/ rp[arg[p]] = p /\ pr[p] = arg[p] /\ Meeters(p) = {}
               \/ rp[arg[p]] # p /\ pr[p] = None /\ Cardinality(Meeters(p)) = 1
    <2>1. arg[p] \in Rendezes
      BY <1>0, <1>2 DEF TypeOK, PlaceInv, SleepPC
    <2>2. CASE pr[p] # None
      BY <1>0, <1>2, <2>1, <2>2 DEF TakenInv
    <2>3. CASE pr[p] = None
      <3>1. PICK w \in Others : Meeting(w, p)
        BY <1>0, <1>2, <2>3 DEF TakenInv
      <3>2. \A v \in Others : Meeting(v, p) => v = w
        BY <1>0, <2>1, <3>1 DEF TakenInv
      <3>3. Meeters(p) = {w}
        BY <3>1, <3>2
      <3>4. Cardinality(Meeters(p)) = 1
        BY <3>3, FS_Singleton
      <3>5. rp[arg[p]] # p
        BY <1>0, <2>1, <2>3 DEF TakenInv
      <3> QED BY <2>3, <3>4, <3>5
    <2> QED BY <2>2, <2>3
  <1> QED BY <1>1, <1>2 DEF SleeperFound

\* Neither Wakeup nor swiproc loses a sleeper, or meets anybody else.
THEOREM SleeperFoundHolds == Spec => []SleeperFound
  BY IInvHolds, IInvSleeperFound, PTL

\* An interrupted call of the host, and no other, ends in error(Eintr), and no
\* signal comes that swiproc has not announced.
THEOREM InterruptReportedHolds == Spec => []InterruptReported
  <1>1. IInv => InterruptReported
    BY DEF IInv, IntrInv, Heeds, InterruptReported
  <1> QED BY <1>1, IInvHolds, PTL

=============================================================================
