----------------------------- MODULE SleepHost -----------------------------
(***************************************************************************)
(* Sleep, Wakeup and swiproc over the rendezvous of the host: module       *)
(* Rendez, whose processes do not meet in one step but call erendezvous of *)
(* module ERendez, each in its own time.  A waker still holds the lock of  *)
(* the Rendez when the sleeper it has met runs again.                      *)
(***************************************************************************)
EXTENDS Rendez, ERendez

ASSUME CallersAssumption ==
  Callers = Procs /\ Nobody = None /\ IsFiniteSet(Procs)

allVars == <<vars, erVars>>

HostInit == Init /\ ErInit

\* What erendezvous is called with: up, or the process that is to be woken.
Arg(p) == IF pc[p] = "rendez" THEN p ELSE tgt[p]

Call(p) ==
  /\ pc[p] \in {"rendez", "meet"}
  /\ Enter(p, Arg(p))
  /\ UNCHANGED vars

Wait(p) == (Test(p) \/ Semop(p)) /\ UNCHANGED vars

(* erendezvous returns to Sleep ...                                        *)
ReturnToSleep(p) ==
  /\ pc[p] = "rendez" /\ Leave(p)
  /\ Goto(p, "woken")
  /\ UNCHANGED <<rendezVars, swipend, arg, tgt, hostVars>>

(* ... or to Wakeup or swiproc, which unlocks r->l.                        *)
ReturnToWaker(w) ==
  /\ pc[w] = "meet" /\ Leave(w)
  /\ lk' = [lk EXCEPT ![arg[w]] = None]
  /\ arg' = [arg EXCEPT ![w] = None]
  /\ tgt' = [tgt EXCEPT ![w] = None]
  /\ Goto(w, "idle")
  /\ UNCHANGED <<rp, cond, pr, swipend, hostVars>>

ErStep(p) == Call(p) \/ Wait(p) \/ ReturnToSleep(p) \/ ReturnToWaker(p)

Own(p) ==
  \/ p \in Users /\ (SleepStep(p) \/ HostStep(p) \/ TrapUSR1(p) \/ OsEnter(p) \/ HostReturn(p))
  \/ \E r \in Rendezes : SleepStart(p, r) \/ Event(p, r)
  \/ Wakeup(p)
  \/ SwiRead(p) \/ SwiLock(p) \/ SwiHost(p) \/ HostIntr(p)
  \/ \E q \in Users : SwiStart(p, q)

HostNext == \E p \in Procs : ErStep(p) \/ (Own(p) /\ UNCHANGED erVars)

HostSpec == HostInit /\ [][HostNext]_allVars

-----------------------------------------------------------------------------
(***************************************************************************)
(* This implements Rendez: two processes meet when the second of them      *)
(* clears t->tag, and from then on are where they will be when             *)
(* erendezvous has returned.                                               *)
(***************************************************************************)
Done(w) == pc[w] = "meet" /\ Met(w)

lkMap  == [r \in Rendezes |-> IF lk[r] # None /\ Done(lk[r]) THEN None ELSE lk[r]]
argMap == [p \in Procs |-> IF Done(p) THEN None ELSE arg[p]]
tgtMap == [p \in Procs |-> IF Done(p) THEN None ELSE tgt[p]]
pcMap  == [p \in Procs |-> IF Done(p) THEN "idle"
                           ELSE IF pc[p] = "rendez" /\ Met(p) THEN "woken" ELSE pc[p]]

R == INSTANCE Rendez WITH lk <- lkMap, arg <- argMap, tgt <- tgtMap, pc <- pcMap

RendezSpec == R!Spec
=============================================================================
