------------------------------- MODULE Rendez -------------------------------
(***************************************************************************)
(* Sleep, Wakeup and swiproc, and the calls of the host system between     *)
(* osenter and osleave, of the hosted emulator (emu/proc.c), with the      *)
(* signal that swiproc sends (emu/os-Linux.c).                             *)
(*                                                                         *)
(* The lock of a Rendez is held across the rendezvous with the sleeper, so *)
(* it is modelled; a critical section without a rendezvous is one step.    *)
(* erendezvous(p) of a waker meets erendezvous(up) of the sleeper p.       *)
(***************************************************************************)
EXTENDS Naturals, FiniteSets

CONSTANTS Sleepers,   \* processes that call Sleep
          Hosters,    \* processes that call the host system
          Interps,    \* those of either kind whose type is Interp
          Wakers,     \* processes that call Wakeup
          Killers,    \* processes that call swiproc
          Rendezes,
          None

Users == Sleepers \cup Hosters
Procs == Users \cup Wakers \cup Killers

ASSUME ProcsAssumption ==
  /\ Interps \subseteq Users
  /\ Users \cap (Wakers \cup Killers) = {} /\ Wakers \cap Killers = {}
  /\ None \notin Procs \cup Rendezes

VARIABLES rp,        \* Rendez.p: the process that sleeps there
          lk,        \* Rendez.l: its holder, during a rendezvous
          cond,      \* what f(arg) returns
          pr,        \* Proc.r: the Rendez a process is about to sleep on
          swipend,   \* Proc.swipend
          syscall,   \* Proc.syscall: in a call of the host
          intwait,   \* Proc.intwait: swiproc has sent a signal
          sig,       \* SIGUSR1 is pending
          pc,
          arg,       \* the Rendez in hand: Sleep's, Wakeup's, swiproc's r
          tgt,       \* the process that Wakeup or swiproc has in hand
          eintr      \* osleave's r

vars == <<rp, lk, cond, pr, swipend, syscall, intwait, sig, pc, arg, tgt, eintr>>
rendezVars == <<rp, lk, cond, pr>>
hostVars   == <<syscall, intwait, sig, eintr>>

PC == {"idle", "sleep", "rendez", "woken",          \* Sleep
       "host", "leave", "spin",                     \* osenter .. osleave
       "wakeup",                                    \* Wakeup
       "swiproc", "swilock", "swihost", "kill",     \* swiproc
       "meet"}                                      \* erendezvous(p)

Goto(p, c) == pc' = [pc EXCEPT ![p] = c]

-----------------------------------------------------------------------------
(***************************************************************************)
(* Sleep(r, f, arg).  Whoever uses a Rendez serialises its sleepers.       *)
(***************************************************************************)
(* up->r = r                                                               *)
SleepStart(p, r) ==
  /\ pc[p] = "idle" /\ p \in Sleepers
  /\ \A q \in Sleepers : arg[q] # r
  /\ arg' = [arg EXCEPT ![p] = r]
  /\ pr' = [pr EXCEPT ![p] = r]
  /\ Goto(p, "sleep")
  /\ UNCHANGED <<rp, lk, cond, swipend, tgt, hostVars>>

(* Under r->l: f(arg) says that there is no need to sleep ...              *)
SleepReady(p) ==
  LET r == arg[p] IN
  /\ pc[p] = "sleep"
  /\ lk[r] = None
  /\ cond[r]
  /\ cond' = [cond EXCEPT ![r] = FALSE]     \* by the caller of Sleep
  /\ pr' = [pr EXCEPT ![p] = None]
  /\ arg' = [arg EXCEPT ![p] = None]
  /\ Goto(p, "idle")
  /\ UNCHANGED <<rp, lk, swipend, tgt, hostVars>>

\* Mutant of SleepWait: f(arg) was called before r->l was locked.
SleepWaitEarly(p) ==
  LET r == arg[p] IN
  /\ pc[p] = "sleep"
  /\ lk[r] = None
  /\ swipend' = [swipend EXCEPT ![p] = FALSE]
  /\ rp' = [rp EXCEPT ![r] = p]
  /\ Goto(p, "rendez")
  /\ UNCHANGED <<lk, cond, pr, arg, tgt, hostVars>>

(* ... or the process becomes r->p.                                        *)
SleepWait(p) ==
  LET r == arg[p] IN
  /\ pc[p] = "sleep"
  /\ lk[r] = None
  /\ ~cond[r]
  /\ swipend' = [swipend EXCEPT ![p] = FALSE]
  /\ rp' = [rp EXCEPT ![r] = p]
  /\ Goto(p, "rendez")
  /\ UNCHANGED <<lk, cond, pr, arg, tgt, hostVars>>

(* Sleep returns, or calls error(Eintr); its caller takes what it waited   *)
(* for, if it is there.                                                    *)
SleepReturn(p) ==
  /\ pc[p] = "woken"
  /\ swipend' = [swipend EXCEPT ![p] = FALSE]
  /\ IF swipend[p] THEN UNCHANGED cond ELSE cond' = [cond EXCEPT ![arg[p]] = FALSE]
  /\ arg' = [arg EXCEPT ![p] = None]
  /\ Goto(p, "idle")
  /\ UNCHANGED <<rp, lk, pr, tgt, hostVars>>

-----------------------------------------------------------------------------
(***************************************************************************)
(* Wakeup(r)                                                               *)
(***************************************************************************)
(* The event occurs.                                                       *)
Event(w, r) ==
  /\ pc[w] = "idle" /\ w \in Wakers
  /\ cond' = [cond EXCEPT ![r] = TRUE]
  /\ arg' = [arg EXCEPT ![w] = r]
  /\ Goto(w, "wakeup")
  /\ UNCHANGED <<rp, lk, pr, swipend, tgt, hostVars>>

(* Under r->l: take the sleeper, if there is one.                          *)
Wakeup(w) ==
  LET r == arg[w]
      p == rp[r]
  IN
  /\ pc[w] = "wakeup"
  /\ lk[r] = None
  /\ IF p = None
       THEN /\ arg' = [arg EXCEPT ![w] = None]
            /\ Goto(w, "idle")
            /\ UNCHANGED <<rp, lk, pr, tgt>>
       ELSE /\ rp' = [rp EXCEPT ![r] = None]
            /\ pr' = [pr EXCEPT ![p] = None]
            /\ lk' = [lk EXCEPT ![r] = w]
            /\ tgt' = [tgt EXCEPT ![w] = p]
            /\ Goto(w, "meet")
            /\ UNCHANGED arg
  /\ UNCHANGED <<cond, swipend, hostVars>>

(* erendezvous(p) and unlock(&r->l), of Wakeup and of swiproc.             *)
Meet(w) ==
  LET p == tgt[w] IN
  /\ pc[w] = "meet"
  /\ pc[p] = "rendez"
  /\ lk' = [lk EXCEPT ![arg[w]] = None]
  /\ arg' = [arg EXCEPT ![w] = None]
  /\ tgt' = [tgt EXCEPT ![w] = None]
  /\ pc' = [pc EXCEPT ![w] = "idle", ![p] = "woken"]
  /\ UNCHANGED <<rp, cond, pr, swipend, hostVars>>

-----------------------------------------------------------------------------
(***************************************************************************)
(* swiproc(p)                                                              *)
(***************************************************************************)
SwiStart(k, p) ==
  /\ pc[k] = "idle" /\ k \in Killers
  /\ tgt' = [tgt EXCEPT ![k] = p]
  /\ Goto(k, "swiproc")
  /\ UNCHANGED <<rendezVars, swipend, arg, hostVars>>

(* r = p->r, without a lock.                                               *)
SwiRead(k) ==
  LET r == pr[tgt[k]] IN
  /\ pc[k] = "swiproc"
  /\ arg' = [arg EXCEPT ![k] = r]
  /\ Goto(k, IF r = None THEN "swihost" ELSE "swilock")
  /\ UNCHANGED <<rendezVars, swipend, tgt, hostVars>>

\* Mutant of SwiLock: p->r is not looked at again.
SwiLockUnchecked(k) ==
  LET p == tgt[k]
      r == arg[k]
  IN
  /\ pc[k] = "swilock"
  /\ lk[r] = None
  /\ swipend' = [swipend EXCEPT ![p] = TRUE]
  /\ rp' = [rp EXCEPT ![r] = None]
  /\ pr' = [pr EXCEPT ![p] = None]
  /\ lk' = [lk EXCEPT ![r] = k]
  /\ Goto(k, "meet")
  /\ UNCHANGED <<arg, tgt, cond, hostVars>>

(* Under r->l: pull p out of Sleep, if p->r is still r.                    *)
SwiLock(k) ==
  LET p == tgt[k]
      r == arg[k]
  IN
  /\ pc[k] = "swilock"
  /\ lk[r] = None
  /\ IF pr[p] = r
       THEN /\ swipend' = [swipend EXCEPT ![p] = TRUE]
            /\ rp' = [rp EXCEPT ![r] = None]
            /\ pr' = [pr EXCEPT ![p] = None]
            /\ lk' = [lk EXCEPT ![r] = k]
            /\ Goto(k, "meet")
            /\ UNCHANGED <<arg, tgt>>
       ELSE /\ arg' = [arg EXCEPT ![k] = None]
            /\ tgt' = [tgt EXCEPT ![k] = None]
            /\ Goto(k, "idle")
            /\ UNCHANGED <<rp, lk, pr, swipend>>
  /\ UNCHANGED <<cond, hostVars>>

(* Under p->sysio: note the interrupt of a call of the host.               *)
SwiHost(k) ==
  LET p == tgt[k] IN
  /\ pc[k] = "swihost"
  /\ IF syscall[p] /\ ~intwait[p]
       THEN /\ intwait' = [intwait EXCEPT ![p] = TRUE]
            /\ swipend' = [swipend EXCEPT ![p] = TRUE]
            /\ Goto(k, "kill")
            /\ UNCHANGED tgt
       ELSE /\ tgt' = [tgt EXCEPT ![k] = None]
            /\ Goto(k, "idle")
            /\ UNCHANGED <<intwait, swipend>>
  /\ UNCHANGED <<rendezVars, arg, syscall, sig, eintr>>

(* oshostintr(p)                                                           *)
HostIntr(k) ==
  /\ pc[k] = "kill"
  /\ sig' = [sig EXCEPT ![tgt[k]] = TRUE]
  /\ tgt' = [tgt EXCEPT ![k] = None]
  /\ Goto(k, "idle")
  /\ UNCHANGED <<rendezVars, swipend, arg, syscall, intwait, eintr>>

-----------------------------------------------------------------------------
(***************************************************************************)
(* osenter(), a call of the host, osleave()                                *)
(***************************************************************************)
OsEnter(p) ==
  /\ pc[p] = "idle" /\ p \in Hosters
  /\ syscall' = [syscall EXCEPT ![p] = TRUE]
  /\ Goto(p, "host")
  /\ UNCHANGED <<rendezVars, swipend, arg, tgt, intwait, sig, eintr>>

(* The call returns, or fails with EINTR.                                  *)
HostReturn(p) ==
  /\ pc[p] = "host"
  /\ Goto(p, "leave")
  /\ UNCHANGED <<rendezVars, swipend, arg, tgt, hostVars>>

\* Mutant of OsLeave: swipend is left set, for the next call.
OsLeaveKeeps(p) ==
  /\ pc[p] = "leave"
  /\ eintr' = [eintr EXCEPT ![p] = swipend[p]]
  /\ syscall' = [syscall EXCEPT ![p] = FALSE]
  /\ Goto(p, "spin")
  /\ UNCHANGED <<rendezVars, swipend, arg, tgt, intwait, sig>>

\* Mutant of OsLeave: Proc.syscall is left set.
OsLeaveStays(p) ==
  /\ pc[p] = "leave"
  /\ eintr' = [eintr EXCEPT ![p] = swipend[p]]
  /\ swipend' = [swipend EXCEPT ![p] = FALSE]
  /\ Goto(p, "spin")
  /\ UNCHANGED <<rendezVars, syscall, arg, tgt, intwait, sig>>

(* Under up->sysio: the process can no longer be interrupted.              *)
OsLeave(p) ==
  /\ pc[p] = "leave"
  /\ eintr' = [eintr EXCEPT ![p] = swipend[p]]
  /\ swipend' = [swipend EXCEPT ![p] = FALSE]
  /\ syscall' = [syscall EXCEPT ![p] = FALSE]
  /\ Goto(p, "spin")
  /\ UNCHANGED <<rendezVars, arg, tgt, intwait, sig>>

(* while(up->intwait); then error(Eintr) or return.                        *)
OsLeft(p) ==
  /\ pc[p] = "spin"
  /\ ~intwait[p]
  /\ eintr' = [eintr EXCEPT ![p] = FALSE]
  /\ Goto(p, "idle")
  /\ UNCHANGED <<rendezVars, swipend, arg, tgt, syscall, intwait, sig>>

(* The signal handler.  It cuts a call of the host short unless it comes   *)
(* just before the process enters the host.                                *)
TrapUSR1(p) ==
  /\ sig[p]
  /\ sig' = [sig EXCEPT ![p] = FALSE]
  /\ intwait' = IF p \in Interps THEN [intwait EXCEPT ![p] = FALSE] ELSE intwait
  /\ \/ pc[p] = "host" /\ Goto(p, "leave")
     \/ UNCHANGED pc
  /\ UNCHANGED <<rendezVars, swipend, arg, tgt, syscall, eintr>>

-----------------------------------------------------------------------------
Init ==
  /\ rp = [r \in Rendezes |-> None]
  /\ lk = [r \in Rendezes |-> None]
  /\ cond = [r \in Rendezes |-> FALSE]
  /\ pr = [p \in Users |-> None]
  /\ swipend = [p \in Users |-> FALSE]
  /\ syscall = [p \in Users |-> FALSE]
  /\ intwait = [p \in Users |-> FALSE]
  /\ sig = [p \in Users |-> FALSE]
  /\ pc = [p \in Procs |-> "idle"]
  /\ arg = [p \in Procs |-> None]
  /\ tgt = [p \in Procs |-> None]
  /\ eintr = [p \in Users |-> FALSE]

SleepStep(p) == SleepReady(p) \/ SleepWait(p) \/ SleepReturn(p)
HostStep(p)  == OsLeave(p) \/ OsLeft(p)
WakeStep(w)  == Wakeup(w) \/ Meet(w)
SwiStep(k)   == SwiRead(k) \/ SwiLock(k) \/ SwiHost(k) \/ HostIntr(k) \/ Meet(k)

Next ==
  \/ \E p \in Users : \/ SleepStep(p) \/ HostStep(p) \/ TrapUSR1(p)
                      \/ OsEnter(p) \/ HostReturn(p)
                      \/ \E r \in Rendezes : SleepStart(p, r)
  \/ \E w \in Wakers : WakeStep(w) \/ \E r \in Rendezes : Event(w, r)
  \/ \E k \in Killers : SwiStep(k) \/ \E p \in Users : SwiStart(k, p)

Spec == Init /\ [][Next]_vars

(* What has been begun goes on: locks are spun for, and the host delivers  *)
(* signals.  Nobody is bound to sleep, to wake, to interrupt or to leave a *)
(* call of the host.                                                       *)
Fairness ==
  /\ \A p \in Users : /\ SF_vars(SleepReady(p)) /\ SF_vars(SleepWait(p))
                      /\ WF_vars(SleepReturn(p))
                      /\ WF_vars(HostStep(p)) /\ WF_vars(TrapUSR1(p))
  /\ \A w \in Wakers : SF_vars(Wakeup(w)) /\ WF_vars(Meet(w))
  /\ \A k \in Killers : /\ WF_vars(SwiRead(k)) /\ SF_vars(SwiLock(k))
                        /\ WF_vars(SwiHost(k)) /\ WF_vars(HostIntr(k))
                        /\ WF_vars(Meet(k))

FairSpec == Spec /\ Fairness

-----------------------------------------------------------------------------
TypeOK ==
  /\ rp \in [Rendezes -> Sleepers \cup {None}]
  /\ lk \in [Rendezes -> Wakers \cup Killers \cup {None}]
  /\ cond \in [Rendezes -> BOOLEAN]
  /\ pr \in [Users -> Rendezes \cup {None}]
  /\ swipend \in [Users -> BOOLEAN]
  /\ syscall \in [Users -> BOOLEAN]
  /\ intwait \in [Users -> BOOLEAN]
  /\ sig \in [Users -> BOOLEAN]
  /\ pc \in [Procs -> PC]
  /\ arg \in [Procs -> Rendezes \cup {None}]
  /\ tgt \in [Procs -> Users \cup {None}]
  /\ eintr \in [Users -> BOOLEAN]
  /\ \A p \in Users : syscall[p] <=> pc[p] \in {"host", "leave"}

Meeting(w, p) == pc[w] = "meet" /\ tgt[w] = p

\* A sleeper is either listed in the Rendez it sleeps on, where Wakeup and
\* swiproc find it, or taken by exactly one of them; nobody else is going to be
\* met, and a Rendez lists nobody who has gone, so that Sleep does not panic.
SleeperFound ==
  LET Meeters(p) == {w \in Wakers \cup Killers : Meeting(w, p)} IN
  /\ \A r \in Rendezes : rp[r] # None => pc[rp[r]] = "rendez" /\ arg[rp[r]] = r
  /\ \A p \in Sleepers :
       pc[p] = "rendez" =>
         \/ rp[arg[p]] = p /\ pr[p] = arg[p] /\ Meeters(p) = {}
         \/ rp[arg[p]] # p /\ pr[p] = None /\ Cardinality(Meeters(p)) = 1

\* A process whose call of the host was interrupted, and only such a process,
\* leaves osleave with error(Eintr), and the handler of the signal finds that
\* swiproc has posted it (else the process takes Eintr for a fault and exits:
\* "should never happen").
InterruptReported ==
  \A p \in Users :
    /\ sig[p] => intwait[p]
    /\ pc[p] = "spin" /\ intwait[p] => eintr[p]
    /\ pc[p] \in {"host", "leave"} /\ intwait[p] => swipend[p]
    /\ pc[p] = "idle" => ~swipend[p] \/ \E k \in Killers : Meeting(k, p)

-----------------------------------------------------------------------------
\* Wakeup is not lost: a process does not sleep on once the event it waits
\* for has occurred.
WakeupWorks ==
  \A p \in Sleepers :
    pc[p] = "rendez" /\ cond[arg[p]] ~> pc[p] # "rendez"

\* The wait of osleave for the signal handler ends.
OsLeaveReturns == \A p \in Hosters : pc[p] = "spin" ~> pc[p] = "idle"

\* Neither Sleep nor osleave waits for what has happened already.
CallsReturn == WakeupWorks /\ OsLeaveReturns

=============================================================================
