------------------------------ MODULE VmSched ------------------------------
(***************************************************************************)
(* What the kernel processes of emu/dis.c do with the virtual machine when *)
(* they own it: the queue of ready Dis threads (Progs), the loop of        *)
(* vmachine(), system calls, the exit and the killing of Progs, and the    *)
(* garbage collector that runs between quanta.  Every action that takes or *)
(* gives the machine is the conjunction of a step of VmToken and of what   *)
(* happens to the Progs.                                                   *)
(*                                                                         *)
(* A process that is not an interpreter stands on the run queue as a Prog  *)
(* of its own (up->prog, see addprog); here it is named by the process.    *)
(* The release() of freerdchan(), under the collector or under destroy(),  *)
(* stands for every finaliser that gives the machine up.                   *)
(***************************************************************************)
EXTENDS VmToken

CONSTANTS Root,       \* the first one
          Rescuers,   \* the ones that have a handler for their exceptions
          Killers,    \* the ones that write to control files
          MaxCycles   \* the 2 of "++cycles > 2" in vmachine()

ASSUME ProgsAssumption ==
  /\ Root \in Progs
  /\ Rescuers \subseteq Progs /\ Killers \subseteq Progs
  /\ Progs \cap Procs = {}
  /\ MaxCycles \in Nat

VARIABLES runq,     \* isched.runhd .. runtl
          pstate,   \* Prog.state, "none" before newprog and after delprog
          kill,     \* Prog.kill: the Prog must die when it runs next
          iprog,    \* up->iprog: the Prog of an interpreter without the machine
          step,     \* where a process is when it has the machine
          cycles,   \* quanta since the vmachine let the waiting processes in
          gchalt    \* gclock(): the collector must not run

progVars  == <<runq, pstate, kill, iprog>>
schedVars == <<runq, pstate, kill, iprog, step, cycles, gchalt>>
vars      == <<tokenVars, schedVars>>

GcSteps == {"idlegc", "busygc", "idleend", "busyend"}
\* Where a process is after release().
OffSteps == {"sys", "sys2", "exit", "kill", "free", "idlefree", "busyfree", "off"}
Steps == {"loop", "sleep", "poll", "pick", "xec", "post", "back", "ctl", "halt"}
           \cup GcSteps \cup OffSteps

\* up->type == Interp
Interp(p) == p \in Vms /\ step[p] \notin GcSteps \cup {"idlefree", "busyfree"}

At(p, s)    == pc[p] = "run" /\ step[p] = s
Then(p, s)  == step' = [step EXCEPT ![p] = s]
TReady      == runq # <<>> \/ vmq # <<>>
Ready(q)    == pstate[q] = "ready"
CurRun      == Head(runq)

\* The Progs on the list isched.head, which killprog() can find.
Exists(q)   == pstate[q] \notin {"none", "exiting"}

-----------------------------------------------------------------------------
(***************************************************************************)
(* The Prog's side of release() and acquire().                             *)
(***************************************************************************)
(* isave(), or delrun(Prelease): the current Prog leaves the run queue.    *)
Drop(p, state) ==
  /\ runq' = Tail(runq)
  /\ IF Interp(p)
       THEN /\ iprog' = [iprog EXCEPT ![p] = CurRun]
            /\ pstate' = [pstate EXCEPT ![CurRun] = state]
       ELSE UNCHANGED <<iprog, pstate>>

\* Mutant of Restore: the Prog goes to the end of the run queue.
RestoreLast(p) ==
  IF Interp(p)
    THEN /\ runq' = Append(runq, iprog[p])
         /\ pstate' = [pstate EXCEPT ![iprog[p]] = "ready"]
         /\ iprog' = [iprog EXCEPT ![p] = None]
    ELSE runq' = Append(runq, p) /\ UNCHANGED <<pstate, iprog>>

(* irestore(): the process's Prog is the first again.                      *)
Restore(p) ==
  IF Interp(p)
    THEN /\ runq' = <<iprog[p]>> \o runq
         /\ pstate' = [pstate EXCEPT ![iprog[p]] = "ready"]
         /\ iprog' = [iprog EXCEPT ![p] = None]
    ELSE runq' = <<p>> \o runq /\ UNCHANGED <<pstate, iprog>>

\* An owner that keeps the machine and does not touch a Prog.
Move(p, s) == Then(p, s) /\ UNCHANGED <<tokenVars, progVars, gchalt>>

-----------------------------------------------------------------------------
(***************************************************************************)
(* vmachine()                                                              *)
(***************************************************************************)
(* Nothing to do: execatidle() collects with up->prog as the only Prog.    *)
Loop(v) ==
  /\ At(v, "loop")
  /\ UNCHANGED cycles
  /\ \/ TReady /\ Move(v, "poll")
     \/ ~TReady /\ gchalt > 0 /\ Move(v, "sleep")
     \/ /\ ~TReady /\ gchalt = 0
        /\ runq' = Append(runq, v)
        /\ Then(v, "idlegc")
        /\ UNCHANGED <<tokenVars, pstate, kill, iprog, gchalt>>

(* The pass ends and delrunq(up->prog).                                    *)
GcDone(v) ==
  /\ pc[v] = "run" /\ step[v] \in GcSteps
  /\ runq' = RemoveFirst(runq, v)
  /\ Then(v, IF step[v] \in {"idlegc", "idleend"} THEN "sleep" ELSE "loop")
  /\ UNCHANGED <<tokenVars, pstate, kill, iprog, cycles, gchalt>>

\* Mutant of GcFree: t->free() is not bracketed by gclock().
GcFreeUnlocked(v) ==
  /\ pc[v] = "run" /\ step[v] \in {"idlegc", "busygc"}
  /\ Release(v) /\ Drop(v, "released")
  /\ Then(v, IF step[v] = "idlegc" THEN "idlefree" ELSE "busyfree")
  /\ UNCHANGED <<kill, cycles, gchalt>>

(* The pass sweeps the channel of a file: gclock(), then freerdchan().     *)
(* Bound: one such channel in a pass.                                      *)
GcFree(v) ==
  /\ pc[v] = "run" /\ step[v] \in {"idlegc", "busygc"}
  /\ gchalt' = gchalt + 1
  /\ Release(v) /\ Drop(v, "released")
  /\ Then(v, IF step[v] = "idlegc" THEN "idlefree" ELSE "busyfree")
  /\ UNCHANGED <<kill, cycles>>

\* Mutant of Sleep: the run queue is not looked at again after execatidle().
SleepOnVmq(v) ==
  /\ At(v, "sleep")
  /\ \/ vmq # <<>> /\ IrendUnlocked /\ UNCHANGED tokenVars
     \/ SleepOwner(v)
  /\ Then(v, "poll")
  /\ UNCHANGED <<progVars, cycles, gchalt>>

(* Sleep(&isched.irend, tready)                                            *)
Sleep(v) ==
  /\ At(v, "sleep")
  /\ \/ TReady /\ IrendUnlocked /\ UNCHANGED tokenVars
     \/ ~TReady /\ SleepOwner(v)
  /\ Then(v, "poll")
  /\ UNCHANGED <<progVars, cycles, gchalt>>

\* Mutant of Poll: the vmachine gives way only when it has no Prog.
PollWhenEmpty(v) ==
  /\ At(v, "poll")
  /\ IF vmq # <<>> /\ runq = <<>> THEN IYield(v) ELSE UNCHANGED tokenVars
  /\ Then(v, "pick")
  /\ UNCHANGED <<progVars, cycles, gchalt>>

(* Let a waiting process in when there is no Prog, or after MaxCycles.     *)
Poll(v) ==
  /\ At(v, "poll")
  /\ \/ /\ vmq # <<>> /\ (runq = <<>> \/ cycles[v] + 1 > MaxCycles)
        /\ IYield(v)
        /\ cycles' = [cycles EXCEPT ![v] = 0]
     \/ /\ vmq # <<>> /\ runq # <<>> /\ cycles[v] + 1 <= MaxCycles
        /\ cycles' = [cycles EXCEPT ![v] = @ + 1]
        /\ UNCHANGED tokenVars
     \/ vmq = <<>> /\ UNCHANGED <<cycles, tokenVars>>
  /\ Then(v, "pick")
  /\ UNCHANGED <<progVars, gchalt>>

(* r = isched.runhd; with no Prog the loop starts again.                   *)
Pick(v) ==
  /\ At(v, "pick")
  /\ Move(v, IF runq = <<>> THEN "loop" ELSE "xec")
  /\ UNCHANGED cycles

(* r->xec(r) has returned; every 256th time, and if there is a Prog, the   *)
(* collector runs with up->prog pushed on the run queue.                   *)
Post(v) ==
  /\ At(v, "post")
  /\ UNCHANGED <<cycles, tokenVars, pstate, kill, iprog, gchalt>>
  /\ \/ Then(v, "loop") /\ UNCHANGED runq
     \/ /\ runq # <<>> /\ gchalt = 0
        /\ runq' = <<v>> \o runq            \* pushrun
        /\ Then(v, "busygc")

-----------------------------------------------------------------------------
(***************************************************************************)
(* xec(): the current Prog runs for a quantum.                             *)
(***************************************************************************)
Running(v) == At(v, "xec") /\ ~kill[CurRun]

\* vmachine puts a Prog that is still the first behind the others.
Rotated == IF Len(runq) > 1 THEN Append(Tail(runq), CurRun) ELSE runq

\* Mutant of Quantum: the Prog stays the first.
QuantumUnrotated(v) ==
  /\ Running(v) \/ At(v, "back")
  /\ Then(v, "post")
  /\ UNCHANGED <<tokenVars, progVars, cycles, gchalt>>

(* The quantum is over, or an instruction that set R.IC to 1 is.           *)
Quantum(v) ==
  /\ Running(v) \/ At(v, "back")
  /\ runq' = Rotated
  /\ Then(v, "post")
  /\ UNCHANGED <<tokenVars, pstate, kill, iprog, cycles, gchalt>>

(* delrun(): the Prog waits for a channel.                                 *)
Block(v) ==
  /\ Running(v)
  /\ runq' = Tail(runq)
  /\ pstate' = [pstate EXCEPT ![CurRun] = "blocked"]
  /\ Then(v, "post")
  /\ UNCHANGED <<tokenVars, kill, iprog, cycles, gchalt>>

(* addrun(): a channel operation, of a Prog or of another kernel process,  *)
(* lets the Prog q go on.                                                  *)
AddRun(p, q) ==
  /\ Running(p) \/ (p \in Slaves /\ At(p, "ctl"))
  /\ pstate[q] = "blocked"
  /\ runq' = Append(runq, q)
  /\ pstate' = [pstate EXCEPT ![q] = "ready"]
  /\ UNCHANGED <<tokenVars, kill, iprog, step, cycles, gchalt>>

(* newprog()                                                               *)
NewProg(v, q) ==
  /\ Running(v)
  /\ pstate[q] = "none"
  /\ runq' = Append(runq, q)
  /\ pstate' = [pstate EXCEPT ![q] = "ready"]
  /\ UNCHANGED <<tokenVars, kill, iprog, step, cycles, gchalt>>

(* A system call gives the machine up while it may wait.                   *)
SysCall(v) ==
  /\ Running(v)
  /\ Release(v) /\ Drop(v, "released")
  /\ Then(v, "sys")
  /\ UNCHANGED <<kill, cycles, gchalt>>

(* destroy() of the channel of a file, under gclock().                     *)
Free(v) ==
  /\ Running(v)
  /\ gchalt' = gchalt + 1
  /\ Release(v) /\ Drop(v, "released")
  /\ Then(v, "free")
  /\ UNCHANGED <<kill, cycles>>

(* error() that handler() does not match: progexit(), to the release() in  *)
(* delprog(), which has taken the Prog off the list.                       *)
Exit(v) ==
  /\ At(v, "xec") \/ At(v, "back")
  /\ gchalt' = gchalt + 1
  /\ Release(v) /\ Drop(v, "exiting")
  /\ Then(v, "exit")
  /\ UNCHANGED <<kill, cycles>>

(* progexit() of a Prog that has faulted: it is kept, for a debugger.      *)
Break(v) ==
  /\ Running(v) \/ At(v, "back")
  /\ runq' = Tail(runq)
  /\ pstate' = [pstate EXCEPT ![CurRun] = "broken"]
  /\ Then(v, "loop")
  /\ cycles' = [cycles EXCEPT ![v] = 0]
  /\ UNCHANGED <<tokenVars, kill, iprog, gchalt>>

(* error() that handler() matches: the vmachine starts again, with the     *)
(* same Prog at the head of the run queue and the count of quanta reset.   *)
Rescue(v) ==
  /\ Running(v) \/ At(v, "back")
  /\ CurRun \in Rescuers
  /\ kill' = [kill EXCEPT ![CurRun] = FALSE]
  /\ Then(v, "loop")
  /\ cycles' = [cycles EXCEPT ![v] = 0]
  /\ UNCHANGED <<tokenVars, runq, pstate, iprog, gchalt>>

-----------------------------------------------------------------------------
(***************************************************************************)
(* Processes that come back for the machine.                               *)
(***************************************************************************)
(* acquire(), up to its wait.                                              *)
Return(p) ==
  /\ Acquire(p)
  /\ UNCHANGED schedVars

\* Where a process that has released the machine in gclock() goes on.
Resumed == [kill |-> "ctl", free |-> "back",
            idlefree |-> "idleend", busyfree |-> "busyend"]

(* The end of acquire(), and what follows it at once.  A Prog that exits   *)
(* is freed by delprog(); with the last of them the emulator stops.        *)
Resume(p) ==
  /\ pc[p] = "run" /\ step[p] \in OffSteps
  /\ \/ /\ step[p] \in {"sys", "sys2"}
        /\ Then(p, "back") /\ Restore(p) /\ UNCHANGED <<kill, cycles, gchalt>>
     \/ /\ (step[p] = "sys" /\ iprog[p] \in Killers) \/ step[p] = "off"
        /\ Then(p, "ctl") /\ Restore(p) /\ UNCHANGED <<kill, cycles, gchalt>>
     \/ /\ step[p] \in {"kill", "free", "idlefree", "busyfree"}
        /\ Then(p, Resumed[step[p]])
        /\ gchalt' = gchalt - 1
        /\ Restore(p) /\ UNCHANGED <<kill, cycles>>
     \/ /\ step[p] = "exit"
        /\ Then(p, IF \E q \in Progs : Exists(q) THEN "loop" ELSE "halt")
        /\ gchalt' = gchalt - 1
        /\ cycles' = [cycles EXCEPT ![p] = 0]
        /\ pstate' = [pstate EXCEPT ![iprog[p]] = "none"]
        /\ kill' = [kill EXCEPT ![iprog[p]] = FALSE]
        /\ iprog' = [iprog EXCEPT ![p] = None]
        /\ UNCHANGED runq
  /\ UNCHANGED tokenVars

(* A system call that took the machine for a while, or a slave, is done.   *)
(* Bound: a system call takes it once before it returns.                   *)
CtlDone(p) ==
  /\ At(p, "ctl")
  /\ Release(p) /\ Drop(p, "released")
  /\ Then(p, IF p \in Vms THEN "sys2" ELSE "off")
  /\ UNCHANGED <<kill, cycles, gchalt>>

\* Mutant of KillProg: a ready Prog is not taken off the run queue.
KillProgQueued(v, q) ==
  /\ v \in Vms /\ At(v, "ctl")
  /\ Exists(q) /\ q # CurRun /\ pstate[q] # "released"
  /\ gchalt' = gchalt + 1
  /\ Release(v)
  /\ runq' = Tail(runq)
  /\ pstate' = [pstate EXCEPT ![q] = "none", ![CurRun] = "released"]
  /\ kill' = [kill EXCEPT ![q] = FALSE]
  /\ iprog' = [iprog EXCEPT ![v] = CurRun]
  /\ Then(v, "kill")
  /\ UNCHANGED cycles

(* killprog(), from a write to a control file: q dies at once, unless it   *)
(* is the current Prog or in a system call and must see to it itself.      *)
KillProg(v, q) ==
  /\ v \in Vms /\ At(v, "ctl")
  /\ Exists(q)
  /\ IF q = CurRun \/ pstate[q] = "released"
       THEN /\ kill' = [kill EXCEPT ![q] = TRUE]
            /\ UNCHANGED <<tokenVars, runq, pstate, iprog, step, cycles, gchalt>>
       ELSE /\ gchalt' = gchalt + 1
            /\ Release(v)
            /\ runq' = Tail(RemoveFirst(runq, q))
            /\ pstate' = [pstate EXCEPT ![q] = "none", ![CurRun] = "released"]
            /\ kill' = [kill EXCEPT ![q] = FALSE]
            /\ iprog' = [iprog EXCEPT ![v] = CurRun]
            /\ Then(v, "kill")
            /\ UNCHANGED cycles

\* The steps of the protocol that are of no concern to the Progs.
Pass(p) ==
  /\ \/ WakeOwner(p) \/ Startup(p)
     \/ \E q \in Procs : Meet(p, q)
     \/ \E v \in Vms : SpawnVm(p, v)
  /\ UNCHANGED schedVars

\* cleanexit(0)
Halt(p) == At(p, "halt") /\ UNCHANGED vars

Halted == \E p \in Vms : At(p, "halt")

-----------------------------------------------------------------------------
\* schedmod() has made the first Prog.
Init ==
  /\ TokenInit
  /\ runq = <<Root>>
  /\ pstate = [q \in Progs |-> IF q = Root THEN "ready" ELSE "none"]
  /\ kill = [q \in Progs |-> FALSE]
  /\ iprog = [v \in Vms |-> None]
  /\ step = [p \in Procs |-> IF p \in Vms THEN "loop" ELSE "off"]
  /\ cycles = [v \in Vms |-> 0]
  /\ gchalt = 0

Owned(v) ==
  \/ Loop(v) \/ GcDone(v) \/ GcFree(v) \/ Sleep(v) \/ Poll(v) \/ Pick(v) \/ Post(v)
  \/ Quantum(v) \/ Block(v) \/ SysCall(v) \/ Free(v) \/ Exit(v) \/ Break(v)
  \/ Rescue(v)
  \/ \E q \in Progs : AddRun(v, q) \/ NewProg(v, q) \/ KillProg(v, q)
  \/ Resume(v) \/ CtlDone(v) \/ Halt(v)

Next == \E p \in Procs : Pass(p) \/ Return(p) \/ Owned(p)

Spec == Init /\ [][Next]_vars

(* A process goes on as long as it can, but need not come back from a wait *)
(* outside the emulator (a system call, a slave without a request).        *)
Waits(p) == step[p] \in {"sys", "sys2", "off"}

Fairness ==
  \A p \in Procs :
    WF_vars(Pass(p) \/ Owned(p) \/ (~Waits(p) /\ Return(p)))

FairSpec == Spec /\ Fairness

-----------------------------------------------------------------------------
TypeOK ==
  /\ TokenTypeOK
  /\ runq \in Seq(Progs \cup Procs)
  /\ pstate \in [Progs -> {"none", "ready", "blocked", "released", "broken", "exiting"}]
  /\ kill \in [Progs -> BOOLEAN]
  /\ iprog \in [Vms -> Progs \cup {None}]
  /\ step \in [Procs -> Steps]
  /\ cycles \in [Vms -> 0 .. MaxCycles]
  /\ gchalt \in Nat

\* release() takes the head of the run queue for the Prog of its caller
\* (isave, delrun): whoever has the machine in the middle of something that
\* may release it finds its own Prog there, whatever others did meanwhile.
HeadIsOwn ==
  \A p \in Procs :
    pc[p] = "run" =>
      /\ step[p] \in {"xec", "back", "ctl"} /\ Interp(p) => runq # <<>> /\ CurRun \in Progs
      /\ step[p] \in GcSteps \cup {"ctl"} /\ ~Interp(p) => runq # <<>> /\ CurRun = p
      /\ step[p] \notin GcSteps \cup {"ctl"} => ToSet(runq) \subseteq Progs

\* Every Prog is where its state says: a ready one is on the run queue,
\* once, and a released one belongs to the one process that will restore it.
ProgsAccounted ==
  /\ IsInjective(runq)
  /\ \A q \in Progs :
       /\ Ready(q) <=> q \in ToSet(runq)
       /\ pstate[q] \in {"released", "exiting"} => \E v \in Vms : iprog[v] = q
  /\ \A v, w \in Vms : iprog[v] # None /\ iprog[v] = iprog[w] => v = w
  /\ \A v \in Vms : iprog[v] # None => pstate[iprog[v]] \in {"released", "exiting"}

\* The collector keeps its place in the heap in static variables: one process
\* at a time is in rungc(), although a finaliser may release the machine there.
OneCollector ==
  /\ \A p, q \in Procs :
       step[p] \in GcSteps \cup {"idlefree", "busyfree"}
       /\ step[q] \in GcSteps \cup {"idlefree", "busyfree"} => p = q

\* The poll of vmachine() is enough for Sleep: its panic cannot happen, for
\* nobody is asleep on isched.irend when the owner goes to sleep there; and the
\* owner does not sleep while a Prog is ready.
SleepSound ==
  /\ \A v \in Procs : At(v, "sleep") => irend = None
  /\ irend # None => runq = <<>>

\* release() makes a vmachine only when all others are busy, so that there
\* are never more than the Progs in system calls, one under the collector's
\* finaliser, and one.
PoolSuffices ==
  \A p \in Procs : pc[p] = "spawn" => \E v \in Vms : pc[v] = "unborn"

\* What the vmachines take for granted of each other: who collects, who
\* sleeps, and that there are enough of them.
VmsSound == OneCollector /\ SleepSound /\ PoolSuffices

-----------------------------------------------------------------------------
\* A process that asks for the machine gets it.
AcquireServed == \A p \in Procs : pc[p] \in WaitPC ~> pc[p] = "run" \/ Halted

\* A ready Prog gets to run, or is no longer ready.
ReadyRuns ==
  \A q \in Progs :
    Ready(q) ~> ~Ready(q) \/ \E v \in Vms : At(v, "xec") /\ CurRun = q

=============================================================================
