------------------------------ MODULE VmToken ------------------------------
(***************************************************************************)
(* The protocol by which the kernel processes of the hosted emulator pass  *)
(* the Dis virtual machine from one to another (emu/dis.c).  Only the      *)
(* process that owns the machine may touch Dis state; it is not protected  *)
(* by a lock but handed over: release() gives it to a process queued by    *)
(* acquire() or iyield(), or marks it idle and makes a new vmachine kproc. *)
(*                                                                         *)
(* A critical section under isched.l (or irend.l) is one step.  So is a    *)
(* meeting in erendezvous(tag), where two processes that have come with    *)
(* the same tag go on and a single one sleeps; the tags are processes, and *)
(* a process sleeps on itself until another names it.                      *)
(* What the owner does with the machine is in VmSched.                     *)
(***************************************************************************)
EXTENDS Dis, Integers, SequencesExt

CONSTANTS Vms,      \* kernel processes that run vmachine(), born or not
          Slaves,   \* kernel processes of other types that use the machine
          Main      \* the process of disinit(), the first vmachine

Procs == Vms \cup Slaves

ASSUME ProcsAssumption ==
  /\ Main \in Vms
  /\ Vms \cap Slaves = {}
  /\ None \notin Procs

VARIABLES idle,      \* isched.idle: nobody owns the machine
          creating,  \* isched.creating: a vmachine kproc is being made
          vmq,       \* isched.vmq: processes that wait in acquire()
          idlevmq,   \* isched.idlevmq: a stack of vmachines without work
          irend,     \* isched.irend.p: the owner, asleep for want of work
          tgt,       \* the tag on which a process wakes another, else itself
          pc         \* where each process is

tokenVars == <<idle, creating, vmq, idlevmq, irend, tgt, pc>>

(***************************************************************************)
(* Where a process is.  "run" and "sleepw" own the machine.                *)
(***************************************************************************)
SelfWait == {"acqw", "yieldw", "stwait", "sleepw"}  \* erendezvous(up)
HandOff  == {"relto", "yieldto"}                    \* erendezvous(p), to give p the machine
Waking   == {"wakerv"}                              \* erendezvous(p), in Wakeup
PC == {"unborn", "startup", "out", "spawn", "wake", "run"}
        \cup SelfWait \cup HandOff \cup Waking

\* Where erendezvous returns to.
After(c) == IF c = "relto" THEN "out"
            ELSE IF c = "wakerv" THEN "acqw"
            ELSE IF c = "yieldto" THEN "yieldw"
            ELSE "run"

Goto(p, c) == pc' = [pc EXCEPT ![p] = c]

-----------------------------------------------------------------------------
(* erendezvous(p) of w meets erendezvous(up) of p.                         *)
Meet(w, p) ==
  /\ pc[w] \in HandOff \cup Waking
  /\ pc[p] \in SelfWait
  /\ tgt[w] = p
  /\ pc' = [pc EXCEPT ![w] = After(@), ![p] = After(@)]
  /\ tgt' = [tgt EXCEPT ![w] = w]
  /\ UNCHANGED <<idle, creating, vmq, idlevmq, irend>>

\* Mutant of Acquire: isched.idle is left set.
AcquireKeepsIdle(p) ==
  /\ pc[p] = "out"
  /\ idle
  /\ Goto(p, "run")
  /\ UNCHANGED <<idle, creating, vmq, idlevmq, irend, tgt>>

(* acquire(): take an idle machine, or queue for it and, if the queue was  *)
(* empty, wake the owner that may sleep in vmachine's Sleep(&irend).       *)
Acquire(p) ==
  /\ pc[p] = "out"
  /\ \/ /\ idle
        /\ idle' = FALSE
        /\ Goto(p, "run")
        /\ UNCHANGED vmq
     \/ /\ ~idle
        /\ vmq' = Append(vmq, p)
        /\ Goto(p, IF vmq = <<>> THEN "wake" ELSE "acqw")
        /\ UNCHANGED idle
  /\ UNCHANGED <<creating, idlevmq, irend, tgt>>

\* Wakeup holds irend.l until the sleeper has met it.
IrendUnlocked == \A q \in Procs : pc[q] # "wakerv"

(* Wakeup(&isched.irend), called by acquire().                             *)
WakeOwner(p) ==
  /\ pc[p] = "wake"
  /\ IrendUnlocked
  /\ IF irend = None
       THEN Goto(p, "acqw") /\ UNCHANGED <<irend, tgt>>
       ELSE /\ irend' = None
            /\ tgt' = [tgt EXCEPT ![p] = irend]
            /\ Goto(p, "wakerv")
  /\ UNCHANGED <<idle, creating, vmq, idlevmq>>

(* release(): the machine goes to the head of vmq, else of idlevmq.         *)
HandOver(p) ==
  /\ \/ /\ vmq # <<>>
        /\ tgt' = [tgt EXCEPT ![p] = Head(vmq)]
        /\ vmq' = Tail(vmq)
        /\ UNCHANGED idlevmq
     \/ /\ vmq = <<>> /\ idlevmq # <<>>
        /\ tgt' = [tgt EXCEPT ![p] = Head(idlevmq)]
        /\ idlevmq' = Tail(idlevmq)
        /\ UNCHANGED vmq
  /\ Goto(p, "relto")
  /\ UNCHANGED <<idle, creating>>

(* It stays idle, and a vmachine is made unless one is on its way.         *)
LeaveIdle(p, c) ==
  /\ vmq = <<>> /\ idlevmq = <<>>
  /\ idle' = TRUE
  /\ creating' = TRUE
  /\ Goto(p, c)
  /\ UNCHANGED <<vmq, idlevmq, tgt>>

Release(p) ==
  /\ pc[p] = "run"
  /\ HandOver(p) \/ LeaveIdle(p, IF creating THEN "out" ELSE "spawn")
  /\ UNCHANGED irend

(* kproc("dis", vmachine): v is the process that is made.                  *)
SpawnVm(p, v) ==
  /\ pc[p] = "spawn"
  /\ pc[v] = "unborn"
  /\ pc' = [pc EXCEPT ![p] = "out", ![v] = "startup"]
  /\ UNCHANGED <<idle, creating, vmq, idlevmq, irend, tgt>>

(* startup(): a new vmachine takes an idle machine or joins the stack.     *)
Startup(v) ==
  /\ v \in Vms
  /\ pc[v] = "startup"
  /\ creating' = FALSE
  /\ IF idle THEN idle' = FALSE /\ Goto(v, "run") /\ UNCHANGED idlevmq
             ELSE /\ idlevmq' = <<v>> \o idlevmq
                  /\ Goto(v, "stwait")
                  /\ UNCHANGED idle
  /\ UNCHANGED <<vmq, irend, tgt>>

\* Mutant of IYield: the vmachine does not join the stack.
IYieldUnlisted(v) ==
  /\ v \in Vms
  /\ pc[v] = "run"
  /\ vmq # <<>>
  /\ tgt' = [tgt EXCEPT ![v] = Head(vmq)]
  /\ vmq' = Tail(vmq)
  /\ Goto(v, "yieldto")
  /\ UNCHANGED <<idle, creating, idlevmq, irend>>

(* iyield(): a vmachine gives way to the head of vmq and joins the stack.  *)
IYield(v) ==
  /\ v \in Vms
  /\ pc[v] = "run"
  /\ vmq # <<>>
  /\ tgt' = [tgt EXCEPT ![v] = Head(vmq)]
  /\ vmq' = Tail(vmq)
  /\ idlevmq' = <<v>> \o idlevmq
  /\ Goto(v, "yieldto")
  /\ UNCHANGED <<idle, creating, irend>>

(* Sleep(&isched.irend, tready), by the owner, when there is no work.      *)
SleepOwner(v) ==
  /\ v \in Vms
  /\ pc[v] = "run"
  /\ vmq = <<>>
  /\ IrendUnlocked
  /\ irend' = v
  /\ Goto(v, "sleepw")
  /\ UNCHANGED <<idle, creating, vmq, idlevmq, tgt>>

-----------------------------------------------------------------------------
(* disinit() leaves the machine idle and goes on as a vmachine, whose      *)
(* startup() takes it before any other process has asked for it.           *)
TokenInit ==
  /\ idle = FALSE
  /\ creating = FALSE
  /\ vmq = <<>>
  /\ idlevmq = <<>>
  /\ irend = None
  /\ tgt = [p \in Procs |-> p]
  /\ pc = [p \in Procs |-> IF p = Main THEN "run"
                           ELSE IF p \in Vms THEN "unborn" ELSE "out"]

TokenNext ==
  \E p \in Procs :
    \/ Acquire(p) \/ WakeOwner(p) \/ Release(p)
    \/ Startup(p) \/ IYield(p) \/ SleepOwner(p)
    \/ \E q \in Procs : Meet(p, q)
    \/ \E v \in Vms : SpawnVm(p, v)

TokenSpec == TokenInit /\ [][TokenNext]_tokenVars

-----------------------------------------------------------------------------
\* The owners: those that run or sleep with the machine, and those that have
\* queued out the next owner and not met it yet.
Owners == {p \in Procs : pc[p] \in {"run", "sleepw"} \cup HandOff}

TokenTypeOK ==
  /\ idle \in BOOLEAN
  /\ creating \in BOOLEAN
  /\ vmq \in Seq(Procs)
  /\ idlevmq \in Seq(Vms)
  /\ irend \in Vms \cup {None}
  /\ tgt \in [Procs -> Procs]
  /\ pc \in [Procs -> PC]

\* The machine has at most one owner, and it is idle just when it has none:
\* it is neither duplicated nor lost by acquire, release, iyield and startup.
OneOwner ==
  /\ \A p, q \in Owners : p = q
  /\ idle <=> Owners = {}

\* irend.p names the owner that sleeps there, and an owner that sleeps with no
\* name there is being woken.  (If it were neither, Wakeup would never find it.)
SleeperKnown ==
  /\ irend # None => pc[irend] = "sleepw"
  /\ \A p \in Procs : pc[p] = "sleepw" /\ irend # p =>
       \E w \in Procs : pc[w] = "wakerv" /\ tgt[w] = p

\* A process that has queued while the owner sleeps is woken for: only the
\* first of the queue calls Wakeup, and that is enough.
WakeupComes ==
  irend # None /\ vmq # <<>> => pc[Head(vmq)] = "wake"

\* A vmachine is being made just when isched.creating says so, and one at a
\* time; an idle machine has one on its way.
Coming == {p \in Procs : pc[p] \in {"spawn", "startup"}}

VmComes ==
  /\ idle => creating
  /\ creating <=> Coming # {}
  /\ \A p, q \in Coming : p = q

(***************************************************************************)
(* A process that waits for the machine is on the queue of its kind, or it *)
(* has been taken off it by the owner that hands over to it.               *)
(***************************************************************************)
WaitPC == {"wake", "wakerv", "acqw"}
IdlePC == {"yieldw", "stwait"}

OnQueue ==
  /\ IsInjective(vmq) /\ IsInjective(idlevmq)
  /\ \A p \in ToSet(vmq) : pc[p] \in WaitPC
  /\ \A p \in ToSet(idlevmq) : pc[p] \in IdlePC \cup {"yieldto"}
  /\ \A p \in Procs : pc[p] = "yieldto" => p \in ToSet(idlevmq)
  /\ \A p \in Procs : pc[p] \in WaitPC \cup IdlePC =>
       \/ p \in ToSet(vmq) \cup ToSet(idlevmq)
       \/ \E w \in Procs : pc[w] \in HandOff /\ tgt[w] = p

Targets ==
  \A w \in Procs :
    /\ pc[w] \in HandOff => /\ pc[tgt[w]] \in WaitPC \cup IdlePC
                            /\ tgt[w] \notin ToSet(vmq) \cup ToSet(idlevmq)
    /\ pc[w] = "wakerv" => /\ pc[tgt[w]] = "sleepw"
                           /\ irend = None
                           /\ \A x \in Procs : pc[x] = "wakerv" => x = w

TokenInv ==
  /\ TokenTypeOK
  /\ OneOwner
  /\ SleeperKnown
  /\ WakeupComes
  /\ VmComes
  /\ OnQueue
  /\ Targets

=============================================================================
