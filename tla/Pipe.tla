-------------------------------- MODULE Pipe --------------------------------
(***************************************************************************)
(* The pipe device (emu/devpipe.c): opens and closes of the two ends.      *)
(*                                                                         *)
(* A pipe has two queues, each read by one end and written by the other,   *)
(* which share only the counts of opens.  This module has both ends and    *)
(* the queue q[0], which the processes at data0 read and those at data1    *)
(* write; q[1] is its mirror image.  A process has one channel to its end, *)
(* which it closes only when it is in no call (a call holds a reference to *)
(* its channel).  The root of the pipe stays mounted.                      *)
(***************************************************************************)
EXTENDS Qio

CONSTANT MaxOpens       \* bound: the number of opens

VARIABLES open,      \* the processes whose channel is open
          qref,      \* p->qref of the two ends
          pl,        \* the holder of p->l
          opens      \* number of opens

pipeVars == <<open, qref, pl, opens>>
vars == <<qioVars, pipeVars>>

End(p) == IF p \in Readers THEN 0 ELSE 1

Init ==
  /\ QioInit
  /\ open = {} /\ qref = [e \in 0 .. 1 |-> 0] /\ pl = None
  /\ opens = 0

(* pipeopen, and pipeclone of a channel that is open.                      *)
PipeOpen(p) ==
  /\ p \notin open /\ pc[p] = "idle" /\ pl = None
  /\ opens < MaxOpens
  /\ opens' = opens + 1
  /\ open' = open \cup {p}
  /\ qref' = [qref EXCEPT ![End(p)] = @ + 1]
  /\ UNCHANGED <<pl, qioVars>>

(* pipeclose: the last close of an end ...                                 *)
PipeClose(p) ==
  /\ p \in open /\ pc[p] = "idle" /\ pl = None
  /\ pl' = p
  /\ open' = open \ {p}
  /\ qref' = [qref EXCEPT ![End(p)] = @ - 1]
  /\ Goto(p, IF qref'[End(p)] = 0 THEN "pend" ELSE "pcheck")
  /\ UNCHANGED <<opens, queue, locks, rr, wr, call, res, writes>>

\* Mutant of PipeEnd: only the writer is woken.
PipeEndSilent(p) ==
  /\ pc[p] = "pend"
  /\ IF End(p) = 0 THEN QClose ELSE QHangup
  /\ Goto(p, "pwakew")
  /\ UNCHANGED <<locks, rr, wr, call, res, writes, pipeVars>>

(* ... closes the queue that it reads and hangs up the one that it writes, *)
PipeEnd(p) ==
  /\ pc[p] = "pend"
  /\ IF End(p) = 0 THEN QClose ELSE QHangup
  /\ Goto(p, "pwaker")
  /\ UNCHANGED <<locks, rr, wr, call, res, writes, pipeVars>>

(* ... which wakes the reader, then the writer.                            *)
PipeWakeReader(p) ==
  pc[p] = "pwaker" /\ WakeupReader(p, "pwakew") /\ UNCHANGED pipeVars

PipeWakeWriter(p) ==
  pc[p] = "pwakew" /\ WakeupWriter(p, "pcheck") /\ UNCHANGED pipeVars

(* If both sides are closed, they are reusable.                            *)
PipeCheck(p) ==
  /\ pc[p] = "pcheck"
  /\ IF qref[0] = 0 /\ qref[1] = 0 THEN QReopen ELSE UNCHANGED queue
  /\ pl' = None
  /\ Goto(p, "idle")
  /\ UNCHANGED <<open, qref, opens, locks, rr, wr, call, res, writes>>

PipeStep(p) == PipeEnd(p) \/ PipeWakeReader(p) \/ PipeWakeWriter(p) \/ PipeCheck(p)

Run(p) == (ReadStep(p) \/ WriteStep(p) \/ Error(p) \/ Done(p)) /\ UNCHANGED pipeVars

Lock(p) == (RLock(p) \/ WLock(p)) /\ UNCHANGED pipeVars

PipeCall(p) ==
  /\ p \in open
  /\ QRead(p) \/ QWrite(p)
  /\ UNCHANGED pipeVars

Next == \E p \in Users :
  \/ PipeOpen(p) \/ PipeClose(p) \/ PipeStep(p)
  \/ PipeCall(p) \/ Lock(p) \/ Run(p)
  \/ Interrupt(p) /\ UNCHANGED pipeVars

Spec == Init /\ [][Next]_vars

(***************************************************************************)
(* The host schedules every process, and QLocks are granted in turn.       *)
(* Nobody need open, close, read or write.                                 *)
(***************************************************************************)
Fairness == \A p \in Users : WF_vars(PipeStep(p) \/ Run(p)) /\ SF_vars(Lock(p))

FairSpec == Spec /\ Fairness

-----------------------------------------------------------------------------
Bytes(ss) == Cardinality(UNION {{i} \X DOMAIN ss[i] : i \in DOMAIN ss})

(***************************************************************************)
(* Types; q->len is the number of bytes queued; and who holds a QLock is   *)
(* where the lock is needed.                                               *)
(***************************************************************************)
TypeOK ==
  /\ state \subseteq {"Qstarve", "Qclosed", "Qflow"}
  /\ len = Bytes(blocks)
  /\ eof \in 0 .. EofMax + 1
  /\ rr # None => rr = rlock /\ pc[rr] = "rasleep"
  /\ wr # None => wr = wlock /\ pc[wr] = "wasleep"
  /\ \A r \in Readers :
       pc[r] \in {"rtest", "rsleep", "rasleep", "rsplit", "rwake", "runlock", "rerror"} <=> rlock = r
  /\ \A w \in Writers :
       pc[w] \in {"wtest", "wsleep", "wasleep", "wwake", "wunlock", "werror"} <=> wlock = w
  /\ rest # None <=> \E r \in Readers : pc[r] = "rsplit"
  /\ \A e \in 0 .. 1 : qref[e] = Cardinality({p \in open : End(p) = e})

(***************************************************************************)
(* A reader sleeps only while nothing is queued, or a wakeup is on its     *)
(* way: the bytes that arrive, or the hangup that comes, between its test  *)
(* and its sleep are not missed (qio.c:682-696, notempty).                 *)
(***************************************************************************)
WakesReader(p) == pc[p] \in {"wwake", "pend", "pwaker"}

ReaderWaits ==
  rr # None => \/ ~NotEmpty /\ "Qstarve" \in state
               \/ \E p \in Users : WakesReader(p)

(***************************************************************************)
(* A writer sleeps only while at least half the limit is queued and it is  *)
(* marked as flow controlled, so that the reader who goes below will wake  *)
(* it, or a wakeup is on its way (qio.c:704, 715, 804-816).                *)
(***************************************************************************)
WakesWriter(p) ==
  \/ pc[p] \in {"rsplit", "rwake"} /\ wake[p]
  \/ pc[p] \in {"pend", "pwaker", "pwakew"}

WriterWaits ==
  wr # None => \/ ~Closed /\ "Qflow" \in state /\ len >= Limit \div 2
               \/ \E p \in Users : WakesWriter(p)

\* Nobody sleeps on at either side of the queue.
SleepersWake == ReaderWaits /\ WriterWaits

(***************************************************************************)
(* The queue is what Stream promises.  A block that is being split is      *)
(* still the first one, and what goes in must wait for it at most.         *)
(***************************************************************************)
S == INSTANCE Stream WITH
       data <- IF rest = None THEN blocks ELSE <<rest>> \o blocks,
       hung <- Closed,
       High <- Limit + Chunk

StreamSpec == S!Spec

(***************************************************************************)
(* A call to read that finds bytes, or the other end closed, returns; a    *)
(* call to write returns as long as somebody reads (the promise of         *)
(* pipe(3) that the system mediates between producer and consumer).        *)
(***************************************************************************)
Reading(r) == pc[r] \in {"rlock", "rtest", "rsleep", "rasleep"}

ReadReturns == \A r \in Readers :
  /\ Reading(r) /\ Closed ~> pc[r] = "idle"
  /\ rr = r /\ blocks # <<>> ~> rr # r

WriteReturns ==
  ([]<>\E r \in Readers : Reading(r)) => \A w \in Writers : []<>(pc[w] = "idle")

\* Calls of either kind end.
CallsReturn == ReadReturns /\ WriteReturns
=============================================================================
