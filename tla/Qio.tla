-------------------------------- MODULE Qio --------------------------------
(***************************************************************************)
(* A queue of blocks (emu/qio.c): qread and qwrite by kernel processes,    *)
(* qhangup, qclose and qreopen by a device.  The device's processes, and   *)
(* when it closes the queue, are in the module that EXTENDS this one.      *)
(*                                                                         *)
(* A critical section under q->l is one step.  The QLocks are held by one  *)
(* process at a time and granted in turn (module RWlock).  A process that  *)
(* sleeps is taken off its Rendez by one Wakeup or by one interruption     *)
(* (module Rendez).  A block is the sequence of its bytes, a byte is the   *)
(* writer it comes from and its number.  The queue is one that qopen makes *)
(* for a pipe: it keeps no message boundaries and its writers wait.        *)
(***************************************************************************)
EXTENDS Naturals, FiniteSets, Sequences

CONSTANTS Readers, Writers,
          Limit,        \* q->limit, bytes
          Chunk,        \* the largest block that qwrite makes, 128*1024
          Sizes,        \* the number of bytes of a write
          Lens,         \* the number of bytes of a read
          MaxWrites,    \* bound: the writes of each writer
          EofMax,       \* the ends of file that are read before an error, 3
          None

Users == Readers \cup Writers

Byte == Writers \X Nat \X Nat
Outcomes == {"eof", "hungup", "written", "interrupted"}

ASSUME QioAssumption ==
  /\ Limit \in Nat \ {0} /\ Chunk \in Nat \ {0} /\ MaxWrites \in Nat /\ EofMax \in Nat
  /\ Sizes \subseteq Nat /\ Lens \subseteq Nat \ {0}
  /\ Readers \cap Writers = {}
  /\ None \notin Users \cup Nat \cup Seq(Byte) \cup Outcomes

VARIABLES blocks,    \* the blocks from q->bfirst to q->blast
          len,       \* q->len
          state,     \* q->state: the flags that are set
          eof,       \* q->eof
          rlock,     \* the holder of q->rlock
          wlock,     \* the holder of q->wlock
          rr,        \* the process asleep on q->rr
          wr,        \* the process asleep on q->wr
          rest,      \* the block that qbread has split off, with q->l unlocked
          wake,      \* dowakeup of each process
          pc,
          call,      \* what is still to be read (a number) or written (bytes)
          res,       \* what the call will return
          writes     \* number of writes begun

queue == <<blocks, len, state, eof>>
locks == <<rlock, wlock, rest, wake>>
qioVars == <<queue, locks, rr, wr, pc, call, res, writes>>

Closed == "Qclosed" \in state
Goto(p, c) == pc' = [pc EXCEPT ![p] = c]
First(b, n) == SubSeq(b, 1, IF n < Len(b) THEN n ELSE Len(b))
Rest(b, n) == SubSeq(b, n + 1, Len(b))

QioInit ==
  /\ blocks = <<>> /\ len = 0 /\ eof = 0 /\ state = {"Qstarve"}
  /\ rlock = None /\ wlock = None /\ rr = None /\ wr = None /\ rest = None
  /\ wake = [p \in Users |-> FALSE]
  /\ pc = [p \in Users |-> "idle"]
  /\ call = [p \in Users |-> None]
  /\ res = [p \in Users |-> None]
  /\ writes = [w \in Writers |-> 0]

Return(p, v) ==
  /\ call' = [call EXCEPT ![p] = None]
  /\ res' = [res EXCEPT ![p] = v]

-----------------------------------------------------------------------------
(***************************************************************************)
(* Wakeup(&q->rr) and Wakeup(&q->wr): a sleeper tests its queue again.     *)
(***************************************************************************)
WakeupReader(p, next) ==
  /\ rr' = None
  /\ pc' = [q \in Users |-> IF q = rr THEN "rtest" ELSE IF q = p THEN next ELSE pc[q]]
  /\ UNCHANGED <<queue, locks, wr, call, res, writes>>

WakeupWriter(p, next) ==
  /\ wr' = None
  /\ pc' = [q \in Users |-> IF q = wr THEN "wtest" ELSE IF q = p THEN next ELSE pc[q]]
  /\ UNCHANGED <<queue, locks, rr, call, res, writes>>

(* An interruption of a sleeper, whose Sleep then calls error().           *)
Interrupt(p) ==
  \/ /\ rr = p /\ rr' = None /\ Goto(p, "rerror")
     /\ UNCHANGED <<queue, locks, wr, call, res, writes>>
  \/ /\ wr = p /\ wr' = None /\ Goto(p, "werror")
     /\ UNCHANGED <<queue, locks, rr, call, res, writes>>

(* waserror(): the lock is given up; the block of qbwrite is not freed.    *)
Error(p) ==
  /\ \/ pc[p] = "rerror" /\ rlock' = None /\ UNCHANGED wlock
     \/ pc[p] = "werror" /\ wlock' = None /\ UNCHANGED rlock
  /\ Return(p, "interrupted")
  /\ Goto(p, "done")
  /\ UNCHANGED <<queue, rr, wr, rest, wake, writes>>

(* The call returns to its process.                                        *)
Done(p) ==
  /\ pc[p] = "done"
  /\ res' = [res EXCEPT ![p] = None]
  /\ Goto(p, "idle")
  /\ UNCHANGED <<queue, locks, rr, wr, call, writes>>

-----------------------------------------------------------------------------
(***************************************************************************)
(* qread and qbread                                                        *)
(***************************************************************************)
QRead(r) ==
  /\ pc[r] = "idle" /\ r \in Readers
  /\ \E n \in Lens : call' = [call EXCEPT ![r] = n]
  /\ Goto(r, "rlock")
  /\ UNCHANGED <<queue, locks, rr, wr, res, writes>>

RLock(r) ==
  /\ pc[r] = "rlock" /\ rlock = None
  /\ rlock' = r
  /\ Goto(r, "rtest")
  /\ UNCHANGED <<queue, wlock, rest, wake, rr, wr, call, res, writes>>


\* Mutant of ReadTest: the producer is not asked to wake the reader.
ReadTestUnflagged(r) ==
  /\ pc[r] = "rtest" /\ blocks = <<>>
  /\ IF Closed THEN rlock' = None /\ Goto(r, "reof") ELSE Goto(r, "rsleep") /\ UNCHANGED rlock
  /\ UNCHANGED <<queue, wlock, rest, wake, rr, wr, call, res, writes>>

(* Nothing is queued: the end of the file, or the producer is to say when. *)
ReadTest(r) ==
  /\ pc[r] = "rtest" /\ blocks = <<>>
  /\ IF Closed
       THEN rlock' = None /\ Goto(r, "reof") /\ UNCHANGED state
       ELSE state' = state \cup {"Qstarve"} /\ Goto(r, "rsleep") /\ UNCHANGED rlock
  /\ UNCHANGED <<blocks, len, eof, wlock, rest, wake, rr, wr, call, res, writes>>

(* ++q->eof > 3, after all locks have been given up.                       *)
ReadEof(r) ==
  /\ pc[r] = "reof"
  /\ eof' = IF eof > EofMax THEN eof ELSE eof + 1
  /\ Return(r, IF eof' > EofMax THEN "hungup" ELSE "eof")
  /\ Goto(r, "done")
  /\ UNCHANGED <<blocks, len, state, locks, rr, wr, writes>>

NotEmpty == Closed \/ blocks # <<>>

(* Sleep(&q->rr, notempty, q)                                              *)
ReadSleep(r) ==
  /\ pc[r] = "rsleep"
  /\ IF NotEmpty
       THEN Goto(r, "rtest") /\ UNCHANGED rr
       ELSE rr' = r /\ Goto(r, "rasleep")
  /\ UNCHANGED <<queue, locks, wr, call, res, writes>>

(* A flow controlled writer is to be restarted once half is free.          *)
Restart(left) == "Qflow" \in state /\ left < Limit \div 2

(* Remove the first block; what is too much of it is split off, with q->l  *)
(* unlocked, ...                                                           *)
ReadTake(r) ==
  LET b    == Head(blocks)
      left == len - Len(b)
      split == Len(b) > call[r]
  IN
  /\ pc[r] = "rtest" /\ blocks # <<>>
  /\ blocks' = Tail(blocks)
  /\ len' = left
  /\ state' = IF Restart(left) THEN state \ {"Qflow"} ELSE state
  /\ wake' = [wake EXCEPT ![r] = Restart(left)]
  /\ rest' = IF split THEN Rest(b, call[r]) ELSE None
  /\ Return(r, First(b, call[r]))
  /\ Goto(r, IF split THEN "rsplit" ELSE IF Restart(left) THEN "rwake" ELSE "runlock")
  /\ UNCHANGED <<eof, rlock, wlock, rr, wr, writes>>

\* Mutant of ReadSplit: the rest is put back without being counted.
ReadSplitUncounted(r) ==
  /\ pc[r] = "rsplit"
  /\ blocks' = <<rest>> \o blocks
  /\ rest' = None
  /\ Goto(r, IF wake[r] THEN "rwake" ELSE "runlock")
  /\ UNCHANGED <<len, state, eof, rlock, wlock, wake, rr, wr, call, res, writes>>

\* Mutant of ReadSplit: the rest is queued like a block that is written.
ReadSplitLast(r) ==
  /\ pc[r] = "rsplit"
  /\ blocks' = Append(blocks, rest)
  /\ len' = len + Len(rest)
  /\ rest' = None
  /\ Goto(r, IF wake[r] THEN "rwake" ELSE "runlock")
  /\ UNCHANGED <<state, eof, rlock, wlock, wake, rr, wr, call, res, writes>>

(* ... and put back at the head of the queue.                              *)
ReadSplit(r) ==
  /\ pc[r] = "rsplit"
  /\ blocks' = <<rest>> \o blocks
  /\ len' = len + Len(rest)
  /\ rest' = None
  /\ Goto(r, IF wake[r] THEN "rwake" ELSE "runlock")
  /\ UNCHANGED <<state, eof, rlock, wlock, wake, rr, wr, call, res, writes>>

ReadWake(r) == pc[r] = "rwake" /\ WakeupWriter(r, "runlock")

ReadUnlock(r) ==
  /\ pc[r] = "runlock"
  /\ rlock' = None
  /\ wake' = [wake EXCEPT ![r] = FALSE]
  /\ Goto(r, "done")
  /\ UNCHANGED <<queue, wlock, rest, rr, wr, call, res, writes>>

ReadStep(r) ==
  \/ ReadTest(r) \/ ReadEof(r) \/ ReadSleep(r) \/ ReadTake(r)
  \/ ReadSplit(r) \/ ReadWake(r) \/ ReadUnlock(r)

-----------------------------------------------------------------------------
(***************************************************************************)
(* qwrite and qbwrite                                                      *)
(***************************************************************************)
QWrite(w) ==
  /\ pc[w] = "idle" /\ w \in Writers
  /\ writes[w] < MaxWrites
  /\ writes' = [writes EXCEPT ![w] = @ + 1]
  /\ \E n \in Sizes : call' = [call EXCEPT ![w] = [i \in 1 .. n |-> <<w, writes[w], i>>]]
  /\ Goto(w, "wlock")
  /\ UNCHANGED <<queue, locks, rr, wr, res>>

WLock(w) ==
  /\ pc[w] = "wlock" /\ wlock = None
  /\ wlock' = w
  /\ Goto(w, "wtest")
  /\ UNCHANGED <<queue, rlock, rest, wake, rr, wr, call, res, writes>>

(* The queue has been closed: error().                                     *)
WriteClosed(w) ==
  /\ pc[w] = "wtest" /\ Closed
  /\ wlock' = None
  /\ Return(w, "hungup")
  /\ Goto(w, "done")
  /\ UNCHANGED <<queue, rlock, rest, wake, rr, wr, writes>>

(* The next block of qwrite's loop, if there is to be one.                 *)
Advance(w) ==
  LET more == Rest(call[w], Chunk) IN
  IF more # <<>>
    THEN call' = [call EXCEPT ![w] = more] /\ UNCHANGED res
    ELSE Return(w, "written")

WriteAppend(w) ==
  LET b == First(call[w], Chunk) IN
  /\ pc[w] = "wtest" /\ ~Closed /\ len < Limit
  /\ blocks' = Append(blocks, b)
  /\ len' = len + Len(b)
  /\ state' = state \ {"Qstarve"}
  /\ wake' = [wake EXCEPT ![w] = "Qstarve" \in state]
  /\ Advance(w)
  /\ Goto(w, IF wake'[w] THEN "wwake" ELSE "wunlock")
  /\ UNCHANGED <<eof, rlock, wlock, rest, rr, wr, writes>>

(* No room: the writer will sleep.                                         *)
WriteFull(w) ==
  /\ pc[w] = "wtest" /\ ~Closed /\ len >= Limit
  /\ state' = state \cup {"Qflow"}
  /\ Goto(w, "wsleep")
  /\ UNCHANGED <<blocks, len, eof, locks, rr, wr, call, res, writes>>

NotFull == len < Limit \/ Closed

(* Sleep(&q->wr, qnotfull, q)                                              *)
WriteSleep(w) ==
  /\ pc[w] = "wsleep"
  /\ IF NotFull
       THEN Goto(w, "wtest") /\ UNCHANGED wr
       ELSE wr' = w /\ Goto(w, "wasleep")
  /\ UNCHANGED <<queue, locks, rr, call, res, writes>>

WriteWake(w) == pc[w] = "wwake" /\ WakeupReader(w, "wunlock")

WriteUnlock(w) ==
  /\ pc[w] = "wunlock"
  /\ wlock' = None
  /\ wake' = [wake EXCEPT ![w] = FALSE]
  /\ Goto(w, IF call[w] = None THEN "done" ELSE "wlock")
  /\ UNCHANGED <<queue, rlock, rest, rr, wr, call, res, writes>>

WriteStep(w) ==
  \/ WriteClosed(w) \/ WriteAppend(w) \/ WriteFull(w)
  \/ WriteSleep(w) \/ WriteWake(w) \/ WriteUnlock(w)

-----------------------------------------------------------------------------
(***************************************************************************)
(* What a device does to the queue; the wakeups of qhangup and qclose are  *)
(* steps of their own.                                                     *)
(***************************************************************************)
QHangup ==
  /\ state' = state \cup {"Qclosed"}
  /\ UNCHANGED <<blocks, len, eof>>

QClose ==
  /\ state' = (state \ {"Qflow", "Qstarve"}) \cup {"Qclosed"}
  /\ blocks' = <<>> /\ len' = 0
  /\ UNCHANGED eof

QReopen ==
  /\ state' = (state \ {"Qclosed"}) \cup {"Qstarve"}
  /\ eof' = 0
  /\ UNCHANGED <<blocks, len>>
=============================================================================
