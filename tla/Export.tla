------------------------------- MODULE Export -------------------------------
(***************************************************************************)
(* The server of exported name spaces (emu/exportfs.c).  One process per   *)
(* export (exportproc) reads requests and puts them on one queue for all   *)
(* exports; kernel processes that all exports share (exslave) take them    *)
(* from it, wait for the next behind the QLock exq.qwait, and answer.  A   *)
(* flush is served by exportproc itself.                                   *)
(*                                                                         *)
(* A critical section under exq.l or fs->r.l is one step, and a QLock is   *)
(* granted in turn (module RWlock).  A process is taken off a Rendez by    *)
(* one Wakeup or by one swiproc (module Rendez).  What the file system     *)
(* does for a request, and whether swiproc makes it end sooner, is left    *)
(* out.  Each request has a tag of its own, its number.                    *)
(***************************************************************************)
EXTENDS Naturals, FiniteSets, SequencesExt

CONSTANTS Exports,
          Slaves,
          MaxReqs,      \* bound: the requests of all clients
          Flushers,     \* those exports whose clients send flushes
          MaxFlushes,   \* bound: the flushes, at most one of a request
          Nil

ASSUME ExportAssumption ==
  /\ MaxReqs \in Nat /\ MaxFlushes \in Nat
  /\ IsFiniteSet(Slaves) /\ MaxReqs <= Cardinality(Slaves)   \* kproc() can make one for each
  /\ Flushers \subseteq Exports /\ Exports \cap Slaves = {}
  /\ Nil \notin Exports \cup Slaves \cup Nat

Reqs == 1 .. MaxReqs
Flushes == 1 .. MaxFlushes
Servers == Exports \cup Slaves

VARIABLES exq,       \* the requests from exq.head on
          tail,      \* exq.tail
          qholder,   \* exq.qwait: who holds the QLock
          qwait,     \* exq.qwait: who waits for it
          rwait,     \* exq.rwait: the process that sleeps there
          \* of each export
          ref,       \* fs->r.ref; at 0 the Export is freed
          work,      \* fs->work
          \* of each request
          export,    \* q->export, Nil when q is not allocated
          slave,     \* q->slave
          flushtag,  \* q->flushtag
          shut,      \* q->shut
          \* of each process
          place,
          req,       \* the request in hand, or the one to be flushed
          flush,     \* of an exportproc: the Tflush in hand
          target,    \* whom swiproc shall interrupt
          \* the clients
          reqs, flushes,
          oldtag,    \* what each flush was for
          replies, rflushes   \* number of answers to each request, to each flush

exqVars   == <<exq, tail>>
lockVars  == <<qholder, qwait>>
fsVars    == <<ref, work>>
reqVars   == <<export, slave, flushtag, shut>>
hands     == <<req, flush, target>>
sent      == <<reqs, flushes, oldtag>>
answers   == <<replies, rflushes>>
exportVars == <<exqVars, lockVars, rwait, fsVars, reqVars, place, hands, sent, answers>>

To(p, c) == place' = [place EXCEPT ![p] = c]

ExportInit ==
  /\ exq = <<>> /\ tail = Nil
  /\ qholder = Nil /\ qwait = <<>> /\ rwait = Nil
  /\ ref = [e \in Exports |-> 1]
  /\ work = [e \in Exports |-> {}]
  /\ export = [i \in Reqs |-> Nil]
  /\ slave = [i \in Reqs |-> Nil]
  /\ flushtag = [i \in Reqs |-> Nil]
  /\ shut = [i \in Reqs |-> FALSE]
  /\ place = [p \in Servers |-> IF p \in Exports THEN "read" ELSE "none"]
  /\ req = [p \in Servers |-> Nil]
  /\ flush = [e \in Exports |-> Nil]
  /\ target = [e \in Exports |-> Nil]
  /\ reqs = 0 /\ flushes = 0
  /\ oldtag = [f \in Flushes |-> Nil]
  /\ replies = [i \in Reqs |-> 0]
  /\ rflushes = [f \in Flushes |-> 0]

-----------------------------------------------------------------------------
(***************************************************************************)
(* exportproc reads: a request, a flush, or the end of the connection.     *)
(***************************************************************************)
ReadRequest(e) ==
  LET i == reqs + 1 IN
  /\ place[e] = "read" /\ i \in Reqs
  /\ reqs' = i
  /\ export' = [export EXCEPT ![i] = e]
  /\ ref' = [ref EXCEPT ![e] = @ + 1]
  /\ req' = [req EXCEPT ![e] = i]
  /\ To(e, "enqueue")
  /\ UNCHANGED <<exqVars, lockVars, rwait, work, slave, flushtag, shut, flush, target,
                 flushes, oldtag, answers>>

(* A client may flush what it has been answered already.                   *)
ReadFlush(e) ==
  LET f == flushes + 1 IN
  /\ place[e] = "read" /\ e \in Flushers /\ f \in Flushes
  /\ \E i \in 1 .. reqs :
       /\ export[i] \in {e, Nil} /\ \A g \in Flushes : oldtag[g] # i
       /\ oldtag' = [oldtag EXCEPT ![f] = i]
       /\ req' = [req EXCEPT ![e] = i]
  /\ flushes' = f
  /\ flush' = [flush EXCEPT ![e] = f]
  /\ ref' = [ref EXCEPT ![e] = @ + 1]
  /\ To(e, "flushqueue")
  /\ UNCHANGED <<exqVars, lockVars, rwait, work, reqVars, target, reqs, answers>>

ReadEof(e) ==
  /\ place[e] = "read"
  /\ To(e, "shutqueue")
  /\ UNCHANGED <<exqVars, lockVars, rwait, fsVars, reqVars, hands, sent, answers>>

(***************************************************************************)
(* A request joins the queue behind exq.tail.  If that is not the last in  *)
(* the queue, nobody finds the request (what the tail's memory is used for *)
(* by then, if it has been freed, is left out).                            *)
(***************************************************************************)
Enqueue(e) ==
  LET i == req[e] IN
  /\ place[e] = "enqueue"
  /\ exq' = IF exq = <<>> \/ Last(exq) = tail THEN Append(exq, i) ELSE exq
  /\ tail' = i
  /\ req' = [req EXCEPT ![e] = Nil]
  /\ To(e, "spawn")
  /\ UNCHANGED <<lockVars, rwait, fsVars, reqVars, flush, target, sent, answers>>

\* Mutant of NeedSlave: a slave that holds the QLock, busy or not, will do.
NeedSlaveNone == qholder = Nil /\ qwait = <<>>

NeedSlave == qwait = <<>>

Unborn   == {s \in Slaves : place[s] = "none"}
NewSlave == CHOOSE s \in Unborn : TRUE

(* A new slave, unless one waits for its turn.                             *)
Spawn(e) ==
  /\ place[e] = "spawn"
  /\ IF NeedSlave
     THEN Unborn # {} /\ place' = [place EXCEPT ![NewSlave] = "qlock", ![e] = "wake"]
     ELSE To(e, "wake")
  /\ UNCHANGED <<exqVars, lockVars, rwait, fsVars, reqVars, hands, sent, answers>>

Wake(e) ==
  /\ place[e] = "wake"
  /\ rwait' = Nil
  /\ place' = [p \in Servers |->
                IF p = e THEN "read" ELSE IF p = rwait THEN "take" ELSE place[p]]
  /\ UNCHANGED <<exqVars, lockVars, fsVars, reqVars, hands, sent, answers>>

-----------------------------------------------------------------------------
(***************************************************************************)
(* exfree(fs) and free(q) for the requests in I, all of one export.        *)
(***************************************************************************)
Free(e, I) ==
  /\ ref' = [ref EXCEPT ![e] = @ - Cardinality(I)]
  /\ export' = [i \in Reqs |-> IF i \in I THEN Nil ELSE export[i]]

Answered(f) == rflushes' = [rflushes EXCEPT ![f] = @ + 1]

(* swiproc(p), which may find the slave waiting for another request.       *)
Swiproc(e, next) ==
  LET s == target[e] IN
  /\ rwait' = IF rwait = s THEN Nil ELSE rwait
  /\ place' = [place EXCEPT ![e] = next, ![s] = IF rwait = s THEN "qunlock" ELSE @]
  /\ target' = [target EXCEPT ![e] = Nil]

-----------------------------------------------------------------------------
(***************************************************************************)
(* exflushed: a request that is still queued is discarded, ...             *)
(***************************************************************************)
FlushQueue(e) ==
  /\ place[e] = "flushqueue"
  /\ IF req[e] \in ToSet(exq) /\ export[req[e]] = e
     THEN exq' = RemoveFirst(exq, req[e]) /\ To(e, "flushed")
     ELSE UNCHANGED exq /\ To(e, "flushwork")
  /\ UNCHANGED <<tail, lockVars, rwait, fsVars, reqVars, hands, sent, answers>>

FlushEnd(e) ==
  /\ flush' = [flush EXCEPT ![e] = Nil]
  /\ req' = [req EXCEPT ![e] = Nil]

(* ... and answered as the flush is; the flush's own Exq goes as well.     *)
Flushed(e) ==
  /\ place[e] = "flushed"
  /\ Answered(flush[e])
  /\ ref' = [ref EXCEPT ![e] = @ - 2]
  /\ export' = [export EXCEPT ![req[e]] = Nil]
  /\ FlushEnd(e)
  /\ To(e, "read")
  /\ UNCHANGED <<exqVars, lockVars, rwait, work, slave, flushtag, shut, target, sent, replies>>

\* Mutant of FlushWork: exflushed returns 0, exportproc answers as well.
FlushWorkBoth(e) ==
  LET i == req[e] IN
  /\ place[e] = "flushwork"
  /\ flushtag' = IF i \in work[e] THEN [flushtag EXCEPT ![i] = flush[e]] ELSE flushtag
  /\ To(e, "flushreply")
  /\ UNCHANGED <<exqVars, lockVars, rwait, fsVars, export, slave, shut, hands, sent, answers>>

(* One that a slave works on will be answered by the slave.                *)
FlushWork(e) ==
  LET i == req[e] IN
  /\ place[e] = "flushwork"
  /\ IF i \in work[e]
     THEN /\ flushtag' = [flushtag EXCEPT ![i] = flush[e]]
          /\ target' = [target EXCEPT ![e] = slave[i]]
          /\ To(e, "flushswi")
     ELSE UNCHANGED <<flushtag, target>> /\ To(e, "flushreply")
  /\ UNCHANGED <<exqVars, lockVars, rwait, fsVars, export, slave, shut, req, flush, sent,
                 answers>>

FlushSwi(e) ==
  /\ place[e] = "flushswi"
  /\ Swiproc(e, "read")
  /\ FlushEnd(e)
  /\ ref' = [ref EXCEPT ![e] = @ - 1]
  /\ UNCHANGED <<exqVars, lockVars, work, reqVars, sent, answers>>

(* Any other is unknown, and exportproc answers.                           *)
FlushReply(e) ==
  /\ place[e] = "flushreply"
  /\ Answered(flush[e])
  /\ FlushEnd(e)
  /\ ref' = [ref EXCEPT ![e] = @ - 1]
  /\ To(e, "read")
  /\ UNCHANGED <<exqVars, lockVars, rwait, work, reqVars, target, sent, replies>>

-----------------------------------------------------------------------------
(***************************************************************************)
(* exshutdown, when the connection is no more                              *)
(***************************************************************************)
Queued(e) == {i \in ToSet(exq) : export[i] = e}

(* The queue with the requests of e unlinked: the others in their order.   *)
Unlinked(e) ==
  LET left == {k \in DOMAIN exq : exq[k] \notin Queued(e)}
      n    == Cardinality(left)
  IN {[k \in 1 .. n |-> exq[at[k]]] :
        at \in {f \in [1 .. n -> left] : \A j, k \in 1 .. n : j < k => f[j] < f[k]}}

\* Mutant of ShutQueue: exfree is forgotten.
ShutQueueKept(e) ==
  /\ place[e] = "shutqueue"
  /\ exq' \in Unlinked(e)
  /\ export' = [i \in Reqs |-> IF i \in Queued(e) THEN Nil ELSE export[i]]
  /\ To(e, "shutwork")
  /\ UNCHANGED <<tail, lockVars, rwait, fsVars, slave, flushtag, shut, hands, sent, answers>>

ShutQueue(e) ==
  /\ place[e] = "shutqueue"
  /\ exq' \in Unlinked(e)
  /\ Free(e, Queued(e))
  /\ To(e, "shutwork")
  /\ UNCHANGED <<tail, lockVars, rwait, work, slave, flushtag, shut, hands, sent, answers>>

ShutWork(e) ==
  LET open == {i \in work[e] : ~shut[i]} IN
  /\ place[e] = "shutwork"
  /\ IF open = {}
     THEN To(e, "shutfree") /\ UNCHANGED <<shut, target>>
     ELSE \E i \in open :
            /\ shut' = [shut EXCEPT ![i] = TRUE]
            /\ target' = [target EXCEPT ![e] = slave[i]]
            /\ To(e, "shutswi")
  /\ UNCHANGED <<exqVars, lockVars, rwait, fsVars, export, slave, flushtag, req, flush, sent,
                 answers>>

ShutSwi(e) ==
  /\ place[e] = "shutswi"
  /\ Swiproc(e, "shutwork")
  /\ UNCHANGED <<exqVars, lockVars, fsVars, reqVars, req, flush, sent, answers>>

ShutFree(e) ==
  /\ place[e] = "shutfree"
  /\ ref' = [ref EXCEPT ![e] = @ - 1]
  /\ To(e, "gone")
  /\ UNCHANGED <<exqVars, lockVars, rwait, work, reqVars, hands, sent, answers>>

-----------------------------------------------------------------------------
(***************************************************************************)
(* exslave: qlock(&exq.qwait); Sleep(&exq.rwait, exwork, nil)              *)
(***************************************************************************)
SlaveLock(s) ==
  /\ place[s] = "qlock"
  /\ IF qholder = Nil
     THEN qholder' = s /\ UNCHANGED qwait /\ To(s, "sleep")
     ELSE qwait' = Append(qwait, s) /\ UNCHANGED qholder /\ To(s, "qwait")
  /\ UNCHANGED <<exqVars, rwait, fsVars, reqVars, hands, sent, answers>>

SlaveSleep(s) ==
  /\ place[s] = "sleep"
  /\ IF exq # <<>>                                    \* exwork
     THEN To(s, "take") /\ UNCHANGED rwait
     ELSE To(s, "asleep") /\ rwait' = s
  /\ UNCHANGED <<exqVars, lockVars, fsVars, reqVars, hands, sent, answers>>

(* A request that was there may have been flushed meanwhile.               *)
SlaveTake(s) ==
  /\ place[s] = "take"
  /\ IF exq = <<>>
     THEN UNCHANGED <<exq, slave, req>>
     ELSE /\ exq' = Tail(exq)
          /\ slave' = [slave EXCEPT ![Head(exq)] = s]
          /\ req' = [req EXCEPT ![s] = Head(exq)]
  /\ To(s, "qunlock")
  /\ UNCHANGED <<tail, lockVars, rwait, fsVars, export, flushtag, shut, flush, target, sent,
                 answers>>

(* qunlock hands the lock to the next slave; after an interruption, or     *)
(* without a request, this one queues again.                               *)
SlaveUnlock(s) ==
  LET mine == IF req[s] = Nil THEN "qlock" ELSE "join" IN
  /\ place[s] = "qunlock"
  /\ IF qwait = <<>>
     THEN qholder' = Nil /\ UNCHANGED qwait /\ To(s, mine)
     ELSE /\ qholder' = Head(qwait)
          /\ qwait' = Tail(qwait)
          /\ place' = [place EXCEPT ![s] = mine, ![Head(qwait)] = "sleep"]
  /\ UNCHANGED <<exqVars, rwait, fsVars, reqVars, hands, sent, answers>>

Fs(s) == export[req[s]]

SlaveJoin(s) ==
  /\ place[s] = "join"
  /\ work' = [work EXCEPT ![Fs(s)] = @ \cup {req[s]}]
  /\ shut' = [shut EXCEPT ![req[s]] = FALSE]
  /\ To(s, "work")
  /\ UNCHANGED <<exqVars, lockVars, rwait, ref, export, slave, flushtag, hands, sent, answers>>

(* The request has been served, or has failed.                             *)
SlaveLeave(s) ==
  /\ place[s] = "work"
  /\ work' = [work EXCEPT ![Fs(s)] = @ \ {req[s]}]
  /\ To(s, "reply")
  /\ UNCHANGED <<exqVars, lockVars, rwait, ref, reqVars, hands, sent, answers>>

\* Mutant of SlaveReply: a flush of the request is not looked for.
SlaveReplyUnflushed(s) ==
  LET i == req[s] IN
  /\ place[s] = "reply"
  /\ IF shut[i] THEN UNCHANGED answers
     ELSE replies' = [replies EXCEPT ![i] = @ + 1] /\ UNCHANGED rflushes
  /\ Free(Fs(s), {i})
  /\ req' = [req EXCEPT ![s] = Nil]
  /\ To(s, "qlock")
  /\ UNCHANGED <<exqVars, lockVars, rwait, work, slave, flushtag, shut, flush, target, sent>>

(* The answer is that to the request, or to its flush, or none.            *)
SlaveReply(s) ==
  LET i == req[s] IN
  /\ place[s] = "reply"
  /\ \/ shut[i] /\ UNCHANGED answers
     \/ /\ ~shut[i] /\ flushtag[i] = Nil
        /\ replies' = [replies EXCEPT ![i] = @ + 1]
        /\ UNCHANGED rflushes
     \/ /\ ~shut[i] /\ flushtag[i] # Nil
        /\ Answered(flushtag[i])
        /\ UNCHANGED replies
  /\ Free(Fs(s), {i})
  /\ req' = [req EXCEPT ![s] = Nil]
  /\ To(s, "qlock")
  /\ UNCHANGED <<exqVars, lockVars, rwait, work, slave, flushtag, shut, flush, target, sent>>

-----------------------------------------------------------------------------
ExportStep(e) ==
  \/ Enqueue(e) \/ Spawn(e) \/ Wake(e)
  \/ FlushQueue(e) \/ Flushed(e) \/ FlushWork(e) \/ FlushSwi(e) \/ FlushReply(e)
  \/ ShutQueue(e) \/ ShutWork(e) \/ ShutSwi(e) \/ ShutFree(e)

SlaveStep(s) ==
  \/ SlaveLock(s) \/ SlaveSleep(s) \/ SlaveTake(s) \/ SlaveUnlock(s)
  \/ SlaveJoin(s) \/ SlaveReply(s)

ExportNext ==
  \/ \E e \in Exports : ReadRequest(e) \/ ReadFlush(e) \/ ReadEof(e) \/ ExportStep(e)
  \/ \E s \in Slaves : SlaveStep(s) \/ SlaveLeave(s)

ExportSpec == ExportInit /\ [][ExportNext]_exportVars

(***************************************************************************)
(* The host schedules every process.  A client need not send anything, nor *)
(* hang up, and what the file system does for a request may never end.     *)
(***************************************************************************)
ExportFairness == /\ \A e \in Exports : WF_exportVars(ExportStep(e))
                  /\ \A s \in Slaves : WF_exportVars(SlaveStep(s))

ExportFairSpec == ExportSpec /\ ExportFairness

-----------------------------------------------------------------------------
Live(e) == {i \in Reqs : export[i] = e}
Held(i) ==
  {p \in Servers : req[p] = i /\ (p \in Slaves \/ place[p] \in {"enqueue", "flushed"})}

(***************************************************************************)
(* An Export is referred to by its exportproc, by its requests and by the  *)
(* flush that is being served, and by nothing else; the lock and the one   *)
(* Rendez are held and slept on by the slave that is there.                *)
(***************************************************************************)
ExportTypeOK ==
  /\ \A e \in Exports :
       ref[e] = Cardinality(Live(e)) + (IF place[e] = "gone" THEN 0 ELSE 1)
                  + (IF flush[e] = Nil THEN 0 ELSE 1)
  /\ \A e \in Exports :
       work[e] = {i \in Live(e) : \E s \in Slaves : req[s] = i /\ place[s] = "work"}
  /\ \A s \in Slaves :
       /\ (qholder = s) <=> (place[s] \in {"sleep", "asleep", "take", "qunlock"})
       /\ (rwait = s) <=> (place[s] = "asleep")
       /\ (s \in ToSet(qwait)) <=> (place[s] = "qwait")

(***************************************************************************)
(* Nothing is answered twice, though a flush and the slave that works on   *)
(* its request may both be about to; what is answered is freed.            *)
(***************************************************************************)
AnsweredOnce ==
  /\ \A i \in Reqs : replies[i] <= 1 /\ (export[i] # Nil => replies[i] = 0)
  /\ \A f \in Flushes : rflushes[f] <= 1

(***************************************************************************)
(* A request that has been read is not lost, nor in two hands: it is on    *)
(* the queue, or one process of exportproc and exslave has it.             *)
(***************************************************************************)
RequestKept ==
  /\ \A i \in Reqs : export[i] # Nil =>
       Cardinality(Held(i)) + Cardinality({k \in DOMAIN exq : exq[k] = i}) = 1
  /\ AnsweredOnce

(***************************************************************************)
(* A request does not stay on the queue, even if those before it are never *)
(* served: that is what a slave for each is for (exportfs.c:285).          *)
(***************************************************************************)
InQueue(i) == \E k \in DOMAIN exq : exq[k] = i

RequestTaken == \A i \in Reqs : InQueue(i) ~> ~InQueue(i)

(***************************************************************************)
(* If what is done for requests ends, each flush is answered, unless the   *)
(* connection ends; and then the Export is freed.                          *)
(***************************************************************************)
WorkEnds == \A s \in Slaves : []<>(place[s] # "work")

Shutting(e) == place[e] \in {"shutqueue", "shutwork", "shutswi", "shutfree", "gone"}

ConnectionServed == WorkEnds => \A e \in Exports :
  /\ \A f \in Flushes : flush[e] = f ~> rflushes[f] = 1 \/ Shutting(e)
  /\ place[e] = "shutqueue" ~> ref[e] = 0
=============================================================================
