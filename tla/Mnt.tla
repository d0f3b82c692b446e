-------------------------------- MODULE Mnt --------------------------------
(***************************************************************************)
(* The remote procedure calls of the mount driver (emu/devmnt.c): the      *)
(* processes that use one mounted connection send their requests           *)
(* themselves and take turns to read the replies for all of them.  A call  *)
(* that is interrupted sends a flush and waits on, for whichever answer    *)
(* comes first.                                                            *)
(*                                                                         *)
(* A critical section under m->r.l is one step.  A message is read and     *)
(* written whole.  A process that sleeps is taken off its Rendez by one    *)
(* Wakeup or by one interruption (module Rendez).  The server is anything  *)
(* that speaks the protocol, flush(5) included: it answers requests in any *)
(* order, or never, but flushes at once.                                   *)
(***************************************************************************)
EXTENDS Naturals, FiniteSets, SequencesExt

CONSTANTS Procs,
          MaxCalls,     \* bound: the calls each of them makes
          Victims,      \* those of them that are interrupted
          MaxIntrs,     \* bound: the interruptions, of flushes apart
          None

ASSUME MntAssumption ==
  /\ IsFiniteSet(Procs) /\ Victims \subseteq Procs /\ None \notin Procs \cup Nat
  /\ MaxCalls \in Nat /\ MaxIntrs \in Nat

Tags == 1 .. Cardinality(Procs)            \* of the Mntrpcs
Tagfls == Cardinality(Procs)               \* where the tags of flushes begin

VARIABLES queue,     \* m->queue: the calls without an answer, the last one first
          rip,       \* m->rip: the process that reads
          flushtag,  \* m->flushtag
          free,      \* mntalloc.rpcfree
          rpctag,    \* mntalloc.rpctag
          \* of each Mntrpc
          id,        \* its request (the tag, request.tag, is its number)
          done,
          flushed,
          ftag,      \* r->flushtag
          reply,
          sleeper,   \* r->r.p
          \* of each process
          pc,
          rpc,       \* its Mntrpc
          back,      \* where it goes on when it has sent a flush
          hand,      \* the Mntrpc that it completes, or wakes
          \* the connection and the server
          toC, hung, pending,
          calls, intrs

mntrpcs  == <<id, done, flushed, ftag, reply>>
wire     == <<toC, hung, pending>>
procVars == <<rpc, back, hand>>
allocs   == <<free, rpctag>>
vars == <<queue, rip, flushtag, allocs, mntrpcs, sleeper, pc, procVars, wire, calls, intrs>>

Goto(p, c) == pc' = [pc EXCEPT ![p] = c]

Init ==
  /\ queue = <<>> /\ rip = None /\ flushtag = Tagfls + 1
  /\ free = <<>> /\ rpctag = 1
  /\ id = [t \in Tags |-> None]
  /\ done = [t \in Tags |-> FALSE]
  /\ flushed = [t \in Tags |-> FALSE]
  /\ ftag = [t \in Tags |-> 0]
  /\ reply = [t \in Tags |-> None]
  /\ sleeper = [t \in Tags |-> None]
  /\ pc = [p \in Procs |-> "idle"]
  /\ rpc = [p \in Procs |-> None]
  /\ back = [p \in Procs |-> None]
  /\ hand = [p \in Procs |-> None]
  /\ toC = <<>> /\ hung = FALSE /\ pending = {}
  /\ calls = [p \in Procs |-> 0] /\ intrs = 0

-----------------------------------------------------------------------------
(***************************************************************************)
(* mntralloc: the Mntrpc freed last, or a new one with the next tag; in    *)
(* mountio the call joins the queue before its request is sent.            *)
(***************************************************************************)
Call(p) ==
  LET t == IF free = <<>> THEN rpctag ELSE Head(free) IN
  /\ pc[p] = "idle" /\ calls[p] < MaxCalls
  /\ IF free = <<>> THEN rpctag' = rpctag + 1 /\ UNCHANGED free
                    ELSE free' = Tail(free) /\ UNCHANGED rpctag
  /\ calls' = [calls EXCEPT ![p] = @ + 1]
  /\ id' = [id EXCEPT ![t] = <<p, calls'[p]>>]
  /\ done' = [done EXCEPT ![t] = FALSE]
  /\ flushed' = [flushed EXCEPT ![t] = FALSE]
  /\ rpc' = [rpc EXCEPT ![p] = t]
  /\ queue' = <<t>> \o queue
  /\ Goto(p, "send")
  /\ UNCHANGED <<rip, flushtag, ftag, reply, sleeper, back, hand, wire, intrs>>

(* The caller has looked at the reply, or gets an error; mntfree.          *)
Return(p) ==
  /\ pc[p] \in {"return", "error"}
  /\ free' = <<rpc[p]>> \o free
  /\ reply' = [reply EXCEPT ![rpc[p]] = None]
  /\ id' = [id EXCEPT ![rpc[p]] = None]
  /\ rpc' = [rpc EXCEPT ![p] = None]
  /\ Goto(p, "idle")
  /\ UNCHANGED <<queue, rip, flushtag, rpctag, done, flushed, ftag, sleeper, back, hand,
                 wire, calls, intrs>>

-----------------------------------------------------------------------------
(***************************************************************************)
(* The protocol: what the server gets is pending until it is answered, in  *)
(* any order.  A flush discards the request of its tag, if it is pending.  *)
(* The id in an answer says whose it is, for the properties only.          *)
(***************************************************************************)
Request(t) == [type |-> "R", tag |-> t, id |-> id[t]]

Requested(t) == pending \cup {Request(t)}

Discarded(t) == {m \in pending : m.type # "R" \/ m.tag # t}
                  \cup {[type |-> "Rflush", tag |-> ftag[t], id |-> id[t]]}

Answer(m) ==
  /\ toC' = Append(toC, m)
  /\ pending' = pending \ {m}
  /\ UNCHANGED <<queue, rip, flushtag, allocs, mntrpcs, sleeper, pc, procVars, hung,
                 calls, intrs>>

ServerReplies == \E m \in pending : m.type = "R" /\ Answer(m)
ServerFlushes == \E m \in pending : m.type = "Rflush" /\ Answer(m)

(* What is on its way to the client still arrives.  Bound: a connection    *)
(* on which a call is interrupted does not end.                            *)
Hangup ==
  /\ ~hung /\ intrs = 0
  /\ hung' = TRUE /\ pending' = {}
  /\ UNCHANGED <<queue, rip, flushtag, allocs, mntrpcs, sleeper, pc, procVars, toC, calls,
                 intrs>>

-----------------------------------------------------------------------------
(***************************************************************************)
(* mountio                                                                 *)
(***************************************************************************)
(* An error, also of a connection that is no more, goes to mntflush.       *)
Send(p) ==
  /\ pc[p] = "send"
  /\ IF hung
     THEN /\ Goto(p, "flush")
          /\ back' = [back EXCEPT ![p] = "gate"]
          /\ UNCHANGED pending
     ELSE /\ Goto(p, "gate")
          /\ pending' = Requested(rpc[p])
          /\ UNCHANGED back
  /\ UNCHANGED <<queue, rip, flushtag, allocs, mntrpcs, sleeper, rpc, hand, toC, hung,
                 calls, intrs>>

(***************************************************************************)
(* "Gate readers onto the mount point one at a time"                       *)
(***************************************************************************)
Gate(p) ==
  /\ pc[p] = "gate"
  /\ IF rip # None
     THEN Goto(p, "sleep") /\ UNCHANGED rip
     ELSE /\ rip' = p
          /\ Goto(p, IF done[rpc[p]] THEN "opengate" ELSE "read")
  /\ UNCHANGED <<queue, flushtag, allocs, mntrpcs, sleeper, procVars, wire, calls, intrs>>

\* Mutant of Attn: a caller is not told that nobody reads.
AttnDone(t) == done[t]

(* rpcattn: there is something for the caller to do.                       *)
Attn(t) == done[t] \/ rip = None

(* Sleep: Attn is evaluated under the lock of the Rendez.                  *)
Sleep(p) ==
  /\ pc[p] = "sleep"
  /\ IF Attn(rpc[p])
     THEN Goto(p, "woken") /\ UNCHANGED sleeper
     ELSE /\ sleeper' = [sleeper EXCEPT ![rpc[p]] = p]
          /\ Goto(p, "asleep")
  /\ UNCHANGED <<queue, rip, flushtag, allocs, mntrpcs, procVars, wire, calls, intrs>>

Woken(p) ==
  /\ pc[p] = "woken"
  /\ Goto(p, IF done[rpc[p]] THEN "return" ELSE "gate")
  /\ UNCHANGED <<queue, rip, flushtag, allocs, mntrpcs, sleeper, procVars, wire, calls,
                 intrs>>

(* Wakeup(&q->r) of the Mntrpc in hand, by then perhaps another call's.    *)
Wakeup(p, next) ==
  LET t == hand[p] IN
  /\ sleeper' = [sleeper EXCEPT ![t] = None]
  /\ pc' = [q \in Procs |-> IF q = p THEN next ELSE IF sleeper[t] = q THEN "woken" ELSE pc[q]]
  /\ hand' = [hand EXCEPT ![p] = None]
  /\ reply' = IF next = "read" THEN [reply EXCEPT ![rpc[p]] = None] ELSE reply
  /\ UNCHANGED <<queue, rip, flushtag, allocs, id, done, flushed, ftag, rpc, back, wire,
                 calls, intrs>>

-----------------------------------------------------------------------------
(***************************************************************************)
(* mntrpcread, by the process at the gate, into its own r->reply           *)
(***************************************************************************)
Read(p) ==
  /\ pc[p] = "read" /\ toC # <<>>
  /\ reply' = [reply EXCEPT ![rpc[p]] = Head(toC)]
  /\ toC' = Tail(toC)
  /\ Goto(p, "mux")
  /\ UNCHANGED <<queue, rip, flushtag, allocs, id, done, flushed, ftag, sleeper, procVars,
                 hung, pending, calls, intrs>>

(* mntqrm                                                                  *)
Qrm(t) ==
  /\ done' = [done EXCEPT ![t] = TRUE]
  /\ flushed' = [flushed EXCEPT ![t] = FALSE]
  /\ queue' = RemoveFirst(queue, t)
  /\ reply' = [reply EXCEPT ![t] = None]      \* the call ends with an error
  /\ UNCHANGED <<id, ftag>>

\* Mutant of ReadEof: the gate stays shut.
ReadEofShut(p) ==
  /\ pc[p] = "read" /\ toC = <<>> /\ hung
  /\ Qrm(rpc[p])
  /\ Goto(p, "error")
  /\ UNCHANGED <<rip, flushtag, allocs, sleeper, procVars, wire, calls, intrs>>

(* The connection is no more: two reads have returned 0.                   *)
ReadEof(p) ==
  /\ pc[p] = "read" /\ toC = <<>> /\ hung
  /\ Qrm(rpc[p])
  /\ Goto(p, "opengate")
  /\ UNCHANGED <<rip, flushtag, allocs, sleeper, procVars, wire, calls, intrs>>

(***************************************************************************)
(* mountmux: the first call in the queue that the reply answers            *)
(***************************************************************************)
\* Mutant of Answers: the tag of a flush is compared though none was sent.
AnswersStale(m, t) == m.tag \in {t, ftag[t]}

Answers(m, t) == m.tag = t \/ (flushed[t] /\ m.tag = ftag[t])

Matching(m) == {t \in ToSet(queue) : Answers(m, t)}

\* t is the first in the queue of those in S.
IsFirst(t, S) ==
  \E i \in DOMAIN queue : queue[i] = t /\ t \in S /\ \A j \in 1 .. i - 1 : queue[j] \notin S

Mux(p) ==
  LET r == rpc[p] IN
  /\ pc[p] = "mux"
  /\ \/ /\ Matching(reply[r]) = {}
        /\ Goto(p, "read")
        /\ reply' = [reply EXCEPT ![r] = None]
        /\ UNCHANGED <<queue, done, hand>>
     \/ \E q \in Tags :
          /\ IsFirst(q, Matching(reply[r]))
          /\ queue' = RemoveFirst(queue, q)
          /\ UNCHANGED reply
          /\ IF q = r
             THEN /\ done' = [done EXCEPT ![r] = TRUE]
                  /\ Goto(p, "opengate")
                  /\ UNCHANGED hand
             ELSE /\ hand' = [hand EXCEPT ![p] = q]
                  /\ Goto(p, "give")
                  /\ UNCHANGED done
  /\ UNCHANGED <<rip, flushtag, allocs, id, flushed, ftag, sleeper, rpc, back, wire, calls,
                 intrs>>

(* "Completed someone else", without the lock.                             *)
Give(p) ==
  /\ pc[p] = "give"
  /\ reply' = [reply EXCEPT ![hand[p]] = reply[rpc[p]]]
  /\ done' = [done EXCEPT ![hand[p]] = TRUE]
  /\ Goto(p, "givewake")
  /\ UNCHANGED <<queue, rip, flushtag, allocs, id, flushed, ftag, sleeper, procVars, wire,
                 calls, intrs>>

GiveWake(p) == pc[p] = "givewake" /\ Wakeup(p, "read")

-----------------------------------------------------------------------------
(***************************************************************************)
(* mntgate: the reader leaves, and wakes the first call that sleeps.       *)
(***************************************************************************)
Ended(t) == IF reply[t] = None THEN "error" ELSE "return"

\* Mutant of NextReader: only the last call made is considered.
NextReaderHead == {t \in ToSet(queue) : t = Head(queue) /\ sleeper[t] # None}

NextReader == {t \in ToSet(queue) : ~done[t] /\ sleeper[t] # None}

OpenGate(p) ==
  /\ pc[p] = "opengate"
  /\ rip' = None
  /\ \/ NextReader = {} /\ Goto(p, Ended(rpc[p])) /\ UNCHANGED hand
     \/ \E t \in Tags : /\ IsFirst(t, NextReader)
                        /\ hand' = [hand EXCEPT ![p] = t]
                        /\ Goto(p, "gatewake")
  /\ UNCHANGED <<queue, flushtag, allocs, mntrpcs, sleeper, rpc, back, wire, calls, intrs>>

GateWake(p) == pc[p] = "gatewake" /\ Wakeup(p, Ended(rpc[p]))

-----------------------------------------------------------------------------
(***************************************************************************)
(* mntflush, after an error                                                *)
(***************************************************************************)
Flush(p) ==
  /\ pc[p] = "flush"
  /\ ftag' = [ftag EXCEPT ![rpc[p]] = flushtag]
  /\ flushed' = [flushed EXCEPT ![rpc[p]] = TRUE]
  /\ flushtag' = flushtag + 1          \* MaxIntrs calls it, at most, before a hangup
  /\ Goto(p, "flushsend")
  /\ UNCHANGED <<queue, rip, allocs, id, done, reply, sleeper, procVars, wire, calls, intrs>>

FlushSend(p) ==
  LET t == rpc[p] IN
  /\ pc[p] = "flushsend"
  /\ \/ /\ ~hung
        /\ pending' = Discarded(t)
        /\ Goto(p, back[p])
        /\ UNCHANGED <<queue, mntrpcs>>
     \/ /\ hung                                  \* Ehungup
        /\ Qrm(t)
        /\ Goto(p, IF back[p] = "read" THEN "opengate" ELSE "error")
        /\ UNCHANGED pending
  /\ back' = [back EXCEPT ![p] = None]
  /\ UNCHANGED <<rip, flushtag, allocs, sleeper, rpc, hand, toC, hung, calls, intrs>>

(***************************************************************************)
(* An interruption (swiproc) of a process that sleeps, or is in a call of  *)
(* the connection's device; a request may have been sent or not.  One that *)
(* is sending a flush goes on without it.                                  *)
(***************************************************************************)
Interrupt(p) ==
  /\ ~hung /\ p \in Victims /\ intrs < MaxIntrs
  /\ intrs' = intrs + 1
  /\ \/ /\ pc[p] = "asleep"
        /\ sleeper' = [sleeper EXCEPT ![rpc[p]] = None]
        /\ back' = [back EXCEPT ![p] = "gate"]
        /\ UNCHANGED pending
     \/ /\ pc[p] = "send"
        /\ pending' \in {pending, Requested(rpc[p])}
        /\ back' = [back EXCEPT ![p] = "gate"]
        /\ UNCHANGED sleeper
     \/ /\ pc[p] = "read"
        /\ back' = [back EXCEPT ![p] = "read"]
        /\ UNCHANGED <<sleeper, pending>>
  /\ Goto(p, "flush")
  /\ UNCHANGED <<queue, rip, flushtag, allocs, mntrpcs, rpc, hand, toC, hung, calls>>

FlushInterrupted(p) ==
  /\ ~hung /\ p \in Victims
  /\ pc[p] = "flushsend"
  /\ back' = [back EXCEPT ![p] = None]
  /\ Goto(p, back[p])
  /\ UNCHANGED <<queue, rip, flushtag, allocs, mntrpcs, sleeper, rpc, hand, wire, calls,
                 intrs>>

-----------------------------------------------------------------------------
Step(p) ==
  \/ Send(p) \/ Gate(p) \/ Sleep(p) \/ Woken(p)
  \/ Read(p) \/ ReadEof(p) \/ Mux(p) \/ Give(p) \/ GiveWake(p)
  \/ OpenGate(p) \/ GateWake(p) \/ Flush(p) \/ FlushSend(p) \/ Return(p)

Next ==
  \/ \E p \in Procs : Call(p) \/ Step(p) \/ Interrupt(p) \/ FlushInterrupted(p)
  \/ ServerReplies \/ ServerFlushes \/ Hangup

Spec == Init /\ [][Next]_vars

(***************************************************************************)
(* The host schedules every process, and the server answers every flush    *)
(* (flush(5): "The server must answer the flush message immediately").  It *)
(* need not answer a request; nobody need call, interrupt or hang up.      *)
(***************************************************************************)
Fairness == WF_vars(ServerFlushes) /\ \A p \in Procs : WF_vars(Step(p))

FairSpec == Spec /\ Fairness

-----------------------------------------------------------------------------
Calls == {p \in Procs : rpc[p] # None}

(***************************************************************************)
(* The gate is shut exactly while a process is reading, or on its way to   *)
(* open it; no Mntrpc serves two calls; and the queue holds each call that *)
(* waits for an answer, once.                                              *)
(***************************************************************************)
Reads(p) ==
  \/ pc[p] \in {"read", "mux", "give", "givewake", "opengate"}
  \/ (pc[p] \in {"flush", "flushsend"} /\ back[p] = "read")

TypeOK ==
  /\ \A p \in Procs : (rip = p) <=> Reads(p)
  /\ \A p, q \in Calls : p # q => rpc[p] # rpc[q]
  /\ IsInjective(free) /\ ToSet(free) = (1 .. rpctag - 1) \ {rpc[p] : p \in Calls}
  /\ IsInjective(queue) /\ ToSet(queue) \subseteq {rpc[p] : p \in Calls}
  /\ \A t \in ToSet(queue) : ~done[t]
  /\ \A t \in Tags : sleeper[t] # None => pc[sleeper[t]] = "asleep" /\ rpc[sleeper[t]] = t

(***************************************************************************)
(* A call returns with the answer to its own request, or with that to a    *)
(* flush it sent itself, though Mntrpcs and their tags are used again      *)
(* while flushes of earlier calls are still to be answered.                *)
(***************************************************************************)
ReplyIsOwn == \A p \in Procs :
  pc[p] = "return" => reply[rpc[p]].id = id[rpc[p]]

(***************************************************************************)
(* While a caller sleeps somebody reads, or is about to find the gate      *)
(* open, or to wake a caller: the turn to read is never lost.              *)
(***************************************************************************)
ReaderSure ==
  (\E p \in Procs : pc[p] = "asleep" /\ ~done[rpc[p]]) =>
    \/ rip # None
    \/ \E p \in Procs : pc[p] \in {"send", "gate", "sleep", "woken", "gatewake", "flush", "flushsend"}

(***************************************************************************)
(* A call whose answer has been sent returns, and so does every call when  *)
(* the connection is no more.                                              *)
(***************************************************************************)
Answered(p) == rpc[p] # None /\ rpc[p] \in ToSet(queue) /\ \E i \in DOMAIN toC : Answers(toC[i], rpc[p])

CallReturns == \A p \in Procs : (Answered(p) \/ hung) ~> pc[p] = "idle"
=============================================================================
