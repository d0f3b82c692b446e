------------------------------- MODULE Stream -------------------------------
(***************************************************************************)
(* What a queue of blocks promises to those who read and write it (the     *)
(* contract of pipe(3)): chunks come out in the order in which they went   *)
(* in, whole or in consecutive pieces, each byte once; a chunk goes in     *)
(* whole, and only while not too much is queued; after a hangup what is    *)
(* queued can still be read, and then there is nothing but ends of file.   *)
(***************************************************************************)
EXTENDS Naturals, Sequences, FiniteSets

CONSTANTS Readers, Writers,
          Chunk,        \* the most bytes that are queued at once
          High,         \* nothing goes in while so many bytes are queued
          None

VARIABLES data,     \* the chunks, oldest first
          hung,     \* hung up or closed
          call,     \* a reader's number of bytes, a writer's bytes, or None
          res       \* the outcome of each process's call, or None

vars == <<data, hung, call, res>>

First(s, n) == SubSeq(s, 1, IF n < Len(s) THEN n ELSE Len(s))
Rest(s, n) == SubSeq(s, n + 1, Len(s))
Bytes(ss) == Cardinality(UNION {{i} \X DOMAIN ss[i] : i \in DOMAIN ss})

Init ==
  /\ data = <<>> /\ ~hung
  /\ call = [p \in Readers \cup Writers |-> None]
  /\ res = [p \in Readers \cup Writers |-> None]

Return(p, v) ==
  /\ call' = [call EXCEPT ![p] = None]
  /\ res' = [res EXCEPT ![p] = v]

(* A process calls; for a writer, what is written is its call.             *)
Call(p) ==
  /\ call[p] = None /\ call'[p] # None /\ res[p] = None
  /\ call' = [call EXCEPT ![p] = call'[p]]
  /\ UNCHANGED <<data, hung, res>>

(* It has its answer.                                                      *)
Done(p) ==
  /\ res[p] # None
  /\ res' = [res EXCEPT ![p] = None]
  /\ UNCHANGED <<data, hung, call>>

Read(r) ==
  /\ call[r] # None /\ data # <<>>
  /\ data' = (IF Rest(Head(data), call[r]) = <<>>
                THEN <<>> ELSE <<Rest(Head(data), call[r])>>) \o Tail(data)
  /\ Return(r, First(Head(data), call[r]))
  /\ UNCHANGED <<hung>>

ReadEnd(r) ==
  /\ call[r] # None /\ hung /\ data = <<>>
  /\ \E v \in {"eof", "hungup"} : Return(r, v)
  /\ UNCHANGED <<data, hung>>

(* A chunk of what w writes has been dealt with.                           *)
Advance(w) ==
  LET more == Rest(call[w], Chunk) IN
  IF more # <<>>
    THEN call' = [call EXCEPT ![w] = more] /\ UNCHANGED res
    ELSE Return(w, "written")

Write(w) ==
  /\ call[w] # None /\ ~hung
  /\ Bytes(data) < High
  /\ data' = Append(data, First(call[w], Chunk))
  /\ Advance(w)
  /\ UNCHANGED <<hung>>

WriteHungup(w) ==
  /\ call[w] # None /\ hung
  /\ Return(w, "hungup")
  /\ UNCHANGED <<data, hung>>

Interrupted(p) ==
  /\ call[p] # None
  /\ Return(p, "interrupted")
  /\ UNCHANGED <<data, hung>>

Hangup == hung' = TRUE /\ UNCHANGED <<data, call, res>>

Close ==
  /\ \A r \in Readers : call[r] = None
  /\ hung' = TRUE /\ data' = <<>>
  /\ UNCHANGED <<call, res>>

Reopen ==
  /\ \A p \in Readers \cup Writers : call[p] = None
  /\ hung' = FALSE
  /\ UNCHANGED <<data, call, res>>

Next ==
  \/ \E p \in Readers \cup Writers : Call(p) \/ Done(p) \/ Interrupted(p)
  \/ \E r \in Readers : Read(r) \/ ReadEnd(r)
  \/ \E w \in Writers : Write(w) \/ WriteHungup(w)
  \/ Hangup \/ Close \/ Reopen

Spec == Init /\ [][Next]_vars
=============================================================================
