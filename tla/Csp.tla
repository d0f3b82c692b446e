-------------------------------- MODULE Csp --------------------------------
(***************************************************************************)
(* What the channels of Dis promise, whoever uses them and however they    *)
(* are waited for: a process that cannot communicate at once offers a set  *)
(* of communications and waits; a partner that comes later takes one of    *)
(* them, and the two leave together with one message between them.         *)
(*                                                                         *)
(* The kernel may also leave messages in a queue, which a receiver empties *)
(* when nobody offers to send.                                             *)
(***************************************************************************)
EXTENDS Naturals

CONSTANTS Procs, Chans,
          Kernel,       \* the sender of queued messages
          None

Dirs == {"send", "recv"}
Other(d) == IF d = "send" THEN "recv" ELSE "send"

VARIABLES offer,    \* what each process waits for
          queue,    \* the number of queued messages of each channel
          last      \* the communication of the last step

vars == <<offer, queue, last>>

Event == [c : Chans, s : Procs \cup {Kernel}, r : Procs \cup {None}]

Init ==
  /\ offer = [p \in Procs |-> {}]
  /\ queue = [c \in Chans |-> 0]
  /\ last = None

(* Somebody else can communicate <<d, c>> with one who waits.              *)
Ready(d, c) ==
  \/ \E q \in Procs : <<Other(d), c>> \in offer[q]
  \/ d = "recv" /\ queue[c] > 0

(* p waits, if nothing of what it offers is ready.                         *)
Wait(p, O) ==
  /\ offer[p] = {} /\ O # {}
  /\ \A o \in O : ~Ready(o[1], o[2]) /\ <<Other(o[1]), o[2]>> \notin O
  /\ offer' = [offer EXCEPT ![p] = O]
  /\ last' = None
  /\ UNCHANGED queue

(* p, which does not wait, sends to q or receives from q, which does.      *)
Comm(d, c, p, q) ==
  /\ p # q
  /\ p \in Procs => offer[p] = {}
  /\ <<Other(d), c>> \in offer[q]
  /\ offer' = [offer EXCEPT ![q] = {}]
  /\ last' = IF d = "send" THEN [c |-> c, s |-> p, r |-> q] ELSE [c |-> c, s |-> q, r |-> p]
  /\ UNCHANGED queue

(* The kernel queues a message when nobody waits for it.                   *)
Enqueue(c) ==
  /\ ~Ready("send", c)
  /\ queue' = [queue EXCEPT ![c] = @ + 1]
  /\ last' = [c |-> c, s |-> Kernel, r |-> None]
  /\ UNCHANGED offer

Dequeue(c, p) ==
  /\ offer[p] = {}
  /\ queue[c] > 0
  /\ \A q \in Procs : <<"send", c>> \notin offer[q]
  /\ queue' = [queue EXCEPT ![c] = @ - 1]
  /\ last' = [c |-> c, s |-> Kernel, r |-> p]
  /\ UNCHANGED offer

(* A channel vanishes, or a process is killed or interrupted: offers are   *)
(* withdrawn, and queued messages are lost.                                *)
Withdraw(P, C) ==
  /\ offer' = [p \in Procs |-> IF p \in P THEN {} ELSE offer[p]]
  /\ queue' = [c \in Chans |-> IF c \in C THEN 0 ELSE queue[c]]
  /\ last' = None

Next ==
  \/ \E p \in Procs, O \in SUBSET (Dirs \X Chans) : Wait(p, O)
  \/ \E c \in Chans, p \in Procs, q \in Procs, d \in Dirs : Comm(d, c, p, q)
  \/ \E c \in Chans, q \in Procs : Comm("send", c, Kernel, q)
  \/ \E c \in Chans : Enqueue(c) \/ \E p \in Procs : Dequeue(c, p)
  \/ \E P \in SUBSET Procs, C \in SUBSET Chans : Withdraw(P, C)

Spec == Init /\ [][Next]_vars
=============================================================================
