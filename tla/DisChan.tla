------------------------------ MODULE DisChan ------------------------------
(***************************************************************************)
(* Channels of Dis: send, recv, alt and nbalt (interp/xec.c, interp/alt.c),*)
(* messages the kernel queues (csendq), the receive of a kernel process on *)
(* behalf of its Prog (crecv in emu/inferno.c, cblock in emu/dis.c), and   *)
(* what happens to those who wait when a channel is freed (freechan in     *)
(* interp/heap.c) or a Prog is killed (killprog).                          *)
(*                                                                         *)
(* An instruction of a Prog is executed by the owner of the virtual        *)
(* machine, so that it is one step; any ready Prog may be next.            *)
(***************************************************************************)
EXTENDS Dis, Naturals, SequencesExt, FiniteSets

CONSTANTS Chans,
          Arrays,      \* arrays of channels
          InitArr,     \* their elements
          Tables,      \* the tables of alt instructions
          Receivers,   \* Progs that make a system call which receives
          QLim,        \* the bound of csendq
          Mutable,     \* an array is assigned to while a Prog waits for it
          Kernel

(* A message, of the last step.                                            *)
Message(c, s, r) == [c |-> c, s |-> s, r |-> r]
Messages == [c : Chans, s : Progs \cup {Kernel}, r : Progs \cup {None}]

KILLED == ""
Causes == {KILLED, "channel hangup", "alt channel hungup"}

ASSUME ChanAssumption ==
  /\ InitArr \in [Arrays -> Seq(Chans)]
  /\ QLim \in Nat /\ Mutable \in BOOLEAN
  /\ Receivers \subseteq Progs
  /\ Kernel \notin Progs \cup {None}
  /\ None \notin Tables /\ None \notin Causes /\ None \notin Messages
  /\ \A t \in Tables : t.s \in Seq(Chans) /\ t.r \in Seq(Chans \cup Arrays)

VARIABLES st,        \* Prog.state
          send, recv,           \* Channel.send, Channel.recv: lists of Progs
          sendalt, recvalt,     \* Channel.sendalt, Channel.recvalt
          sendq,     \* the length of Channel.sendq
          arr,       \* elements of the arrays
          alt,       \* the table of a Prog in Palt
          reason,    \* Prog.kill
          addrun,    \* Prog.addrun is cwakeme
          kp,        \* where the process of a Prog in crecv is
          intr,      \* swiproc has pulled it out of Sleep
          freed,     \* channels that are gone
          last       \* the communication of the last step

disChanVars == <<st, send, recv, sendalt, recvalt, sendq, arr, alt, reason,
                 addrun, kp, intr, freed, last>>
chanVars == <<send, recv, sendalt, recvalt, sendq, arr, alt, freed>>
callVars == <<addrun, kp, intr>>

States == {"ready", "send", "recv", "alt", "release", "exiting", "dead"}

(* A list is searched for p, which is taken from where it is found first.  *)
RemoveAll(Q, p) == [c \in Chans |-> RemoveFirst(Q[c], p)]

-----------------------------------------------------------------------------
(* The channels of an alt table: where arms lead to a channel.             *)
SendArms(t, c) == {n \in DOMAIN t.s : t.s[n] = c}
RecvArms(t, c) ==
  {n \in DOMAIN t.r : t.r[n] = c \/ (t.r[n] \in Arrays /\ c \in ToSet(arr[t.r[n]]))}
Sends(t) == {c \in Chans : SendArms(t, c) # {}}
Recvs(t) == {c \in Chans : RecvArms(t, c) # {}}

(* A channel that is listed twice finds itself busy.                       *)
Twice(t) ==
  \/ \E m, n \in DOMAIN t.s : m # n /\ t.s[m] = t.s[n]
  \/ \E c \in Chans : Cardinality(RecvArms(t, c)) > 1
  \/ \E n \in DOMAIN t.r : t.r[n] \in Arrays
       /\ \E i, j \in DOMAIN arr[t.r[n]] : i # j /\ arr[t.r[n]][i] = arr[t.r[n]][j]

(* altdone() of q, after its arms were set or another partner was found.   *)
SendAltDone(sa, q, t) == [c \in Chans |-> IF c \in Sends(t) /\ sa[c] = q THEN None ELSE sa[c]]
RecvAltDone(ra, q, t) == [c \in Chans |-> IF c \in Recvs(t) /\ ra[c] = q THEN None ELSE ra[c]]

\* Mutant of CanRecv: a sender in an alt is overlooked.
CanRecvLists(c) == send[c] # <<>> \/ sendq[c] > 0

CanSend(c) == recv[c] # <<>> \/ recvalt[c] # None
CanRecv(c) == send[c] # <<>> \/ sendalt[c] # None \/ sendq[c] > 0

(* Whether p runs: the others are behind it in the run queue.              *)
Runs(p) == st[p] = "ready" /\ reason[p] = None

-----------------------------------------------------------------------------
(* cwakeme(p): the process that sleeps in cblock for p is woken.           *)
WakeMe(p) ==
  /\ addrun' = [addrun EXCEPT ![p] = FALSE]
  /\ kp' = [kp EXCEPT ![p] = IF @ = "sleep" THEN "woken" ELSE @]

(* addrun(p), of one partner of a communication.                           *)
RunAgain(p) ==
  IF addrun[p]
    THEN WakeMe(p) /\ UNCHANGED <<st, intr>>
    ELSE st' = [st EXCEPT ![p] = "ready"] /\ UNCHANGED callVars

\* Mutant of SendTo: the alt's other channels keep their reference to q.
SendToMarked(p, c) ==
  IF recvalt[c] # None
    THEN LET q == recvalt[c] IN
         /\ last' = Message(c, p, q)
         /\ recvalt' = [recvalt EXCEPT ![c] = None]
         /\ alt' = [alt EXCEPT ![q] = None]
         /\ RunAgain(q)
         /\ UNCHANGED <<send, recv, sendalt, sendq>>
    ELSE LET q == Head(recv[c]) IN
         /\ last' = Message(c, p, q)
         /\ recv' = [recv EXCEPT ![c] = Tail(@)]
         /\ RunAgain(q)
         /\ UNCHANGED <<send, sendalt, recvalt, sendq, alt>>

(* isend() by p on c, when somebody receives there.                        *)
SendTo(p, c) ==
  IF recvalt[c] # None
    THEN LET q == recvalt[c] IN
         /\ last' = Message(c, p, q)
         /\ recvalt' = RecvAltDone([recvalt EXCEPT ![c] = None], q, alt[q])
         /\ sendalt' = SendAltDone(sendalt, q, alt[q])
         /\ alt' = [alt EXCEPT ![q] = None]
         /\ RunAgain(q)
         /\ UNCHANGED <<send, recv, sendq>>
    ELSE LET q == Head(recv[c]) IN
         /\ last' = Message(c, p, q)
         /\ recv' = [recv EXCEPT ![c] = Tail(@)]
         /\ RunAgain(q)
         /\ UNCHANGED <<send, sendalt, recvalt, sendq, alt>>

(* irecv() by p on c, when something was sent there.                       *)
RecvFrom(p, c) ==
  IF sendalt[c] # None
    THEN LET q == sendalt[c] IN
         /\ last' = Message(c, q, p)
         /\ sendalt' = SendAltDone([sendalt EXCEPT ![c] = None], q, alt[q])
         /\ recvalt' = RecvAltDone(recvalt, q, alt[q])
         /\ alt' = [alt EXCEPT ![q] = None]
         /\ RunAgain(q)
         /\ UNCHANGED <<send, recv, sendq>>
  ELSE IF send[c] # <<>>
    THEN LET q == Head(send[c]) IN
         /\ last' = Message(c, q, p)
         /\ send' = [send EXCEPT ![c] = Tail(@)]
         /\ RunAgain(q)
         /\ UNCHANGED <<recv, sendalt, recvalt, sendq, alt>>
    ELSE /\ last' = Message(c, Kernel, p)
         /\ sendq' = [sendq EXCEPT ![c] = @ - 1]
         /\ UNCHANGED <<st, callVars, send, recv, sendalt, recvalt, alt>>

-----------------------------------------------------------------------------
Send(p, c) ==
  /\ Runs(p) /\ c \notin freed
  /\ IF CanSend(c)
       THEN SendTo(p, c)
       ELSE /\ st' = [st EXCEPT ![p] = "send"]
            /\ send' = [send EXCEPT ![c] = Append(@, p)]
            /\ last' = None
            /\ UNCHANGED <<recv, sendalt, recvalt, sendq, alt, callVars>>
  /\ UNCHANGED <<arr, reason, freed>>

Recv(p, c) ==
  /\ Runs(p) /\ c \notin freed
  /\ IF CanRecv(c)
       THEN RecvFrom(p, c)
       ELSE /\ st' = [st EXCEPT ![p] = "recv"]
            /\ recv' = [recv EXCEPT ![c] = Append(@, p)]
            /\ last' = None
            /\ UNCHANGED <<send, sendalt, recvalt, sendq, alt, callVars>>
  /\ UNCHANGED <<arr, reason, freed>>

(* altrdy(): an error if an arm is busy, or leads both to and from p.      *)
Refused(t) ==
  \/ Twice(t) \/ Sends(t) \cap Recvs(t) # {}
  \/ \E c \in Sends(t) : sendalt[c] # None
  \/ \E c \in Recvs(t) : recvalt[c] # None

ReadyArms(t) ==
  {<<"send", c>> : c \in {d \in Sends(t) : CanSend(d)}}
    \cup {<<"recv", c>> : c \in {d \in Recvs(t) : CanRecv(d)}}

(* The Prog exits, or goes on in a handler.                                *)
AltRefused(p, t) ==
  /\ Runs(p) /\ (Sends(t) \cup Recvs(t)) \cap freed = {}
  /\ Refused(t)
  /\ sendalt' = SendAltDone(sendalt, p, t)
  /\ recvalt' = RecvAltDone(recvalt, p, t)
  /\ last' = None
  /\ st' \in {st, [st EXCEPT ![p] = "dead"]}
  /\ UNCHANGED <<send, recv, sendq, arr, alt, reason, callVars, freed>>

(* xecalt(1), with nothing ready.                                          *)
AltWait(p, t) ==
  /\ Runs(p) /\ (Sends(t) \cup Recvs(t)) \cap freed = {}
  /\ ~Refused(t)
  /\ ReadyArms(t) = {}
  /\ st' = [st EXCEPT ![p] = "alt"]
  /\ alt' = [alt EXCEPT ![p] = t]
  /\ sendalt' = [c \in Chans |-> IF c \in Sends(t) THEN p ELSE sendalt[c]]
  /\ recvalt' = [c \in Chans |-> IF c \in Recvs(t) THEN p ELSE recvalt[c]]
  /\ last' = None
  /\ UNCHANGED <<send, recv, sendq, arr, reason, callVars, freed>>

(* xecalt(0) with nothing ready leaves everything as it was.  altcomm():   *)
(* one of the ready arms, at random.                                       *)
AltComm(p, t) ==
  /\ Runs(p) /\ (Sends(t) \cup Recvs(t)) \cap freed = {}
  /\ ~Refused(t)
  /\ \E a \in ReadyArms(t) :
       \/ a[1] = "send" /\ SendTo(p, a[2])
       \/ a[1] = "recv" /\ RecvFrom(p, a[2])
  /\ UNCHANGED <<arr, reason, freed>>

(* csendq(): the kernel sends, or queues at most QLim messages.            *)
CSendQ(c) ==
  /\ c \notin freed
  /\ IF CanSend(c)
       THEN SendTo(Kernel, c)
       ELSE /\ sendq[c] < QLim
            /\ sendq' = [sendq EXCEPT ![c] = @ + 1]
            /\ last' = Message(c, Kernel, None)
            /\ UNCHANGED <<st, send, recv, sendalt, recvalt, alt, callVars>>
  /\ UNCHANGED <<arr, reason, freed>>

-----------------------------------------------------------------------------
(***************************************************************************)
(* crecv() in a system call of p.  The Prog is listed and p's process      *)
(* releases the virtual machine, sleeps, and acquires it again.  Proc.r is *)
(* not set between the release and the Sleep: swiproc misses the process   *)
(* then.                                                                   *)
(***************************************************************************)
CRecv(p, c) ==
  /\ Runs(p) /\ p \in Receivers /\ c \notin freed
  /\ IF CanRecv(c)
       THEN RecvFrom(p, c)
       ELSE /\ st' = [st EXCEPT ![p] = "release"]
            /\ recv' = [recv EXCEPT ![c] = Append(@, p)]
            /\ addrun' = [addrun EXCEPT ![p] = TRUE]
            /\ kp' = [kp EXCEPT ![p] = "released"]
            /\ last' = None
            /\ UNCHANGED <<send, sendalt, recvalt, sendq, alt, intr>>
  /\ UNCHANGED <<arr, reason, freed>>

\* Mutant of CSleep: cdone() does not look at Prog.kill.
CSleepKilled(p) ==
  /\ kp[p] = "released"
  /\ kp' = [kp EXCEPT ![p] = IF addrun[p] THEN "sleep" ELSE "woken"]
  /\ last' = None
  /\ UNCHANGED <<st, reason, addrun, intr, chanVars>>

(* Sleep(o->rend, cdone, p): cdone() tells whether there is a need to.     *)
CSleep(p) ==
  /\ kp[p] = "released"
  /\ kp' = [kp EXCEPT ![p] = IF addrun[p] /\ reason[p] = None THEN "sleep" ELSE "woken"]
  /\ last' = None
  /\ UNCHANGED <<st, reason, addrun, intr, chanVars>>

\* Mutant of CReturn: Prog.addrun is left set by an error.
CReturnArmed(p) ==
  LET error == intr[p] \/ reason[p] # None IN
  /\ kp[p] = "woken"
  /\ kp' = [kp EXCEPT ![p] = "none"]
  /\ addrun' = IF error THEN addrun ELSE [addrun EXCEPT ![p] = FALSE]
  /\ intr' = [intr EXCEPT ![p] = FALSE]
  /\ recv' = IF error THEN RemoveAll(recv, p) ELSE recv
  /\ st' = [st EXCEPT ![p] = "ready"]
  /\ last' = None
  /\ UNCHANGED <<reason, send, sendalt, recvalt, sendq, arr, alt, freed>>

(* acquire(), and the return of crecv or the error Eintr, in which case p  *)
(* leaves the list, if it was not taken from it, and the system call fails.*)
CReturn(p) ==
  LET error == intr[p] \/ reason[p] # None IN
  /\ kp[p] = "woken"
  /\ kp' = [kp EXCEPT ![p] = "none"]
  /\ addrun' = [addrun EXCEPT ![p] = FALSE]
  /\ intr' = [intr EXCEPT ![p] = FALSE]
  /\ recv' = IF error THEN RemoveAll(recv, p) ELSE recv
  /\ st' = [st EXCEPT ![p] = "ready"]
  /\ last' = None
  /\ UNCHANGED <<reason, send, sendalt, recvalt, sendq, arr, alt, freed>>

-----------------------------------------------------------------------------
(* swiprog(p): of a process in the call, one that sleeps is pulled out.    *)
Interrupted(P) == {p \in P : kp[p] = "sleep"}

(* killprog(p), by another Prog.                                           *)
KillWaiter(p) ==
  /\ st[p] \notin {"dead", "exiting"}
  /\ \E q \in Progs \ {p} : Runs(q)
  /\ IF st[p] = "release"
       THEN /\ reason' = [reason EXCEPT ![p] = KILLED]
            /\ st' = [st EXCEPT ![p] = "exiting"]
            /\ kp' = [kp EXCEPT ![p] = IF @ = "sleep" THEN "woken" ELSE @]
            /\ intr' = [intr EXCEPT ![p] = p \in Interrupted({p})]
            /\ UNCHANGED <<send, recv, sendalt, recvalt, alt>>
       ELSE /\ st' = [st EXCEPT ![p] = "dead"]
            /\ send' = RemoveAll(send, p)
            /\ recv' = RemoveAll(recv, p)
            /\ sendalt' = IF st[p] = "alt" THEN SendAltDone(sendalt, p, alt[p]) ELSE sendalt
            /\ recvalt' = IF st[p] = "alt" THEN RecvAltDone(recvalt, p, alt[p]) ELSE recvalt
            /\ alt' = [alt EXCEPT ![p] = None]
            /\ UNCHANGED <<reason, kp, intr>>
  /\ last' = None
  /\ UNCHANGED <<sendq, arr, addrun, freed>>

(* progexit(), of the Prog that runs.                                      *)
ExitProg(p) ==
  /\ Runs(p)
  /\ st' = [st EXCEPT ![p] = "dead"]
  /\ last' = None
  /\ UNCHANGED <<reason, chanVars, callVars>>

(* xec(p) raises Prog.kill: the Prog exits, or a handler catches it.       *)
Raise(p) ==
  /\ st[p] = "ready" /\ reason[p] # None
  /\ reason' = [reason EXCEPT ![p] = None]
  /\ \/ st' = [st EXCEPT ![p] = "dead"]
     \/ reason[p] # KILLED /\ UNCHANGED st
  /\ last' = None
  /\ UNCHANGED <<chanVars, callVars>>

\* Mutant of FreeChan: who waits for the channel is not told.
FreeChanSilent(c) ==
  LET Alts  == {p \in Progs : sendalt[c] = p \/ recvalt[c] = p}
      Gone  == {p \in Alts : st[p] = "alt"}
      Comms == ToSet(send[c]) \cup ToSet(recv[c])
      Calls == {p \in Comms : st[p] = "release"}
      Told  == {p \in Comms : st[p] \in {"send", "recv"}}
  IN
  /\ freed' = freed \cup {c}
  /\ send' = [send EXCEPT ![c] = <<>>]
  /\ recv' = [recv EXCEPT ![c] = <<>>]
  /\ sendq' = [sendq EXCEPT ![c] = 0]
  /\ sendalt' = [d \in Chans |->
       IF sendalt[d] \in Gone /\ d \in Sends(alt[sendalt[d]]) THEN None ELSE sendalt[d]]
  /\ recvalt' = [d \in Chans |->
       IF recvalt[d] \in Gone /\ d \in Recvs(alt[recvalt[d]]) THEN None ELSE recvalt[d]]
  /\ alt' = [p \in Progs |-> IF p \in Gone THEN None ELSE alt[p]]
  /\ reason' = [p \in Progs |-> IF p \in Gone THEN "alt channel hungup" ELSE reason[p]]
  /\ st' = [p \in Progs |-> IF p \in Gone \cup Told THEN "ready" ELSE st[p]]
  /\ kp' = [p \in Progs |-> IF p \in Interrupted(Calls) THEN "woken" ELSE kp[p]]
  /\ intr' = [p \in Progs |-> p \in Interrupted(Calls) \/ intr[p]]
  /\ last' = None
  /\ UNCHANGED <<addrun, arr>>

(***************************************************************************)
(* freechan(c): the last reference goes.  Those in an alt and those who    *)
(* wait for c itself are told; a process in crecv is interrupted.          *)
(***************************************************************************)
FreeChan(c) ==
  LET Alts  == {p \in Progs : sendalt[c] = p \/ recvalt[c] = p}
      Gone  == {p \in Alts : st[p] = "alt"}
      Comms == ToSet(send[c]) \cup ToSet(recv[c])
      Calls == {p \in Comms : st[p] = "release"}
      Told  == {p \in Comms : st[p] \in {"send", "recv"}}
  IN
  /\ freed' = freed \cup {c}
  /\ send' = [send EXCEPT ![c] = <<>>]
  /\ recv' = [recv EXCEPT ![c] = <<>>]
  /\ sendq' = [sendq EXCEPT ![c] = 0]
  /\ sendalt' = [d \in Chans |->
       IF sendalt[d] \in Gone /\ d \in Sends(alt[sendalt[d]]) THEN None ELSE sendalt[d]]
  /\ recvalt' = [d \in Chans |->
       IF recvalt[d] \in Gone /\ d \in Recvs(alt[recvalt[d]]) THEN None ELSE recvalt[d]]
  /\ alt' = [p \in Progs |-> IF p \in Gone THEN None ELSE alt[p]]
  /\ reason' = [p \in Progs |-> IF p \in Gone THEN "alt channel hungup"
                           ELSE IF p \in Told THEN "channel hangup" ELSE reason[p]]
  /\ st' = [p \in Progs |-> IF p \in Gone \cup Told THEN "ready" ELSE st[p]]
  /\ kp' = [p \in Progs |-> IF p \in Interrupted(Calls) THEN "woken" ELSE kp[p]]
  /\ intr' = [p \in Progs |-> p \in Interrupted(Calls) \/ intr[p]]
  /\ last' = None
  /\ UNCHANGED <<addrun, arr>>

InArray(c) == \E a \in Arrays : c \in ToSet(arr[a])

DropChan(c) ==
  /\ c \notin freed /\ ~InArray(c)
  /\ FreeChan(c)

(* a[i] = c, by a Prog; the element that was there is referred to from     *)
(* elsewhere, or else DropChan follows.                                        *)
Assign(a, i, c) ==
  /\ c \notin freed
  /\ Mutable \/ \A p \in Progs : st[p] = "alt" => a \notin ToSet(alt[p].r)
  /\ \E q \in Progs : Runs(q)
  /\ arr' = [arr EXCEPT ![a][i] = c]
  /\ last' = None
  /\ UNCHANGED <<st, send, recv, sendalt, recvalt, sendq, alt, freed, reason, callVars>>

-----------------------------------------------------------------------------
ChanInit ==
  /\ st = [p \in Progs |-> "ready"]
  /\ send = [c \in Chans |-> <<>>]
  /\ recv = [c \in Chans |-> <<>>]
  /\ sendalt = [c \in Chans |-> None]
  /\ recvalt = [c \in Chans |-> None]
  /\ sendq = [c \in Chans |-> 0]
  /\ arr = InitArr
  /\ alt = [p \in Progs |-> None]
  /\ reason = [p \in Progs |-> None]
  /\ addrun = [p \in Progs |-> FALSE]
  /\ kp = [p \in Progs |-> "none"]
  /\ intr = [p \in Progs |-> FALSE]
  /\ freed = {}
  /\ last = None

ChanNext ==
  \/ \E p \in Progs, c \in Chans : Send(p, c) \/ Recv(p, c) \/ CRecv(p, c)
  \/ \E p \in Progs, t \in Tables : AltRefused(p, t) \/ AltWait(p, t) \/ AltComm(p, t)
  \/ \E p \in Progs : CSleep(p) \/ CReturn(p) \/ KillWaiter(p) \/ ExitProg(p) \/ Raise(p)
  \/ \E c \in Chans : CSendQ(c) \/ DropChan(c)
  \/ \E a \in Arrays, c \in Chans : \E i \in DOMAIN arr[a] : Assign(a, i, c)

ChanSpec == ChanInit /\ [][ChanNext]_disChanVars

(* A process that is not asleep goes on; so does the Prog at the head of   *)
(* the run queue.                                                          *)
ChanFairness ==
  \A p \in Progs : /\ WF_disChanVars(CSleep(p)) /\ WF_disChanVars(CReturn(p))
                   /\ WF_disChanVars(Raise(p))
ChanFairSpec == ChanSpec /\ ChanFairness

-----------------------------------------------------------------------------
ChanTypeOK ==
  /\ st \in [Progs -> States]
  /\ send \in [Chans -> Seq(Progs)] /\ recv \in [Chans -> Seq(Progs)]
  /\ sendalt \in [Chans -> Progs \cup {None}]
  /\ recvalt \in [Chans -> Progs \cup {None}]
  /\ sendq \in [Chans -> 0 .. QLim]
  /\ arr \in [Arrays -> Seq(Chans)]
  /\ alt \in [Progs -> Tables \cup {None}]
  /\ reason \in [Progs -> Causes \cup {None}]
  /\ addrun \in [Progs -> BOOLEAN]
  /\ kp \in [Progs -> {"none", "released", "sleep", "woken"}]
  /\ intr \in [Progs -> BOOLEAN]
  /\ freed \in SUBSET Chans
  /\ \A p \in Progs : addrun[p] => st[p] \in {"release", "exiting"}

\* altdone() leaves no reference to a Prog that is not in an alt, and a Prog
\* in an alt is found at each of the channels it waits for.
AltListed ==
  \A c \in Chans, p \in Progs :
    /\ sendalt[c] = p <=> st[p] = "alt" /\ c \in Sends(alt[p])
    /\ recvalt[c] = p <=> st[p] = "alt" /\ c \in Recvs(alt[p])

\* Who waits for a channel is listed there, once; nobody is listed who was
\* killed, has exited or was told that the channel has gone.
WaitListed ==
  LET Places(Q, p) == UNION {{c} \X {i \in DOMAIN Q[c] : Q[c][i] = p} : c \in Chans}
  IN \A p \in Progs :
       /\ Cardinality(Places(send, p)) = (IF st[p] = "send" THEN 1 ELSE 0)
       /\ st[p] = "recv" => Cardinality(Places(recv, p)) = 1
       /\ Places(recv, p) # {} =>
            st[p] = "recv" \/ (Cardinality(Places(recv, p)) = 1 /\ kp[p] # "none")

\* The lists of the channels and the states of the Progs agree.
Listed == AltListed /\ WaitListed

\* A Prog that waits comes out of it by a message, or with the reason in
\* Prog.kill, or dead.
LeavesForCause ==
  [][ \A p \in Progs :
        st[p] \in {"send", "recv", "alt"} /\ st'[p] # st[p] =>
          \/ last' # None /\ p \in {last'.s, last'.r}
          \/ st'[p] = "ready" /\ reason'[p] # None
          \/ st'[p] = "dead"
    ]_disChanVars

-----------------------------------------------------------------------------
(* What each Prog waits for.                                               *)
Offer(p) ==
  {<<"send", c>> : c \in {d \in Chans : p \in ToSet(send[d])}}
    \cup {<<"recv", c>> : c \in {d \in Chans : p \in ToSet(recv[d])}}
    \cup IF st[p] = "alt"
           THEN {<<"send", c>> : c \in Sends(alt[p])} \cup {<<"recv", c>> : c \in Recvs(alt[p])}
           ELSE {}

Chan == INSTANCE Csp WITH
  Procs <- Progs,
  offer <- [p \in Progs |-> Offer(p)],
  queue <- sendq

\* Channels, alts and receives of the kernel are rendezvous as Csp has them: no
\* two Progs wait for each other, and a partner is taken once.
Rendezvous == Chan!Spec

\* A Prog that is killed in a receive of the kernel leaves it, and dies.
KilledReturns == \A p \in Progs : st[p] = "exiting" ~> st[p] = "dead"

\* The process that received for a Prog returns.
ReceiveReturns ==
  \A p \in Progs : kp[p] # "none" /\ ~addrun[p] ~> kp[p] = "none"

\* Receives of the kernel end, also those that are interrupted.
CRecvReturns == KilledReturns /\ ReceiveReturns

=============================================================================
