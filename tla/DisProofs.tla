----------------------------- MODULE DisProofs -----------------------------
(***************************************************************************)
(* What runs on the virtual machine of Dis: channels, the machine itself,  *)
(* and the Progs.                                                          *)
(*                                                                         *)
(* DisChan: ChanInv is an inductive invariant, and the channels implement  *)
(* Csp.                                                                    *)
(*                                                                         *)
(* The protocol of VmToken: TokenInv is an inductive invariant for any     *)
(* number of vmachines and slaves; the machine has at most one owner, and  *)
(* no process that waits for it is forgotten.                              *)
(*                                                                         *)
(* VmSched implements VmToken: whatever the vmachines and the slaves do to *)
(* the Progs, the machine changes hands by that protocol, and so what is   *)
(* proved of it holds of VmSched.  Then the Progs: with one owner of the   *)
(* machine, the run queue, the Progs that are released and the collector's *)
(* lock are what each process's place says.                                *)
(***************************************************************************)
EXTENDS VmSched, DisChan, QueueProofs, FiniteSetTheorems

-----------------------------------------------------------------------------
(***************************************************************************)
(* Channels: the inductive invariant.                                      *)
(***************************************************************************)
\* Recvs(t) with the elements of the arrays as a parameter.
RecvsIn(A, t) ==
  {c \in Chans : \E n \in DOMAIN t.r :
     t.r[n] = c \/ (t.r[n] \in Arrays /\ c \in ToSet(A[t.r[n]]))}

ChanTypes ==
  /\ st \in [Progs -> States]
  /\ send \in [Chans -> Seq(Progs)] /\ recv \in [Chans -> Seq(Progs)]
  /\ sendalt \in [Chans -> Progs \cup {None}]
  /\ recvalt \in [Chans -> Progs \cup {None}]
  /\ sendq \in [Chans -> 0 .. QLim]
  /\ arr \in [Arrays -> Seq(Chans)]
  /\ alt \in [Progs -> Tables \cup {None}]
  /\ reason \in [Progs -> Causes \cup {None}]
  /\ addrun \in [Progs -> BOOLEAN]
  /\ kp \in [Progs -> {"none", "released", "sleep", "woken"}]
  /\ intr \in [Progs -> BOOLEAN]
  /\ freed \in SUBSET Chans

\* A process is in the receive of its Prog, and goes on for a reason.
CRecvInv ==
  /\ \A p \in Progs : kp[p] # "none" <=> st[p] \in {"release", "exiting"}
  /\ \A p \in Progs : addrun[p] => kp[p] # "none"
  /\ \A p \in Progs : kp[p] = "woken" /\ addrun[p] => intr[p] \/ reason[p] # None

\* Nobody is listed twice, nor without waiting there.
ListInv ==
  /\ \A c \in Chans : IsInjective(send[c]) /\ IsInjective(recv[c])
  /\ \A c \in Chans, p \in Progs : p \in ToSet(send[c]) => st[p] = "send"
  /\ \A c \in Chans, p \in Progs : p \in ToSet(recv[c]) => st[p] = "recv" \/ addrun[p]
  /\ \A c, d \in Chans, p \in Progs : p \in ToSet(send[c]) /\ p \in ToSet(send[d]) => c = d
  /\ \A c, d \in Chans, p \in Progs : p \in ToSet(recv[c]) /\ p \in ToSet(recv[d]) => c = d
  /\ \A p \in Progs : st[p] = "send" => \E c \in Chans : p \in ToSet(send[c])
  /\ \A p \in Progs : st[p] = "recv" => \E c \in Chans : p \in ToSet(recv[c])

\* An alt is found where its table says, and nowhere else.
AltInv ==
  /\ \A p \in Progs : st[p] = "alt" => alt[p] \in Tables
  /\ \A c \in Chans, p \in Progs : sendalt[c] = p <=> st[p] = "alt" /\ c \in Sends(alt[p])
  /\ \A c \in Chans, p \in Progs :
       recvalt[c] = p <=> st[p] = "alt" /\ c \in RecvsIn(arr, alt[p])

ChanInv == ChanTypes /\ CRecvInv /\ ListInv /\ AltInv

-----------------------------------------------------------------------------
\* nil is not a Prog, nor a message, nor a reason.
LEMMA NilFacts ==
  /\ None \notin Progs /\ Kernel \notin Progs /\ None # Kernel /\ None \notin Tables
  /\ None # KILLED /\ None # "channel hangup" /\ None # "alt channel hungup"
  /\ \A c \in Chans, s \in Progs \cup {Kernel}, r \in Progs \cup {None} :
       Message(c, s, r) # None
  <1>1. \A c \in Chans, s \in Progs \cup {Kernel}, r \in Progs \cup {None} :
          Message(c, s, r) \in Messages
    BY DEF Messages, Message
  <1>2. None \notin Messages /\ None \notin Causes
    BY ChanAssumption
  <1>3. \A c \in Chans, s \in Progs \cup {Kernel}, r \in Progs \cup {None} :
          Message(c, s, r) # None
    BY <1>1, <1>2
  <1>4. None # KILLED /\ None # "channel hangup" /\ None # "alt channel hungup"
    BY <1>2 DEF Causes
  <1>5. None \notin Progs /\ Kernel \notin Progs /\ None # Kernel /\ None \notin Tables
    BY NoneAssumption, ChanAssumption
  <1> QED BY <1>3, <1>4, <1>5

\* What an alt receives from depends on the arrays only.
LEMMA RecvsAre ==
  ASSUME NEW t
  PROVE  Recvs(t) = RecvsIn(arr, t) /\ Recvs(t)' = RecvsIn(arr', t)
  BY DEF Recvs, RecvArms, RecvsIn

\* A list of Progs has only Progs.
LEMMA ListedProgs ==
  ASSUME ChanTypes, NEW c \in Chans
  PROVE  /\ send[c] \in Seq(Progs) /\ recv[c] \in Seq(Progs)
         /\ ToSet(send[c]) \subseteq Progs /\ ToSet(recv[c]) \subseteq Progs
         /\ send[c] # <<>> <=> ToSet(send[c]) # {}
         /\ recv[c] # <<>> <=> ToSet(recv[c]) # {}
  <1>1. send[c] \in Seq(Progs) /\ recv[c] \in Seq(Progs)
    BY DEF ChanTypes
  <1> QED BY <1>1, QueueSubset

\* At first nobody waits.
LEMMA InitChanInv == ChanInit => ChanInv
  <1> SUFFICES ASSUME ChanInit PROVE ChanInv
    OBVIOUS
  <1>1. ChanTypes
    <2>1. <<>> \in Seq(Progs) /\ 0 \in 0 .. QLim /\ arr \in [Arrays -> Seq(Chans)]
      BY ChanAssumption DEF ChanInit
    <2> QED BY <2>1 DEF ChanInit, ChanTypes, States
  <1>2. CRecvInv
    BY DEF ChanInit, CRecvInv
  <1>3. ListInv
    BY EmptyQueue DEF ChanInit, ListInv
  <1>4. AltInv
    BY NilFacts DEF ChanInit, AltInv
  <1> QED BY <1>1, <1>2, <1>3, <1>4 DEF ChanInv

-----------------------------------------------------------------------------
(***************************************************************************)
(* A partner is taken: out of an alt, or off the head of a list.           *)
(***************************************************************************)
Without(f, q) == [d \in Chans |-> IF f[d] = q THEN None ELSE f[d]]

AltTaken(q) ==
  /\ st[q] = "alt"
  /\ st' = [st EXCEPT ![q] = "ready"]
  /\ alt' = [alt EXCEPT ![q] = None]
  /\ sendalt' = Without(sendalt, q)
  /\ recvalt' = Without(recvalt, q)
  /\ UNCHANGED <<send, recv, callVars>>

RecvTaken(q, c) ==
  /\ recv[c] # <<>> /\ q = Head(recv[c])
  /\ recv' = [recv EXCEPT ![c] = Tail(@)]
  /\ RunAgain(q)
  /\ UNCHANGED <<send, sendalt, recvalt, alt>>

SendTaken(q, c) ==
  /\ send[c] # <<>> /\ q = Head(send[c])
  /\ send' = [send EXCEPT ![c] = Tail(@)]
  /\ RunAgain(q)
  /\ UNCHANGED <<recv, sendalt, recvalt, alt>>

Taken(q, c) ==
  /\ AltTaken(q) \/ RecvTaken(q, c) \/ SendTaken(q, c)
  /\ UNCHANGED <<sendq, arr, reason, freed>>

\* altdone() takes a Prog that is in an alt from all channels.
LEMMA AltDone ==
  ASSUME ChanInv, NEW q \in Progs, st[q] = "alt"
  PROVE  /\ SendAltDone(sendalt, q, alt[q]) = Without(sendalt, q)
         /\ RecvAltDone(recvalt, q, alt[q]) = Without(recvalt, q)
         /\ \A c \in Chans : sendalt[c] = q =>
              SendAltDone([sendalt EXCEPT ![c] = None], q, alt[q]) = Without(sendalt, q)
         /\ \A c \in Chans : recvalt[c] = q =>
              RecvAltDone([recvalt EXCEPT ![c] = None], q, alt[q]) = Without(recvalt, q)
  <1>1. Recvs(alt[q]) = RecvsIn(arr, alt[q])
    BY RecvsAre
  <1>2. \A c \in Chans : (sendalt[c] = q <=> c \in Sends(alt[q]))
                         /\ (recvalt[c] = q <=> c \in Recvs(alt[q]))
    BY <1>1 DEF ChanInv, AltInv
  <1>3. sendalt \in [Chans -> Progs \cup {None}] /\ recvalt \in [Chans -> Progs \cup {None}]
    BY DEF ChanInv, ChanTypes
  <1> HIDE DEF ChanInv
  <1> QED BY <1>2, <1>3 DEF SendAltDone, RecvAltDone, Without

\* altdone() changes nothing for one who is in no alt.
LEMMA AltNotDone ==
  ASSUME ChanInv, NEW q \in Progs, st[q] # "alt", NEW t
  PROVE  SendAltDone(sendalt, q, t) = sendalt /\ RecvAltDone(recvalt, q, t) = recvalt
  <1>1. \A c \in Chans : sendalt[c] # q /\ recvalt[c] # q
    BY DEF ChanInv, AltInv
  <1>2. sendalt \in [Chans -> Progs \cup {None}] /\ recvalt \in [Chans -> Progs \cup {None}]
    BY DEF ChanInv, ChanTypes
  <1> QED BY <1>1, <1>2 DEF SendAltDone, RecvAltDone

\* A sender finds somebody who receives, and takes one.
LEMMA SendToTakes ==
  ASSUME ChanInv, NEW p, NEW c \in Chans, CanSend(c), SendTo(p, c),
         UNCHANGED <<arr, reason, freed>>
  PROVE  \E q \in Progs : /\ Taken(q, c) /\ last' = Message(c, p, q)
                          /\ recvalt[c] = q \/ q \in ToSet(recv[c])
  <1>1. CASE recvalt[c] # None
    <2> DEFINE q == recvalt[c]
    <2>1. q \in Progs /\ st[q] = "alt"
      BY <1>1 DEF ChanInv, ChanTypes, AltInv
    <2>2. SendTo(p, c) /\ ~addrun[q]
      BY <2>1 DEF ChanInv, CRecvInv
    <2>3. AltTaken(q)
      BY <1>1, <2>1, <2>2, AltDone DEF SendTo, AltTaken, RunAgain, callVars
    <2>4. last' = Message(c, p, q) /\ UNCHANGED sendq
      BY <1>1 DEF SendTo
    <2> QED BY <2>1, <2>3, <2>4 DEF Taken
  <1>2. CASE recvalt[c] = None
    <2> DEFINE q == Head(recv[c])
    <2>1. recv[c] # <<>> /\ recv[c] \in Seq(Progs)
      BY <1>2 DEF CanSend, ChanInv, ChanTypes
    <2>2. q \in Progs /\ q \in ToSet(recv[c])
      BY <2>1, TailQueue
    <2>3. RecvTaken(q, c) /\ last' = Message(c, p, q) /\ UNCHANGED sendq
      BY <1>2, <2>1 DEF SendTo, RecvTaken
    <2> QED BY <2>2, <2>3 DEF Taken
  <1> QED BY <1>1, <1>2

\* A receiver takes one who sends, or what the kernel has queued.
LEMMA RecvFromTakes ==
  ASSUME ChanInv, NEW p, NEW c \in Chans, CanRecv(c), RecvFrom(p, c),
         UNCHANGED <<arr, reason, freed>>
  PROVE  \/ \E q \in Progs : /\ Taken(q, c) /\ last' = Message(c, q, p)
                             /\ sendalt[c] = q \/ q \in ToSet(send[c])
         \/ /\ sendalt[c] = None /\ send[c] = <<>> /\ sendq[c] > 0
            /\ last' = Message(c, Kernel, p)
            /\ sendq' = [sendq EXCEPT ![c] = @ - 1]
            /\ UNCHANGED <<st, callVars, send, recv, sendalt, recvalt, alt>>
  <1>1. CASE sendalt[c] # None
    <2> DEFINE q == sendalt[c]
    <2>1. q \in Progs /\ st[q] = "alt"
      BY <1>1 DEF ChanInv, ChanTypes, AltInv
    <2>2. ~addrun[q]
      BY <2>1 DEF ChanInv, CRecvInv
    <2>3. AltTaken(q)
      BY <1>1, <2>1, <2>2, AltDone DEF RecvFrom, AltTaken, RunAgain, callVars
    <2>4. last' = Message(c, q, p) /\ UNCHANGED sendq
      BY <1>1 DEF RecvFrom
    <2> QED BY <2>1, <2>3, <2>4 DEF Taken
  <1>2. CASE sendalt[c] = None /\ send[c] # <<>>
    <2> DEFINE q == Head(send[c])
    <2>1. send[c] \in Seq(Progs)
      BY DEF ChanInv, ChanTypes
    <2>2. q \in Progs /\ q \in ToSet(send[c])
      BY <1>2, <2>1, TailQueue
    <2>3. SendTaken(q, c) /\ last' = Message(c, q, p) /\ UNCHANGED sendq
      BY <1>2, <2>1 DEF RecvFrom, SendTaken
    <2> QED BY <2>2, <2>3 DEF Taken
  <1>3. CASE sendalt[c] = None /\ send[c] = <<>>
    BY <1>3 DEF RecvFrom, CanRecv
  <1> QED BY <1>1, <1>2, <1>3

\* The list that a partner is taken from.
LEMMA HeadTaken ==
  ASSUME NEW Q \in [Chans -> Seq(Progs)], NEW c \in Chans, Q[c] # <<>>, IsInjective(Q[c]),
         NEW R, R = [Q EXCEPT ![c] = Tail(@)]
  PROVE  /\ R \in [Chans -> Seq(Progs)]
         /\ IsInjective(R[c])
         /\ \A d \in Chans : d # c => R[d] = Q[d]
         /\ ToSet(R[c]) = ToSet(Q[c]) \ {Head(Q[c])}
         /\ Head(Q[c]) \in ToSet(Q[c])
  <1>1. Q[c] \in Seq(Progs)
    OBVIOUS
  <1> QED BY <1>1, TailQueue

\* A partner of an alt is in no list.
LEMMA AltTakenInv ==
  ASSUME ChanInv, NEW q \in Progs, AltTaken(q), UNCHANGED <<sendq, arr, reason, freed>>
  PROVE  ChanInv'
  <1>0. ChanTypes /\ CRecvInv /\ ListInv /\ AltInv
    BY DEF ChanInv
  <1>1. /\ \A p \in Progs : st'[p] = IF p = q THEN "ready" ELSE st[p]
        /\ \A p \in Progs : alt'[p] = IF p = q THEN None ELSE alt[p]
        /\ \A d \in Chans : sendalt'[d] = IF sendalt[d] = q THEN None ELSE sendalt[d]
        /\ \A d \in Chans : recvalt'[d] = IF recvalt[d] = q THEN None ELSE recvalt[d]
        /\ UNCHANGED <<send, recv, addrun, kp, intr>>
    BY <1>0 DEF AltTaken, Without, callVars, ChanTypes
  <1>2. ChanTypes'
    BY <1>0 DEF ChanTypes, AltTaken, Without, callVars, States
  <1>3. CRecvInv'
    BY <1>0, <1>1 DEF CRecvInv, AltTaken
  <1>4. ListInv'
    BY <1>0, <1>1 DEF ListInv, AltTaken
  <1>5. AltInv'
    <2>0. None \notin Progs
      BY NilFacts
    <2>1. \A p \in Progs : st'[p] = "alt" => alt'[p] \in Tables
      BY <1>0, <1>1 DEF AltInv
    <2>2. \A d \in Chans, p \in Progs :
            sendalt'[d] = p <=> st'[p] = "alt" /\ d \in Sends(alt'[p])
      <3> SUFFICES ASSUME NEW d \in Chans, NEW p \in Progs
                   PROVE  sendalt'[d] = p <=> st'[p] = "alt" /\ d \in Sends(alt'[p])
        OBVIOUS
      <3>1. CASE p = q
        BY <1>1, <2>0, <3>1
      <3>2. CASE p # q
        BY <1>0, <1>1, <2>0, <3>2 DEF AltInv
      <3> QED BY <3>1, <3>2
    <2>3. \A d \in Chans, p \in Progs :
            recvalt'[d] = p <=> st'[p] = "alt" /\ d \in RecvsIn(arr', alt'[p])
      <3> SUFFICES ASSUME NEW d \in Chans, NEW p \in Progs
                   PROVE  recvalt'[d] = p <=> st'[p] = "alt" /\ d \in RecvsIn(arr', alt'[p])
        OBVIOUS
      <3>1. CASE p = q
        BY <1>1, <2>0, <3>1
      <3>2. CASE p # q
        BY <1>0, <1>1, <2>0, <3>2 DEF AltInv
      <3> QED BY <3>1, <3>2
    <2> QED BY <2>1, <2>2, <2>3 DEF AltInv
  <1> QED BY <1>2, <1>3, <1>4, <1>5 DEF ChanInv

\* The first of a list of receivers is woken, or its process is.
LEMMA RecvTakenInv ==
  ASSUME ChanInv, NEW q \in Progs, NEW c \in Chans, RecvTaken(q, c),
         UNCHANGED <<sendq, arr, reason, freed>>
  PROVE  ChanInv'
  <1>0. ChanTypes /\ CRecvInv /\ ListInv /\ AltInv
    BY DEF ChanInv
  <1>1. /\ recv' \in [Chans -> Seq(Progs)] /\ IsInjective(recv'[c])
        /\ \A d \in Chans : d # c => recv'[d] = recv[d]
        /\ ToSet(recv'[c]) = ToSet(recv[c]) \ {q} /\ q \in ToSet(recv[c])
    <2>1. /\ recv \in [Chans -> Seq(Progs)] /\ recv[c] # <<>> /\ IsInjective(recv[c])
          /\ recv' = [recv EXCEPT ![c] = Tail(@)] /\ q = Head(recv[c])
      BY <1>0 DEF RecvTaken, ChanTypes, ListInv
    <2> QED BY <2>1, HeadTaken
  <1>2. /\ \A d \in Chans : ToSet(recv'[d]) = ToSet(recv[d]) \ {q}
        /\ \A d \in Chans : IsInjective(recv'[d])
        /\ \A d \in Chans : d # c => q \notin ToSet(recv[d])
    <2>1. \A d \in Chans : d # c => q \notin ToSet(recv[d])
      BY <1>0, <1>1 DEF ListInv
    <2>2. \A d \in Chans : IsInjective(recv'[d])
      BY <1>0, <1>1 DEF ListInv
    <2> QED BY <1>1, <2>1, <2>2
  <1>3. UNCHANGED <<send, sendalt, recvalt, alt, intr>>
    BY DEF RecvTaken, RunAgain, WakeMe, callVars
  <1>4. \/ /\ addrun[q] /\ UNCHANGED st
           /\ \A p \in Progs : addrun'[p] <=> addrun[p] /\ p # q
           /\ \A p \in Progs : kp'[p] = IF p = q /\ kp[p] = "sleep" THEN "woken" ELSE kp[p]
        \/ /\ ~addrun[q] /\ st[q] = "recv" /\ UNCHANGED <<addrun, kp>>
           /\ \A p \in Progs : st'[p] = IF p = q THEN "ready" ELSE st[p]
    <2>1. ~addrun[q] => st[q] = "recv"
      BY <1>0, <1>1 DEF ListInv
    <2>2. CASE addrun[q]
      BY <1>0, <2>2 DEF RecvTaken, RunAgain, WakeMe, ChanTypes
    <2>3. CASE ~addrun[q]
      BY <1>0, <2>1, <2>3 DEF RecvTaken, RunAgain, callVars, ChanTypes
    <2> QED BY <2>2, <2>3
  <1>5. ChanTypes'
    <2>1. st' \in [Progs -> States] /\ addrun' \in [Progs -> BOOLEAN]
          /\ kp' \in [Progs -> {"none", "released", "sleep", "woken"}]
      BY <1>0 DEF RecvTaken, RunAgain, WakeMe, callVars, ChanTypes, States
    <2> QED BY <1>0, <1>1, <1>3, <2>1 DEF ChanTypes
  <1>6. CRecvInv'
    BY <1>0, <1>3, <1>4 DEF CRecvInv
  <1>7. ListInv'
    <2>1. \A d \in Chans : IsInjective(send'[d]) /\ IsInjective(recv'[d])
      BY <1>0, <1>2, <1>3 DEF ListInv
    <2>2. \A d \in Chans, p \in Progs : p \in ToSet(send'[d]) => st'[p] = "send"
      BY <1>0, <1>3, <1>4 DEF ListInv, CRecvInv
    <2>3. \A d \in Chans, p \in Progs :
            p \in ToSet(recv'[d]) => p # q /\ (st'[p] = "recv" \/ addrun'[p])
      BY <1>0, <1>2, <1>4 DEF ListInv
    <2>4. \A p \in Progs : st'[p] = "recv" => p # q /\ st[p] = "recv"
      BY <1>0, <1>4 DEF CRecvInv
    <2>5. \A p \in Progs : st'[p] = "send" => st[p] = "send"
      BY <1>4
    <2> QED BY <1>0, <1>2, <1>3, <2>1, <2>2, <2>3, <2>4, <2>5 DEF ListInv
  <1>8. AltInv'
    BY <1>0, <1>3, <1>4 DEF AltInv, CRecvInv
  <1> QED BY <1>5, <1>6, <1>7, <1>8 DEF ChanInv

\* The first of a list of senders is woken.
LEMMA SendTakenInv ==
  ASSUME ChanInv, NEW q \in Progs, NEW c \in Chans, SendTaken(q, c),
         UNCHANGED <<sendq, arr, reason, freed>>
  PROVE  ChanInv'
  <1>0. ChanTypes /\ CRecvInv /\ ListInv /\ AltInv
    BY DEF ChanInv
  <1>1. /\ send' \in [Chans -> Seq(Progs)] /\ IsInjective(send'[c])
        /\ \A d \in Chans : d # c => send'[d] = send[d]
        /\ ToSet(send'[c]) = ToSet(send[c]) \ {q} /\ q \in ToSet(send[c])
    <2>1. /\ send \in [Chans -> Seq(Progs)] /\ send[c] # <<>> /\ IsInjective(send[c])
          /\ send' = [send EXCEPT ![c] = Tail(@)] /\ q = Head(send[c])
      BY <1>0 DEF SendTaken, ChanTypes, ListInv
    <2> QED BY <2>1, HeadTaken
  <1>2. /\ \A d \in Chans : ToSet(send'[d]) = ToSet(send[d]) \ {q}
        /\ \A d \in Chans : IsInjective(send'[d])
    <2>1. \A d \in Chans : d # c => q \notin ToSet(send[d])
      BY <1>0, <1>1 DEF ListInv
    <2>2. \A d \in Chans : IsInjective(send'[d])
      BY <1>0, <1>1 DEF ListInv
    <2> QED BY <1>1, <2>1, <2>2
  <1>3. st[q] = "send" /\ ~addrun[q]
    BY <1>0, <1>1 DEF ListInv, CRecvInv
  <1>4. /\ UNCHANGED <<recv, sendalt, recvalt, alt, addrun, kp, intr>>
        /\ \A p \in Progs : st'[p] = IF p = q THEN "ready" ELSE st[p]
    BY <1>0, <1>3 DEF SendTaken, RunAgain, callVars, ChanTypes
  <1>5. ChanTypes'
    <2>1. st' \in [Progs -> States]
      BY <1>0, <1>3 DEF SendTaken, RunAgain, ChanTypes, States
    <2> QED BY <1>0, <1>1, <1>4, <2>1 DEF ChanTypes
  <1>6. CRecvInv'
    BY <1>0, <1>3, <1>4 DEF CRecvInv
  <1>7. ListInv'
    <2>1. \A d \in Chans : IsInjective(send'[d]) /\ IsInjective(recv'[d])
      BY <1>0, <1>2, <1>4 DEF ListInv
    <2>2. \A d \in Chans, p \in Progs : p \in ToSet(send'[d]) => st'[p] = "send"
      BY <1>0, <1>2, <1>4 DEF ListInv
    <2>3. \A d \in Chans, p \in Progs :
            p \in ToSet(recv'[d]) => st'[p] = "recv" \/ addrun'[p]
      BY <1>0, <1>3, <1>4 DEF ListInv
    <2>4. \A p \in Progs : /\ st'[p] = "recv" => st[p] = "recv"
                           /\ st'[p] = "send" => p # q /\ st[p] = "send"
      BY <1>4
    <2> QED BY <1>0, <1>2, <1>4, <2>1, <2>2, <2>3, <2>4 DEF ListInv
  <1>8. AltInv'
    BY <1>0, <1>3, <1>4 DEF AltInv
  <1> QED BY <1>5, <1>6, <1>7, <1>8 DEF ChanInv

\* Whoever is taken.
LEMMA PartnerInv ==
  ASSUME ChanInv, NEW q \in Progs, NEW c \in Chans, Taken(q, c)
  PROVE  ChanInv'
  BY AltTakenInv, RecvTakenInv, SendTakenInv DEF Taken

-----------------------------------------------------------------------------
(***************************************************************************)
(* The steps that wait, and those that leave.                              *)
(***************************************************************************)
\* A Prog that runs waits nowhere.
LEMMA RunsNowhere ==
  ASSUME ChanInv, NEW p \in Progs, st[p] \in {"ready", "dead"}
  PROVE  /\ \A c \in Chans : p \notin ToSet(send[c]) /\ p \notin ToSet(recv[c])
         /\ \A c \in Chans : sendalt[c] # p /\ recvalt[c] # p
         /\ kp[p] = "none" /\ ~addrun[p]
  BY DEF ChanInv, CRecvInv, ListInv, AltInv

\* A Prog that runs joins the senders of a channel.
LEMMA SendJoined ==
  ASSUME ChanInv, NEW p \in Progs, NEW c \in Chans, Runs(p),
         send' = [send EXCEPT ![c] = Append(@, p)]
  PROVE  /\ send' \in [Chans -> Seq(Progs)]
         /\ \A d \in Chans : IsInjective(send'[d])
         /\ \A d \in Chans, q \in Progs :
              q \in ToSet(send'[d]) <=> q \in ToSet(send[d]) \/ (d = c /\ q = p)
  <1>1. send \in [Chans -> Seq(Progs)] /\ \A d \in Chans : IsInjective(send[d])
    BY DEF ChanInv, ChanTypes, ListInv
  <1>2. p \notin ToSet(send[c])
    BY RunsNowhere DEF Runs
  <1>3. send[c] \in Seq(Progs) /\ IsInjective(send[c])
    BY <1>1
  <1>4. /\ Append(send[c], p) \in Seq(Progs) /\ IsInjective(Append(send[c], p))
        /\ ToSet(Append(send[c], p)) = ToSet(send[c]) \cup {p}
    BY <1>2, <1>3, AppendQueue
  <1>5. send'[c] = Append(send[c], p) /\ \A d \in Chans : d # c => send'[d] = send[d]
    BY <1>1
  <1>6. send' \in [Chans -> Seq(Progs)]
    BY <1>1, <1>4
  <1>7. \A d \in Chans : IsInjective(send'[d])
    BY <1>1, <1>4, <1>5
  <1>8. ASSUME NEW d \in Chans, NEW q \in Progs
        PROVE  q \in ToSet(send'[d]) <=> q \in ToSet(send[d]) \/ (d = c /\ q = p)
    BY <1>4, <1>5
  <1> QED BY <1>6, <1>7, <1>8

\* A Prog that runs joins the receivers of a channel.
LEMMA RecvJoined ==
  ASSUME ChanInv, NEW p \in Progs, NEW c \in Chans, Runs(p),
         recv' = [recv EXCEPT ![c] = Append(@, p)]
  PROVE  /\ recv' \in [Chans -> Seq(Progs)]
         /\ \A d \in Chans : IsInjective(recv'[d])
         /\ \A d \in Chans, q \in Progs :
              q \in ToSet(recv'[d]) <=> q \in ToSet(recv[d]) \/ (d = c /\ q = p)
  <1>1. recv \in [Chans -> Seq(Progs)] /\ \A d \in Chans : IsInjective(recv[d])
    BY DEF ChanInv, ChanTypes, ListInv
  <1>2. p \notin ToSet(recv[c])
    BY RunsNowhere DEF Runs
  <1>3. recv[c] \in Seq(Progs) /\ IsInjective(recv[c])
    BY <1>1
  <1>4. /\ Append(recv[c], p) \in Seq(Progs) /\ IsInjective(Append(recv[c], p))
        /\ ToSet(Append(recv[c], p)) = ToSet(recv[c]) \cup {p}
    BY <1>2, <1>3, AppendQueue
  <1>5. recv'[c] = Append(recv[c], p) /\ \A d \in Chans : d # c => recv'[d] = recv[d]
    BY <1>1
  <1>6. recv' \in [Chans -> Seq(Progs)]
    BY <1>1, <1>4
  <1>7. \A d \in Chans : IsInjective(recv'[d])
    BY <1>1, <1>4, <1>5
  <1>8. ASSUME NEW d \in Chans, NEW q \in Progs
        PROVE  q \in ToSet(recv'[d]) <=> q \in ToSet(recv[d]) \/ (d = c /\ q = p)
    BY <1>4, <1>5
  <1> QED BY <1>6, <1>7, <1>8

\* A Prog is taken off all lists.
LEMMA AllRemoved ==
  ASSUME NEW Q \in [Chans -> Seq(Progs)], NEW p,
         \A d \in Chans : IsInjective(Q[d])
  PROVE  /\ RemoveAll(Q, p) \in [Chans -> Seq(Progs)]
         /\ \A d \in Chans : IsInjective(RemoveAll(Q, p)[d])
         /\ \A d \in Chans : ToSet(RemoveAll(Q, p)[d]) = ToSet(Q[d]) \ {p}
  <1>1. ASSUME NEW d \in Chans
        PROVE  /\ RemoveFirst(Q[d], p) \in Seq(Progs)
               /\ IsInjective(RemoveFirst(Q[d], p))
               /\ ToSet(RemoveFirst(Q[d], p)) = ToSet(Q[d]) \ {p}
    <2>1. Q[d] \in Seq(Progs) /\ IsInjective(Q[d])
      OBVIOUS
    <2> QED BY <2>1, RemoveQueue
  <1> QED BY <1>1 DEF RemoveAll

\* A sender waits.
LEMMA SendWaitsInv ==
  ASSUME ChanInv, NEW p \in Progs, NEW c \in Chans, Runs(p),
         st' = [st EXCEPT ![p] = "send"],
         send' = [send EXCEPT ![c] = Append(@, p)],
         UNCHANGED <<recv, sendalt, recvalt, sendq, alt, callVars, arr, reason,
                     freed>>
  PROVE  ChanInv'
  <1>0. ChanTypes /\ CRecvInv /\ ListInv /\ AltInv
    BY DEF ChanInv
  <1>1. /\ \A d \in Chans : p \notin ToSet(send[d]) /\ p \notin ToSet(recv[d])
        /\ \A d \in Chans : sendalt[d] # p /\ recvalt[d] # p
        /\ kp[p] = "none" /\ ~addrun[p]
    BY RunsNowhere DEF Runs
  <1>2. /\ send' \in [Chans -> Seq(Progs)]
        /\ \A d \in Chans : IsInjective(send'[d])
        /\ \A d \in Chans, q \in Progs :
             q \in ToSet(send'[d]) <=> q \in ToSet(send[d]) \/ (d = c /\ q = p)
    BY SendJoined
  <1>3. \A q \in Progs : st'[q] = IF q = p THEN "send" ELSE st[q]
    BY <1>0 DEF ChanTypes
  <1>4. ChanTypes'
    BY <1>0, <1>2 DEF ChanTypes, States, callVars
  <1>5. CRecvInv'
    BY <1>0, <1>1, <1>3 DEF CRecvInv, callVars
  <1>6. ListInv'
    <2>1. \A d \in Chans : IsInjective(send'[d]) /\ IsInjective(recv'[d])
      BY <1>0, <1>2 DEF ListInv
    <2>2. \A d \in Chans, q \in Progs : q \in ToSet(send'[d]) => st'[q] = "send"
      BY <1>0, <1>2, <1>3 DEF ListInv
    <2>3. \A d, e \in Chans, q \in Progs :
            q \in ToSet(send'[d]) /\ q \in ToSet(send'[e]) => d = e
      BY <1>0, <1>1, <1>2 DEF ListInv
    <2>4. \A q \in Progs : st'[q] = "send" => \E d \in Chans : q \in ToSet(send'[d])
      BY <1>0, <1>2, <1>3 DEF ListInv
    <2> QED BY <1>0, <1>1, <1>3, <2>1, <2>2, <2>3, <2>4 DEF ListInv, callVars
  <1>7. AltInv'
    BY <1>0, <1>1, <1>3 DEF AltInv
  <1> QED BY <1>4, <1>5, <1>6, <1>7 DEF ChanInv

\* A receiver waits, or a process does on its behalf.
LEMMA RecvWaitsInv ==
  ASSUME ChanInv, NEW p \in Progs, NEW c \in Chans, Runs(p),
         recv' = [recv EXCEPT ![c] = Append(@, p)],
         \/ st' = [st EXCEPT ![p] = "recv"] /\ UNCHANGED <<addrun, kp>>
         \/ /\ st' = [st EXCEPT ![p] = "release"]
            /\ addrun' = [addrun EXCEPT ![p] = TRUE]
            /\ kp' = [kp EXCEPT ![p] = "released"],
         UNCHANGED <<send, sendalt, recvalt, sendq, alt, intr, arr, reason,
                     freed>>
  PROVE  ChanInv'
  <1>0. ChanTypes /\ CRecvInv /\ ListInv /\ AltInv
    BY DEF ChanInv
  <1>1. /\ \A d \in Chans : p \notin ToSet(send[d]) /\ p \notin ToSet(recv[d])
        /\ \A d \in Chans : sendalt[d] # p /\ recvalt[d] # p
        /\ kp[p] = "none" /\ ~addrun[p] /\ st[p] = "ready"
    BY RunsNowhere DEF Runs
  <1>2. /\ recv' \in [Chans -> Seq(Progs)]
        /\ \A d \in Chans : IsInjective(recv'[d])
        /\ \A d \in Chans, q \in Progs :
             q \in ToSet(recv'[d]) <=> q \in ToSet(recv[d]) \/ (d = c /\ q = p)
    BY RecvJoined
  <1>3. /\ \A q \in Progs : q # p => st'[q] = st[q] /\ kp'[q] = kp[q]
        /\ \A q \in Progs : q # p => (addrun'[q] <=> addrun[q])
        /\ \/ st'[p] = "recv" /\ ~addrun'[p] /\ kp'[p] = "none"
           \/ st'[p] = "release" /\ addrun'[p] /\ kp'[p] = "released"
    BY <1>0, <1>1 DEF ChanTypes
  <1>4. ChanTypes'
    <2>1. /\ st' \in [Progs -> States] /\ addrun' \in [Progs -> BOOLEAN]
          /\ kp' \in [Progs -> {"none", "released", "sleep", "woken"}]
      BY <1>0 DEF ChanTypes, States
    <2> QED BY <1>0, <1>2, <2>1 DEF ChanTypes
  <1>5. CRecvInv'
    BY <1>0, <1>1, <1>3 DEF CRecvInv
  <1>6. ListInv'
    <2>1. \A d \in Chans : IsInjective(send'[d]) /\ IsInjective(recv'[d])
      BY <1>0, <1>2 DEF ListInv
    <2>2. \A d \in Chans, q \in Progs : q \in ToSet(recv'[d]) => st'[q] = "recv" \/ addrun'[q]
      BY <1>0, <1>2, <1>3 DEF ListInv
    <2>3. \A d, e \in Chans, q \in Progs :
            q \in ToSet(recv'[d]) /\ q \in ToSet(recv'[e]) => d = e
      BY <1>0, <1>1, <1>2 DEF ListInv
    <2>4. \A q \in Progs : st'[q] = "recv" => \E d \in Chans : q \in ToSet(recv'[d])
      BY <1>0, <1>2, <1>3 DEF ListInv
    <2>5. \A d \in Chans, q \in Progs : q \in ToSet(send[d]) => st'[q] = "send"
      BY <1>0, <1>1, <1>3 DEF ListInv
    <2>6. \A q \in Progs : st'[q] = "send" => st[q] = "send"
      BY <1>3
    <2> QED BY <1>0, <2>1, <2>2, <2>3, <2>4, <2>5, <2>6 DEF ListInv
  <1>7. AltInv'
    BY <1>0, <1>1, <1>3 DEF AltInv
  <1> QED BY <1>4, <1>5, <1>6, <1>7 DEF ChanInv

\* An alt waits at all its channels, where nobody else did.
LEMMA AltWaitInv ==
  ASSUME ChanInv, NEW p \in Progs, NEW t \in Tables, AltWait(p, t)
  PROVE  ChanInv'
  <1>0. ChanTypes /\ CRecvInv /\ ListInv /\ AltInv
    BY DEF ChanInv
  <1>1. /\ \A d \in Chans : p \notin ToSet(send[d]) /\ p \notin ToSet(recv[d])
        /\ \A d \in Chans : sendalt[d] # p /\ recvalt[d] # p
        /\ kp[p] = "none" /\ ~addrun[p] /\ st[p] = "ready"
    BY RunsNowhere DEF AltWait, Runs
  <1>2. /\ \A d \in Sends(t) : sendalt[d] = None
        /\ \A d \in RecvsIn(arr, t) : recvalt[d] = None
    BY RecvsAre DEF AltWait, Refused
  <1>3. /\ \A q \in Progs : st'[q] = IF q = p THEN "alt" ELSE st[q]
        /\ \A q \in Progs : alt'[q] = IF q = p THEN t ELSE alt[q]
        /\ \A d \in Chans : sendalt'[d] = IF d \in Sends(t) THEN p ELSE sendalt[d]
        /\ \A d \in Chans : recvalt'[d] = IF d \in RecvsIn(arr, t) THEN p ELSE recvalt[d]
        /\ UNCHANGED <<send, recv, sendq, arr, reason, addrun, kp, intr, freed>>
    BY <1>0, RecvsAre DEF AltWait, ChanTypes, callVars
  <1>4. ChanTypes'
    BY <1>0 DEF ChanTypes, AltWait, States, callVars
  <1>5. CRecvInv'
    BY <1>0, <1>1, <1>3 DEF CRecvInv
  <1>6. ListInv'
    BY <1>0, <1>1, <1>3 DEF ListInv
  <1>7. AltInv'
    <2>0. None \notin Progs
      BY NilFacts
    <2>1. \A q \in Progs : st'[q] = "alt" => alt'[q] \in Tables
      BY <1>0, <1>3 DEF AltInv
    <2>2. ASSUME NEW d \in Chans, NEW q \in Progs
          PROVE  sendalt'[d] = q <=> st'[q] = "alt" /\ d \in Sends(alt'[q])
      <3>1. CASE q = p
        BY <1>1, <1>3, <3>1
      <3>2. CASE q # p
        BY <1>0, <1>2, <1>3, <2>0, <3>2 DEF AltInv
      <3> QED BY <3>1, <3>2
    <2>3. ASSUME NEW d \in Chans, NEW q \in Progs
          PROVE  recvalt'[d] = q <=> st'[q] = "alt" /\ d \in RecvsIn(arr', alt'[q])
      <3>1. CASE q = p
        BY <1>1, <1>3, <3>1
      <3>2. CASE q # p
        BY <1>0, <1>2, <1>3, <2>0, <3>2 DEF AltInv
      <3> QED BY <3>1, <3>2
    <2> QED BY <2>1, <2>2, <2>3 DEF AltInv
  <1> QED BY <1>4, <1>5, <1>6, <1>7 DEF ChanInv

\* An alt that is refused leaves the channels as they were.
LEMMA AltRefusedInv ==
  ASSUME ChanInv, NEW p \in Progs, NEW t \in Tables, AltRefused(p, t)
  PROVE  /\ ChanInv' /\ sendalt' = sendalt /\ recvalt' = recvalt
         /\ \A q \in Progs : st'[q] = st[q] \/ (q = p /\ st'[q] = "dead")
  <1>0. ChanTypes /\ CRecvInv /\ ListInv /\ AltInv
    BY DEF ChanInv
  <1>1. /\ \A d \in Chans : p \notin ToSet(send[d]) /\ p \notin ToSet(recv[d])
        /\ \A d \in Chans : sendalt[d] # p /\ recvalt[d] # p
        /\ kp[p] = "none" /\ ~addrun[p] /\ st[p] = "ready"
    BY RunsNowhere DEF AltRefused, Runs
  <1>2. UNCHANGED <<sendalt, recvalt>>
    BY <1>1, AltNotDone DEF AltRefused
  <1>3. /\ \A q \in Progs : st'[q] = st[q] \/ (q = p /\ st'[q] = "dead")
        /\ UNCHANGED <<send, recv, sendq, arr, alt, reason, addrun, kp, intr,
                       freed>>
    BY <1>0 DEF AltRefused, ChanTypes, callVars
  <1>4. ChanTypes'
    BY <1>0, <1>2 DEF ChanTypes, AltRefused, States, callVars
  <1>5. CRecvInv'
    BY <1>0, <1>1, <1>3 DEF CRecvInv
  <1>6. ListInv'
    BY <1>0, <1>1, <1>3 DEF ListInv
  <1>7. AltInv'
    BY <1>0, <1>1, <1>2, <1>3 DEF AltInv
  <1> QED BY <1>2, <1>3, <1>4, <1>5, <1>6, <1>7 DEF ChanInv

\* A message of the kernel is queued, or taken.
LEMMA QueuedInv ==
  ASSUME ChanInv, NEW c \in Chans,
         \/ sendq[c] < QLim /\ sendq' = [sendq EXCEPT ![c] = @ + 1]
         \/ sendq[c] > 0 /\ sendq' = [sendq EXCEPT ![c] = @ - 1],
         UNCHANGED <<st, callVars, send, recv, sendalt, recvalt, alt, arr,
                     reason, freed>>
  PROVE  ChanInv'
  <1>0. ChanTypes /\ CRecvInv /\ ListInv /\ AltInv
    BY DEF ChanInv
  <1>1. sendq' \in [Chans -> 0 .. QLim]
    <2>1. sendq \in [Chans -> 0 .. QLim] /\ sendq[c] \in 0 .. QLim /\ QLim \in Nat
      BY <1>0, ChanAssumption DEF ChanTypes
    <2>2. /\ sendq[c] < QLim => sendq[c] + 1 \in 0 .. QLim
          /\ sendq[c] > 0 => sendq[c] - 1 \in 0 .. QLim
      BY <2>1
    <2> QED BY <2>1, <2>2
  <1>2. ChanTypes'
    BY <1>0, <1>1 DEF ChanTypes, callVars
  <1>3. CRecvInv' /\ ListInv' /\ AltInv'
    BY <1>0 DEF CRecvInv, ListInv, AltInv, callVars
  <1> QED BY <1>2, <1>3 DEF ChanInv

\* A receiver is served.
LEMMA RecvFromInv ==
  ASSUME ChanInv, NEW p, NEW c \in Chans, CanRecv(c), RecvFrom(p, c),
         UNCHANGED <<arr, reason, freed>>
  PROVE  ChanInv'
  <1>1. CASE \E q \in Progs : Taken(q, c)
    BY <1>1, PartnerInv
  <1>2. CASE /\ sendq[c] > 0 /\ sendq' = [sendq EXCEPT ![c] = @ - 1]
             /\ UNCHANGED <<st, callVars, send, recv, sendalt, recvalt, alt>>
    BY <1>2, QueuedInv
  <1> QED BY <1>1, <1>2, RecvFromTakes

\* A sender is served.
LEMMA SendToInv ==
  ASSUME ChanInv, NEW p, NEW c \in Chans, CanSend(c), SendTo(p, c),
         UNCHANGED <<arr, reason, freed>>
  PROVE  ChanInv'
  BY SendToTakes, PartnerInv

\* An instruction that communicates, or waits.
LEMMA CommInv ==
  ASSUME ChanInv, NEW p \in Progs, NEW c \in Chans, Send(p, c) \/ Recv(p, c) \/ CRecv(p, c)
  PROVE  ChanInv'
  <1>1. CASE Send(p, c) /\ CanSend(c)
    BY <1>1, SendToInv DEF Send
  <1>2. CASE Send(p, c) /\ ~CanSend(c)
    BY <1>2, SendWaitsInv DEF Send
  <1>3. CASE (Recv(p, c) \/ CRecv(p, c)) /\ CanRecv(c)
    BY <1>3, RecvFromInv DEF Recv, CRecv
  <1>4. CASE Recv(p, c) /\ ~CanRecv(c)
    BY <1>4, RecvWaitsInv DEF Recv, callVars
  <1>5. CASE CRecv(p, c) /\ ~CanRecv(c)
    BY <1>5, RecvWaitsInv DEF CRecv
  <1> QED BY <1>1, <1>2, <1>3, <1>4, <1>5

\* An arm of an alt that is ready.
LEMMA AltCommInv ==
  ASSUME ChanInv, NEW p \in Progs, NEW t \in Tables, AltComm(p, t)
  PROVE  ChanInv'
  <1>1. PICK a \in ReadyArms(t) : \/ a[1] = "send" /\ SendTo(p, a[2])
                                  \/ a[1] = "recv" /\ RecvFrom(p, a[2])
    BY DEF AltComm
  <1>2. \/ a[1] = "send" /\ a[2] \in Chans /\ CanSend(a[2])
        \/ a[1] = "recv" /\ a[2] \in Chans /\ CanRecv(a[2])
    BY DEF ReadyArms, Sends, Recvs
  <1> QED BY <1>1, <1>2, SendToInv, RecvFromInv DEF AltComm

\* The kernel sends.
LEMMA CSendQInv ==
  ASSUME ChanInv, NEW c \in Chans, CSendQ(c)
  PROVE  ChanInv'
  <1>1. CASE CanSend(c)
    BY <1>1, SendToInv DEF CSendQ
  <1>2. CASE ~CanSend(c)
    BY <1>2, QueuedInv DEF CSendQ
  <1> QED BY <1>1, <1>2

\* The process of a Prog goes to sleep, or has a reason not to.
LEMMA CSleepInv ==
  ASSUME ChanInv, NEW p \in Progs, CSleep(p)
  PROVE  ChanInv'
  <1>0. ChanTypes /\ CRecvInv /\ ListInv /\ AltInv
    BY DEF ChanInv
  <1>1. /\ kp[p] = "released"
        /\ \A q \in Progs : q # p => kp'[q] = kp[q]
        /\ kp'[p] = IF addrun[p] /\ reason[p] = None THEN "sleep" ELSE "woken"
        /\ UNCHANGED <<st, reason, addrun, intr, chanVars>>
    BY <1>0 DEF CSleep, ChanTypes
  <1>2. ChanTypes'
    BY <1>0 DEF ChanTypes, CSleep, chanVars
  <1>3. CRecvInv'
    BY <1>0, <1>1 DEF CRecvInv
  <1>4. ListInv' /\ AltInv'
    BY <1>0, <1>1 DEF ListInv, AltInv, chanVars
  <1> QED BY <1>2, <1>3, <1>4 DEF ChanInv

\* A process that was not interrupted was taken off the list; else it leaves it.
LEMMA CReturnRemoves ==
  ASSUME ChanInv, NEW p \in Progs, CReturn(p)
  PROVE  /\ recv' \in [Chans -> Seq(Progs)]
         /\ \A c \in Chans : IsInjective(recv'[c])
         /\ \A c \in Chans : ToSet(recv'[c]) = ToSet(recv[c]) \ {p}
         /\ \A c \in Chans : p \notin ToSet(send[c]) /\ sendalt[c] # p /\ recvalt[c] # p
         /\ st[p] \in {"release", "exiting"}
         /\ \A q \in Progs : st'[q] = IF q = p THEN "ready" ELSE st[q]
  <1>0. ChanTypes /\ CRecvInv /\ ListInv /\ AltInv
    BY DEF ChanInv
  <1>1. st[p] \in {"release", "exiting"} /\ kp[p] = "woken"
    BY <1>0 DEF CReturn, CRecvInv
  <1>2. \A c \in Chans : p \notin ToSet(send[c]) /\ sendalt[c] # p /\ recvalt[c] # p
    BY <1>0, <1>1 DEF ListInv, AltInv
  <1>3. recv \in [Chans -> Seq(Progs)] /\ \A c \in Chans : IsInjective(recv[c])
    BY <1>0 DEF ChanTypes, ListInv
  <1>4. CASE intr[p] \/ reason[p] # None
    <2>1. recv' = RemoveAll(recv, p)
      BY <1>4 DEF CReturn
    <2>2. /\ recv' \in [Chans -> Seq(Progs)]
          /\ \A c \in Chans : IsInjective(recv'[c])
          /\ \A c \in Chans : ToSet(recv'[c]) = ToSet(recv[c]) \ {p}
      BY <1>3, <2>1, AllRemoved
    <2> QED BY <1>0, <1>1, <1>2, <2>2 DEF CReturn, ChanTypes
  <1>5. CASE ~(intr[p] \/ reason[p] # None)
    <2>1. ~addrun[p] /\ recv' = recv
      BY <1>0, <1>1, <1>5 DEF CRecvInv, CReturn
    <2>2. \A c \in Chans : p \notin ToSet(recv[c])
      BY <1>0, <1>1, <2>1 DEF ListInv
    <2> QED BY <1>0, <1>1, <1>2, <1>3, <2>1, <2>2 DEF CReturn, ChanTypes
  <1> QED BY <1>4, <1>5

LEMMA CReturnInv ==
  ASSUME ChanInv, NEW p \in Progs, CReturn(p)
  PROVE  ChanInv'
  <1>0. ChanTypes /\ CRecvInv /\ ListInv /\ AltInv
    BY DEF ChanInv
  <1>1. /\ recv' \in [Chans -> Seq(Progs)]
        /\ \A c \in Chans : IsInjective(recv'[c])
        /\ \A c \in Chans : ToSet(recv'[c]) = ToSet(recv[c]) \ {p}
        /\ \A c \in Chans : p \notin ToSet(send[c]) /\ sendalt[c] # p /\ recvalt[c] # p
        /\ st[p] \in {"release", "exiting"}
        /\ \A q \in Progs : st'[q] = IF q = p THEN "ready" ELSE st[q]
    BY CReturnRemoves
  <1>2. /\ \A q \in Progs : kp'[q] = IF q = p THEN "none" ELSE kp[q]
        /\ \A q \in Progs : addrun'[q] <=> addrun[q] /\ q # p
        /\ \A q \in Progs : q # p => (intr'[q] <=> intr[q])
        /\ UNCHANGED <<reason, send, sendalt, recvalt, sendq, arr, alt, freed>>
    BY <1>0 DEF CReturn, ChanTypes
  <1>3. ChanTypes'
    <2>1. /\ st' \in [Progs -> States] /\ addrun' \in [Progs -> BOOLEAN]
          /\ kp' \in [Progs -> {"none", "released", "sleep", "woken"}]
          /\ intr' \in [Progs -> BOOLEAN]
      BY <1>0 DEF CReturn, ChanTypes, States
    <2> QED BY <1>0, <1>1, <1>2, <2>1 DEF ChanTypes
  <1>4. CRecvInv'
    BY <1>0, <1>1, <1>2 DEF CRecvInv
  <1>5. ListInv'
    <2>1. \A c \in Chans : IsInjective(send'[c]) /\ IsInjective(recv'[c])
      BY <1>0, <1>1, <1>2 DEF ListInv
    <2>2. \A c \in Chans, q \in Progs : q \in ToSet(send'[c]) => st'[q] = "send"
      BY <1>0, <1>1, <1>2 DEF ListInv
    <2>3. \A c \in Chans, q \in Progs :
            q \in ToSet(recv'[c]) => st'[q] = "recv" \/ addrun'[q]
      <3>1. \A c \in Chans, q \in Progs : q \in ToSet(recv'[c]) => q # p /\ q \in ToSet(recv[c])
        BY <1>1
      <3>2. \A c \in Chans, q \in Progs : q \in ToSet(recv[c]) => st[q] = "recv" \/ addrun[q]
        BY <1>0 DEF ListInv
      <3>3. \A q \in Progs : q # p => st'[q] = st[q] /\ (addrun'[q] <=> addrun[q])
        BY <1>1, <1>2
      <3> QED BY <3>1, <3>2, <3>3
    <2>4. /\ \A c, d \in Chans, q \in Progs :
                 q \in ToSet(send'[c]) /\ q \in ToSet(send'[d]) => c = d
          /\ \A c, d \in Chans, q \in Progs :
                 q \in ToSet(recv'[c]) /\ q \in ToSet(recv'[d]) => c = d
      BY <1>0, <1>1, <1>2 DEF ListInv
    <2>5. \A q \in Progs : st'[q] \in {"send", "recv"} => st[q] = st'[q] /\ q # p
      BY <1>0, <1>1, <1>2
    <2>6. \A q \in Progs : st'[q] = "send" => \E c \in Chans : q \in ToSet(send'[c])
      BY <1>0, <1>1, <1>2, <2>5 DEF ListInv
    <2>7. \A q \in Progs : st'[q] = "recv" => \E c \in Chans : q \in ToSet(recv'[c])
      BY <1>0, <1>1, <1>2, <2>5 DEF ListInv
    <2> QED BY <2>1, <2>2, <2>3, <2>4, <2>6, <2>7 DEF ListInv
  <1>6. AltInv'
    <2>1. \A q \in Progs : st'[q] = "alt" <=> st[q] = "alt"
      BY <1>1
    <2> QED BY <1>0, <1>2, <2>1 DEF AltInv
  <1> QED BY <1>3, <1>4, <1>5, <1>6 DEF ChanInv

\* A Prog in a receive is told to die; any other leaves what it waits for.
LEMMA KillRemoves ==
  ASSUME ChanInv, NEW p \in Progs, KillWaiter(p), st[p] # "release"
  PROVE  /\ send' \in [Chans -> Seq(Progs)] /\ recv' \in [Chans -> Seq(Progs)]
         /\ \A c \in Chans : IsInjective(send'[c]) /\ IsInjective(recv'[c])
         /\ \A c \in Chans : ToSet(send'[c]) = ToSet(send[c]) \ {p}
         /\ \A c \in Chans : ToSet(recv'[c]) = ToSet(recv[c]) \ {p}
         /\ sendalt' = Without(sendalt, p) /\ recvalt' = Without(recvalt, p)
         /\ \A q \in Progs : st'[q] = IF q = p THEN "dead" ELSE st[q]
         /\ \A q \in Progs : alt'[q] = IF q = p THEN None ELSE alt[q]
         /\ st[p] \in {"ready", "send", "recv", "alt"}
         /\ UNCHANGED <<reason, kp, intr, sendq, arr, addrun, freed>>
  <1>0. ChanTypes /\ CRecvInv /\ ListInv /\ AltInv
    BY DEF ChanInv
  <1>1. /\ send' = RemoveAll(send, p) /\ recv' = RemoveAll(recv, p)
        /\ UNCHANGED <<reason, kp, intr, sendq, arr, addrun, freed>>
    BY DEF KillWaiter
  <1>2. /\ send \in [Chans -> Seq(Progs)] /\ recv \in [Chans -> Seq(Progs)]
        /\ \A c \in Chans : IsInjective(send[c])
        /\ \A c \in Chans : IsInjective(recv[c])
    BY <1>0 DEF ChanTypes, ListInv
  <1>3. /\ send' \in [Chans -> Seq(Progs)]
        /\ \A c \in Chans : IsInjective(send'[c])
        /\ \A c \in Chans : ToSet(send'[c]) = ToSet(send[c]) \ {p}
    BY <1>1, <1>2, AllRemoved
  <1>4. /\ recv' \in [Chans -> Seq(Progs)]
        /\ \A c \in Chans : IsInjective(recv'[c])
        /\ \A c \in Chans : ToSet(recv'[c]) = ToSet(recv[c]) \ {p}
    BY <1>1, <1>2, AllRemoved
  <1>5. sendalt' = Without(sendalt, p) /\ recvalt' = Without(recvalt, p)
    <2>1. CASE st[p] = "alt"
      BY <2>1, AltDone DEF KillWaiter
    <2>2. CASE st[p] # "alt"
      <3>1. /\ \A c \in Chans : sendalt[c] # p /\ recvalt[c] # p
            /\ sendalt \in [Chans -> Progs \cup {None}]
            /\ recvalt \in [Chans -> Progs \cup {None}]
        BY <1>0, <2>2 DEF AltInv, ChanTypes
      <3> QED BY <2>2, <3>1 DEF KillWaiter, Without
    <2> QED BY <2>1, <2>2
  <1>6. /\ \A q \in Progs : st'[q] = IF q = p THEN "dead" ELSE st[q]
        /\ \A q \in Progs : alt'[q] = IF q = p THEN None ELSE alt[q]
        /\ st[p] \in {"ready", "send", "recv", "alt"}
    BY <1>0 DEF KillWaiter, ChanTypes, States
  <1> QED BY <1>1, <1>3, <1>4, <1>5, <1>6

LEMMA KillWaiterInv ==
  ASSUME ChanInv, NEW p \in Progs, KillWaiter(p)
  PROVE  ChanInv'
  <1>0. ChanTypes /\ CRecvInv /\ ListInv /\ AltInv
    BY DEF ChanInv
  <1>1. CASE st[p] = "release"
    <2>1. /\ \A q \in Progs : st'[q] = IF q = p THEN "exiting" ELSE st[q]
          /\ \A q \in Progs : reason'[q] = IF q = p THEN KILLED ELSE reason[q]
          /\ \A q \in Progs : q # p => kp'[q] = kp[q] /\ (intr'[q] <=> intr[q])
          /\ kp'[p] = (IF kp[p] = "sleep" THEN "woken" ELSE kp[p])
          /\ UNCHANGED <<send, recv, sendalt, recvalt, alt, sendq, arr, addrun,
                         freed>>
      BY <1>0, <1>1 DEF KillWaiter, ChanTypes
    <2>2. ChanTypes'
      <3>1. /\ st' \in [Progs -> States]
            /\ kp' \in [Progs -> {"none", "released", "sleep", "woken"}]
            /\ reason' \in [Progs -> Causes \cup {None}]
        BY <1>0, <1>1 DEF KillWaiter, ChanTypes, States, Causes
      <3>2. intr' \in [Progs -> BOOLEAN]
        <4>1. (p \in Interrupted({p})) \in BOOLEAN /\ intr \in [Progs -> BOOLEAN]
          BY <1>0 DEF ChanTypes
        <4> QED BY <1>1, <4>1 DEF KillWaiter
      <3> QED BY <1>0, <2>1, <3>1, <3>2 DEF ChanTypes
    <2>3. CRecvInv'
      BY <1>0, <1>1, <2>1, NilFacts DEF CRecvInv
    <2>4. ListInv'
      BY <1>0, <1>1, <2>1 DEF ListInv
    <2>5. AltInv'
      BY <1>0, <1>1, <2>1 DEF AltInv
    <2> QED BY <2>2, <2>3, <2>4, <2>5 DEF ChanInv
  <1>2. CASE st[p] # "release"
    <2>1. /\ send' \in [Chans -> Seq(Progs)] /\ recv' \in [Chans -> Seq(Progs)]
          /\ \A c \in Chans : IsInjective(send'[c]) /\ IsInjective(recv'[c])
          /\ \A c \in Chans : ToSet(send'[c]) = ToSet(send[c]) \ {p}
          /\ \A c \in Chans : ToSet(recv'[c]) = ToSet(recv[c]) \ {p}
          /\ sendalt' = Without(sendalt, p) /\ recvalt' = Without(recvalt, p)
          /\ \A q \in Progs : st'[q] = IF q = p THEN "dead" ELSE st[q]
          /\ \A q \in Progs : alt'[q] = IF q = p THEN None ELSE alt[q]
          /\ st[p] \in {"ready", "send", "recv", "alt"}
          /\ UNCHANGED <<reason, kp, intr, sendq, arr, addrun, freed>>
      BY <1>2, KillRemoves
    <2>2. ChanTypes'
      <3>1. st' \in [Progs -> States] /\ alt' \in [Progs -> Tables \cup {None}]
        BY <1>0, <1>2 DEF KillWaiter, ChanTypes, States
      <3> QED BY <1>0, <2>1, <3>1 DEF ChanTypes, Without
    <2>3. CRecvInv'
      BY <1>0, <2>1 DEF CRecvInv
    <2>4. ListInv'
      <3>1. \A c \in Chans : IsInjective(send'[c]) /\ IsInjective(recv'[c])
        BY <1>0, <2>1 DEF ListInv
      <3>2. \A c \in Chans, q \in Progs : q \in ToSet(send'[c]) => st'[q] = "send"
        BY <1>0, <2>1 DEF ListInv
      <3>3. \A c \in Chans, q \in Progs :
              q \in ToSet(recv'[c]) => st'[q] = "recv" \/ addrun'[q]
        BY <1>0, <2>1 DEF ListInv
      <3>4. /\ \A c, d \in Chans, q \in Progs :
                   q \in ToSet(send'[c]) /\ q \in ToSet(send'[d]) => c = d
            /\ \A c, d \in Chans, q \in Progs :
                   q \in ToSet(recv'[c]) /\ q \in ToSet(recv'[d]) => c = d
        BY <1>0, <2>1 DEF ListInv
      <3>5. \A q \in Progs : st'[q] \in {"send", "recv"} => st[q] = st'[q] /\ q # p
        BY <1>0, <2>1
      <3>6. \A q \in Progs : st'[q] = "send" => \E c \in Chans : q \in ToSet(send'[c])
        BY <1>0, <2>1, <3>5 DEF ListInv
      <3>7. \A q \in Progs : st'[q] = "recv" => \E c \in Chans : q \in ToSet(recv'[c])
        BY <1>0, <2>1, <3>5 DEF ListInv
      <3> QED BY <3>1, <3>2, <3>3, <3>4, <3>6, <3>7 DEF ListInv
    <2>5. AltInv'
      <3>0. None \notin Progs
        BY NilFacts
      <3>1. /\ \A d \in Chans : sendalt'[d] = IF sendalt[d] = p THEN None ELSE sendalt[d]
            /\ \A d \in Chans : recvalt'[d] = IF recvalt[d] = p THEN None ELSE recvalt[d]
        BY <2>1 DEF Without
      <3>2. ASSUME NEW d \in Chans, NEW q \in Progs
            PROVE  /\ sendalt'[d] = q <=> st'[q] = "alt" /\ d \in Sends(alt'[q])
                   /\ recvalt'[d] = q <=> st'[q] = "alt" /\ d \in RecvsIn(arr', alt'[q])
        <4>1. CASE q = p
          BY <2>1, <3>0, <3>1, <4>1
        <4>2. CASE q # p
          <5>1. /\ sendalt[d] = q <=> st[q] = "alt" /\ d \in Sends(alt[q])
                /\ recvalt[d] = q <=> st[q] = "alt" /\ d \in RecvsIn(arr, alt[q])
            BY <1>0 DEF AltInv
          <5>2. /\ st'[q] = st[q] /\ alt'[q] = alt[q] /\ arr' = arr
                /\ sendalt'[d] = q <=> sendalt[d] = q
                /\ recvalt'[d] = q <=> recvalt[d] = q
            BY <2>1, <3>0, <3>1, <4>2
          <5> QED BY <5>1, <5>2
        <4> QED BY <4>1, <4>2
      <3>3. \A q \in Progs : st'[q] = "alt" => alt'[q] \in Tables
        BY <1>0, <2>1 DEF AltInv
      <3> QED BY <3>2, <3>3 DEF AltInv
    <2> QED BY <2>2, <2>3, <2>4, <2>5 DEF ChanInv
  <1> QED BY <1>1, <1>2

\* A Prog exits, or an exception is raised in it.
LEMMA ExitInv ==
  ASSUME ChanInv, NEW p \in Progs, ExitProg(p) \/ Raise(p)
  PROVE  ChanInv'
  <1>0. ChanTypes /\ CRecvInv /\ ListInv /\ AltInv
    BY DEF ChanInv
  <1>1. /\ st[p] = "ready"
        /\ \A q \in Progs : q # p => st'[q] = st[q] /\ reason'[q] = reason[q]
        /\ st'[p] \in {"ready", "dead"}
        /\ UNCHANGED <<chanVars, callVars>>
    BY <1>0 DEF ExitProg, Runs, Raise, ChanTypes
  <1>2. kp[p] = "none" /\ ~addrun[p]
    BY <1>0, <1>1 DEF CRecvInv
  <1>3. ChanTypes'
    <2>1. st' \in [Progs -> States] /\ reason' \in [Progs -> Causes \cup {None}]
      BY <1>0 DEF ExitProg, Raise, ChanTypes, States
    <2> QED BY <1>0, <1>1, <2>1 DEF ChanTypes, chanVars, callVars
  <1>4. CRecvInv'
    BY <1>0, <1>1, <1>2 DEF CRecvInv, callVars
  <1>5. ListInv'
    BY <1>0, <1>1, <1>2 DEF ListInv, chanVars, callVars
  <1>6. AltInv'
    BY <1>0, <1>1 DEF AltInv, chanVars
  <1> QED BY <1>3, <1>4, <1>5, <1>6 DEF ChanInv

-----------------------------------------------------------------------------
(***************************************************************************)
(* A channel is freed.                                                     *)
(***************************************************************************)
\* Those in an alt at c; those that send to c or receive from it; and those whose
\* process sleeps in crecv(c).
AltsOf(c)  == {p \in Progs : sendalt[c] = p \/ recvalt[c] = p}
Comms(c)   == {p \in Progs : p \in ToSet(send[c]) \/ p \in ToSet(recv[c])}
ToldOf(c)  == {p \in Comms(c) : st[p] \in {"send", "recv"}}
CallsOf(c) == {p \in Comms(c) : st[p] = "release" /\ kp[p] = "sleep"}

LEMMA FreeFacts ==
  ASSUME ChanInv, NEW c \in Chans, FreeChan(c)
  PROVE  /\ \A d \in Chans : send'[d] = IF d = c THEN <<>> ELSE send[d]
         /\ \A d \in Chans : recv'[d] = IF d = c THEN <<>> ELSE recv[d]
         /\ \A d \in Chans : sendq'[d] = IF d = c THEN 0 ELSE sendq[d]
         /\ \A d \in Chans : sendalt'[d] = IF sendalt[d] \in AltsOf(c) THEN None ELSE sendalt[d]
         /\ \A d \in Chans : recvalt'[d] = IF recvalt[d] \in AltsOf(c) THEN None ELSE recvalt[d]
         /\ \A p \in Progs : alt'[p] = IF p \in AltsOf(c) THEN None ELSE alt[p]
         /\ \A p \in Progs : st'[p] = IF p \in AltsOf(c) \cup ToldOf(c) THEN "ready" ELSE st[p]
         /\ \A p \in Progs : reason'[p] = IF p \in AltsOf(c) THEN "alt channel hungup"
                                     ELSE IF p \in ToldOf(c) THEN "channel hangup" ELSE reason[p]
         /\ \A p \in Progs : kp'[p] = IF p \in CallsOf(c) THEN "woken" ELSE kp[p]
         /\ \A p \in Progs : intr'[p] <=> p \in CallsOf(c) \/ intr[p]
         /\ UNCHANGED <<addrun, arr>> /\ last' = None /\ freed' = freed \cup {c}
         /\ \A p \in AltsOf(c) : st[p] = "alt"
         /\ ChanTypes'
  <1>0. ChanTypes /\ CRecvInv /\ ListInv /\ AltInv
    BY DEF ChanInv
  <1>1. \A p \in AltsOf(c) : st[p] = "alt"
    BY <1>0 DEF AltsOf, AltInv
  <1>7. /\ freed' = freed \cup {c}
        /\ send' = [send EXCEPT ![c] = <<>>]
        /\ recv' = [recv EXCEPT ![c] = <<>>]
        /\ sendq' = [sendq EXCEPT ![c] = 0]
        /\ sendalt' = [d \in Chans |->
             IF sendalt[d] \in AltsOf(c) /\ d \in Sends(alt[sendalt[d]]) THEN None ELSE sendalt[d]]
        /\ recvalt' = [d \in Chans |->
             IF recvalt[d] \in AltsOf(c) /\ d \in Recvs(alt[recvalt[d]]) THEN None ELSE recvalt[d]]
        /\ alt' = [p \in Progs |-> IF p \in AltsOf(c) THEN None ELSE alt[p]]
        /\ reason' = [p \in Progs |-> IF p \in AltsOf(c) THEN "alt channel hungup"
                                 ELSE IF p \in ToldOf(c) THEN "channel hangup" ELSE reason[p]]
        /\ st' = [p \in Progs |-> IF p \in AltsOf(c) \cup ToldOf(c) THEN "ready" ELSE st[p]]
        /\ kp' = [p \in Progs |-> IF p \in CallsOf(c) THEN "woken" ELSE kp[p]]
        /\ intr' = [p \in Progs |-> p \in CallsOf(c) \/ intr[p]]
        /\ last' = None
        /\ UNCHANGED <<addrun, arr>>
    <2> DEFINE Alts  == {p \in Progs : sendalt[c] = p \/ recvalt[c] = p}
               Gone  == {p \in Alts : st[p] = "alt"}
               Both  == ToSet(send[c]) \cup ToSet(recv[c])
               Calls == {p \in Both : st[p] = "release"}
               Told  == {p \in Both : st[p] \in {"send", "recv"}}
    <2>1. Gone = AltsOf(c)
      BY <1>1 DEF AltsOf
    <2>2. Both = Comms(c)
      BY <1>0, ListedProgs DEF Comms
    <2>3. Told = ToldOf(c)
      BY <2>2 DEF ToldOf
    <2>4. Interrupted(Calls) = CallsOf(c)
      BY <2>2 DEF Interrupted, CallsOf
    <2>5. /\ freed' = freed \cup {c}
          /\ send' = [send EXCEPT ![c] = <<>>]
          /\ recv' = [recv EXCEPT ![c] = <<>>]
          /\ sendq' = [sendq EXCEPT ![c] = 0]
          /\ sendalt' = [d \in Chans |->
               IF sendalt[d] \in Gone /\ d \in Sends(alt[sendalt[d]]) THEN None ELSE sendalt[d]]
          /\ recvalt' = [d \in Chans |->
               IF recvalt[d] \in Gone /\ d \in Recvs(alt[recvalt[d]]) THEN None ELSE recvalt[d]]
          /\ alt' = [p \in Progs |-> IF p \in Gone THEN None ELSE alt[p]]
          /\ reason' = [p \in Progs |-> IF p \in Gone THEN "alt channel hungup"
                                   ELSE IF p \in Told THEN "channel hangup" ELSE reason[p]]
          /\ st' = [p \in Progs |-> IF p \in Gone \cup Told THEN "ready" ELSE st[p]]
          /\ kp' = [p \in Progs |-> IF p \in Interrupted(Calls) THEN "woken" ELSE kp[p]]
          /\ intr' = [p \in Progs |-> p \in Interrupted(Calls) \/ intr[p]]
          /\ last' = None
          /\ UNCHANGED <<addrun, arr>>
      BY DEF FreeChan
    <2> HIDE DEF Gone, Told, Calls
    <2> QED BY <2>1, <2>3, <2>4, <2>5
  <1>8. ASSUME NEW d \in Chans
        PROVE  /\ sendalt'[d] = IF sendalt[d] \in AltsOf(c) THEN None ELSE sendalt[d]
               /\ recvalt'[d] = IF recvalt[d] \in AltsOf(c) THEN None ELSE recvalt[d]
    <2>1. sendalt[d] \in AltsOf(c) => d \in Sends(alt[sendalt[d]])
      BY <1>0 DEF AltInv, AltsOf
    <2>2. recvalt[d] \in AltsOf(c) => d \in Recvs(alt[recvalt[d]])
      BY <1>0, RecvsAre DEF AltInv, AltsOf
    <2> QED BY <1>7, <2>1, <2>2
  <1>9. ChanTypes'
    <2>1. <<>> \in Seq(Progs) /\ 0 \in 0 .. QLim
      BY ChanAssumption
    <2>2. send' \in [Chans -> Seq(Progs)] /\ recv' \in [Chans -> Seq(Progs)]
          /\ sendq' \in [Chans -> 0 .. QLim]
      BY <1>0, <1>7, <2>1 DEF ChanTypes
    <2>3. /\ sendalt' \in [Chans -> Progs \cup {None}]
          /\ recvalt' \in [Chans -> Progs \cup {None}]
          /\ alt' \in [Progs -> Tables \cup {None}]
      BY <1>0, <1>7 DEF ChanTypes
    <2>4. reason' \in [Progs -> Causes \cup {None}] /\ st' \in [Progs -> States]
      BY <1>0, <1>7 DEF ChanTypes, Causes, States
    <2>5. /\ kp' \in [Progs -> {"none", "released", "sleep", "woken"}]
          /\ intr' \in [Progs -> BOOLEAN]
      BY <1>0, <1>7 DEF ChanTypes
    <2>6. freed' \in SUBSET Chans
      BY <1>0, <1>7 DEF ChanTypes
    <2> QED BY <1>0, <1>7, <2>2, <2>3, <2>4, <2>5, <2>6 DEF ChanTypes
  <1>10. /\ \A d \in Chans : send'[d] = IF d = c THEN <<>> ELSE send[d]
         /\ \A d \in Chans : recv'[d] = IF d = c THEN <<>> ELSE recv[d]
         /\ \A d \in Chans : sendq'[d] = IF d = c THEN 0 ELSE sendq[d]
    BY <1>0, <1>7 DEF ChanTypes
  <1>11. /\ \A p \in Progs : alt'[p] = IF p \in AltsOf(c) THEN None ELSE alt[p]
         /\ \A p \in Progs : st'[p] = IF p \in AltsOf(c) \cup ToldOf(c) THEN "ready" ELSE st[p]
         /\ \A p \in Progs : reason'[p] = IF p \in AltsOf(c) THEN "alt channel hungup"
                                     ELSE IF p \in ToldOf(c) THEN "channel hangup" ELSE reason[p]
         /\ \A p \in Progs : kp'[p] = IF p \in CallsOf(c) THEN "woken" ELSE kp[p]
         /\ \A p \in Progs : intr'[p] <=> p \in CallsOf(c) \/ intr[p]
    BY <1>7
  <1> QED BY <1>1, <1>7, <1>8, <1>9, <1>10, <1>11

LEMMA FreeChanInv ==
  ASSUME ChanInv, NEW c \in Chans, FreeChan(c)
  PROVE  ChanInv'
  <1>0. ChanTypes /\ CRecvInv /\ ListInv /\ AltInv
    BY DEF ChanInv
  <1>1. /\ \A d \in Chans : send'[d] = IF d = c THEN <<>> ELSE send[d]
        /\ \A d \in Chans : recv'[d] = IF d = c THEN <<>> ELSE recv[d]
        /\ UNCHANGED <<addrun, arr>>
        /\ \A p \in AltsOf(c) : st[p] = "alt"
        /\ ChanTypes'
    BY FreeFacts
  <1>2. \A p \in Progs : st'[p] = IF p \in AltsOf(c) \cup ToldOf(c) THEN "ready" ELSE st[p]
    BY FreeFacts
  <1>3. \A p \in ToldOf(c) : st[p] \in {"send", "recv"}
    BY DEF ToldOf
  <1>4. ASSUME NEW d \in Chans
        PROVE  /\ ToSet(send'[d]) = IF d = c THEN {} ELSE ToSet(send[d])
               /\ ToSet(recv'[d]) = IF d = c THEN {} ELSE ToSet(recv[d])
               /\ IsInjective(send'[d]) /\ IsInjective(recv'[d])
    BY <1>0, <1>1, EmptyQueue DEF ListInv
  <1>5. CRecvInv'
    <2>1. /\ \A p \in Progs : kp'[p] = IF p \in CallsOf(c) THEN "woken" ELSE kp[p]
          /\ \A p \in Progs : intr'[p] <=> p \in CallsOf(c) \/ intr[p]
      BY FreeFacts
    <2>2. \A p \in Progs : reason'[p] = IF p \in AltsOf(c) THEN "alt channel hungup"
                                     ELSE IF p \in ToldOf(c) THEN "channel hangup" ELSE reason[p]
      BY FreeFacts
    <2>3. \A p \in CallsOf(c) : st[p] = "release" /\ kp[p] = "sleep"
      BY DEF CallsOf
    <2>4. \A p \in Progs : (kp'[p] # "none" <=> kp[p] # "none")
                        /\ (st'[p] \in {"release", "exiting"} <=> st[p] \in {"release", "exiting"})
      BY <1>1, <1>2, <1>3, <2>1, <2>3
    <2>5. ASSUME NEW p \in Progs, kp'[p] = "woken", addrun'[p]
          PROVE  intr'[p] \/ reason'[p] # None
      <3>1. CASE p \in CallsOf(c)
        BY <2>1, <3>1
      <3>2. CASE p \notin CallsOf(c)
        <4>1. intr[p] \/ reason[p] # None
          BY <1>0, <1>1, <2>1, <2>5, <3>2 DEF CRecvInv
        <4> QED BY <2>1, <2>2, <4>1, NilFacts
      <3> QED BY <3>1, <3>2
    <2> QED BY <1>0, <1>1, <2>4, <2>5 DEF CRecvInv
  <1>6. ListInv'
    <2>1. ASSUME NEW d \in Chans, NEW p \in Progs, p \in ToSet(send'[d])
          PROVE  st'[p] = "send" /\ d # c /\ p \in ToSet(send[d])
      <3>1. d # c /\ p \in ToSet(send[d])
        BY <1>4, <2>1
      <3>2. st[p] = "send" /\ p \notin ToSet(send[c])
        BY <1>0, <3>1 DEF ListInv
      <3>3. p \notin ToSet(recv[c])
        BY <1>0, <3>2 DEF ListInv, CRecvInv
      <3>4. p \notin AltsOf(c) /\ p \notin ToldOf(c)
        BY <1>1, <3>2, <3>3 DEF ToldOf, Comms
      <3> QED BY <1>2, <3>1, <3>2, <3>4
    <2>2. ASSUME NEW d \in Chans, NEW p \in Progs, p \in ToSet(recv'[d])
          PROVE  (st'[p] = "recv" \/ addrun'[p]) /\ d # c /\ p \in ToSet(recv[d])
      <3>1. d # c /\ p \in ToSet(recv[d])
        BY <1>4, <2>2
      <3>2. (st[p] = "recv" \/ addrun[p]) /\ p \notin ToSet(recv[c])
        BY <1>0, <3>1 DEF ListInv
      <3>3. p \notin ToSet(send[c])
        BY <1>0, <3>2 DEF ListInv, CRecvInv
      <3>4. p \notin ToldOf(c) /\ (st[p] = "recv" => p \notin AltsOf(c))
        BY <1>1, <3>2, <3>3 DEF ToldOf, Comms
      <3> QED BY <1>1, <1>2, <3>1, <3>2, <3>4
    <2>3. ASSUME NEW p \in Progs
          PROVE  /\ st'[p] = "send" => \E d \in Chans : p \in ToSet(send'[d])
                 /\ st'[p] = "recv" => \E d \in Chans : p \in ToSet(recv'[d])
      <3>1. st'[p] \in {"send", "recv"} => st[p] = st'[p] /\ p \notin ToldOf(c)
        BY <1>2
      <3>2. st'[p] \in {"send", "recv"} => p \notin ToSet(send[c]) /\ p \notin ToSet(recv[c])
        BY <3>1 DEF ToldOf, Comms
      <3> QED BY <1>0, <1>4, <3>1, <3>2 DEF ListInv
    <2> QED BY <1>0, <1>4, <2>1, <2>2, <2>3 DEF ListInv
  <1>7. AltInv'
    <2>0. None \notin Progs
      BY NilFacts
    <2>1. /\ \A d \in Chans : sendalt'[d] = IF sendalt[d] \in AltsOf(c) THEN None ELSE sendalt[d]
          /\ \A d \in Chans : recvalt'[d] = IF recvalt[d] \in AltsOf(c) THEN None ELSE recvalt[d]
          /\ \A p \in Progs : alt'[p] = IF p \in AltsOf(c) THEN None ELSE alt[p]
      BY FreeFacts
    <2>2. \A p \in Progs : st'[p] = "alt" => p \notin AltsOf(c) /\ st[p] = "alt"
      BY <1>2
    <2>3. \A p \in Progs : p \notin AltsOf(c) => (st'[p] = "alt" <=> st[p] = "alt")
      BY <1>2, <1>3
    <2>4. ASSUME NEW d \in Chans, NEW p \in Progs
          PROVE  /\ sendalt'[d] = p <=> st'[p] = "alt" /\ d \in Sends(alt'[p])
                 /\ recvalt'[d] = p <=> st'[p] = "alt" /\ d \in RecvsIn(arr', alt'[p])
      <3>1. CASE p \in AltsOf(c)
        BY <2>0, <2>1, <2>2, <3>1
      <3>2. CASE p \notin AltsOf(c)
        <4>1. /\ sendalt[d] = p <=> st[p] = "alt" /\ d \in Sends(alt[p])
              /\ recvalt[d] = p <=> st[p] = "alt" /\ d \in RecvsIn(arr, alt[p])
          BY <1>0 DEF AltInv
        <4>2. /\ sendalt'[d] = p <=> sendalt[d] = p
              /\ recvalt'[d] = p <=> recvalt[d] = p
              /\ alt'[p] = alt[p] /\ arr' = arr
          BY <1>1, <2>0, <2>1, <3>2
        <4> QED BY <2>3, <3>2, <4>1, <4>2
      <3> QED BY <3>1, <3>2
    <2>5. \A p \in Progs : st'[p] = "alt" => alt'[p] \in Tables
      BY <1>0, <2>1, <2>2 DEF AltInv
    <2> QED BY <2>4, <2>5 DEF AltInv
  <1> QED BY <1>1, <1>5, <1>6, <1>7 DEF ChanInv

\* An array is assigned to that no alt waits for.
LEMMA AssignRecvs ==
  ASSUME ChanInv, ~Mutable, NEW a \in Arrays, NEW c \in Chans, NEW i \in DOMAIN arr[a],
         Assign(a, i, c), NEW p \in Progs, st[p] = "alt"
  PROVE  RecvsIn(arr', alt[p]) = RecvsIn(arr, alt[p])
  <1>1. a \notin ToSet(alt[p].r)
    BY DEF Assign
  <1>2. \A n \in DOMAIN alt[p].r : alt[p].r[n] # a
    BY <1>1 DEF ToSet
  <1>3. \A b \in Arrays : b # a => arr'[b] = arr[b]
    BY DEF Assign, ChanInv, ChanTypes
  <1> QED BY <1>2, <1>3 DEF RecvsIn

LEMMA AssignInv ==
  ASSUME ChanInv, ~Mutable, NEW a \in Arrays, NEW c \in Chans, NEW i \in DOMAIN arr[a],
         Assign(a, i, c)
  PROVE  ChanInv'
  <1>0. ChanTypes /\ CRecvInv /\ ListInv /\ AltInv
    BY DEF ChanInv
  <1>1. UNCHANGED <<st, send, recv, sendalt, recvalt, sendq, alt, freed, reason, callVars>>
    BY DEF Assign
  <1>2. arr' \in [Arrays -> Seq(Chans)]
    <2>1. arr[a] \in Seq(Chans) /\ arr \in [Arrays -> Seq(Chans)]
      BY <1>0 DEF ChanTypes
    <2>2. [arr[a] EXCEPT ![i] = c] \in Seq(Chans)
      BY <2>1
    <2>3. arr' = [arr EXCEPT ![a] = [arr[a] EXCEPT ![i] = c]]
      BY DEF Assign
    <2> QED BY <2>1, <2>2, <2>3
  <1>3. ChanTypes' /\ CRecvInv' /\ ListInv'
    BY <1>0, <1>1, <1>2 DEF ChanTypes, CRecvInv, ListInv, callVars
  <1>4. \A p \in Progs : st[p] = "alt" => RecvsIn(arr', alt[p]) = RecvsIn(arr, alt[p])
    BY AssignRecvs
  <1>5. AltInv'
    BY <1>0, <1>1, <1>4 DEF AltInv
  <1> QED BY <1>3, <1>5 DEF ChanInv

-----------------------------------------------------------------------------
\* Every step.
LEMMA ChanNextInv == ~Mutable /\ ChanInv /\ [ChanNext]_disChanVars => ChanInv'
  <1> SUFFICES ASSUME ~Mutable, ChanInv, [ChanNext]_disChanVars
               PROVE  ChanInv'
    OBVIOUS
  <1>1. ASSUME NEW p \in Progs, NEW c \in Chans, Send(p, c) \/ Recv(p, c) \/ CRecv(p, c)
        PROVE  ChanInv'
    BY <1>1, CommInv
  <1>2. ASSUME NEW p \in Progs, NEW t \in Tables,
               AltRefused(p, t) \/ AltWait(p, t) \/ AltComm(p, t)
        PROVE  ChanInv'
    BY <1>2, AltRefusedInv, AltWaitInv, AltCommInv
  <1>3. ASSUME NEW p \in Progs, \/ CSleep(p) \/ CReturn(p) \/ KillWaiter(p)
                                \/ ExitProg(p) \/ Raise(p)
        PROVE  ChanInv'
    BY <1>3, CSleepInv, CReturnInv, KillWaiterInv, ExitInv
  <1>4. ASSUME NEW c \in Chans, CSendQ(c) \/ DropChan(c)
        PROVE  ChanInv'
    BY <1>4, CSendQInv, FreeChanInv DEF DropChan
  <1>5. ASSUME NEW a \in Arrays, NEW c \in Chans, NEW i \in DOMAIN arr[a], Assign(a, i, c)
        PROVE  ChanInv'
    BY <1>5, AssignInv
  <1>6. CASE UNCHANGED disChanVars
    BY <1>6 DEF disChanVars, ChanInv, ChanTypes, CRecvInv, ListInv, AltInv
  <1> QED BY <1>1, <1>2, <1>3, <1>4, <1>5, <1>6 DEF ChanNext

\* While no array is assigned to that an alt waits for, the invariant holds.
THEOREM ChanInvHolds == ASSUME ~Mutable PROVE ChanSpec => []ChanInv
  <1>1. ChanInv /\ [ChanNext]_disChanVars => ChanInv'
    BY ChanNextInv
  <1> QED BY <1>1, InitChanInv, PTL DEF ChanSpec

\* Every list has Progs only, and a Prog that crecv armed is in a system call.
THEOREM ChanTypeCorrect == ASSUME ~Mutable PROVE ChanSpec => []ChanTypeOK
  <1>1. ChanInv => ChanTypeOK
    BY DEF ChanInv, ChanTypes, CRecvInv, ChanTypeOK
  <1> QED BY <1>1, ChanInvHolds, PTL

-----------------------------------------------------------------------------
(***************************************************************************)
(* Who waits is listed, once.                                              *)
(***************************************************************************)
PlacesIn(Q, p) == UNION {{c} \X {i \in DOMAIN Q[c] : Q[c][i] = p} : c \in Chans}

\* A Prog that is in one list, which has it once.
LEMMA OnePlace ==
  ASSUME NEW Q \in [Chans -> Seq(Progs)], \A c \in Chans : IsInjective(Q[c]), NEW p
  PROVE  /\ (\A c \in Chans : p \notin ToSet(Q[c])) => Cardinality(PlacesIn(Q, p)) = 0
         /\ PlacesIn(Q, p) # {} => \E c \in Chans : p \in ToSet(Q[c])
         /\ \A c \in Chans :
              p \in ToSet(Q[c]) /\ (\A d \in Chans : p \in ToSet(Q[d]) => d = c)
                => Cardinality(PlacesIn(Q, p)) = 1
  <1>1. \A x : x \in PlacesIn(Q, p) <=>
          \E c \in Chans : \E i \in DOMAIN Q[c] : Q[c][i] = p /\ x = <<c, i>>
    <2>1. \A x : x \in PlacesIn(Q, p) <=>
            \E c \in Chans : x \in {c} \X {i \in DOMAIN Q[c] : Q[c][i] = p}
      BY DEF PlacesIn
    <2>2. ASSUME NEW x, NEW c \in Chans
          PROVE  x \in {c} \X {i \in DOMAIN Q[c] : Q[c][i] = p} <=>
                 \E i \in DOMAIN Q[c] : Q[c][i] = p /\ x = <<c, i>>
      OBVIOUS
    <2> QED BY <2>1, <2>2
  <1>2. \A c \in Chans : p \in ToSet(Q[c]) <=> \E i \in DOMAIN Q[c] : Q[c][i] = p
    BY DEF ToSet
  <1>3. PlacesIn(Q, p) # {} => \E c \in Chans : p \in ToSet(Q[c])
    BY <1>1, <1>2
  <1>4. (\A c \in Chans : p \notin ToSet(Q[c])) => Cardinality(PlacesIn(Q, p)) = 0
    BY <1>3, FS_EmptySet
  <1>5. ASSUME NEW c \in Chans, p \in ToSet(Q[c]), \A d \in Chans : p \in ToSet(Q[d]) => d = c
        PROVE  Cardinality(PlacesIn(Q, p)) = 1
    <2>1. PICK i \in DOMAIN Q[c] : Q[c][i] = p
      BY <1>2, <1>5
    <2>2. \A j \in DOMAIN Q[c] : Q[c][j] = p => j = i
      BY <2>1 DEF IsInjective
    <2>3. PlacesIn(Q, p) = {<<c, i>>}
      BY <1>1, <1>2, <1>5, <2>1, <2>2
    <2> QED BY <2>3, FS_Singleton
  <1> QED BY <1>3, <1>4, <1>5

LEMMA ChanInvListed == ChanInv => Listed
  <1> SUFFICES ASSUME ChanInv PROVE Listed
    OBVIOUS
  <1>0. ChanTypes /\ CRecvInv /\ ListInv /\ AltInv
    BY DEF ChanInv
  <1>1. AltListed
    BY <1>0, RecvsAre DEF AltInv, AltListed
  <1>2. /\ send \in [Chans -> Seq(Progs)] /\ \A c \in Chans : IsInjective(send[c])
        /\ recv \in [Chans -> Seq(Progs)] /\ \A c \in Chans : IsInjective(recv[c])
    BY <1>0 DEF ChanTypes, ListInv
  <1>3. ASSUME NEW p \in Progs
        PROVE  /\ Cardinality(PlacesIn(send, p)) = (IF st[p] = "send" THEN 1 ELSE 0)
               /\ st[p] = "recv" => Cardinality(PlacesIn(recv, p)) = 1
               /\ PlacesIn(recv, p) # {} =>
                    st[p] = "recv" \/ (Cardinality(PlacesIn(recv, p)) = 1 /\ kp[p] # "none")
    <2>1. CASE st[p] = "send"
      <3>1. PICK c \in Chans : p \in ToSet(send[c])
        BY <1>0, <2>1 DEF ListInv
      <3>2. \A d \in Chans : p \in ToSet(send[d]) => d = c
        BY <1>0, <3>1 DEF ListInv
      <3>3. Cardinality(PlacesIn(send, p)) = 1
        BY <1>2, <3>1, <3>2, OnePlace
      <3>4. \A d \in Chans : p \notin ToSet(recv[d])
        BY <1>0, <2>1 DEF ListInv, CRecvInv
      <3>5. PlacesIn(recv, p) = {}
        BY <1>2, <3>4, OnePlace
      <3> QED BY <2>1, <3>3, <3>5
    <2>2. CASE st[p] # "send"
      <3>1. \A d \in Chans : p \notin ToSet(send[d])
        BY <1>0, <2>2 DEF ListInv
      <3>2. Cardinality(PlacesIn(send, p)) = 0
        BY <1>2, <3>1, OnePlace
      <3>3. ASSUME NEW c \in Chans, p \in ToSet(recv[c])
            PROVE  Cardinality(PlacesIn(recv, p)) = 1 /\ (st[p] = "recv" \/ kp[p] # "none")
        <4>1. \A d \in Chans : p \in ToSet(recv[d]) => d = c
          BY <1>0, <3>3 DEF ListInv
        <4>2. Cardinality(PlacesIn(recv, p)) = 1
          BY <1>2, <3>3, <4>1, OnePlace
        <4> QED BY <1>0, <3>3, <4>2 DEF ListInv, CRecvInv
      <3>4. st[p] = "recv" => \E c \in Chans : p \in ToSet(recv[c])
        BY <1>0 DEF ListInv
      <3>5. PlacesIn(recv, p) # {} => \E c \in Chans : p \in ToSet(recv[c])
        BY <1>2, OnePlace
      <3> QED BY <2>2, <3>2, <3>3, <3>4, <3>5
    <2> QED BY <2>1, <2>2
  <1>4. WaitListed
    BY <1>3 DEF WaitListed, PlacesIn
  <1> QED BY <1>1, <1>4 DEF Listed

\* The lists of the channels and the states of the Progs agree.
THEOREM ListedHolds == ASSUME ~Mutable PROVE ChanSpec => []Listed
  BY ChanInvListed, ChanInvHolds, PTL

-----------------------------------------------------------------------------
(***************************************************************************)
(* Who stops to wait was sent to or received from, or is told why.         *)
(***************************************************************************)
Cause(p) ==
  \/ last' # None /\ p \in {last'.s, last'.r}
  \/ st'[p] = "ready" /\ reason'[p] # None
  \/ st'[p] = "dead"

Left(p) == st[p] \in {"send", "recv", "alt"} /\ st'[p] # st[p]

\* A step that changes the state of q only, which did not wait.
LEMMA NobodyLeft ==
  ASSUME NEW q, st[q] \notin {"send", "recv", "alt"},
         \A p \in Progs : p # q => st'[p] = st[p]
  PROVE  \A p \in Progs : ~Left(p)
  BY DEF Left

\* The partner that is taken has the message.
LEMMA TakenCause ==
  ASSUME ChanInv, NEW q \in Progs, NEW c \in Chans, Taken(q, c),
         NEW s \in Progs \cup {Kernel}, NEW r \in Progs \cup {None}, q \in {s, r},
         last' = Message(c, s, r)
  PROVE  \A p \in Progs : Left(p) => Cause(p)
  <1>1. \A p \in Progs : p # q => st'[p] = st[p]
    BY DEF Taken, AltTaken, RecvTaken, SendTaken, RunAgain, ChanInv, ChanTypes
  <1>2. last' # None /\ last'.s = s /\ last'.r = r
    BY NilFacts DEF Message
  <1> QED BY <1>1, <1>2 DEF Left, Cause

LEMMA SendToCause ==
  ASSUME ChanInv, NEW p \in Progs \cup {Kernel}, NEW c \in Chans, CanSend(c), SendTo(p, c),
         UNCHANGED <<arr, reason, freed>>
  PROVE  \A q \in Progs : Left(q) => Cause(q)
  <1>1. PICK q \in Progs : Taken(q, c) /\ last' = Message(c, p, q)
    BY SendToTakes
  <1> QED BY <1>1, TakenCause

LEMMA RecvFromCause ==
  ASSUME ChanInv, NEW p \in Progs, NEW c \in Chans, CanRecv(c), RecvFrom(p, c),
         UNCHANGED <<arr, reason, freed>>
  PROVE  \A q \in Progs : Left(q) => Cause(q)
  <1>1. CASE \E q \in Progs : Taken(q, c) /\ last' = Message(c, q, p)
    BY <1>1, TakenCause
  <1>2. CASE UNCHANGED st
    BY <1>2 DEF Left
  <1> QED BY <1>1, <1>2, RecvFromTakes

\* Every step.
LEMMA NextCause ==
  ASSUME ChanInv, ChanNext
  PROVE  \A q \in Progs : Left(q) => Cause(q)
  <1>0. ChanTypes /\ CRecvInv /\ ListInv /\ AltInv
    BY DEF ChanInv
  <1>1. ASSUME NEW p \in Progs, NEW c \in Chans, Send(p, c) \/ Recv(p, c) \/ CRecv(p, c)
        PROVE  \A q \in Progs : Left(q) => Cause(q)
    <2>1. CASE Send(p, c) /\ CanSend(c)
      BY <2>1, SendToCause DEF Send
    <2>2. CASE (Recv(p, c) \/ CRecv(p, c)) /\ CanRecv(c)
      BY <2>2, RecvFromCause DEF Recv, CRecv
    <2>3. CASE \/ Send(p, c) /\ ~CanSend(c)
               \/ (Recv(p, c) \/ CRecv(p, c)) /\ ~CanRecv(c)
      <3>1. st[p] = "ready" /\ \A q \in Progs : q # p => st'[q] = st[q]
        BY <1>0, <2>3 DEF Send, Recv, CRecv, Runs, ChanTypes
      <3> QED BY <3>1, NobodyLeft
    <2> QED BY <1>1, <2>1, <2>2, <2>3
  <1>2. ASSUME NEW p \in Progs, NEW t \in Tables, AltRefused(p, t) \/ AltWait(p, t)
        PROVE  \A q \in Progs : Left(q) => Cause(q)
    <2>1. st[p] = "ready" /\ \A q \in Progs : q # p => st'[q] = st[q]
      BY <1>0, <1>2 DEF AltRefused, AltWait, Runs, ChanTypes
    <2> QED BY <2>1, NobodyLeft
  <1>3. ASSUME NEW p \in Progs, NEW t \in Tables, AltComm(p, t)
        PROVE  \A q \in Progs : Left(q) => Cause(q)
    <2>1. PICK a \in ReadyArms(t) : \/ a[1] = "send" /\ SendTo(p, a[2])
                                    \/ a[1] = "recv" /\ RecvFrom(p, a[2])
      BY <1>3 DEF AltComm
    <2>2. \/ a[1] = "send" /\ a[2] \in Chans /\ CanSend(a[2])
          \/ a[1] = "recv" /\ a[2] \in Chans /\ CanRecv(a[2])
      BY DEF ReadyArms, Sends, Recvs
    <2>3. UNCHANGED <<arr, reason, freed>>
      BY <1>3 DEF AltComm
    <2> QED BY <2>1, <2>2, <2>3, SendToCause, RecvFromCause
  <1>4. ASSUME NEW p \in Progs, CSleep(p) \/ ExitProg(p) \/ Raise(p)
        PROVE  \A q \in Progs : Left(q) => Cause(q)
    <2>1. st' = st \/ (st[p] = "ready" /\ st' = [st EXCEPT ![p] = "dead"])
      BY <1>4 DEF CSleep, ExitProg, Raise, Runs
    <2> QED BY <1>0, <2>1 DEF Left, ChanTypes
  <1>5. ASSUME NEW p \in Progs, CReturn(p)
        PROVE  \A q \in Progs : Left(q) => Cause(q)
    <2>1. st[p] \in {"release", "exiting"} /\ \A q \in Progs : q # p => st'[q] = st[q]
      BY <1>5, CReturnRemoves
    <2> QED BY <2>1, NobodyLeft
  <1>6. ASSUME NEW p \in Progs, KillWaiter(p)
        PROVE  \A q \in Progs : Left(q) => Cause(q)
    <2>1. CASE st[p] = "release"
      <3>1. \A q \in Progs : q # p => st'[q] = st[q]
        BY <1>0, <1>6, <2>1 DEF KillWaiter, ChanTypes
      <3> QED BY <2>1, <3>1, NobodyLeft
    <2>2. CASE st[p] # "release"
      <3>1. \A q \in Progs : st'[q] = IF q = p THEN "dead" ELSE st[q]
        BY <1>6, <2>2, KillRemoves
      <3> QED BY <3>1 DEF Left, Cause
    <2> QED BY <2>1, <2>2
  <1>7. ASSUME NEW c \in Chans, CSendQ(c)
        PROVE  \A q \in Progs : Left(q) => Cause(q)
    <2>1. CASE CanSend(c)
      BY <1>7, <2>1, SendToCause DEF CSendQ
    <2>2. CASE ~CanSend(c)
      BY <1>7, <2>2 DEF CSendQ, Left
    <2> QED BY <2>1, <2>2
  <1>8. ASSUME NEW c \in Chans, DropChan(c)
        PROVE  \A q \in Progs : Left(q) => Cause(q)
    <2>1. FreeChan(c)
      BY <1>8 DEF DropChan
    <2>2. \A p \in Progs : st'[p] = IF p \in AltsOf(c) \cup ToldOf(c) THEN "ready" ELSE st[p]
      BY <2>1, FreeFacts
    <2>3. \A p \in Progs : reason'[p] = IF p \in AltsOf(c) THEN "alt channel hungup"
                                   ELSE IF p \in ToldOf(c) THEN "channel hangup" ELSE reason[p]
      BY <2>1, FreeFacts
    <2>4. None # "channel hangup" /\ None # "alt channel hungup"
      BY NilFacts
    <2> QED BY <2>2, <2>3, <2>4 DEF Left, Cause
  <1>9. ASSUME NEW a \in Arrays, NEW c \in Chans, NEW i \in DOMAIN arr[a], Assign(a, i, c)
        PROVE  \A q \in Progs : Left(q) => Cause(q)
    BY <1>9 DEF Assign, Left
  <1> QED BY <1>1, <1>2, <1>3, <1>4, <1>5, <1>6, <1>7, <1>8, <1>9 DEF ChanNext

\* A Prog that waits comes out of it by a message, with a reason, or dead.
THEOREM LeavesForCauseHolds == ASSUME ~Mutable PROVE ChanSpec => LeavesForCause
  <1>1. ChanInv /\ [ChanNext]_disChanVars =>
          [\A p \in Progs : Left(p) => Cause(p)]_disChanVars
    BY NextCause
  <1>2. ChanSpec => [][\A p \in Progs : Left(p) => Cause(p)]_disChanVars
    BY <1>1, ChanInvHolds, PTL DEF ChanSpec
  <1> QED BY <1>2, PTL DEF LeavesForCause, Left, Cause

-----------------------------------------------------------------------------
(***************************************************************************)
(* The channels are those of Csp.  What a Prog offers is where it is       *)
(* listed, and what its alt is found at.                                   *)
(***************************************************************************)
Directions == {"send", "recv"}

\* Two sets of communications are compared one by one.
LEMMA SameOffers ==
  ASSUME NEW O \in SUBSET (Directions \X Chans), NEW R \in SUBSET (Directions \X Chans),
         \A c \in Chans : /\ <<"send", c>> \in O <=> <<"send", c>> \in R
                          /\ <<"recv", c>> \in O <=> <<"recv", c>> \in R
  PROVE  O = R
  <1>1. ASSUME NEW o \in Directions \X Chans
        PROVE  o \in O <=> o \in R
    <2>1. PICK d \in Directions, c \in Chans : o = <<d, c>>
      OBVIOUS
    <2>2. d = "send" \/ d = "recv"
      BY DEF Directions
    <2> QED BY <2>1, <2>2
  <1> QED BY <1>1

LEMMA OfferIn ==
  ASSUME ChanInv, NEW p \in Progs
  PROVE  /\ Offer(p) \in SUBSET (Directions \X Chans)
         /\ \A c \in Chans : <<"send", c>> \in Offer(p) <=> p \in ToSet(send[c]) \/ sendalt[c] = p
         /\ \A c \in Chans : <<"recv", c>> \in Offer(p) <=> p \in ToSet(recv[c]) \/ recvalt[c] = p
  <1>1. /\ \A c \in Chans : sendalt[c] = p <=> st[p] = "alt" /\ c \in Sends(alt[p])
        /\ \A c \in Chans : recvalt[c] = p <=> st[p] = "alt" /\ c \in Recvs(alt[p])
    BY RecvsAre DEF ChanInv, AltInv
  <1>2. Sends(alt[p]) \subseteq Chans /\ Recvs(alt[p]) \subseteq Chans
    BY DEF Sends, Recvs
  <1>3. Offer(p) \in SUBSET (Directions \X Chans)
    BY <1>2 DEF Offer, Directions
  <1>4. ASSUME NEW c \in Chans
        PROVE  /\ <<"send", c>> \in Offer(p) <=>
                    p \in ToSet(send[c]) \/ (st[p] = "alt" /\ c \in Sends(alt[p]))
               /\ <<"recv", c>> \in Offer(p) <=>
                    p \in ToSet(recv[c]) \/ (st[p] = "alt" /\ c \in Recvs(alt[p]))
    BY DEF Offer
  <1> QED BY <1>1, <1>3, <1>4

LEMMA OfferInNext ==
  ASSUME ChanInv', NEW p \in Progs
  PROVE  /\ Offer(p)' \in SUBSET (Directions \X Chans)
         /\ \A c \in Chans :
              <<"send", c>> \in Offer(p)' <=> p \in ToSet(send'[c]) \/ sendalt'[c] = p
         /\ \A c \in Chans :
              <<"recv", c>> \in Offer(p)' <=> p \in ToSet(recv'[c]) \/ recvalt'[c] = p
  <1>1. /\ \A c \in Chans : sendalt'[c] = p <=> st'[p] = "alt" /\ c \in Sends(alt'[p])
        /\ \A c \in Chans : recvalt'[c] = p <=> st'[p] = "alt" /\ c \in RecvsIn(arr', alt'[p])
    BY DEF ChanInv, AltInv
  <1>2. Sends(alt'[p]) \subseteq Chans /\ RecvsIn(arr', alt'[p]) \subseteq Chans
    BY DEF Sends, RecvsIn
  <1>3. Offer(p)' =
          {<<"send", c>> : c \in {d \in Chans : p \in ToSet(send'[d])}}
            \cup {<<"recv", c>> : c \in {d \in Chans : p \in ToSet(recv'[d])}}
            \cup IF st'[p] = "alt"
                   THEN {<<"send", c>> : c \in Sends(alt'[p])}
                          \cup {<<"recv", c>> : c \in RecvsIn(arr', alt'[p])}
                   ELSE {}
    BY DEF Offer, Sends, SendArms, Recvs, RecvArms, RecvsIn
  <1>4. Offer(p)' \in SUBSET (Directions \X Chans)
    BY <1>2, <1>3 DEF Directions
  <1>5. ASSUME NEW c \in Chans
        PROVE  /\ <<"send", c>> \in Offer(p)' <=>
                    p \in ToSet(send'[c]) \/ (st'[p] = "alt" /\ c \in Sends(alt'[p]))
               /\ <<"recv", c>> \in Offer(p)' <=>
                    p \in ToSet(recv'[c]) \/ (st'[p] = "alt" /\ c \in RecvsIn(arr', alt'[p]))
    BY <1>3
  <1> QED BY <1>1, <1>4, <1>5

\* Some Progs leave all places, and the others stay where they are.
LEMMA OffersLeft ==
  ASSUME ChanInv, ChanInv', NEW P,
         \A c \in Chans, p \in Progs :
           /\ p \in ToSet(send'[c]) <=> p \notin P /\ p \in ToSet(send[c])
           /\ p \in ToSet(recv'[c]) <=> p \notin P /\ p \in ToSet(recv[c])
           /\ sendalt'[c] = p <=> p \notin P /\ sendalt[c] = p
           /\ recvalt'[c] = p <=> p \notin P /\ recvalt[c] = p
  PROVE  \A p \in Progs : Offer(p)' = IF p \in P THEN {} ELSE Offer(p)
  <1> SUFFICES ASSUME NEW p \in Progs
               PROVE  Offer(p)' = IF p \in P THEN {} ELSE Offer(p)
    OBVIOUS
  <1> DEFINE R == IF p \in P THEN {} ELSE Offer(p)
  <1>1. Offer(p)' \in SUBSET (Directions \X Chans) /\ R \in SUBSET (Directions \X Chans)
    BY OfferIn, OfferInNext
  <1>2. ASSUME NEW c \in Chans
        PROVE  /\ <<"send", c>> \in Offer(p)' <=> <<"send", c>> \in R
               /\ <<"recv", c>> \in Offer(p)' <=> <<"recv", c>> \in R
    BY OfferIn, OfferInNext
  <1> HIDE DEF R
  <1>3. Offer(p)' = R
    BY <1>1, <1>2, SameOffers
  <1> QED BY <1>3 DEF R

\* Whoever runs, or has exited, offers nothing.
LEMMA OffersNothing ==
  ASSUME ChanInv, NEW p \in Progs,
         \A c \in Chans : /\ p \notin ToSet(send[c]) /\ p \notin ToSet(recv[c])
                          /\ sendalt[c] # p /\ recvalt[c] # p
  PROVE  Offer(p) = {}
  <1>1. Offer(p) \in SUBSET (Directions \X Chans) /\ {} \in SUBSET (Directions \X Chans)
    BY OfferIn
  <1>2. \A c \in Chans : <<"send", c>> \notin Offer(p) /\ <<"recv", c>> \notin Offer(p)
    BY OfferIn
  <1> QED BY <1>1, <1>2, SameOffers

LEMMA RunsOffers ==
  ASSUME ChanInv, NEW p \in Progs, Runs(p)
  PROVE  Offer(p) = {}
  BY RunsNowhere, OffersNothing DEF Runs

\* A channel that nobody sends to, or receives from, is in no offer.
LEMMA NobodyOffers ==
  ASSUME ChanInv, NEW c \in Chans
  PROVE  /\ CanSend(c) <=> \E q \in Progs : <<"recv", c>> \in Offer(q)
         /\ send[c] # <<>> \/ sendalt[c] # None <=> \E q \in Progs : <<"send", c>> \in Offer(q)
         /\ sendq[c] \in Nat
  <1>0. ChanTypes
    BY DEF ChanInv
  <1>1. /\ ToSet(send[c]) \subseteq Progs /\ ToSet(recv[c]) \subseteq Progs
        /\ send[c] # <<>> <=> ToSet(send[c]) # {}
        /\ recv[c] # <<>> <=> ToSet(recv[c]) # {}
    BY <1>0, ListedProgs
  <1>2. sendalt[c] \in Progs \cup {None} /\ recvalt[c] \in Progs \cup {None} /\ None \notin Progs
    BY <1>0, NilFacts DEF ChanTypes
  <1>3. sendq[c] \in Nat
    BY <1>0, ChanAssumption DEF ChanTypes
  <1>4. CanSend(c) <=> \E q \in Progs : q \in ToSet(recv[c]) \/ recvalt[c] = q
    BY <1>1, <1>2 DEF CanSend
  <1>5. send[c] # <<>> \/ sendalt[c] # None <=>
          \E q \in Progs : q \in ToSet(send[c]) \/ sendalt[c] = q
    BY <1>1, <1>2
  <1> QED BY <1>3, <1>4, <1>5, OfferIn

-----------------------------------------------------------------------------
\* A partner that is taken leaves all places.
LEMMA TakenOffers ==
  ASSUME ChanInv, NEW q \in Progs, NEW c \in Chans, Taken(q, c)
  PROVE  \A p \in Progs : Offer(p)' = IF p = q THEN {} ELSE Offer(p)
  <1>0. ChanTypes /\ CRecvInv /\ ListInv /\ AltInv /\ None \notin Progs
    BY NilFacts DEF ChanInv
  <1>1. ASSUME NEW d \in Chans, NEW p \in Progs
        PROVE  /\ p \in ToSet(send'[d]) <=> p \notin {q} /\ p \in ToSet(send[d])
               /\ p \in ToSet(recv'[d]) <=> p \notin {q} /\ p \in ToSet(recv[d])
               /\ sendalt'[d] = p <=> p \notin {q} /\ sendalt[d] = p
               /\ recvalt'[d] = p <=> p \notin {q} /\ recvalt[d] = p
    <2>1. CASE AltTaken(q)
      <3>1. q \notin ToSet(send[d]) /\ q \notin ToSet(recv[d]) /\ UNCHANGED <<send, recv>>
        BY <1>0, <2>1 DEF AltTaken, ListInv, CRecvInv
      <3>2. /\ sendalt'[d] = IF sendalt[d] = q THEN None ELSE sendalt[d]
            /\ recvalt'[d] = IF recvalt[d] = q THEN None ELSE recvalt[d]
        BY <2>1 DEF AltTaken, Without
      <3> QED BY <1>0, <3>1, <3>2
    <2>2. CASE RecvTaken(q, c)
      <3>1. /\ recv \in [Chans -> Seq(Progs)] /\ recv[c] # <<>> /\ IsInjective(recv[c])
            /\ recv' = [recv EXCEPT ![c] = Tail(@)] /\ q = Head(recv[c])
            /\ UNCHANGED <<send, sendalt, recvalt>>
        BY <1>0, <2>2 DEF RecvTaken, ChanTypes, ListInv
      <3>2. /\ \A e \in Chans : e # c => recv'[e] = recv[e]
            /\ ToSet(recv'[c]) = ToSet(recv[c]) \ {q} /\ q \in ToSet(recv[c])
        BY <3>1, HeadTaken
      <3>3. st[q] = "recv" \/ addrun[q]
        BY <1>0, <3>2 DEF ListInv
      <3>4. q \notin ToSet(send[d]) /\ sendalt[d] # q /\ recvalt[d] # q
        BY <1>0, <3>3 DEF ListInv, CRecvInv, AltInv
      <3>5. d # c => q \notin ToSet(recv[d])
        BY <1>0, <3>2 DEF ListInv
      <3> QED BY <3>1, <3>2, <3>4, <3>5
    <2>3. CASE SendTaken(q, c)
      <3>1. /\ send \in [Chans -> Seq(Progs)] /\ send[c] # <<>> /\ IsInjective(send[c])
            /\ send' = [send EXCEPT ![c] = Tail(@)] /\ q = Head(send[c])
            /\ UNCHANGED <<recv, sendalt, recvalt>>
        BY <1>0, <2>3 DEF SendTaken, ChanTypes, ListInv
      <3>2. /\ \A e \in Chans : e # c => send'[e] = send[e]
            /\ ToSet(send'[c]) = ToSet(send[c]) \ {q} /\ q \in ToSet(send[c])
        BY <3>1, HeadTaken
      <3>3. st[q] = "send"
        BY <1>0, <3>2 DEF ListInv
      <3>4. q \notin ToSet(recv[d]) /\ sendalt[d] # q /\ recvalt[d] # q
        BY <1>0, <3>3 DEF ListInv, CRecvInv, AltInv
      <3>5. d # c => q \notin ToSet(send[d])
        BY <1>0, <3>2 DEF ListInv
      <3> QED BY <3>1, <3>2, <3>4, <3>5
    <2> QED BY <2>1, <2>2, <2>3 DEF Taken
  <1>2. ChanInv'
    BY PartnerInv
  <1>3. \A d \in Chans, p \in Progs :
          /\ p \in ToSet(send'[d]) <=> p \notin {q} /\ p \in ToSet(send[d])
          /\ p \in ToSet(recv'[d]) <=> p \notin {q} /\ p \in ToSet(recv[d])
          /\ sendalt'[d] = p <=> p \notin {q} /\ sendalt[d] = p
          /\ recvalt'[d] = p <=> p \notin {q} /\ recvalt[d] = p
    BY <1>1
  <1>4. \A p \in Progs : Offer(p)' = IF p \in {q} THEN {} ELSE Offer(p)
    BY <1>2, <1>3, OffersLeft
  <1> QED BY <1>4

\* It communicates with whoever takes it.
LEMMA TakenComm ==
  ASSUME ChanInv, NEW q \in Progs, NEW c \in Chans, Taken(q, c),
         NEW p \in Progs \cup {Kernel}, p \in Progs => Runs(p),
         \/ <<"recv", c>> \in Offer(q) /\ last' = Message(c, p, q)
         \/ <<"send", c>> \in Offer(q) /\ last' = Message(c, q, p) /\ p # Kernel
  PROVE  Chan!Next
  <1>1. \A r \in Progs : Offer(r)' = IF r = q THEN {} ELSE Offer(r)
    BY TakenOffers
  <1>2. p \in Progs => Offer(p) = {}
    BY RunsOffers
  <1>3. p # q
    BY <1>2, NilFacts
  <1>4. UNCHANGED sendq
    BY DEF Taken
  <1>5. [r \in Progs |-> Offer(r)'] = [[r \in Progs |-> Offer(r)] EXCEPT ![q] = {}]
    BY <1>1
  <1>6. CASE <<"recv", c>> \in Offer(q) /\ last' = Message(c, p, q)
    <2>1. Chan!Comm("send", c, p, q)
      BY <1>2, <1>3, <1>4, <1>5, <1>6 DEF Chan!Comm, Chan!Other, Message
    <2> QED BY <2>1 DEF Chan!Next, Chan!Dirs
  <1>7. CASE <<"send", c>> \in Offer(q) /\ last' = Message(c, q, p) /\ p # Kernel
    <2>1. Chan!Comm("recv", c, p, q)
      BY <1>2, <1>3, <1>4, <1>5, <1>7 DEF Chan!Comm, Chan!Other, Message
    <2>2. p \in Progs
      BY <1>7
    <2> QED BY <2>1, <2>2 DEF Chan!Next, Chan!Dirs
  <1> QED BY <1>6, <1>7

\* A sender finds a receiver.
LEMMA SendToComm ==
  ASSUME ChanInv, NEW p \in Progs \cup {Kernel}, p \in Progs => Runs(p),
         NEW c \in Chans, CanSend(c), SendTo(p, c), UNCHANGED <<arr, reason, freed>>
  PROVE  Chan!Next
  <1>1. PICK q \in Progs : /\ Taken(q, c) /\ last' = Message(c, p, q)
                           /\ recvalt[c] = q \/ q \in ToSet(recv[c])
    BY SendToTakes
  <1>2. <<"recv", c>> \in Offer(q)
    BY <1>1, OfferIn
  <1> QED BY <1>1, <1>2, TakenComm

\* A receiver finds a sender, or takes a message that the kernel has queued.
LEMMA RecvFromComm ==
  ASSUME ChanInv, NEW p \in Progs, Runs(p),
         NEW c \in Chans, CanRecv(c), RecvFrom(p, c), UNCHANGED <<arr, reason, freed>>
  PROVE  Chan!Next
  <1>1. ASSUME NEW q \in Progs, Taken(q, c), last' = Message(c, q, p),
               sendalt[c] = q \/ q \in ToSet(send[c])
        PROVE  Chan!Next
    <2>1. <<"send", c>> \in Offer(q)
      BY <1>1, OfferIn
    <2>2. p # Kernel
      BY NilFacts
    <2> QED BY <1>1, <2>1, <2>2, TakenComm
  <1>2. ASSUME sendalt[c] = None, send[c] = <<>>, sendq[c] > 0,
               last' = Message(c, Kernel, p),
               sendq' = [sendq EXCEPT ![c] = @ - 1],
               UNCHANGED <<st, callVars, send, recv, sendalt, recvalt, alt>>
        PROVE  Chan!Next
    <2>1. ChanInv'
      BY <1>2, QueuedInv
    <2>2. \A r \in Progs : Offer(r)' = IF r \in {} THEN {} ELSE Offer(r)
      BY <1>2, <2>1, OffersLeft
    <2>3. [r \in Progs |-> Offer(r)'] = [r \in Progs |-> Offer(r)]
      BY <2>2
    <2>4. Offer(p) = {} /\ \A q \in Progs : <<"send", c>> \notin Offer(q)
      BY <1>2, RunsOffers, NobodyOffers
    <2>5. Chan!Dequeue(c, p)
      BY <1>2, <2>3, <2>4 DEF Chan!Dequeue, Message
    <2> QED BY <2>5 DEF Chan!Next
  <1> QED BY <1>1, <1>2, RecvFromTakes

-----------------------------------------------------------------------------
\* Progs leave, and nobody communicates.
LEMMA Withdrawn ==
  ASSUME ChanInv, ChanInv', NEW P \in SUBSET Progs, NEW C \in SUBSET Chans,
         \A p \in Progs : Offer(p)' = IF p \in P THEN {} ELSE Offer(p),
         \A c \in Chans : sendq'[c] = IF c \in C THEN 0 ELSE sendq[c],
         last' = None
  PROVE  Chan!Next
  <1>1. [p \in Progs |-> Offer(p)'] =
          [p \in Progs |-> IF p \in P THEN {} ELSE [q \in Progs |-> Offer(q)][p]]
    OBVIOUS
  <1>2. sendq' = [c \in Chans |-> IF c \in C THEN 0 ELSE sendq[c]]
    BY DEF ChanInv, ChanTypes
  <1>3. Chan!Withdraw(P, C)
    BY <1>1, <1>2 DEF Chan!Withdraw
  <1> QED BY <1>3 DEF Chan!Next

\* The steps that leave the lists alone.
LEMMA NobodyMoves ==
  ASSUME ChanInv, ChanInv', UNCHANGED <<send, recv, sendalt, recvalt, sendq>>, last' = None
  PROVE  Chan!Next
  <1>1. \A p \in Progs : Offer(p)' = IF p \in {} THEN {} ELSE Offer(p)
    BY OffersLeft
  <1>2. /\ \A c \in Chans : sendq'[c] = IF c \in {} THEN 0 ELSE sendq[c]
        /\ {} \in SUBSET Progs /\ {} \in SUBSET Chans
    OBVIOUS
  <1> QED BY <1>1, <1>2, Withdrawn

\* A Prog waits for what nobody offers.
LEMMA WaitSteps ==
  ASSUME ChanInv, ChanInv', NEW p \in Progs, Runs(p),
         NEW S \in SUBSET Chans, NEW R \in SUBSET Chans, S \cap R = {},
         \A c \in S : ~CanSend(c), \A c \in R : ~CanRecv(c),
         \A c \in Chans, q \in Progs :
           q \in ToSet(send'[c]) \/ sendalt'[c] = q <=>
             q \in ToSet(send[c]) \/ sendalt[c] = q \/ (q = p /\ c \in S),
         \A c \in Chans, q \in Progs :
           q \in ToSet(recv'[c]) \/ recvalt'[c] = q <=>
             q \in ToSet(recv[c]) \/ recvalt[c] = q \/ (q = p /\ c \in R),
         last' = None, sendq' = sendq
  PROVE  Chan!Next
  <1> DEFINE O == {<<"send", c>> : c \in S} \cup {<<"recv", c>> : c \in R}
  <1>1. /\ O \in SUBSET (Directions \X Chans)
        /\ \A c \in Chans : <<"send", c>> \in O <=> c \in S
        /\ \A c \in Chans : <<"recv", c>> \in O <=> c \in R
        /\ \A o \in O : \E c \in Chans : \/ o = <<"send", c>> /\ c \in S
                                         \/ o = <<"recv", c>> /\ c \in R
    BY DEF Directions
  <1> HIDE DEF O
  <1>2. Offer(p) = {}
    BY RunsOffers
  <1>3. \A c \in Chans : /\ p \notin ToSet(send[c]) /\ sendalt[c] # p
                         /\ p \notin ToSet(recv[c]) /\ recvalt[c] # p
    BY RunsNowhere DEF Runs
  <1>4. ASSUME NEW q \in Progs
        PROVE  Offer(q)' = IF q = p THEN O ELSE Offer(q)
    <2> DEFINE X == IF q = p THEN O ELSE Offer(q)
    <2>1. Offer(q)' \in SUBSET (Directions \X Chans) /\ X \in SUBSET (Directions \X Chans)
      BY <1>1, OfferIn, OfferInNext
    <2>2. ASSUME NEW c \in Chans
          PROVE  /\ <<"send", c>> \in Offer(q)' <=> <<"send", c>> \in X
                 /\ <<"recv", c>> \in Offer(q)' <=> <<"recv", c>> \in X
      <3>1. /\ <<"send", c>> \in Offer(q)' <=> q \in ToSet(send'[c]) \/ sendalt'[c] = q
            /\ <<"recv", c>> \in Offer(q)' <=> q \in ToSet(recv'[c]) \/ recvalt'[c] = q
            /\ <<"send", c>> \in Offer(q) <=> q \in ToSet(send[c]) \/ sendalt[c] = q
            /\ <<"recv", c>> \in Offer(q) <=> q \in ToSet(recv[c]) \/ recvalt[c] = q
        BY OfferIn, OfferInNext
      <3>2. CASE q = p
        BY <1>1, <1>3, <3>1, <3>2
      <3>3. CASE q # p
        BY <3>1, <3>3
      <3> QED BY <3>2, <3>3
    <2> HIDE DEF X
    <2>3. Offer(q)' = X
      BY <2>1, <2>2, SameOffers
    <2> QED BY <2>3 DEF X
  <1>5. CASE O = {}
    <2>1. \A q \in Progs : Offer(q)' = IF q \in {} THEN {} ELSE Offer(q)
      BY <1>2, <1>4, <1>5
    <2>2. \A c \in Chans : sendq'[c] = IF c \in {} THEN 0 ELSE sendq[c]
      OBVIOUS
    <2> QED BY <2>1, <2>2, Withdrawn
  <1>6. CASE O # {}
    <2>1. [q \in Progs |-> Offer(q)'] = [[q \in Progs |-> Offer(q)] EXCEPT ![p] = O]
      BY <1>4
    <2>2. ASSUME NEW o \in O
          PROVE  ~Chan!Ready(o[1], o[2]) /\ <<Chan!Other(o[1]), o[2]>> \notin O
      <3>1. PICK c \in Chans : \/ o = <<"send", c>> /\ c \in S
                               \/ o = <<"recv", c>> /\ c \in R
        BY <1>1
      <3>2. CASE o = <<"send", c>> /\ c \in S
        <4>1. \A q \in Progs : <<"recv", c>> \notin Offer(q)
          BY <3>2, NobodyOffers
        <4>2. c \notin R
          BY <3>2
        <4> QED BY <1>1, <3>2, <4>1, <4>2 DEF Chan!Ready, Chan!Other
      <3>3. CASE o = <<"recv", c>> /\ c \in R
        <4>1. ~CanRecv(c)
          BY <3>3
        <4>2. /\ \A q \in Progs : <<"send", c>> \notin Offer(q)
              /\ ~(sendq[c] > 0)
          BY <4>1, NobodyOffers DEF CanRecv
        <4>3. c \notin S
          BY <3>3
        <4> QED BY <1>1, <3>3, <4>2, <4>3 DEF Chan!Ready, Chan!Other
      <3> QED BY <3>1, <3>2, <3>3
    <2>3. Chan!Wait(p, O)
      BY <1>2, <1>6, <2>1, <2>2 DEF Chan!Wait
    <2>4. O \in SUBSET (Chan!Dirs \X Chans)
      BY <1>1 DEF Directions, Chan!Dirs
    <2> QED BY <2>3, <2>4 DEF Chan!Next
  <1> QED BY <1>5, <1>6

-----------------------------------------------------------------------------
\* An instruction that communicates with one channel.
LEMMA CommSteps ==
  ASSUME ChanInv, NEW p \in Progs, NEW c \in Chans, Send(p, c) \/ Recv(p, c) \/ CRecv(p, c)
  PROVE  Chan!Next
  <1>0. ChanInv'
    BY CommInv
  <1>1. CASE Send(p, c) /\ CanSend(c)
    BY <1>1, SendToComm DEF Send
  <1>2. CASE (Recv(p, c) \/ CRecv(p, c)) /\ CanRecv(c)
    BY <1>2, RecvFromComm DEF Recv, CRecv
  <1>3. Runs(p)
    BY DEF Send, Recv, CRecv
  <1>5. CASE Send(p, c) /\ ~CanSend(c)
    <2>1. send' = [send EXCEPT ![c] = Append(@, p)]
      BY <1>5 DEF Send
    <2>5. UNCHANGED <<recv, sendalt, recvalt, sendq>> /\ last' = None
      BY <1>5 DEF Send
    <2>2. /\ send' \in [Chans -> Seq(Progs)]
          /\ \A d \in Chans : IsInjective(send'[d])
          /\ \A d \in Chans, q \in Progs :
               q \in ToSet(send'[d]) <=> q \in ToSet(send[d]) \/ (d = c /\ q = p)
      BY <1>3, <2>1, SendJoined
    <2> DEFINE S == {c} R == {}
    <2>3. \A d \in Chans, q \in Progs :
            q \in ToSet(send'[d]) \/ sendalt'[d] = q <=>
              q \in ToSet(send[d]) \/ sendalt[d] = q \/ (q = p /\ d \in S)
      BY <2>2, <2>5
    <2>6. \A d \in Chans, q \in Progs :
            q \in ToSet(recv'[d]) \/ recvalt'[d] = q <=>
              q \in ToSet(recv[d]) \/ recvalt[d] = q \/ (q = p /\ d \in R)
      BY <2>2, <2>5
    <2>4. /\ S \in SUBSET Chans /\ R \in SUBSET Chans /\ S \cap R = {}
          /\ \A d \in S : ~CanSend(d)
          /\ \A d \in R : ~CanRecv(d)
      BY <1>5
    <2> HIDE DEF S, R
    <2> QED BY <1>0, <1>3, <2>3, <2>4, <2>5, <2>6, WaitSteps
  <1>6. CASE (Recv(p, c) \/ CRecv(p, c)) /\ ~CanRecv(c)
    <2>1. recv' = [recv EXCEPT ![c] = Append(@, p)]
      BY <1>6 DEF Recv, CRecv
    <2>5. UNCHANGED <<send, sendalt, recvalt, sendq>> /\ last' = None
      BY <1>6 DEF Recv, CRecv
    <2>2. /\ recv' \in [Chans -> Seq(Progs)]
          /\ \A d \in Chans : IsInjective(recv'[d])
          /\ \A d \in Chans, q \in Progs :
               q \in ToSet(recv'[d]) <=> q \in ToSet(recv[d]) \/ (d = c /\ q = p)
      BY <1>3, <2>1, RecvJoined
    <2> DEFINE S == {} R == {c}
    <2>3. \A d \in Chans, q \in Progs :
            q \in ToSet(send'[d]) \/ sendalt'[d] = q <=>
              q \in ToSet(send[d]) \/ sendalt[d] = q \/ (q = p /\ d \in S)
      BY <2>2, <2>5
    <2>6. \A d \in Chans, q \in Progs :
            q \in ToSet(recv'[d]) \/ recvalt'[d] = q <=>
              q \in ToSet(recv[d]) \/ recvalt[d] = q \/ (q = p /\ d \in R)
      BY <2>2, <2>5
    <2>4. /\ S \in SUBSET Chans /\ R \in SUBSET Chans /\ S \cap R = {}
          /\ \A d \in S : ~CanSend(d)
          /\ \A d \in R : ~CanRecv(d)
      BY <1>6
    <2> HIDE DEF S, R
    <2> QED BY <1>0, <1>3, <2>3, <2>4, <2>5, <2>6, WaitSteps
  <1> QED BY <1>1, <1>2, <1>5, <1>6

\* An alt.
LEMMA AltSteps ==
  ASSUME ChanInv, NEW p \in Progs, NEW t \in Tables,
         AltRefused(p, t) \/ AltWait(p, t) \/ AltComm(p, t)
  PROVE  Chan!Next
  <1>1. CASE AltRefused(p, t)
    <2>1. ChanInv' /\ UNCHANGED <<send, recv, sendalt, recvalt, sendq>> /\ last' = None
      BY <1>1, AltRefusedInv DEF AltRefused
    <2> QED BY <2>1, NobodyMoves
  <1>2. CASE AltWait(p, t)
    <2>1. ChanInv'
      BY <1>2, AltWaitInv
    <2>2. /\ Runs(p) /\ Sends(t) \cap Recvs(t) = {} /\ last' = None
          /\ UNCHANGED <<send, recv, sendq>>
          /\ \A d \in Sends(t) : sendalt[d] = None
          /\ \A d \in Recvs(t) : recvalt[d] = None
          /\ \A d \in Chans : sendalt'[d] = IF d \in Sends(t) THEN p ELSE sendalt[d]
          /\ \A d \in Chans : recvalt'[d] = IF d \in Recvs(t) THEN p ELSE recvalt[d]
      BY <1>2 DEF AltWait, Refused
    <2>3. Sends(t) \in SUBSET Chans /\ Recvs(t) \in SUBSET Chans
      BY DEF Sends, Recvs
    <2>4. \A d \in Sends(t) : ~CanSend(d)
      BY <1>2, <2>3 DEF AltWait, ReadyArms
    <2>5. \A d \in Recvs(t) : ~CanRecv(d)
      BY <1>2, <2>3 DEF AltWait, ReadyArms
    <2>6. None \notin Progs
      BY NilFacts
    <2>7. \A d \in Chans, q \in Progs :
            q \in ToSet(send'[d]) \/ sendalt'[d] = q <=>
              q \in ToSet(send[d]) \/ sendalt[d] = q \/ (q = p /\ d \in Sends(t))
      BY <2>2, <2>6
    <2>8. \A d \in Chans, q \in Progs :
            q \in ToSet(recv'[d]) \/ recvalt'[d] = q <=>
              q \in ToSet(recv[d]) \/ recvalt[d] = q \/ (q = p /\ d \in Recvs(t))
      BY <2>2, <2>6
    <2> QED BY <2>1, <2>2, <2>3, <2>4, <2>5, <2>7, <2>8, WaitSteps
  <1>3. CASE AltComm(p, t)
    <2>1. PICK a \in ReadyArms(t) : \/ a[1] = "send" /\ SendTo(p, a[2])
                                    \/ a[1] = "recv" /\ RecvFrom(p, a[2])
      BY <1>3 DEF AltComm
    <2>2. \/ a[1] = "send" /\ a[2] \in Chans /\ CanSend(a[2])
          \/ a[1] = "recv" /\ a[2] \in Chans /\ CanRecv(a[2])
      BY DEF ReadyArms, Sends, Recvs
    <2>3. Runs(p) /\ UNCHANGED <<arr, reason, freed>>
      BY <1>3 DEF AltComm
    <2> QED BY <2>1, <2>2, <2>3, SendToComm, RecvFromComm
  <1> QED BY <1>1, <1>2, <1>3

\* The kernel sends, or queues a message.
LEMMA CSendQSteps ==
  ASSUME ChanInv, NEW c \in Chans, CSendQ(c)
  PROVE  Chan!Next
  <1>1. CASE CanSend(c)
    BY <1>1, SendToComm, NilFacts DEF CSendQ
  <1>2. CASE ~CanSend(c)
    <2>1. ChanInv' /\ UNCHANGED <<send, recv, sendalt, recvalt>>
      BY <1>2, CSendQInv DEF CSendQ
    <2>2. \A r \in Progs : Offer(r)' = IF r \in {} THEN {} ELSE Offer(r)
      BY <2>1, OffersLeft
    <2>3. [r \in Progs |-> Offer(r)'] = [r \in Progs |-> Offer(r)]
      BY <2>2
    <2>4. \A q \in Progs : <<"recv", c>> \notin Offer(q)
      BY <1>2, NobodyOffers
    <2>5. ~Chan!Ready("send", c)
      BY <2>4 DEF Chan!Ready, Chan!Other
    <2>6. Chan!Enqueue(c)
      BY <1>2, <2>3, <2>5 DEF Chan!Enqueue, CSendQ, Message
    <2> QED BY <2>6 DEF Chan!Next
  <1> QED BY <1>1, <1>2

\* The process of a Prog sleeps or returns; a Prog is killed, exits or catches.
LEMMA ChanProgSteps ==
  ASSUME ChanInv, NEW p \in Progs,
         CSleep(p) \/ CReturn(p) \/ KillWaiter(p) \/ ExitProg(p) \/ Raise(p)
  PROVE  Chan!Next
  <1>0. ChanInv' /\ None \notin Progs /\ last' = None
    BY CSleepInv, CReturnInv, KillWaiterInv, ExitInv, NilFacts
       DEF CSleep, CReturn, KillWaiter, ExitProg, Raise
  <1>1. CASE CSleep(p) \/ ExitProg(p) \/ Raise(p)
    <2>1. UNCHANGED <<send, recv, sendalt, recvalt, sendq>>
      BY <1>1 DEF CSleep, ExitProg, Raise, chanVars
    <2> QED BY <1>0, <2>1, NobodyMoves
  <1>2. CASE CReturn(p)
    <2>1. /\ \A c \in Chans : ToSet(recv'[c]) = ToSet(recv[c]) \ {p}
          /\ \A c \in Chans : p \notin ToSet(send[c]) /\ sendalt[c] # p /\ recvalt[c] # p
      BY <1>2, CReturnRemoves
    <2>2. UNCHANGED <<send, sendalt, recvalt, sendq>>
      BY <1>2 DEF CReturn
    <2>3. \A c \in Chans, q \in Progs :
            /\ q \in ToSet(send'[c]) <=> q \notin {p} /\ q \in ToSet(send[c])
            /\ q \in ToSet(recv'[c]) <=> q \notin {p} /\ q \in ToSet(recv[c])
            /\ sendalt'[c] = q <=> q \notin {p} /\ sendalt[c] = q
            /\ recvalt'[c] = q <=> q \notin {p} /\ recvalt[c] = q
      BY <2>1, <2>2
    <2>4. \A q \in Progs : Offer(q)' = IF q \in {p} THEN {} ELSE Offer(q)
      BY <1>0, <2>3, OffersLeft
    <2>5. /\ \A c \in Chans : sendq'[c] = IF c \in {} THEN 0 ELSE sendq[c]
          /\ {p} \in SUBSET Progs /\ {} \in SUBSET Chans
      BY <2>2
    <2> QED BY <1>0, <2>4, <2>5, Withdrawn
  <1>3. CASE KillWaiter(p) /\ st[p] = "release"
    <2>1. UNCHANGED <<send, recv, sendalt, recvalt, sendq>>
      BY <1>3 DEF KillWaiter
    <2> QED BY <1>0, <2>1, NobodyMoves
  <1>4. CASE KillWaiter(p) /\ st[p] # "release"
    <2>1. /\ \A c \in Chans : ToSet(send'[c]) = ToSet(send[c]) \ {p}
          /\ \A c \in Chans : ToSet(recv'[c]) = ToSet(recv[c]) \ {p}
          /\ sendalt' = Without(sendalt, p) /\ recvalt' = Without(recvalt, p)
          /\ sendq' = sendq
      BY <1>4, KillRemoves
    <2>2. \A c \in Chans :
            /\ sendalt'[c] = IF sendalt[c] = p THEN None ELSE sendalt[c]
            /\ recvalt'[c] = IF recvalt[c] = p THEN None ELSE recvalt[c]
      BY <2>1 DEF Without
    <2>3. \A c \in Chans, q \in Progs :
            /\ q \in ToSet(send'[c]) <=> q \notin {p} /\ q \in ToSet(send[c])
            /\ q \in ToSet(recv'[c]) <=> q \notin {p} /\ q \in ToSet(recv[c])
            /\ sendalt'[c] = q <=> q \notin {p} /\ sendalt[c] = q
            /\ recvalt'[c] = q <=> q \notin {p} /\ recvalt[c] = q
      BY <1>0, <2>1, <2>2
    <2>4. \A q \in Progs : Offer(q)' = IF q \in {p} THEN {} ELSE Offer(q)
      BY <1>0, <2>3, OffersLeft
    <2>5. /\ \A c \in Chans : sendq'[c] = IF c \in {} THEN 0 ELSE sendq[c]
          /\ {p} \in SUBSET Progs /\ {} \in SUBSET Chans
      BY <2>1
    <2> QED BY <1>0, <2>4, <2>5, Withdrawn
  <1> QED BY <1>1, <1>2, <1>3, <1>4

\* A channel is freed: all who wait for it leave, those in an alt leave its other
\* channels too.
LEMMA FreeSteps ==
  ASSUME ChanInv, NEW c \in Chans, FreeChan(c)
  PROVE  Chan!Next
  <1>0. ChanInv' /\ ChanTypes /\ CRecvInv /\ ListInv /\ AltInv /\ None \notin Progs
    BY FreeChanInv, NilFacts DEF ChanInv
  <1>1. /\ \A d \in Chans : send'[d] = IF d = c THEN <<>> ELSE send[d]
        /\ \A d \in Chans : recv'[d] = IF d = c THEN <<>> ELSE recv[d]
        /\ \A d \in Chans : sendq'[d] = IF d = c THEN 0 ELSE sendq[d]
        /\ \A d \in Chans : sendalt'[d] = IF sendalt[d] \in AltsOf(c) THEN None ELSE sendalt[d]
        /\ \A d \in Chans : recvalt'[d] = IF recvalt[d] \in AltsOf(c) THEN None ELSE recvalt[d]
        /\ \A p \in AltsOf(c) : st[p] = "alt"
        /\ last' = None
    BY FreeFacts
  <1> DEFINE P == AltsOf(c) \cup Comms(c)
  <1>2. P \in SUBSET Progs
    BY DEF AltsOf, Comms
  <1>3. \A p \in Comms(c) : st[p] # "alt"
    BY <1>0 DEF Comms, ListInv, CRecvInv
  <1>4. ASSUME NEW d \in Chans, NEW p \in Progs
        PROVE  /\ p \in ToSet(send'[d]) <=> p \notin P /\ p \in ToSet(send[d])
               /\ p \in ToSet(recv'[d]) <=> p \notin P /\ p \in ToSet(recv[d])
    <2>1. /\ ToSet(send'[d]) = IF d = c THEN {} ELSE ToSet(send[d])
          /\ ToSet(recv'[d]) = IF d = c THEN {} ELSE ToSet(recv[d])
      BY <1>1, EmptyQueue
    <2>2. p \in ToSet(send[d]) => st[p] = "send" /\ p \notin ToSet(recv[c])
      BY <1>0 DEF ListInv, CRecvInv
    <2>3. p \in ToSet(recv[d]) => st[p] # "alt" /\ p \notin ToSet(send[c])
      BY <1>0 DEF ListInv, CRecvInv
    <2>4. /\ p \in ToSet(send[d]) /\ p \in P => d = c
          /\ p \in ToSet(recv[d]) /\ p \in P => d = c
      <3>1. /\ p \in ToSet(send[d]) /\ p \in P => p \in ToSet(send[c])
            /\ p \in ToSet(recv[d]) /\ p \in P => p \in ToSet(recv[c])
        BY <1>1, <2>2, <2>3 DEF Comms
      <3> QED BY <1>0, <3>1 DEF ListInv
    <2>5. d = c /\ (p \in ToSet(send[d]) \/ p \in ToSet(recv[d])) => p \in P
      BY DEF Comms
    <2> QED BY <2>1, <2>4, <2>5
  <1>5. ASSUME NEW d \in Chans, NEW p \in Progs
        PROVE  /\ sendalt'[d] = p <=> p \notin P /\ sendalt[d] = p
               /\ recvalt'[d] = p <=> p \notin P /\ recvalt[d] = p
    <2>1. sendalt[d] = p \/ recvalt[d] = p => st[p] = "alt"
      BY <1>0 DEF AltInv
    <2>2. st[p] = "alt" => (p \in P <=> p \in AltsOf(c))
      BY <1>3
    <2> QED BY <1>0, <1>1, <2>1, <2>2
  <1>6. /\ \A d \in Chans : sendq'[d] = IF d \in {c} THEN 0 ELSE sendq[d]
        /\ {c} \in SUBSET Chans
    BY <1>1
  <1> HIDE DEF P
  <1>7. \A p \in Progs : Offer(p)' = IF p \in P THEN {} ELSE Offer(p)
    BY <1>0, <1>4, <1>5, OffersLeft
  <1> QED BY <1>0, <1>1, <1>2, <1>6, <1>7, Withdrawn

-----------------------------------------------------------------------------
\* Every step is one of Csp, or none.
LEMMA ChanSteps ==
  ~Mutable /\ ChanInv /\ ChanInv' /\ [ChanNext]_disChanVars => [Chan!Next]_(Chan!vars)
  <1> SUFFICES ASSUME ~Mutable, ChanInv, ChanInv', [ChanNext]_disChanVars
               PROVE  Chan!Next \/ UNCHANGED Chan!vars
    OBVIOUS
  <1>1. ASSUME NEW p \in Progs, NEW c \in Chans, Send(p, c) \/ Recv(p, c) \/ CRecv(p, c)
        PROVE  Chan!Next
    BY <1>1, CommSteps
  <1>2. ASSUME NEW p \in Progs, NEW t \in Tables,
               AltRefused(p, t) \/ AltWait(p, t) \/ AltComm(p, t)
        PROVE  Chan!Next
    BY <1>2, AltSteps
  <1>3. ASSUME NEW p \in Progs, \/ CSleep(p) \/ CReturn(p) \/ KillWaiter(p)
                                \/ ExitProg(p) \/ Raise(p)
        PROVE  Chan!Next
    BY <1>3, ChanProgSteps
  <1>4. ASSUME NEW c \in Chans, CSendQ(c) \/ DropChan(c)
        PROVE  Chan!Next
    BY <1>4, CSendQSteps, FreeSteps DEF DropChan
  <1>5. ASSUME NEW a \in Arrays, NEW c \in Chans, NEW i \in DOMAIN arr[a], Assign(a, i, c)
        PROVE  Chan!Next
    BY <1>5, NobodyMoves DEF Assign
  <1>6. CASE UNCHANGED disChanVars
    <2>1. UNCHANGED <<send, recv, sendalt, recvalt, sendq, last>>
      BY <1>6 DEF disChanVars
    <2>2. \A p \in Progs : Offer(p)' = IF p \in {} THEN {} ELSE Offer(p)
      BY <2>1, OffersLeft
    <2>3. [p \in Progs |-> Offer(p)'] = [p \in Progs |-> Offer(p)]
      BY <2>2
    <2> QED BY <2>1, <2>3 DEF Chan!vars
  <1> QED BY <1>1, <1>2, <1>3, <1>4, <1>5, <1>6 DEF ChanNext

\* Channels, alts and receives of the kernel are rendezvous as Csp has them: a
\* partner is taken once, and leaves all the channels that it waits for.
THEOREM RendezvousHolds == ASSUME ~Mutable PROVE ChanSpec => Rendezvous
  <1>1. ChanInit => Chan!Init
    <2> SUFFICES ASSUME ChanInit PROVE Chan!Init
      OBVIOUS
    <2>1. \A p \in Progs : Offer(p) = {}
      BY InitChanInv, RunsOffers DEF ChanInit, Runs
    <2> QED BY <2>1 DEF ChanInit, Chan!Init
  <1>2. ~Mutable
    OBVIOUS
  <1> QED BY <1>1, <1>2, ChanSteps, ChanInvHolds, PTL
     DEF ChanSpec, Rendezvous, Chan!Spec


-----------------------------------------------------------------------------
USE ProcsAssumption DEF Procs, SelfWait, HandOff, Waking, WaitPC, IdlePC

\* disinit() starts with one owner and nobody waiting.
LEMMA InitInv == TokenInit => TokenInv
  <1> SUFFICES ASSUME TokenInit PROVE TokenInv
    OBVIOUS
  <1> USE DEF TokenInit
  <1>1. TokenTypeOK
    <2>1. pc \in [Procs -> PC] /\ tgt \in [Procs -> Procs]
      BY DEF PC
    <2>2. <<>> \in Seq(Procs) /\ <<>> \in Seq(Vms)
      OBVIOUS
    <2> QED BY <2>1, <2>2 DEF TokenTypeOK
  <1>2. OneOwner
    BY DEF OneOwner, Owners
  <1>3. ToSet(<<>>) = {} /\ IsInjective(<<>>)
    BY EmptyQueue
  <1>4. SleeperKnown /\ WakeupComes /\ VmComes
    BY DEF SleeperKnown, WakeupComes, VmComes, Coming
  <1>5. OnQueue /\ Targets
    BY <1>3 DEF OnQueue, Targets
  <1> QED BY <1>1, <1>2, <1>4, <1>5 DEF TokenInv

\* erendezvous() passes the machine on, or wakes the owner.
LEMMA MeetInv ==
  ASSUME TokenInv, NEW w \in Procs, NEW p \in Procs, Meet(w, p)
  PROVE  TokenInv'
  <1>0. /\ TokenTypeOK /\ OneOwner /\ SleeperKnown /\ WakeupComes /\ VmComes
        /\ OnQueue /\ Targets
    BY DEF TokenInv
  <1>1. /\ w # p /\ tgt[w] = p
        /\ \A x \in Procs : pc'[x] = IF x = p THEN "run"
                                     ELSE IF x = w THEN After(pc[w]) ELSE pc[x]
        /\ \A x \in Procs : tgt'[x] = IF x = w THEN w ELSE tgt[x]
        /\ UNCHANGED <<idle, creating, vmq, idlevmq, irend>>
    BY <1>0 DEF Meet, After, TokenTypeOK
  <1>2. TokenTypeOK'
    BY <1>0, <1>1 DEF Meet, TokenTypeOK, PC, After
  <1>3. CASE pc[w] = "wakerv"
    <2>1. /\ After(pc[w]) = "acqw"
          /\ pc[p] = "sleepw" /\ irend = None
      BY <1>0, <1>1, <1>3 DEF After, Targets
    <2>2. \A x \in Procs : pc[x] = "sleepw" => x = p
      BY <1>0, <2>1 DEF OneOwner, Owners
    <2>3. Owners' = Owners
      BY <1>1, <1>3, <2>1 DEF Owners
    <2>4. OneOwner'
      BY <1>0, <1>1, <2>3 DEF OneOwner
    <2>5. SleeperKnown'
      BY <1>1, <2>1, <2>2 DEF SleeperKnown
    <2>6. Coming' = Coming
      BY <1>1, <1>3, <2>1 DEF Coming
    <2>7. WakeupComes' /\ VmComes'
      BY <1>0, <1>1, <2>1, <2>6 DEF WakeupComes, VmComes
    <2>8. OnQueue'
      <3>1. \A x \in Procs : /\ pc[x] \in WaitPC \cup IdlePC <=> pc'[x] \in WaitPC \cup IdlePC
                             /\ pc[x] \in WaitPC <=> pc'[x] \in WaitPC
                             /\ pc[x] = "yieldto" <=> pc'[x] = "yieldto"
                             /\ pc[x] \in HandOff => pc'[x] \in HandOff /\ tgt'[x] = tgt[x]
        BY <1>1, <1>3, <2>1
      <3>2. ToSet(vmq) \subseteq Procs /\ ToSet(idlevmq) \subseteq Procs
        BY <1>0, QueueSubset DEF TokenTypeOK
      <3>3. \A x \in ToSet(idlevmq) : pc'[x] \in IdlePC \cup {"yieldto"}
        BY <1>0, <1>1, <1>3, <2>1, <3>2 DEF OnQueue
      <3> QED BY <1>0, <1>1, <3>1, <3>2, <3>3 DEF OnQueue
    <2>9. Targets'
      BY <1>0, <1>1, <1>2, <1>3, <2>1, <2>2 DEF TokenTypeOK, Targets
    <2> QED BY <1>2, <2>4, <2>5, <2>7, <2>8, <2>9 DEF TokenInv
  <1>4. CASE pc[w] \in HandOff
    <2>1. /\ After(pc[w]) = IF pc[w] = "relto" THEN "out" ELSE "yieldw"
          /\ pc[p] \in {"acqw"} \cup IdlePC
          /\ p \notin ToSet(vmq) \cup ToSet(idlevmq)
      BY <1>0, <1>1, <1>4 DEF Meet, After, Targets
    <2>2. \A x \in Procs : x \in Owners => x = w
      BY <1>0, <1>4 DEF OneOwner, Owners
    <2>3. Owners' = {p}
      BY <1>1, <1>4, <2>1, <2>2 DEF Owners
    <2>4. OneOwner'
      BY <1>0, <1>1, <1>4, <2>3 DEF OneOwner, Owners
    <2>5. irend = None /\ \A x \in Procs : pc'[x] # "sleepw" /\ pc'[x] # "wakerv"
      <3>1. \A x \in Procs : pc[x] # "sleepw"
        BY <1>4, <2>2 DEF Owners
      <3>2. \A x \in Procs : pc[x] # "wakerv"
        BY <1>0, <3>1 DEF Targets, TokenTypeOK
      <3> QED BY <1>0, <1>1, <2>1, <3>1, <3>2 DEF SleeperKnown, TokenTypeOK
    <2>6. Coming' = Coming
      BY <1>1, <1>4, <2>1 DEF Coming
    <2>7. SleeperKnown' /\ WakeupComes' /\ VmComes'
      BY <1>0, <1>1, <2>5, <2>6 DEF SleeperKnown, WakeupComes, VmComes
    <2>8. OnQueue'
      <3>1. ToSet(vmq) \subseteq Procs /\ ToSet(idlevmq) \subseteq Procs
        BY <1>0, QueueSubset DEF TokenTypeOK
      <3>2. \A x \in Procs : pc[x] \in HandOff => x = w
        BY <2>2 DEF Owners
      <3>3. pc[w] = "yieldto" => w \in ToSet(idlevmq)
        BY <1>0 DEF OnQueue
      <3>4. \A x \in ToSet(vmq) : pc'[x] \in WaitPC
        BY <1>0, <1>1, <1>4, <2>1, <3>1 DEF OnQueue
      <3>5. \A x \in ToSet(idlevmq) : pc'[x] \in IdlePC \cup {"yieldto"}
        BY <1>0, <1>1, <1>4, <2>1, <3>1 DEF OnQueue
      <3>6. ASSUME NEW x \in Procs, pc'[x] \in WaitPC \cup IdlePC
            PROVE  x \in ToSet(vmq) \cup ToSet(idlevmq)
        BY <1>0, <1>1, <1>4, <2>1, <3>2, <3>3, <3>6 DEF OnQueue
      <3>7. \A x \in Procs : pc'[x] # "yieldto"
        BY <1>1, <2>1, <3>2, <1>4
      <3> QED BY <1>0, <1>1, <3>4, <3>5, <3>6, <3>7 DEF OnQueue
    <2>9. Targets'
      <3>1. \A x \in Procs : pc'[x] \notin HandOff
        BY <1>1, <1>4, <2>1, <2>2 DEF Owners
      <3> QED BY <2>5, <3>1 DEF Targets
    <2> QED BY <1>2, <2>4, <2>7, <2>8, <2>9 DEF TokenInv
  <1> QED BY <1>3, <1>4 DEF Meet

\* acquire() takes an idle machine or joins the queue.
LEMMA AcquireInv ==
  ASSUME TokenInv, NEW p \in Procs, Acquire(p)
  PROVE  TokenInv'
  <1>0. /\ TokenTypeOK /\ OneOwner /\ SleeperKnown /\ WakeupComes /\ VmComes
        /\ OnQueue /\ Targets
    BY DEF TokenInv
  <1>1. /\ pc[p] = "out"
        /\ UNCHANGED <<creating, idlevmq, irend, tgt>>
    BY DEF Acquire
  <1>2. ToSet(vmq) \subseteq Procs /\ ToSet(idlevmq) \subseteq Procs
    BY <1>0, QueueSubset DEF TokenTypeOK
  <1>3. p \notin ToSet(vmq) \cup ToSet(idlevmq)
    BY <1>0, <1>1 DEF OnQueue
  <1>4. CASE idle
    <2>1. /\ idle' = FALSE /\ vmq' = vmq
          /\ \A x \in Procs : pc'[x] = IF x = p THEN "run" ELSE pc[x]
      BY <1>0, <1>4 DEF Acquire, Goto, TokenTypeOK
    <2>2. TokenTypeOK'
      BY <1>0, <1>4 DEF Acquire, Goto, TokenTypeOK, PC
    <2>3. Owners = {}
      BY <1>0, <1>4 DEF OneOwner
    <2>4. Owners' = {p}
      BY <2>1, <2>3 DEF Owners
    <2>5. OneOwner'
      BY <2>1, <2>4 DEF OneOwner
    <2>6. Coming' = Coming
      BY <1>1, <2>1 DEF Coming
    <2>7. VmComes'
      BY <1>0, <1>1, <2>1, <2>6 DEF VmComes
    <2>8. SleeperKnown' /\ WakeupComes'
      BY <1>0, <1>1, <2>1, <2>3
         DEF SleeperKnown, WakeupComes, Owners, TokenTypeOK
    <2>9. OnQueue'
      BY <1>0, <1>1, <1>2, <1>3, <2>1 DEF OnQueue
    <2>10. Targets'
      <3>1. \A x \in Procs : pc[x] \notin HandOff /\ pc[x] # "sleepw"
        BY <2>3 DEF Owners
      <3>2. \A x \in Procs : pc[x] # "wakerv"
        BY <1>0, <3>1 DEF Targets, TokenTypeOK
      <3> QED BY <2>1, <3>1, <3>2 DEF Targets
    <2> QED BY <2>2, <2>5, <2>7, <2>8, <2>9, <2>10 DEF TokenInv
  <1>5. CASE ~idle
    <2>1. /\ idle' = idle /\ vmq' = Append(vmq, p)
          /\ \A x \in Procs :
               pc'[x] = IF x = p THEN IF vmq = <<>> THEN "wake" ELSE "acqw" ELSE pc[x]
      BY <1>0, <1>5 DEF Acquire, Goto, TokenTypeOK
    <2>2. /\ vmq' \in Seq(Procs)
          /\ ToSet(vmq') = ToSet(vmq) \cup {p}
          /\ IsInjective(vmq')
          /\ vmq # <<>> => Head(vmq') = Head(vmq)
          /\ vmq = <<>> => Head(vmq') = p
      BY <1>0, <1>3, <2>1, AppendQueue DEF TokenTypeOK, OnQueue
    <2>3. TokenTypeOK'
      BY <1>0, <1>5, <2>2 DEF Acquire, Goto, TokenTypeOK, PC
    <2>4. Owners' = Owners /\ Coming' = Coming
      BY <1>1, <2>1 DEF Owners, Coming
    <2>5. OneOwner' /\ VmComes'
      BY <1>0, <1>1, <2>1, <2>4 DEF OneOwner, VmComes
    <2>6. SleeperKnown'
      BY <1>0, <1>1, <2>1 DEF SleeperKnown, TokenTypeOK
    <2>7. WakeupComes'
      <3>1. vmq # <<>> => Head(vmq) \in ToSet(vmq)
        BY <1>0, TailQueue DEF TokenTypeOK
      <3> QED BY <1>0, <1>1, <1>2, <1>3, <2>1, <2>2, <3>1 DEF WakeupComes
    <2>8. OnQueue'
      BY <1>0, <1>1, <1>2, <1>3, <2>1, <2>2 DEF OnQueue
    <2>9. Targets'
      <3>1. \A x \in Procs : /\ pc'[x] \in HandOff => pc[x] = pc'[x]
                             /\ pc'[x] = "wakerv" => pc[x] = pc'[x]
        BY <2>1
      <3>2. \A x \in Procs : tgt[x] \in Procs
        BY <1>0 DEF TokenTypeOK
      <3> QED BY <1>0, <1>1, <2>1, <2>2, <3>1, <3>2 DEF Targets
    <2> QED BY <2>3, <2>5, <2>6, <2>7, <2>8, <2>9 DEF TokenInv
  <1> QED BY <1>4, <1>5

\* Wakeup() in acquire() finds the sleeping owner or none.
LEMMA WakeOwnerInv ==
  ASSUME TokenInv, NEW p \in Procs, WakeOwner(p)
  PROVE  TokenInv'
  <1>0. /\ TokenTypeOK /\ OneOwner /\ SleeperKnown /\ WakeupComes /\ VmComes
        /\ OnQueue /\ Targets
    BY DEF TokenInv
  <1>1. /\ pc[p] = "wake"
        /\ UNCHANGED <<idle, creating, vmq, idlevmq>>
        /\ \A x \in Procs : pc[x] # "wakerv"
        /\ irend' = None
    BY <1>0 DEF WakeOwner, IrendUnlocked, TokenTypeOK
  <1>2. TokenTypeOK'
    <2>1. tgt' \in [Procs -> Procs]
      BY <1>0 DEF WakeOwner, TokenTypeOK
    <2>2. pc' \in [Procs -> PC]
      BY <1>0 DEF WakeOwner, Goto, TokenTypeOK, PC
    <2> QED BY <1>0, <1>1, <2>1, <2>2 DEF TokenTypeOK
  <1>3. /\ \A x \in Procs : pc'[x] = IF x # p THEN pc[x]
                                     ELSE IF irend = None THEN "acqw" ELSE "wakerv"
        /\ \A x \in Procs \ {p} : tgt'[x] = tgt[x]
        /\ irend # None => tgt'[p] = irend
    BY <1>0 DEF WakeOwner, Goto, TokenTypeOK
  <1>4. Owners' = Owners /\ Coming' = Coming
    BY <1>1, <1>3 DEF Owners, Coming
  <1>5. OneOwner' /\ VmComes' /\ WakeupComes'
    BY <1>0, <1>1, <1>4 DEF OneOwner, VmComes, WakeupComes
  <1>6. SleeperKnown'
    <2> SUFFICES ASSUME NEW x \in Procs, pc'[x] = "sleepw"
                 PROVE  \E w \in Procs : pc'[w] = "wakerv" /\ tgt'[w] = x
      BY <1>1 DEF SleeperKnown
    <2>1. irend = x
      BY <1>0, <1>1, <1>3 DEF SleeperKnown
    <2> QED BY <1>3, <2>1
  <1>7. OnQueue'
    <2>1. ToSet(vmq) \subseteq Procs /\ ToSet(idlevmq) \subseteq Procs
      BY <1>0, QueueSubset DEF TokenTypeOK
    <2> QED BY <1>0, <1>1, <1>3, <2>1 DEF OnQueue
  <1>8. Targets'
    <2>1. irend # None => irend \in Procs /\ irend # p /\ pc[irend] = "sleepw"
      BY <1>0, <1>1 DEF SleeperKnown, TokenTypeOK
    <2> QED BY <1>0, <1>1, <1>3, <2>1 DEF Targets, TokenTypeOK
  <1> QED BY <1>2, <1>5, <1>6, <1>7, <1>8 DEF TokenInv

\* release() hands over to a waiting process, or leaves the machine idle and
\* has a vmachine made.
LEMMA ReleaseInv ==
  ASSUME TokenInv, NEW p \in Procs, Release(p)
  PROVE  TokenInv'
  <1>0. /\ TokenTypeOK /\ OneOwner /\ SleeperKnown /\ WakeupComes /\ VmComes
        /\ OnQueue /\ Targets
    BY DEF TokenInv
  <1>1. pc[p] = "run" /\ irend' = irend
    BY DEF Release, HandOver, LeaveIdle
  <1>2. \A x \in Procs : x \in Owners <=> x = p
    BY <1>0, <1>1 DEF OneOwner, Owners
  <1>3. \A x \in Procs : pc[x] \notin HandOff /\ pc[x] # "sleepw" /\ pc[x] # "wakerv"
    <2>1. \A x \in Procs : pc[x] \notin HandOff /\ pc[x] # "sleepw"
      BY <1>1, <1>2 DEF Owners
    <2> QED BY <1>0, <2>1 DEF Targets, TokenTypeOK
  <1>4. irend = None
    BY <1>0, <1>3 DEF SleeperKnown, TokenTypeOK
  <1>5. ToSet(vmq) \subseteq Procs /\ ToSet(idlevmq) \subseteq Procs
    BY <1>0, QueueSubset DEF TokenTypeOK
  <1>6. CASE vmq = <<>> /\ idlevmq = <<>>
    <2>1. /\ idle' = TRUE /\ creating' = TRUE
          /\ UNCHANGED <<vmq, idlevmq, tgt>>
          /\ \A x \in Procs :
               pc'[x] = IF x = p THEN IF creating THEN "out" ELSE "spawn" ELSE pc[x]
      BY <1>0, <1>6 DEF Release, HandOver, LeaveIdle, Goto, TokenTypeOK
    <2>2. TokenTypeOK'
      BY <1>0, <1>6 DEF Release, HandOver, LeaveIdle, Goto, TokenTypeOK, PC
    <2>3. OneOwner'
      <3>1. Owners' = {}
        BY <1>2, <2>1 DEF Owners
      <3> QED BY <2>1, <3>1 DEF OneOwner
    <2>4. VmComes'
      <3>1. creating => Coming' = Coming
        BY <1>1, <2>1 DEF Coming
      <3>2. ~creating => Coming' = {p}
        BY <1>0, <1>1, <2>1 DEF Coming, VmComes
      <3> QED BY <1>0, <2>1, <3>1, <3>2 DEF VmComes, TokenTypeOK
    <2>5. SleeperKnown' /\ WakeupComes'
      BY <1>1, <1>3, <1>4, <2>1 DEF SleeperKnown, WakeupComes
    <2>6. OnQueue'
      BY <1>0, <1>1, <1>3, <1>5, <2>1 DEF OnQueue
    <2>7. Targets'
      BY <1>3, <2>1 DEF Targets
    <2> QED BY <2>2, <2>3, <2>4, <2>5, <2>6, <2>7 DEF TokenInv
  <1>7. ASSUME NEW q \in Procs, vmq # <<>> \/ idlevmq # <<>>,
               q = IF vmq # <<>> THEN Head(vmq) ELSE Head(idlevmq)
        PROVE  TokenInv'
    <2>1. /\ UNCHANGED <<idle, creating>>
          /\ \A x \in Procs : pc'[x] = IF x = p THEN "relto" ELSE pc[x]
          /\ \A x \in Procs : tgt'[x] = IF x = p THEN q ELSE tgt[x]
      BY <1>0, <1>7 DEF Release, HandOver, LeaveIdle, Goto, TokenTypeOK
    <2>2. /\ vmq' \in Seq(Procs) /\ idlevmq' \in Seq(Vms)
          /\ IsInjective(vmq') /\ IsInjective(idlevmq')
          /\ q \in ToSet(vmq) \cup ToSet(idlevmq)
          /\ q \notin ToSet(vmq') \cup ToSet(idlevmq')
          /\ ToSet(vmq') \subseteq ToSet(vmq)
          /\ ToSet(idlevmq') \subseteq ToSet(idlevmq)
          /\ ToSet(vmq) \cup ToSet(idlevmq)
               = {q} \cup ToSet(vmq') \cup ToSet(idlevmq')
      <3>1. ToSet(vmq) \cap ToSet(idlevmq) = {}
        BY <1>0 DEF OnQueue
      <3>2. CASE vmq # <<>>
        <4>1. vmq' = Tail(vmq) /\ idlevmq' = idlevmq /\ q = Head(vmq)
          BY <1>7, <3>2 DEF Release, HandOver, LeaveIdle
        <4> QED BY <1>0, <3>1, <3>2, <4>1, TailQueue DEF OnQueue, TokenTypeOK
      <3>3. CASE vmq = <<>>
        <4>1. vmq' = vmq /\ idlevmq' = Tail(idlevmq) /\ q = Head(idlevmq)
          BY <1>7, <3>3 DEF Release, HandOver, LeaveIdle
        <4> QED BY <1>0, <1>7, <3>1, <3>3, <4>1, TailQueue
           DEF OnQueue, TokenTypeOK
      <3> QED BY <3>2, <3>3
    <2>3. pc' \in [Procs -> PC] /\ tgt' \in [Procs -> Procs]
      <3>1. pc' = [pc EXCEPT ![p] = "relto"] /\ tgt' = [tgt EXCEPT ![p] = q]
        BY <1>7 DEF Release, HandOver, LeaveIdle, Goto
      <3> QED BY <1>0, <3>1 DEF TokenTypeOK, PC
    <2>4. TokenTypeOK'
      BY <1>0, <1>1, <2>1, <2>2, <2>3 DEF TokenTypeOK
    <2>5. Owners' = Owners /\ Coming' = Coming
      BY <1>1, <2>1 DEF Owners, Coming
    <2>6. OneOwner' /\ VmComes'
      BY <1>0, <2>1, <2>5 DEF OneOwner, VmComes
    <2>7. SleeperKnown' /\ WakeupComes'
      BY <1>1, <1>3, <1>4, <2>1 DEF SleeperKnown, WakeupComes
    <2>8. OnQueue'
      <3>1. p \notin ToSet(vmq) \cup ToSet(idlevmq)
        BY <1>0, <1>1 DEF OnQueue
      <3>2. \A x \in ToSet(vmq') : pc'[x] \in WaitPC
        BY <1>0, <1>5, <2>1, <2>2, <3>1 DEF OnQueue
      <3>3. \A x \in ToSet(idlevmq') : pc'[x] \in IdlePC \cup {"yieldto"}
        BY <1>0, <1>5, <2>1, <2>2, <3>1 DEF OnQueue
      <3>4. \A x \in Procs : pc'[x] # "yieldto"
        BY <1>3, <2>1
      <3>5. ASSUME NEW x \in Procs, pc'[x] \in WaitPC \cup IdlePC,
                   x \notin ToSet(vmq') \cup ToSet(idlevmq')
            PROVE  pc'[p] \in HandOff /\ tgt'[p] = x
        <4>1. x # p /\ pc[x] \in WaitPC \cup IdlePC
          BY <2>1, <3>5
        <4>2. x \in ToSet(vmq) \cup ToSet(idlevmq)
          BY <1>0, <1>3, <4>1 DEF OnQueue
        <4> QED BY <2>1, <2>2, <3>5, <4>2
      <3> QED BY <2>2, <3>2, <3>3, <3>4, <3>5 DEF OnQueue
    <2>9. Targets'
      <3>1. pc[q] \in WaitPC \cup IdlePC
        BY <1>0, <1>3, <2>2 DEF OnQueue
      <3> QED BY <1>1, <1>3, <1>4, <2>1, <2>2, <3>1 DEF Targets
    <2> QED BY <2>4, <2>6, <2>7, <2>8, <2>9 DEF TokenInv
  <1>8. vmq # <<>> \/ idlevmq # <<>> =>
          (IF vmq # <<>> THEN Head(vmq) ELSE Head(idlevmq)) \in Procs
    BY <1>0, TailQueue DEF TokenTypeOK
  <1> QED BY <1>6, <1>7, <1>8

\* kproc("dis", vmachine) makes the vmachine that isched.creating announced.
LEMMA SpawnVmInv ==
  ASSUME TokenInv, NEW p \in Procs, NEW v \in Vms, SpawnVm(p, v)
  PROVE  TokenInv'
  <1>0. /\ TokenTypeOK /\ OneOwner /\ SleeperKnown /\ WakeupComes /\ VmComes
        /\ OnQueue /\ Targets
    BY DEF TokenInv
  <1>1. /\ pc[p] = "spawn" /\ pc[v] = "unborn"
        /\ UNCHANGED <<idle, creating, vmq, idlevmq, irend, tgt>>
        /\ \A x \in Procs : pc'[x] = IF x = v THEN "startup"
                                     ELSE IF x = p THEN "out" ELSE pc[x]
    BY <1>0 DEF SpawnVm, TokenTypeOK
  <1>2. TokenTypeOK'
    BY <1>0 DEF SpawnVm, TokenTypeOK, PC
  <1>3. Owners' = Owners
    BY <1>1 DEF Owners
  <1>4. OneOwner'
    BY <1>0, <1>1, <1>3 DEF OneOwner
  <1>5. VmComes'
    <2>1. \A x \in Procs : x \in Coming <=> x = p
      BY <1>0, <1>1 DEF Coming, VmComes
    <2>2. Coming' = {v}
      BY <1>1, <2>1 DEF Coming
    <2> QED BY <1>0, <1>1, <2>1, <2>2 DEF VmComes
  <1>6. SleeperKnown'
    <2>1. irend # None => irend \in Procs
      BY <1>0 DEF TokenTypeOK
    <2> QED BY <1>0, <1>1, <2>1 DEF SleeperKnown
  <1>7. ToSet(vmq) \subseteq Procs /\ ToSet(idlevmq) \subseteq Procs
    BY <1>0, QueueSubset DEF TokenTypeOK
  <1>8. WakeupComes'
    <2>1. vmq # <<>> => Head(vmq) \in Procs
      BY <1>0, TailQueue DEF TokenTypeOK
    <2> QED BY <1>0, <1>1, <2>1 DEF WakeupComes
  <1>9. OnQueue'
    BY <1>0, <1>1, <1>7 DEF OnQueue
  <1>10. Targets'
    <2>1. \A x \in Procs : tgt[x] \in Procs
      BY <1>0 DEF TokenTypeOK
    <2> QED BY <1>0, <1>1, <2>1 DEF Targets
  <1> QED BY <1>2, <1>4, <1>5, <1>6, <1>8, <1>9, <1>10 DEF TokenInv

\* startup() takes an idle machine or pushes the new vmachine on idlevmq.
LEMMA StartupInv ==
  ASSUME TokenInv, NEW v \in Procs, Startup(v)
  PROVE  TokenInv'
  <1>0. /\ TokenTypeOK /\ OneOwner /\ SleeperKnown /\ WakeupComes /\ VmComes
        /\ OnQueue /\ Targets
    BY DEF TokenInv
  <1>1. /\ v \in Vms /\ pc[v] = "startup" /\ creating' = FALSE /\ idle' = FALSE
        /\ UNCHANGED <<vmq, irend, tgt>>
        /\ \A x \in Procs : pc'[x] = IF x # v THEN pc[x]
                                     ELSE IF idle THEN "run" ELSE "stwait"
        /\ idlevmq' = IF idle THEN idlevmq ELSE <<v>> \o idlevmq
    BY <1>0 DEF Startup, Goto, TokenTypeOK
  <1>2. ToSet(vmq) \subseteq Procs /\ ToSet(idlevmq) \subseteq Procs
    BY <1>0, QueueSubset DEF TokenTypeOK
  <1>3. v \notin ToSet(vmq) \cup ToSet(idlevmq)
    BY <1>0, <1>1 DEF OnQueue
  <1>4. /\ idlevmq' \in Seq(Vms)
        /\ IsInjective(idlevmq')
        /\ ToSet(idlevmq') = IF idle THEN ToSet(idlevmq) ELSE ToSet(idlevmq) \cup {v}
    <2>1. CASE idle
      BY <1>0, <1>1, <2>1 DEF OnQueue, TokenTypeOK
    <2>2. CASE ~idle
      <3>1. idlevmq' = <<v>> \o idlevmq
        BY <1>1, <2>2
      <3> QED BY <1>0, <1>1, <1>3, <2>2, <3>1, PushQueue
         DEF OnQueue, TokenTypeOK
    <2> QED BY <2>1, <2>2
  <1>5. TokenTypeOK'
    <2>1. pc' \in [Procs -> PC]
      BY <1>0 DEF Startup, Goto, TokenTypeOK, PC
    <2> QED BY <1>0, <1>1, <1>4, <2>1 DEF TokenTypeOK
  <1>6. VmComes'
    <2>1. Coming' = {}
      BY <1>0, <1>1 DEF Coming, VmComes
    <2> QED BY <1>1, <2>1 DEF VmComes
  <1>7. OneOwner'
    <2>1. idle => Owners' = {v}
      BY <1>0, <1>1 DEF OneOwner, Owners
    <2>2. ~idle => Owners' = Owners
      BY <1>1 DEF Owners
    <2> QED BY <1>0, <1>1, <2>1, <2>2 DEF OneOwner, TokenTypeOK
  <1>8. SleeperKnown'
    <2>1. irend # None => irend \in Procs
      BY <1>0 DEF TokenTypeOK
    <2> QED BY <1>0, <1>1, <2>1 DEF SleeperKnown
  <1>9. WakeupComes'
    <2>1. vmq # <<>> => Head(vmq) \in Procs
      BY <1>0, TailQueue DEF TokenTypeOK
    <2> QED BY <1>0, <1>1, <2>1 DEF WakeupComes
  <1>10. OnQueue'
    BY <1>0, <1>1, <1>2, <1>3, <1>4 DEF OnQueue
  <1>11. Targets'
    <2>1. \A x \in Procs : tgt[x] \in Procs
      BY <1>0 DEF TokenTypeOK
    <2> QED BY <1>0, <1>1, <1>4, <2>1 DEF Targets
  <1> QED BY <1>5, <1>6, <1>7, <1>8, <1>9, <1>10, <1>11 DEF TokenInv

\* iyield() hands over to the head of vmq and pushes the vmachine on idlevmq.
LEMMA IYieldInv ==
  ASSUME TokenInv, NEW v \in Procs, IYield(v)
  PROVE  TokenInv'
  <1>0. /\ TokenTypeOK /\ OneOwner /\ SleeperKnown /\ WakeupComes /\ VmComes
        /\ OnQueue /\ Targets
    BY DEF TokenInv
  <1> DEFINE q == Head(vmq)
  <1>1. /\ v \in Vms /\ pc[v] = "run" /\ vmq # <<>>
        /\ UNCHANGED <<idle, creating, irend>>
        /\ \A x \in Procs : pc'[x] = IF x = v THEN "yieldto" ELSE pc[x]
        /\ \A x \in Procs : tgt'[x] = IF x = v THEN q ELSE tgt[x]
        /\ vmq' = Tail(vmq) /\ idlevmq' = <<v>> \o idlevmq
    BY <1>0 DEF IYield, Goto, TokenTypeOK
  <1>2. ToSet(vmq) \subseteq Procs /\ ToSet(idlevmq) \subseteq Procs
    BY <1>0, QueueSubset DEF TokenTypeOK
  <1>3. v \notin ToSet(vmq) \cup ToSet(idlevmq)
    BY <1>0, <1>1 DEF OnQueue
  <1>4. /\ vmq' \in Seq(Procs) /\ q \in Procs
        /\ IsInjective(vmq')
        /\ ToSet(vmq) = ToSet(vmq') \cup {q} /\ q \notin ToSet(vmq')
    BY <1>0, <1>1, TailQueue DEF OnQueue, TokenTypeOK
  <1>5. /\ idlevmq' \in Seq(Vms)
        /\ IsInjective(idlevmq')
        /\ ToSet(idlevmq') = ToSet(idlevmq) \cup {v}
    BY <1>0, <1>1, <1>3, PushQueue DEF OnQueue, TokenTypeOK
  <1> HIDE DEF q
  <1>6. TokenTypeOK'
    <2>1. pc' \in [Procs -> PC] /\ tgt' \in [Procs -> Procs]
      BY <1>0, <1>4 DEF IYield, Goto, TokenTypeOK, PC, q
    <2> QED BY <1>0, <1>1, <1>4, <1>5, <2>1 DEF TokenTypeOK
  <1>7. \A x \in Procs : pc[x] \notin HandOff /\ pc[x] # "sleepw" /\ pc[x] # "wakerv"
    <2>1. \A x \in Procs : pc[x] \notin HandOff /\ pc[x] # "sleepw"
      BY <1>0, <1>1 DEF OneOwner, Owners
    <2> QED BY <1>0, <2>1 DEF Targets, TokenTypeOK
  <1>8. irend = None
    BY <1>0, <1>7 DEF SleeperKnown, TokenTypeOK
  <1>9. Owners' = Owners /\ Coming' = Coming
    BY <1>1 DEF Owners, Coming
  <1>10. OneOwner' /\ VmComes'
    BY <1>0, <1>1, <1>9 DEF OneOwner, VmComes
  <1>11. SleeperKnown' /\ WakeupComes'
    BY <1>1, <1>7, <1>8 DEF SleeperKnown, WakeupComes
  <1>12. q \in ToSet(vmq) /\ q # v /\ pc[q] \in WaitPC /\ q \notin ToSet(idlevmq)
    BY <1>0, <1>3, <1>4 DEF OnQueue
  <1>13. OnQueue'
    <2>1. ASSUME NEW x \in Procs, pc'[x] \in WaitPC \cup IdlePC,
                 x \notin ToSet(vmq') \cup ToSet(idlevmq')
          PROVE  pc'[v] \in HandOff /\ tgt'[v] = x
      <3>1. x # v /\ pc[x] \in WaitPC \cup IdlePC
        BY <1>1, <2>1
      <3>2. x \in ToSet(vmq) \cup ToSet(idlevmq)
        BY <1>0, <1>7, <3>1 DEF OnQueue
      <3> QED BY <1>1, <1>4, <1>5, <2>1, <3>2
    <2>2. \A x \in ToSet(vmq') : pc'[x] \in WaitPC
      BY <1>0, <1>1, <1>2, <1>3, <1>4 DEF OnQueue
    <2>3. ASSUME NEW x \in ToSet(idlevmq') PROVE pc'[x] \in IdlePC \cup {"yieldto"}
      <3>1. CASE x = v
        BY <1>1, <3>1
      <3>2. CASE x # v
        <4>1. x \in ToSet(idlevmq) /\ x \in Procs
          BY <1>2, <1>5, <3>2
        <4>2. pc[x] \in IdlePC \cup {"yieldto"} /\ pc'[x] = pc[x]
          BY <1>0, <1>1, <3>2, <4>1 DEF OnQueue
        <4> QED BY <4>2
      <3> QED BY <3>1, <3>2
    <2>4. \A x \in Procs : pc'[x] = "yieldto" => x \in ToSet(idlevmq')
      BY <1>1, <1>5, <1>7
    <2> QED BY <1>4, <1>5, <2>1, <2>2, <2>3, <2>4 DEF OnQueue
  <1>14. Targets'
    BY <1>1, <1>4, <1>5, <1>7, <1>12 DEF Targets
  <1> QED BY <1>6, <1>10, <1>11, <1>13, <1>14 DEF TokenInv

\* Sleep(&isched.irend, tready) keeps the machine and names the sleeper.
LEMMA SleepOwnerInv ==
  ASSUME TokenInv, NEW v \in Procs, SleepOwner(v)
  PROVE  TokenInv'
  <1>0. /\ TokenTypeOK /\ OneOwner /\ SleeperKnown /\ WakeupComes /\ VmComes
        /\ OnQueue /\ Targets
    BY DEF TokenInv
  <1>1. /\ v \in Vms /\ pc[v] = "run" /\ vmq = <<>> /\ irend' = v
        /\ UNCHANGED <<idle, creating, vmq, idlevmq, tgt>>
        /\ \A x \in Procs : pc'[x] = IF x = v THEN "sleepw" ELSE pc[x]
        /\ \A x \in Procs : pc[x] # "wakerv"
    BY <1>0 DEF SleepOwner, IrendUnlocked, Goto, TokenTypeOK
  <1>2. TokenTypeOK'
    <2>1. pc' \in [Procs -> PC]
      BY <1>0 DEF SleepOwner, Goto, TokenTypeOK, PC
    <2> QED BY <1>0, <1>1, <2>1 DEF TokenTypeOK
  <1>3. Owners' = Owners /\ Coming' = Coming
    BY <1>1 DEF Owners, Coming
  <1>4. OneOwner' /\ VmComes' /\ WakeupComes'
    BY <1>0, <1>1, <1>3 DEF OneOwner, VmComes, WakeupComes
  <1>5. \A x \in Procs : pc[x] \notin HandOff /\ pc[x] # "sleepw"
    BY <1>0, <1>1 DEF OneOwner, Owners
  <1>6. SleeperKnown'
    BY <1>1, <1>5, ProcsAssumption DEF SleeperKnown
  <1>7. OnQueue'
    <2>1. ToSet(vmq) \subseteq Procs /\ ToSet(idlevmq) \subseteq Procs
      BY <1>0, QueueSubset DEF TokenTypeOK
    <2> QED BY <1>0, <1>1, <1>5, <2>1 DEF OnQueue
  <1>8. Targets'
    BY <1>1, <1>5 DEF Targets
  <1> QED BY <1>2, <1>4, <1>6, <1>7, <1>8 DEF TokenInv

-----------------------------------------------------------------------------
\* Every step of the protocol keeps the invariant.
LEMMA StepInv == TokenInv /\ [TokenNext]_tokenVars => TokenInv'
  <1> SUFFICES ASSUME TokenInv, [TokenNext]_tokenVars PROVE TokenInv'
    OBVIOUS
  <1>1. CASE UNCHANGED tokenVars
    BY <1>1
       DEF tokenVars, TokenInv, TokenTypeOK, OneOwner, Owners, SleeperKnown,
       WakeupComes, VmComes, Coming, OnQueue, Targets
  <1>2. ASSUME NEW p \in Procs,
               \/ Acquire(p) \/ WakeOwner(p) \/ Release(p)
               \/ Startup(p) \/ IYield(p) \/ SleepOwner(p)
               \/ \E q \in Procs : Meet(p, q)
               \/ \E v \in Vms : SpawnVm(p, v)
        PROVE  TokenInv'
    BY <1>2, AcquireInv, WakeOwnerInv, ReleaseInv, StartupInv, IYieldInv,
       SleepOwnerInv, MeetInv, SpawnVmInv
  <1> QED BY <1>1, <1>2 DEF TokenNext

\* acquire, release, iyield, startup and Wakeup keep all of TokenInv, for any
\* set of processes.
THEOREM TokenSafe == TokenSpec => []TokenInv
  BY InitInv, StepInv, PTL DEF TokenSpec

\* The machine is never duplicated and never lost.
THEOREM TokenOneOwner == TokenSpec => []OneOwner
  BY TokenSafe, PTL DEF TokenInv

\* The first process to queue while the owner sleeps wakes it.
THEOREM TokenWakeupComes == TokenSpec => []WakeupComes
  BY TokenSafe, PTL DEF TokenInv

\* An idle machine has exactly one vmachine on its way.
THEOREM TokenVmComes == TokenSpec => []VmComes
  BY TokenSafe, PTL DEF TokenInv

-----------------------------------------------------------------------------
\* A step of a process with the machine is a step of the protocol or none.
LEMMA OwnedToken ==
  ASSUME NEW p \in Procs, Owned(p)
  PROVE  [TokenNext]_tokenVars
  <1>1. CASE \/ Loop(p) \/ GcDone(p) \/ Pick(p) \/ Post(p)
             \/ Quantum(p) \/ Block(p) \/ Break(p) \/ Rescue(p)
             \/ \E q \in Progs : AddRun(p, q) \/ NewProg(p, q)
             \/ Resume(p) \/ Halt(p)
    BY <1>1 DEF Loop, GcDone, Pick, Post, Move, Quantum, Block, Break, Rescue,
       AddRun, NewProg, Resume, Halt, vars
  <1>2. CASE GcFree(p) \/ SysCall(p) \/ Free(p) \/ Exit(p) \/ CtlDone(p)
    BY <1>2 DEF GcFree, SysCall, Free, Exit, CtlDone, TokenNext
  <1>3. CASE Sleep(p)
    BY <1>3 DEF Sleep, TokenNext
  <1>4. CASE Poll(p)
    BY <1>4 DEF Poll, TokenNext
  <1>5. CASE \E q \in Progs : KillProg(p, q)
    BY <1>5 DEF KillProg, TokenNext
  <1> QED BY <1>1, <1>2, <1>3, <1>4, <1>5 DEF Owned

\* So is every step of the interpreter.
LEMMA NextToken == [Next]_vars => [TokenNext]_tokenVars
  <1> SUFFICES ASSUME [Next]_vars PROVE [TokenNext]_tokenVars
    OBVIOUS
  <1>1. CASE UNCHANGED vars
    BY <1>1 DEF vars
  <1>2. ASSUME NEW p \in Procs, Pass(p) \/ Return(p) PROVE [TokenNext]_tokenVars
    BY <1>2 DEF Pass, Return, TokenNext
  <1>3. ASSUME NEW p \in Procs, Owned(p) PROVE [TokenNext]_tokenVars
    BY <1>3, OwnedToken
  <1> QED BY <1>1, <1>2, <1>3 DEF Next

\* Every behaviour of the interpreter is one of the protocol.
THEOREM SchedImplementsToken == Spec => TokenSpec
  <1>1. Init => TokenInit
    BY DEF Init
  <1> QED BY <1>1, NextToken, PTL DEF Spec, TokenSpec

\* The interpreter keeps the invariant of the protocol.
THEOREM SchedTokenSafe == Spec => []TokenInv
  BY SchedImplementsToken, TokenSafe, PTL

-----------------------------------------------------------------------------
(***************************************************************************)
(* The invariant of the Progs.                                             *)
(***************************************************************************)
\* Only the owner of the machine is at one of these.
OwnerSteps == {"sleep", "xec", "post", "back", "ctl", "halt"} \cup GcSteps
\* In these a process has iprog set, and in these gclock() is held.
ProgSteps == {"sys", "sys2", "exit", "kill", "free"}
LockSteps == {"exit", "kill", "free", "idlefree", "busyfree"}
Collecting == GcSteps \cup {"idlefree", "busyfree"}

\* Where a process is in the protocol, by where it is in vmachine().
Fits(s, c) ==
  /\ s \in OwnerSteps => c = "run"
  /\ s = "loop" => c \in {"unborn", "startup", "stwait", "run"}
  /\ s = "poll" => c \in {"sleepw", "run"}
  /\ s = "pick" => c \in {"yieldto", "yieldw", "run"}
  /\ s \in OffSteps => c \in {"out", "spawn", "wake", "wakerv", "acqw", "relto", "run"}

WhereInv ==
  \A p \in Procs :
    /\ Fits(step[p], pc[p])
    /\ IF p \in Slaves THEN step[p] \in {"off", "ctl"} ELSE step[p] # "off"

\* The process is on the run queue itself.
StandsIn(p) == step[p] \in GcSteps \/ (p \in Slaves /\ step[p] = "ctl")

\* isched.runhd: the Progs that are ready, once each, and before them the
\* process that stands in for a Prog.
RunqInv ==
  /\ IsInjective(runq)
  /\ \A q \in Progs : Ready(q) <=> q \in ToSet(runq)
  /\ \A p \in Procs :
       /\ p \in ToSet(runq) <=> StandsIn(p)
       /\ p \in ToSet(runq) => Head(runq) = p
       /\ step[p] \in {"xec", "back", "ctl"} /\ p \in Vms =>
            runq # <<>> /\ Head(runq) \in Progs
  /\ irend # None => runq = <<>>

\* up->iprog: the Prog of a process that has released the machine.
IprogInv ==
  /\ \A v \in Vms :
       /\ iprog[v] # None <=> step[v] \in ProgSteps
       /\ step[v] \in ProgSteps =>
            pstate[iprog[v]] = IF step[v] = "exit" THEN "exiting" ELSE "released"
  /\ \A v, w \in Vms : iprog[v] # None /\ iprog[v] = iprog[w] => v = w
  /\ \A q \in Progs : pstate[q] \in {"released", "exiting"} => \E v \in Vms : iprog[v] = q

\* gclock() counts those that hold it, and keeps a second collector out.
Locking == {p \in Procs : step[p] \in LockSteps}
GcInv ==
  /\ IsFiniteSet(Locking) /\ gchalt = Cardinality(Locking)
  /\ OneCollector

\* The vmachines that have been made when one more is to be.
Born == {v \in Vms : pc[v] # "unborn"}
PoolInv ==
  (\E p \in Procs : pc[p] = "spawn") =>
    IsFiniteSet(Born) /\ Cardinality(Born) <= Cardinality(Progs) + 1

\* The bound on the kernel processes of an instance: enough of them for every
\* Prog, for a finaliser of the collector, and for the one that is made.
PoolAssumption ==
  /\ IsFiniteSet(Progs) /\ IsFiniteSet(Vms)
  /\ Cardinality(Vms) >= Cardinality(Progs) + 2

SchedInv == TypeOK /\ WhereInv /\ RunqInv /\ IprogInv /\ GcInv

-----------------------------------------------------------------------------
USE ProcsAssumption, ProgsAssumption, NoneAssumption DEF Procs

\* The process with the machine is the only one at a step that needs it.
LEMMA Alone ==
  ASSUME SchedInv, TokenInv, NEW p \in Procs, pc[p] = "run"
  PROVE  /\ irend = None
         /\ \A x \in Procs : x # p =>
              pc[x] # "run" /\ step[x] \notin OwnerSteps /\ x \notin ToSet(runq)
         /\ p \in ToSet(runq) <=> StandsIn(p)
         /\ ToSet(runq) \subseteq Progs \cup {p}
  <1>1. TypeOK /\ WhereInv /\ RunqInv /\ TokenTypeOK /\ OneOwner /\ SleeperKnown
    BY DEF SchedInv, TokenInv
  <1>2. \A x \in Procs : x # p => pc[x] # "run" /\ pc[x] # "sleepw"
    BY <1>1 DEF OneOwner, Owners
  <1>3. irend = None
    BY <1>1, <1>2 DEF SleeperKnown, TokenTypeOK
  <1>4. \A x \in Procs : x # p => step[x] \notin OwnerSteps
    BY <1>1, <1>2 DEF WhereInv, Fits
  <1>5. \A x \in Procs : StandsIn(x) => step[x] \in OwnerSteps
    BY DEF StandsIn, OwnerSteps
  <1>6. \A x \in Procs : x \in ToSet(runq) <=> StandsIn(x)
    BY <1>1 DEF RunqInv
  <1>7. ToSet(runq) \subseteq Progs \cup Procs
    BY <1>1, QueueSubset DEF TypeOK
  <1> QED BY <1>2, <1>3, <1>4, <1>5, <1>6, <1>7

\* A process moves, and the others stay where they are.
LEMMA WhereStep ==
  ASSUME WhereInv, NEW p \in Procs,
         \A x \in Procs : x # p => step'[x] = step[x] /\ pc'[x] = pc[x],
         Fits(step'[p], pc'[p]),
         IF p \in Slaves THEN step'[p] \in {"off", "ctl"} ELSE step'[p] # "off"
  PROVE  WhereInv'
  BY DEF WhereInv, Fits

\* The collector is locked, or is left, or neither.
LEMMA GcStep ==
  ASSUME GcInv, NEW p \in Procs,
         \A x \in Procs : x # p => step'[x] = step[x],
         step'[p] \in Collecting => step[p] \in Collecting
                                    \/ \A x \in Procs : step[x] \notin Collecting,
         \/ gchalt' = gchalt /\ (step'[p] \in LockSteps <=> step[p] \in LockSteps)
         \/ gchalt' = gchalt + 1 /\ step[p] \notin LockSteps /\ step'[p] \in LockSteps
         \/ gchalt' = gchalt - 1 /\ step[p] \in LockSteps /\ step'[p] \notin LockSteps
  PROVE  GcInv' /\ gchalt' \in Nat
  <1>1. IsFiniteSet(Locking) /\ gchalt = Cardinality(Locking) /\ OneCollector
    BY DEF GcInv
  <1>2. OneCollector'
    BY <1>1 DEF OneCollector, Collecting
  <1>3. IsFiniteSet(Locking') /\ gchalt' = Cardinality(Locking')
    <2>1. CASE gchalt' = gchalt /\ (step'[p] \in LockSteps <=> step[p] \in LockSteps)
      <3>1. Locking' = Locking
        BY <2>1 DEF Locking
      <3> QED BY <1>1, <2>1, <3>1
    <2>2. CASE gchalt' = gchalt + 1 /\ step[p] \notin LockSteps /\ step'[p] \in LockSteps
      <3>1. Locking' = Locking \cup {p} /\ p \notin Locking
        BY <2>2 DEF Locking
      <3> QED BY <1>1, <2>2, <3>1, FS_AddElement
    <2>3. CASE gchalt' = gchalt - 1 /\ step[p] \in LockSteps /\ step'[p] \notin LockSteps
      <3>1. Locking' = Locking \ {p} /\ p \in Locking
        BY <2>3 DEF Locking
      <3> QED BY <1>1, <2>3, <3>1, FS_RemoveElement
    <2> QED BY <2>1, <2>2, <2>3
  <1>4. gchalt' \in Nat
    BY <1>3, FS_CardinalityType
  <1> QED BY <1>2, <1>3, <1>4 DEF GcInv

\* Nobody keeps a Prog or gives it back.
LEMMA IprogSame ==
  ASSUME IprogInv, UNCHANGED iprog,
         \A x \in Vms : step'[x] = step[x]
                        \/ (step[x] \notin ProgSteps /\ step'[x] \notin ProgSteps),
         \A q \in Progs : pstate'[q] = pstate[q]
                          \/ ({pstate[q], pstate'[q]} \cap {"released", "exiting"} = {}),
         TypeOK
  PROVE  IprogInv'
  <1>1. \A v \in Vms : step[v] \in ProgSteps =>
          iprog[v] \in Progs /\ pstate[iprog[v]] \in {"released", "exiting"}
    BY DEF IprogInv, TypeOK
  <1> QED BY <1>1 DEF IprogInv

\* A vmachine keeps its Prog when it releases the machine.
LEMMA IprogSave ==
  ASSUME IprogInv, TypeOK, NEW p \in Vms, NEW r \in Progs,
         step[p] \notin ProgSteps, step'[p] \in ProgSteps,
         \A x \in Procs : x # p => step'[x] = step[x],
         iprog' = [iprog EXCEPT ![p] = r],
         pstate[r] \notin {"released", "exiting"},
         pstate'[r] = IF step'[p] = "exit" THEN "exiting" ELSE "released",
         \A q \in Progs : q # r => pstate'[q] = pstate[q]
                          \/ ({pstate[q], pstate'[q]} \cap {"released", "exiting"} = {})
  PROVE  IprogInv'
  <1>1. \A v \in Vms : step[v] \in ProgSteps =>
          iprog[v] \in Progs /\ iprog[v] # r /\ pstate[iprog[v]] \in {"released", "exiting"}
    BY DEF IprogInv, TypeOK
  <1>2. \A v \in Vms : iprog'[v] = IF v = p THEN r ELSE iprog[v]
    BY DEF TypeOK
  <1>3. ASSUME NEW v \in Vms
        PROVE  /\ iprog'[v] # None <=> step'[v] \in ProgSteps
               /\ step'[v] \in ProgSteps =>
                    pstate'[iprog'[v]] = IF step'[v] = "exit" THEN "exiting" ELSE "released"
    <2>1. CASE v = p
      BY <1>2, <2>1
    <2>2. CASE v # p
      <3>1. step'[v] = step[v] /\ iprog'[v] = iprog[v]
        BY <1>2, <2>2
      <3>2. step[v] \in ProgSteps => pstate'[iprog[v]] = pstate[iprog[v]]
        BY <1>1
      <3> QED BY <3>1, <3>2 DEF IprogInv
    <2> QED BY <2>1, <2>2
  <1>4. \A v, w \in Vms : iprog'[v] # None /\ iprog'[v] = iprog'[w] => v = w
    BY <1>1, <1>2 DEF IprogInv
  <1>5. \A q \in Progs : pstate'[q] \in {"released", "exiting"} => \E v \in Vms : iprog'[v] = q
    <2> SUFFICES ASSUME NEW q \in Progs, pstate'[q] \in {"released", "exiting"}
                 PROVE  \E v \in Vms : iprog'[v] = q
      OBVIOUS
    <2>1. CASE q = r
      BY <1>2, <2>1
    <2>2. CASE q # r
      <3>1. pstate[q] \in {"released", "exiting"}
        BY <2>2
      <3>2. PICK v \in Vms : iprog[v] = q
        BY <3>1 DEF IprogInv
      <3>3. v # p
        BY <3>2 DEF IprogInv
      <3> QED BY <1>2, <3>2, <3>3
    <2> QED BY <2>1, <2>2
  <1> QED BY <1>3, <1>4, <1>5 DEF IprogInv

\* It gives the Prog back when it has the machine again.
LEMMA IprogRestore ==
  ASSUME IprogInv, TypeOK, NEW p \in Vms,
         step[p] \in ProgSteps, step'[p] \notin ProgSteps,
         \A x \in Procs : x # p => step'[x] = step[x],
         iprog' = [iprog EXCEPT ![p] = None],
         pstate'[iprog[p]] \notin {"released", "exiting"},
         \A q \in Progs : q # iprog[p] => pstate'[q] = pstate[q]
  PROVE  IprogInv'
  <1>1. \A v \in Vms : step[v] \in ProgSteps => iprog[v] \in Progs
    BY DEF IprogInv, TypeOK
  <1>2. \A v \in Vms : iprog'[v] = IF v = p THEN None ELSE iprog[v]
    BY DEF TypeOK
  <1>3. \A v \in Vms : /\ iprog'[v] # None <=> step'[v] \in ProgSteps
                       /\ step'[v] \in ProgSteps =>
                            pstate'[iprog'[v]] = IF step'[v] = "exit" THEN "exiting" ELSE "released"
    BY <1>1, <1>2 DEF IprogInv
  <1>4. \A v, w \in Vms : iprog'[v] # None /\ iprog'[v] = iprog'[w] => v = w
    BY <1>1, <1>2 DEF IprogInv
  <1>5. \A q \in Progs : pstate'[q] \in {"released", "exiting"} => \E v \in Vms : iprog'[v] = q
    <2> SUFFICES ASSUME NEW q \in Progs, pstate'[q] \in {"released", "exiting"}
                 PROVE  \E v \in Vms : iprog'[v] = q
      OBVIOUS
    <2>1. q # iprog[p] /\ pstate[q] \in {"released", "exiting"}
      OBVIOUS
    <2>2. PICK v \in Vms : iprog[v] = q
      BY <2>1 DEF IprogInv
    <2> QED BY <1>2, <2>1, <2>2
  <1> QED BY <1>3, <1>4, <1>5 DEF IprogInv

\* What is to be known of the run queue after a step of the owner.
LEMMA RunqStep ==
  ASSUME NEW p \in Procs,
         \A x \in Procs : x # p => step'[x] = step[x] /\ step[x] \notin OwnerSteps
                                   /\ x \notin ToSet(runq'),
         IsInjective(runq'),
         \A q \in Progs : pstate'[q] = "ready" <=> q \in ToSet(runq'),
         p \in ToSet(runq') <=> step'[p] \in GcSteps \/ (p \in Slaves /\ step'[p] = "ctl"),
         p \in ToSet(runq') => Head(runq') = p,
         step'[p] \in {"xec", "back", "ctl"} /\ p \in Vms =>
           runq' # <<>> /\ Head(runq') \in Progs,
         irend' # None => runq' = <<>>
  PROVE  RunqInv'
  <1>1. \A x \in Procs : x # p => step'[x] \notin GcSteps \cup {"xec", "back", "ctl"}
    BY DEF OwnerSteps
  <1> QED BY <1>1 DEF RunqInv, Ready, StandsIn

-----------------------------------------------------------------------------
(***************************************************************************)
(* Each action keeps the invariant.                                        *)
(***************************************************************************)
\* The steps of a vmachine, none of which is a slave's.
LEMMA VmAt ==
  ASSUME WhereInv, NEW p \in Procs, step[p] # "off", step[p] # "ctl"
  PROVE  p \in Vms /\ p \notin Slaves
  BY DEF WhereInv

\* A vmachine goes on, and does not touch a Prog.
LEMMA MoveInv ==
  ASSUME SchedInv, TokenInv, TokenInv', NEW p \in Procs, pc[p] = "run",
         step[p] \in {"loop", "sleep", "poll", "pick", "xec", "post", "back"},
         NEW s \in {"loop", "sleep", "poll", "pick", "xec"},
         step' = [step EXCEPT ![p] = s],
         \A x \in Procs : x # p => pc'[x] = pc[x],
         Fits(s, pc'[p]),
         s = "xec" => runq # <<>>,
         irend' # None => runq = <<>>,
         kill' \in [Progs -> BOOLEAN], cycles' \in [Vms -> 0 .. MaxCycles],
         UNCHANGED <<runq, pstate, iprog, gchalt>>
  PROVE  SchedInv'
  <1>1. TypeOK /\ WhereInv /\ RunqInv /\ IprogInv /\ GcInv
    BY DEF SchedInv
  <1>2. p \in Vms /\ p \notin Slaves
    BY <1>1, VmAt
  <1>3. \A x \in Procs : step'[x] = IF x = p THEN s ELSE step[x]
    BY <1>1 DEF TypeOK
  <1>4. TypeOK'
    BY <1>1 DEF TypeOK, TokenInv, Steps
  <1>5. WhereInv'
    BY <1>1, <1>2, <1>3, WhereStep
  <1>6. step[p] \notin LockSteps \cup Collecting /\ s \notin LockSteps \cup Collecting
    BY DEF LockSteps, Collecting, GcSteps
  <1>7. GcInv'
    BY <1>1, <1>3, <1>6, GcStep
  <1>8. \A x \in Procs : step'[x] = step[x] \/ (step[x] \notin ProgSteps /\ step'[x] \notin ProgSteps)
    BY <1>3 DEF ProgSteps
  <1>9. IprogInv'
    BY <1>1, <1>8, IprogSame
  <1>10. /\ \A x \in Procs : x # p => step[x] \notin OwnerSteps /\ x \notin ToSet(runq)
         /\ ToSet(runq) \subseteq Progs \cup {p}
         /\ p \in ToSet(runq) <=> StandsIn(p)
    BY Alone
  <1>11. p \notin ToSet(runq)
    BY <1>2, <1>10 DEF StandsIn, GcSteps
  <1>12. runq # <<>> => Head(runq) \in Progs
    BY <1>1, <1>10, <1>11, TailQueue DEF TypeOK
  <1>13. RunqInv'
    <2>1. s \notin GcSteps /\ s \notin {"back", "ctl"}
      BY DEF GcSteps
    <2> QED BY <1>1, <1>2, <1>3, <1>10, <1>11, <1>12, <2>1, RunqStep
       DEF RunqInv, Ready
  <1> QED BY <1>4, <1>5, <1>7, <1>9, <1>13 DEF SchedInv

\* vmachine() puts itself on the run queue to collect.
LEMMA StandInv ==
  ASSUME SchedInv, TokenInv, TokenInv', NEW p \in Procs, pc[p] = "run",
         step[p] \in {"loop", "post"}, NEW s \in {"idlegc", "busygc"},
         step' = [step EXCEPT ![p] = s],
         gchalt = 0,
         runq' = <<p>> \o runq \/ (runq = <<>> /\ runq' = Append(runq, p)),
         UNCHANGED <<tokenVars, pstate, kill, iprog, cycles, gchalt>>
  PROVE  SchedInv'
  <1>1. TypeOK /\ WhereInv /\ RunqInv /\ IprogInv /\ GcInv
    BY DEF SchedInv
  <1>2. p \in Vms /\ p \notin Slaves
    BY <1>1, VmAt
  <1>3. \A x \in Procs : step'[x] = IF x = p THEN s ELSE step[x]
    BY <1>1 DEF TypeOK
  <1>4. /\ \A x \in Procs : x # p => step[x] \notin OwnerSteps /\ x \notin ToSet(runq)
        /\ p \in ToSet(runq) <=> StandsIn(p)
        /\ irend = None
    BY Alone
  <1>5. p \notin ToSet(runq)
    BY <1>2, <1>4 DEF StandsIn, GcSteps
  <1>6. /\ runq' \in Seq(Progs \cup Procs) /\ ToSet(runq') = ToSet(runq) \cup {p}
        /\ IsInjective(runq') /\ Head(runq') = p
    <2>1. runq \in Seq(Progs \cup Procs) /\ IsInjective(runq) /\ p \in Progs \cup Procs
      BY <1>1 DEF TypeOK, RunqInv
    <2>2. CASE runq' = <<p>> \o runq
      <3>1. Head(<<p>> \o runq) = p
        BY <2>1
      <3> QED BY <1>5, <2>1, <2>2, <3>1, PushQueue
    <2>3. CASE runq = <<>> /\ runq' = Append(runq, p)
      <3>1. Head(Append(runq, p)) = p
        BY <2>1, <2>3, AppendQueue
      <3>2. /\ Append(runq, p) \in Seq(Progs \cup Procs)
            /\ ToSet(Append(runq, p)) = ToSet(runq) \cup {p}
            /\ IsInjective(Append(runq, p))
        BY <1>5, <2>1, AppendQueue
      <3> QED BY <2>3, <3>1, <3>2
    <2> QED BY <2>2, <2>3
  <1>7. TypeOK'
    BY <1>1, <1>6 DEF TypeOK, TokenInv, Steps, GcSteps
  <1>8. WhereInv'
    <2>1. Fits(s, "run")
      BY DEF Fits, OffSteps
    <2> QED BY <1>1, <1>2, <1>3, <2>1, WhereStep DEF tokenVars
  <1>9. GcInv'
    <2>1. Locking = {}
      BY <1>1, FS_EmptySet DEF GcInv
    <2>2. \A x \in Procs : x # p => step[x] \notin Collecting
      BY <1>4, <2>1 DEF Collecting, OwnerSteps, Locking, LockSteps
    <2>3. step[p] \notin Collecting /\ step[p] \notin LockSteps /\ s \notin LockSteps
      BY DEF Collecting, GcSteps, LockSteps
    <2> QED BY <1>1, <1>3, <2>2, <2>3, GcStep
  <1>10. IprogInv'
    <2>1. step[p] \notin ProgSteps /\ s \notin ProgSteps
      BY DEF ProgSteps
    <2> QED BY <1>1, <1>3, <2>1, IprogSame
  <1>11. RunqInv'
    <2>1. s \in GcSteps /\ s \notin {"xec", "back", "ctl"}
      BY DEF GcSteps
    <2>2. \A q \in Progs : pstate[q] = "ready" <=> q \in ToSet(runq')
      BY <1>1, <1>6 DEF RunqInv, Ready
    <2> QED BY <1>3, <1>4, <1>6, <2>1, <2>2, RunqStep DEF tokenVars
  <1> QED BY <1>7, <1>8, <1>9, <1>10, <1>11 DEF SchedInv

\* It takes itself off again.
LEMMA GcDoneInv ==
  ASSUME SchedInv, TokenInv, TokenInv', NEW p \in Procs, GcDone(p)
  PROVE  SchedInv'
  <1> DEFINE s == IF step[p] \in {"idlegc", "idleend"} THEN "sleep" ELSE "loop"
  <1>1. TypeOK /\ WhereInv /\ RunqInv /\ IprogInv /\ GcInv
    BY DEF SchedInv
  <1>2. /\ pc[p] = "run" /\ step[p] \in GcSteps
        /\ step' = [step EXCEPT ![p] = s] /\ runq' = RemoveFirst(runq, p)
        /\ UNCHANGED <<tokenVars, pstate, kill, iprog, cycles, gchalt>>
    BY DEF GcDone, Then
  <1>3. p \in Vms /\ p \notin Slaves /\ s \in {"sleep", "loop"}
    BY <1>1, <1>2, VmAt DEF GcSteps
  <1> HIDE DEF s
  <1>4. \A x \in Procs : step'[x] = IF x = p THEN s ELSE step[x]
    BY <1>1, <1>2 DEF TypeOK
  <1>5. /\ \A x \in Procs : x # p => step[x] \notin OwnerSteps /\ x \notin ToSet(runq)
        /\ irend = None
    BY <1>2, Alone
  <1>6. /\ runq' \in Seq(Progs \cup Procs) /\ ToSet(runq') = ToSet(runq) \ {p}
        /\ IsInjective(runq')
    BY <1>1, <1>2, RemoveQueue DEF TypeOK, RunqInv
  <1>7. TypeOK'
    BY <1>1, <1>2, <1>3, <1>6 DEF TypeOK, TokenInv, Steps
  <1>8. WhereInv'
    <2>1. Fits(s, "run")
      BY <1>3 DEF Fits, OffSteps
    <2> QED BY <1>1, <1>2, <1>3, <1>4, <2>1, WhereStep DEF tokenVars
  <1>9. GcInv'
    <2>1. step[p] \notin LockSteps /\ s \notin LockSteps /\ s \notin Collecting
      BY <1>2, <1>3 DEF Collecting, GcSteps, LockSteps
    <2> QED BY <1>1, <1>2, <1>4, <2>1, GcStep
  <1>10. IprogInv'
    <2>1. step[p] \notin ProgSteps /\ s \notin ProgSteps
      BY <1>2, <1>3 DEF ProgSteps, GcSteps
    <2> QED BY <1>1, <1>2, <1>4, <2>1, IprogSame
  <1>11. RunqInv'
    <2>1. s \notin GcSteps /\ s \notin {"xec", "back", "ctl"}
      BY <1>3 DEF GcSteps
    <2>2. \A q \in Progs : pstate[q] = "ready" <=> q \in ToSet(runq')
      BY <1>1, <1>6 DEF RunqInv, Ready
    <2> QED BY <1>2, <1>3, <1>4, <1>5, <1>6, <2>1, <2>2, RunqStep DEF tokenVars
  <1> QED BY <1>7, <1>8, <1>9, <1>10, <1>11 DEF SchedInv

\* A vmachine that executes a Prog has it at the head of the run queue.
LEMMA HeadRuns ==
  ASSUME SchedInv, TokenInv, NEW p \in Vms, pc[p] = "run", step[p] \in {"xec", "back", "ctl"}
  PROVE  /\ runq # <<>> /\ CurRun \in Progs /\ pstate[CurRun] = "ready"
         /\ ToSet(runq) \subseteq Progs /\ ToSet(Tail(runq)) = ToSet(runq) \ {CurRun}
         /\ runq \in Seq(Progs \cup Procs) /\ Tail(runq) \in Seq(Progs \cup Procs)
         /\ IsInjective(runq) /\ IsInjective(Tail(runq))
  <1>1. runq \in Seq(Progs \cup Procs) /\ RunqInv /\ IsInjective(runq)
    BY DEF SchedInv, TypeOK, RunqInv
  <1>2. ~ StandsIn(p)
    BY DEF StandsIn, GcSteps
  <1>3. runq # <<>> /\ CurRun \in Progs /\ ToSet(runq) \subseteq Progs
    BY <1>1, <1>2, Alone DEF RunqInv, CurRun
  <1>4. /\ CurRun \in ToSet(runq) /\ Tail(runq) \in Seq(Progs \cup Procs)
        /\ IsInjective(Tail(runq)) /\ CurRun \notin ToSet(Tail(runq))
        /\ ToSet(runq) = ToSet(Tail(runq)) \cup {CurRun}
    BY <1>1, <1>3, TailQueue DEF CurRun
  <1> QED BY <1>1, <1>3, <1>4 DEF RunqInv, Ready

\* release() takes the process on in the protocol, and nobody else.
LEMMA ReleasePc ==
  ASSUME TokenTypeOK, NEW p \in Procs, Release(p)
  PROVE  /\ pc[p] = "run" /\ pc'[p] \in {"relto", "out", "spawn"}
         /\ \A x \in Procs : x # p => pc'[x] = pc[x]
         /\ irend' = irend
  BY DEF Release, HandOver, LeaveIdle, Goto, TokenTypeOK

\* The vmachine releases the machine: its Prog is kept in iprog, and a Prog
\* that it has killed is gone.
LEMMA SaveInv ==
  ASSUME SchedInv, TokenInv, TokenInv', NEW p \in Vms,
         step[p] \in {"xec", "back", "ctl"}, Release(p),
         NEW s \in ProgSteps, step' = [step EXCEPT ![p] = s],
         NEW K \in SUBSET Progs, CurRun \notin K,
         \A q \in K : pstate[q] \notin {"released", "exiting"},
         runq' \in Seq(Progs \cup Procs), IsInjective(runq'),
         ToSet(runq') = ToSet(runq) \ ({CurRun} \cup K),
         iprog' = [iprog EXCEPT ![p] = CurRun],
         pstate' = [q \in Progs |->
                      IF q = CurRun THEN IF s = "exit" THEN "exiting" ELSE "released"
                      ELSE IF q \in K THEN "none" ELSE pstate[q]],
         kill' \in [Progs -> BOOLEAN],
         gchalt' = IF s \in LockSteps THEN gchalt + 1 ELSE gchalt,
         UNCHANGED cycles
  PROVE  SchedInv'
  <1>1. TypeOK /\ WhereInv /\ RunqInv /\ IprogInv /\ GcInv /\ TokenTypeOK
    BY DEF SchedInv, TokenInv
  <1>2. /\ p \in Procs /\ p \notin Slaves /\ pc[p] = "run"
        /\ pc'[p] \in {"relto", "out", "spawn"}
        /\ \A x \in Procs : x # p => pc'[x] = pc[x]
        /\ irend' = irend
    BY <1>1, ReleasePc
  <1>3. /\ CurRun \in Progs /\ pstate[CurRun] = "ready" /\ ToSet(runq) \subseteq Progs
    BY <1>2, HeadRuns
  <1>4. \A x \in Procs : step'[x] = IF x = p THEN s ELSE step[x]
    BY <1>1, <1>2 DEF TypeOK
  <1>5. irend = None /\ \A x \in Procs : x # p => step[x] \notin OwnerSteps
    BY <1>2, Alone
  <1>6. GcInv' /\ gchalt' \in Nat
    <2>1. step[p] \notin LockSteps \cup Collecting /\ s \notin Collecting
      BY DEF LockSteps, Collecting, GcSteps, ProgSteps
    <2> QED BY <1>1, <1>2, <1>4, <2>1, GcStep
  <1>7. TypeOK'
    <2>1. step' \in [Procs -> Steps]
      BY <1>1 DEF TypeOK, ProgSteps, Steps, OffSteps
    <2>2. pstate' \in [Progs -> {"none", "ready", "blocked", "released", "broken", "exiting"}]
      BY <1>1 DEF TypeOK
    <2>3. iprog' \in [Vms -> Progs \cup {None}]
      BY <1>1, <1>3 DEF TypeOK
    <2> QED BY <1>1, <1>6, <2>1, <2>2, <2>3 DEF TypeOK, TokenInv
  <1>8. WhereInv'
    <2>1. Fits(s, pc'[p]) /\ s # "off"
      BY <1>2 DEF Fits, OffSteps, OwnerSteps, GcSteps, ProgSteps
    <2> QED BY <1>1, <1>2, <1>4, <2>1, WhereStep
  <1>9. IprogInv'
    <2>1. step[p] \notin ProgSteps
      BY DEF ProgSteps
    <2>2. \A q \in Progs : q # CurRun =>
            pstate'[q] = pstate[q] \/ ({pstate[q], pstate'[q]} \cap {"released", "exiting"} = {})
      OBVIOUS
    <2>3. pstate'[CurRun] = IF step'[p] = "exit" THEN "exiting" ELSE "released"
      BY <1>2, <1>3, <1>4
    <2>4. step'[p] \in ProgSteps /\ pstate[CurRun] \notin {"released", "exiting"}
      BY <1>2, <1>3, <1>4
    <2> QED BY <1>1, <1>3, <1>4, <2>1, <2>2, <2>3, <2>4, IprogSave
  <1>10. RunqInv'
    <2>1. s \notin GcSteps /\ s \notin {"xec", "back", "ctl"}
      BY DEF GcSteps, ProgSteps
    <2>2. \A q \in Progs : pstate'[q] = "ready" <=> q \in ToSet(runq')
      BY <1>1, <1>3 DEF RunqInv, Ready
    <2>3. \A x \in Procs : x \notin ToSet(runq')
      BY <1>3
    <2> QED BY <1>2, <1>4, <1>5, <2>1, <2>2, <2>3, RunqStep
  <1> QED BY <1>6, <1>7, <1>8, <1>9, <1>10 DEF SchedInv

\* A system call, the exit of a Prog, and the end of a control operation.
LEMMA DropInv ==
  ASSUME SchedInv, TokenInv, TokenInv', NEW p \in Vms,
         SysCall(p) \/ Free(p) \/ Exit(p) \/ CtlDone(p)
  PROVE  SchedInv'
  <1> DEFINE s == IF SysCall(p) THEN "sys" ELSE IF Free(p) THEN "free"
                  ELSE IF Exit(p) THEN "exit" ELSE "sys2"
             left == IF s = "exit" THEN "exiting" ELSE "released"
  <1>1. /\ step[p] \in {"xec", "back", "ctl"} /\ Release(p)
        /\ step' = [step EXCEPT ![p] = s] /\ s \in ProgSteps
        /\ Drop(p, left)
        /\ gchalt' = IF s \in LockSteps THEN gchalt + 1 ELSE gchalt
        /\ UNCHANGED <<kill, cycles>>
    <2>1. CASE SysCall(p)
      BY <2>1 DEF SysCall, Running, At, Then, ProgSteps, LockSteps
    <2>2. CASE Free(p) /\ ~SysCall(p)
      BY <2>2 DEF Free, Running, At, Then, ProgSteps, LockSteps
    <2>3. CASE Exit(p) /\ ~SysCall(p) /\ ~Free(p)
      BY <2>3 DEF Exit, At, Then, ProgSteps, LockSteps
    <2>4. CASE CtlDone(p) /\ ~SysCall(p) /\ ~Free(p) /\ ~Exit(p)
      BY <2>4 DEF CtlDone, At, Then, ProgSteps, LockSteps
    <2> QED BY <2>1, <2>2, <2>3, <2>4
  <1> HIDE DEF s
  <1>2. TokenTypeOK /\ TypeOK /\ p \in Procs /\ pc[p] = "run"
    BY <1>1, ReleasePc DEF TokenInv, SchedInv
  <1>3. Interp(p)
    BY <1>1 DEF Interp, GcSteps
  <1>4. /\ runq' = Tail(runq) /\ iprog' = [iprog EXCEPT ![p] = CurRun]
        /\ pstate' = [pstate EXCEPT ![CurRun] = left]
    BY <1>1, <1>3 DEF Drop
  <1>5. /\ ToSet(Tail(runq)) = ToSet(runq) \ {CurRun} /\ CurRun \in Progs
        /\ Tail(runq) \in Seq(Progs \cup Procs) /\ IsInjective(Tail(runq))
    BY <1>1, <1>2, HeadRuns
  <1>6. pstate' = [q \in Progs |->
                     IF q = CurRun THEN IF s = "exit" THEN "exiting" ELSE "released"
                     ELSE IF q \in {} THEN "none" ELSE pstate[q]]
    BY <1>2, <1>4, <1>5 DEF TypeOK
  <1>7. {} \in SUBSET Progs /\ ToSet(runq') = ToSet(runq) \ ({CurRun} \cup {})
    BY <1>4, <1>5
  <1>8. runq' \in Seq(Progs \cup Procs) /\ IsInjective(runq')
    BY <1>4, <1>5
  <1>9. kill' \in [Progs -> BOOLEAN] /\ UNCHANGED cycles
    BY <1>1, <1>2 DEF TypeOK
  <1>10. CurRun \notin {} /\ \A q \in {} : pstate[q] \notin {"released", "exiting"}
    OBVIOUS
  <1> DEFINE K == {}
  <1> HIDE DEF K, left
  <1>11. /\ K \in SUBSET Progs /\ CurRun \notin K
         /\ \A q \in K : pstate[q] \notin {"released", "exiting"}
         /\ ToSet(runq') = ToSet(runq) \ ({CurRun} \cup K)
         /\ pstate' = [q \in Progs |->
                     IF q = CurRun THEN IF s = "exit" THEN "exiting" ELSE "released"
                     ELSE IF q \in K THEN "none" ELSE pstate[q]]
    BY <1>6, <1>7, <1>10 DEF K
  <1> QED BY <1>1, <1>4, <1>8, <1>9, <1>11, SaveInv

\* A process that stands on the run queue itself leaves it to release the
\* machine: a finaliser under the collector, and a slave that is done.
LEMMA StandDropInv ==
  ASSUME SchedInv, TokenInv, TokenInv', NEW p \in Procs,
         GcFree(p) \/ (p \in Slaves /\ CtlDone(p))
  PROVE  SchedInv'
  <1> DEFINE s == IF step[p] = "idlegc" THEN "idlefree"
                  ELSE IF step[p] = "busygc" THEN "busyfree" ELSE "off"
  <1>1. /\ StandsIn(p) /\ ~Interp(p) /\ Release(p)
        /\ step[p] \in {"idlegc", "busygc"} \/ (p \in Slaves /\ step[p] = "ctl")
        /\ step' = [step EXCEPT ![p] = s] /\ Drop(p, "released")
        /\ gchalt' = IF s = "off" THEN gchalt ELSE gchalt + 1
        /\ UNCHANGED <<kill, cycles>>
    BY DEF GcFree, CtlDone, At, Then, StandsIn, Interp, GcSteps
  <1>2. TypeOK /\ WhereInv /\ RunqInv /\ IprogInv /\ GcInv /\ TokenTypeOK
    BY DEF SchedInv, TokenInv
  <1>3. IF p \in Slaves THEN step[p] = "ctl" /\ s = "off"
                        ELSE step[p] \in {"idlegc", "busygc"} /\ s \in {"idlefree", "busyfree"}
    BY <1>1, <1>2 DEF WhereInv
  <1> HIDE DEF s
  <1>4. /\ pc[p] = "run" /\ pc'[p] \in {"relto", "out", "spawn"}
        /\ \A x \in Procs : x # p => pc'[x] = pc[x]
        /\ irend' = irend
    BY <1>1, <1>2, ReleasePc
  <1>5. \A x \in Procs : step'[x] = IF x = p THEN s ELSE step[x]
    BY <1>1, <1>2 DEF TypeOK
  <1>6. /\ irend = None
        /\ \A x \in Procs : x # p => step[x] \notin OwnerSteps /\ x \notin ToSet(runq)
        /\ ToSet(runq) \subseteq Progs \cup {p} /\ p \in ToSet(runq)
    BY <1>1, <1>4, Alone
  <1>7. /\ runq' = Tail(runq) /\ UNCHANGED <<iprog, pstate>>
    BY <1>1 DEF Drop
  <1>8. /\ runq' \in Seq(Progs \cup Procs) /\ IsInjective(runq')
        /\ ToSet(runq') = ToSet(runq) \ {p}
    <2>1. runq \in Seq(Progs \cup Procs) /\ IsInjective(runq) /\ Head(runq) = p
      BY <1>2, <1>6 DEF TypeOK, RunqInv
    <2>2. runq # <<>>
      BY <1>6, EmptyQueue
    <2>3. /\ Tail(runq) \in Seq(Progs \cup Procs) /\ IsInjective(Tail(runq))
          /\ Head(runq) \notin ToSet(Tail(runq))
          /\ ToSet(runq) = ToSet(Tail(runq)) \cup {Head(runq)}
      BY <2>1, <2>2, TailQueue
    <2> QED BY <1>7, <2>1, <2>3
  <1>9. GcInv' /\ gchalt' \in Nat
    <2>1. /\ step[p] \notin LockSteps /\ (s \in LockSteps <=> s # "off")
          /\ s # "off" => step[p] \in Collecting
          /\ s = "off" => s \notin Collecting
      BY <1>3 DEF LockSteps, Collecting, GcSteps
    <2> QED BY <1>1, <1>2, <1>5, <2>1, GcStep
  <1>10. TypeOK'
    <2>1. step' \in [Procs -> Steps]
      BY <1>1, <1>2, <1>3 DEF TypeOK, Steps, OffSteps
    <2> QED BY <1>1, <1>2, <1>7, <1>8, <1>9, <2>1 DEF TypeOK, TokenInv
  <1>11. WhereInv'
    <2>1. Fits(s, pc'[p]) /\ (s = "off" <=> p \in Slaves)
      BY <1>3, <1>4 DEF Fits, OffSteps, OwnerSteps, GcSteps
    <2> QED BY <1>2, <1>4, <1>5, <2>1, WhereStep
  <1>12. IprogInv'
    <2>1. step[p] \notin ProgSteps /\ s \notin ProgSteps
      BY <1>3 DEF ProgSteps
    <2> QED BY <1>2, <1>5, <1>7, <2>1, IprogSame
  <1>13. RunqInv'
    <2>1. s \notin GcSteps /\ s \notin {"xec", "back", "ctl"}
      BY <1>3 DEF GcSteps
    <2>2. \A q \in Progs : pstate'[q] = "ready" <=> q \in ToSet(runq')
      BY <1>2, <1>7, <1>8 DEF RunqInv, Ready
    <2>3. \A x \in Procs : x \notin ToSet(runq')
      BY <1>6, <1>8
    <2> QED BY <1>4, <1>5, <1>6, <1>8, <2>1, <2>2, <2>3, RunqStep
  <1> QED BY <1>9, <1>10, <1>11, <1>12, <1>13 DEF SchedInv

\* It comes back to the head of the run queue.
LEMMA StandBackInv ==
  ASSUME SchedInv, TokenInv, TokenInv', NEW p \in Procs, pc[p] = "run",
         NEW s \in {"idleend", "busyend", "ctl"},
         step[p] = IF s = "idleend" THEN "idlefree" ELSE IF s = "busyend" THEN "busyfree" ELSE "off",
         step' = [step EXCEPT ![p] = s], Restore(p),
         gchalt' = IF s = "ctl" THEN gchalt ELSE gchalt - 1,
         UNCHANGED <<kill, cycles, tokenVars>>
  PROVE  SchedInv'
  <1>1. TypeOK /\ WhereInv /\ RunqInv /\ IprogInv /\ GcInv
    BY DEF SchedInv
  <1>2. IF p \in Slaves THEN step[p] = "off" /\ s = "ctl"
        ELSE /\ step[p] \in {"idlefree", "busyfree"} /\ s \in {"idleend", "busyend"}
    BY <1>1 DEF WhereInv
  <1>3. ~Interp(p)
    BY <1>2 DEF Interp
  <1>4. runq' = <<p>> \o runq /\ UNCHANGED <<pstate, iprog>>
    BY <1>3 DEF Restore
  <1>5. \A x \in Procs : step'[x] = IF x = p THEN s ELSE step[x]
    BY <1>1 DEF TypeOK
  <1>6. /\ irend = None
        /\ \A x \in Procs : x # p => step[x] \notin OwnerSteps /\ x \notin ToSet(runq)
        /\ p \in ToSet(runq) <=> StandsIn(p)
    BY Alone
  <1>7. p \notin ToSet(runq)
    BY <1>2, <1>6 DEF StandsIn, GcSteps
  <1>8. /\ runq' \in Seq(Progs \cup Procs) /\ ToSet(runq') = ToSet(runq) \cup {p}
        /\ IsInjective(runq') /\ Head(runq') = p
    <2>1. runq \in Seq(Progs \cup Procs) /\ IsInjective(runq) /\ p \in Progs \cup Procs
      BY <1>1 DEF TypeOK, RunqInv
    <2>2. Head(<<p>> \o runq) = p
      BY <2>1
    <2> QED BY <1>4, <1>7, <2>1, <2>2, PushQueue
  <1>9. GcInv' /\ gchalt' \in Nat
    <2>1. /\ s \notin LockSteps /\ (step[p] \in LockSteps <=> s # "ctl")
          /\ s # "ctl" => step[p] \in Collecting
          /\ s = "ctl" => s \notin Collecting
      BY <1>2 DEF LockSteps, Collecting, GcSteps
    <2> QED BY <1>1, <1>5, <2>1, GcStep
  <1>10. TypeOK'
    <2>1. step' \in [Procs -> Steps]
      BY <1>1, <1>2 DEF TypeOK, Steps, GcSteps
    <2> QED BY <1>1, <1>4, <1>8, <1>9, <2>1 DEF TypeOK, TokenInv
  <1>11. WhereInv'
    <2>1. Fits(s, "run") /\ s # "off" /\ (s = "ctl" <=> p \in Slaves)
      BY <1>2 DEF Fits, OffSteps
    <2> QED BY <1>1, <1>5, <2>1, WhereStep DEF tokenVars
  <1>12. IprogInv'
    <2>1. step[p] \notin ProgSteps /\ s \notin ProgSteps
      BY <1>2 DEF ProgSteps
    <2> QED BY <1>1, <1>4, <1>5, <2>1, IprogSame
  <1>13. RunqInv'
    <2>1. s \in GcSteps \/ (p \in Slaves /\ s = "ctl")
      BY <1>2 DEF GcSteps
    <2>2. \A q \in Progs : pstate'[q] = "ready" <=> q \in ToSet(runq')
      BY <1>1, <1>4, <1>8 DEF RunqInv, Ready
    <2>3. p \in Vms => s \notin {"xec", "back", "ctl"}
      BY <1>2
    <2> QED BY <1>5, <1>6, <1>8, <2>1, <2>2, <2>3, RunqStep DEF tokenVars
  <1> QED BY <1>9, <1>10, <1>11, <1>12, <1>13 DEF SchedInv

\* acquire() gives the vmachine its Prog again, the first on the run queue.
LEMMA RestoreInv ==
  ASSUME SchedInv, TokenInv, TokenInv', NEW p \in Procs, pc[p] = "run",
         step[p] \in {"sys", "sys2", "kill", "free"}, NEW s \in {"back", "ctl"},
         step' = [step EXCEPT ![p] = s], Restore(p),
         gchalt' = IF step[p] \in LockSteps THEN gchalt - 1 ELSE gchalt,
         UNCHANGED <<kill, cycles, tokenVars>>
  PROVE  SchedInv'
  <1>1. TypeOK /\ WhereInv /\ RunqInv /\ IprogInv /\ GcInv
    BY DEF SchedInv
  <1>2. p \in Vms /\ p \notin Slaves
    BY <1>1, VmAt
  <1>3. Interp(p)
    BY <1>2 DEF Interp, GcSteps
  <1> DEFINE r == iprog[p]
  <1>4. step[p] \in ProgSteps /\ step[p] # "exit" /\ s \notin ProgSteps
    BY DEF ProgSteps
  <1>5. r \in Progs /\ pstate[r] = "released"
    BY <1>1, <1>2, <1>4 DEF IprogInv, TypeOK
  <1>6. /\ runq' = <<r>> \o runq
        /\ pstate' = [pstate EXCEPT ![r] = "ready"]
        /\ iprog' = [iprog EXCEPT ![p] = None]
    BY <1>3 DEF Restore
  <1> HIDE DEF r
  <1>7. \A x \in Procs : step'[x] = IF x = p THEN s ELSE step[x]
    BY <1>1 DEF TypeOK
  <1>8. /\ irend = None
        /\ \A x \in Procs : x # p => step[x] \notin OwnerSteps /\ x \notin ToSet(runq)
        /\ p \in ToSet(runq) <=> StandsIn(p)
    BY Alone
  <1>9. p \notin ToSet(runq) /\ r \notin ToSet(runq)
    BY <1>1, <1>2, <1>5, <1>8 DEF StandsIn, GcSteps, RunqInv, Ready
  <1>10. /\ runq' \in Seq(Progs \cup Procs) /\ ToSet(runq') = ToSet(runq) \cup {r}
         /\ IsInjective(runq') /\ Head(runq') = r /\ runq' # <<>>
    <2>1. runq \in Seq(Progs \cup Procs) /\ IsInjective(runq) /\ r \in Progs \cup Procs
      BY <1>1, <1>5 DEF TypeOK, RunqInv
    <2>2. Head(<<r>> \o runq) = r /\ <<r>> \o runq # <<>>
      BY <2>1
    <2> QED BY <1>6, <1>9, <2>1, <2>2, PushQueue
  <1>11. GcInv' /\ gchalt' \in Nat
    <2>1. s \notin LockSteps /\ s \notin Collecting
      BY DEF LockSteps, Collecting, GcSteps
    <2> QED BY <1>1, <1>7, <2>1, GcStep
  <1>12. TypeOK'
    <2>1. step' \in [Procs -> Steps]
      BY <1>1 DEF TypeOK, Steps
    <2> QED BY <1>1, <1>6, <1>10, <1>11, <2>1 DEF TypeOK, TokenInv
  <1>13. WhereInv'
    <2>1. Fits(s, "run") /\ s # "off"
      BY DEF Fits, OffSteps
    <2> QED BY <1>1, <1>2, <1>7, <2>1, WhereStep DEF tokenVars
  <1>14. \A q \in Progs : pstate'[q] = IF q = r THEN "ready" ELSE pstate[q]
    BY <1>1, <1>6 DEF TypeOK
  <1>15. IprogInv'
    <2>1. /\ step'[p] \notin ProgSteps /\ pstate'[iprog[p]] \notin {"released", "exiting"}
          /\ \A q \in Progs : q # iprog[p] => pstate'[q] = pstate[q]
      BY <1>4, <1>5, <1>7, <1>14 DEF r
    <2>2. \A x \in Procs : x # p => step'[x] = step[x]
      BY <1>7
    <2> QED BY <1>1, <1>2, <1>4, <1>6, <2>1, <2>2, IprogRestore
  <1>16. RunqInv'
    <2>1. s \notin GcSteps
      BY DEF GcSteps
    <2>2. \A q \in Progs : pstate'[q] = "ready" <=> q \in ToSet(runq')
      BY <1>1, <1>10, <1>14 DEF RunqInv, Ready
    <2>3. \A x \in Procs : x \notin ToSet(runq')
      BY <1>5, <1>8, <1>9, <1>10
    <2> QED BY <1>2, <1>5, <1>7, <1>8, <1>10, <2>1, <2>2, <2>3, RunqStep
       DEF tokenVars
  <1> QED BY <1>11, <1>12, <1>13, <1>15, <1>16 DEF SchedInv

\* delprog() frees the Prog that has exited.
LEMMA ExitedInv ==
  ASSUME SchedInv, TokenInv, TokenInv', NEW p \in Procs, pc[p] = "run",
         step[p] = "exit", NEW s \in {"loop", "halt"},
         step' = [step EXCEPT ![p] = s],
         gchalt' = gchalt - 1,
         cycles' = [cycles EXCEPT ![p] = 0],
         pstate' = [pstate EXCEPT ![iprog[p]] = "none"],
         kill' = [kill EXCEPT ![iprog[p]] = FALSE],
         iprog' = [iprog EXCEPT ![p] = None],
         UNCHANGED <<runq, tokenVars>>
  PROVE  SchedInv'
  <1>1. TypeOK /\ WhereInv /\ RunqInv /\ IprogInv /\ GcInv
    BY DEF SchedInv
  <1>2. p \in Vms /\ p \notin Slaves
    BY <1>1, VmAt
  <1> DEFINE r == iprog[p]
  <1>3. step[p] \in ProgSteps /\ s \notin ProgSteps
    BY DEF ProgSteps
  <1>4. r \in Progs /\ pstate[r] = "exiting"
    BY <1>1, <1>2, <1>3 DEF IprogInv, TypeOK
  <1>5. \A q \in Progs : pstate'[q] = IF q = r THEN "none" ELSE pstate[q]
    BY <1>1 DEF TypeOK
  <1>6. \A x \in Procs : step'[x] = IF x = p THEN s ELSE step[x]
    BY <1>1 DEF TypeOK
  <1>7. /\ irend = None
        /\ \A x \in Procs : x # p => step[x] \notin OwnerSteps /\ x \notin ToSet(runq)
        /\ p \in ToSet(runq) <=> StandsIn(p)
    BY Alone
  <1>8. p \notin ToSet(runq)
    BY <1>2, <1>7 DEF StandsIn, GcSteps
  <1>9. GcInv' /\ gchalt' \in Nat
    <2>1. step[p] \in LockSteps /\ s \notin LockSteps /\ s \notin Collecting
      BY DEF LockSteps, Collecting, GcSteps
    <2> QED BY <1>1, <1>6, <2>1, GcStep
  <1>10. TypeOK'
    <2>1. step' \in [Procs -> Steps]
      BY <1>1 DEF TypeOK, Steps
    <2>2. cycles' \in [Vms -> 0 .. MaxCycles]
      <3>1. 0 \in 0 .. MaxCycles
        OBVIOUS
      <3> QED BY <1>1, <1>2, <3>1 DEF TypeOK
    <2> QED BY <1>1, <1>9, <2>1, <2>2 DEF TypeOK, TokenInv
  <1>11. WhereInv'
    <2>1. Fits(s, "run") /\ s # "off"
      BY DEF Fits, OffSteps
    <2> QED BY <1>1, <1>2, <1>6, <2>1, WhereStep DEF tokenVars
  <1>12. IprogInv'
    <2>1. /\ step'[p] \notin ProgSteps /\ pstate'[iprog[p]] \notin {"released", "exiting"}
          /\ \A q \in Progs : q # iprog[p] => pstate'[q] = pstate[q]
      BY <1>3, <1>4, <1>5, <1>6
    <2>2. \A x \in Procs : x # p => step'[x] = step[x]
      BY <1>6
    <2> QED BY <1>1, <1>2, <1>3, <2>1, <2>2, IprogRestore
  <1>13. RunqInv'
    <2>1. s \notin GcSteps /\ s \notin {"xec", "back", "ctl"}
      BY DEF GcSteps
    <2>2. \A q \in Progs : pstate'[q] = "ready" <=> q \in ToSet(runq')
      BY <1>1, <1>4, <1>5 DEF RunqInv, Ready
    <2> QED BY <1>1, <1>2, <1>6, <1>7, <1>8, <2>1, <2>2, RunqStep
       DEF tokenVars, RunqInv
  <1> QED BY <1>9, <1>10, <1>11, <1>12, <1>13 DEF SchedInv

\* The quantum of the first Prog ends: it goes last, or it waits, or it is
\* kept for a debugger.
LEMMA QuantumInv ==
  ASSUME SchedInv, TokenInv, TokenInv', NEW p \in Procs,
         Quantum(p) \/ Block(p) \/ Break(p)
  PROVE  SchedInv'
  <1> DEFINE s == step'[p]
  <1>1. TypeOK /\ WhereInv /\ RunqInv /\ IprogInv /\ GcInv
    BY DEF SchedInv
  <1>2. /\ pc[p] = "run" /\ step[p] \in {"xec", "back"}
        /\ UNCHANGED <<tokenVars, kill, iprog, gchalt>>
    BY DEF Quantum, Block, Break, Running, At
  <1>3. p \in Vms /\ p \notin Slaves
    BY <1>1, <1>2, VmAt
  <1>4. s \in {"post", "loop"} /\ \A x \in Procs : step'[x] = IF x = p THEN s ELSE step[x]
    BY <1>1 DEF Quantum, Block, Break, Then, TypeOK
  <1>5. /\ irend = None
        /\ \A x \in Procs : x # p => step[x] \notin OwnerSteps
    BY <1>2, Alone
  <1>6. /\ runq # <<>> /\ CurRun \in Progs /\ pstate[CurRun] = "ready"
        /\ ToSet(runq) \subseteq Progs /\ ToSet(Tail(runq)) = ToSet(runq) \ {CurRun}
        /\ runq \in Seq(Progs \cup Procs) /\ Tail(runq) \in Seq(Progs \cup Procs)
        /\ IsInjective(runq) /\ IsInjective(Tail(runq))
    BY <1>2, <1>3, HeadRuns
  <1>7. /\ runq' \in Seq(Progs \cup Procs) /\ IsInjective(runq') /\ ToSet(runq') \subseteq Progs
        /\ pstate' \in [Progs -> {"none", "ready", "blocked", "released", "broken", "exiting"}]
        /\ \A q \in Progs : pstate'[q] = "ready" <=> q \in ToSet(runq')
        /\ \A q \in Progs : pstate'[q] = pstate[q]
                            \/ ({pstate[q], pstate'[q]} \cap {"released", "exiting"} = {})
    <2>1. CASE Quantum(p)
      <3>1. runq' = Rotated /\ pstate' = pstate
        BY <2>1 DEF Quantum
      <3>2. CurRun \in ToSet(runq)
        BY <1>6, TailQueue DEF CurRun
      <3> DEFINE t == Tail(runq)
      <3>3. /\ Append(t, CurRun) \in Seq(Progs \cup Procs)
            /\ ToSet(Append(t, CurRun)) = ToSet(t) \cup {CurRun}
            /\ IsInjective(Append(t, CurRun))
        <4>1. t \in Seq(Progs \cup Procs) /\ IsInjective(t) /\ CurRun \notin ToSet(t)
              /\ CurRun \in Progs \cup Procs
          BY <1>6
        <4> HIDE DEF t
        <4> QED BY <4>1, AppendQueue
      <3>4. /\ Rotated \in Seq(Progs \cup Procs) /\ IsInjective(Rotated)
            /\ ToSet(Rotated) = ToSet(runq)
        BY <1>6, <3>2, <3>3 DEF Rotated
      <3> QED BY <1>1, <1>6, <3>1, <3>4 DEF RunqInv, Ready, TypeOK
    <2>2. CASE Block(p) \/ Break(p)
      <3>1. /\ runq' = Tail(runq)
            /\ \/ pstate' = [pstate EXCEPT ![CurRun] = "blocked"]
               \/ pstate' = [pstate EXCEPT ![CurRun] = "broken"]
        BY <2>2 DEF Block, Break
      <3>2. \A q \in Progs : q # CurRun => pstate'[q] = pstate[q]
        BY <1>1, <3>1 DEF TypeOK
      <3>3. pstate'[CurRun] \in {"blocked", "broken"}
        BY <1>1, <1>6, <3>1 DEF TypeOK
      <3>4. pstate' \in [Progs -> {"none", "ready", "blocked", "released", "broken", "exiting"}]
        BY <1>1, <3>1 DEF TypeOK
      <3> QED BY <1>1, <1>6, <3>1, <3>2, <3>3, <3>4 DEF RunqInv, Ready
    <2> QED BY <2>1, <2>2
  <1> HIDE DEF s
  <1>8. GcInv'
    <2>1. step[p] \notin LockSteps /\ s \notin LockSteps /\ s \notin Collecting
      BY <1>2, <1>4 DEF LockSteps, Collecting, GcSteps
    <2> QED BY <1>1, <1>2, <1>4, <2>1, GcStep
  <1>9. TypeOK'
    <2>1. step' \in [Procs -> Steps]
      BY <1>1, <1>4 DEF Quantum, Block, Break, Then, TypeOK, Steps
    <2>2. cycles' \in [Vms -> 0 .. MaxCycles]
      <3>1. 0 \in 0 .. MaxCycles
        OBVIOUS
      <3>2. cycles' = cycles \/ cycles' = [cycles EXCEPT ![p] = 0]
        BY DEF Quantum, Block, Break
      <3> QED BY <1>1, <1>3, <3>1, <3>2 DEF TypeOK
    <2> QED BY <1>1, <1>2, <1>7, <2>1, <2>2 DEF TypeOK, TokenInv
  <1>10. WhereInv'
    <2>1. Fits(s, "run") /\ s # "off"
      BY <1>4 DEF Fits, OffSteps
    <2> QED BY <1>1, <1>2, <1>3, <1>4, <2>1, WhereStep DEF tokenVars
  <1>11. IprogInv'
    <2>1. step[p] \notin ProgSteps /\ s \notin ProgSteps
      BY <1>2, <1>4 DEF ProgSteps
    <2> QED BY <1>1, <1>2, <1>4, <1>7, <2>1, IprogSame
  <1>12. RunqInv'
    <2>1. s \notin GcSteps /\ s \notin {"xec", "back", "ctl"}
      BY <1>4 DEF GcSteps
    <2>2. \A x \in Procs : x \notin ToSet(runq')
      BY <1>7
    <2> QED BY <1>2, <1>4, <1>5, <1>7, <2>1, <2>2, RunqStep DEF tokenVars
  <1> QED BY <1>8, <1>9, <1>10, <1>11, <1>12 DEF SchedInv

\* A new Prog, or one that need not wait any more, goes last.
LEMMA AddInv ==
  ASSUME SchedInv, TokenInv, TokenInv', NEW p \in Procs, NEW q \in Progs,
         AddRun(p, q) \/ NewProg(p, q)
  PROVE  SchedInv'
  <1>1. TypeOK /\ WhereInv /\ RunqInv /\ IprogInv /\ GcInv
    BY DEF SchedInv
  <1>2. /\ pc[p] = "run"
        /\ step[p] = "xec" \/ (p \in Slaves /\ step[p] = "ctl")
        /\ pstate[q] \in {"blocked", "none"}
        /\ runq' = Append(runq, q) /\ pstate' = [pstate EXCEPT ![q] = "ready"]
        /\ UNCHANGED <<tokenVars, kill, iprog, step, cycles, gchalt>>
    BY DEF AddRun, NewProg, Running, At
  <1>3. /\ irend = None
        /\ \A x \in Procs : x # p => step[x] \notin OwnerSteps /\ x \notin ToSet(runq)
        /\ p \in ToSet(runq) <=> StandsIn(p)
    BY <1>2, Alone
  <1>4. runq \in Seq(Progs \cup Procs) /\ IsInjective(runq) /\ q \notin ToSet(runq)
    BY <1>1, <1>2 DEF TypeOK, RunqInv, Ready
  <1>5. /\ runq' \in Seq(Progs \cup Procs) /\ runq' # <<>>
        /\ ToSet(runq') = ToSet(runq) \cup {q} /\ IsInjective(runq')
        /\ runq # <<>> => Head(runq') = Head(runq)
    <2>1. q \in Progs \cup Procs
      OBVIOUS
    <2> QED BY <1>2, <1>4, <2>1, AppendQueue
  <1>6. \A r \in Progs : pstate'[r] = IF r = q THEN "ready" ELSE pstate[r]
    BY <1>1, <1>2 DEF TypeOK
  <1>7. GcInv'
    <2>1. Locking' = Locking /\ (OneCollector <=> OneCollector')
      BY <1>2 DEF Locking, OneCollector
    <2> QED BY <1>1, <1>2, <2>1 DEF GcInv
  <1>8. TypeOK'
    BY <1>1, <1>2, <1>5 DEF TypeOK, TokenInv
  <1>9. WhereInv'
    BY <1>1, <1>2 DEF WhereInv, tokenVars
  <1>10. IprogInv'
    <2>1. \A r \in Progs : pstate'[r] = pstate[r]
                           \/ ({pstate[r], pstate'[r]} \cap {"released", "exiting"} = {})
      BY <1>2, <1>6
    <2> QED BY <1>1, <1>2, <2>1, IprogSame
  <1>11. RunqInv'
    <2>1. \A r \in Progs : pstate'[r] = "ready" <=> r \in ToSet(runq')
      BY <1>1, <1>5, <1>6 DEF RunqInv, Ready
    <2>2. p \in ToSet(runq') <=> p \in ToSet(runq)
      BY <1>5
    <2>3. p \in ToSet(runq') => Head(runq') = p
      BY <1>1, <1>4, <1>5, <2>2, EmptyQueue DEF RunqInv
    <2>4. step'[p] \in {"xec", "back", "ctl"} /\ p \in Vms => runq' # <<>> /\ Head(runq') \in Progs
      BY <1>1, <1>2, <1>5 DEF RunqInv
    <2>5. \A x \in Procs : x # p => step'[x] = step[x] /\ step[x] \notin OwnerSteps
                                    /\ x \notin ToSet(runq')
      BY <1>2, <1>3, <1>5
    <2>6. p \in ToSet(runq') <=> step'[p] \in GcSteps \/ (p \in Slaves /\ step'[p] = "ctl")
      BY <1>2, <1>3, <2>2 DEF StandsIn
    <2> QED BY <1>2, <1>3, <1>5, <2>1, <2>3, <2>4, <2>5, <2>6, RunqStep
       DEF tokenVars
  <1> QED BY <1>7, <1>8, <1>9, <1>10, <1>11 DEF SchedInv

\* A Prog is killed, or told to die when it runs next.
LEMMA KillInv ==
  ASSUME SchedInv, TokenInv, TokenInv', NEW p \in Procs, NEW q \in Progs, KillProg(p, q)
  PROVE  SchedInv'
  <1>1. TypeOK /\ WhereInv /\ RunqInv /\ IprogInv /\ GcInv
    BY DEF SchedInv
  <1>2. p \in Vms /\ pc[p] = "run" /\ step[p] = "ctl" /\ Exists(q)
    BY DEF KillProg, At
  <1>3. CASE q = CurRun \/ pstate[q] = "released"
    <2>1. kill' = [kill EXCEPT ![q] = TRUE]
          /\ UNCHANGED <<tokenVars, runq, pstate, iprog, step, cycles, gchalt>>
      BY <1>3 DEF KillProg
    <2>2. TypeOK'
      BY <1>1, <2>1 DEF TypeOK, TokenInv
    <2>3. WhereInv' /\ RunqInv' /\ IprogInv'
      BY <1>1, <2>1 DEF WhereInv, RunqInv, Ready, StandsIn, IprogInv, tokenVars
    <2>4. Locking' = Locking /\ (OneCollector <=> OneCollector')
      BY <2>1 DEF Locking, OneCollector
    <2> QED BY <1>1, <2>1, <2>2, <2>3, <2>4 DEF SchedInv, GcInv
  <1>4. CASE ~(q = CurRun \/ pstate[q] = "released")
    <2>1. /\ gchalt' = gchalt + 1
          /\ Release(p)
          /\ runq' = Tail(RemoveFirst(runq, q))
          /\ pstate' = [pstate EXCEPT ![q] = "none", ![CurRun] = "released"]
          /\ kill' = [kill EXCEPT ![q] = FALSE]
          /\ iprog' = [iprog EXCEPT ![p] = CurRun]
          /\ step' = [step EXCEPT ![p] = "kill"]
          /\ UNCHANGED cycles
      BY <1>4 DEF KillProg, Then
    <2>2. /\ runq # <<>> /\ CurRun \in Progs /\ runq \in Seq(Progs \cup Procs) /\ IsInjective(runq)
      BY <1>2, HeadRuns
    <2> DEFINE r == RemoveFirst(runq, q)
    <2>3. /\ r \in Seq(Progs \cup Procs) /\ ToSet(r) = ToSet(runq) \ {q} /\ IsInjective(r)
          /\ r # <<>> /\ Head(r) = CurRun
      BY <1>4, <2>2, RemoveQueue DEF CurRun
    <2> HIDE DEF r
    <2>4. /\ Tail(r) \in Seq(Progs \cup Procs) /\ IsInjective(Tail(r))
          /\ ToSet(Tail(r)) = ToSet(r) \ {CurRun}
      BY <2>3, TailQueue
    <2> DEFINE s == "kill"
               K == {q}
    <2>5. runq' \in Seq(Progs \cup Procs) /\ IsInjective(runq')
          /\ ToSet(runq') = ToSet(runq) \ ({CurRun} \cup K)
      BY <2>1, <2>3, <2>4 DEF r
    <2>6. pstate' = [x \in Progs |->
                      IF x = CurRun THEN IF s = "exit" THEN "exiting" ELSE "released"
                      ELSE IF x \in K THEN "none" ELSE pstate[x]]
      BY <1>1, <1>4, <2>1, <2>2 DEF TypeOK
    <2>7. /\ s \in ProgSteps /\ gchalt' = IF s \in LockSteps THEN gchalt + 1 ELSE gchalt
          /\ step[p] \in {"xec", "back", "ctl"} /\ step' = [step EXCEPT ![p] = s]
      BY <1>2, <2>1 DEF ProgSteps, LockSteps
    <2>8. /\ K \in SUBSET Progs /\ CurRun \notin K
          /\ \A x \in K : pstate[x] \notin {"released", "exiting"}
      BY <1>2, <1>4 DEF Exists
    <2>9. kill' \in [Progs -> BOOLEAN]
      BY <1>1, <2>1 DEF TypeOK
    <2> HIDE DEF s, K
    <2>10. Release(p) /\ UNCHANGED cycles /\ iprog' = [iprog EXCEPT ![p] = CurRun]
      BY <2>1
    <2> QED BY <1>2, <2>5, <2>6, <2>7, <2>8, <2>9, <2>10, SaveInv
  <1> QED BY <1>3, <1>4

\* vmachine() between two quanta.
LEMMA VmachineInv ==
  ASSUME SchedInv, TokenInv, TokenInv', NEW p \in Procs,
         Loop(p) \/ Sleep(p) \/ Poll(p) \/ Pick(p) \/ Post(p) \/ Rescue(p)
  PROVE  SchedInv'
  <1>1. TypeOK /\ WhereInv /\ TokenTypeOK
    BY DEF SchedInv, TokenInv
  <1>2. kill \in [Progs -> BOOLEAN] /\ cycles \in [Vms -> 0 .. MaxCycles]
    BY <1>1 DEF TypeOK
  <1>3. CASE Loop(p)
    <2>1. pc[p] = "run" /\ step[p] = "loop" /\ UNCHANGED cycles
      BY <1>3 DEF Loop, At
    <2>2. ASSUME NEW s \in {"poll", "sleep"}, Move(p, s) PROVE SchedInv'
      <3>1. /\ step' = [step EXCEPT ![p] = s]
            /\ UNCHANGED <<tokenVars, runq, pstate, kill, iprog, gchalt>>
        BY <2>2 DEF Move, Then, progVars
      <3>2. irend = None
        BY <2>1, Alone
      <3>3. Fits(s, "run") /\ s # "xec"
        BY DEF Fits, OffSteps
      <3> QED BY <1>2, <2>1, <3>1, <3>2, <3>3, MoveInv DEF tokenVars
    <2>3. ASSUME ~TReady, gchalt = 0, runq' = Append(runq, p), Then(p, "idlegc"),
                 UNCHANGED <<tokenVars, pstate, kill, iprog, gchalt>>
          PROVE  SchedInv'
      <3>1. runq = <<>> /\ step' = [step EXCEPT ![p] = "idlegc"]
        BY <2>3 DEF TReady, Then
      <3> QED BY <2>1, <2>3, <3>1, StandInv
    <2> QED BY <1>3, <2>2, <2>3 DEF Loop
  <1>4. CASE Sleep(p)
    <2>1. /\ pc[p] = "run" /\ step[p] = "sleep" /\ step' = [step EXCEPT ![p] = "poll"]
          /\ UNCHANGED <<runq, pstate, kill, iprog, gchalt, cycles>>
      BY <1>4 DEF Sleep, At, Then, progVars
    <2>2. /\ \A x \in Procs : x # p => pc'[x] = pc[x]
          /\ pc'[p] \in {"run", "sleepw"}
          /\ irend' # None => runq = <<>>
      <3>1. CASE UNCHANGED tokenVars
        BY <2>1, <3>1, Alone DEF tokenVars
      <3>2. CASE ~TReady /\ SleepOwner(p)
        BY <1>1, <3>2 DEF TReady, SleepOwner, Goto, TokenTypeOK
      <3> QED BY <1>4, <3>1, <3>2 DEF Sleep
    <2>3. Fits("poll", pc'[p])
      BY <2>2 DEF Fits, OwnerSteps, OffSteps, GcSteps
    <2> QED BY <1>2, <2>1, <2>2, <2>3, MoveInv
  <1>5. CASE Poll(p)
    <2>1. /\ pc[p] = "run" /\ step[p] = "poll" /\ step' = [step EXCEPT ![p] = "pick"]
          /\ UNCHANGED <<runq, pstate, kill, iprog, gchalt>>
      BY <1>5 DEF Poll, At, Then, progVars
    <2>2. /\ \A x \in Procs : x # p => pc'[x] = pc[x]
          /\ pc'[p] \in {"run", "yieldto"}
          /\ irend' = irend
      <3>1. CASE UNCHANGED tokenVars
        BY <2>1, <3>1 DEF tokenVars
      <3>2. CASE IYield(p)
        BY <1>1, <3>2 DEF IYield, Goto, TokenTypeOK
      <3> QED BY <1>5, <3>1, <3>2 DEF Poll
    <2>3. Fits("pick", pc'[p])
      BY <2>2 DEF Fits, OwnerSteps, OffSteps, GcSteps
    <2>4. p \in Vms
      BY <1>1, <2>1, VmAt
    <2>5. cycles' \in [Vms -> 0 .. MaxCycles]
      <3>1. cycles[p] \in 0 .. MaxCycles /\ 0 \in 0 .. MaxCycles
        BY <1>2, <2>4
      <3>2. cycles[p] + 1 <= MaxCycles => cycles[p] + 1 \in 0 .. MaxCycles
        BY <3>1
      <3>3. \/ cycles' = cycles \/ cycles' = [cycles EXCEPT ![p] = 0]
            \/ cycles[p] + 1 <= MaxCycles /\ cycles' = [cycles EXCEPT ![p] = cycles[p] + 1]
        BY <1>5 DEF Poll
      <3> QED BY <1>2, <3>1, <3>2, <3>3
    <2>6. irend = None
      BY <2>1, Alone
    <2> QED BY <1>2, <2>1, <2>2, <2>3, <2>5, <2>6, MoveInv
  <1>6. CASE Pick(p)
    <2> DEFINE s == IF runq = <<>> THEN "loop" ELSE "xec"
    <2>1. /\ pc[p] = "run" /\ step[p] = "pick" /\ step' = [step EXCEPT ![p] = s]
          /\ UNCHANGED <<tokenVars, runq, pstate, kill, iprog, gchalt, cycles>>
      BY <1>6 DEF Pick, Move, At, Then, progVars
    <2>2. s \in {"loop", "xec"} /\ (s = "xec" => runq # <<>>)
      OBVIOUS
    <2> HIDE DEF s
    <2>3. irend = None
      BY <2>1, Alone
    <2>4. Fits(s, "run")
      BY <2>2 DEF Fits, OffSteps
    <2> QED BY <1>2, <2>1, <2>2, <2>3, <2>4, MoveInv DEF tokenVars
  <1>7. CASE Post(p)
    <2>1. /\ pc[p] = "run" /\ step[p] = "post"
          /\ UNCHANGED <<cycles, tokenVars, pstate, kill, iprog, gchalt>>
      BY <1>7 DEF Post, At
    <2>2. CASE Then(p, "loop") /\ UNCHANGED runq
      <3>1. step' = [step EXCEPT ![p] = "loop"]
        BY <2>2 DEF Then
      <3>2. irend = None
        BY <2>1, Alone
      <3>3. Fits("loop", "run")
        BY DEF Fits, OffSteps
      <3> QED BY <1>2, <2>1, <2>2, <3>1, <3>2, <3>3, MoveInv DEF tokenVars
    <2>3. CASE gchalt = 0 /\ runq' = <<p>> \o runq /\ Then(p, "busygc")
      <3>1. step' = [step EXCEPT ![p] = "busygc"]
        BY <2>3 DEF Then
      <3> QED BY <2>1, <2>3, <3>1, StandInv
    <2> QED BY <1>7, <2>2, <2>3 DEF Post
  <1>8. CASE Rescue(p)
    <2>1. /\ pc[p] = "run" /\ step[p] \in {"xec", "back"}
          /\ step' = [step EXCEPT ![p] = "loop"]
          /\ kill' = [kill EXCEPT ![CurRun] = FALSE]
          /\ cycles' = [cycles EXCEPT ![p] = 0]
          /\ UNCHANGED <<tokenVars, runq, pstate, iprog, gchalt>>
      BY <1>8 DEF Rescue, Running, At, Then
    <2>2. p \in Vms
      BY <1>1, <2>1, VmAt
    <2>3. cycles' \in [Vms -> 0 .. MaxCycles]
      <3>1. 0 \in 0 .. MaxCycles
        OBVIOUS
      <3> QED BY <1>2, <2>1, <3>1
    <2>4. kill' \in [Progs -> BOOLEAN]
      BY <1>2, <2>1
    <2>5. irend = None
      BY <2>1, Alone
    <2>6. Fits("loop", "run")
      BY DEF Fits, OffSteps
    <2> QED BY <2>1, <2>3, <2>4, <2>5, <2>6, MoveInv DEF tokenVars
  <1> QED BY <1>3, <1>4, <1>5, <1>6, <1>7, <1>8

\* A process has the machine again.
LEMMA ResumeInv ==
  ASSUME SchedInv, TokenInv, TokenInv', NEW p \in Procs, Resume(p)
  PROVE  SchedInv'
  <1>1. pc[p] = "run" /\ UNCHANGED tokenVars
    BY DEF Resume
  <1>2. CASE step[p] \in {"sys", "sys2"} /\ Then(p, "back") /\ Restore(p)
             /\ UNCHANGED <<kill, cycles, gchalt>>
    <2>1. step' = [step EXCEPT ![p] = "back"] /\ step[p] \notin LockSteps
      BY <1>2 DEF Then, LockSteps
    <2> QED BY <1>1, <1>2, <2>1, RestoreInv
  <1>3. CASE step[p] = "sys" /\ Then(p, "ctl") /\ Restore(p)
             /\ UNCHANGED <<kill, cycles, gchalt>>
    <2>1. step' = [step EXCEPT ![p] = "ctl"] /\ step[p] \notin LockSteps
      BY <1>3 DEF Then, LockSteps
    <2> QED BY <1>1, <1>3, <2>1, RestoreInv
  <1>4. CASE step[p] = "off" /\ Then(p, "ctl") /\ Restore(p)
             /\ UNCHANGED <<kill, cycles, gchalt>>
    <2> DEFINE s == "ctl"
    <2>1. step' = [step EXCEPT ![p] = s]
      BY <1>4 DEF Then
    <2>2. s \in {"idleend", "busyend", "ctl"} /\ s = "ctl"
      OBVIOUS
    <2> HIDE DEF s
    <2> QED BY <1>1, <1>4, <2>1, <2>2, StandBackInv
  <1>5. CASE step[p] \in {"kill", "free"} /\ Then(p, Resumed[step[p]]) /\ Restore(p)
             /\ gchalt' = gchalt - 1 /\ UNCHANGED <<kill, cycles>>
    <2>1. \E s \in {"ctl", "back"} : step' = [step EXCEPT ![p] = s]
      <3>1. Resumed["kill"] = "ctl" /\ Resumed["free"] = "back"
        BY DEF Resumed
      <3> QED BY <1>5, <3>1 DEF Then
    <2>2. step[p] \in LockSteps
      BY <1>5 DEF LockSteps
    <2> QED BY <1>1, <1>5, <2>1, <2>2, RestoreInv
  <1>6. CASE step[p] \in {"idlefree", "busyfree"} /\ Then(p, Resumed[step[p]]) /\ Restore(p)
             /\ gchalt' = gchalt - 1 /\ UNCHANGED <<kill, cycles>>
    <2> DEFINE s == IF step[p] = "idlefree" THEN "idleend" ELSE "busyend"
    <2>1. step' = [step EXCEPT ![p] = s]
      <3>1. Resumed["idlefree"] = "idleend" /\ Resumed["busyfree"] = "busyend"
        BY DEF Resumed
      <3> QED BY <1>6, <3>1 DEF Then
    <2>2. /\ s \in {"idleend", "busyend", "ctl"} /\ s # "ctl"
          /\ step[p] = IF s = "idleend" THEN "idlefree" ELSE IF s = "busyend" THEN "busyfree" ELSE "off"
      BY <1>6
    <2> HIDE DEF s
    <2> QED BY <1>1, <1>6, <2>1, <2>2, StandBackInv
  <1>7. CASE /\ step[p] = "exit"
             /\ Then(p, IF \E q \in Progs : Exists(q) THEN "loop" ELSE "halt")
             /\ gchalt' = gchalt - 1
             /\ cycles' = [cycles EXCEPT ![p] = 0]
             /\ pstate' = [pstate EXCEPT ![iprog[p]] = "none"]
             /\ kill' = [kill EXCEPT ![iprog[p]] = FALSE]
             /\ iprog' = [iprog EXCEPT ![p] = None]
             /\ UNCHANGED runq
    <2>1. \E s \in {"loop", "halt"} : step' = [step EXCEPT ![p] = s]
      BY <1>7 DEF Then
    <2> QED BY <1>1, <1>7, <2>1, ExitedInv
  <1> QED BY <1>2, <1>3, <1>4, <1>5, <1>6, <1>7 DEF Resume

\* A process that waits, and the one that lets it go on.
LEMMA WaitingInv ==
  ASSUME SchedInv, TokenInv, TokenInv', NEW p \in Procs, Pass(p) \/ Return(p)
  PROVE  SchedInv'
  <1>1. TypeOK /\ WhereInv /\ RunqInv /\ IprogInv /\ GcInv /\ TokenTypeOK
    BY DEF SchedInv, TokenInv
  <1>2. UNCHANGED <<runq, pstate, kill, iprog, step, cycles, gchalt>>
    BY DEF Pass, Return, schedVars
  <1>3. TypeOK'
    BY <1>1, <1>2 DEF TypeOK, TokenInv
  <1>4. IprogInv' /\ GcInv'
    <2>1. Locking' = Locking /\ (OneCollector <=> OneCollector')
      BY <1>2 DEF Locking, OneCollector
    <2> QED BY <1>1, <1>2, <2>1 DEF IprogInv, GcInv
  <1>5. irend' = irend \/ irend' = None
    BY DEF Pass, Return, Acquire, WakeOwner, Startup, Meet, SpawnVm
  <1>6. RunqInv'
    BY <1>1, <1>2, <1>5 DEF RunqInv, Ready, StandsIn
  <1>7. \A x \in Procs : step[x] \in {"loop", "poll", "pick"} \cup OwnerSteps \cup OffSteps
    BY <1>1 DEF TypeOK, Steps, OwnerSteps
  <1>8. \A x \in Procs : Fits(step[x], pc'[x])
    <2>1. ASSUME NEW x \in Procs, pc[x] \in {"out", "spawn", "wake", "wakerv", "acqw", "relto"},
                 pc'[x] \in {"out", "wake", "wakerv", "acqw", "run"}
          PROVE  Fits(step[x], pc'[x])
      <3>1. step[x] \in OffSteps
        BY <1>1, <1>7, <2>1 DEF WhereInv, Fits
      <3> QED BY <2>1, <3>1 DEF Fits, OffSteps, OwnerSteps, GcSteps
    <2>2. ASSUME NEW x \in Procs, pc[x] \in {"unborn", "startup"},
                 pc'[x] \in {"startup", "stwait", "run"}
          PROVE  Fits(step[x], pc'[x])
      <3>1. step[x] = "loop"
        BY <1>1, <1>7, <2>2 DEF WhereInv, Fits
      <3> QED BY <2>2, <3>1 DEF Fits, OffSteps, OwnerSteps, GcSteps
    <2>3. ASSUME NEW x \in Procs, pc[x] = "yieldto", pc'[x] = "yieldw"
          PROVE  Fits(step[x], pc'[x])
      <3>1. step[x] = "pick"
        BY <1>1, <1>7, <2>3 DEF WhereInv, Fits
      <3> QED BY <2>3, <3>1 DEF Fits, OffSteps, OwnerSteps, GcSteps
    <2>4. ASSUME NEW x \in Procs, pc'[x] = "run" PROVE Fits(step[x], pc'[x])
      BY <2>4 DEF Fits
    <2>5. ASSUME NEW x \in Procs, pc'[x] = pc[x] PROVE Fits(step[x], pc'[x])
      BY <1>1, <2>5 DEF WhereInv
    <2>6. CASE WakeOwner(p) \/ Acquire(p)
      <3>1. /\ pc[p] \in {"out", "wake"} /\ pc'[p] \in {"wake", "wakerv", "acqw", "run"}
            /\ \A x \in Procs : x # p => pc'[x] = pc[x]
        BY <1>1, <2>6 DEF WakeOwner, Acquire, Goto, TokenTypeOK
      <3> QED BY <2>1, <2>5, <3>1
    <2>7. CASE Startup(p)
      <3>1. /\ pc[p] = "startup" /\ pc'[p] \in {"stwait", "run"}
            /\ \A x \in Procs : x # p => pc'[x] = pc[x]
        BY <1>1, <2>7 DEF Startup, Goto, TokenTypeOK
      <3> QED BY <2>2, <2>5, <3>1
    <2>8. ASSUME NEW v \in Vms, SpawnVm(p, v) PROVE \A x \in Procs : Fits(step[x], pc'[x])
      <3>1. /\ pc[p] = "spawn" /\ pc'[p] = "out" /\ pc[v] = "unborn" /\ pc'[v] = "startup"
            /\ \A x \in Procs : x # p /\ x # v => pc'[x] = pc[x]
        BY <1>1, <2>8 DEF SpawnVm, TokenTypeOK
      <3> QED BY <2>1, <2>2, <2>5, <3>1
    <2>9. ASSUME NEW q \in Procs, Meet(p, q) PROVE \A x \in Procs : Fits(step[x], pc'[x])
      <3>1. /\ pc'[p] = After(pc[p]) /\ pc'[q] = After(pc[q]) /\ p # q
            /\ pc[p] \in HandOff \cup Waking /\ pc[q] \in SelfWait
            /\ \A x \in Procs : x # p /\ x # q => pc'[x] = pc[x]
        BY <1>1, <2>9 DEF Meet, TokenTypeOK, HandOff, Waking, SelfWait
      <3>2. pc'[q] = "run"
        BY <3>1 DEF After, SelfWait
      <3>3. \/ pc[p] = "relto" /\ pc'[p] = "out"
            \/ pc[p] = "wakerv" /\ pc'[p] = "acqw"
            \/ pc[p] = "yieldto" /\ pc'[p] = "yieldw"
        BY <3>1 DEF After, HandOff, Waking
      <3>4. Fits(step[p], pc'[p])
        BY <2>1, <2>3, <3>3
      <3> QED BY <2>4, <2>5, <3>1, <3>2, <3>4
    <2> QED BY <2>6, <2>7, <2>8, <2>9 DEF Pass, Return
  <1>9. WhereInv'
    BY <1>1, <1>2, <1>8 DEF WhereInv
  <1> QED BY <1>3, <1>4, <1>6, <1>9 DEF SchedInv

-----------------------------------------------------------------------------
\* schedmod() and disinit() start with one Prog and one vmachine.
LEMMA InitSched == Init => SchedInv
  <1> SUFFICES ASSUME Init PROVE SchedInv
    OBVIOUS
  <1>1. TokenInv
    BY InitInv DEF Init
  <1>2. /\ runq = <<Root>> /\ ToSet(runq) = {Root} /\ IsInjective(runq)
        /\ runq \in Seq(Progs \cup Procs)
    BY DEF Init, ToSet, IsInjective
  <1>3. /\ \A q \in Progs : pstate[q] = IF q = Root THEN "ready" ELSE "none"
        /\ \A p \in Procs : step[p] = IF p \in Vms THEN "loop" ELSE "off"
        /\ \A v \in Vms : iprog[v] = None
        /\ gchalt = 0 /\ irend = None
    BY DEF Init, TokenInit
  <1>4. TypeOK
    <2>1. 0 \in 0 .. MaxCycles
      OBVIOUS
    <2>2. /\ step \in [Procs -> Steps]
          /\ cycles \in [Vms -> 0 .. MaxCycles]
          /\ iprog \in [Vms -> Progs \cup {None}]
          /\ kill \in [Progs -> BOOLEAN]
          /\ pstate \in [Progs -> {"none", "ready", "blocked", "released", "broken", "exiting"}]
      BY <2>1 DEF Init, Steps, OffSteps
    <2> QED BY <1>1, <1>2, <1>3, <2>2 DEF TypeOK, TokenInv
  <1>5. WhereInv
    <2>1. \A p \in Procs : pc[p] = IF p = Main THEN "run" ELSE IF p \in Vms THEN "unborn" ELSE "out"
      BY DEF Init, TokenInit
    <2> QED BY <1>3, <2>1 DEF WhereInv, Fits, OwnerSteps, OffSteps, GcSteps
  <1>6. RunqInv
    BY <1>2, <1>3 DEF RunqInv, Ready, StandsIn, GcSteps
  <1>7. IprogInv
    BY <1>3 DEF IprogInv, ProgSteps
  <1>8. GcInv
    <2>1. Locking = {}
      BY <1>3 DEF Locking, LockSteps
    <2>2. OneCollector
      BY <1>3 DEF OneCollector, GcSteps
    <2> QED BY <1>3, <2>1, <2>2, FS_EmptySet DEF GcInv
  <1> QED BY <1>4, <1>5, <1>6, <1>7, <1>8 DEF SchedInv

\* Each step of the interpreter keeps the invariant.
LEMMA NextSched == SchedInv /\ TokenInv /\ TokenInv' /\ [Next]_vars => SchedInv'
  <1> SUFFICES ASSUME SchedInv, TokenInv, TokenInv', [Next]_vars PROVE SchedInv'
    OBVIOUS
  <1>1. CASE UNCHANGED vars
    <2>1. /\ UNCHANGED <<runq, pstate, kill, iprog, step, cycles, gchalt>>
          /\ pc' = pc /\ irend' = irend
      BY <1>1 DEF vars, schedVars, tokenVars
    <2>2. TypeOK'
      BY <2>1 DEF SchedInv, TypeOK, TokenInv
    <2>3. Locking' = Locking /\ (OneCollector <=> OneCollector')
      BY <2>1 DEF Locking, OneCollector
    <2> QED BY <2>1, <2>2, <2>3
        DEF SchedInv, WhereInv, RunqInv, Ready, StandsIn, IprogInv, GcInv
  <1>2. ASSUME NEW p \in Procs, Pass(p) \/ Return(p) PROVE SchedInv'
    BY <1>2, WaitingInv
  <1>3. ASSUME NEW p \in Procs, Owned(p) PROVE SchedInv'
    <2>1. p \in Vms \/ p \in Slaves
      OBVIOUS
    <2>2. CASE Loop(p) \/ Sleep(p) \/ Poll(p) \/ Pick(p) \/ Post(p) \/ Rescue(p)
      BY <2>2, VmachineInv
    <2>3. CASE GcDone(p)
      BY <2>3, GcDoneInv
    <2>4. CASE GcFree(p)
      BY <2>4, StandDropInv
    <2>5. CASE Quantum(p) \/ Block(p) \/ Break(p)
      BY <2>5, QuantumInv
    <2>6. CASE SysCall(p) \/ Free(p) \/ Exit(p) \/ CtlDone(p)
      <3>1. CASE p \in Vms
        BY <2>6, <3>1, DropInv
      <3>2. CASE p \in Slaves
        <4>1. step[p] # "xec" /\ step[p] # "back"
          BY <3>2 DEF SchedInv, WhereInv
        <4>2. CtlDone(p)
          BY <2>6, <4>1 DEF SysCall, Free, Exit, Running, At
        <4> QED BY <3>2, <4>2, StandDropInv
      <3> QED BY <2>1, <3>1, <3>2
    <2>7. ASSUME NEW q \in Progs, AddRun(p, q) \/ NewProg(p, q) \/ KillProg(p, q)
          PROVE  SchedInv'
      BY <2>7, AddInv, KillInv
    <2>8. CASE Resume(p)
      BY <2>8, ResumeInv
    <2>9. CASE Halt(p)
      BY <1>1, <2>9 DEF Halt
    <2> QED BY <1>3, <2>2, <2>3, <2>4, <2>5, <2>6, <2>7, <2>8, <2>9 DEF Owned
  <1> QED BY <1>1, <1>2, <1>3 DEF Next

\* The invariant of the Progs holds, for any number of Progs and vmachines.
THEOREM SchedInvHolds == Spec => []SchedInv
  <1>1. Init => SchedInv
    BY InitSched
  <1>2. SchedInv /\ TokenInv /\ TokenInv' /\ [Next]_vars => SchedInv'
    BY NextSched
  <1> QED BY <1>1, <1>2, SchedTokenSafe, PTL DEF Spec

\* Every variable of dis.c holds what its type says.
THEOREM TypeCorrect == Spec => []TypeOK
  <1>1. SchedInv => TypeOK
    BY DEF SchedInv
  <1> QED BY <1>1, SchedInvHolds, PTL

\* release() finds the Prog of its caller at the head of the run queue.
THEOREM HeadIsOwnHolds == Spec => []HeadIsOwn
  <1>1. SchedInv /\ TokenInv => HeadIsOwn
    <2> SUFFICES ASSUME SchedInv, TokenInv, NEW p \in Procs, pc[p] = "run"
                 PROVE  /\ step[p] \in {"xec", "back", "ctl"} /\ Interp(p) =>
                             runq # <<>> /\ CurRun \in Progs
                        /\ step[p] \in GcSteps \cup {"ctl"} /\ ~Interp(p) =>
                             runq # <<>> /\ CurRun = p
                        /\ step[p] \notin GcSteps \cup {"ctl"} => ToSet(runq) \subseteq Progs
      BY DEF HeadIsOwn
    <2>1. RunqInv /\ WhereInv
      BY DEF SchedInv
    <2>2. /\ p \in ToSet(runq) <=> StandsIn(p)
          /\ ToSet(runq) \subseteq Progs \cup {p}
      BY Alone
    <2>3. ASSUME step[p] \in {"xec", "back", "ctl"}, Interp(p)
          PROVE  runq # <<>> /\ CurRun \in Progs
      BY <2>1, <2>3 DEF RunqInv, Interp, CurRun
    <2>4. ASSUME step[p] \in GcSteps \cup {"ctl"}, ~Interp(p)
          PROVE  runq # <<>> /\ CurRun = p
      <3>1. StandsIn(p)
        BY <2>4 DEF StandsIn, Interp, GcSteps
      <3> QED BY <2>1, <2>2, <3>1, EmptyQueue DEF RunqInv, CurRun
    <2>5. ASSUME step[p] \notin GcSteps \cup {"ctl"} PROVE ToSet(runq) \subseteq Progs
      BY <2>2, <2>5 DEF StandsIn
    <2> QED BY <2>3, <2>4, <2>5
  <1> QED BY <1>1, SchedInvHolds, SchedTokenSafe, PTL

\* A ready Prog is on the run queue once, and a released one will be restored
\* by the one process that keeps it.
THEOREM ProgsAccountedHolds == Spec => []ProgsAccounted
  <1>1. SchedInv => ProgsAccounted
    <2> SUFFICES ASSUME SchedInv PROVE ProgsAccounted
      OBVIOUS
    <2>1. \A v \in Vms : iprog[v] # None => pstate[iprog[v]] \in {"released", "exiting"}
      BY DEF SchedInv, IprogInv
    <2> QED BY <2>1 DEF SchedInv, RunqInv, IprogInv, ProgsAccounted
  <1> QED BY <1>1, SchedInvHolds, PTL

-----------------------------------------------------------------------------
(***************************************************************************)
(* How many vmachines there can be.                                        *)
(***************************************************************************)
\* Who is about to make a vmachine was so before, or has just found nobody to
\* give the machine to.
LEMMA SpawnFrom ==
  ASSUME TokenInv, [TokenNext]_tokenVars, NEW p \in Procs, pc'[p] = "spawn"
  PROVE  \/ pc[p] = "spawn" /\ Born' = Born
         \/ vmq' = <<>> /\ idlevmq' = <<>> /\ idle'
  <1>1. TokenTypeOK /\ \A x, y \in Coming : x = y
    BY DEF TokenInv, VmComes
  <1>2. CASE UNCHANGED tokenVars
    BY <1>2 DEF tokenVars, Born
  <1>3. ASSUME NEW x \in Procs, Release(x)
        PROVE  \/ pc[p] = "spawn" /\ Born' = Born
               \/ vmq' = <<>> /\ idlevmq' = <<>> /\ idle'
    <2>1. CASE HandOver(x)
      <3>1. \A y \in Procs : pc'[y] = IF y = x THEN "relto" ELSE pc[y]
        BY <1>1, <2>1 DEF HandOver, Goto, TokenTypeOK
      <3> QED BY <1>3, <3>1 DEF Born, Release
    <2>2. CASE \E c : LeaveIdle(x, c)
      BY <2>2 DEF LeaveIdle
    <2> QED BY <1>3, <2>1, <2>2 DEF Release
  <1>4. ASSUME NEW x \in Procs, NEW v \in Vms, SpawnVm(x, v) PROVE FALSE
    <2>1. /\ pc[x] = "spawn" /\ pc[v] = "unborn" /\ pc'[x] = "out"
          /\ \A y \in Procs : y # x /\ y # v => pc'[y] = pc[y]
          /\ pc'[v] = "startup"
      BY <1>1, <1>4 DEF SpawnVm, TokenTypeOK
    <2>2. p # x /\ p # v /\ pc[p] = "spawn"
      BY <2>1
    <2> QED BY <1>1, <2>1, <2>2 DEF Coming
  <1>5. ASSUME NEW x \in Procs, NEW c \in PC \ {"unborn", "spawn"}, pc[x] # "unborn", Goto(x, c)
        PROVE  pc[p] = "spawn" /\ Born' = Born
    <2>1. \A y \in Procs : pc'[y] = IF y = x THEN c ELSE pc[y]
      BY <1>1, <1>5 DEF Goto, TokenTypeOK
    <2> QED BY <1>5, <2>1 DEF Born
  <1>6. ASSUME NEW x \in Procs,
               Acquire(x) \/ WakeOwner(x) \/ Startup(x) \/ IYield(x) \/ SleepOwner(x)
        PROVE  pc[p] = "spawn" /\ Born' = Born
    <2>1. \E c \in PC \ {"unborn", "spawn"} : Goto(x, c)
      <3>1. {"run", "wake", "acqw", "wakerv", "stwait", "yieldto", "sleepw"}
              \subseteq PC \ {"unborn", "spawn"}
        BY DEF PC, SelfWait, HandOff, Waking
      <3> QED BY <1>6, <3>1 DEF Acquire, WakeOwner, Startup, IYield, SleepOwner
    <2>2. pc[x] # "unborn"
      BY <1>6 DEF Acquire, WakeOwner, Startup, IYield, SleepOwner
    <2> QED BY <1>5, <2>1, <2>2
  <1>7. ASSUME NEW x \in Procs, NEW q \in Procs, Meet(x, q)
        PROVE  pc[p] = "spawn" /\ Born' = Born
    <2>1. /\ pc[x] \in HandOff \cup Waking /\ pc[q] \in SelfWait
          /\ pc'[x] = After(pc[x]) /\ pc'[q] = After(pc[q])
          /\ \A y \in Procs : y # x /\ y # q => pc'[y] = pc[y]
      BY <1>1, <1>7 DEF Meet, TokenTypeOK, HandOff, Waking, SelfWait
    <2>2. /\ pc[x] # "unborn" /\ pc[q] # "unborn"
          /\ pc'[x] \notin {"unborn", "spawn"} /\ pc'[q] \notin {"unborn", "spawn"}
      BY <2>1 DEF After, HandOff, Waking, SelfWait
    <2> QED BY <2>1, <2>2 DEF Born
  <1> QED BY <1>2, <1>3, <1>4, <1>6, <1>7 DEF TokenNext

\* Then each vmachine that there is keeps a Prog, but for one that collects.
LEMMA PoolStep ==
  ASSUME IsFiniteSet(Progs), SchedInv, TokenInv, SchedInv', TokenInv', PoolInv, [Next]_vars
  PROVE  PoolInv'
  <1> SUFFICES ASSUME NEW p \in Procs, pc'[p] = "spawn"
               PROVE  IsFiniteSet(Born') /\ Cardinality(Born') <= Cardinality(Progs) + 1
    BY DEF PoolInv
  <1>1. CASE pc[p] = "spawn" /\ Born' = Born
    BY <1>1 DEF PoolInv
  <1>2. CASE vmq' = <<>> /\ idlevmq' = <<>> /\ idle'
    <2>1. TypeOK' /\ TokenTypeOK' /\ OneOwner' /\ VmComes' /\ OnQueue' /\ WhereInv'
          /\ IprogInv' /\ OneCollector'
      BY DEF SchedInv, TokenInv, GcInv
    <2>2. \A v \in Procs : pc'[v] \notin {"run", "sleepw", "relto", "yieldto"}
      BY <1>2, <2>1 DEF OneOwner, Owners, HandOff
    <2>3. \A v \in Procs : pc'[v] \notin {"wake", "wakerv", "acqw", "yieldw", "stwait"}
      BY <1>2, <2>1, <2>2, EmptyQueue DEF OnQueue, WaitPC, IdlePC, HandOff
    <2>4. \A v \in Procs : pc'[v] # "startup"
      BY <2>1 DEF VmComes, Coming
    <2>5. \A v \in Procs : pc'[v] \in {"unborn", "out", "spawn"}
      BY <2>1, <2>2, <2>3, <2>4 DEF TokenTypeOK, PC, SelfWait, HandOff, Waking
    <2> DEFINE A == {v \in Vms : step'[v] \in ProgSteps}
               C == {v \in Vms : step'[v] \in {"idlefree", "busyfree"}}
               f == [v \in A |-> iprog'[v]]
    <2>6. Born' \subseteq A \cup C
      <3> SUFFICES ASSUME NEW v \in Vms, pc'[v] \in {"out", "spawn"} PROVE v \in A \cup C
        BY <2>5 DEF Born
      <3>1. step'[v] \in Steps /\ step'[v] # "off"
        BY <2>1 DEF TypeOK, WhereInv
      <3>2. step'[v] \notin {"loop", "poll", "pick"} \cup OwnerSteps
        BY <2>1 DEF WhereInv, Fits
      <3> QED BY <3>1, <3>2 DEF Steps, OffSteps, OwnerSteps, ProgSteps
    <2>7. IsFiniteSet(A) /\ Cardinality(A) <= Cardinality(Progs)
      <3>1. f \in [A -> Progs]
        BY <2>1 DEF TypeOK, IprogInv
      <3>2. \A a, b \in A : f[a] = f[b] => a = b
        BY <2>1 DEF IprogInv
      <3>3. f \in Injection(A, Progs)
        BY <3>1, <3>2 DEF Injection, IsInjective
      <3> HIDE DEF A, f
      <3> QED BY <3>3, FS_Injection
    <2>8. \A c, d \in C : c = d
      BY <2>1 DEF OneCollector
    <2> HIDE DEF A, C
    <2>9. IsFiniteSet(A \cup C) /\ Cardinality(A \cup C) <= Cardinality(Progs) + 1
      <3>0. Cardinality(A) \in Nat /\ Cardinality(Progs) \in Nat
        BY <2>7, FS_CardinalityType
      <3>1. CASE C = {}
        <4>1. A \cup C = A
          BY <3>1
        <4>2. IsFiniteSet(A \cup C) /\ Cardinality(A \cup C) = Cardinality(A)
          BY <2>7, <4>1
        <4> QED BY <2>7, <3>0, <4>2
      <3>2. CASE C # {}
        <4>1. PICK c : C = {c}
          BY <2>8, <3>2
        <4>2. /\ IsFiniteSet(A \cup {c})
              /\ Cardinality(A \cup {c}) = IF c \in A THEN Cardinality(A) ELSE Cardinality(A) + 1
          BY <2>7, FS_AddElement
        <4> QED BY <2>7, <3>0, <4>1, <4>2
      <3> QED BY <3>1, <3>2
    <2>10. IsFiniteSet(Born') /\ Cardinality(Born') <= Cardinality(A \cup C)
      BY <2>6, <2>9, FS_Subset
    <2>11. /\ Cardinality(Born') \in Nat /\ Cardinality(A \cup C) \in Nat
           /\ Cardinality(Progs) \in Nat
      BY <2>9, <2>10, FS_CardinalityType
    <2> QED BY <2>9, <2>10, <2>11
  <1> QED BY <1>1, <1>2, NextToken, SpawnFrom

\* One process collects, the owner does not sleep while there is work, and
\* there are vmachines enough, however many Progs there are.
THEOREM VmsSoundHolds ==
  ASSUME PoolAssumption
  PROVE  Spec => []VmsSound
  <1>0. IsFiniteSet(Progs) /\ IsFiniteSet(Vms)
        /\ Cardinality(Vms) >= Cardinality(Progs) + 2
    BY DEF PoolAssumption
  <1>1. Init => PoolInv
    BY DEF Init, TokenInit, PoolInv
  <1>2. SchedInv /\ TokenInv /\ SchedInv' /\ TokenInv' /\ PoolInv /\ [Next]_vars => PoolInv'
    BY <1>0, PoolStep
  <1>3. SchedInv /\ TokenInv /\ PoolInv => VmsSound
    <2> SUFFICES ASSUME SchedInv, TokenInv, PoolInv PROVE VmsSound
      OBVIOUS
    <2>1. OneCollector
      BY DEF SchedInv, GcInv
    <2>2. SleepSound
      <3>1. \A v \in Procs : At(v, "sleep") => irend = None
        BY Alone DEF At
      <3> QED BY <3>1 DEF SleepSound, SchedInv, RunqInv
    <2>3. PoolSuffices
      <3> SUFFICES ASSUME NEW p \in Procs, pc[p] = "spawn", \A v \in Vms : pc[v] # "unborn"
                   PROVE  FALSE
        BY DEF PoolSuffices
      <3>1. Born = Vms
        BY DEF Born
      <3>2. Cardinality(Vms) <= Cardinality(Progs) + 1
        BY <3>1 DEF PoolInv
      <3>3. Cardinality(Vms) \in Nat /\ Cardinality(Progs) \in Nat
        BY <1>0, FS_CardinalityType
      <3> QED BY <1>0, <3>2, <3>3
    <2> QED BY <2>1, <2>2, <2>3 DEF VmsSound
  <1> QED BY <1>1, <1>2, <1>3, SchedInvHolds, SchedTokenSafe, PTL DEF Spec

=============================================================================
