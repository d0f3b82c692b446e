----------------------------- MODULE MntProofs -----------------------------
(***************************************************************************)
(* The mount driver, for any number of processes, calls and interruptions: *)
(* a Mntrpc and its tag serve one call at a time, each call returns with   *)
(* the answer to its own request, and the turn to read is not lost.        *)
(*                                                                         *)
(* Why the answer is one's own: a message with the tag of a Mntrpc is on   *)
(* its way only while the call is in the queue, and there is one such      *)
(* message; the answer to a flush comes after it, if both come, for the    *)
(* server drops the request when it gets the flush; and a flush has a tag  *)
(* that no other flush has had.                                            *)
(***************************************************************************)
EXTENDS Mnt, QueueProofs, FiniteSetTheorems

PC == {"idle", "send", "flush", "flushsend", "gate", "sleep", "asleep", "woken", "read",
       "mux", "give", "givewake", "opengate", "gatewake", "return", "error"}

Ids  == Procs \X Nat
Msgs == [type : {"R", "Rflush"}, tag : Nat, id : Ids \cup {None}]

ShapeInv ==
  /\ queue \in Seq(Tags) /\ free \in Seq(Tags) /\ toC \in Seq(Msgs)
  /\ rpctag \in Nat \ {0} /\ flushtag \in Nat /\ flushtag > Tagfls
  /\ rip \in Procs \cup {None}
  /\ id \in [Tags -> Ids \cup {None}] /\ ftag \in [Tags -> Nat]
  /\ done \in [Tags -> BOOLEAN] /\ flushed \in [Tags -> BOOLEAN]
  /\ reply \in [Tags -> Msgs \cup {None}]
  /\ sleeper \in [Tags -> Procs \cup {None}]
  /\ pc \in [Procs -> PC]
  /\ rpc \in [Procs -> Tags \cup {None}] /\ hand \in [Procs -> Tags \cup {None}]
  /\ back \in [Procs -> {"gate", "read", None}]
  /\ hung \in BOOLEAN /\ pending \subseteq Msgs
  /\ calls \in [Procs -> Nat] /\ intrs \in Nat

\* The Mntrpcs: each is free, or serves one call, or has not been made yet.
AllocInv ==
  /\ \A p \in Procs : rpc[p] = None <=> pc[p] = "idle"
  /\ \A p \in Procs : rpc[p] # None => rpc[p] < rpctag
  /\ \A p, q \in Calls : p # q => rpc[p] # rpc[q]
  /\ IsInjective(free) /\ ToSet(free) = (1 .. rpctag - 1) \ {rpc[p] : p \in Calls}

\* The queue holds calls that wait for an answer.
QueueInv ==
  /\ IsInjective(queue) /\ ToSet(queue) \subseteq {rpc[p] : p \in Calls}
  /\ \A t \in ToSet(queue) : ~done[t]

RipInv == \A p \in Procs : (rip = p) <=> Reads(p)

\* A process that sleeps can be found by its Mntrpc.
SleepInv ==
  /\ \A p \in Procs : pc[p] = "asleep" => sleeper[rpc[p]] = p
  /\ \A t \in Tags : sleeper[t] # None => pc[sleeper[t]] = "asleep" /\ rpc[sleeper[t]] = t

\* What is to be given to another call.
Giving(t) == \E x \in Procs : pc[x] = "give" /\ hand[x] = t

\* Nothing of the call p has been sent, or will ever be.
Mute(c, h) == c = "send" \/ (h /\ c \in {"flush", "flushsend"})

Unsent(p) == Mute(pc[p], hung)

\* What is known of a call, by where its process is.
CallInv ==
  \A p \in Procs :
    /\ pc[p] \in {"return", "error", "opengate", "gatewake"} => done[rpc[p]]
    /\ Reads(p) /\ pc[p] # "opengate" => rpc[p] \in ToSet(queue)
    /\ pc[p] = "send" => rpc[p] \in ToSet(queue) /\ ~flushed[rpc[p]]
    /\ pc[p] # "idle" /\ ~done[rpc[p]] => rpc[p] \in ToSet(queue) \/ Giving(rpc[p])
    /\ pc[p] \in {"give", "givewake", "gatewake"} => hand[p] \in Tags
    /\ pc[p] \in {"flush", "flushsend"} => back[p] \in {"gate", "read"} /\ (hung \/ intrs > 0)
    /\ pc[p] = "flushsend" => flushed[rpc[p]]

\* The answers that have come.
Own(m, t) == m \in Msgs /\ m.id = id[t]

ReplyInv ==
  /\ \A p \in Procs : pc[p] # "idle" /\ done[rpc[p]] =>
       Own(reply[rpc[p]], rpc[p])
       \/ (pc[p] \in {"opengate", "gatewake", "error"} /\ reply[rpc[p]] = None)
  /\ \A p \in Procs : pc[p] = "mux" => reply[rpc[p]] \in Msgs
  /\ \A p \in Procs : pc[p] = "give" => Own(reply[rpc[p]], hand[p])
  /\ \A p, q \in Procs : pc[p] = "give" /\ rpc[q] = hand[p] => q # p /\ ~Unsent(q)
  /\ \A p \in Procs : pc[p] = "give" =>
       /\ hand[p] \in {rpc[q] : q \in Calls}
       /\ hand[p] \notin ToSet(queue) /\ ~done[hand[p]]

\* The tags of flushes.
FlushInv ==
  /\ \A t \in Tags : flushed[t] => ftag[t] > Tagfls /\ ftag[t] < flushtag
  /\ \A t, u \in Tags : flushed[t] /\ flushed[u] /\ ftag[t] = ftag[u] => t = u
  /\ hung => intrs = 0 /\ pending = {}

\* A message on its way.
MsgOK(m) ==
  /\ m.type = "R" =>
       /\ m.tag \in ToSet(queue) /\ m.id = id[m.tag]
       /\ \A p \in Procs : rpc[p] = m.tag => ~Unsent(p)
  /\ m.type = "Rflush" =>
       /\ m.tag > Tagfls /\ m.tag < flushtag /\ intrs > 0
       /\ \A t \in ToSet(queue) : flushed[t] /\ ftag[t] = m.tag => m.id = id[t]

\* The message n does not come after m.
Clash(m, n) ==
  /\ n.type = "R"
  /\ \/ m.type = "R" /\ m.tag = n.tag
     \/ m.type = "Rflush" /\ flushed[n.tag] /\ ftag[n.tag] = m.tag

FlightInv ==
  /\ \A m \in pending : MsgOK(m)
  /\ \A i \in DOMAIN toC : MsgOK(toC[i])
  /\ \A m, n \in pending : m # n => ~Clash(m, n)
  /\ \A i \in DOMAIN toC, n \in pending : ~Clash(toC[i], n)
  /\ \A i, j \in DOMAIN toC : i < j => ~Clash(toC[i], toC[j])

MuxInv ==
  \A p \in Procs : pc[p] = "mux" =>
    /\ MsgOK(reply[rpc[p]])
    /\ \A n \in pending : ~Clash(reply[rpc[p]], n)
    /\ \A i \in DOMAIN toC : ~Clash(reply[rpc[p]], toC[i])

\* Who will read when nobody does.
Comes(p) ==
  /\ pc[p] \in {"gate", "sleep", "woken"} \/ (~hung /\ pc[p] \in {"flush", "flushsend"})
  /\ ~done[rpc[p]]

Called(p) == pc[p] = "gatewake" /\ sleeper[hand[p]] # None /\ ~done[hand[p]]

TurnInv ==
  rip = None /\ (\E p \in Procs : pc[p] = "asleep" /\ ~done[rpc[p]]) =>
    \E p \in Procs : Comes(p) \/ Called(p)

IInv == /\ ShapeInv /\ AllocInv /\ QueueInv /\ RipInv /\ SleepInv /\ CallInv
        /\ ReplyInv /\ FlushInv /\ FlightInv /\ MuxInv /\ TurnInv

-----------------------------------------------------------------------------
USE MntAssumption

\* Nothing is in use at first.
LEMMA InitIInv == Init => IInv
  <1> SUFFICES ASSUME Init PROVE IInv
    OBVIOUS
  <1> USE DEF Init
  <1>1. Cardinality(Procs) \in Nat
    BY FS_CardinalityType
  <1>2. ShapeInv
    <2>1. flushtag \in Nat /\ flushtag > Tagfls /\ rpctag \in Nat \ {0} /\ intrs \in Nat
      BY <1>1 DEF Tagfls
    <2>2. queue \in Seq(Tags) /\ free \in Seq(Tags) /\ toC \in Seq(Msgs)
      OBVIOUS
    <2>3. /\ id \in [Tags -> Ids \cup {None}] /\ ftag \in [Tags -> Nat]
          /\ done \in [Tags -> BOOLEAN] /\ flushed \in [Tags -> BOOLEAN]
          /\ reply \in [Tags -> Msgs \cup {None}]
          /\ sleeper \in [Tags -> Procs \cup {None}]
      OBVIOUS
    <2>4. /\ pc \in [Procs -> PC]
          /\ rpc \in [Procs -> Tags \cup {None}] /\ hand \in [Procs -> Tags \cup {None}]
          /\ back \in [Procs -> {"gate", "read", None}] /\ calls \in [Procs -> Nat]
      BY DEF PC
    <2> QED BY <2>1, <2>2, <2>3, <2>4 DEF ShapeInv
  <1>3. AllocInv /\ QueueInv
    BY EmptyQueue DEF AllocInv, QueueInv, Calls
  <1>4. RipInv /\ SleepInv /\ CallInv /\ ReplyInv
    BY DEF RipInv, SleepInv, CallInv, ReplyInv, Reads
  <1>5. FlushInv /\ FlightInv /\ MuxInv /\ TurnInv
    BY DEF FlushInv, FlightInv, MuxInv, TurnInv
  <1> QED BY <1>2, <1>3, <1>4, <1>5 DEF IInv

\* One process at a time is at the gate.
LEMMA OneReader ==
  ASSUME RipInv, NEW p \in Procs, NEW q \in Procs, Reads(p), Reads(q)
  PROVE  p = q /\ rip = p
  BY DEF RipInv

\* A Mntrpc in use is that of one process.
LEMMA OneOwner ==
  ASSUME AllocInv, NEW p \in Procs, NEW q \in Procs, pc[p] # "idle", rpc[p] = rpc[q]
  PROVE  p = q
  BY DEF AllocInv, Calls

\* The Mntrpc of a call is one of the Mntrpcs.
LEMMA OwnTag ==
  ASSUME ShapeInv, AllocInv, NEW p \in Procs, pc[p] # "idle"
  PROVE  rpc[p] \in Tags /\ rpc[p] # None /\ p \in Calls
  BY DEF ShapeInv, AllocInv, Calls

\* Who is the owner of a tag in the queue.
LEMMA QueueOwner ==
  ASSUME AllocInv, QueueInv, NEW t \in ToSet(queue)
  PROVE  \E p \in Procs : pc[p] # "idle" /\ rpc[p] = t /\ ~done[t]
  BY DEF AllocInv, QueueInv, Calls

-----------------------------------------------------------------------------
(***************************************************************************)
(* What a step leaves as it was.                                           *)
(***************************************************************************)
\* A message on its way stays what it was.
LEMMA MsgKept ==
  ASSUME NEW m, MsgOK(m),
         flushtag \in Nat, flushtag' \in Nat, flushtag' >= flushtag,
         intrs \in Nat, intrs' \in Nat, intrs' >= intrs, Tagfls \in Nat,
         m.tag \in Nat,
         m.type = "R" => /\ m.tag \in ToSet(queue')
                         /\ id'[m.tag] = id[m.tag]
                         /\ \A x \in Procs : rpc'[x] = m.tag =>
                              rpc[x] = m.tag /\ (Mute(pc'[x], hung') => Unsent(x)),
         \A t \in ToSet(queue') : flushed'[t] =>
           \/ t \in ToSet(queue) /\ flushed[t] /\ ftag'[t] = ftag[t] /\ id'[t] = id[t]
           \/ ftag'[t] >= flushtag
  PROVE  MsgOK(m)'
  <1>1. m.type = "R" => \A x \in Procs : rpc'[x] = m.tag => ~Mute(pc'[x], hung')
    BY DEF MsgOK
  <1>2. m.type = "Rflush" =>
          /\ m.tag > Tagfls /\ m.tag < flushtag' /\ intrs' > 0
          /\ \A t \in ToSet(queue') : flushed'[t] /\ ftag'[t] = m.tag => m.id = id'[t]
    BY DEF MsgOK
  <1>3. m.type = "R" => m.tag \in ToSet(queue') /\ m.id = id'[m.tag]
    BY DEF MsgOK
  <1> QED BY <1>1, <1>2, <1>3 DEF MsgOK, Tagfls, Unsent

\* Two messages stay in the order they were in.
LEMMA ClashKept ==
  ASSUME NEW m, NEW n, MsgOK(m), MsgOK(n), ~Clash(m, n), flushtag \in Nat, m.tag \in Nat,
         \A t \in ToSet(queue) : flushed'[t] =>
           \/ flushed[t] /\ ftag'[t] = ftag[t]
           \/ ftag'[t] >= flushtag
  PROVE  ~Clash(m, n)'
  BY DEF Clash, MsgOK

\* What is known of two messages on their way, whatever is sent.
LEMMA PairKept ==
  ASSUME ShapeInv, NEW m \in Msgs, NEW n \in Msgs, MsgOK(m), MsgOK(n),
         flushtag' \in Nat, flushtag' >= flushtag, intrs' \in Nat, intrs' >= intrs,
         \A t \in ToSet(queue) : t \in ToSet(queue') /\ id'[t] = id[t],
         \A x \in Procs : rpc'[x] \in ToSet(queue) =>
           rpc[x] = rpc'[x] /\ (Mute(pc'[x], hung') => Unsent(x)),
         \A t \in ToSet(queue') : flushed'[t] =>
           \/ t \in ToSet(queue) /\ flushed[t] /\ ftag'[t] = ftag[t]
           \/ ftag'[t] >= flushtag
  PROVE  MsgOK(m)' /\ (~Clash(m, n) => ~Clash(m, n)')
  <1>1. flushtag \in Nat /\ intrs \in Nat /\ Tagfls \in Nat /\ m.tag \in Nat
    BY FS_CardinalityType DEF ShapeInv, Msgs, Tagfls
  <1>2. MsgOK(m)'
    <2>1. m.type = "R" => /\ m.tag \in ToSet(queue') /\ id'[m.tag] = id[m.tag]
                          /\ \A x \in Procs : rpc'[x] = m.tag =>
                               rpc[x] = m.tag /\ (Mute(pc'[x], hung') => Unsent(x))
      BY DEF MsgOK
    <2>2. \A t \in ToSet(queue') : flushed'[t] =>
            \/ t \in ToSet(queue) /\ flushed[t] /\ ftag'[t] = ftag[t] /\ id'[t] = id[t]
            \/ ftag'[t] >= flushtag
      OBVIOUS
    <2> QED BY <1>1, <2>1, <2>2, MsgKept
  <1>3. ASSUME ~Clash(m, n) PROVE ~Clash(m, n)'
    <2>1. \A t \in ToSet(queue) : flushed'[t] =>
           \/ flushed[t] /\ ftag'[t] = ftag[t]
           \/ ftag'[t] >= flushtag
      OBVIOUS
    <2> QED BY <1>1, <1>3, <2>1, ClashKept
  <1> QED BY <1>2, <1>3

\* What is on its way, and what the reader has in hand, when nothing is sent.
LEMMA WireKept ==
  ASSUME ShapeInv, AllocInv, ReplyInv, FlightInv, MuxInv, UNCHANGED <<toC, pending>>,
         flushtag' \in Nat, flushtag' >= flushtag, intrs' \in Nat, intrs' >= intrs,
         \A t \in ToSet(queue) : t \in ToSet(queue') /\ id'[t] = id[t],
         \A x \in Procs : rpc'[x] \in ToSet(queue) =>
           rpc[x] = rpc'[x] /\ (Mute(pc'[x], hung') => Unsent(x)),
         \A t \in ToSet(queue') : flushed'[t] =>
           \/ t \in ToSet(queue) /\ flushed[t] /\ ftag'[t] = ftag[t]
           \/ ftag'[t] >= flushtag,
         \A x \in Procs : pc'[x] = "mux" =>
           pc[x] = "mux" /\ rpc'[x] = rpc[x] /\ reply'[rpc[x]] = reply[rpc[x]]
  PROVE  FlightInv' /\ MuxInv'
  <1>1. toC \in Seq(Msgs) /\ pending \subseteq Msgs
    BY DEF ShapeInv
  <1>2. ASSUME NEW m \in Msgs, MsgOK(m)
        PROVE  MsgOK(m)'
    BY <1>2, PairKept
  <1>3. ASSUME NEW m \in Msgs, NEW n \in Msgs, MsgOK(m), MsgOK(n), ~Clash(m, n)
        PROVE  ~Clash(m, n)'
    BY <1>3, PairKept
  <1>4. FlightInv'
    <2>1. ASSUME NEW m \in pending PROVE MsgOK(m)'
      BY <1>1, <1>2 DEF FlightInv
    <2>2. ASSUME NEW i \in DOMAIN toC PROVE MsgOK(toC[i])'
      BY <1>1, <1>2 DEF FlightInv
    <2>3. ASSUME NEW m \in pending, NEW n \in pending, m # n PROVE ~Clash(m, n)'
      BY <1>1, <1>3, <2>3 DEF FlightInv
    <2>4. ASSUME NEW i \in DOMAIN toC, NEW n \in pending PROVE ~Clash(toC[i], n)'
      BY <1>1, <1>3 DEF FlightInv
    <2>5. ASSUME NEW i \in DOMAIN toC, NEW j \in DOMAIN toC, i < j
          PROVE  ~Clash(toC[i], toC[j])'
      BY <1>1, <1>3, <2>5 DEF FlightInv
    <2> QED BY <2>1, <2>2, <2>3, <2>4, <2>5 DEF FlightInv
  <1>5. MuxInv'
    <2> SUFFICES ASSUME NEW x \in Procs, pc'[x] = "mux"
                 PROVE  /\ MsgOK(reply[rpc[x]])'
                        /\ \A n \in pending' : ~Clash(reply[rpc[x]], n)'
                        /\ \A i \in DOMAIN toC' : ~Clash(reply[rpc[x]], toC[i])'
      BY DEF MuxInv
    <2> DEFINE m == reply[rpc[x]]
    <2>1. pc[x] = "mux" /\ rpc'[x] = rpc[x] /\ m' = m
      OBVIOUS
    <2>2. m \in Msgs /\ MsgOK(m)
      BY <2>1 DEF ReplyInv, MuxInv
    <2>3. MsgOK(m)'
      BY <1>2, <2>1, <2>2
    <2>4. ASSUME NEW n \in pending PROVE ~Clash(m, n)'
      BY <1>1, <1>3, <2>1, <2>2 DEF FlightInv, MuxInv
    <2>5. ASSUME NEW i \in DOMAIN toC PROVE ~Clash(m, toC[i])'
      BY <1>1, <1>3, <2>1, <2>2 DEF FlightInv, MuxInv
    <2> QED BY <2>3, <2>4, <2>5
  <1> QED BY <1>4, <1>5

\* What is known of the answers, when none comes and none is taken.
LEMMA ReplyMoved ==
  ASSUME ReplyInv, UNCHANGED <<queue, id, done, reply, rpc>>,
         \A x \in Procs :
           /\ pc'[x] = "idle" <=> pc[x] = "idle"
           /\ pc'[x] \in {"mux", "give"} => pc'[x] = pc[x] /\ hand'[x] = hand[x]
           /\ Mute(pc'[x], hung') => Unsent(x)
           /\ pc[x] \in {"opengate", "gatewake", "error"} =>
                pc'[x] \in {"opengate", "gatewake", "error"} \/ reply[rpc[x]] # None
  PROVE  ReplyInv'
  <1>1. \A p \in Procs : pc'[p] # "idle" /\ done[rpc[p]] =>
          Own(reply[rpc[p]], rpc[p])
          \/ (pc'[p] \in {"opengate", "gatewake", "error"} /\ reply[rpc[p]] = None)
    BY DEF ReplyInv
  <1>2. \A p \in Procs :
          /\ pc'[p] = "mux" => reply[rpc[p]] \in Msgs
          /\ pc'[p] = "give" =>
               /\ Own(reply[rpc[p]], hand'[p])
               /\ hand'[p] \in {rpc[q] : q \in Calls}
               /\ hand'[p] \notin ToSet(queue) /\ ~done[hand'[p]]
    BY DEF ReplyInv
  <1>3. \A p, q \in Procs : pc'[p] = "give" /\ rpc[q] = hand'[p] =>
                              q # p /\ ~Mute(pc'[q], hung')
    BY DEF ReplyInv
  <1> QED BY <1>1, <1>2, <1>3 DEF ReplyInv, Own, Calls, Unsent

\* What a process that goes on, and does nothing to the Mntrpcs, leaves alone.
LEMMA MoveKept ==
  ASSUME IInv,
         UNCHANGED <<queue, flushtag, allocs, mntrpcs, rpc, toC, hung, pending, calls>>,
         pc' \in [Procs -> PC], rip' \in Procs \cup {None},
         sleeper' \in [Tags -> Procs \cup {None}],
         back' \in [Procs -> {"gate", "read", None}],
         hand' \in [Procs -> Tags \cup {None}],
         intrs' \in Nat, intrs' >= intrs, hung => intrs' = intrs,
         \A x \in Procs :
           /\ pc'[x] = "idle" <=> pc[x] = "idle"
           /\ pc'[x] \in {"mux", "give"} => pc'[x] = pc[x] /\ hand'[x] = hand[x]
           /\ Mute(pc'[x], hung) => Unsent(x)
           /\ pc[x] \in {"opengate", "gatewake", "error"} =>
                pc'[x] \in {"opengate", "gatewake", "error"} \/ reply[rpc[x]] # None
  PROVE  ShapeInv' /\ AllocInv' /\ QueueInv' /\ ReplyInv' /\ FlushInv' /\ FlightInv' /\ MuxInv'
  <1>0. ShapeInv /\ AllocInv /\ QueueInv /\ ReplyInv /\ FlushInv /\ FlightInv /\ MuxInv
    BY DEF IInv
  <1>1. UNCHANGED <<free, rpctag, id, done, flushed, ftag, reply>>
    BY DEF allocs, mntrpcs
  <1>2. ShapeInv'
    BY <1>0, <1>1 DEF ShapeInv
  <1>3. AllocInv' /\ QueueInv'
    BY <1>0, <1>1 DEF AllocInv, QueueInv, Calls
  <1>4. ReplyInv'
    BY <1>0, <1>1, ReplyMoved
  <1>5. FlushInv'
    BY <1>0, <1>1 DEF FlushInv
  <1>6. FlightInv' /\ MuxInv'
    <2>1. flushtag' \in Nat /\ flushtag' >= flushtag
      BY <1>0 DEF ShapeInv
    <2>2. \A t \in ToSet(queue) : t \in ToSet(queue') /\ id'[t] = id[t]
      BY <1>1
    <2>3. \A x \in Procs : rpc'[x] \in ToSet(queue) =>
            rpc[x] = rpc'[x] /\ (Mute(pc'[x], hung') => Unsent(x))
      OBVIOUS
    <2>4. \A t \in ToSet(queue') : flushed'[t] =>
            \/ t \in ToSet(queue) /\ flushed[t] /\ ftag'[t] = ftag[t]
            \/ ftag'[t] >= flushtag
      BY <1>1
    <2>5. \A x \in Procs : pc'[x] = "mux" =>
            pc[x] = "mux" /\ rpc'[x] = rpc[x] /\ reply'[rpc[x]] = reply[rpc[x]]
      BY <1>1
    <2>6. UNCHANGED <<toC, pending>>
      OBVIOUS
    <2> QED BY <1>0, <2>1, <2>2, <2>3, <2>4, <2>5, <2>6, WireKept
  <1> QED BY <1>2, <1>3, <1>4, <1>5, <1>6

\* What is known of each call, when one process goes on; some may be woken.
LEMMA CallMoved ==
  ASSUME CallInv, NEW p \in Procs, UNCHANGED <<queue, rpc, done>>, hung => hung',
         intrs \in Nat, intrs' \in Nat, intrs' >= intrs,
         \A x \in Procs : x # p =>
           /\ pc'[x] = pc[x] \/ (pc[x] = "asleep" /\ pc'[x] = "woken")
           /\ back'[x] = back[x] /\ hand'[x] = hand[x]
           /\ flushed'[rpc[x]] = flushed[rpc[x]],
         pc[p] \notin {"idle", "give"}, pc'[p] \notin {"idle", "send", "give"},
         pc'[p] \in {"return", "error", "opengate", "gatewake"} => done[rpc[p]],
         \/ pc'[p] \in {"read", "mux", "givewake"}
         \/ (pc'[p] \in {"flush", "flushsend"} /\ back'[p] = "read")
         => rpc[p] \in ToSet(queue),
         pc'[p] \in {"givewake", "gatewake"} => hand'[p] \in Tags,
         pc'[p] \in {"flush", "flushsend"} => back'[p] \in {"gate", "read"} /\ (hung \/ intrs' > 0),
         pc'[p] = "flushsend" => flushed'[rpc[p]]
  PROVE  CallInv'
  <1>1. \A t : Giving(t) => \E x \in Procs : pc'[x] = "give" /\ hand'[x] = t
    BY DEF Giving
  <1>2. ASSUME NEW x \in Procs
        PROVE  /\ pc'[x] \in {"return", "error", "opengate", "gatewake"} => done[rpc[x]]
               /\ Reads(x)' /\ pc'[x] # "opengate" => rpc[x] \in ToSet(queue)
               /\ pc'[x] = "send" => rpc[x] \in ToSet(queue) /\ ~flushed'[rpc[x]]
               /\ pc'[x] \in {"give", "givewake", "gatewake"} => hand'[x] \in Tags
               /\ pc'[x] \in {"flush", "flushsend"} =>
                    back'[x] \in {"gate", "read"} /\ (hung' \/ intrs' > 0)
               /\ pc'[x] = "flushsend" => flushed'[rpc[x]]
    <2>1. CASE x = p
      BY <2>1 DEF Reads
    <2>2. CASE x # p
      BY <2>2 DEF CallInv, Reads
    <2> QED BY <2>1, <2>2
  <1>3. ASSUME NEW x \in Procs, pc'[x] # "idle", ~done[rpc[x]]
        PROVE  rpc[x] \in ToSet(queue) \/ Giving(rpc[x])'
    <2>1. pc[x] # "idle"
      BY <1>3
    <2>2. rpc[x] \in ToSet(queue) \/ Giving(rpc[x])
      BY <1>3, <2>1 DEF CallInv
    <2> QED BY <1>1, <2>2 DEF Giving
  <1> QED BY <1>2, <1>3 DEF CallInv

\* Who sleeps, when nobody goes to sleep or is woken.
LEMMA SleepMoved ==
  ASSUME ShapeInv, SleepInv, UNCHANGED sleeper,
         \A x \in Procs : /\ pc'[x] = "asleep" <=> pc[x] = "asleep"
                          /\ pc[x] = "asleep" => rpc'[x] = rpc[x]
  PROVE  SleepInv'
  <1>1. \A t \in Tags : sleeper[t] # None => sleeper[t] \in Procs
    BY DEF ShapeInv
  <1> QED BY <1>1 DEF SleepInv

-----------------------------------------------------------------------------
(***************************************************************************)
(* Each action keeps the invariant.                                        *)
(***************************************************************************)
\* The gate is entered, or a process is to sleep.
LEMMA GateInv ==
  ASSUME IInv, NEW p \in Procs, Gate(p)
  PROVE  IInv'
  <1>0. /\ ShapeInv /\ AllocInv /\ QueueInv /\ RipInv /\ SleepInv /\ CallInv /\ ReplyInv
        /\ TurnInv
    BY DEF IInv
  <1>1. pc[p] = "gate" /\ rpc[p] \in Tags
    BY <1>0, OwnTag DEF Gate
  <1> DEFINE c == IF rip # None THEN "sleep" ELSE IF done[rpc[p]] THEN "opengate" ELSE "read"
  <1>2. /\ \A x \in Procs : pc'[x] = IF x = p THEN c ELSE pc[x]
        /\ pc' \in [Procs -> PC] /\ c \in {"sleep", "opengate", "read"}
        /\ rip' = IF rip # None THEN rip ELSE p
        /\ UNCHANGED <<queue, flushtag, allocs, mntrpcs, sleeper, rpc, back, hand, toC, hung,
                       pending, calls, intrs>>
    BY <1>0 DEF Gate, Goto, ShapeInv, PC, procVars, wire
  <1>3. UNCHANGED <<free, rpctag, id, done, flushed, ftag, reply>>
    BY <1>2 DEF allocs, mntrpcs
  <1>4. /\ c = "sleep" <=> rip # None
        /\ c = "opengate" => done[rpc[p]]
        /\ c = "read" => ~done[rpc[p]]
    OBVIOUS
  <1> HIDE DEF c
  <1>5. ShapeInv' /\ AllocInv' /\ QueueInv' /\ ReplyInv' /\ FlushInv' /\ FlightInv' /\ MuxInv'
    <2>1. \A x \in Procs :
           /\ pc'[x] = "idle" <=> pc[x] = "idle"
           /\ pc'[x] \in {"mux", "give"} => pc'[x] = pc[x] /\ hand'[x] = hand[x]
           /\ Mute(pc'[x], hung) => Unsent(x)
           /\ pc[x] \in {"opengate", "gatewake", "error"} =>
                pc'[x] \in {"opengate", "gatewake", "error"} \/ reply[rpc[x]] # None
      BY <1>1, <1>2 DEF Mute, Unsent
    <2>2. /\ rip' \in Procs \cup {None} /\ sleeper' \in [Tags -> Procs \cup {None}]
          /\ back' \in [Procs -> {"gate", "read", None}]
          /\ hand' \in [Procs -> Tags \cup {None}]
          /\ intrs' \in Nat /\ intrs' >= intrs /\ (hung => intrs' = intrs)
      BY <1>0, <1>2 DEF ShapeInv
    <2> QED BY <1>2, <2>1, <2>2, MoveKept
  <1>6. RipInv'
    BY <1>0, <1>1, <1>2, <1>4 DEF RipInv, Reads
  <1>7. SleepInv'
    BY <1>0, <1>1, <1>2, SleepMoved
  <1>8. CallInv'
    <2>1. rip = None => ~Giving(rpc[p])
      BY <1>0 DEF RipInv, Giving, Reads
    <2>2. c = "read" => rpc[p] \in ToSet(queue)
      BY <1>0, <1>1, <1>4, <2>1 DEF CallInv
    <2>3. intrs \in Nat /\ intrs' \in Nat /\ intrs' >= intrs
      BY <1>0, <1>2 DEF ShapeInv
    <2>8. \A x \in Procs : x # p =>
            /\ pc'[x] = pc[x] \/ (pc[x] = "asleep" /\ pc'[x] = "woken")
            /\ back'[x] = back[x] /\ hand'[x] = hand[x]
            /\ flushed'[rpc[x]] = flushed[rpc[x]]
      BY <1>2, <1>3
    <2>9. UNCHANGED <<queue, rpc, done>> /\ (hung => hung')
      BY <1>2, <1>3
    <2> QED BY <1>0, <1>1, <1>2, <1>3, <1>4, <2>2, <2>3, <2>8, <2>9, CallMoved
  <1>9. TurnInv'
    BY <1>2 DEF TurnInv
  <1> QED BY <1>5, <1>6, <1>7, <1>8, <1>9 DEF IInv

\* A caller goes to sleep, unless there is something for it to do.
LEMMA SleepStepInv ==
  ASSUME IInv, NEW p \in Procs, Sleep(p)
  PROVE  IInv'
  <1>0. /\ ShapeInv /\ AllocInv /\ QueueInv /\ RipInv /\ SleepInv /\ CallInv /\ ReplyInv
        /\ TurnInv
    BY DEF IInv
  <1>1. pc[p] = "sleep" /\ rpc[p] \in Tags
    BY <1>0, OwnTag DEF Sleep
  <1> DEFINE c == IF done[rpc[p]] \/ rip = None THEN "woken" ELSE "asleep"
  <1>2. /\ \A x \in Procs : pc'[x] = IF x = p THEN c ELSE pc[x]
        /\ pc' \in [Procs -> PC] /\ c \in {"woken", "asleep"}
        /\ sleeper' \in [Tags -> Procs \cup {None}]
        /\ \A t \in Tags : sleeper'[t] = IF t = rpc[p] /\ c = "asleep" THEN p ELSE sleeper[t]
        /\ UNCHANGED <<queue, rip, flushtag, allocs, mntrpcs, rpc, back, hand, toC, hung,
                       pending, calls, intrs>>
    <2>1. CASE Attn(rpc[p])
      BY <1>0, <1>1, <2>1 DEF Sleep, Attn, Goto, ShapeInv, PC, procVars, wire
    <2>2. CASE ~Attn(rpc[p])
      <3>1. c = "asleep"
        BY <2>2 DEF Attn
      <3>2. pc' = [pc EXCEPT ![p] = "asleep"] /\ sleeper' = [sleeper EXCEPT ![rpc[p]] = p]
        BY <2>2 DEF Sleep, Goto
      <3> HIDE DEF c
      <3> QED BY <1>0, <1>1, <3>1, <3>2 DEF Sleep, ShapeInv, PC, procVars, wire
    <2> QED BY <2>1, <2>2
  <1>3. UNCHANGED <<free, rpctag, id, done, flushed, ftag, reply>>
    BY <1>2 DEF allocs, mntrpcs
  <1>4. c = "asleep" <=> ~done[rpc[p]] /\ rip # None
    BY <1>0, <1>1 DEF ShapeInv
  <1> HIDE DEF c
  <1>5. ShapeInv' /\ AllocInv' /\ QueueInv' /\ ReplyInv' /\ FlushInv' /\ FlightInv' /\ MuxInv'
    <2>1. \A x \in Procs :
           /\ pc'[x] = "idle" <=> pc[x] = "idle"
           /\ pc'[x] \in {"mux", "give"} => pc'[x] = pc[x] /\ hand'[x] = hand[x]
           /\ Mute(pc'[x], hung) => Unsent(x)
           /\ pc[x] \in {"opengate", "gatewake", "error"} =>
                pc'[x] \in {"opengate", "gatewake", "error"} \/ reply[rpc[x]] # None
      BY <1>1, <1>2 DEF Mute, Unsent
    <2>2. /\ rip' \in Procs \cup {None}
          /\ back' \in [Procs -> {"gate", "read", None}]
          /\ hand' \in [Procs -> Tags \cup {None}]
          /\ intrs' \in Nat /\ intrs' >= intrs /\ (hung => intrs' = intrs)
      BY <1>0, <1>2 DEF ShapeInv
    <2> QED BY <1>2, <2>1, <2>2, MoveKept
  <1>6. RipInv'
    BY <1>0, <1>1, <1>2 DEF RipInv, Reads
  <1>7. SleepInv'
    <2>1. ASSUME NEW x \in Procs, pc'[x] = "asleep" PROVE sleeper'[rpc[x]] = x
      <3>1. CASE x = p
        BY <1>1, <1>2, <2>1, <3>1
      <3>2. CASE x # p
        <4>1. pc[x] = "asleep" /\ sleeper[rpc[x]] = x /\ rpc[x] \in Tags
          BY <1>0, <1>2, <2>1, <3>2, OwnTag DEF SleepInv
        <4>2. rpc[x] # rpc[p]
          BY <1>0, <1>1, <3>2, OneOwner
        <4> QED BY <1>2, <4>1, <4>2
      <3> QED BY <3>1, <3>2
    <2>2. ASSUME NEW t \in Tags, sleeper'[t] # None
          PROVE  pc'[sleeper'[t]] = "asleep" /\ rpc[sleeper'[t]] = t
      <3>1. CASE t = rpc[p] /\ c = "asleep"
        BY <1>2, <3>1
      <3>2. CASE ~(t = rpc[p] /\ c = "asleep")
        <4>1. sleeper'[t] = sleeper[t] /\ sleeper[t] \in Procs
          BY <1>0, <1>2, <2>2, <3>2 DEF ShapeInv
        <4> QED BY <1>0, <1>1, <1>2, <2>2, <4>1 DEF SleepInv
      <3> QED BY <3>1, <3>2
    <2> QED BY <1>2, <2>1, <2>2 DEF SleepInv
  <1>8. CallInv'
    <2>1. intrs \in Nat /\ intrs' \in Nat /\ intrs' >= intrs
      BY <1>0, <1>2 DEF ShapeInv
    <2>8. \A x \in Procs : x # p =>
            /\ pc'[x] = pc[x] \/ (pc[x] = "asleep" /\ pc'[x] = "woken")
            /\ back'[x] = back[x] /\ hand'[x] = hand[x]
            /\ flushed'[rpc[x]] = flushed[rpc[x]]
      BY <1>2, <1>3
    <2>9. UNCHANGED <<queue, rpc, done>> /\ (hung => hung')
      BY <1>2, <1>3
    <2> QED BY <1>0, <1>1, <1>2, <1>3, <2>1, <2>8, <2>9, CallMoved
  <1>9. TurnInv'
    <2> SUFFICES ASSUME rip = None, NEW q \in Procs, pc'[q] = "asleep", ~done[rpc[q]]
                 PROVE  \E x \in Procs : Comes(x)' \/ Called(x)'
      BY <1>2, <1>3 DEF TurnInv
    <2>1. pc[q] = "asleep"
      BY <1>2, <1>4
    <2>2. PICK x \in Procs : Comes(x) \/ Called(x)
      BY <1>0, <2>1 DEF TurnInv
    <2>3. c = "woken"
      BY <1>2, <1>4
    <2>4. CASE Comes(x)
      BY <1>2, <1>3, <2>3, <2>4 DEF Comes
    <2>5. CASE Called(x)
      BY <1>0, <1>1, <1>2, <1>3, <2>3, <2>5 DEF Called, CallInv
    <2> QED BY <2>2, <2>4, <2>5
  <1> QED BY <1>5, <1>6, <1>7, <1>8, <1>9 DEF IInv

\* A caller that is woken returns, or goes to the gate.
LEMMA WokenInv ==
  ASSUME IInv, NEW p \in Procs, Woken(p)
  PROVE  IInv'
  <1>0. /\ ShapeInv /\ AllocInv /\ QueueInv /\ RipInv /\ SleepInv /\ CallInv /\ ReplyInv
        /\ TurnInv
    BY DEF IInv
  <1> DEFINE c == IF done[rpc[p]] THEN "return" ELSE "gate"
  <1>1. pc[p] = "woken" /\ rpc[p] \in Tags
    BY <1>0, OwnTag DEF Woken
  <1>2. /\ \A x \in Procs : pc'[x] = IF x = p THEN c ELSE pc[x]
        /\ pc' \in [Procs -> PC] /\ c \in {"return", "gate"}
        /\ UNCHANGED <<queue, rip, flushtag, allocs, mntrpcs, sleeper, rpc, back, hand, toC,
                       hung, pending, calls, intrs>>
    BY <1>0 DEF Woken, Goto, ShapeInv, PC, procVars, wire
  <1>3. UNCHANGED <<free, rpctag, id, done, flushed, ftag, reply>>
    BY <1>2 DEF allocs, mntrpcs
  <1>4. c = "return" <=> done[rpc[p]]
    OBVIOUS
  <1> HIDE DEF c
  <1>5. ShapeInv' /\ AllocInv' /\ QueueInv' /\ ReplyInv' /\ FlushInv' /\ FlightInv' /\ MuxInv'
    <2>1. \A x \in Procs :
           /\ pc'[x] = "idle" <=> pc[x] = "idle"
           /\ pc'[x] \in {"mux", "give"} => pc'[x] = pc[x] /\ hand'[x] = hand[x]
           /\ Mute(pc'[x], hung) => Unsent(x)
           /\ pc[x] \in {"opengate", "gatewake", "error"} =>
                pc'[x] \in {"opengate", "gatewake", "error"} \/ reply[rpc[x]] # None
      BY <1>1, <1>2 DEF Mute, Unsent
    <2>2. /\ rip' \in Procs \cup {None} /\ sleeper' \in [Tags -> Procs \cup {None}]
          /\ back' \in [Procs -> {"gate", "read", None}]
          /\ hand' \in [Procs -> Tags \cup {None}]
          /\ intrs' \in Nat /\ intrs' >= intrs /\ (hung => intrs' = intrs)
      BY <1>0, <1>2 DEF ShapeInv
    <2> QED BY <1>2, <2>1, <2>2, MoveKept
  <1>6. RipInv'
    BY <1>0, <1>1, <1>2 DEF RipInv, Reads
  <1>7. SleepInv'
    BY <1>0, <1>1, <1>2, SleepMoved
  <1>8. CallInv'
    <2>1. intrs \in Nat /\ intrs' \in Nat /\ intrs' >= intrs
      BY <1>0, <1>2 DEF ShapeInv
    <2>8. \A x \in Procs : x # p =>
            /\ pc'[x] = pc[x] \/ (pc[x] = "asleep" /\ pc'[x] = "woken")
            /\ back'[x] = back[x] /\ hand'[x] = hand[x]
            /\ flushed'[rpc[x]] = flushed[rpc[x]]
      BY <1>2, <1>3
    <2>9. UNCHANGED <<queue, rpc, done>> /\ (hung => hung')
      BY <1>2, <1>3
    <2> QED BY <1>0, <1>1, <1>2, <1>3, <1>4, <2>1, <2>8, <2>9, CallMoved
  <1>9. TurnInv'
    BY <1>0, <1>1, <1>2, <1>3, <1>4 DEF TurnInv, Comes, Called
  <1> QED BY <1>5, <1>6, <1>7, <1>8, <1>9 DEF IInv

\* The reader leaves the gate.
LEMMA OpenGateInv ==
  ASSUME IInv, NEW p \in Procs, OpenGate(p)
  PROVE  IInv'
  <1>0. /\ ShapeInv /\ AllocInv /\ QueueInv /\ RipInv /\ SleepInv /\ CallInv /\ ReplyInv
        /\ TurnInv
    BY DEF IInv
  <1>1. pc[p] = "opengate" /\ rpc[p] \in Tags /\ rip = p /\ done[rpc[p]]
    BY <1>0, OwnTag DEF OpenGate, RipInv, Reads, CallInv
  <1>2. \A t : IsFirst(t, NextReader) => t \in NextReader
    BY DEF IsFirst
  <1>3. PICK c \in {"error", "return", "gatewake"}, t \in Tags \cup {None} :
          /\ pc' = [pc EXCEPT ![p] = c]
          /\ hand' = [hand EXCEPT ![p] = t]
          /\ c = "gatewake" => t \in Tags /\ t \in NextReader
          /\ c # "gatewake" => NextReader = {}
          /\ c = "return" => reply[rpc[p]] # None
    <2>1. CASE NextReader = {} /\ Goto(p, Ended(rpc[p])) /\ UNCHANGED hand
      <3>1. hand' = [hand EXCEPT ![p] = hand[p]] /\ hand[p] \in Tags \cup {None}
        BY <1>0, <2>1 DEF ShapeInv
      <3>2. Ended(rpc[p]) \in {"error", "return"}
            /\ (Ended(rpc[p]) = "return" => reply[rpc[p]] # None)
        BY DEF Ended
      <3> QED BY <2>1, <3>1, <3>2 DEF Goto
    <2>2. CASE \E t \in Tags : /\ IsFirst(t, NextReader)
                               /\ hand' = [hand EXCEPT ![p] = t]
                               /\ Goto(p, "gatewake")
      BY <1>2, <2>2 DEF Goto
    <2> QED BY <2>1, <2>2 DEF OpenGate
  <1>4. /\ \A x \in Procs : pc'[x] = IF x = p THEN c ELSE pc[x]
        /\ \A x \in Procs : hand'[x] = IF x = p THEN t ELSE hand[x]
        /\ pc' \in [Procs -> PC] /\ hand' \in [Procs -> Tags \cup {None}]
        /\ rip' = None
        /\ UNCHANGED <<queue, flushtag, allocs, mntrpcs, sleeper, rpc, back, toC, hung,
                       pending, calls, intrs>>
    BY <1>0, <1>3 DEF OpenGate, ShapeInv, PC, wire
  <1>5. UNCHANGED <<free, rpctag, id, done, flushed, ftag, reply>>
    BY <1>4 DEF allocs, mntrpcs
  <1>6. ShapeInv' /\ AllocInv' /\ QueueInv' /\ ReplyInv' /\ FlushInv' /\ FlightInv' /\ MuxInv'
    <2>1. \A x \in Procs :
           /\ pc'[x] = "idle" <=> pc[x] = "idle"
           /\ pc'[x] \in {"mux", "give"} => pc'[x] = pc[x] /\ hand'[x] = hand[x]
           /\ Mute(pc'[x], hung) => Unsent(x)
           /\ pc[x] \in {"opengate", "gatewake", "error"} =>
                pc'[x] \in {"opengate", "gatewake", "error"} \/ reply[rpc[x]] # None
      BY <1>1, <1>3, <1>4 DEF Mute, Unsent
    <2>2. /\ rip' \in Procs \cup {None} /\ sleeper' \in [Tags -> Procs \cup {None}]
          /\ back' \in [Procs -> {"gate", "read", None}]
          /\ intrs' \in Nat /\ intrs' >= intrs /\ (hung => intrs' = intrs)
      BY <1>0, <1>4 DEF ShapeInv
    <2> QED BY <1>4, <2>1, <2>2, MoveKept
  <1>7. RipInv'
    BY <1>0, <1>1, <1>3, <1>4 DEF RipInv, Reads
  <1>8. SleepInv'
    BY <1>0, <1>1, <1>3, <1>4, SleepMoved
  <1>9. CallInv'
    <2>1. intrs \in Nat /\ intrs' \in Nat /\ intrs' >= intrs
      BY <1>0, <1>4 DEF ShapeInv
    <2>8. \A x \in Procs : x # p =>
            /\ pc'[x] = pc[x] \/ (pc[x] = "asleep" /\ pc'[x] = "woken")
            /\ back'[x] = back[x] /\ hand'[x] = hand[x]
            /\ flushed'[rpc[x]] = flushed[rpc[x]]
      BY <1>3, <1>4, <1>5
    <2>9. UNCHANGED <<queue, rpc, done>> /\ (hung => hung')
      BY <1>3, <1>4, <1>5
    <2> QED BY <1>0, <1>1, <1>3, <1>4, <1>5, <2>1, <2>8, <2>9, CallMoved
  <1>10. TurnInv'
    <2> SUFFICES ASSUME NEW q \in Procs, pc'[q] = "asleep", ~done[rpc[q]]
                 PROVE  Called(p)'
      BY <1>4, <1>5 DEF TurnInv
    <2>1. pc[q] = "asleep" /\ sleeper[rpc[q]] = q /\ rpc[q] \in Tags
      BY <1>0, <1>3, <1>4, OwnTag DEF SleepInv
    <2>2. ~Giving(rpc[q])
      BY <1>0, <1>1 DEF RipInv, Giving, Reads
    <2>3. rpc[q] \in NextReader
      BY <1>0, <2>1, <2>2 DEF CallInv, NextReader
    <2> QED BY <1>3, <1>4, <1>5, <2>3 DEF Called, NextReader
  <1> QED BY <1>6, <1>7, <1>8, <1>9, <1>10 DEF IInv

\* Who sleeps on a Mntrpc is woken.
LEMMA WakeupSleep ==
  ASSUME IInv, NEW p \in Procs, NEW c, Wakeup(p, c),
         pc[p] \in {"givewake", "gatewake"}, c \in {"read", "error", "return"}
  PROVE  /\ hand[p] \in Tags
         /\ \A x \in Procs : pc'[x] = IF x = p THEN c
                                      ELSE IF sleeper[hand[p]] = x THEN "woken" ELSE pc[x]
         /\ \A x \in Procs : sleeper[hand[p]] = x => pc[x] = "asleep" /\ rpc[x] = hand[p]
         /\ \A x \in Procs : hand'[x] = IF x = p THEN None ELSE hand[x]
         /\ pc' \in [Procs -> PC] /\ hand' \in [Procs -> Tags \cup {None}]
         /\ sleeper' \in [Tags -> Procs \cup {None}]
         /\ \A t \in Tags : sleeper'[t] = IF t = hand[p] THEN None ELSE sleeper[t]
         /\ SleepInv'
  <1>0. ShapeInv /\ AllocInv /\ RipInv /\ SleepInv /\ CallInv
    BY DEF IInv
  <1>1. hand[p] \in Tags
    BY <1>0 DEF CallInv
  <1>2. /\ \A x \in Procs : pc'[x] = IF x = p THEN c
                                     ELSE IF sleeper[hand[p]] = x THEN "woken" ELSE pc[x]
        /\ \A x \in Procs : hand'[x] = IF x = p THEN None ELSE hand[x]
        /\ pc' \in [Procs -> PC] /\ hand' \in [Procs -> Tags \cup {None}]
        /\ sleeper' \in [Tags -> Procs \cup {None}]
        /\ \A t \in Tags : sleeper'[t] = IF t = hand[p] THEN None ELSE sleeper[t]
        /\ UNCHANGED <<rpc, back, rip>>
    BY <1>0, <1>1 DEF Wakeup, ShapeInv, PC
  <1>3. \A x \in Procs : sleeper[hand[p]] = x => pc[x] = "asleep" /\ rpc[x] = hand[p]
    BY <1>0, <1>1 DEF SleepInv
  <1>4. SleepInv'
    <2>1. ASSUME NEW x \in Procs, pc'[x] = "asleep" PROVE sleeper'[rpc[x]] = x
      <3>1. x # p /\ sleeper[hand[p]] # x /\ pc[x] = "asleep"
        BY <1>2, <2>1
      <3>2. sleeper[rpc[x]] = x /\ rpc[x] \in Tags
        BY <1>0, <3>1, OwnTag DEF SleepInv
      <3> QED BY <1>2, <3>1, <3>2
    <2>2. ASSUME NEW t \in Tags, sleeper'[t] # None
          PROVE  pc'[sleeper'[t]] = "asleep" /\ rpc[sleeper'[t]] = t
      <3>1. t # hand[p] /\ sleeper'[t] = sleeper[t] /\ sleeper[t] \in Procs
        BY <1>0, <1>2, <2>2 DEF ShapeInv
      <3>2. pc[sleeper[t]] = "asleep" /\ rpc[sleeper[t]] = t
        BY <1>0, <2>2, <3>1 DEF SleepInv
      <3>3. sleeper[t] # p /\ sleeper[hand[p]] # sleeper[t]
        BY <1>3, <3>1, <3>2
      <3> QED BY <1>2, <3>1, <3>2, <3>3
    <2> QED BY <1>2, <2>1, <2>2 DEF SleepInv
  <1> QED BY <1>1, <1>2, <1>3, <1>4

\* The reader that left wakes a caller that sleeps.
LEMMA GateWakeInv ==
  ASSUME IInv, NEW p \in Procs, GateWake(p)
  PROVE  IInv'
  <1>0. /\ ShapeInv /\ AllocInv /\ QueueInv /\ RipInv /\ SleepInv /\ CallInv /\ ReplyInv
        /\ TurnInv
    BY DEF IInv
  <1> DEFINE c == Ended(rpc[p])
             h == hand[p]
  <1>1. pc[p] = "gatewake" /\ rpc[p] \in Tags /\ done[rpc[p]] /\ Wakeup(p, c)
    BY <1>0, OwnTag DEF GateWake, CallInv
  <1>2. c \in {"error", "return"} /\ (c = "return" => reply[rpc[p]] # None)
    BY DEF Ended
  <1> HIDE DEF c
  <1>3. /\ h \in Tags
        /\ \A x \in Procs : pc'[x] = IF x = p THEN c ELSE IF sleeper[h] = x THEN "woken" ELSE pc[x]
        /\ \A x \in Procs : sleeper[h] = x => pc[x] = "asleep" /\ rpc[x] = h
        /\ \A x \in Procs : hand'[x] = IF x = p THEN None ELSE hand[x]
        /\ pc' \in [Procs -> PC] /\ hand' \in [Procs -> Tags \cup {None}]
        /\ sleeper' \in [Tags -> Procs \cup {None}]
        /\ \A t \in Tags : sleeper'[t] = IF t = h THEN None ELSE sleeper[t]
        /\ SleepInv'
    BY <1>1, <1>2, WakeupSleep
  <1>4. UNCHANGED <<queue, rip, flushtag, free, rpctag, id, done, flushed, ftag, reply, rpc, back,
                    toC, hung, pending, calls, intrs, allocs, mntrpcs>>
    <2>1. c # "read"
      BY <1>2
    <2> QED BY <1>1, <2>1 DEF Wakeup, allocs, mntrpcs, wire
  <1> HIDE DEF h
  <1>5. ShapeInv' /\ AllocInv' /\ QueueInv' /\ ReplyInv' /\ FlushInv' /\ FlightInv' /\ MuxInv'
    <2>1. \A x \in Procs :
           /\ pc'[x] = "idle" <=> pc[x] = "idle"
           /\ pc'[x] \in {"mux", "give"} => pc'[x] = pc[x] /\ hand'[x] = hand[x]
           /\ Mute(pc'[x], hung) => Unsent(x)
           /\ pc[x] \in {"opengate", "gatewake", "error"} =>
                pc'[x] \in {"opengate", "gatewake", "error"} \/ reply[rpc[x]] # None
      BY <1>1, <1>2, <1>3 DEF Mute, Unsent
    <2>2. /\ rip' \in Procs \cup {None}
          /\ back' \in [Procs -> {"gate", "read", None}]
          /\ intrs' \in Nat /\ intrs' >= intrs /\ (hung => intrs' = intrs)
      BY <1>0, <1>4 DEF ShapeInv
    <2> QED BY <1>3, <1>4, <2>1, <2>2, MoveKept
  <1>6. RipInv'
    BY <1>0, <1>1, <1>2, <1>3, <1>4 DEF RipInv, Reads
  <1>7. CallInv'
    <2>1. intrs \in Nat /\ intrs' \in Nat /\ intrs' >= intrs
      BY <1>0, <1>4 DEF ShapeInv
    <2>2. \A x \in Procs : x # p =>
            /\ pc'[x] = pc[x] \/ (pc[x] = "asleep" /\ pc'[x] = "woken")
            /\ back'[x] = back[x] /\ hand'[x] = hand[x]
            /\ flushed'[rpc[x]] = flushed[rpc[x]]
      BY <1>3, <1>4
    <2>3. UNCHANGED <<queue, rpc, done>> /\ (hung => hung')
      BY <1>4
    <2> QED BY <1>0, <1>1, <1>2, <1>3, <2>1, <2>2, <2>3, CallMoved
  <1>8. TurnInv'
    <2> SUFFICES ASSUME rip = None, NEW q \in Procs, pc'[q] = "asleep", ~done[rpc[q]]
                 PROVE  \E x \in Procs : Comes(x)' \/ Called(x)'
      BY <1>4 DEF TurnInv
    <2>1. pc[q] = "asleep"
      BY <1>2, <1>3
    <2>2. PICK x \in Procs : Comes(x) \/ Called(x)
      BY <1>0, <2>1 DEF TurnInv
    <2>3. CASE Comes(x)
      BY <1>1, <1>3, <1>4, <2>3 DEF Comes
    <2>4. CASE Called(x) /\ hand[x] # h
      <3>1. hand[x] \in Tags
        BY <1>0, <2>4 DEF Called, CallInv
      <3>2. x # p
        BY <2>4 DEF h
      <3> QED BY <1>3, <1>4, <2>4, <3>1, <3>2 DEF Called
    <2>5. CASE Called(x) /\ hand[x] = h
      <3>1. PICK y \in Procs : sleeper[h] = y
        BY <1>0, <1>3, <2>5 DEF Called, ShapeInv
      <3>2. y # p /\ rpc[y] = h /\ pc'[y] = "woken" /\ ~done[h]
        BY <1>1, <1>3, <2>5, <3>1 DEF Called
      <3>3. Comes(y)'
        BY <1>4, <3>2 DEF Comes
      <3> QED BY <3>3
    <2> QED BY <2>2, <2>3, <2>4, <2>5
  <1> QED BY <1>3, <1>5, <1>6, <1>7, <1>8 DEF IInv

\* The reader has completed another call, wakes it and reads on.
LEMMA GiveWakeInv ==
  ASSUME IInv, NEW p \in Procs, GiveWake(p)
  PROVE  IInv'
  <1>0. /\ ShapeInv /\ AllocInv /\ QueueInv /\ RipInv /\ SleepInv /\ CallInv /\ ReplyInv
        /\ FlushInv /\ FlightInv /\ MuxInv /\ TurnInv
    BY DEF IInv
  <1> DEFINE h == hand[p]
             r == rpc[p]
  <1>1. pc[p] = "givewake" /\ r \in Tags /\ Wakeup(p, "read")
    BY <1>0, OwnTag DEF GiveWake
  <1>2. Reads(p) /\ r \in ToSet(queue) /\ ~done[r] /\ rip = p
    BY <1>0, <1>1 DEF Reads, RipInv, CallInv, QueueInv
  <1>3. /\ h \in Tags
        /\ \A x \in Procs : pc'[x] = IF x = p THEN "read"
                                     ELSE IF sleeper[h] = x THEN "woken" ELSE pc[x]
        /\ \A x \in Procs : sleeper[h] = x => pc[x] = "asleep" /\ rpc[x] = h
        /\ \A x \in Procs : hand'[x] = IF x = p THEN None ELSE hand[x]
        /\ pc' \in [Procs -> PC] /\ hand' \in [Procs -> Tags \cup {None}]
        /\ sleeper' \in [Tags -> Procs \cup {None}]
        /\ \A t \in Tags : sleeper'[t] = IF t = h THEN None ELSE sleeper[t]
        /\ SleepInv'
    BY <1>1, WakeupSleep
  <1>4. /\ UNCHANGED <<queue, rip, flushtag, free, rpctag, id, done, flushed, ftag, rpc, back,
                       toC, hung, pending, calls, intrs>>
        /\ reply' \in [Tags -> Msgs \cup {None}]
        /\ \A t \in Tags : reply'[t] = IF t = r THEN None ELSE reply[t]
    BY <1>0, <1>1 DEF Wakeup, allocs, wire, ShapeInv
  <1>5. \A x \in Procs : x # p => pc[x] \notin {"mux", "give"}
    BY <1>0, <1>2, OneReader DEF Reads
  <1> HIDE DEF h
  <1>6. ShapeInv'
    BY <1>0, <1>3, <1>4 DEF ShapeInv
  <1>7. AllocInv' /\ QueueInv' /\ FlushInv'
    BY <1>0, <1>1, <1>3, <1>4 DEF AllocInv, QueueInv, FlushInv, Calls
  <1>8. RipInv'
    BY <1>0, <1>1, <1>3, <1>4 DEF RipInv, Reads
  <1>9. CallInv'
    <2>1. intrs \in Nat /\ intrs' \in Nat /\ intrs' >= intrs
      BY <1>0, <1>4 DEF ShapeInv
    <2>2. \A x \in Procs : x # p =>
            /\ pc'[x] = pc[x] \/ (pc[x] = "asleep" /\ pc'[x] = "woken")
            /\ back'[x] = back[x] /\ hand'[x] = hand[x]
            /\ flushed'[rpc[x]] = flushed[rpc[x]]
      BY <1>3, <1>4
    <2>3. UNCHANGED <<queue, rpc, done>> /\ (hung => hung')
      BY <1>4
    <2> QED BY <1>0, <1>1, <1>2, <1>3, <2>1, <2>2, <2>3, CallMoved
  <1>10. ReplyInv'
    <2>1. ASSUME NEW x \in Procs, pc'[x] # "idle", done[rpc[x]]
          PROVE  Own(reply[rpc[x]], rpc[x])'
                 \/ (pc'[x] \in {"opengate", "gatewake", "error"} /\ reply'[rpc[x]] = None)
      <3>1. pc[x] # "idle"
        BY <1>1, <1>3, <2>1
      <3>2. rpc[x] \in Tags /\ rpc[x] # r
        BY <1>0, <1>2, <2>1, <3>1, OwnTag
      <3>3. reply'[rpc[x]] = reply[rpc[x]]
        BY <1>4, <3>2
      <3>4. pc[x] \in {"opengate", "gatewake", "error"} => pc'[x] = pc[x]
        BY <1>1, <1>3
      <3> QED BY <1>0, <1>4, <2>1, <3>1, <3>3, <3>4 DEF ReplyInv, Own
    <2>2. \A x \in Procs : pc'[x] \notin {"mux", "give"}
      BY <1>3, <1>5
    <2> QED BY <1>4, <2>1, <2>2 DEF ReplyInv
  <1>11. FlightInv' /\ MuxInv'
    <2>1. /\ UNCHANGED <<toC, pending>>
          /\ flushtag' \in Nat /\ flushtag' >= flushtag /\ intrs' \in Nat /\ intrs' >= intrs
          /\ \A t \in ToSet(queue) : t \in ToSet(queue') /\ id'[t] = id[t]
      BY <1>0, <1>4 DEF ShapeInv
    <2>2. \A x \in Procs : rpc'[x] \in ToSet(queue) =>
            rpc[x] = rpc'[x] /\ (Mute(pc'[x], hung') => Unsent(x))
      BY <1>1, <1>3, <1>4 DEF Mute, Unsent
    <2>3. \A t \in ToSet(queue') : flushed'[t] =>
            \/ t \in ToSet(queue) /\ flushed[t] /\ ftag'[t] = ftag[t]
            \/ ftag'[t] >= flushtag
      BY <1>4
    <2>4. \A x \in Procs : pc'[x] = "mux" =>
            pc[x] = "mux" /\ rpc'[x] = rpc[x] /\ reply'[rpc[x]] = reply[rpc[x]]
      BY <1>3, <1>5
    <2> QED BY <1>0, <2>1, <2>2, <2>3, <2>4, WireKept
  <1>12. TurnInv'
    BY <1>2, <1>4 DEF TurnInv
  <1> QED BY <1>3, <1>6, <1>7, <1>8, <1>9, <1>10, <1>11, <1>12 DEF IInv

\* A call is to be flushed.
LEMMA FlushStepInv ==
  ASSUME IInv, NEW p \in Procs, Flush(p)
  PROVE  IInv'
  <1>0. /\ ShapeInv /\ AllocInv /\ QueueInv /\ RipInv /\ SleepInv /\ CallInv /\ ReplyInv
        /\ FlushInv /\ FlightInv /\ MuxInv /\ TurnInv
    BY DEF IInv
  <1> DEFINE r == rpc[p]
  <1>1. pc[p] = "flush" /\ r \in Tags
    BY <1>0, OwnTag DEF Flush
  <1>2. /\ \A x \in Procs : pc'[x] = IF x = p THEN "flushsend" ELSE pc[x]
        /\ pc' \in [Procs -> PC] /\ flushtag' = flushtag + 1
        /\ \A t \in Tags : ftag'[t] = IF t = r THEN flushtag ELSE ftag[t]
        /\ \A t \in Tags : flushed'[t] = IF t = r THEN TRUE ELSE flushed[t]
        /\ ftag' \in [Tags -> Nat] /\ flushed' \in [Tags -> BOOLEAN]
        /\ UNCHANGED <<queue, rip, free, rpctag, id, done, reply, sleeper, rpc, back, hand, toC,
                       hung, pending, calls, intrs>>
    BY <1>0, <1>1 DEF Flush, Goto, ShapeInv, PC, procVars, wire, allocs
  <1>3. \A x \in Procs : x # p /\ pc[x] # "idle" => rpc[x] # r /\ rpc[x] \in Tags
    BY <1>0, OneOwner, OwnTag
  <1> HIDE DEF r
  <1>3a. flushtag \in Nat /\ flushtag > Tagfls /\ Tagfls \in Nat /\ UNCHANGED Tagfls
    BY <1>0, FS_CardinalityType DEF ShapeInv, Tagfls
  <1>4. ShapeInv'
    <2>1. flushtag' \in Nat /\ flushtag' > Tagfls'
      BY <1>2, <1>3a
    <2> QED BY <1>0, <1>2, <2>1 DEF ShapeInv
  <1>5. AllocInv' /\ QueueInv'
    BY <1>0, <1>1, <1>2 DEF AllocInv, QueueInv, Calls
  <1>6. RipInv'
    BY <1>0, <1>1, <1>2 DEF RipInv, Reads
  <1>7. SleepInv'
    BY <1>0, <1>1, <1>2, SleepMoved
  <1>8. CallInv'
    <2>1. intrs \in Nat /\ intrs' \in Nat /\ intrs' >= intrs
      BY <1>0, <1>2 DEF ShapeInv
    <2>2. ASSUME NEW x \in Procs
          PROVE  /\ pc'[x] \in {"return", "error", "opengate", "gatewake"} => done[rpc[x]]
                 /\ Reads(x)' /\ pc'[x] # "opengate" => rpc[x] \in ToSet(queue)
                 /\ pc'[x] = "send" => rpc[x] \in ToSet(queue) /\ ~flushed'[rpc[x]]
                 /\ pc'[x] \in {"give", "givewake", "gatewake"} => hand'[x] \in Tags
                 /\ pc'[x] \in {"flush", "flushsend"} =>
                      back'[x] \in {"gate", "read"} /\ (hung' \/ intrs' > 0)
                 /\ pc'[x] = "flushsend" => flushed'[rpc[x]]
      <3>1. CASE x = p
        <4>1. rpc[p] = r /\ pc'[p] = "flushsend" /\ flushed'[r] /\ (Reads(p)' <=> Reads(p))
          BY <1>1, <1>2 DEF r, Reads
        <4>2. Reads(p) => rpc[p] \in ToSet(queue)
          BY <1>0, <1>1 DEF CallInv
        <4>3. back[p] \in {"gate", "read"} /\ (hung \/ intrs > 0)
          BY <1>0, <1>1 DEF CallInv
        <4> QED BY <1>2, <3>1, <4>1, <4>2, <4>3
      <3>2. CASE x # p
        BY <1>0, <1>2, <1>3, <3>2 DEF CallInv, Reads
      <3> QED BY <3>1, <3>2
    <2>3. \A t : Giving(t) => \E x \in Procs : pc'[x] = "give" /\ hand'[x] = t
      BY <1>1, <1>2 DEF Giving
    <2>4. ASSUME NEW x \in Procs, pc'[x] # "idle", ~done[rpc[x]]
          PROVE  rpc[x] \in ToSet(queue) \/ Giving(rpc[x])'
      BY <1>0, <1>1, <1>2, <2>3, <2>4 DEF CallInv, Giving
    <2> QED BY <1>2, <2>2, <2>4 DEF CallInv
  <1>9. ReplyInv'
    <2>1. \A x \in Procs :
           /\ pc'[x] = "idle" <=> pc[x] = "idle"
           /\ pc'[x] \in {"mux", "give"} => pc'[x] = pc[x] /\ hand'[x] = hand[x]
           /\ Mute(pc'[x], hung') => Unsent(x)
           /\ pc[x] \in {"opengate", "gatewake", "error"} =>
                pc'[x] \in {"opengate", "gatewake", "error"} \/ reply[rpc[x]] # None
      BY <1>1, <1>2 DEF Mute, Unsent
    <2> QED BY <1>0, <1>2, <2>1, ReplyMoved
  <1>10. FlushInv'
    <2>2. ASSUME NEW t \in Tags, flushed'[t] PROVE ftag'[t] > Tagfls /\ ftag'[t] < flushtag'
      <3>1. CASE t = r
        BY <1>2, <1>3a, <3>1
      <3>2. CASE t # r
        <4>1. ftag[t] > Tagfls /\ ftag[t] < flushtag /\ ftag[t] \in Nat
          BY <1>0, <1>2, <2>2, <3>2 DEF FlushInv, ShapeInv
        <4> QED BY <1>2, <1>3a, <3>2, <4>1
      <3> QED BY <3>1, <3>2
    <2>3. ASSUME NEW t \in Tags, NEW u \in Tags, flushed'[t], flushed'[u], ftag'[t] = ftag'[u]
          PROVE  t = u
      <3>1. \A v \in Tags : flushed[v] => ftag[v] < flushtag /\ ftag[v] \in Nat
        BY <1>0 DEF FlushInv, ShapeInv
      <3>2. flushed[t] /\ flushed[u] /\ ftag[t] = ftag[u] => t = u
        BY <1>0 DEF FlushInv
      <3>3. ASSUME NEW v \in Tags, flushed'[v]
            PROVE  IF v = r THEN ftag'[v] = flushtag
                            ELSE flushed[v] /\ ftag'[v] = ftag[v] /\ ftag'[v] # flushtag
        <4>1. CASE v = r
          BY <1>2, <4>1
        <4>2. CASE v # r
          <5>1. flushed[v] /\ ftag'[v] = ftag[v]
            BY <1>2, <3>3, <4>2
          <5>2. ftag[v] < flushtag /\ ftag[v] \in Nat
            BY <3>1, <5>1
          <5>3. ftag[v] # flushtag
            BY <1>3a, <5>2
          <5> QED BY <4>2, <5>1, <5>3
        <4> QED BY <4>1, <4>2
      <3> QED BY <2>3, <3>2, <3>3
    <2> QED BY <1>0, <1>2, <2>2, <2>3 DEF FlushInv, Tagfls
  <1>11. FlightInv' /\ MuxInv'
    <2>1. /\ UNCHANGED <<toC, pending>>
          /\ flushtag' \in Nat /\ flushtag' >= flushtag /\ intrs' \in Nat /\ intrs' >= intrs
          /\ \A t \in ToSet(queue) : t \in ToSet(queue') /\ id'[t] = id[t]
      BY <1>0, <1>2 DEF ShapeInv
    <2>2. \A x \in Procs : rpc'[x] \in ToSet(queue) =>
            rpc[x] = rpc'[x] /\ (Mute(pc'[x], hung') => Unsent(x))
      BY <1>1, <1>2 DEF Mute, Unsent
    <2>3. \A t \in ToSet(queue') : flushed'[t] =>
            \/ t \in ToSet(queue) /\ flushed[t] /\ ftag'[t] = ftag[t]
            \/ ftag'[t] >= flushtag
      <3>1. ToSet(queue) \subseteq Tags
        BY <1>0, QueueSubset DEF ShapeInv
      <3>2. flushtag >= flushtag
        BY <1>3a
      <3> QED BY <1>2, <3>1, <3>2
    <2>4. \A x \in Procs : pc'[x] = "mux" =>
            pc[x] = "mux" /\ rpc'[x] = rpc[x] /\ reply'[rpc[x]] = reply[rpc[x]]
      BY <1>2
    <2> QED BY <1>0, <2>1, <2>2, <2>3, <2>4, WireKept
  <1>12. TurnInv'
    BY <1>0, <1>1, <1>2 DEF TurnInv, Comes, Called
  <1> QED BY <1>4, <1>5, <1>6, <1>7, <1>8, <1>9, <1>10, <1>11, <1>12 DEF IInv

\* The sending of a flush is interrupted.
LEMMA FlushInterruptedInv ==
  ASSUME IInv, NEW p \in Procs, FlushInterrupted(p)
  PROVE  IInv'
  <1>0. /\ ShapeInv /\ AllocInv /\ QueueInv /\ RipInv /\ SleepInv /\ CallInv /\ ReplyInv
        /\ TurnInv
    BY DEF IInv
  <1> DEFINE c == back[p]
  <1>1. pc[p] = "flushsend" /\ rpc[p] \in Tags /\ ~hung /\ c \in {"gate", "read"}
    BY <1>0, OwnTag DEF FlushInterrupted, CallInv
  <1>2. /\ \A x \in Procs : pc'[x] = IF x = p THEN c ELSE pc[x]
        /\ \A x \in Procs : back'[x] = IF x = p THEN None ELSE back[x]
        /\ pc' \in [Procs -> PC] /\ back' \in [Procs -> {"gate", "read", None}]
        /\ UNCHANGED <<queue, rip, flushtag, allocs, mntrpcs, sleeper, rpc, hand, toC,
                       hung, pending, calls, intrs>>
    BY <1>0, <1>1 DEF FlushInterrupted, Goto, ShapeInv, PC, procVars, wire
  <1>3. UNCHANGED <<free, rpctag, id, done, flushed, ftag, reply>>
    BY <1>2 DEF allocs, mntrpcs
  <1>4. c = "read" <=> Reads(p)
    BY <1>1 DEF Reads
  <1> HIDE DEF c
  <1>5. ShapeInv' /\ AllocInv' /\ QueueInv' /\ ReplyInv' /\ FlushInv' /\ FlightInv' /\ MuxInv'
    <2>1. \A x \in Procs :
           /\ pc'[x] = "idle" <=> pc[x] = "idle"
           /\ pc'[x] \in {"mux", "give"} => pc'[x] = pc[x] /\ hand'[x] = hand[x]
           /\ Mute(pc'[x], hung) => Unsent(x)
           /\ pc[x] \in {"opengate", "gatewake", "error"} =>
                pc'[x] \in {"opengate", "gatewake", "error"} \/ reply[rpc[x]] # None
      BY <1>1, <1>2 DEF Mute, Unsent
    <2>2. /\ rip' \in Procs \cup {None} /\ sleeper' \in [Tags -> Procs \cup {None}]
          /\ hand' \in [Procs -> Tags \cup {None}]
          /\ intrs' \in Nat /\ intrs' >= intrs /\ (hung => intrs' = intrs)
      BY <1>0, <1>2 DEF ShapeInv
    <2> QED BY <1>2, <2>1, <2>2, MoveKept
  <1>6. RipInv'
    BY <1>0, <1>1, <1>2, <1>4 DEF RipInv, Reads
  <1>7. SleepInv'
    BY <1>0, <1>1, <1>2, SleepMoved
  <1>8. CallInv'
    <2>1. intrs \in Nat /\ intrs' \in Nat /\ intrs' >= intrs
      BY <1>0, <1>2 DEF ShapeInv
    <2>2. \A x \in Procs : x # p =>
            /\ pc'[x] = pc[x] \/ (pc[x] = "asleep" /\ pc'[x] = "woken")
            /\ back'[x] = back[x] /\ hand'[x] = hand[x]
            /\ flushed'[rpc[x]] = flushed[rpc[x]]
      BY <1>2, <1>3
    <2>3. UNCHANGED <<queue, rpc, done>> /\ (hung => hung')
      BY <1>2, <1>3
    <2>4. c = "read" => rpc[p] \in ToSet(queue)
      BY <1>0, <1>1, <1>4 DEF CallInv
    <2>5. pc[p] = "flushsend" /\ pc'[p] \in {"gate", "read"}
      BY <1>1, <1>2
    <2> QED BY <1>0, <1>2, <2>1, <2>2, <2>3, <2>4, <2>5, CallMoved
  <1>9. TurnInv'
    <2>1. c = "read" => rip # None
      BY <1>0, <1>4 DEF RipInv
    <2> QED BY <1>0, <1>1, <1>2, <1>3, <2>1 DEF TurnInv, Comes, Called
  <1> QED BY <1>5, <1>6, <1>7, <1>8, <1>9 DEF IInv

\* A call goes to mntflush: an error, or an interruption, with nothing sent.
LEMMA ToFlushInv ==
  ASSUME IInv, NEW p \in Procs, NEW b \in {"gate", "read"},
         pc[p] \in {"send", "asleep", "read"},
         b = "read" <=> pc[p] = "read",
         pc' = [pc EXCEPT ![p] = "flush"],
         back' = [back EXCEPT ![p] = b],
         sleeper' = IF pc[p] = "asleep" THEN [sleeper EXCEPT ![rpc[p]] = None] ELSE sleeper,
         IF hung THEN pc[p] = "send" /\ intrs' = intrs ELSE intrs' = intrs + 1,
         UNCHANGED <<queue, rip, flushtag, allocs, mntrpcs, rpc, hand, toC, hung, pending, calls>>
  PROVE  IInv'
  <1>0. /\ ShapeInv /\ AllocInv /\ QueueInv /\ RipInv /\ SleepInv /\ CallInv /\ ReplyInv
        /\ TurnInv
    BY DEF IInv
  <1>1. rpc[p] \in Tags
    BY <1>0, OwnTag
  <1>2. /\ \A x \in Procs : pc'[x] = IF x = p THEN "flush" ELSE pc[x]
        /\ \A x \in Procs : back'[x] = IF x = p THEN b ELSE back[x]
        /\ pc' \in [Procs -> PC] /\ back' \in [Procs -> {"gate", "read", None}]
        /\ sleeper' \in [Tags -> Procs \cup {None}]
        /\ \A t \in Tags : sleeper'[t] = IF pc[p] = "asleep" /\ t = rpc[p] THEN None
                                                                          ELSE sleeper[t]
    BY <1>0, <1>1 DEF ShapeInv, PC
  <1>3. UNCHANGED <<free, rpctag, id, done, flushed, ftag, reply>>
    BY DEF allocs, mntrpcs
  <1>4. intrs \in Nat /\ intrs' \in Nat /\ intrs' >= intrs /\ (hung \/ intrs' > 0)
    BY <1>0 DEF ShapeInv
  <1>5. ShapeInv' /\ AllocInv' /\ QueueInv' /\ ReplyInv' /\ FlushInv' /\ FlightInv' /\ MuxInv'
    <2>1. \A x \in Procs :
           /\ pc'[x] = "idle" <=> pc[x] = "idle"
           /\ pc'[x] \in {"mux", "give"} => pc'[x] = pc[x] /\ hand'[x] = hand[x]
           /\ Mute(pc'[x], hung) => Unsent(x)
           /\ pc[x] \in {"opengate", "gatewake", "error"} =>
                pc'[x] \in {"opengate", "gatewake", "error"} \/ reply[rpc[x]] # None
      BY <1>2 DEF Mute, Unsent
    <2>2. /\ rip' \in Procs \cup {None}
          /\ hand' \in [Procs -> Tags \cup {None}]
          /\ intrs' \in Nat /\ intrs' >= intrs /\ (hung => intrs' = intrs)
      BY <1>0, <1>4 DEF ShapeInv
    <2> QED BY <1>2, <2>1, <2>2, MoveKept
  <1>6. RipInv'
    BY <1>0, <1>2 DEF RipInv, Reads
  <1>7. SleepInv'
    <2>1. ASSUME NEW x \in Procs, pc'[x] = "asleep" PROVE sleeper'[rpc[x]] = x
      <3>1. x # p /\ pc[x] = "asleep"
        BY <1>2, <2>1
      <3>2. sleeper[rpc[x]] = x /\ rpc[x] \in Tags /\ rpc[x] # rpc[p]
        BY <1>0, <3>1, OwnTag, OneOwner DEF SleepInv
      <3> QED BY <1>2, <3>2
    <2>2. ASSUME NEW t \in Tags, sleeper'[t] # None
          PROVE  pc'[sleeper'[t]] = "asleep" /\ rpc[sleeper'[t]] = t
      <3>1. /\ sleeper'[t] = sleeper[t] /\ sleeper[t] \in Procs
            /\ pc[p] = "asleep" => t # rpc[p]
        BY <1>0, <1>2, <2>2 DEF ShapeInv
      <3>2. pc[sleeper[t]] = "asleep" /\ rpc[sleeper[t]] = t
        BY <1>0, <2>2, <3>1 DEF SleepInv
      <3>3. sleeper[t] # p
        BY <3>1, <3>2
      <3> QED BY <1>2, <3>1, <3>2, <3>3
    <2> QED BY <2>1, <2>2 DEF SleepInv
  <1>8. CallInv'
    <2>1. \A x \in Procs : x # p =>
            /\ pc'[x] = pc[x] \/ (pc[x] = "asleep" /\ pc'[x] = "woken")
            /\ back'[x] = back[x] /\ hand'[x] = hand[x]
            /\ flushed'[rpc[x]] = flushed[rpc[x]]
      BY <1>2, <1>3
    <2>2. UNCHANGED <<queue, rpc, done>> /\ (hung => hung')
      BY <1>3
    <2>3. back'[p] = "read" => rpc[p] \in ToSet(queue)
      BY <1>0, <1>2 DEF CallInv, Reads
    <2>4. pc'[p] = "flush" /\ pc[p] \notin {"idle", "give"} /\ back'[p] = b
      BY <1>2
    <2> QED BY <1>0, <1>4, <2>1, <2>2, <2>3, <2>4, CallMoved
  <1>9. TurnInv'
    <2> SUFFICES ASSUME rip = None, NEW q \in Procs, pc'[q] = "asleep", ~done[rpc[q]]
                 PROVE  \E x \in Procs : Comes(x)' \/ Called(x)'
      BY <1>3 DEF TurnInv
    <2>1. pc[q] = "asleep"
      BY <1>2
    <2>2. PICK x \in Procs : Comes(x) \/ Called(x)
      BY <1>0, <2>1 DEF TurnInv
    <2>3. CASE Comes(x)
      BY <1>2, <1>3, <2>3 DEF Comes
    <2>4. CASE Called(x)
      <3>1. hand[x] \in Tags /\ x # p
        BY <1>0, <2>4 DEF Called, CallInv
      <3>2. CASE pc[p] = "asleep" /\ hand[x] = rpc[p]
        BY <1>2, <1>3, <2>4, <3>2 DEF Comes, Called
      <3>3. CASE ~(pc[p] = "asleep" /\ hand[x] = rpc[p])
        BY <1>2, <1>3, <2>4, <3>1, <3>3 DEF Called
      <3> QED BY <3>2, <3>3
    <2> QED BY <2>2, <2>3, <2>4
  <1> QED BY <1>5, <1>6, <1>7, <1>8, <1>9 DEF IInv

\* A request is sent, and the sender goes on, or is interrupted after all.
LEMMA RequestInv ==
  ASSUME IInv, NEW p \in Procs, pc[p] = "send", ~hung,
         NEW c \in {"gate", "flush"},
         pc' = [pc EXCEPT ![p] = c],
         IF c = "gate" THEN intrs' = intrs /\ back' = back
                       ELSE intrs' = intrs + 1 /\ back' = [back EXCEPT ![p] = "gate"],
         pending' = Requested(rpc[p]),
         UNCHANGED <<queue, rip, flushtag, allocs, mntrpcs, sleeper, rpc, hand, toC, hung, calls>>
  PROVE  IInv'
  <1>0. /\ ShapeInv /\ AllocInv /\ QueueInv /\ RipInv /\ SleepInv /\ CallInv /\ ReplyInv
        /\ FlushInv /\ FlightInv /\ MuxInv /\ TurnInv
    BY DEF IInv
  <1>1. rpc[p] \in Tags /\ rpc[p] \in Nat
    BY <1>0, OwnTag DEF Tags
  <1>2. /\ \A x \in Procs : pc'[x] = IF x = p THEN c ELSE pc[x]
        /\ \A x \in Procs : back'[x] = IF x = p /\ c = "flush" THEN "gate" ELSE back[x]
        /\ pc' \in [Procs -> PC] /\ back' \in [Procs -> {"gate", "read", None}]
    BY <1>0, <1>1 DEF ShapeInv, PC
  <1>3. UNCHANGED <<free, rpctag, id, done, flushed, ftag, reply>>
    BY DEF allocs, mntrpcs
  <1>4. intrs \in Nat /\ intrs' \in Nat /\ intrs' >= intrs /\ (c = "flush" => intrs' > 0)
    BY <1>0 DEF ShapeInv
  <1>5. PICK r : r = Request(rpc[p])
    OBVIOUS
  <1>6. r \in Msgs /\ r.type = "R" /\ r.tag = rpc[p] /\ r.id = id[rpc[p]]
    BY <1>0, <1>1, <1>5 DEF Request, Msgs, ShapeInv
  <1>7. pending' = pending \cup {r}
    BY <1>5 DEF Requested
  <1>8. rpc[p] \in ToSet(queue) /\ ~flushed[rpc[p]] /\ Unsent(p)
    BY <1>0 DEF CallInv, Unsent, Mute
  <1>9. ShapeInv'
    BY <1>0, <1>2, <1>3, <1>4, <1>6, <1>7 DEF ShapeInv
  <1>10. AllocInv' /\ QueueInv' /\ FlushInv'
    BY <1>0, <1>2, <1>3 DEF AllocInv, QueueInv, FlushInv, Calls
  <1>11. RipInv'
    BY <1>0, <1>2 DEF RipInv, Reads
  <1>12. SleepInv'
    BY <1>0, <1>2, SleepMoved
  <1>13. CallInv'
    <2>1. \A x \in Procs : x # p =>
            /\ pc'[x] = pc[x] \/ (pc[x] = "asleep" /\ pc'[x] = "woken")
            /\ back'[x] = back[x] /\ hand'[x] = hand[x]
            /\ flushed'[rpc[x]] = flushed[rpc[x]]
      BY <1>2, <1>3
    <2>2. UNCHANGED <<queue, rpc, done>> /\ (hung => hung')
      BY <1>3
    <2>3. pc'[p] = c /\ (c = "flush" => back'[p] = "gate")
      BY <1>2
    <2> QED BY <1>0, <1>4, <2>1, <2>2, <2>3, CallMoved
  <1>14. ReplyInv'
    <2>1. \A x \in Procs :
           /\ pc'[x] = "idle" <=> pc[x] = "idle"
           /\ pc'[x] \in {"mux", "give"} => pc'[x] = pc[x] /\ hand'[x] = hand[x]
           /\ Mute(pc'[x], hung') => Unsent(x)
           /\ pc[x] \in {"opengate", "gatewake", "error"} =>
                pc'[x] \in {"opengate", "gatewake", "error"} \/ reply[rpc[x]] # None
      BY <1>2 DEF Mute, Unsent
    <2> QED BY <1>0, <1>3, <2>1, ReplyMoved
  <1>15. ASSUME NEW m \in Msgs, NEW n \in Msgs, MsgOK(m), MsgOK(n)
         PROVE  MsgOK(m)' /\ (~Clash(m, n) => ~Clash(m, n)')
    <2>1. /\ flushtag' \in Nat /\ flushtag' >= flushtag
          /\ \A t \in ToSet(queue) : t \in ToSet(queue') /\ id'[t] = id[t]
      BY <1>0, <1>3 DEF ShapeInv
    <2>2. \A x \in Procs : rpc'[x] \in ToSet(queue) =>
            rpc[x] = rpc'[x] /\ (Mute(pc'[x], hung') => Unsent(x))
      BY <1>2 DEF Mute, Unsent
    <2>3. \A t \in ToSet(queue') : flushed'[t] =>
            \/ t \in ToSet(queue) /\ flushed[t] /\ ftag'[t] = ftag[t]
            \/ ftag'[t] >= flushtag
      BY <1>3
    <2> QED BY <1>0, <1>4, <1>15, <2>1, <2>2, <2>3, PairKept
  <1>16. MsgOK(r)'
    <2>1. \A x \in Procs : rpc[x] = rpc[p] => x = p
      BY <1>0, OneOwner
    <2>2. ~Mute(pc'[p], hung')
      BY <1>2 DEF Mute
    <2> QED BY <1>3, <1>6, <1>8, <2>1, <2>2 DEF MsgOK, Unsent
  <1>17. ASSUME NEW m \in Msgs, MsgOK(m)
         PROVE  ~Clash(m, r)' /\ ~Clash(r, m)'
    BY <1>3, <1>6, <1>8, <1>17 DEF Clash, MsgOK
  <1>18. toC \in Seq(Msgs) /\ pending \subseteq Msgs
    BY <1>0 DEF ShapeInv
  <1>19. FlightInv'
    <2>1. ASSUME NEW m \in pending' PROVE MsgOK(m)'
      BY <1>0, <1>7, <1>15, <1>16, <1>18 DEF FlightInv
    <2>2. ASSUME NEW i \in DOMAIN toC PROVE MsgOK(toC[i])'
      BY <1>0, <1>15, <1>18 DEF FlightInv
    <2>3. ASSUME NEW m \in pending', NEW n \in pending', m # n PROVE ~Clash(m, n)'
      BY <1>0, <1>7, <1>15, <1>17, <1>18, <2>3 DEF FlightInv
    <2>4. ASSUME NEW i \in DOMAIN toC, NEW n \in pending' PROVE ~Clash(toC[i], n)'
      BY <1>0, <1>7, <1>15, <1>17, <1>18 DEF FlightInv
    <2>5. ASSUME NEW i \in DOMAIN toC, NEW j \in DOMAIN toC, i < j
          PROVE  ~Clash(toC[i], toC[j])'
      BY <1>0, <1>15, <1>18, <2>5 DEF FlightInv
    <2> QED BY <2>1, <2>2, <2>3, <2>4, <2>5 DEF FlightInv
  <1>20. MuxInv'
    <2> SUFFICES ASSUME NEW x \in Procs, pc'[x] = "mux"
                 PROVE  /\ MsgOK(reply[rpc[x]])'
                        /\ \A n \in pending' : ~Clash(reply[rpc[x]], n)'
                        /\ \A i \in DOMAIN toC' : ~Clash(reply[rpc[x]], toC[i])'
      BY DEF MuxInv
    <2> DEFINE m == reply[rpc[x]]
    <2>1. pc[x] = "mux" /\ m' = m
      BY <1>2, <1>3
    <2>2. m \in Msgs /\ MsgOK(m)
      BY <1>0, <2>1 DEF ReplyInv, MuxInv
    <2>3. MsgOK(m)'
      BY <1>15, <2>1, <2>2
    <2>4. ASSUME NEW n \in pending' PROVE ~Clash(m, n)'
      BY <1>0, <1>7, <1>15, <1>17, <1>18, <2>1, <2>2 DEF FlightInv, MuxInv
    <2>5. ASSUME NEW i \in DOMAIN toC PROVE ~Clash(m, toC[i])'
      BY <1>0, <1>15, <1>18, <2>1, <2>2 DEF FlightInv, MuxInv
    <2> QED BY <2>3, <2>4, <2>5
  <1>21. TurnInv'
    BY <1>0, <1>2, <1>3 DEF TurnInv, Comes, Called
  <1> QED BY <1>9, <1>10, <1>11, <1>12, <1>13, <1>14, <1>19, <1>20, <1>21 DEF IInv

\* The request is sent, or is not, for the connection is no more.
LEMMA SendInv ==
  ASSUME IInv, NEW p \in Procs, Send(p)
  PROVE  IInv'
  <1>1. pc[p] = "send" /\ UNCHANGED <<queue, rip, flushtag, allocs, mntrpcs, sleeper, rpc, hand,
                                      toC, hung, calls, intrs>>
    BY DEF Send
  <1>2. CASE hung
    <2>1. /\ pc' = [pc EXCEPT ![p] = "flush"]
          /\ back' = [back EXCEPT ![p] = "gate"]
          /\ sleeper' = IF pc[p] = "asleep" THEN [sleeper EXCEPT ![rpc[p]] = None] ELSE sleeper
          /\ UNCHANGED pending
      BY <1>1, <1>2 DEF Send, Goto
    <2>2. /\ "gate" = "read" <=> pc[p] = "read"
          /\ pc[p] \in {"send", "asleep", "read"}
          /\ IF hung THEN pc[p] = "send" /\ intrs' = intrs ELSE intrs' = intrs + 1
      BY <1>1, <1>2
    <2> QED BY <1>1, <2>1, <2>2, ToFlushInv
  <1>3. CASE ~hung
    <2>1. pc' = [pc EXCEPT ![p] = "gate"] /\ pending' = Requested(rpc[p]) /\ back' = back
      BY <1>3 DEF Send, Goto
    <2> QED BY <1>1, <1>3, <2>1, RequestInv
  <1> QED BY <1>2, <1>3

\* A call is interrupted.
LEMMA InterruptInv ==
  ASSUME IInv, NEW p \in Procs, Interrupt(p)
  PROVE  IInv'
  <1>1. /\ ~hung /\ intrs' = intrs + 1 /\ pc' = [pc EXCEPT ![p] = "flush"]
        /\ UNCHANGED <<queue, rip, flushtag, allocs, mntrpcs, rpc, hand, toC, hung, calls>>
    BY DEF Interrupt, Goto
  <1>2. CASE pc[p] = "asleep" /\ sleeper' = [sleeper EXCEPT ![rpc[p]] = None]
             /\ back' = [back EXCEPT ![p] = "gate"] /\ UNCHANGED pending
    BY <1>1, <1>2, ToFlushInv
  <1>3. CASE pc[p] = "send" /\ pending' \in {pending, Requested(rpc[p])}
             /\ back' = [back EXCEPT ![p] = "gate"] /\ UNCHANGED sleeper
    <2>1. CASE pending' = pending
      BY <1>1, <1>3, <2>1, ToFlushInv
    <2>2. CASE pending' = Requested(rpc[p])
      BY <1>1, <1>3, <2>2, RequestInv
    <2> QED BY <1>3, <2>1, <2>2
  <1>4. CASE pc[p] = "read" /\ back' = [back EXCEPT ![p] = "read"] /\ UNCHANGED <<sleeper, pending>>
    BY <1>1, <1>4, ToFlushInv
  <1> QED BY <1>2, <1>3, <1>4 DEF Interrupt

\* The flush is sent: the server drops the request, and answers the flush.
LEMMA FlushSentInv ==
  ASSUME IInv, NEW p \in Procs, FlushSend(p), ~hung
  PROVE  IInv'
  <1>0. /\ ShapeInv /\ AllocInv /\ QueueInv /\ RipInv /\ SleepInv /\ CallInv /\ ReplyInv
        /\ FlushInv /\ FlightInv /\ MuxInv /\ TurnInv
    BY DEF IInv
  <1> DEFINE c == back[p]
  <1>1. pc[p] = "flushsend" /\ rpc[p] \in Tags /\ c \in {"gate", "read"} /\ intrs > 0
        /\ flushed[rpc[p]]
    BY <1>0, OwnTag DEF FlushSend, CallInv
  <1>2. /\ \A x \in Procs : pc'[x] = IF x = p THEN c ELSE pc[x]
        /\ \A x \in Procs : back'[x] = IF x = p THEN None ELSE back[x]
        /\ pc' \in [Procs -> PC] /\ back' \in [Procs -> {"gate", "read", None}]
        /\ pending' = Discarded(rpc[p])
        /\ UNCHANGED <<queue, rip, flushtag, allocs, mntrpcs, sleeper, rpc, hand, toC, hung,
                       calls, intrs>>
    BY <1>0, <1>1 DEF FlushSend, Goto, ShapeInv, PC
  <1>3. UNCHANGED <<free, rpctag, id, done, flushed, ftag, reply>>
    BY <1>2 DEF allocs, mntrpcs
  <1>4. c = "read" <=> Reads(p)
    BY <1>1 DEF Reads
  <1> HIDE DEF c
  <1>5. intrs \in Nat /\ intrs' \in Nat /\ intrs' >= intrs /\ flushtag \in Nat
    BY <1>0, <1>2 DEF ShapeInv
  <1>6. PICK f : f = [type |-> "Rflush", tag |-> ftag[rpc[p]], id |-> id[rpc[p]]]
    OBVIOUS
  <1>7. f \in Msgs /\ f.type = "Rflush" /\ f.tag = ftag[rpc[p]] /\ f.id = id[rpc[p]]
    BY <1>0, <1>1, <1>6 DEF Msgs, ShapeInv
  <1>8. /\ f \in pending' /\ \A m \in pending' : m = f \/ m \in pending
        /\ \A m \in pending' : m.type = "R" => m.tag # rpc[p]
    BY <1>2, <1>6, <1>7 DEF Discarded
  <1>9. ShapeInv'
    BY <1>0, <1>2, <1>3, <1>5, <1>7, <1>8 DEF ShapeInv
  <1>10. AllocInv' /\ QueueInv' /\ FlushInv'
    BY <1>0, <1>1, <1>2, <1>3 DEF AllocInv, QueueInv, FlushInv, Calls
  <1>11. RipInv'
    BY <1>0, <1>1, <1>2, <1>4 DEF RipInv, Reads
  <1>12. SleepInv'
    BY <1>0, <1>1, <1>2, SleepMoved
  <1>13. CallInv'
    <2>1. \A x \in Procs : x # p =>
            /\ pc'[x] = pc[x] \/ (pc[x] = "asleep" /\ pc'[x] = "woken")
            /\ back'[x] = back[x] /\ hand'[x] = hand[x]
            /\ flushed'[rpc[x]] = flushed[rpc[x]]
      BY <1>2, <1>3
    <2>2. UNCHANGED <<queue, rpc, done>> /\ (hung => hung')
      BY <1>2, <1>3
    <2>3. c = "read" => rpc[p] \in ToSet(queue)
      BY <1>0, <1>1, <1>4 DEF CallInv
    <2>4. pc[p] = "flushsend" /\ pc'[p] \in {"gate", "read"}
      BY <1>1, <1>2
    <2> QED BY <1>0, <1>2, <1>5, <2>1, <2>2, <2>3, <2>4, CallMoved
  <1>14. ReplyInv'
    <2>1. \A x \in Procs :
           /\ pc'[x] = "idle" <=> pc[x] = "idle"
           /\ pc'[x] \in {"mux", "give"} => pc'[x] = pc[x] /\ hand'[x] = hand[x]
           /\ Mute(pc'[x], hung') => Unsent(x)
           /\ pc[x] \in {"opengate", "gatewake", "error"} =>
                pc'[x] \in {"opengate", "gatewake", "error"} \/ reply[rpc[x]] # None
      BY <1>1, <1>2 DEF Mute, Unsent
    <2> QED BY <1>0, <1>2, <1>3, <2>1, ReplyMoved
  <1>15. ASSUME NEW m \in Msgs, NEW n \in Msgs, MsgOK(m), MsgOK(n)
         PROVE  MsgOK(m)' /\ (~Clash(m, n) => ~Clash(m, n)')
    <2>1. /\ flushtag' \in Nat /\ flushtag' >= flushtag
          /\ \A t \in ToSet(queue) : t \in ToSet(queue') /\ id'[t] = id[t]
      BY <1>2, <1>3, <1>5
    <2>2. \A x \in Procs : rpc'[x] \in ToSet(queue) =>
            rpc[x] = rpc'[x] /\ (Mute(pc'[x], hung') => Unsent(x))
      BY <1>1, <1>2 DEF Mute, Unsent
    <2>3. \A t \in ToSet(queue') : flushed'[t] =>
            \/ t \in ToSet(queue) /\ flushed[t] /\ ftag'[t] = ftag[t]
            \/ ftag'[t] >= flushtag
      BY <1>2, <1>3
    <2> QED BY <1>0, <1>5, <1>15, <2>1, <2>2, <2>3, PairKept
  <1>16. ToSet(queue) \subseteq Tags
    BY <1>0, QueueSubset DEF ShapeInv
  <1>17. MsgOK(f)'
    <2>1. f.tag > Tagfls /\ f.tag < flushtag
      BY <1>0, <1>1, <1>7 DEF FlushInv
    <2>2. \A t \in ToSet(queue) : flushed[t] /\ ftag[t] = f.tag => f.id = id[t]
      BY <1>0, <1>1, <1>7, <1>16 DEF FlushInv
    <2> QED BY <1>1, <1>2, <1>3, <1>7, <2>1, <2>2 DEF MsgOK, Tagfls
  <1>18. ASSUME NEW n \in pending', MsgOK(n)
         PROVE  ~Clash(f, n)'
    <2>1. n.type = "R" => n.tag # rpc[p] /\ n.tag \in ToSet(queue)
      BY <1>8, <1>18 DEF MsgOK
    <2>2. n.type = "R" /\ flushed[n.tag] => ftag[n.tag] # f.tag
      BY <1>0, <1>1, <1>7, <1>16, <2>1 DEF FlushInv
    <2> QED BY <1>3, <1>7, <2>2 DEF Clash
  <1>20. toC \in Seq(Msgs) /\ pending \subseteq Msgs
    BY <1>0 DEF ShapeInv
  <1>21. ASSUME NEW m PROVE ~Clash(m, f)'
    BY <1>7 DEF Clash
  <1>22. FlightInv'
    <2>1. ASSUME NEW m \in pending' PROVE MsgOK(m)'
      BY <1>0, <1>8, <1>15, <1>17, <1>20 DEF FlightInv
    <2>2. ASSUME NEW i \in DOMAIN toC PROVE MsgOK(toC[i])'
      BY <1>0, <1>2, <1>15, <1>20 DEF FlightInv
    <2>3. ASSUME NEW m \in pending', NEW n \in pending', m # n PROVE ~Clash(m, n)'
      <3>1. CASE n = f
        BY <1>21, <3>1
      <3>2. CASE n # f
        <4>1. n \in pending /\ MsgOK(n) /\ n \in Msgs
          BY <1>0, <1>8, <1>20, <3>2 DEF FlightInv
        <4> QED BY <1>0, <1>8, <1>15, <1>18, <1>20, <2>3, <4>1 DEF FlightInv
      <3> QED BY <3>1, <3>2
    <2>4. ASSUME NEW i \in DOMAIN toC, NEW n \in pending' PROVE ~Clash(toC[i], n)'
      BY <1>0, <1>2, <1>8, <1>15, <1>20, <1>21 DEF FlightInv
    <2>5. ASSUME NEW i \in DOMAIN toC, NEW j \in DOMAIN toC, i < j
          PROVE  ~Clash(toC[i], toC[j])'
      BY <1>0, <1>2, <1>15, <1>20, <2>5 DEF FlightInv
    <2> QED BY <1>2, <2>1, <2>2, <2>3, <2>4, <2>5 DEF FlightInv
  <1>23. MuxInv'
    <2> SUFFICES ASSUME NEW x \in Procs, pc'[x] = "mux"
                 PROVE  /\ MsgOK(reply[rpc[x]])'
                        /\ \A n \in pending' : ~Clash(reply[rpc[x]], n)'
                        /\ \A i \in DOMAIN toC' : ~Clash(reply[rpc[x]], toC[i])'
      BY DEF MuxInv
    <2> DEFINE m == reply[rpc[x]]
    <2>1. pc[x] = "mux" /\ m' = m
      BY <1>1, <1>2, <1>3
    <2>2. m \in Msgs /\ MsgOK(m)
      BY <1>0, <2>1 DEF ReplyInv, MuxInv
    <2>3. MsgOK(m)'
      BY <1>15, <2>1, <2>2
    <2>4. ASSUME NEW n \in pending' PROVE ~Clash(m, n)'
      BY <1>0, <1>8, <1>15, <1>20, <1>21, <2>1, <2>2 DEF FlightInv, MuxInv
    <2>5. ASSUME NEW i \in DOMAIN toC PROVE ~Clash(m, toC[i])'
      BY <1>0, <1>2, <1>15, <1>20, <2>1, <2>2 DEF FlightInv, MuxInv
    <2> QED BY <1>2, <2>3, <2>4, <2>5
  <1>24. TurnInv'
    <2>1. c = "read" => rip # None
      BY <1>0, <1>4 DEF RipInv
    <2> QED BY <1>0, <1>1, <1>2, <1>3, <2>1 DEF TurnInv, Comes, Called
  <1> QED BY <1>9, <1>10, <1>11, <1>12, <1>13, <1>14, <1>22, <1>23, <1>24 DEF IInv

\* What is left of a call that ends with an error, the connection being no more.
\* p is at "read", or at "flushsend"; c is "opengate" if it was at the gate.
LEMMA QrmInv ==
  ASSUME IInv, NEW p \in Procs, hung, Qrm(rpc[p]),
         \/ pc[p] = "read" /\ toC = <<>>
         \/ pc[p] = "flushsend",
         NEW c \in {"opengate", "error"}, c = "opengate" <=> Reads(p),
         pc' = [pc EXCEPT ![p] = c],
         back' \in {back, [back EXCEPT ![p] = None]},
         UNCHANGED <<rip, flushtag, allocs, sleeper, rpc, hand, wire, calls, intrs>>
  PROVE  IInv'
  <1>0. /\ ShapeInv /\ AllocInv /\ QueueInv /\ RipInv /\ SleepInv /\ CallInv /\ ReplyInv
        /\ FlushInv /\ FlightInv /\ MuxInv /\ TurnInv
    BY DEF IInv
  <1> DEFINE r == rpc[p]
  <1>1. r \in Tags /\ pc[p] \notin {"idle", "give", "mux", "asleep"}
    BY <1>0, OwnTag
  <1> HIDE DEF r
  <1>2. /\ \A x \in Procs : pc'[x] = IF x = p THEN c ELSE pc[x]
        /\ \A x \in Procs : x # p => back'[x] = back[x]
        /\ pc' \in [Procs -> PC] /\ back' \in [Procs -> {"gate", "read", None}]
    BY <1>0 DEF ShapeInv, PC
  <1>3. UNCHANGED <<free, rpctag, toC, hung, pending, id, ftag>>
    BY DEF allocs, wire, Qrm
  <1>4. /\ \A t \in Tags : done'[t] = IF t = r THEN TRUE ELSE done[t]
        /\ \A t \in Tags : flushed'[t] = IF t = r THEN FALSE ELSE flushed[t]
        /\ \A t \in Tags : reply'[t] = IF t = r THEN None ELSE reply[t]
        /\ done' \in [Tags -> BOOLEAN] /\ flushed' \in [Tags -> BOOLEAN]
        /\ reply' \in [Tags -> Msgs \cup {None}]
    BY <1>0, <1>1 DEF Qrm, r, ShapeInv
  <1>5. /\ queue' \in Seq(Tags) /\ IsInjective(queue')
        /\ ToSet(queue') = ToSet(queue) \ {r} /\ ToSet(queue) \subseteq Tags
    BY <1>0, RemoveQueue, QueueSubset DEF Qrm, r, ShapeInv, QueueInv
  <1>6. \A x \in Procs : x # p /\ pc[x] # "idle" => rpc[x] # r /\ rpc[x] \in Tags
    BY <1>0, OneOwner, OwnTag DEF r
  <1>7. intrs = 0 /\ pending = {}
    BY <1>0 DEF FlushInv
  <1>8. ShapeInv'
    BY <1>0, <1>2, <1>3, <1>4, <1>5 DEF ShapeInv
  <1>9. AllocInv'
    BY <1>0, <1>1, <1>2, <1>3 DEF AllocInv, Calls
  <1>10. QueueInv'
    <2>1. ToSet(queue') \subseteq {rpc[x] : x \in Calls} /\ Calls' = Calls
      BY <1>0, <1>5 DEF QueueInv, Calls
    <2>2. \A t \in ToSet(queue') : ~done'[t]
      BY <1>0, <1>4, <1>5 DEF QueueInv
    <2> QED BY <1>5, <2>1, <2>2 DEF QueueInv
  <1>11. RipInv'
    BY <1>0, <1>1, <1>2 DEF RipInv, Reads
  <1>12. SleepInv'
    BY <1>0, <1>1, <1>2, SleepMoved
  <1>13. CallInv'
    <2>1. ASSUME NEW x \in Procs
          PROVE  /\ pc'[x] \in {"return", "error", "opengate", "gatewake"} => done'[rpc[x]]
                 /\ Reads(x)' /\ pc'[x] # "opengate" => rpc[x] \in ToSet(queue')
                 /\ pc'[x] = "send" => rpc[x] \in ToSet(queue') /\ ~flushed'[rpc[x]]
                 /\ pc'[x] \in {"give", "givewake", "gatewake"} => hand'[x] \in Tags
                 /\ pc'[x] \in {"flush", "flushsend"} =>
                      back'[x] \in {"gate", "read"} /\ (hung' \/ intrs' > 0)
                 /\ pc'[x] = "flushsend" => flushed'[rpc[x]]
      <3>1. CASE x = p
        <4>1. pc'[x] = c /\ done'[rpc[x]]
          BY <1>1, <1>2, <1>4, <3>1 DEF r
        <4> QED BY <1>2, <4>1, <3>1 DEF Reads
      <3>2. CASE x # p
        <4>1. Reads(x)' <=> Reads(x)
          BY <1>2, <3>2 DEF Reads
        <4>2. pc[x] # "idle" => /\ done'[rpc[x]] = done[rpc[x]]
                                /\ flushed'[rpc[x]] = flushed[rpc[x]]
                                /\ rpc[x] \in ToSet(queue) => rpc[x] \in ToSet(queue')
          BY <1>4, <1>5, <1>6, <3>2
        <4>3. Reads(x) => pc[x] # "idle"
          BY DEF Reads
        <4> QED BY <1>0, <1>2, <1>3, <3>2, <4>1, <4>2, <4>3 DEF CallInv
      <3> QED BY <3>1, <3>2
    <2>2. \A t : Giving(t) => \E x \in Procs : pc'[x] = "give" /\ hand'[x] = t
      BY <1>1, <1>2 DEF Giving
    <2>3. ASSUME NEW x \in Procs, pc'[x] # "idle", ~done'[rpc[x]]
          PROVE  rpc[x] \in ToSet(queue') \/ Giving(rpc[x])'
      <3>1. x # p
        BY <1>1, <1>4, <2>3 DEF r
      <3>2. pc[x] # "idle" /\ rpc[x] # r /\ rpc[x] \in Tags /\ ~done[rpc[x]]
        BY <1>2, <1>4, <1>6, <2>3, <3>1
      <3>3. rpc[x] \in ToSet(queue) \/ Giving(rpc[x])
        BY <1>0, <3>2 DEF CallInv
      <3> QED BY <1>5, <2>2, <3>2, <3>3 DEF Giving
    <2> QED BY <1>3, <2>1, <2>3 DEF CallInv
  <1>14. ReplyInv'
    <2>1. ASSUME NEW x \in Procs, pc'[x] # "idle", done'[rpc[x]]
          PROVE  Own(reply[rpc[x]], rpc[x])'
                 \/ (pc'[x] \in {"opengate", "gatewake", "error"} /\ reply'[rpc[x]] = None)
      <3>1. CASE x = p
        BY <1>1, <1>2, <1>4, <3>1 DEF r
      <3>2. CASE x # p
        <4>1. pc[x] = pc'[x] /\ pc[x] # "idle" /\ rpc[x] # r /\ rpc[x] \in Tags
          BY <1>2, <1>6, <2>1, <3>2
        <4>2. reply'[rpc[x]] = reply[rpc[x]] /\ done[rpc[x]]
          BY <1>4, <2>1, <4>1
        <4> QED BY <1>0, <1>3, <4>1, <4>2 DEF ReplyInv, Own
      <3> QED BY <3>1, <3>2
    <2>2. ASSUME NEW x \in Procs, pc'[x] = "mux"
          PROVE  reply'[rpc[x]] \in Msgs
      BY <1>0, <1>2, <1>4, <1>6, <2>2 DEF ReplyInv
    <2>3. ASSUME NEW x \in Procs, pc'[x] = "give"
          PROVE  /\ Own(reply[rpc[x]], hand[x])'
                 /\ hand'[x] \in {rpc'[q] : q \in Calls'}
                 /\ hand'[x] \notin ToSet(queue') /\ ~done'[hand'[x]]
                 /\ \A q \in Procs : rpc'[q] = hand'[x] => q # x /\ ~Mute(pc'[q], hung')
      <3>1. x # p /\ pc[x] = "give"
        BY <1>2, <2>3
      <3>2. pc[p] # "read"
        <4>1. Reads(x) /\ (pc[p] = "read" => Reads(p))
          BY <3>1 DEF Reads
        <4> QED BY <1>0, <3>1, <4>1, OneReader
      <3>3. Unsent(p)
        BY <3>2 DEF Unsent, Mute
      <3>4. hand[x] # r
        BY <1>0, <3>1, <3>3 DEF ReplyInv, r
      <3>5. hand[x] \in Tags
        BY <1>0, <3>1 DEF CallInv
      <3>6. reply'[rpc[x]] = reply[rpc[x]] /\ done'[hand[x]] = done[hand[x]]
        BY <1>4, <1>6, <3>1, <3>4, <3>5
      <3>7. \A q \in Procs : rpc[q] = hand[x] => q # x /\ ~Mute(pc'[q], hung')
        BY <1>0, <1>2, <1>3, <3>1 DEF ReplyInv, Unsent, Mute
      <3>8. hand[x] \in {rpc[q] : q \in Calls} /\ Calls' = Calls
        BY <1>0, <3>1 DEF ReplyInv, Calls
      <3>9. hand[x] \notin ToSet(queue') /\ ~done[hand[x]]
        BY <1>0, <1>5, <3>1 DEF ReplyInv
      <3>10. Own(reply[rpc[x]], hand[x])'
        BY <1>0, <1>3, <3>1, <3>6 DEF ReplyInv, Own
      <3> QED BY <1>3, <3>6, <3>7, <3>8, <3>9, <3>10
    <2> QED BY <2>1, <2>2, <2>3 DEF ReplyInv, Unsent
  <1>15. FlushInv'
    BY <1>0, <1>3, <1>4 DEF FlushInv
  <1>16. pc[p] = "read" => DOMAIN toC = {} /\ \A x \in Procs : pc[x] # "mux"
    BY <1>0, OneReader DEF Reads
  <1>17. ASSUME NEW m \in Msgs, MsgOK(m), pc[p] # "read"
         PROVE  MsgOK(m)'
    <2>1. m.type = "R" /\ Unsent(p)
      BY <1>7, <1>17 DEF MsgOK, Msgs, Unsent, Mute
    <2>2. m.tag \in ToSet(queue) /\ m.tag # r /\ m.id = id[m.tag]
      BY <1>17, <2>1 DEF MsgOK, r
    <2>3. \A x \in Procs : rpc[x] = m.tag => ~Mute(pc'[x], hung')
      BY <1>2, <1>3, <1>17, <2>1 DEF MsgOK, Unsent, Mute
    <2> QED BY <1>3, <1>5, <2>1, <2>2, <2>3 DEF MsgOK, Unsent
  <1>18. ASSUME NEW m \in Msgs, NEW n \in Msgs, MsgOK(n), ~Clash(m, n)
         PROVE  ~Clash(m, n)'
    <2>1. n.type = "R" => n.tag \in Tags
      BY <1>5, <1>18 DEF MsgOK
    <2> QED BY <1>3, <1>4, <1>18, <2>1 DEF Clash
  <1>19. toC \in Seq(Msgs) /\ pending' = {} /\ DOMAIN toC' = DOMAIN toC
    BY <1>0, <1>3, <1>7 DEF ShapeInv
  <1>20. FlightInv'
    <2>1. ASSUME NEW i \in DOMAIN toC PROVE MsgOK(toC[i])'
      BY <1>0, <1>3, <1>16, <1>17, <1>19 DEF FlightInv
    <2>2. ASSUME NEW i \in DOMAIN toC, NEW j \in DOMAIN toC, i < j
          PROVE  ~Clash(toC[i], toC[j])'
      BY <1>0, <1>3, <1>18, <1>19, <2>2 DEF FlightInv
    <2> QED BY <1>19, <2>1, <2>2 DEF FlightInv
  <1>21. MuxInv'
    <2> SUFFICES ASSUME NEW x \in Procs, pc'[x] = "mux"
                 PROVE  /\ MsgOK(reply[rpc[x]])'
                        /\ \A n \in pending' : ~Clash(reply[rpc[x]], n)'
                        /\ \A i \in DOMAIN toC' : ~Clash(reply[rpc[x]], toC[i])'
      BY DEF MuxInv
    <2> DEFINE m == reply[rpc[x]]
    <2>1. pc[x] = "mux" /\ x # p /\ pc[p] # "read"
      BY <1>2, <1>16
    <2>2. m' = m
      BY <1>4, <1>6, <2>1
    <2>3. m \in Msgs /\ MsgOK(m)
      BY <1>0, <2>1 DEF ReplyInv, MuxInv
    <2>4. MsgOK(m)'
      BY <1>17, <2>1, <2>2, <2>3
    <2>5. ASSUME NEW i \in DOMAIN toC PROVE ~Clash(m, toC[i])'
      BY <1>0, <1>3, <1>18, <1>19, <2>1, <2>2, <2>3 DEF FlightInv, MuxInv
    <2> QED BY <1>19, <2>4, <2>5
  <1>22. TurnInv'
    <2> SUFFICES ASSUME rip = None, NEW q \in Procs, pc'[q] = "asleep", ~done'[rpc[q]]
                 PROVE  \E x \in Procs : Comes(x)' \/ Called(x)'
      BY DEF TurnInv
    <2>1. q # p /\ pc[q] = "asleep"
      BY <1>2
    <2>2. ~done[rpc[q]]
      BY <1>4, <1>6, <2>1
    <2>3. PICK x \in Procs : Comes(x) \/ Called(x)
      BY <1>0, <2>1, <2>2 DEF TurnInv
    <2>4. pc[p] = "flushsend"
      BY <1>0 DEF RipInv, Reads
    <2>5. x # p
      BY <2>3, <2>4 DEF Comes, Called
    <2>6. CASE Comes(x)
      <3>1. pc[x] # "idle" /\ pc'[x] = pc[x]
        BY <1>2, <2>5, <2>6 DEF Comes
      <3> QED BY <1>3, <1>4, <1>6, <2>5, <2>6, <3>1 DEF Comes
    <2>7. CASE Called(x)
      <3>1. hand[x] \in Tags
        BY <1>0, <2>7 DEF Called, CallInv
      <3>2. hand[x] # r
        <4>1. rpc[sleeper[hand[x]]] = hand[x] /\ pc[sleeper[hand[x]]] = "asleep"
              /\ sleeper[hand[x]] \in Procs
          BY <1>0, <2>7, <3>1 DEF SleepInv, Called, ShapeInv
        <4>2. sleeper[hand[x]] # p
          BY <2>4, <4>1
        <4> QED BY <1>6, <4>1, <4>2
      <3> QED BY <1>2, <1>4, <2>5, <2>7, <3>1, <3>2 DEF Called
    <2> QED BY <2>3, <2>6, <2>7
  <1> QED BY <1>8, <1>9, <1>10, <1>11, <1>12, <1>13, <1>14, <1>15, <1>20, <1>21, <1>22 DEF IInv

\* A flush is sent, or ends the call, for the connection is no more.
LEMMA FlushSendInv ==
  ASSUME IInv, NEW p \in Procs, FlushSend(p)
  PROVE  IInv'
  <1>1. CASE ~hung
    BY <1>1, FlushSentInv
  <1>2. CASE hung
    <2> DEFINE c == IF back[p] = "read" THEN "opengate" ELSE "error"
    <2>1. /\ pc[p] = "flushsend" /\ Qrm(rpc[p])
          /\ pc' = [pc EXCEPT ![p] = c]
          /\ back' = [back EXCEPT ![p] = None]
          /\ UNCHANGED <<rip, flushtag, allocs, sleeper, rpc, hand, wire, calls, intrs>>
      BY <1>2 DEF FlushSend, Goto, wire
    <2>2. c \in {"opengate", "error"} /\ (c = "opengate" <=> Reads(p))
      BY <2>1 DEF Reads
    <2> HIDE DEF c
    <2> QED BY <1>2, <2>1, <2>2, QrmInv
  <1> QED BY <1>1, <1>2

\* The reader finds that the connection is no more.
LEMMA ReadEofInv ==
  ASSUME IInv, NEW p \in Procs, ReadEof(p)
  PROVE  IInv'
  <1>1. /\ pc[p] = "read" /\ toC = <<>> /\ hung /\ Qrm(rpc[p])
        /\ pc' = [pc EXCEPT ![p] = "opengate"]
        /\ UNCHANGED <<rip, flushtag, allocs, sleeper, rpc, hand, wire, calls, intrs>>
        /\ back' = back
    BY DEF ReadEof, Goto, procVars
  <1>2. Reads(p)
    BY <1>1 DEF Reads
  <1> QED BY <1>1, <1>2, QrmInv

\* The reader reads a message.
LEMMA ReadInv ==
  ASSUME IInv, NEW p \in Procs, Read(p)
  PROVE  IInv'
  <1>0. /\ ShapeInv /\ AllocInv /\ QueueInv /\ RipInv /\ SleepInv /\ CallInv /\ ReplyInv
        /\ FlushInv /\ FlightInv /\ MuxInv /\ TurnInv
    BY DEF IInv
  <1> DEFINE r == rpc[p]
  <1>1. pc[p] = "read" /\ r \in Tags /\ Reads(p) /\ rip = p /\ r \in ToSet(queue) /\ ~done[r]
    BY <1>0, OwnTag DEF Read, Reads, CallInv, RipInv, QueueInv
  <1>2. \A x \in Procs : x # p /\ pc[x] # "idle" => rpc[x] # r /\ rpc[x] \in Tags
    BY <1>0, OneOwner, OwnTag
  <1>3. \A x \in Procs : pc[x] \notin {"mux", "give"}
    BY <1>0, <1>1, OneReader DEF Reads
  <1> HIDE DEF r
  <1>4. toC \in Seq(Msgs) /\ toC # <<>> /\ toC' = Tail(toC) /\ Head(toC) \in Msgs
    BY <1>0 DEF Read, ShapeInv
  <1>5. /\ \A x \in Procs : pc'[x] = IF x = p THEN "mux" ELSE pc[x]
        /\ \A t \in Tags : reply'[t] = IF t = r THEN Head(toC) ELSE reply[t]
        /\ pc' \in [Procs -> PC] /\ reply' \in [Tags -> Msgs \cup {None}]
        /\ UNCHANGED <<queue, rip, flushtag, free, rpctag, id, done, flushed, ftag, sleeper, rpc,
                       back, hand, hung, pending, calls, intrs>>
    BY <1>0, <1>1, <1>4 DEF Read, Goto, r, ShapeInv, PC, procVars, allocs
  <1>6. ShapeInv'
    BY <1>0, <1>4, <1>5 DEF ShapeInv
  <1>7. AllocInv' /\ QueueInv' /\ FlushInv'
    BY <1>0, <1>1, <1>5 DEF AllocInv, QueueInv, FlushInv, Calls
  <1>8. RipInv'
    BY <1>0, <1>1, <1>5 DEF RipInv, Reads
  <1>9. SleepInv'
    BY <1>0, <1>1, <1>5, SleepMoved
  <1>10. CallInv'
    <2>1. intrs \in Nat /\ intrs' \in Nat /\ intrs' >= intrs
      BY <1>0, <1>5 DEF ShapeInv
    <2>2. \A x \in Procs : x # p =>
            /\ pc'[x] = pc[x] \/ (pc[x] = "asleep" /\ pc'[x] = "woken")
            /\ back'[x] = back[x] /\ hand'[x] = hand[x]
            /\ flushed'[rpc[x]] = flushed[rpc[x]]
      BY <1>5
    <2>3. UNCHANGED <<queue, rpc, done>> /\ (hung => hung')
      BY <1>5
    <2>4. rpc[p] \in ToSet(queue)
      BY <1>1 DEF r
    <2> QED BY <1>0, <1>1, <1>5, <2>1, <2>2, <2>3, <2>4, CallMoved
  <1>11. ReplyInv'
    <2>1. ASSUME NEW x \in Procs, pc'[x] # "idle", done[rpc[x]]
          PROVE  Own(reply[rpc[x]], rpc[x])'
                 \/ (pc'[x] \in {"opengate", "gatewake", "error"} /\ reply'[rpc[x]] = None)
      <3>1. x # p
        BY <1>1, <2>1 DEF r
      <3>2. pc[x] = pc'[x] /\ reply'[rpc[x]] = reply[rpc[x]]
        BY <1>2, <1>5, <2>1, <3>1
      <3> QED BY <1>0, <1>5, <2>1, <3>2 DEF ReplyInv, Own
    <2>2. \A x \in Procs : pc'[x] = "mux" => reply'[rpc[x]] \in Msgs
      BY <1>1, <1>3, <1>4, <1>5 DEF r
    <2>3. \A x \in Procs : pc'[x] # "give"
      BY <1>3, <1>5
    <2> QED BY <1>5, <2>1, <2>2, <2>3 DEF ReplyInv
  <1>12. ASSUME NEW m, MsgOK(m) PROVE MsgOK(m)'
    BY <1>1, <1>5, <1>12 DEF MsgOK, Unsent, Mute
  <1>13. ASSUME NEW m, NEW n, ~Clash(m, n) PROVE ~Clash(m, n)'
    BY <1>5, <1>13 DEF Clash
  <1>14. /\ Len(toC) \in Nat /\ DOMAIN toC = 1 .. Len(toC) /\ Head(toC) = toC[1]
         /\ DOMAIN toC' = 1 .. Len(toC) - 1 /\ 1 \in DOMAIN toC
         /\ \A i \in DOMAIN toC' : toC'[i] = toC[i + 1] /\ i + 1 \in DOMAIN toC /\ 1 < i + 1
    BY <1>4
  <1>15. FlightInv'
    <2>1. ASSUME NEW m \in pending PROVE MsgOK(m)'
      BY <1>0, <1>12 DEF FlightInv
    <2>2. ASSUME NEW i \in DOMAIN toC' PROVE MsgOK(toC[i])'
      BY <1>0, <1>12, <1>14 DEF FlightInv
    <2>3. ASSUME NEW m \in pending, NEW n \in pending, m # n PROVE ~Clash(m, n)'
      BY <1>0, <1>13, <2>3 DEF FlightInv
    <2>4. ASSUME NEW i \in DOMAIN toC', NEW n \in pending PROVE ~Clash(toC[i], n)'
      BY <1>0, <1>13, <1>14 DEF FlightInv
    <2>5. ASSUME NEW i \in DOMAIN toC', NEW j \in DOMAIN toC', i < j
          PROVE  ~Clash(toC[i], toC[j])'
      BY <1>0, <1>13, <1>14, <2>5 DEF FlightInv
    <2> QED BY <1>5, <2>1, <2>2, <2>3, <2>4, <2>5 DEF FlightInv
  <1>16. MuxInv'
    <2> SUFFICES ASSUME NEW x \in Procs, pc'[x] = "mux"
                 PROVE  /\ MsgOK(reply[rpc[x]])'
                        /\ \A n \in pending' : ~Clash(reply[rpc[x]], n)'
                        /\ \A i \in DOMAIN toC' : ~Clash(reply[rpc[x]], toC[i])'
      BY DEF MuxInv
    <2>1. PICK m : m = Head(toC)
      OBVIOUS
    <2>2. reply'[rpc'[x]] = m
      BY <1>1, <1>3, <1>5, <2>1 DEF r
    <2>3. MsgOK(m) /\ (\A n \in pending : ~Clash(m, n))
          /\ \A i \in DOMAIN toC : 1 < i => ~Clash(m, toC[i])
      BY <1>0, <1>14, <2>1 DEF FlightInv
    <2>4. MsgOK(reply[rpc[x]])'
      <3>1. MsgOK(m)'
        BY <1>12, <2>3
      <3> QED BY <2>2, <3>1 DEF MsgOK
    <2>5. ASSUME NEW n \in pending PROVE ~Clash(reply[rpc[x]], n)'
      <3>1. ~Clash(m, n)'
        BY <1>13, <2>3
      <3> QED BY <2>2, <3>1 DEF Clash
    <2>6. ASSUME NEW i \in DOMAIN toC' PROVE ~Clash(reply[rpc[x]], toC[i])'
      <3>1. PICK n : n = toC[i + 1]
        OBVIOUS
      <3>2. ~Clash(m, n)' /\ toC'[i] = n
        BY <1>13, <1>14, <2>3, <3>1
      <3> QED BY <2>2, <3>2 DEF Clash
    <2> QED BY <1>5, <2>4, <2>5, <2>6
  <1>17. TurnInv'
    BY <1>1, <1>5 DEF TurnInv
  <1> QED BY <1>6, <1>7, <1>8, <1>9, <1>10, <1>11, <1>15, <1>16, <1>17 DEF IInv

\* What the reader has read is an answer to the call that it goes to, and
\* nothing else on its way is.
LEMMA MatchOwn ==
  ASSUME IInv, NEW p \in Procs, pc[p] = "mux", NEW t \in Matching(reply[rpc[p]])
  PROVE  /\ t \in ToSet(queue) /\ t \in Tags
         /\ Own(reply[rpc[p]], t)
         /\ \A x \in Procs : rpc[x] = t => ~Unsent(x) /\ pc[x] # "idle"
         /\ \A n \in pending : n.type = "R" => n.tag # t
         /\ \A i \in DOMAIN toC : toC[i].type = "R" => toC[i].tag # t
  <1>0. /\ ShapeInv /\ AllocInv /\ QueueInv /\ CallInv /\ ReplyInv /\ FlushInv /\ FlightInv
        /\ MuxInv
    BY DEF IInv
  <1>1. PICK m : m = reply[rpc[p]]
    OBVIOUS
  <1>2. /\ m \in Msgs /\ m.type \in {"R", "Rflush"} /\ m.tag \in Nat
        /\ MsgOK(m) /\ (\A n \in pending : ~Clash(m, n)) /\ \A i \in DOMAIN toC : ~Clash(m, toC[i])
    <2>1. m \in Msgs
      BY <1>0, <1>1 DEF ReplyInv
    <2>2. m.type \in {"R", "Rflush"} /\ m.tag \in Nat
      BY <2>1 DEF Msgs
    <2> QED BY <1>0, <1>1, <2>1, <2>2 DEF MuxInv
  <1>3. t \in ToSet(queue) /\ Answers(m, t) /\ ToSet(queue) \subseteq Tags
    BY <1>0, <1>1, QueueSubset DEF Matching, ShapeInv
  <1>4. \A u \in Tags : u \in Nat /\ ~(u > Tagfls) /\ Tagfls \in Nat
    BY FS_CardinalityType DEF Tags, Tagfls
  <1>5. PICK o \in Procs : pc[o] # "idle" /\ rpc[o] = t /\ ~done[t]
    BY <1>0, <1>3, QueueOwner
  <1>6. \A x \in Procs : rpc[x] = t => x = o
    BY <1>0, <1>5, OneOwner
  <1>7. CASE m.type = "R"
    <2>1. m.tag \in Tags
      BY <1>2, <1>3, <1>7 DEF MsgOK
    <2>2. m.tag = t
      BY <1>0, <1>3, <1>4, <2>1 DEF Answers, FlushInv
    <2> QED BY <1>1, <1>2, <1>3, <1>5, <1>6, <1>7, <2>2 DEF MsgOK, Own, Clash
  <1>8. CASE m.type = "Rflush"
    <2>1. m.tag > Tagfls /\ intrs > 0
      BY <1>2, <1>8 DEF MsgOK
    <2>2. flushed[t] /\ ftag[t] = m.tag
      BY <1>3, <1>4, <2>1 DEF Answers
    <2>3. m.id = id[t]
      BY <1>2, <1>3, <1>8, <2>2 DEF MsgOK
    <2>4. ~hung
      <3>1. intrs \in Nat /\ (hung => intrs = 0)
        BY <1>0 DEF FlushInv, ShapeInv
      <3> QED BY <2>1, <3>1
    <2>5. ~Unsent(o)
      BY <1>0, <1>5, <2>2, <2>4 DEF CallInv, Unsent, Mute
    <2> QED BY <1>1, <1>2, <1>3, <1>5, <1>6, <1>8, <2>2, <2>3, <2>5 DEF Own, Clash
  <1> QED BY <1>2, <1>7, <1>8

\* A call leaves the queue when the answer to it has been read; the reader is
\* to complete it, or is done itself.
LEMMA TakenWire ==
  ASSUME IInv, NEW p \in Procs, pc[p] = "mux", NEW t \in Matching(reply[rpc[p]]),
         ToSet(queue') = ToSet(queue) \ {t},
         UNCHANGED <<flushtag, id, flushed, ftag, rpc, toC, hung, pending, intrs>>,
         pc'[p] \in {"opengate", "give"},
         \A x \in Procs : x # p => pc'[x] = pc[x]
  PROVE  FlightInv' /\ MuxInv'
  <1>0. ShapeInv /\ RipInv /\ FlightInv
    BY DEF IInv
  <1>1. /\ \A n \in pending : n.type = "R" => n.tag # t
        /\ \A i \in DOMAIN toC : toC[i].type = "R" => toC[i].tag # t
    BY MatchOwn
  <1>2. ASSUME NEW m, MsgOK(m), m.type = "R" => m.tag # t
        PROVE  MsgOK(m)'
    <2>1. \A x \in Procs : Mute(pc'[x], hung) => Unsent(x)
      BY DEF Unsent, Mute
    <2> QED BY <1>2, <2>1 DEF MsgOK, Unsent
  <1>3. ASSUME NEW m, NEW n, ~Clash(m, n) PROVE ~Clash(m, n)'
    BY <1>3 DEF Clash
  <1>4. FlightInv'
    <2>1. ASSUME NEW m \in pending PROVE MsgOK(m)'
      BY <1>0, <1>1, <1>2 DEF FlightInv
    <2>2. ASSUME NEW i \in DOMAIN toC PROVE MsgOK(toC[i])'
      BY <1>0, <1>1, <1>2 DEF FlightInv
    <2>3. ASSUME NEW m \in pending, NEW n \in pending, m # n PROVE ~Clash(m, n)'
      BY <1>0, <1>3, <2>3 DEF FlightInv
    <2>4. ASSUME NEW i \in DOMAIN toC, NEW n \in pending PROVE ~Clash(toC[i], n)'
      BY <1>0, <1>3 DEF FlightInv
    <2>5. ASSUME NEW i \in DOMAIN toC, NEW j \in DOMAIN toC, i < j
          PROVE  ~Clash(toC[i], toC[j])'
      BY <1>0, <1>3, <2>5 DEF FlightInv
    <2> QED BY <2>1, <2>2, <2>3, <2>4, <2>5 DEF FlightInv
  <1>5. \A x \in Procs : pc'[x] # "mux"
    <2>1. Reads(p) /\ \A x \in Procs : pc[x] = "mux" => Reads(x)
      BY DEF Reads
    <2> QED BY <1>0, <2>1, OneReader
  <1> QED BY <1>4, <1>5 DEF MuxInv

\* The reader goes through the queue.
LEMMA MuxStepInv ==
  ASSUME IInv, NEW p \in Procs, Mux(p)
  PROVE  IInv'
  <1>0. /\ ShapeInv /\ AllocInv /\ QueueInv /\ RipInv /\ SleepInv /\ CallInv /\ ReplyInv
        /\ FlushInv /\ FlightInv /\ MuxInv /\ TurnInv
    BY DEF IInv
  <1> DEFINE r == rpc[p]
  <1>1. /\ pc[p] = "mux" /\ r \in Tags /\ Reads(p) /\ rip = p /\ r \in ToSet(queue) /\ ~done[r]
        /\ p \in Calls
    BY <1>0, OwnTag DEF Mux, Reads, CallInv, RipInv, QueueInv
  <1>2. \A x \in Procs : x # p /\ pc[x] # "idle" => rpc[x] # r /\ rpc[x] \in Tags
    BY <1>0, OneOwner, OwnTag
  <1>3. \A x \in Procs : x # p => ~Reads(x) /\ pc[x] \notin {"mux", "give"}
    BY <1>0, <1>1, OneReader DEF Reads
  <1>4. UNCHANGED <<rip, flushtag, free, rpctag, id, flushed, ftag, sleeper, rpc, back, toC, hung,
                    pending, calls, intrs>>
    BY DEF Mux, allocs, wire
  <1>5. intrs \in Nat /\ intrs' \in Nat /\ intrs' >= intrs /\ flushtag' \in Nat
        /\ flushtag' >= flushtag
    BY <1>0, <1>4 DEF ShapeInv
  <1>6. TurnInv'
    BY <1>1, <1>4 DEF TurnInv
  <1>7. CASE /\ pc' = [pc EXCEPT ![p] = "read"] /\ reply' = [reply EXCEPT ![r] = None]
             /\ UNCHANGED <<queue, done, hand>>
    <2> HIDE DEF r
    <2>1. /\ \A x \in Procs : pc'[x] = IF x = p THEN "read" ELSE pc[x]
          /\ \A t \in Tags : reply'[t] = IF t = r THEN None ELSE reply[t]
          /\ pc' \in [Procs -> PC] /\ reply' \in [Tags -> Msgs \cup {None}]
          /\ UNCHANGED <<queue, done, hand>>
      BY <1>0, <1>1, <1>7 DEF ShapeInv, PC
    <2>2. ShapeInv'
      BY <1>0, <1>4, <2>1 DEF ShapeInv
    <2>3. AllocInv' /\ QueueInv' /\ FlushInv'
      BY <1>0, <1>1, <1>4, <2>1 DEF AllocInv, QueueInv, FlushInv, Calls
    <2>4. RipInv'
      BY <1>0, <1>1, <1>4, <2>1 DEF RipInv, Reads
    <2>5. SleepInv'
      BY <1>0, <1>1, <1>4, <2>1, SleepMoved
    <2>6. CallInv'
      <3>1. \A x \in Procs : x # p =>
              /\ pc'[x] = pc[x] \/ (pc[x] = "asleep" /\ pc'[x] = "woken")
              /\ back'[x] = back[x] /\ hand'[x] = hand[x]
              /\ flushed'[rpc[x]] = flushed[rpc[x]]
        BY <1>4, <2>1
      <3>2. UNCHANGED <<queue, rpc, done>> /\ (hung => hung')
        BY <1>4, <2>1
      <3>3. rpc[p] \in ToSet(queue)
        BY <1>1 DEF r
      <3> QED BY <1>0, <1>1, <1>5, <2>1, <3>1, <3>2, <3>3, CallMoved
    <2>7. ReplyInv'
      <3>1. ASSUME NEW x \in Procs, pc'[x] # "idle", done[rpc[x]]
            PROVE  Own(reply[rpc[x]], rpc[x])'
                   \/ (pc'[x] \in {"opengate", "gatewake", "error"} /\ reply'[rpc[x]] = None)
        <4>1. x # p
          BY <1>1, <3>1 DEF r
        <4>2. pc[x] = pc'[x] /\ reply'[rpc[x]] = reply[rpc[x]]
          BY <1>2, <2>1, <3>1, <4>1
        <4> QED BY <1>0, <1>4, <3>1, <4>2 DEF ReplyInv, Own
      <3>2. \A x \in Procs : pc'[x] \notin {"mux", "give"}
        BY <1>3, <2>1
      <3> QED BY <1>4, <2>1, <3>1, <3>2 DEF ReplyInv
    <2>8. FlightInv' /\ MuxInv'
      <3>1. \A t \in ToSet(queue) : t \in ToSet(queue') /\ id'[t] = id[t]
        BY <1>4, <2>1
      <3>2. \A x \in Procs : rpc'[x] \in ToSet(queue) =>
              rpc[x] = rpc'[x] /\ (Mute(pc'[x], hung') => Unsent(x))
        BY <1>4, <2>1 DEF Mute, Unsent
      <3>3. \A t \in ToSet(queue') : flushed'[t] =>
              \/ t \in ToSet(queue) /\ flushed[t] /\ ftag'[t] = ftag[t]
              \/ ftag'[t] >= flushtag
        BY <1>4, <2>1
      <3>4. \A x \in Procs : pc'[x] = "mux" =>
              pc[x] = "mux" /\ rpc'[x] = rpc[x] /\ reply'[rpc[x]] = reply[rpc[x]]
        BY <1>3, <2>1
      <3> QED BY <1>0, <1>4, <1>5, <3>1, <3>2, <3>3, <3>4, WireKept
    <2> QED BY <1>6, <2>2, <2>3, <2>4, <2>5, <2>6, <2>7, <2>8 DEF IInv
  <1>8. ASSUME NEW q \in Tags, IsFirst(q, Matching(reply[r])), queue' = RemoveFirst(queue, q),
               UNCHANGED reply,
               IF q = r
               THEN /\ done' = [done EXCEPT ![r] = TRUE]
                    /\ pc' = [pc EXCEPT ![p] = "opengate"]
                    /\ UNCHANGED hand
               ELSE /\ hand' = [hand EXCEPT ![p] = q]
                    /\ pc' = [pc EXCEPT ![p] = "give"]
                    /\ UNCHANGED done
        PROVE  IInv'
    <2>1. q \in Matching(reply[r])
      BY <1>8 DEF IsFirst
    <2>2. /\ q \in ToSet(queue)
          /\ Own(reply[r], q)
          /\ \A x \in Procs : rpc[x] = q => ~Unsent(x) /\ pc[x] # "idle"
      BY <1>1, <2>1, MatchOwn
    <2>3. FlightInv' /\ MuxInv'
      <3>1. ToSet(queue') = ToSet(queue) \ {q}
        BY <1>0, <1>8, RemoveQueue DEF ShapeInv, QueueInv
      <3>2. pc'[p] \in {"opengate", "give"} /\ \A x \in Procs : x # p => pc'[x] = pc[x]
        BY <1>0, <1>8 DEF ShapeInv
      <3> QED BY <1>1, <1>4, <2>1, <3>1, <3>2, TakenWire
    <2> HIDE DEF r
    <2> DEFINE c == IF q = r THEN "opengate" ELSE "give"
    <2>4. /\ \A x \in Procs : pc'[x] = IF x = p THEN c ELSE pc[x]
          /\ \A x \in Procs : hand'[x] = IF x = p /\ c = "give" THEN q ELSE hand[x]
          /\ \A t \in Tags : done'[t] = IF t = r /\ q = r THEN TRUE ELSE done[t]
          /\ pc' \in [Procs -> PC] /\ hand' \in [Procs -> Tags \cup {None}]
          /\ done' \in [Tags -> BOOLEAN]
      <3>1. CASE q = r
        BY <1>0, <1>1, <1>8, <3>1 DEF ShapeInv, PC
      <3>2. CASE q # r
        <4>1. /\ hand' = [hand EXCEPT ![p] = q] /\ pc' = [pc EXCEPT ![p] = "give"]
              /\ done' = done /\ c = "give"
          BY <1>8, <3>2
        <4> HIDE DEF c
        <4>2. /\ \A x \in Procs : pc'[x] = IF x = p THEN c ELSE pc[x]
              /\ \A x \in Procs : hand'[x] = IF x = p THEN q ELSE hand[x]
              /\ pc' \in [Procs -> PC] /\ hand' \in [Procs -> Tags \cup {None}]
          BY <1>0, <4>1 DEF ShapeInv, PC
        <4>3. /\ \A t \in Tags : done'[t] = IF t = r /\ q = r THEN TRUE ELSE done[t]
              /\ done' \in [Tags -> BOOLEAN]
          BY <1>0, <3>2, <4>1 DEF ShapeInv
        <4> QED BY <4>1, <4>2, <4>3
      <3> QED BY <3>1, <3>2
    <2>5. c \in {"opengate", "give"} /\ (c = "opengate" <=> q = r)
      OBVIOUS
    <2> HIDE DEF c
    <2>6. /\ queue' \in Seq(Tags) /\ IsInjective(queue')
          /\ ToSet(queue') = ToSet(queue) \ {q} /\ ToSet(queue) \subseteq Tags
      BY <1>0, <1>8, RemoveQueue, QueueSubset DEF ShapeInv, QueueInv
    <2>7. ShapeInv'
      BY <1>0, <1>4, <1>8, <2>4, <2>6 DEF ShapeInv
    <2>8. AllocInv' /\ FlushInv'
      BY <1>0, <1>1, <1>4, <2>4, <2>5 DEF AllocInv, FlushInv, Calls
    <2>9. QueueInv'
      <3>1. ToSet(queue') \subseteq {rpc[x] : x \in Calls} /\ Calls' = Calls
        BY <1>0, <1>4, <2>6 DEF QueueInv, Calls
      <3>2. \A t \in ToSet(queue') : ~done'[t]
        BY <1>0, <2>4, <2>6 DEF QueueInv
      <3> QED BY <1>4, <2>6, <3>1, <3>2 DEF QueueInv
    <2>10. RipInv'
      BY <1>0, <1>1, <1>4, <2>4, <2>5 DEF RipInv, Reads
    <2>11. SleepInv'
      BY <1>0, <1>1, <1>4, <2>4, <2>5, SleepMoved
    <2>12. CallInv'
      <3>1. ASSUME NEW x \in Procs
            PROVE  /\ pc'[x] \in {"return", "error", "opengate", "gatewake"} => done'[rpc[x]]
                   /\ Reads(x)' /\ pc'[x] # "opengate" => rpc[x] \in ToSet(queue')
                   /\ pc'[x] = "send" => rpc[x] \in ToSet(queue') /\ ~flushed'[rpc[x]]
                   /\ pc'[x] \in {"give", "givewake", "gatewake"} => hand'[x] \in Tags
                   /\ pc'[x] \in {"flush", "flushsend"} =>
                        back'[x] \in {"gate", "read"} /\ (hung' \/ intrs' > 0)
                   /\ pc'[x] = "flushsend" => flushed'[rpc[x]]
        <4>1. CASE x = p
          <5>1. c = "opengate" => done'[rpc[p]]
            BY <1>1, <2>4, <2>5 DEF r
          <5>2. c = "give" => rpc[p] \in ToSet(queue') /\ hand'[p] \in Tags
            BY <1>1, <2>4, <2>5, <2>6 DEF r
          <5> QED BY <2>4, <2>5, <4>1, <5>1, <5>2
        <4>2. CASE x # p
          <5>1. pc'[x] = pc[x] /\ hand'[x] = hand[x] /\ ~Reads(x)'
            BY <1>3, <1>4, <2>4, <4>2 DEF Reads
          <5>2. pc[x] # "idle" => done'[rpc[x]] = done[rpc[x]]
            BY <1>2, <2>4, <4>2
          <5>3. pc[x] = "send" => rpc[x] # q
            BY <2>2 DEF Unsent, Mute
          <5> QED BY <1>0, <1>4, <2>6, <5>1, <5>2, <5>3 DEF CallInv
        <4> QED BY <4>1, <4>2
      <3>2. c = "give" => Giving(q)'
        BY <2>4 DEF Giving
      <3>3. ASSUME NEW x \in Procs, pc'[x] # "idle", ~done'[rpc[x]]
            PROVE  rpc[x] \in ToSet(queue') \/ Giving(rpc[x])'
        <4>1. pc[x] # "idle" /\ rpc[x] \in Tags
          BY <1>0, <1>1, <2>4, <3>3, OwnTag
        <4>2. ~done[rpc[x]]
          BY <2>4, <3>3, <4>1
        <4>3. rpc[x] \in ToSet(queue)
          BY <1>0, <1>1, <1>3, <4>1, <4>2 DEF CallInv, Giving
        <4>4. CASE rpc[x] # q
          BY <2>6, <4>3, <4>4
        <4>5. CASE rpc[x] = q
          <5>1. q # r
            BY <2>4, <3>3, <4>1, <4>5
          <5>2. \E y \in Procs : pc'[y] = "give" /\ hand'[y] = rpc[x]
            BY <2>4, <2>5, <4>5, <5>1
          <5> QED BY <1>4, <5>2 DEF Giving
        <4> QED BY <4>4, <4>5
      <3> QED BY <1>4, <3>1, <3>3 DEF CallInv
    <2>13. ReplyInv'
      <3>1. ASSUME NEW x \in Procs, pc'[x] # "idle", done'[rpc[x]]
            PROVE  Own(reply[rpc[x]], rpc[x])'
                   \/ (pc'[x] \in {"opengate", "gatewake", "error"} /\ reply'[rpc[x]] = None)
        <4>1. CASE x = p
          <5>1. q = r
            BY <1>1, <2>4, <3>1, <4>1 DEF r
          <5> QED BY <1>4, <1>8, <2>2, <4>1, <5>1 DEF Own, r
        <4>2. CASE x # p
          <5>1. pc[x] = pc'[x] /\ pc[x] # "idle" /\ done[rpc[x]]
            BY <1>2, <2>4, <3>1, <4>2
          <5> QED BY <1>0, <1>4, <1>8, <5>1 DEF ReplyInv, Own
        <4> QED BY <4>1, <4>2
      <3>2. \A x \in Procs : pc'[x] # "mux"
        BY <1>3, <2>4, <2>5
      <3>3. ASSUME NEW x \in Procs, pc'[x] = "give"
            PROVE  /\ Own(reply[rpc[x]], hand[x])'
                   /\ hand'[x] \in {rpc'[y] : y \in Calls'}
                   /\ hand'[x] \notin ToSet(queue') /\ ~done'[hand'[x]]
                   /\ \A y \in Procs : rpc'[y] = hand'[x] => y # x /\ ~Mute(pc'[y], hung')
        <4>1. x = p /\ hand'[x] = q /\ q # r /\ c = "give"
          BY <1>3, <2>4, <2>5, <3>3
        <4>2. Own(reply[rpc[x]], hand[x])'
          BY <1>4, <1>8, <2>2, <4>1 DEF Own, r
        <4>3. q \in {rpc[y] : y \in Calls} /\ Calls' = Calls /\ ~done[q] /\ ~done'[q]
          BY <1>0, <1>4, <2>2, <2>4, <4>1 DEF QueueInv, Calls
        <4>4. \A y \in Procs : rpc[y] = q => y # p /\ ~Mute(pc'[y], hung)
          BY <2>2, <2>4, <4>1 DEF Unsent, Mute, r
        <4> QED BY <1>4, <2>6, <4>1, <4>2, <4>3, <4>4
      <3> QED BY <1>4, <3>1, <3>2, <3>3 DEF ReplyInv, Unsent
    <2> QED BY <1>6, <2>3, <2>7, <2>8, <2>9, <2>10, <2>11, <2>12, <2>13 DEF IInv
  <1> QED BY <1>7, <1>8 DEF Mux, Goto

\* The reader completes another call.
LEMMA GiveInv ==
  ASSUME IInv, NEW p \in Procs, Give(p)
  PROVE  IInv'
  <1>0. /\ ShapeInv /\ AllocInv /\ QueueInv /\ RipInv /\ SleepInv /\ CallInv /\ ReplyInv
        /\ FlushInv /\ FlightInv /\ MuxInv /\ TurnInv
    BY DEF IInv
  <1> DEFINE h == hand[p]
             r == rpc[p]
  <1>1. /\ pc[p] = "give" /\ Reads(p) /\ rip = p /\ r \in Tags /\ r \in ToSet(queue) /\ ~done[r]
        /\ h \in Tags /\ h \notin ToSet(queue) /\ Own(reply[r], h) /\ h # r
    BY <1>0, OwnTag DEF Give, Reads, CallInv, RipInv, QueueInv, ReplyInv
  <1>2. \A x \in Procs : x # p => ~Reads(x) /\ pc[x] \notin {"mux", "give"}
    BY <1>0, <1>1, OneReader DEF Reads
  <1> HIDE DEF h, r
  <1>3. reply[r] \in Msgs /\ reply[r].id = id[h]
    BY <1>1 DEF Own
  <1>4. /\ \A x \in Procs : pc'[x] = IF x = p THEN "givewake" ELSE pc[x]
        /\ pc' \in [Procs -> PC]
        /\ \A t \in Tags : reply'[t] = IF t = h THEN reply[r] ELSE reply[t]
        /\ \A t \in Tags : done'[t] = IF t = h THEN TRUE ELSE done[t]
        /\ reply' \in [Tags -> Msgs \cup {None}] /\ done' \in [Tags -> BOOLEAN]
        /\ UNCHANGED <<queue, rip, flushtag, free, rpctag, id, flushed, ftag, sleeper, rpc, back,
                       hand, toC, hung, pending, calls, intrs>>
    <2>1. /\ pc' = [pc EXCEPT ![p] = "givewake"] /\ reply' = [reply EXCEPT ![h] = reply[r]]
          /\ done' = [done EXCEPT ![h] = TRUE]
          /\ UNCHANGED <<queue, rip, flushtag, free, rpctag, id, flushed, ftag, sleeper, rpc, back,
                         hand, toC, hung, pending, calls, intrs>>
      BY DEF Give, Goto, h, r, allocs, wire, procVars
    <2> QED BY <1>0, <1>1, <1>3, <2>1 DEF ShapeInv, PC
  <1>5. ShapeInv'
    BY <1>0, <1>4 DEF ShapeInv
  <1>6. AllocInv' /\ FlushInv'
    BY <1>0, <1>1, <1>4 DEF AllocInv, FlushInv, Calls
  <1>7. QueueInv'
    <2>1. ToSet(queue) \subseteq Tags
      BY <1>0, QueueSubset DEF ShapeInv
    <2> QED BY <1>0, <1>1, <1>4, <2>1 DEF QueueInv, Calls
  <1>8. RipInv'
    BY <1>0, <1>1, <1>4 DEF RipInv, Reads
  <1>9. SleepInv'
    BY <1>0, <1>1, <1>4, SleepMoved
  <1>10. CallInv'
    <2>1. ASSUME NEW x \in Procs
          PROVE  /\ pc'[x] \in {"return", "error", "opengate", "gatewake"} => done'[rpc[x]]
                 /\ Reads(x)' /\ pc'[x] # "opengate" => rpc[x] \in ToSet(queue')
                 /\ pc'[x] = "send" => rpc[x] \in ToSet(queue') /\ ~flushed'[rpc[x]]
                 /\ pc'[x] \in {"give", "givewake", "gatewake"} => hand'[x] \in Tags
                 /\ pc'[x] \in {"flush", "flushsend"} =>
                      back'[x] \in {"gate", "read"} /\ (hung' \/ intrs' > 0)
                 /\ pc'[x] = "flushsend" => flushed'[rpc[x]]
      <3>1. CASE x = p
        BY <1>1, <1>4, <3>1 DEF h, r
      <3>2. CASE x # p
        <4>1. pc'[x] = pc[x] /\ ~Reads(x)'
          BY <1>2, <1>4, <3>2 DEF Reads
        <4>2. pc[x] # "idle" => (done[rpc[x]] => done'[rpc[x]])
          BY <1>0, <1>4, OwnTag
        <4> QED BY <1>0, <1>4, <4>1, <4>2 DEF CallInv
      <3> QED BY <3>1, <3>2
    <2>2. ASSUME NEW x \in Procs, pc'[x] # "idle", ~done'[rpc[x]]
          PROVE  rpc[x] \in ToSet(queue')
      <3>1. pc[x] # "idle" /\ rpc[x] \in Tags
        BY <1>0, <1>1, <1>4, <2>2, OwnTag
      <3>2. ~done[rpc[x]] /\ rpc[x] # h
        BY <1>4, <2>2, <3>1
      <3>3. ~Giving(rpc[x])
        BY <1>2, <3>2 DEF Giving, h
      <3> QED BY <1>0, <1>4, <3>1, <3>2, <3>3 DEF CallInv
    <2> QED BY <1>4, <2>1, <2>2 DEF CallInv
  <1>11. ReplyInv'
    <2>1. ASSUME NEW x \in Procs, pc'[x] # "idle", done'[rpc[x]]
          PROVE  Own(reply[rpc[x]], rpc[x])'
                 \/ (pc'[x] \in {"opengate", "gatewake", "error"} /\ reply'[rpc[x]] = None)
      <3>1. pc[x] # "idle" /\ rpc[x] \in Tags
        BY <1>0, <1>1, <1>4, <2>1, OwnTag
      <3>2. CASE rpc[x] = h
        BY <1>3, <1>4, <3>1, <3>2 DEF Own
      <3>3. CASE rpc[x] # h
        <4>1. done[rpc[x]] /\ reply'[rpc[x]] = reply[rpc[x]]
          BY <1>4, <2>1, <3>1, <3>3
        <4>2. x # p
          BY <1>1, <4>1 DEF r
        <4> QED BY <1>0, <1>4, <3>1, <4>1, <4>2 DEF ReplyInv, Own
      <3> QED BY <3>2, <3>3
    <2>2. \A x \in Procs : pc'[x] \notin {"mux", "give"}
      BY <1>2, <1>4
    <2> QED BY <1>4, <2>1, <2>2 DEF ReplyInv
  <1>12. FlightInv' /\ MuxInv'
    <2>1. /\ flushtag' \in Nat /\ flushtag' >= flushtag /\ intrs' \in Nat /\ intrs' >= intrs
          /\ \A t \in ToSet(queue) : t \in ToSet(queue') /\ id'[t] = id[t]
      BY <1>0, <1>4 DEF ShapeInv
    <2>2. \A x \in Procs : rpc'[x] \in ToSet(queue) =>
            rpc[x] = rpc'[x] /\ (Mute(pc'[x], hung') => Unsent(x))
      BY <1>4 DEF Mute, Unsent
    <2>3. \A t \in ToSet(queue') : flushed'[t] =>
            \/ t \in ToSet(queue) /\ flushed[t] /\ ftag'[t] = ftag[t]
            \/ ftag'[t] >= flushtag
      BY <1>4
    <2>4. \A x \in Procs : pc'[x] = "mux" =>
            pc[x] = "mux" /\ rpc'[x] = rpc[x] /\ reply'[rpc[x]] = reply[rpc[x]]
      BY <1>2, <1>4
    <2>5. UNCHANGED <<toC, pending>>
      BY <1>4
    <2> QED BY <1>0, <2>1, <2>2, <2>3, <2>4, <2>5, WireKept
  <1>13. TurnInv'
    BY <1>1, <1>4 DEF TurnInv
  <1> QED BY <1>5, <1>6, <1>7, <1>8, <1>9, <1>10, <1>11, <1>12, <1>13 DEF IInv

\* The server answers.
LEMMA AnswerInv ==
  ASSUME IInv, NEW m \in pending, Answer(m)
  PROVE  IInv'
  <1>0. /\ ShapeInv /\ AllocInv /\ QueueInv /\ RipInv /\ SleepInv /\ CallInv /\ ReplyInv
        /\ FlushInv /\ FlightInv /\ MuxInv /\ TurnInv
    BY DEF IInv
  <1>1. UNCHANGED <<queue, rip, flushtag, free, rpctag, id, done, flushed, ftag, reply, sleeper,
                    pc, rpc, back, hand, hung, calls, intrs>>
        /\ toC' = Append(toC, m) /\ pending' = pending \ {m}
    BY DEF Answer, allocs, mntrpcs, procVars
  <1>2. toC \in Seq(Msgs) /\ pending \subseteq Msgs
    BY <1>0 DEF ShapeInv
  <1>3. /\ Len(toC) \in Nat /\ DOMAIN toC = 1 .. Len(toC) /\ DOMAIN toC' = 1 .. Len(toC) + 1
        /\ toC'[Len(toC) + 1] = m /\ \A i \in DOMAIN toC : toC'[i] = toC[i]
        /\ toC' \in Seq(Msgs)
    BY <1>1, <1>2
  <1>4. \A i \in DOMAIN toC' : (i \in DOMAIN toC /\ toC'[i] = toC[i])
                               \/ (i = Len(toC) + 1 /\ toC'[i] = m)
    BY <1>3
  <1>5. ShapeInv'
    BY <1>0, <1>1, <1>2, <1>3 DEF ShapeInv
  <1>6. AllocInv' /\ QueueInv' /\ RipInv' /\ SleepInv'
    BY <1>0, <1>1 DEF AllocInv, QueueInv, RipInv, SleepInv, Calls, Reads
  <1>7. CallInv' /\ FlushInv'
    BY <1>0, <1>1 DEF CallInv, FlushInv, Reads, Giving
  <1>8. ReplyInv'
    BY <1>0, <1>1 DEF ReplyInv, Own, Unsent, Calls
  <1>9. TurnInv'
    BY <1>0, <1>1 DEF TurnInv, Comes, Called
  <1>10. ASSUME NEW n, MsgOK(n) PROVE MsgOK(n)'
    BY <1>1, <1>10 DEF MsgOK, Unsent
  <1>11. ASSUME NEW k, NEW n, ~Clash(k, n) PROVE ~Clash(k, n)'
    BY <1>1, <1>11 DEF Clash
  <1>12. \A i \in DOMAIN toC : MsgOK(toC[i]) /\ ~Clash(toC[i], m)
    BY <1>0 DEF FlightInv
  <1>13. FlightInv'
    <2>1. ASSUME NEW n \in pending' PROVE MsgOK(n)'
      BY <1>0, <1>1, <1>10 DEF FlightInv
    <2>2. ASSUME NEW i \in DOMAIN toC' PROVE MsgOK(toC[i])'
      <3>1. PICK n : n = toC'[i]
        OBVIOUS
      <3>2. MsgOK(n)
        BY <1>0, <1>4, <1>12, <3>1 DEF FlightInv
      <3>3. MsgOK(n)'
        BY <1>10, <3>2
      <3> QED BY <3>1, <3>3 DEF MsgOK
    <2>3. ASSUME NEW k \in pending', NEW n \in pending', k # n PROVE ~Clash(k, n)'
      BY <1>0, <1>1, <1>11, <2>3 DEF FlightInv
    <2>4. ASSUME NEW i \in DOMAIN toC', NEW n \in pending' PROVE ~Clash(toC[i], n)'
      <3>1. PICK k : k = toC'[i]
        OBVIOUS
      <3>2. ~Clash(k, n)
        BY <1>0, <1>1, <1>4, <3>1 DEF FlightInv
      <3>3. ~Clash(k, n)'
        BY <1>11, <3>2
      <3> QED BY <3>1, <3>3 DEF Clash
    <2>5. ASSUME NEW i \in DOMAIN toC', NEW j \in DOMAIN toC', i < j
          PROVE  ~Clash(toC[i], toC[j])'
      <3>1. PICK k, n : k = toC'[i] /\ n = toC'[j]
        OBVIOUS
      <3>2. ~Clash(k, n)
        <4>1. i \in DOMAIN toC /\ k = toC[i]
          BY <1>3, <2>5, <3>1
        <4>2. CASE j \in DOMAIN toC
          BY <1>0, <1>3, <2>5, <3>1, <4>1, <4>2 DEF FlightInv
        <4>3. CASE j \notin DOMAIN toC
          BY <1>4, <1>12, <3>1, <4>1, <4>3
        <4> QED BY <4>2, <4>3
      <3>3. ~Clash(k, n)'
        BY <1>11, <3>2
      <3> QED BY <3>1, <3>3 DEF Clash
    <2> QED BY <2>1, <2>2, <2>3, <2>4, <2>5 DEF FlightInv
  <1>14. MuxInv'
    <2> SUFFICES ASSUME NEW x \in Procs, pc'[x] = "mux"
                 PROVE  /\ MsgOK(reply[rpc[x]])'
                        /\ \A n \in pending' : ~Clash(reply[rpc[x]], n)'
                        /\ \A i \in DOMAIN toC' : ~Clash(reply[rpc[x]], toC[i])'
      BY DEF MuxInv
    <2>1. PICK k : k = reply[rpc[x]]
      OBVIOUS
    <2>2. /\ reply'[rpc'[x]] = k /\ MsgOK(k)
          /\ \A n \in pending : ~Clash(k, n)
          /\ \A i \in DOMAIN toC : ~Clash(k, toC[i])
      BY <1>0, <1>1, <2>1 DEF MuxInv
    <2>3. MsgOK(reply[rpc[x]])'
      BY <1>1, <2>2 DEF MsgOK, Unsent
    <2>4. \A n \in pending' : ~Clash(reply[rpc[x]], n)'
      BY <1>1, <2>2 DEF Clash
    <2>5. ASSUME NEW i \in DOMAIN toC' PROVE ~Clash(reply[rpc[x]], toC[i])'
      <3>1. PICK n : n = toC'[i]
        OBVIOUS
      <3>2. ~Clash(k, n)
        BY <1>4, <2>2, <3>1
      <3> QED BY <1>1, <2>2, <3>1, <3>2 DEF Clash
    <2> QED BY <2>3, <2>4, <2>5
  <1> QED BY <1>5, <1>6, <1>7, <1>8, <1>9, <1>13, <1>14 DEF IInv

\* The connection ends.
LEMMA HangupInv ==
  ASSUME IInv, Hangup
  PROVE  IInv'
  <1>0. /\ ShapeInv /\ AllocInv /\ QueueInv /\ RipInv /\ SleepInv /\ CallInv /\ ReplyInv
        /\ FlushInv /\ FlightInv /\ MuxInv /\ TurnInv
    BY DEF IInv
  <1>1. /\ UNCHANGED <<queue, rip, flushtag, free, rpctag, id, done, flushed, ftag, reply, sleeper,
                       pc, rpc, back, hand, toC, calls, intrs>>
        /\ ~hung /\ intrs = 0 /\ hung' = TRUE /\ pending' = {}
    BY DEF Hangup, allocs, mntrpcs, procVars
  <1>2. \A x \in Procs : pc[x] \notin {"flush", "flushsend"}
    BY <1>0, <1>1 DEF CallInv
  <1>3. \A x \in Procs : Mute(pc[x], hung') => Unsent(x)
    BY <1>1, <1>2 DEF Mute, Unsent
  <1>4. ShapeInv' /\ FlushInv'
    BY <1>0, <1>1 DEF ShapeInv, FlushInv
  <1>5. AllocInv' /\ QueueInv' /\ RipInv' /\ SleepInv'
    BY <1>0, <1>1 DEF AllocInv, QueueInv, RipInv, SleepInv, Calls, Reads
  <1>6. CallInv'
    BY <1>0, <1>1 DEF CallInv, Reads, Giving
  <1>7. ReplyInv'
    BY <1>0, <1>1, <1>3, ReplyMoved
  <1>8. ASSUME NEW m, MsgOK(m) PROVE MsgOK(m)'
    BY <1>1, <1>3, <1>8 DEF MsgOK, Unsent
  <1>9. ASSUME NEW m, NEW n, ~Clash(m, n) PROVE ~Clash(m, n)'
    BY <1>1, <1>9 DEF Clash
  <1>10. FlightInv'
    <2>1. ASSUME NEW i \in DOMAIN toC PROVE MsgOK(toC[i])'
      BY <1>0, <1>1, <1>8 DEF FlightInv
    <2>2. ASSUME NEW i \in DOMAIN toC, NEW j \in DOMAIN toC, i < j
          PROVE  ~Clash(toC[i], toC[j])'
      BY <1>0, <1>1, <1>9, <2>2 DEF FlightInv
    <2> QED BY <1>1, <2>1, <2>2 DEF FlightInv
  <1>11. MuxInv'
    BY <1>0, <1>1, <1>3 DEF MuxInv, MsgOK, Clash, Unsent
  <1>12. TurnInv'
    BY <1>0, <1>1, <1>2 DEF TurnInv, Comes, Called
  <1> QED BY <1>4, <1>5, <1>6, <1>7, <1>10, <1>11, <1>12 DEF IInv

\* There is a Mntrpc left to be made, while nothing is free.
LEMMA FreshTag ==
  ASSUME ShapeInv, AllocInv, NEW p \in Procs, pc[p] = "idle", free = <<>>
  PROVE  rpctag \in Tags
  <1> DEFINE T == {rpc[q] : q \in Calls}
             f == [q \in Calls |-> rpc[q]]
  <1>1. Calls \subseteq Procs \ {p}
    BY DEF Calls, AllocInv
  <1>2. IsFiniteSet(Procs \ {p}) /\ Cardinality(Procs \ {p}) = Cardinality(Procs) - 1
        /\ Cardinality(Procs) \in Nat
    BY FS_RemoveElement, FS_CardinalityType
  <1>3. IsFiniteSet(Calls) /\ Cardinality(Calls) <= Cardinality(Procs) - 1
        /\ Cardinality(Calls) \in Nat
    BY <1>1, <1>2, FS_Subset, FS_CardinalityType
  <1>4. IsFiniteSet(T) /\ Cardinality(T) <= Cardinality(Calls) /\ Cardinality(T) \in Nat
    <2>1. f \in Surjection(Calls, T)
      BY DEF Surjection
    <2> HIDE DEF f, T
    <2> QED BY <1>3, <2>1, FS_Surjection, FS_CardinalityType
  <1>5. 1 .. rpctag - 1 \subseteq T
    <2>1. ToSet(free) = {}
      BY EmptyQueue
    <2> QED BY <2>1 DEF AllocInv
  <1> HIDE DEF T
  <1>6. rpctag \in Nat /\ rpctag > 0
    BY DEF ShapeInv
  <1>7. Cardinality(1 .. rpctag - 1) = rpctag - 1
    <2>1. 1 \in Int /\ rpctag - 1 \in Int
      BY <1>6
    <2>2. Cardinality(1 .. rpctag - 1) = IF 1 > rpctag - 1 THEN 0 ELSE (rpctag - 1) - 1 + 1
      BY <2>1, FS_Interval
    <2> QED BY <1>6, <2>2
  <1>8. Cardinality(1 .. rpctag - 1) <= Cardinality(T)
    BY <1>4, <1>5, FS_Subset
  <1>9. rpctag - 1 <= Cardinality(Procs) - 1
    BY <1>2, <1>3, <1>4, <1>6, <1>7, <1>8
  <1>10. rpctag <= Cardinality(Procs)
    BY <1>2, <1>6, <1>9
  <1> QED BY <1>2, <1>6, <1>10 DEF Tags

\* The Mntrpc of a new call is not that of another call.
LEMMA NewTag ==
  ASSUME ShapeInv, AllocInv, QueueInv, NEW p \in Procs, pc[p] = "idle",
         NEW t, t = IF free = <<>> THEN rpctag ELSE Head(free),
         IF free = <<>> THEN rpctag' = rpctag + 1 /\ UNCHANGED free
                        ELSE free' = Tail(free) /\ UNCHANGED rpctag
  PROVE  /\ t \in Tags /\ t \in Nat /\ t # None
         /\ \A x \in Procs : rpc[x] # t
         /\ t \notin ToSet(queue)
         /\ rpctag' \in Nat \ {0} /\ rpctag' >= rpctag /\ t < rpctag'
         /\ free' \in Seq(Tags) /\ IsInjective(free')
         /\ ToSet(free') = (1 .. rpctag' - 1) \ ({rpc[x] : x \in Calls} \cup {t})
  <1>1. rpctag \in Nat /\ rpctag > 0 /\ free \in Seq(Tags)
    BY DEF ShapeInv
  <1>2. \A x \in Calls : rpc[x] < rpctag /\ rpc[x] \in Nat
    BY DEF AllocInv, ShapeInv, Calls, Tags
  <1>3. CASE free = <<>>
    <2>1. t = rpctag /\ rpctag' = rpctag + 1 /\ free' = <<>>
      BY <1>3
    <2>2. t \in Tags
      BY <1>3, <2>1, FreshTag
    <2>3. t \in Nat /\ t # None
      BY <1>1, <2>1
    <2>4. \A x \in Calls : rpc[x] # t
      BY <1>1, <1>2, <2>1
    <2>5. ToSet(free') = {} /\ IsInjective(free') /\ free' \in Seq(Tags)
      BY <2>1, EmptyQueue
    <2>6. \A i \in 1 .. rpctag' - 1 : i = t \/ i \in 1 .. rpctag - 1
      BY <1>1, <2>1
    <2>7. \A i \in 1 .. rpctag - 1 : i \in {rpc[x] : x \in Calls}
      BY <1>3, EmptyQueue DEF AllocInv
    <2>8. ToSet(free') = (1 .. rpctag' - 1) \ ({rpc[x] : x \in Calls} \cup {t})
      BY <2>5, <2>6, <2>7
    <2>9. rpctag' \in Nat \ {0} /\ rpctag' >= rpctag /\ t < rpctag'
      BY <1>1, <2>1
    <2>10. \A x \in Procs : rpc[x] # t
      BY <2>3, <2>4 DEF Calls
    <2>11. t \notin ToSet(queue)
      BY <2>10 DEF QueueInv, Calls
    <2> QED BY <2>2, <2>3, <2>5, <2>8, <2>9, <2>10, <2>11
  <1>4. CASE free # <<>>
    <2>1. t = Head(free) /\ rpctag' = rpctag /\ free' = Tail(free)
      BY <1>4
    <2>2. /\ t \in Tags /\ t \in ToSet(free) /\ free' \in Seq(Tags) /\ IsInjective(free')
          /\ ToSet(free) = ToSet(free') \cup {t} /\ t \notin ToSet(free')
      BY <1>1, <1>4, <2>1, TailQueue DEF AllocInv
    <2>3. t \in (1 .. rpctag - 1) \ {rpc[x] : x \in Calls}
      BY <2>2 DEF AllocInv
    <2>4. t \in Nat /\ t # None /\ t < rpctag
      BY <1>1, <2>3
    <2>5. \A x \in Procs : rpc[x] # t
      BY <2>3, <2>4 DEF Calls
    <2>6. t \notin ToSet(queue)
      BY <2>5 DEF QueueInv, Calls
    <2>7. ToSet(free') = (1 .. rpctag' - 1) \ ({rpc[x] : x \in Calls} \cup {t})
      BY <2>1, <2>2 DEF AllocInv
    <2> QED BY <1>1, <2>1, <2>2, <2>4, <2>5, <2>6, <2>7
  <1> QED BY <1>3, <1>4

\* A call is made.
LEMMA CallStepInv ==
  ASSUME IInv, NEW p \in Procs, Call(p)
  PROVE  IInv'
  <1>0. /\ ShapeInv /\ AllocInv /\ QueueInv /\ RipInv /\ SleepInv /\ CallInv /\ ReplyInv
        /\ FlushInv /\ FlightInv /\ MuxInv /\ TurnInv
    BY DEF IInv
  <1>1. PICK t : t = IF free = <<>> THEN rpctag ELSE Head(free)
    OBVIOUS
  <1>2. /\ pc[p] = "idle" /\ rpc[p] = None /\ p \notin Calls
        /\ IF free = <<>> THEN rpctag' = rpctag + 1 /\ UNCHANGED free
                          ELSE free' = Tail(free) /\ UNCHANGED rpctag
        /\ calls' = [calls EXCEPT ![p] = @ + 1]
        /\ id' = [id EXCEPT ![t] = <<p, calls'[p]>>]
        /\ done' = [done EXCEPT ![t] = FALSE]
        /\ flushed' = [flushed EXCEPT ![t] = FALSE]
        /\ rpc' = [rpc EXCEPT ![p] = t]
        /\ queue' = <<t>> \o queue
        /\ pc' = [pc EXCEPT ![p] = "send"]
        /\ UNCHANGED <<rip, flushtag, ftag, reply, sleeper, back, hand, toC, hung, pending, intrs>>
    BY <1>0, <1>1 DEF Call, Goto, AllocInv, wire, Calls
  <1>3. /\ t \in Tags /\ t \in Nat /\ t # None
        /\ \A x \in Procs : rpc[x] # t
        /\ t \notin ToSet(queue)
        /\ rpctag' \in Nat \ {0} /\ rpctag' >= rpctag /\ t < rpctag'
        /\ free' \in Seq(Tags) /\ IsInjective(free')
        /\ ToSet(free') = (1 .. rpctag' - 1) \ ({rpc[x] : x \in Calls} \cup {t})
    BY <1>0, <1>1, <1>2, NewTag
  <1>4. /\ \A x \in Procs : pc'[x] = IF x = p THEN "send" ELSE pc[x]
        /\ \A x \in Procs : rpc'[x] = IF x = p THEN t ELSE rpc[x]
        /\ \A u \in Tags : done'[u] = IF u = t THEN FALSE ELSE done[u]
        /\ \A u \in Tags : flushed'[u] = IF u = t THEN FALSE ELSE flushed[u]
        /\ \A u \in Tags : u # t => id'[u] = id[u]
        /\ pc' \in [Procs -> PC] /\ rpc' \in [Procs -> Tags \cup {None}]
        /\ done' \in [Tags -> BOOLEAN] /\ flushed' \in [Tags -> BOOLEAN]
    BY <1>0, <1>2, <1>3 DEF ShapeInv, PC
  <1>5. calls' \in [Procs -> Nat] /\ id' \in [Tags -> Ids \cup {None}]
    <2>1. calls' \in [Procs -> Nat]
      BY <1>0, <1>2 DEF ShapeInv
    <2>2. <<p, calls'[p]>> \in Ids
      BY <2>1 DEF Ids
    <2> QED BY <1>0, <1>2, <1>3, <2>1, <2>2 DEF ShapeInv
  <1>6. /\ queue' \in Seq(Tags) /\ IsInjective(queue') /\ ToSet(queue') = ToSet(queue) \cup {t}
        /\ ToSet(queue) \subseteq Tags
    BY <1>0, <1>2, <1>3, PushQueue, QueueSubset DEF ShapeInv, QueueInv
  <1>7. Calls' = Calls \cup {p} /\ {rpc'[x] : x \in Calls'} = {rpc[x] : x \in Calls} \cup {t}
    <2>1. Calls' = Calls \cup {p}
      BY <1>3, <1>4 DEF Calls
    <2>2. \A x \in Calls : x \in Procs /\ x # p
      BY <1>2 DEF Calls
    <2> QED BY <1>4, <2>1, <2>2
  <1>8. ShapeInv'
    BY <1>0, <1>2, <1>3, <1>4, <1>5, <1>6 DEF ShapeInv
  <1>9. AllocInv'
    <2>1. \A x \in Procs : rpc'[x] = None <=> pc'[x] = "idle"
      BY <1>0, <1>3, <1>4 DEF AllocInv
    <2>2. ASSUME NEW x \in Procs, rpc'[x] # None PROVE rpc'[x] < rpctag'
      <3>1. rpctag \in Nat /\ \A y \in Procs : rpc[y] # None => rpc[y] \in Nat /\ rpc[y] < rpctag
        BY <1>0 DEF AllocInv, ShapeInv, Tags
      <3> QED BY <1>3, <1>4, <2>2, <3>1
    <2>3. \A x, y \in Calls' : x # y => rpc'[x] # rpc'[y]
      BY <1>0, <1>3, <1>4, <1>7 DEF AllocInv, Calls
    <2> QED BY <1>3, <1>7, <2>1, <2>2, <2>3 DEF AllocInv
  <1>10. QueueInv'
    <2>1. ToSet(queue') \subseteq {rpc'[x] : x \in Calls'}
      BY <1>0, <1>6, <1>7 DEF QueueInv
    <2>2. \A u \in ToSet(queue') : ~done'[u]
      BY <1>0, <1>3, <1>4, <1>6 DEF QueueInv
    <2> QED BY <1>6, <2>1, <2>2 DEF QueueInv
  <1>11. RipInv'
    BY <1>0, <1>2, <1>4 DEF RipInv, Reads
  <1>12. SleepInv'
    BY <1>0, <1>2, <1>4, SleepMoved
  <1>13. CallInv'
    <2>1. ASSUME NEW x \in Procs
          PROVE  /\ pc'[x] \in {"return", "error", "opengate", "gatewake"} => done'[rpc'[x]]
                 /\ Reads(x)' /\ pc'[x] # "opengate" => rpc'[x] \in ToSet(queue')
                 /\ pc'[x] = "send" => rpc'[x] \in ToSet(queue') /\ ~flushed'[rpc'[x]]
                 /\ pc'[x] \in {"give", "givewake", "gatewake"} => hand'[x] \in Tags
                 /\ pc'[x] \in {"flush", "flushsend"} =>
                      back'[x] \in {"gate", "read"} /\ (hung' \/ intrs' > 0)
                 /\ pc'[x] = "flushsend" => flushed'[rpc'[x]]
      <3>1. CASE x = p
        BY <1>3, <1>4, <1>6, <3>1 DEF Reads
      <3>2. CASE x # p
        <4>1. pc'[x] = pc[x] /\ rpc'[x] = rpc[x] /\ (Reads(x)' <=> Reads(x))
          BY <1>2, <1>4, <3>2 DEF Reads
        <4>2. pc[x] # "idle" => done'[rpc[x]] = done[rpc[x]] /\ flushed'[rpc[x]] = flushed[rpc[x]]
          BY <1>0, <1>3, <1>4, OwnTag
        <4>3. Reads(x) => pc[x] # "idle"
          BY DEF Reads
        <4> QED BY <1>0, <1>2, <1>6, <4>1, <4>2, <4>3 DEF CallInv
      <3> QED BY <3>1, <3>2
    <2>2. \A u : Giving(u) => \E x \in Procs : pc'[x] = "give" /\ hand'[x] = u
      BY <1>2, <1>4 DEF Giving
    <2>3. ASSUME NEW x \in Procs, pc'[x] # "idle", ~done'[rpc'[x]]
          PROVE  rpc'[x] \in ToSet(queue') \/ Giving(rpc[x])'
      <3>1. CASE x = p
        BY <1>4, <1>6, <3>1
      <3>2. CASE x # p
        <4>1. pc[x] # "idle" /\ rpc'[x] = rpc[x] /\ rpc[x] \in Tags /\ ~done[rpc[x]]
          BY <1>0, <1>3, <1>4, <2>3, <3>2, OwnTag
        <4>2. rpc[x] \in ToSet(queue) \/ Giving(rpc[x])
          BY <1>0, <4>1 DEF CallInv
        <4> QED BY <1>6, <2>2, <4>1, <4>2 DEF Giving
      <3> QED BY <3>1, <3>2
    <2> QED BY <2>1, <2>3 DEF CallInv
  <1>14. ReplyInv'
    <2>1. ASSUME NEW x \in Procs, pc'[x] # "idle", done'[rpc'[x]]
          PROVE  Own(reply[rpc[x]], rpc[x])'
                 \/ (pc'[x] \in {"opengate", "gatewake", "error"} /\ reply'[rpc'[x]] = None)
      <3>1. x # p
        BY <1>3, <1>4, <2>1
      <3>2. pc[x] # "idle" /\ pc'[x] = pc[x] /\ rpc'[x] = rpc[x] /\ rpc[x] \in Tags /\ rpc[x] # t
        BY <1>0, <1>3, <1>4, <2>1, <3>1, OwnTag
      <3>3. done[rpc[x]] /\ id'[rpc[x]] = id[rpc[x]]
        BY <1>4, <2>1, <3>2
      <3> QED BY <1>0, <1>2, <3>2, <3>3 DEF ReplyInv, Own
    <2>2. ASSUME NEW x \in Procs, pc'[x] = "mux"
          PROVE  reply'[rpc'[x]] \in Msgs
      BY <1>0, <1>2, <1>4, <2>2 DEF ReplyInv
    <2>3. ASSUME NEW x \in Procs, pc'[x] = "give"
          PROVE  /\ Own(reply[rpc[x]], hand[x])'
                 /\ hand'[x] \in {rpc'[y] : y \in Calls'}
                 /\ hand'[x] \notin ToSet(queue') /\ ~done'[hand'[x]]
                 /\ \A y \in Procs : rpc'[y] = hand'[x] => y # x /\ ~Mute(pc'[y], hung')
      <3>1. pc[x] = "give" /\ rpc'[x] = rpc[x]
        BY <1>4, <2>3
      <3>2. hand[x] \in Tags /\ hand[x] # t /\ hand[x] \in {rpc[y] : y \in Calls}
        BY <1>0, <1>3, <3>1 DEF CallInv, ReplyInv, Calls
      <3>3. Own(reply[rpc[x]], hand[x])'
        BY <1>0, <1>2, <1>4, <3>1, <3>2 DEF ReplyInv, Own
      <3>4. hand[x] \notin ToSet(queue') /\ ~done'[hand[x]]
        BY <1>0, <1>4, <1>6, <3>1, <3>2 DEF ReplyInv
      <3>5. ASSUME NEW y \in Procs, rpc'[y] = hand[x] PROVE y # x /\ ~Mute(pc'[y], hung)
        <4>1. y # p /\ rpc[y] = hand[x] /\ pc'[y] = pc[y]
          BY <1>4, <3>2, <3>5
        <4> QED BY <1>0, <3>1, <4>1 DEF ReplyInv, Unsent
      <3> QED BY <1>2, <1>7, <3>2, <3>3, <3>4, <3>5
    <2> QED BY <2>1, <2>2, <2>3 DEF ReplyInv, Unsent
  <1>15. FlushInv'
    BY <1>0, <1>2, <1>4 DEF FlushInv
  <1>16. FlightInv' /\ MuxInv'
    <2>1. /\ UNCHANGED <<toC, pending>>
          /\ flushtag' \in Nat /\ flushtag' >= flushtag /\ intrs' \in Nat /\ intrs' >= intrs
      BY <1>0, <1>2 DEF ShapeInv
    <2>2. \A u \in ToSet(queue) : u \in ToSet(queue') /\ id'[u] = id[u]
      BY <1>3, <1>4, <1>6
    <2>3. \A x \in Procs : rpc'[x] \in ToSet(queue) =>
            rpc[x] = rpc'[x] /\ (Mute(pc'[x], hung') => Unsent(x))
      BY <1>2, <1>3, <1>4 DEF Unsent
    <2>4. \A u \in ToSet(queue') : flushed'[u] =>
            \/ u \in ToSet(queue) /\ flushed[u] /\ ftag'[u] = ftag[u]
            \/ ftag'[u] >= flushtag
      BY <1>2, <1>3, <1>4, <1>6
    <2>5. \A x \in Procs : pc'[x] = "mux" =>
            pc[x] = "mux" /\ rpc'[x] = rpc[x] /\ reply'[rpc[x]] = reply[rpc[x]]
      BY <1>2, <1>4
    <2> QED BY <1>0, <2>1, <2>2, <2>3, <2>4, <2>5, WireKept
  <1>17. TurnInv'
    <2> SUFFICES ASSUME rip = None, NEW q \in Procs, pc'[q] = "asleep", ~done'[rpc'[q]]
                 PROVE  \E x \in Procs : Comes(x)' \/ Called(x)'
      BY <1>2 DEF TurnInv
    <2>1. pc[q] = "asleep" /\ rpc'[q] = rpc[q] /\ rpc[q] \in Tags /\ ~done[rpc[q]]
      BY <1>0, <1>3, <1>4, OwnTag
    <2>2. PICK x \in Procs : Comes(x) \/ Called(x)
      BY <1>0, <2>1 DEF TurnInv
    <2>3. x # p /\ pc'[x] = pc[x] /\ rpc'[x] = rpc[x] /\ rpc[x] # t /\ pc[x] # "idle"
          /\ rpc[x] \in Tags
      <3>1. pc[x] # "idle"
        BY <2>2 DEF Comes, Called
      <3> QED BY <1>0, <1>2, <1>3, <1>4, <3>1, OwnTag
    <2>4. CASE Comes(x)
      BY <1>2, <1>4, <2>3, <2>4 DEF Comes
    <2>5. CASE Called(x)
      <3>1. hand[x] \in Tags
        BY <1>0, <2>5 DEF Called, CallInv
      <3> QED BY <1>2, <1>4, <2>3, <2>5, <3>1 DEF Called
    <2> QED BY <2>2, <2>4, <2>5
  <1> QED BY <1>8, <1>9, <1>10, <1>11, <1>12, <1>13, <1>14, <1>15, <1>16, <1>17 DEF IInv

\* A call ends, and its Mntrpc is freed.
LEMMA ReturnInv ==
  ASSUME IInv, NEW p \in Procs, Return(p)
  PROVE  IInv'
  <1>0. /\ ShapeInv /\ AllocInv /\ QueueInv /\ RipInv /\ SleepInv /\ CallInv /\ ReplyInv
        /\ FlushInv /\ FlightInv /\ MuxInv /\ TurnInv
    BY DEF IInv
  <1>1. PICK t : t = rpc[p]
    OBVIOUS
  <1>2. /\ pc[p] \in {"return", "error"} /\ pc[p] # "idle" /\ rpc[p] = t
        /\ free' = <<t>> \o free
        /\ reply' = [reply EXCEPT ![t] = None]
        /\ id' = [id EXCEPT ![t] = None]
        /\ rpc' = [rpc EXCEPT ![p] = None]
        /\ pc' = [pc EXCEPT ![p] = "idle"]
        /\ UNCHANGED <<queue, rip, flushtag, rpctag, done, flushed, ftag, sleeper, back, hand,
                       toC, hung, pending, calls, intrs>>
    BY <1>1 DEF Return, Goto, wire
  <1>3. /\ t \in Tags /\ t \in Nat /\ t # None /\ p \in Calls /\ done[t] /\ t < rpctag
        /\ t \notin ToSet(queue) /\ t \notin ToSet(free)
    <2>1. t \in Tags /\ t # None /\ p \in Calls
      BY <1>0, <1>2, OwnTag
    <2>2. done[t] /\ t < rpctag
      BY <1>0, <1>2, <2>1 DEF CallInv, AllocInv
    <2>3. t \in {rpc[x] : x \in Calls}
      BY <1>2, <2>1
    <2> QED BY <1>0, <2>1, <2>2, <2>3 DEF QueueInv, AllocInv, Tags
  <1>4. /\ \A x \in Procs : pc'[x] = IF x = p THEN "idle" ELSE pc[x]
        /\ \A x \in Procs : rpc'[x] = IF x = p THEN None ELSE rpc[x]
        /\ \A u \in Tags : u # t => id'[u] = id[u] /\ reply'[u] = reply[u]
        /\ pc' \in [Procs -> PC] /\ rpc' \in [Procs -> Tags \cup {None}]
        /\ id' \in [Tags -> Ids \cup {None}] /\ reply' \in [Tags -> Msgs \cup {None}]
    BY <1>0, <1>2, <1>3 DEF ShapeInv, PC
  <1>5. /\ free' \in Seq(Tags) /\ IsInjective(free') /\ ToSet(free') = ToSet(free) \cup {t}
        /\ ToSet(queue) \subseteq Tags
    BY <1>0, <1>2, <1>3, PushQueue, QueueSubset DEF ShapeInv, AllocInv
  <1>6. None \notin Tags /\ None \notin ToSet(queue)
    BY <1>5 DEF Tags
  <1>7. \A x \in Procs : x # p /\ pc[x] # "idle" => rpc[x] \in Tags /\ rpc[x] # t
    BY <1>0, <1>2, OneOwner, OwnTag
  <1>8. Calls' = Calls \ {p} /\ {rpc'[x] : x \in Calls'} = {rpc[x] : x \in Calls} \ {t}
    <2>1. Calls' = Calls \ {p}
      BY <1>4 DEF Calls
    <2>2. \A x \in Calls : x # p => rpc[x] # t /\ rpc'[x] = rpc[x]
      BY <1>0, <1>2, <1>3, <1>4 DEF AllocInv, Calls
    <2> QED BY <1>2, <2>1, <2>2
  <1>9. ShapeInv'
    BY <1>0, <1>2, <1>4, <1>5 DEF ShapeInv
  <1>10. AllocInv'
    <2>1. \A x \in Procs : rpc'[x] = None <=> pc'[x] = "idle"
      BY <1>0, <1>4 DEF AllocInv
    <2>2. \A x \in Procs : rpc'[x] # None => rpc'[x] < rpctag
      BY <1>0, <1>4 DEF AllocInv
    <2>3. \A x, y \in Calls' : x # y => rpc'[x] # rpc'[y]
      BY <1>0, <1>4, <1>8 DEF AllocInv, Calls
    <2>4. t \in 1 .. rpctag - 1
      BY <1>0, <1>3 DEF ShapeInv, Tags
    <2>5. ToSet(free') = (1 .. rpctag - 1) \ {rpc'[x] : x \in Calls'}
      BY <1>0, <1>5, <1>8, <2>4 DEF AllocInv
    <2> QED BY <1>2, <1>5, <2>1, <2>2, <2>3, <2>5 DEF AllocInv
  <1>11. QueueInv'
    BY <1>0, <1>2, <1>3, <1>8 DEF QueueInv
  <1>12. RipInv'
    BY <1>0, <1>2, <1>4 DEF RipInv, Reads
  <1>13. SleepInv'
    BY <1>0, <1>2, <1>4, SleepMoved
  <1>14. CallInv'
    <2>1. ASSUME NEW x \in Procs
          PROVE  /\ pc'[x] \in {"return", "error", "opengate", "gatewake"} => done'[rpc'[x]]
                 /\ Reads(x)' /\ pc'[x] # "opengate" => rpc'[x] \in ToSet(queue')
                 /\ pc'[x] = "send" => rpc'[x] \in ToSet(queue') /\ ~flushed'[rpc'[x]]
                 /\ pc'[x] \in {"give", "givewake", "gatewake"} => hand'[x] \in Tags
                 /\ pc'[x] \in {"flush", "flushsend"} =>
                      back'[x] \in {"gate", "read"} /\ (hung' \/ intrs' > 0)
                 /\ pc'[x] = "flushsend" => flushed'[rpc'[x]]
      <3>1. CASE x = p
        BY <1>4, <3>1 DEF Reads
      <3>2. CASE x # p
        <4>1. pc'[x] = pc[x] /\ rpc'[x] = rpc[x] /\ (Reads(x)' <=> Reads(x))
          BY <1>2, <1>4, <3>2 DEF Reads
        <4> QED BY <1>0, <1>2, <4>1 DEF CallInv
      <3> QED BY <3>1, <3>2
    <2>2. \A u : Giving(u) => \E x \in Procs : pc'[x] = "give" /\ hand'[x] = u
      BY <1>2, <1>4 DEF Giving
    <2>3. ASSUME NEW x \in Procs, pc'[x] # "idle", ~done'[rpc'[x]]
          PROVE  rpc'[x] \in ToSet(queue') \/ Giving(rpc[x])'
      <3>1. x # p /\ pc[x] # "idle" /\ rpc'[x] = rpc[x] /\ ~done[rpc[x]]
        BY <1>2, <1>4, <2>3
      <3>2. rpc[x] \in ToSet(queue) \/ Giving(rpc[x])
        BY <1>0, <3>1 DEF CallInv
      <3> QED BY <1>2, <2>2, <3>1, <3>2 DEF Giving
    <2> QED BY <2>1, <2>3 DEF CallInv
  <1>15. ReplyInv'
    <2>1. ASSUME NEW x \in Procs, pc'[x] # "idle", done'[rpc'[x]]
          PROVE  Own(reply[rpc[x]], rpc[x])'
                 \/ (pc'[x] \in {"opengate", "gatewake", "error"} /\ reply'[rpc'[x]] = None)
      <3>1. x # p /\ pc[x] # "idle" /\ pc'[x] = pc[x] /\ rpc'[x] = rpc[x] /\ done[rpc[x]]
        BY <1>2, <1>4, <2>1
      <3>2. rpc[x] \in Tags /\ id'[rpc[x]] = id[rpc[x]] /\ reply'[rpc[x]] = reply[rpc[x]]
        BY <1>4, <1>7, <3>1
      <3> QED BY <1>0, <3>1, <3>2 DEF ReplyInv, Own
    <2>2. ASSUME NEW x \in Procs, pc'[x] = "mux"
          PROVE  reply'[rpc'[x]] \in Msgs
      <3>1. x # p /\ pc[x] = "mux" /\ rpc'[x] = rpc[x]
        BY <1>4, <2>2
      <3> QED BY <1>0, <1>4, <1>7, <3>1 DEF ReplyInv
    <2>3. ASSUME NEW x \in Procs, pc'[x] = "give"
          PROVE  /\ Own(reply[rpc[x]], hand[x])'
                 /\ hand'[x] \in {rpc'[y] : y \in Calls'}
                 /\ hand'[x] \notin ToSet(queue') /\ ~done'[hand'[x]]
                 /\ \A y \in Procs : rpc'[y] = hand'[x] => y # x /\ ~Mute(pc'[y], hung')
      <3>1. x # p /\ pc[x] = "give" /\ rpc'[x] = rpc[x] /\ reply'[rpc[x]] = reply[rpc[x]]
        BY <1>4, <1>7, <2>3
      <3>2. hand[x] \in Tags /\ hand[x] # t /\ hand[x] \in {rpc[y] : y \in Calls}
        BY <1>0, <1>3, <3>1 DEF CallInv, ReplyInv
      <3>3. Own(reply[rpc[x]], hand[x])'
        BY <1>0, <1>2, <1>4, <3>1, <3>2 DEF ReplyInv, Own
      <3>4. hand[x] \notin ToSet(queue') /\ ~done'[hand[x]]
        BY <1>0, <1>2, <3>1 DEF ReplyInv
      <3>5. ASSUME NEW y \in Procs, rpc'[y] = hand[x] PROVE y # x /\ ~Mute(pc'[y], hung)
        <4>1. y # p /\ rpc[y] = hand[x] /\ pc'[y] = pc[y]
          BY <1>4, <1>6, <3>2, <3>5
        <4> QED BY <1>0, <3>1, <4>1 DEF ReplyInv, Unsent
      <3> QED BY <1>2, <1>8, <3>2, <3>3, <3>4, <3>5
    <2> QED BY <2>1, <2>2, <2>3 DEF ReplyInv, Unsent
  <1>16. FlushInv'
    BY <1>0, <1>2 DEF FlushInv
  <1>17. FlightInv' /\ MuxInv'
    <2>1. /\ UNCHANGED <<toC, pending>>
          /\ flushtag' \in Nat /\ flushtag' >= flushtag /\ intrs' \in Nat /\ intrs' >= intrs
      BY <1>0, <1>2 DEF ShapeInv
    <2>2. \A u \in ToSet(queue) : u \in ToSet(queue') /\ id'[u] = id[u]
      BY <1>2, <1>3, <1>4, <1>5
    <2>3. \A x \in Procs : rpc'[x] \in ToSet(queue) =>
            rpc[x] = rpc'[x] /\ (Mute(pc'[x], hung') => Unsent(x))
      BY <1>2, <1>4, <1>6 DEF Unsent
    <2>4. \A u \in ToSet(queue') : flushed'[u] =>
            \/ u \in ToSet(queue) /\ flushed[u] /\ ftag'[u] = ftag[u]
            \/ ftag'[u] >= flushtag
      BY <1>2
    <2>5. \A x \in Procs : pc'[x] = "mux" =>
            pc[x] = "mux" /\ rpc'[x] = rpc[x] /\ reply'[rpc[x]] = reply[rpc[x]]
      BY <1>4, <1>7
    <2> QED BY <1>0, <2>1, <2>2, <2>3, <2>4, <2>5, WireKept
  <1>18. TurnInv'
    <2> SUFFICES ASSUME rip = None, NEW q \in Procs, pc'[q] = "asleep", ~done'[rpc'[q]]
                 PROVE  \E x \in Procs : Comes(x)' \/ Called(x)'
      BY <1>2 DEF TurnInv
    <2>1. q # p /\ pc[q] = "asleep" /\ ~done[rpc[q]]
      BY <1>2, <1>4
    <2>2. PICK x \in Procs : Comes(x) \/ Called(x)
      BY <1>0, <2>1 DEF TurnInv
    <2>3. x # p /\ pc'[x] = pc[x] /\ rpc'[x] = rpc[x]
      BY <1>2, <1>4, <2>2 DEF Comes, Called
    <2> QED BY <1>2, <2>2, <2>3 DEF Comes, Called
  <1> QED BY <1>9, <1>10, <1>11, <1>12, <1>13, <1>14, <1>15, <1>16, <1>17, <1>18 DEF IInv

-----------------------------------------------------------------------------
\* Every step keeps the invariant.
LEMMA NextIInv == IInv /\ [Next]_vars => IInv'
  <1> SUFFICES ASSUME IInv, [Next]_vars PROVE IInv'
    OBVIOUS
  <1>1. ASSUME NEW p \in Procs, Call(p) \/ Step(p) \/ Interrupt(p) \/ FlushInterrupted(p)
        PROVE  IInv'
    <2>1. CASE Call(p)
      BY <2>1, CallStepInv
    <2>2. CASE Send(p)
      BY <2>2, SendInv
    <2>3. CASE Gate(p)
      BY <2>3, GateInv
    <2>4. CASE Sleep(p)
      BY <2>4, SleepStepInv
    <2>5. CASE Woken(p)
      BY <2>5, WokenInv
    <2>6. CASE Read(p)
      BY <2>6, ReadInv
    <2>7. CASE ReadEof(p)
      BY <2>7, ReadEofInv
    <2>8. CASE Mux(p)
      BY <2>8, MuxStepInv
    <2>9. CASE Give(p)
      BY <2>9, GiveInv
    <2>10. CASE GiveWake(p)
      BY <2>10, GiveWakeInv
    <2>11. CASE OpenGate(p)
      BY <2>11, OpenGateInv
    <2>12. CASE GateWake(p)
      BY <2>12, GateWakeInv
    <2>13. CASE Flush(p)
      BY <2>13, FlushStepInv
    <2>14. CASE FlushSend(p)
      BY <2>14, FlushSendInv
    <2>15. CASE Return(p)
      BY <2>15, ReturnInv
    <2>16. CASE Interrupt(p)
      BY <2>16, InterruptInv
    <2>17. CASE FlushInterrupted(p)
      BY <2>17, FlushInterruptedInv
    <2> QED BY <1>1, <2>1, <2>2, <2>3, <2>4, <2>5, <2>6, <2>7, <2>8, <2>9, <2>10, <2>11, <2>12,
               <2>13, <2>14, <2>15, <2>16, <2>17 DEF Step
  <1>2. CASE ServerReplies
    BY <1>2, AnswerInv DEF ServerReplies
  <1>3. CASE ServerFlushes
    BY <1>3, AnswerInv DEF ServerFlushes
  <1>4. CASE Hangup
    BY <1>4, HangupInv
  <1>5. CASE UNCHANGED vars
    <2>1. UNCHANGED <<queue, rip, flushtag, free, rpctag, id, done, flushed, ftag, reply, sleeper,
                      pc, rpc, back, hand, toC, hung, pending, calls, intrs>>
      BY <1>5 DEF vars, allocs, mntrpcs, procVars, wire
    <2>2. ShapeInv' /\ AllocInv' /\ QueueInv' /\ RipInv' /\ SleepInv'
      BY <2>1 DEF IInv, ShapeInv, AllocInv, QueueInv, RipInv, SleepInv, Calls, Reads
    <2>3. CallInv' /\ ReplyInv' /\ FlushInv' /\ TurnInv'
      BY <2>1 DEF IInv, CallInv, ReplyInv, FlushInv, TurnInv, Calls, Reads, Giving, Own, Unsent,
                  Mute, Comes, Called
    <2>4. FlightInv' /\ MuxInv'
      BY <2>1 DEF IInv, FlightInv, MuxInv, MsgOK, Clash, Unsent, Mute, Tagfls
    <2> QED BY <2>2, <2>3, <2>4 DEF IInv
  <1> QED BY <1>1, <1>2, <1>3, <1>4, <1>5 DEF Next

\* The inductive invariant holds in every state of the mount driver.
THEOREM IInvHolds == Spec => []IInv
  <1> QED BY InitIInv, NextIInv, PTL DEF Spec

\* The gate is shut exactly while a process reads, no Mntrpc of mntalloc
\* serves two calls, and m->queue holds each call that waits once (mntralloc,
\* mntfree, mountio, mntgate).
THEOREM TypeCorrect == Spec => []TypeOK
  <1>1. IInv => TypeOK
    BY DEF IInv, AllocInv, QueueInv, RipInv, SleepInv, TypeOK
  <1> QED BY <1>1, IInvHolds, PTL

\* A call returns with the answer to its own request, or to its own flush,
\* however mountmux hands out what mntrpcread has read.
THEOREM ReplyIsOwnHolds == Spec => []ReplyIsOwn
  <1>1. ASSUME IInv PROVE ReplyIsOwn
    <2> SUFFICES ASSUME NEW p \in Procs, pc[p] = "return"
                 PROVE  reply[rpc[p]].id = id[rpc[p]]
      BY DEF ReplyIsOwn
    <2>1. done[rpc[p]]
      BY <1>1 DEF IInv, CallInv
    <2> QED BY <1>1, <2>1 DEF IInv, ReplyInv, Own
  <1> QED BY <1>1, IInvHolds, PTL

\* While a caller sleeps in mountio somebody reads, or comes to the gate, or
\* is waking a caller in mntgate: the turn to read is not lost.
THEOREM ReaderSureHolds == Spec => []ReaderSure
  <1>1. ASSUME IInv PROVE ReaderSure
    <2> SUFFICES ASSUME rip = None, \E p \in Procs : pc[p] = "asleep" /\ ~done[rpc[p]]
                 PROVE  \E p \in Procs : pc[p] \in {"send", "gate", "sleep", "woken", "gatewake",
                                                    "flush", "flushsend"}
      BY DEF ReaderSure
    <2>1. PICK x \in Procs : Comes(x) \/ Called(x)
      BY <1>1 DEF IInv, TurnInv
    <2> QED BY <2>1 DEF Comes, Called
  <1> QED BY <1>1, IInvHolds, PTL
=============================================================================
