-------------------------- MODULE SleepHostProofs --------------------------
(***************************************************************************)
(* erendezvous with semaphores implements the rendezvous of Sleep, Wakeup  *)
(* and swiproc, for any processes and Rendezes: a step of HostNext is a    *)
(* step of Rendez, or leaves what Rendez sees alone.  That Rendez keeps    *)
(* its invariant is known (RendezProofs); the invariant here adds who      *)
(* owns each cell, and what the callers of erendezvous are about.          *)
(***************************************************************************)
EXTENDS SleepHost, QueueProofs, FiniteSetTheorems

RP == INSTANCE RendezProofs WITH lk <- lkMap, arg <- argMap, tgt <- tgtMap, pc <- pcMap

\* Every cell that was made is free, once, or in the table.
CellInv ==
  /\ tag \in [Cells -> Callers \cup {Nobody}]
  /\ sem \in [Cells -> Nat]
  /\ cell \in [Callers -> Cells \cup {Nobody}]
  /\ epc \in [Callers -> {"out", "test", "semop", "unlink", "post"}]
  /\ ft \in Seq(Cells) /\ IsInjective(ft)
  /\ made \in Nat /\ made <= Cardinality(Callers)
  /\ ht \cup ToSet(ft) = 1 .. made /\ ht \cap ToSet(ft) = {}

\* A cell in the table belongs to the one process that came first.
OwnerInv ==
  /\ \A p \in Callers : epc[p] # "out" => cell[p] \in Cells
  /\ \A p \in Callers : First(p) => cell[p] \in ht
  /\ \A t \in ht : \E p \in Callers : First(p) /\ cell[p] = t
  /\ \A p, q \in Callers : First(p) /\ First(q) /\ cell[p] = cell[q] => p = q

\* A tag is that of one cell in the table; who has been met is not left to wait.
TagInv ==
  /\ \A s, t \in ht : tag[s] = tag[t] /\ tag[s] # Nobody => s = t
  /\ \A p \in Callers : epc[p] = "unlink" => tag[cell[p]] = Nobody
  /\ \A p \in Callers : epc[p] = "semop" /\ tag[cell[p]] = Nobody =>
       sem[cell[p]] > 0 \/ \E q \in Callers : epc[q] = "post" /\ cell[q] = cell[p]

ErInv == CellInv /\ OwnerInv /\ TagInv

\* The processes that were met in erendezvous and are still in it.
Answered == {p \in Callers : Met(p)}

\* Only Sleep, Wakeup and swiproc call erendezvous, with the sleeper as tag; and
\* who calls it to wake somebody holds the lock of that Rendez.
CallInv ==
  /\ lk \in [Rendezes -> Wakers \cup Killers \cup {None}]
  /\ pc \in [Procs -> PC]
  /\ arg \in [Procs -> Rendezes \cup {None}]
  /\ tgt \in [Procs -> Users \cup {None}]
  /\ \A p \in Procs : epc[p] # "out" => pc[p] \in {"rendez", "meet"}
  /\ \A p \in Procs : First(p) => tag[cell[p]] \in {Arg(p), Nobody}
  /\ \A w \in Procs : pc[w] = "meet" =>
       /\ w \in Wakers \cup Killers /\ tgt[w] \in Users
       /\ arg[w] \in Rendezes /\ lk[arg[w]] = w
  /\ \A r \in Rendezes : lk[r] # None => pc[lk[r]] = "meet" /\ arg[lk[r]] = r

HostInv == RP!IInv /\ ErInv /\ CallInv

-----------------------------------------------------------------------------
\* The processes can be counted.
LEMMA CallersFinite ==
  IsFiniteSet(Callers) /\ Cardinality(Callers) \in Nat /\ Nobody \notin Callers
  BY CallersAssumption, ProcsAssumption, FS_CardinalityType

\* There are no cells at first.
LEMMA InitErInv == ErInit => ErInv
  <1> SUFFICES ASSUME ErInit PROVE ErInv
    OBVIOUS
  <1>1. CellInv
    <2>1. ht \cup ToSet(ft) = {} /\ 1 .. made = {} /\ IsInjective(ft)
      BY EmptyQueue DEF ErInit
    <2> QED BY <2>1, CallersFinite DEF ErInit, CellInv
  <1>2. OwnerInv /\ TagInv
    BY DEF ErInit, OwnerInv, TagInv, First
  <1> QED BY <1>1, <1>2 DEF ErInv

\* The second takes a cell from the first.
LEMMA TakeInv ==
  ASSUME ErInv, NEW p \in Callers, NEW g \in Callers, Take(p, g)
  PROVE  ErInv'
  <1>0. CellInv /\ OwnerInv /\ TagInv
    BY DEF ErInv
  <1>1. PICK t \in Waiting(g) : /\ tag' = [tag EXCEPT ![t] = Nobody]
                                /\ cell' = [cell EXCEPT ![p] = t]
    BY DEF Take
  <1>2. t \in ht /\ t \in Cells /\ epc[p] = "out" /\ UNCHANGED <<sem, ht, ft, made>>
    BY <1>0, CallersFinite DEF Take, Waiting, CellInv, Cells
  <1>3. /\ \A x \in Cells : tag'[x] = IF x = t THEN Nobody ELSE tag[x]
        /\ \A x \in Callers : cell'[x] = IF x = p THEN t ELSE cell[x]
        /\ \A x \in Callers : epc'[x] = IF x = p THEN "post" ELSE epc[x]
    BY <1>0, <1>1 DEF Take, CellInv
  <1>4. ASSUME NEW x \in Callers PROVE First(x)' <=> First(x)
    BY <1>2, <1>3 DEF First
  <1>5. CellInv'
    BY <1>0, <1>1, <1>2 DEF Take, CellInv
  <1>6. OwnerInv'
    BY <1>0, <1>2, <1>3 DEF OwnerInv, First
  <1>7. TagInv'
    <2>1. \A x, y \in ht : tag'[x] = tag'[y] /\ tag'[x] # Nobody => x = y
      <3>1. ht \subseteq Cells
        BY <1>0, CallersFinite DEF CellInv, Cells
      <3> QED BY <1>0, <1>3, <3>1 DEF TagInv
    <2>2. \A x \in Callers : epc'[x] = "unlink" => tag'[cell'[x]] = Nobody
      BY <1>0, <1>2, <1>3 DEF OwnerInv, TagInv
    <2>3. ASSUME NEW x \in Callers, epc'[x] = "semop", tag'[cell'[x]] = Nobody
          PROVE  sem[cell'[x]] > 0 \/ \E q \in Callers : epc'[q] = "post" /\ cell'[q] = cell'[x]
      <3>1. x # p /\ epc[x] = "semop" /\ cell'[x] = cell[x] /\ cell[x] \in Cells
        BY <1>0, <1>3, <2>3 DEF OwnerInv
      <3>2. CASE cell[x] = t
        BY <1>3, <3>1, <3>2
      <3>3. CASE cell[x] # t
        <4>1. tag[cell[x]] = Nobody
          BY <1>3, <2>3, <3>1, <3>3
        <4>2. \A q \in Callers : epc[q] = "post" => q # p
          BY <1>2
        <4> QED BY <1>0, <1>3, <3>1, <4>1, <4>2 DEF TagInv
      <3> QED BY <3>2, <3>3
    <2> QED BY <1>2, <2>1, <2>2, <2>3 DEF TagInv
  <1> QED BY <1>5, <1>6, <1>7 DEF ErInv

\* There is a cell for every caller, because each owns one at most.
LEMMA CellLeft ==
  ASSUME ErInv, NEW p \in Callers, epc[p] = "out", ft = <<>>
  PROVE  made + 1 <= Cardinality(Callers) /\ ht = 1 .. made
  <1> DEFINE N == Cardinality(Callers)
             f == [t \in 1 .. N |-> CHOOSE q \in Callers : First(q) /\ cell[q] = t]
  <1>0. CellInv /\ OwnerInv
    BY DEF ErInv
  <1>1. ht = 1 .. made /\ made \in Nat /\ made <= N /\ N \in Nat
    BY <1>0, CallersFinite, EmptyQueue DEF CellInv
  <1>2. ASSUME made = N PROVE FALSE
    <2>1. ASSUME NEW t \in 1 .. N
          PROVE  f[t] \in Callers \ {p} /\ cell[f[t]] = t
      <3>1. \E q \in Callers : First(q) /\ cell[q] = t
        BY <1>0, <1>1, <1>2 DEF OwnerInv
      <3>2. f[t] \in Callers /\ First(f[t]) /\ cell[f[t]] = t
        BY <3>1
      <3> QED BY <3>2 DEF First
    <2> HIDE DEF f
    <2>2. f \in [1 .. N -> Callers \ {p}]
      BY <2>1 DEF f
    <2>3. /\ IsFiniteSet(1 .. N) /\ Cardinality(1 .. N) = N
          /\ IsFiniteSet(Callers \ {p}) /\ Cardinality(Callers \ {p}) = N - 1
      <3>1. 1 \in Int /\ N \in Int
        BY <1>1
      <3>2. IsFiniteSet(1 .. N) /\ Cardinality(1 .. N) = IF 1 > N THEN 0 ELSE N - 1 + 1
        BY <3>1, FS_Interval
      <3>3. IsFiniteSet(Callers \ {p}) /\ Cardinality(Callers \ {p}) = N - 1
        BY CallersFinite, FS_RemoveElement
      <3> QED BY <1>1, <3>2, <3>3
    <2>4. Cardinality(Callers \ {p}) < Cardinality(1 .. N)
      BY <1>1, <2>3
    <2> HIDE DEF N
    <2>5. \E x, y \in 1 .. N : x # y /\ f[x] = f[y]
      BY ONLY <2>2, <2>3, <2>4, FS_PigeonHole
    <2> QED BY <2>1, <2>5
  <1> QED BY <1>1, <1>2

\* The first hangs up a cell.
LEMMA HangInv ==
  ASSUME ErInv, NEW p \in Callers, NEW g \in Callers, Hang(p, g)
  PROVE  /\ ErInv'
         /\ \E t \in Cells \ ht : /\ tag' = [tag EXCEPT ![t] = g]
                                /\ cell' = [cell EXCEPT ![p] = t]
                                /\ epc' = [epc EXCEPT ![p] = "test"]
  <1>0. CellInv /\ OwnerInv /\ TagInv
    BY DEF ErInv
  <1> DEFINE t == IF ft = <<>> THEN made + 1 ELSE Head(ft)
  <1>1. epc[p] = "out" /\ Waiting(g) = {} /\ g # Nobody
    BY CallersFinite DEF Hang
  <1>2. /\ t \in Cells /\ t \notin ht
        /\ ft' \in Seq(Cells) /\ IsInjective(ft')
        /\ made' \in Nat /\ made' <= Cardinality(Callers)
        /\ (ht \cup {t}) \cup ToSet(ft') = 1 .. made' /\ (ht \cup {t}) \cap ToSet(ft') = {}
    <2>1. CASE ft = <<>>
      <3>1. /\ made + 1 <= Cardinality(Callers) /\ ht = 1 .. made /\ made \in Nat
            /\ made' = made + 1 /\ ft' = <<>>
        BY <1>0, <1>1, <2>1, CellLeft DEF Hang, CellInv
      <3>2. /\ made + 1 \in Cells /\ made + 1 \notin ht
            /\ ht \cup {made + 1} = 1 .. (made + 1)
        BY <3>1, CallersFinite DEF Cells
      <3> QED BY <2>1, <3>1, <3>2, EmptyQueue
    <2>2. CASE ft # <<>>
      <3>1. ft' = Tail(ft) /\ made' = made
        BY <2>2 DEF Hang
      <3>2. ft \in Seq(Cells) /\ IsInjective(ft)
        BY <1>0 DEF CellInv
      <3>3. /\ Tail(ft) \in Seq(Cells) /\ Head(ft) \in Cells
            /\ ToSet(ft) = ToSet(Tail(ft)) \cup {Head(ft)}
            /\ IsInjective(Tail(ft)) /\ Head(ft) \notin ToSet(Tail(ft))
        BY <2>2, <3>2, TailQueue
      <3> QED BY <1>0, <2>2, <3>1, <3>3 DEF CellInv
    <2> QED BY <2>1, <2>2
  <1>3. /\ tag' = [tag EXCEPT ![t] = g] /\ sem' = [sem EXCEPT ![t] = 0]
        /\ ht' = ht \cup {t} /\ cell' = [cell EXCEPT ![p] = t]
        /\ epc' = [epc EXCEPT ![p] = "test"]
    BY DEF Hang
  <1> HIDE DEF t
  <1>4. /\ \A x \in Cells : tag'[x] = IF x = t THEN g ELSE tag[x]
        /\ \A x \in Cells : sem'[x] = IF x = t THEN 0 ELSE sem[x]
        /\ \A x \in Callers : cell'[x] = IF x = p THEN t ELSE cell[x]
        /\ \A x \in Callers : epc'[x] = IF x = p THEN "test" ELSE epc[x]
    BY <1>0, <1>3 DEF CellInv
  <1>5. CellInv'
    BY <1>0, <1>2, <1>3 DEF CellInv, Cells
  <1>6. OwnerInv'
    BY <1>0, <1>1, <1>2, <1>3, <1>4 DEF OwnerInv, First
  <1>7. TagInv'
    <2>1. \A x, y \in ht' : tag'[x] = tag'[y] /\ tag'[x] # Nobody => x = y
      <3>1. ht \subseteq Cells /\ \A x \in ht : tag[x] # g
        BY <1>0, <1>1, CallersFinite DEF CellInv, Cells, Waiting
      <3> QED BY <1>0, <1>2, <1>3, <1>4, <3>1 DEF TagInv
    <2>2. \A x \in Callers : x # p /\ First(x) => cell[x] \in Cells \ {t}
      BY <1>0, <1>2 DEF OwnerInv, First
    <2>3. \A x \in Callers : epc'[x] = "unlink" => tag'[cell'[x]] = Nobody
      BY <1>0, <1>4, <2>2 DEF TagInv, First
    <2>4. ASSUME NEW x \in Callers, epc'[x] = "semop", tag'[cell'[x]] = Nobody
          PROVE  sem'[cell'[x]] > 0 \/ \E q \in Callers : epc'[q] = "post" /\ cell'[q] = cell'[x]
      <3>1. x # p /\ epc[x] = "semop" /\ cell'[x] = cell[x] /\ cell[x] \in Cells \ {t}
        BY <1>4, <2>2, <2>4 DEF First
      <3>2. tag[cell[x]] = Nobody /\ sem'[cell[x]] = sem[cell[x]]
        BY <1>4, <2>4, <3>1
      <3>3. \A q \in Callers : epc[q] = "post" => q # p
        BY <1>1
      <3> QED BY <1>0, <1>4, <3>1, <3>2, <3>3 DEF TagInv
    <2> QED BY <2>1, <2>3, <2>4 DEF TagInv
  <1>8. ErInv'
    BY <1>5, <1>6, <1>7 DEF ErInv
  <1> QED BY <1>2, <1>3, <1>8

\* The first looks at the tag, and waits for the semaphore.
LEMMA WaitInv ==
  ASSUME ErInv, NEW p \in Callers, Test(p) \/ Semop(p)
  PROVE  ErInv'
  <1>0. CellInv /\ OwnerInv /\ TagInv
    BY DEF ErInv
  <1>1. CASE Test(p)
    <2>1. /\ epc[p] = "test" /\ UNCHANGED <<tag, sem, ht, ft, made, cell>>
          /\ epc' = [epc EXCEPT ![p] = IF tag[cell[p]] = Nobody THEN "unlink" ELSE "semop"]
      BY <1>1 DEF Test
    <2>2. \A x \in Callers : epc'[x] = IF x = p THEN IF tag[cell[p]] = Nobody THEN "unlink" ELSE "semop"
                                             ELSE epc[x]
      BY <1>0, <2>1 DEF CellInv
    <2>3. CellInv'
      BY <1>0, <2>1 DEF CellInv
    <2>4. OwnerInv'
      BY <1>0, <2>1, <2>2 DEF OwnerInv, First
    <2>5. TagInv'
      BY <1>0, <2>1, <2>2 DEF TagInv
    <2> QED BY <2>3, <2>4, <2>5 DEF ErInv
  <1>2. CASE Semop(p)
    <2>1. /\ epc[p] = "semop" /\ sem[cell[p]] > 0 /\ UNCHANGED <<tag, ht, ft, made, cell>>
          /\ sem' = [sem EXCEPT ![cell[p]] = sem[cell[p]] - 1]
          /\ epc' = [epc EXCEPT ![p] = "test"]
      BY <1>2 DEF Semop
    <2>2. cell[p] \in Cells /\ sem[cell[p]] \in Nat
      BY <1>0, <2>1 DEF CellInv, OwnerInv
    <2>3. /\ \A x \in Callers : epc'[x] = IF x = p THEN "test" ELSE epc[x]
          /\ \A x \in Cells : x # cell[p] => sem'[x] = sem[x]
      BY <1>0, <2>1 DEF CellInv
    <2>4. CellInv'
      BY <1>0, <2>1, <2>2 DEF CellInv
    <2>5. OwnerInv'
      BY <1>0, <2>1, <2>3 DEF OwnerInv, First
    <2>6. TagInv'
      <3>1. ASSUME NEW x \in Callers, epc'[x] = "semop", tag[cell[x]] = Nobody
            PROVE  sem'[cell[x]] > 0 \/ \E q \in Callers : epc'[q] = "post" /\ cell[q] = cell[x]
        <4>1. x # p /\ epc[x] = "semop"
          BY <2>3, <3>1
        <4>2. cell[x] \in Cells /\ cell[x] # cell[p]
          BY <1>0, <2>1, <4>1 DEF OwnerInv, First
        <4>3. \A q \in Callers : epc[q] = "post" => epc'[q] = "post"
          BY <2>1, <2>3
        <4> QED BY <1>0, <2>3, <3>1, <4>1, <4>2, <4>3 DEF TagInv
      <3>2. \A x \in Callers : epc'[x] = "unlink" => tag[cell[x]] = Nobody
        BY <1>0, <2>3 DEF TagInv
      <3> QED BY <1>0, <2>1, <3>1, <3>2 DEF TagInv
    <2> QED BY <2>4, <2>5, <2>6 DEF ErInv
  <1> QED BY <1>1, <1>2

\* The second raises the semaphore, and returns.
LEMMA PostInv ==
  ASSUME ErInv, NEW p \in Callers, Post(p)
  PROVE  ErInv'
  <1>0. CellInv /\ OwnerInv /\ TagInv
    BY DEF ErInv
  <1>1. /\ epc[p] = "post" /\ UNCHANGED <<tag, ht, ft, made>>
        /\ sem' = [sem EXCEPT ![cell[p]] = sem[cell[p]] + 1]
        /\ cell' = [cell EXCEPT ![p] = Nobody]
        /\ epc' = [epc EXCEPT ![p] = "out"]
    BY DEF Post
  <1>2. cell[p] \in Cells /\ sem[cell[p]] \in Nat
    BY <1>0, <1>1 DEF CellInv, OwnerInv
  <1>3. /\ \A x \in Cells : sem'[x] = IF x = cell[p] THEN sem[x] + 1 ELSE sem[x]
        /\ \A x \in Callers : cell'[x] = IF x = p THEN Nobody ELSE cell[x]
        /\ \A x \in Callers : epc'[x] = IF x = p THEN "out" ELSE epc[x]
    BY <1>0, <1>1 DEF CellInv
  <1>4. CellInv'
    BY <1>0, <1>1, <1>2 DEF CellInv
  <1>5. OwnerInv'
    BY <1>0, <1>1, <1>3 DEF OwnerInv, First
  <1>6. TagInv'
    <2>1. ASSUME NEW x \in Callers, epc'[x] = "semop", tag[cell'[x]] = Nobody
          PROVE  sem'[cell'[x]] > 0 \/ \E q \in Callers : epc'[q] = "post" /\ cell'[q] = cell'[x]
      <3>1. x # p /\ epc[x] = "semop" /\ cell'[x] = cell[x] /\ cell[x] \in Cells
        BY <1>0, <1>3, <2>1 DEF OwnerInv
      <3>2. CASE cell[x] = cell[p]
        <4>1. sem'[cell[x]] = sem[cell[p]] + 1
          BY <1>3, <3>1, <3>2
        <4> QED BY <1>2, <3>1, <4>1
      <3>3. CASE cell[x] # cell[p]
        <4>1. sem'[cell[x]] = sem[cell[x]]
          BY <1>3, <3>1, <3>3
        <4>2. \A q \in Callers : epc[q] = "post" /\ cell[q] = cell[x] => epc'[q] = "post" /\ cell'[q] = cell[x]
          BY <1>3, <3>3
        <4> QED BY <1>0, <2>1, <3>1, <4>1, <4>2 DEF TagInv
      <3> QED BY <3>2, <3>3
    <2>2. \A x \in Callers : epc'[x] = "unlink" => tag[cell'[x]] = Nobody
      BY <1>0, <1>3 DEF TagInv
    <2> QED BY <1>0, <1>1, <2>1, <2>2 DEF TagInv
  <1> QED BY <1>4, <1>5, <1>6 DEF ErInv

\* The first frees its cell, and returns.
LEMMA UnlinkInv ==
  ASSUME ErInv, NEW p \in Callers, Unlink(p)
  PROVE  ErInv'
  <1>0. CellInv /\ OwnerInv /\ TagInv
    BY DEF ErInv
  <1>1. /\ epc[p] = "unlink" /\ UNCHANGED <<tag, sem, made>>
        /\ ht' = ht \ {cell[p]} /\ ft' = <<cell[p]>> \o ft
        /\ cell' = [cell EXCEPT ![p] = Nobody]
        /\ epc' = [epc EXCEPT ![p] = "out"]
    BY DEF Unlink
  <1>2. First(p) /\ cell[p] \in ht /\ cell[p] \in Cells
    BY <1>0, <1>1 DEF OwnerInv, First
  <1>3. /\ \A x \in Callers : cell'[x] = IF x = p THEN Nobody ELSE cell[x]
        /\ \A x \in Callers : epc'[x] = IF x = p THEN "out" ELSE epc[x]
    BY <1>0, <1>1 DEF CellInv
  <1>4. CellInv'
    <2>1. ft \in Seq(Cells) /\ IsInjective(ft) /\ cell[p] \notin ToSet(ft)
      BY <1>0, <1>2 DEF CellInv
    <2>2. /\ ft' \in Seq(Cells) /\ IsInjective(ft')
          /\ ToSet(ft') = ToSet(ft) \cup {cell[p]}
      BY <1>1, <1>2, <2>1, PushQueue
    <2>3. /\ cell' \in [Callers -> Cells \cup {Nobody}]
          /\ epc' \in [Callers -> {"out", "test", "semop", "unlink", "post"}]
      BY <1>0, <1>1 DEF CellInv
    <2>4. ht' \cup ToSet(ft') = 1 .. made /\ ht' \cap ToSet(ft') = {}
      <3>1. ht \cup ToSet(ft) = 1 .. made /\ ht \cap ToSet(ft) = {}
        BY <1>0 DEF CellInv
      <3> QED BY <1>1, <1>2, <2>1, <2>2, <3>1
    <2>5. /\ tag \in [Cells -> Callers \cup {Nobody}] /\ sem \in [Cells -> Nat]
          /\ made \in Nat /\ made <= Cardinality(Callers)
      BY <1>0 DEF CellInv
    <2> QED BY <1>1, <2>2, <2>3, <2>4, <2>5 DEF CellInv
  <1>5. OwnerInv'
    <2>1. ASSUME NEW x \in Callers PROVE First(x)' <=> First(x) /\ x # p
      BY <1>3 DEF First
    <2>2. \A x \in Callers : First(x) /\ cell[x] = cell[p] => x = p
      BY <1>0, <1>2 DEF OwnerInv
    <2>3. \A x \in Callers : epc'[x] # "out" => cell'[x] \in Cells
      BY <1>0, <1>3 DEF OwnerInv
    <2>4. ASSUME NEW x \in Callers, First(x)' PROVE cell'[x] \in ht'
      BY <1>0, <1>1, <1>3, <2>1, <2>2, <2>4 DEF OwnerInv
    <2>5. ASSUME NEW t \in ht' PROVE \E x \in Callers : First(x)' /\ cell'[x] = t
      <3>1. PICK x \in Callers : First(x) /\ cell[x] = t
        BY <1>0, <1>1 DEF OwnerInv
      <3> QED BY <1>1, <1>3, <2>1, <3>1
    <2>6. ASSUME NEW x \in Callers, NEW y \in Callers, First(x)', First(y)', cell'[x] = cell'[y]
          PROVE  x = y
      BY <1>0, <1>3, <2>1, <2>6 DEF OwnerInv
    <2> QED BY <2>3, <2>4, <2>5, <2>6 DEF OwnerInv
  <1>6. TagInv'
    <2>1. \A x \in Callers : /\ epc'[x] = "unlink" => tag'[cell'[x]] = Nobody
      BY <1>0, <1>1, <1>3 DEF TagInv
    <2>2. ASSUME NEW x \in Callers, epc'[x] = "semop", tag'[cell'[x]] = Nobody
          PROVE  sem'[cell'[x]] > 0 \/ \E q \in Callers : epc'[q] = "post" /\ cell'[q] = cell'[x]
      <3>1. x # p /\ epc[x] = "semop" /\ cell'[x] = cell[x]
        BY <1>3, <2>2
      <3>2. \A q \in Callers : epc[q] = "post" => epc'[q] = "post" /\ cell'[q] = cell[q]
        BY <1>1, <1>3
      <3> QED BY <1>0, <1>1, <2>2, <3>1, <3>2 DEF TagInv
    <2>3. \A x, y \in ht' : tag'[x] = tag'[y] /\ tag'[x] # Nobody => x = y
      BY <1>0, <1>1 DEF TagInv
    <2> QED BY <2>1, <2>2, <2>3 DEF TagInv
  <1> QED BY <1>4, <1>5, <1>6 DEF ErInv

\* The invariant is what the runs check of the cells.
LEMMA ErInvType == ErInv => ErTypeOK
  <1> SUFFICES ASSUME ErInv PROVE ErTypeOK
    OBVIOUS
  <1>0. CellInv /\ OwnerInv /\ TagInv
    BY DEF ErInv
  <1>1. made \in {0} \cup Cells
    BY <1>0, CallersFinite DEF CellInv, Cells
  <1>2. ht = {cell[p] : p \in {q \in Callers : First(q)}}
    BY <1>0 DEF OwnerInv
  <1> QED BY <1>0, <1>1, <1>2 DEF ErTypeOK, CellInv, OwnerInv, TagInv

-----------------------------------------------------------------------------
\* A process that takes the cell of another has met it.
LEMMA TakeMet ==
  ASSUME ErInv, NEW p \in Callers, NEW g \in Callers, Take(p, g)
  PROVE  \E q \in Callers : /\ First(q) /\ tag[cell[q]] = g
                            /\ p \notin Answered /\ q \notin Answered
                            /\ Answered' = Answered \cup {p, q}
                            /\ epc' = [epc EXCEPT ![p] = "post"]
                            /\ \A x \in Callers : First(x) =>
                                 /\ cell'[x] = cell[x]
                                 /\ tag'[cell[x]] \in {tag[cell[x]], Nobody}
  <1>0. CellInv /\ OwnerInv /\ TagInv
    BY DEF ErInv
  <1>1. PICK t \in Waiting(g) : /\ tag' = [tag EXCEPT ![t] = Nobody]
                                /\ cell' = [cell EXCEPT ![p] = t]
    BY DEF Take
  <1>2. t \in ht /\ t \in Cells /\ tag[t] = g /\ epc[p] = "out" /\ epc' = [epc EXCEPT ![p] = "post"]
    BY <1>0, CallersFinite DEF Take, Waiting, CellInv, Cells
  <1>3. /\ \A x \in Cells : tag'[x] = IF x = t THEN Nobody ELSE tag[x]
        /\ \A x \in Callers : cell'[x] = IF x = p THEN t ELSE cell[x]
        /\ \A x \in Callers : epc'[x] = IF x = p THEN "post" ELSE epc[x]
    BY <1>0, <1>1 DEF Take, CellInv
  <1>4. PICK q \in Callers : First(q) /\ cell[q] = t
    BY <1>0, <1>2 DEF OwnerInv
  <1>5. q # p /\ epc[q] # "out" /\ epc[q] # "post" /\ g # Nobody
    BY <1>2, <1>4, CallersFinite DEF First
  <1>6. p \notin Answered /\ q \notin Answered
    BY <1>2, <1>4, <1>5 DEF Answered, Met
  <1>7. ASSUME NEW x \in Callers PROVE x \in Answered' <=> x \in Answered \cup {p, q}
    <2>1. CASE x = p \/ x = q
      BY <1>2, <1>3, <1>4, <1>5, <2>1 DEF Answered, Met
    <2>2. CASE x # p /\ x # q
      <3>1. epc'[x] = epc[x] /\ cell'[x] = cell[x]
        BY <1>3, <2>2
      <3>2. epc[x] # "out" /\ epc[x] # "post" => tag'[cell[x]] = tag[cell[x]]
        BY <1>0, <1>3, <1>4, <2>2 DEF OwnerInv, CellInv, First
      <3> QED BY <2>2, <3>1, <3>2 DEF Answered, Met
    <2> QED BY <2>1, <2>2
  <1>8. Answered' = Answered \cup {p, q}
    BY <1>7 DEF Answered
  <1>9. ASSUME NEW x \in Callers, First(x)
        PROVE  cell'[x] = cell[x] /\ tag'[cell[x]] \in {tag[cell[x]], Nobody}
    BY <1>0, <1>2, <1>3, <1>9 DEF First, OwnerInv
  <1> QED BY <1>2, <1>4, <1>6, <1>8, <1>9

\* One that hangs its own cell has met nobody yet.
LEMMA HangMet ==
  ASSUME ErInv, NEW p \in Callers, NEW g \in Callers, Hang(p, g)
  PROVE  /\ p \notin Answered /\ Answered' = Answered
         /\ epc' = [epc EXCEPT ![p] = "test"] /\ tag'[cell'[p]] = g
         /\ \A x \in Callers : First(x) => cell'[x] = cell[x] /\ tag'[cell[x]] = tag[cell[x]]
  <1>0. CellInv /\ OwnerInv /\ TagInv
    BY DEF ErInv
  <1>1. PICK t \in Cells \ ht : /\ tag' = [tag EXCEPT ![t] = g]
                                /\ cell' = [cell EXCEPT ![p] = t]
                                /\ epc' = [epc EXCEPT ![p] = "test"]
    BY HangInv
  <1>2. epc[p] = "out" /\ g # Nobody
    BY CallersFinite DEF Hang
  <1>3. /\ \A x \in Cells : tag'[x] = IF x = t THEN g ELSE tag[x]
        /\ \A x \in Callers : cell'[x] = IF x = p THEN t ELSE cell[x]
        /\ \A x \in Callers : epc'[x] = IF x = p THEN "test" ELSE epc[x]
    BY <1>0, <1>1 DEF CellInv
  <1>4. \A x \in Callers : First(x) => cell'[x] = cell[x] /\ tag'[cell[x]] = tag[cell[x]]
    BY <1>0, <1>2, <1>3 DEF First, OwnerInv
  <1>5. tag'[cell'[p]] = g
    BY <1>1, <1>3
  <1>6. ASSUME NEW x \in Callers PROVE x \in Answered' <=> x \in Answered
    <2>1. CASE x = p
      BY <1>2, <1>3, <1>5, <2>1 DEF Answered, Met
    <2>2. CASE x # p
      <3>1. epc'[x] = epc[x] /\ (First(x) => cell'[x] = cell[x] /\ tag'[cell[x]] = tag[cell[x]])
        BY <1>3, <1>4, <2>2
      <3>2. First(x) \/ epc[x] \in {"out", "post"}
        BY <1>0 DEF First, CellInv
      <3> QED BY <3>1, <3>2 DEF Answered, Met, First
    <2> QED BY <2>1, <2>2
  <1>7. p \notin Answered
    BY <1>2 DEF Answered, Met
  <1> QED BY <1>1, <1>4, <1>5, <1>6, <1>7 DEF Answered

\* Waiting on the semaphore of a cell meets nobody.
LEMMA WaitMet ==
  ASSUME ErInv, NEW p \in Callers, Test(p) \/ Semop(p)
  PROVE  /\ Answered' = Answered /\ UNCHANGED <<tag, cell>>
         /\ \A x \in Callers : /\ epc'[x] = "out" <=> epc[x] = "out"
                               /\ epc'[x] = "post" <=> epc[x] = "post"
  <1>1. /\ UNCHANGED <<tag, cell>> /\ epc[p] \in {"test", "semop"}
        /\ \E s \in {"test", "semop", "unlink"} : epc' = [epc EXCEPT ![p] = s]
    BY DEF Test, Semop
  <1>2. \A x \in Callers : (epc'[x] \in {"test", "semop", "unlink"} /\ x = p) \/ epc'[x] = epc[x]
    BY <1>1 DEF ErInv, CellInv
  <1>3. \A x \in Callers : /\ epc'[x] = "out" <=> epc[x] = "out"
                           /\ epc'[x] = "post" <=> epc[x] = "post"
    BY <1>1, <1>2
  <1>4. Answered' = Answered
    BY <1>1, <1>3 DEF Answered, Met
  <1> QED BY <1>1, <1>3, <1>4

\* Only a process that has been met leaves, and it is the only one to leave.
LEMMA LeaveMet ==
  ASSUME ErInv, NEW p \in Callers, Leave(p)
  PROVE  /\ p \in Answered /\ Answered' = Answered \ {p} /\ UNCHANGED tag
         /\ epc' = [epc EXCEPT ![p] = "out"]
         /\ cell' = [cell EXCEPT ![p] = Nobody]
  <1>0. CellInv /\ OwnerInv /\ TagInv
    BY DEF ErInv
  <1>1. /\ UNCHANGED tag /\ epc[p] \in {"post", "unlink"}
        /\ epc' = [epc EXCEPT ![p] = "out"] /\ cell' = [cell EXCEPT ![p] = Nobody]
    BY DEF Leave, Post, Unlink
  <1>2. p \in Answered
    BY <1>0, <1>1 DEF Answered, Met, TagInv
  <1>3. /\ \A x \in Callers : cell'[x] = IF x = p THEN Nobody ELSE cell[x]
        /\ \A x \in Callers : epc'[x] = IF x = p THEN "out" ELSE epc[x]
    BY <1>0, <1>1 DEF CellInv
  <1>4. Answered' = Answered \ {p}
    BY <1>1, <1>3 DEF Answered, Met
  <1> QED BY <1>1, <1>2, <1>4

-----------------------------------------------------------------------------
\* What Rendez sees of a process that is in erendezvous or not.
LEMMA MapDef ==
  ASSUME lk \in [Rendezes -> Procs \cup {None}], lk' \in [Rendezes -> Procs \cup {None}]
  PROVE  /\ pcMap = [p \in Procs |-> IF p \in Answered /\ pc[p] = "meet" THEN "idle"
                                     ELSE IF p \in Answered /\ pc[p] = "rendez" THEN "woken"
                                     ELSE pc[p]]
         /\ argMap = [p \in Procs |-> IF p \in Answered /\ pc[p] = "meet" THEN None ELSE arg[p]]
         /\ tgtMap = [p \in Procs |-> IF p \in Answered /\ pc[p] = "meet" THEN None ELSE tgt[p]]
         /\ lkMap = [r \in Rendezes |-> IF lk[r] \in Answered /\ pc[lk[r]] = "meet" THEN None ELSE lk[r]]
         /\ pcMap' = [p \in Procs |-> IF p \in Answered' /\ pc'[p] = "meet" THEN "idle"
                                     ELSE IF p \in Answered' /\ pc'[p] = "rendez" THEN "woken"
                                     ELSE pc'[p]]
         /\ argMap' = [p \in Procs |-> IF p \in Answered' /\ pc'[p] = "meet" THEN None ELSE arg'[p]]
         /\ tgtMap' = [p \in Procs |-> IF p \in Answered' /\ pc'[p] = "meet" THEN None ELSE tgt'[p]]
         /\ lkMap' = [r \in Rendezes |-> IF lk'[r] \in Answered' /\ pc'[lk'[r]] = "meet" THEN None ELSE lk'[r]]
  <1>1. ASSUME NEW p \in Procs
        PROVE  /\ Done(p) <=> p \in Answered /\ pc[p] = "meet"
               /\ Met(p) <=> p \in Answered
               /\ Done(p)' <=> p \in Answered' /\ pc'[p] = "meet"
               /\ Met(p)' <=> p \in Answered'
    BY CallersAssumption DEF Done, Answered
  <1>2. None \notin Answered /\ None \notin Answered'
    BY CallersAssumption, ProcsAssumption DEF Answered
  <1>3. /\ \A r \in Rendezes : lk[r] # None /\ Done(lk[r]) <=> lk[r] \in Answered /\ pc[lk[r]] = "meet"
    BY <1>1, <1>2
  <1>4. ASSUME NEW r \in Rendezes
        PROVE  lk'[r] # None /\ Done(lk[r])' <=> lk'[r] \in Answered' /\ pc'[lk'[r]] = "meet"
    BY <1>2, CallersAssumption DEF Done, Answered
  <1>5. /\ pcMap = [p \in Procs |-> IF p \in Answered /\ pc[p] = "meet" THEN "idle"
                                     ELSE IF p \in Answered /\ pc[p] = "rendez" THEN "woken"
                                     ELSE pc[p]]
        /\ pcMap' = [p \in Procs |-> IF p \in Answered' /\ pc'[p] = "meet" THEN "idle"
                                     ELSE IF p \in Answered' /\ pc'[p] = "rendez" THEN "woken"
                                     ELSE pc'[p]]
    BY <1>1 DEF pcMap
  <1>6. /\ argMap = [p \in Procs |-> IF p \in Answered /\ pc[p] = "meet" THEN None ELSE arg[p]]
        /\ argMap' = [p \in Procs |-> IF p \in Answered' /\ pc'[p] = "meet" THEN None ELSE arg'[p]]
    BY <1>1 DEF argMap
  <1>7. /\ tgtMap = [p \in Procs |-> IF p \in Answered /\ pc[p] = "meet" THEN None ELSE tgt[p]]
        /\ tgtMap' = [p \in Procs |-> IF p \in Answered' /\ pc'[p] = "meet" THEN None ELSE tgt'[p]]
    BY <1>1 DEF tgtMap
  <1>8. /\ lkMap = [r \in Rendezes |-> IF lk[r] \in Answered /\ pc[lk[r]] = "meet" THEN None ELSE lk[r]]
        /\ lkMap' = [r \in Rendezes |-> IF lk'[r] \in Answered' /\ pc'[lk'[r]] = "meet" THEN None ELSE lk'[r]]
    BY <1>3, <1>4 DEF lkMap
  <1> QED BY <1>5, <1>6, <1>7, <1>8

\* A process that is not in erendezvous is seen where it is.
LEMMA OwnMap ==
  ASSUME CallInv, lk' \in [Rendezes -> Procs \cup {None}], UNCHANGED erVars,
         NEW p \in Procs, epc[p] = "out", NEW c, pc' = [pc EXCEPT ![p] = c]
  PROVE  /\ pcMap[p] = pc[p] /\ argMap[p] = arg[p] /\ tgtMap[p] = tgt[p]
         /\ pcMap' = [pcMap EXCEPT ![p] = c]
         /\ \A q \in Procs : argMap[q] \in {arg[q], None}
         /\ arg' = arg => argMap' = argMap
         /\ \A a : arg' = [arg EXCEPT ![p] = a] => argMap' = [argMap EXCEPT ![p] = a]
         /\ tgt' = tgt => tgtMap' = tgtMap
         /\ \A a : tgt' = [tgt EXCEPT ![p] = a] => tgtMap' = [tgtMap EXCEPT ![p] = a]
         /\ \A r \in Rendezes : lk[r] = None => lkMap[r] = None
         /\ lk' = lk => lkMap' = lkMap
         /\ \A r \in Rendezes : lk' = [lk EXCEPT ![r] = p] => lkMap' = [lkMap EXCEPT ![r] = p]
  <1>1. Answered' = Answered /\ p \notin Answered /\ None \notin Answered
    BY CallersAssumption, ProcsAssumption DEF Answered, Met, erVars
  <1>2. /\ lk \in [Rendezes -> Procs \cup {None}] /\ pc \in [Procs -> PC]
        /\ arg \in [Procs -> Rendezes \cup {None}] /\ tgt \in [Procs -> Users \cup {None}]
    BY DEF CallInv, Procs
  <1> DEFINE Gone(q) == q \in Answered /\ pc[q] = "meet"
  <1>3. /\ pcMap = [q \in Procs |-> IF Gone(q) THEN "idle"
                                     ELSE IF q \in Answered /\ pc[q] = "rendez" THEN "woken"
                                     ELSE pc[q]]
        /\ argMap = [q \in Procs |-> IF Gone(q) THEN None ELSE arg[q]]
        /\ tgtMap = [q \in Procs |-> IF Gone(q) THEN None ELSE tgt[q]]
        /\ lkMap = [r \in Rendezes |-> IF Gone(lk[r]) THEN None ELSE lk[r]]
    BY <1>2, MapDef
  <1>4. \A q : q \in Answered => q \in Procs /\ pc'[q] = pc[q]
    BY <1>1, <1>2, CallersAssumption DEF Answered
  <1>5. /\ pcMap' = [q \in Procs |-> IF Gone(q) THEN "idle"
                                     ELSE IF q \in Answered /\ pc[q] = "rendez" THEN "woken"
                                     ELSE pc'[q]]
        /\ argMap' = [q \in Procs |-> IF Gone(q) THEN None ELSE arg'[q]]
        /\ tgtMap' = [q \in Procs |-> IF Gone(q) THEN None ELSE tgt'[q]]
        /\ lkMap' = [r \in Rendezes |-> IF Gone(lk'[r]) THEN None ELSE lk'[r]]
    BY <1>1, <1>2, <1>4, MapDef
  <1>6. ~Gone(p) /\ ~Gone(None) /\ p \notin Answered
    BY <1>1
  <1> HIDE DEF Gone
  <1>7. /\ pcMap[p] = pc[p] /\ argMap[p] = arg[p] /\ tgtMap[p] = tgt[p]
        /\ \A q \in Procs : argMap[q] \in {arg[q], None}
    BY <1>3, <1>6
  <1>8. pcMap' = [pcMap EXCEPT ![p] = c]
    BY <1>2, <1>3, <1>5, <1>6
  <1>9. /\ arg' = arg => argMap' = argMap
        /\ \A a : arg' = [arg EXCEPT ![p] = a] => argMap' = [argMap EXCEPT ![p] = a]
    BY <1>2, <1>3, <1>5, <1>6
  <1>10. /\ tgt' = tgt => tgtMap' = tgtMap
         /\ \A a : tgt' = [tgt EXCEPT ![p] = a] => tgtMap' = [tgtMap EXCEPT ![p] = a]
    BY <1>2, <1>3, <1>5, <1>6
  <1>11. /\ \A r \in Rendezes : lk[r] = None => lkMap[r] = None
         /\ lk' = lk => lkMap' = lkMap
         /\ \A r \in Rendezes : lk' = [lk EXCEPT ![r] = p] => lkMap' = [lkMap EXCEPT ![r] = p]
    BY <1>2, <1>3, <1>5, <1>6
  <1> QED BY <1>7, <1>8, <1>9, <1>10, <1>11

\* What a process may be about that is not in erendezvous.
LEMMA Where ==
  ASSUME RP!IInv, CallInv, NEW p \in Procs, epc[p] = "out"
  PROVE  /\ pc[p] \in {"sleep", "woken", "host", "leave", "spin"} => p \in Users
         /\ pc[p] \in {"sleep", "woken"} => arg[p] \in Rendezes
         /\ pc[p] = "wakeup" => p \in Wakers /\ arg[p] \in Rendezes
         /\ pc[p] \in {"swiproc", "swilock", "swihost", "kill"} => p \in Killers /\ tgt[p] \in Users
         /\ pc[p] = "swilock" => arg[p] \in Rendezes
  <1>1. pcMap[p] = pc[p] /\ argMap[p] = arg[p] /\ tgtMap[p] = tgt[p]
    BY DEF pcMap, argMap, tgtMap, Done, Met
  <1>2. arg[p] \in Rendezes \cup {None} /\ tgt[p] \in Users \cup {None}
    BY DEF CallInv
  <1>3. p \in Users \/ p \in Wakers \cup Killers
    BY DEF Procs
  <1>4. RP!PlaceInv
    BY DEF RP!IInv
  <1>5. CASE p \in Users
    BY <1>1, <1>2, <1>4, <1>5 DEF RP!PlaceInv, RP!Users, Users, RP!SleepPC, RP!HostPC
  <1>6. CASE p \in Wakers \cup Killers
    BY <1>1, <1>2, <1>4, <1>6 DEF RP!PlaceInv, RP!Others, RP!SleepPC, RP!HostPC, RP!SwiPC
  <1> QED BY <1>3, <1>5, <1>6

\* Such a process may come to lock a Rendez, to meet its sleeper.
LEMMA OwnCall ==
  ASSUME CallInv, UNCHANGED erVars,
         NEW p \in Procs, epc[p] = "out", pc[p] # "meet",
         NEW c \in PC, pc' = [pc EXCEPT ![p] = c],
         arg' \in [Procs -> Rendezes \cup {None}], tgt' \in [Procs -> Users \cup {None}],
         \A q \in Procs : q # p => arg'[q] = arg[q] /\ tgt'[q] = tgt[q],
         \/ c # "meet" /\ lk' = lk
         \/ /\ c = "meet" /\ p \in Wakers \cup Killers /\ tgt'[p] \in Users
            /\ arg'[p] \in Rendezes /\ lk[arg'[p]] = None /\ lk' = [lk EXCEPT ![arg'[p]] = p]
  PROVE  CallInv'
  <1>1. /\ lk' \in [Rendezes -> Wakers \cup Killers \cup {None}]
        /\ pc' \in [Procs -> PC]
        /\ \A q \in Procs : pc'[q] = IF q = p THEN c ELSE pc[q]
    BY DEF CallInv
  <1>2. UNCHANGED <<tag, epc, cell>>
    BY DEF erVars
  <1>3. \A q \in Procs : epc'[q] # "out" => pc'[q] \in {"rendez", "meet"}
    BY <1>1, <1>2 DEF CallInv
  <1>4. ASSUME NEW q \in Procs, First(q)' PROVE tag'[cell'[q]] \in {Arg(q)', Nobody}
    <2>1. First(q) /\ q # p
      BY <1>2, <1>4 DEF First
    <2>2. Arg(q)' = Arg(q)
      BY <1>1, <2>1 DEF Arg
    <2> QED BY <1>2, <2>1, <2>2 DEF CallInv
  <1>5. ASSUME NEW w \in Procs, pc'[w] = "meet"
        PROVE  /\ w \in Wakers \cup Killers /\ tgt'[w] \in Users
               /\ arg'[w] \in Rendezes /\ lk'[arg'[w]] = w
    BY <1>1, <1>5, ProcsAssumption DEF CallInv
  <1>6. ASSUME NEW r \in Rendezes, lk'[r] # None
        PROVE  pc'[lk'[r]] = "meet" /\ arg'[lk'[r]] = r
    <2>1. lk[r] \in Procs \cup {None}
      BY DEF CallInv, Procs
    <2> QED BY <1>1, <1>6, <2>1 DEF CallInv
  <1> QED BY <1>1, <1>3, <1>4, <1>5, <1>6 DEF CallInv

\* Rendez and its instance speak of the same processes.
LEMMA SameProcs == RP!Users = Users /\ RP!Procs = Procs
  BY DEF RP!Users, RP!Procs, Users, Procs

\* What Sleep does by itself it does in Rendez.
LEMMA SleepMap ==
  ASSUME HostInv, UNCHANGED erVars, NEW p \in Procs,
         p \in Users, SleepStep(p) \/ \E r \in Rendezes : SleepStart(p, r)
  PROVE  CallInv' /\ RP!Next
  <1>0. RP!IInv /\ CallInv /\ lk \in [Rendezes -> Procs \cup {None}]
    BY DEF HostInv, CallInv, Procs
  <1>1. ASSUME NEW r \in Rendezes, SleepStart(p, r) PROVE CallInv' /\ RP!Next
    <2>1. /\ pc[p] = "idle" /\ epc[p] = "out" /\ pc' = [pc EXCEPT ![p] = "sleep"]
          /\ "sleep" \in PC /\ UNCHANGED lk
      BY <1>0, <1>1 DEF SleepStart, Goto, PC, CallInv
    <2>2. CallInv'
      <3>1. /\ arg' \in [Procs -> Rendezes \cup {None}] /\ tgt' \in [Procs -> Users \cup {None}]
            /\ \A q \in Procs : q # p => arg'[q] = arg[q] /\ tgt'[q] = tgt[q]
        BY <1>0, <1>1 DEF SleepStart, CallInv
      <3> QED BY <1>0, <2>1, <3>1, OwnCall
    <2>3. RP!SleepStart(p, r)
      <3>1. pcMap[p] = "idle" /\ \A q \in Sleepers : argMap[q] # r
        <4>1. Sleepers \subseteq Procs /\ r # None
          BY ProcsAssumption DEF Procs, Users
        <4> QED BY <1>0, <1>1, <2>1, <4>1, OwnMap DEF SleepStart
      <3>2. /\ pcMap' = [pcMap EXCEPT ![p] = "sleep"] /\ argMap' = [argMap EXCEPT ![p] = r]
            /\ tgtMap' = tgtMap /\ lkMap' = lkMap
        BY <1>0, <1>1, <2>1, OwnMap DEF SleepStart
      <3> QED BY <1>1, <3>1, <3>2 DEF SleepStart, RP!SleepStart, RP!Goto, hostVars, RP!hostVars
    <2>4. RP!Next
      BY <2>3, SameProcs DEF RP!Next
    <2> QED BY <2>2, <2>4
  <1>2. CASE SleepReady(p)
    <2>1. /\ pc[p] = "sleep" /\ epc[p] = "out" /\ pc' = [pc EXCEPT ![p] = "idle"]
          /\ "idle" \in PC /\ UNCHANGED lk
      BY <1>0, <1>2 DEF SleepReady, Goto, PC, CallInv
    <2>2. CallInv'
      <3>1. /\ arg' \in [Procs -> Rendezes \cup {None}] /\ tgt' \in [Procs -> Users \cup {None}]
            /\ \A q \in Procs : q # p => arg'[q] = arg[q] /\ tgt'[q] = tgt[q]
        BY <1>0, <1>2 DEF SleepReady, CallInv
      <3> QED BY <1>0, <2>1, <3>1, OwnCall
    <2>3. RP!SleepReady(p)
      BY <1>0, <1>2, <2>1, OwnMap, Where
         DEF SleepReady, RP!SleepReady, RP!Goto, hostVars, RP!hostVars
    <2>4. RP!Next
      BY <2>3, SameProcs DEF RP!Next, RP!SleepStep
    <2> QED BY <2>2, <2>4
  <1>3. CASE SleepWait(p)
    <2>1. /\ pc[p] = "sleep" /\ epc[p] = "out" /\ pc' = [pc EXCEPT ![p] = "rendez"]
          /\ "rendez" \in PC /\ UNCHANGED lk
      BY <1>0, <1>3 DEF SleepWait, Goto, PC, CallInv
    <2>2. CallInv'
      <3>1. /\ arg' \in [Procs -> Rendezes \cup {None}] /\ tgt' \in [Procs -> Users \cup {None}]
            /\ \A q \in Procs : q # p => arg'[q] = arg[q] /\ tgt'[q] = tgt[q]
        BY <1>0, <1>3 DEF SleepWait, CallInv
      <3> QED BY <1>0, <2>1, <3>1, OwnCall
    <2>3. RP!SleepWait(p)
      BY <1>0, <1>3, <2>1, OwnMap, Where
         DEF SleepWait, RP!SleepWait, RP!Goto, hostVars, RP!hostVars
    <2>4. RP!Next
      BY <2>3, SameProcs DEF RP!Next, RP!SleepStep
    <2> QED BY <2>2, <2>4
  <1>4. CASE SleepReturn(p)
    <2>1. /\ pc[p] = "woken" /\ epc[p] = "out" /\ pc' = [pc EXCEPT ![p] = "idle"]
          /\ "idle" \in PC /\ UNCHANGED lk
      BY <1>0, <1>4 DEF SleepReturn, Goto, PC, CallInv
    <2>2. CallInv'
      <3>1. /\ arg' \in [Procs -> Rendezes \cup {None}] /\ tgt' \in [Procs -> Users \cup {None}]
            /\ \A q \in Procs : q # p => arg'[q] = arg[q] /\ tgt'[q] = tgt[q]
        BY <1>0, <1>4 DEF SleepReturn, CallInv
      <3> QED BY <1>0, <2>1, <3>1, OwnCall
    <2>3. RP!SleepReturn(p)
      BY <1>0, <1>4, <2>1, OwnMap
         DEF SleepReturn, RP!SleepReturn, RP!Goto, hostVars, RP!hostVars
    <2>4. RP!Next
      BY <2>3, SameProcs DEF RP!Next, RP!SleepStep
    <2> QED BY <2>2, <2>4
  <1> QED BY <1>1, <1>2, <1>3, <1>4 DEF SleepStep

\* So do osenter, the call of the host and osleave,
LEMMA HostMap ==
  ASSUME HostInv, UNCHANGED erVars, NEW p \in Procs,
         p \in Users, HostStep(p) \/ OsEnter(p) \/ HostReturn(p)
  PROVE  CallInv' /\ RP!Next
  <1>0. RP!IInv /\ CallInv /\ lk \in [Rendezes -> Procs \cup {None}]
    BY DEF HostInv, CallInv, Procs
  <1>1. CASE OsEnter(p)
    <2>1. /\ pc[p] = "idle" /\ epc[p] = "out" /\ pc' = [pc EXCEPT ![p] = "host"]
          /\ "host" \in PC /\ UNCHANGED lk
      BY <1>0, <1>1 DEF OsEnter, Goto, PC, CallInv, rendezVars
    <2>2. CallInv'
      <3>1. /\ arg' \in [Procs -> Rendezes \cup {None}] /\ tgt' \in [Procs -> Users \cup {None}]
            /\ \A q \in Procs : q # p => arg'[q] = arg[q] /\ tgt'[q] = tgt[q]
        BY <1>0, <1>1 DEF OsEnter, CallInv
      <3> QED BY <1>0, <2>1, <3>1, OwnCall
    <2>3. RP!OsEnter(p)
      BY <1>0, <1>1, <2>1, OwnMap
         DEF OsEnter, RP!OsEnter, RP!Goto, rendezVars, RP!rendezVars
    <2>4. RP!Next
      BY <2>3, SameProcs DEF RP!Next
    <2> QED BY <2>2, <2>4
  <1>2. CASE HostReturn(p)
    <2>1. /\ pc[p] = "host" /\ epc[p] = "out" /\ pc' = [pc EXCEPT ![p] = "leave"]
          /\ "leave" \in PC /\ UNCHANGED lk
      BY <1>0, <1>2 DEF HostReturn, Goto, PC, CallInv, rendezVars
    <2>2. CallInv'
      <3>1. /\ arg' \in [Procs -> Rendezes \cup {None}] /\ tgt' \in [Procs -> Users \cup {None}]
            /\ \A q \in Procs : q # p => arg'[q] = arg[q] /\ tgt'[q] = tgt[q]
        BY <1>0, <1>2 DEF HostReturn, CallInv
      <3> QED BY <1>0, <2>1, <3>1, OwnCall
    <2>3. RP!HostReturn(p)
      BY <1>0, <1>2, <2>1, OwnMap
         DEF HostReturn, RP!HostReturn, RP!Goto, rendezVars, hostVars, RP!rendezVars, RP!hostVars
    <2>4. RP!Next
      BY <2>3, SameProcs DEF RP!Next
    <2> QED BY <2>2, <2>4
  <1>3. CASE OsLeave(p)
    <2>1. /\ pc[p] = "leave" /\ epc[p] = "out" /\ pc' = [pc EXCEPT ![p] = "spin"]
          /\ "spin" \in PC /\ UNCHANGED lk
      BY <1>0, <1>3 DEF OsLeave, Goto, PC, CallInv, rendezVars
    <2>2. CallInv'
      <3>1. /\ arg' \in [Procs -> Rendezes \cup {None}] /\ tgt' \in [Procs -> Users \cup {None}]
            /\ \A q \in Procs : q # p => arg'[q] = arg[q] /\ tgt'[q] = tgt[q]
        BY <1>0, <1>3 DEF OsLeave, CallInv
      <3> QED BY <1>0, <2>1, <3>1, OwnCall
    <2>3. RP!OsLeave(p)
      BY <1>0, <1>3, <2>1, OwnMap
         DEF OsLeave, RP!OsLeave, RP!Goto, rendezVars, RP!rendezVars
    <2>4. RP!Next
      BY <2>3, SameProcs DEF RP!Next, RP!HostStep
    <2> QED BY <2>2, <2>4
  <1>4. CASE OsLeft(p)
    <2>1. /\ pc[p] = "spin" /\ epc[p] = "out" /\ pc' = [pc EXCEPT ![p] = "idle"]
          /\ "idle" \in PC /\ UNCHANGED lk
      BY <1>0, <1>4 DEF OsLeft, Goto, PC, CallInv, rendezVars
    <2>2. CallInv'
      <3>1. /\ arg' \in [Procs -> Rendezes \cup {None}] /\ tgt' \in [Procs -> Users \cup {None}]
            /\ \A q \in Procs : q # p => arg'[q] = arg[q] /\ tgt'[q] = tgt[q]
        BY <1>0, <1>4 DEF OsLeft, CallInv
      <3> QED BY <1>0, <2>1, <3>1, OwnCall
    <2>3. RP!OsLeft(p)
      BY <1>0, <1>4, <2>1, OwnMap
         DEF OsLeft, RP!OsLeft, RP!Goto, rendezVars, RP!rendezVars
    <2>4. RP!Next
      BY <2>3, SameProcs DEF RP!Next, RP!HostStep
    <2> QED BY <2>2, <2>4
  <1> QED BY <1>1, <1>2, <1>3, <1>4 DEF HostStep

\* Wakeup and swiproc when they begin, swiproc when it has sent the signal,
LEMMA BeginMap ==
  ASSUME HostInv, UNCHANGED erVars, NEW p \in Procs,
         \/ \E r \in Rendezes : Event(p, r)
         \/ \E u \in Users : SwiStart(p, u)
         \/ HostIntr(p)
  PROVE  CallInv' /\ RP!Next
  <1>0. RP!IInv /\ CallInv /\ lk \in [Rendezes -> Procs \cup {None}]
    BY DEF HostInv, CallInv, Procs
  <1>1. ASSUME NEW r \in Rendezes, Event(p, r) PROVE CallInv' /\ RP!Next
    <2>1. /\ pc[p] = "idle" /\ epc[p] = "out" /\ pc' = [pc EXCEPT ![p] = "wakeup"]
          /\ "wakeup" \in PC /\ UNCHANGED lk
          /\ p \in Wakers
      BY <1>0, <1>1 DEF Event, Goto, PC, CallInv
    <2>2. CallInv'
      <3>1. /\ arg' \in [Procs -> Rendezes \cup {None}] /\ tgt' \in [Procs -> Users \cup {None}]
            /\ \A q \in Procs : q # p => arg'[q] = arg[q] /\ tgt'[q] = tgt[q]
        BY <1>0, <1>1 DEF Event, CallInv
      <3> QED BY <1>0, <2>1, <3>1, OwnCall
    <2>3. RP!Event(p, r)
      BY <1>0, <1>1, <2>1, OwnMap
         DEF Event, RP!Event, RP!Goto, hostVars, RP!hostVars
    <2>4. RP!Next
      BY <2>1, <2>3, SameProcs DEF RP!Next
    <2> QED BY <2>2, <2>4
  <1>2. ASSUME NEW u \in Users, SwiStart(p, u) PROVE CallInv' /\ RP!Next
    <2>1. /\ pc[p] = "idle" /\ epc[p] = "out" /\ pc' = [pc EXCEPT ![p] = "swiproc"]
          /\ "swiproc" \in PC /\ UNCHANGED lk
          /\ p \in Killers
      BY <1>0, <1>2 DEF SwiStart, Goto, PC, CallInv, rendezVars
    <2>2. CallInv'
      <3>1. /\ arg' \in [Procs -> Rendezes \cup {None}] /\ tgt' \in [Procs -> Users \cup {None}]
            /\ \A q \in Procs : q # p => arg'[q] = arg[q] /\ tgt'[q] = tgt[q]
        BY <1>0, <1>2 DEF SwiStart, CallInv
      <3> QED BY <1>0, <2>1, <3>1, OwnCall
    <2>3. RP!SwiStart(p, u)
      BY <1>0, <1>2, <2>1, OwnMap
         DEF SwiStart, RP!SwiStart, RP!Goto, rendezVars, hostVars, RP!rendezVars, RP!hostVars
    <2>4. RP!Next
      BY <2>1, <2>3, SameProcs DEF RP!Next
    <2> QED BY <2>2, <2>4
  <1>3. CASE HostIntr(p)
    <2>1. /\ pc[p] = "kill" /\ epc[p] = "out" /\ pc' = [pc EXCEPT ![p] = "idle"]
          /\ "idle" \in PC /\ UNCHANGED lk
          /\ p \in Killers
      BY <1>0, <1>3, Where DEF HostIntr, Goto, PC, CallInv, rendezVars
    <2>2. CallInv'
      <3>1. /\ arg' \in [Procs -> Rendezes \cup {None}] /\ tgt' \in [Procs -> Users \cup {None}]
            /\ \A q \in Procs : q # p => arg'[q] = arg[q] /\ tgt'[q] = tgt[q]
        BY <1>0, <1>3 DEF HostIntr, CallInv
      <3> QED BY <1>0, <2>1, <3>1, OwnCall
    <2>3. RP!HostIntr(p)
      BY <1>0, <1>3, <2>1, OwnMap, Where
         DEF HostIntr, RP!HostIntr, RP!Goto, rendezVars, RP!rendezVars
    <2>4. RP!Next
      BY <2>1, <2>3, SameProcs DEF RP!Next, RP!SwiStep
    <2> QED BY <2>2, <2>4
  <1> QED BY <1>1, <1>2, <1>3

\* Wakeup when it takes the sleeper or finds none,
LEMMA WakeupMap ==
  ASSUME HostInv, UNCHANGED erVars, NEW p \in Procs, Wakeup(p)
  PROVE  CallInv' /\ RP!Next
  <1>0. RP!IInv /\ CallInv /\ lk \in [Rendezes -> Procs \cup {None}]
    BY DEF HostInv, CallInv, Procs
  <1>1. /\ pc[p] = "wakeup" /\ epc[p] = "out" /\ p \in Wakers /\ arg[p] \in Rendezes
        /\ lk[arg[p]] = None /\ {"idle", "meet"} \subseteq PC
    BY <1>0, Where DEF Wakeup, CallInv, PC
  <1>2. CASE rp[arg[p]] = None
    <2>1. /\ pc' = [pc EXCEPT ![p] = "idle"] /\ arg' = [arg EXCEPT ![p] = None]
          /\ UNCHANGED <<rp, lk, pr, tgt, cond, swipend, hostVars>>
      BY <1>2 DEF Wakeup, Goto
    <2>2. CallInv'
      <3>1. /\ arg' \in [Procs -> Rendezes \cup {None}] /\ tgt' \in [Procs -> Users \cup {None}]
            /\ \A q \in Procs : q # p => arg'[q] = arg[q] /\ tgt'[q] = tgt[q]
        BY <1>0, <2>1 DEF CallInv
      <3> QED BY <1>0, <1>1, <2>1, <3>1, OwnCall
    <2>3. /\ pcMap[p] = "wakeup" /\ argMap[p] = arg[p] /\ lkMap[arg[p]] = None
          /\ pcMap' = [pcMap EXCEPT ![p] = "idle"] /\ argMap' = [argMap EXCEPT ![p] = None]
          /\ UNCHANGED <<lkMap, tgtMap>>
      BY <1>0, <1>1, <2>1, OwnMap
    <2>4. RP!Wakeup(p)
      BY <1>2, <2>1, <2>3 DEF RP!Wakeup, RP!Goto, hostVars, RP!hostVars
    <2> QED BY <1>1, <2>2, <2>4 DEF RP!Next, RP!WakeStep
  <1>3. CASE rp[arg[p]] # None
    <2>1. /\ rp' = [rp EXCEPT ![arg[p]] = None] /\ pr' = [pr EXCEPT ![rp[arg[p]]] = None]
          /\ lk' = [lk EXCEPT ![arg[p]] = p] /\ tgt' = [tgt EXCEPT ![p] = rp[arg[p]]]
          /\ pc' = [pc EXCEPT ![p] = "meet"]
          /\ UNCHANGED <<arg, cond, swipend, hostVars>>
      BY <1>3 DEF Wakeup, Goto
    <2>2. rp[arg[p]] \in Users
      BY <1>0, <1>1, <1>3, SameProcs DEF RP!IInv, RP!TypeOK, Users
    <2>3. lk' \in [Rendezes -> Procs \cup {None}]
      BY <1>0, <2>1
    <2>4. CallInv'
      <3>1. /\ arg' \in [Procs -> Rendezes \cup {None}] /\ tgt' \in [Procs -> Users \cup {None}]
            /\ tgt'[p] \in Users
            /\ \A q \in Procs : q # p => arg'[q] = arg[q] /\ tgt'[q] = tgt[q]
        BY <1>0, <2>1, <2>2 DEF CallInv
      <3> QED BY <1>0, <1>1, <2>1, <3>1, OwnCall
    <2>5. /\ pcMap[p] = "wakeup" /\ argMap[p] = arg[p] /\ lkMap[arg[p]] = None
          /\ pcMap' = [pcMap EXCEPT ![p] = "meet"] /\ argMap' = argMap
          /\ tgtMap' = [tgtMap EXCEPT ![p] = rp[arg[p]]]
          /\ lkMap' = [lkMap EXCEPT ![arg[p]] = p]
      BY <1>0, <1>1, <2>1, <2>3, OwnMap
    <2>6. RP!Wakeup(p)
      BY <1>3, <2>1, <2>5 DEF RP!Wakeup, RP!Goto, hostVars, RP!hostVars
    <2> QED BY <1>1, <2>4, <2>6 DEF RP!Next, RP!WakeStep
  <1> QED BY <1>2, <1>3

\* swiproc when it reads Proc.r,
LEMMA SwiReadMap ==
  ASSUME HostInv, UNCHANGED erVars, NEW p \in Procs, SwiRead(p)
  PROVE  CallInv' /\ RP!Next
  <1>0. RP!IInv /\ CallInv /\ lk \in [Rendezes -> Procs \cup {None}]
    BY DEF HostInv, CallInv, Procs
  <1> DEFINE c == IF pr[tgt[p]] = None THEN "swihost" ELSE "swilock"
  <1>1. /\ pc[p] = "swiproc" /\ epc[p] = "out" /\ p \in Killers /\ tgt[p] \in Users
        /\ pr[tgt[p]] \in Rendezes \cup {None} /\ c \in PC /\ c # "meet"
    BY <1>0, Where, SameProcs DEF SwiRead, CallInv, PC, RP!IInv, RP!TypeOK
  <1>2. /\ pc' = [pc EXCEPT ![p] = c] /\ arg' = [arg EXCEPT ![p] = pr[tgt[p]]]
        /\ UNCHANGED <<rendezVars, swipend, tgt, hostVars>>
    BY DEF SwiRead, Goto
  <1> HIDE DEF c
  <1>3. CallInv'
    <2>1. /\ arg' \in [Procs -> Rendezes \cup {None}] /\ tgt' \in [Procs -> Users \cup {None}]
          /\ \A q \in Procs : q # p => arg'[q] = arg[q] /\ tgt'[q] = tgt[q]
      BY <1>0, <1>1, <1>2 DEF CallInv
    <2> QED BY <1>0, <1>1, <1>2, <2>1, OwnCall DEF rendezVars
  <1>4. /\ pcMap[p] = "swiproc" /\ tgtMap[p] = tgt[p]
        /\ pcMap' = [pcMap EXCEPT ![p] = c] /\ argMap' = [argMap EXCEPT ![p] = pr[tgt[p]]]
        /\ UNCHANGED <<lkMap, tgtMap>>
    BY <1>0, <1>1, <1>2, OwnMap DEF rendezVars
  <1>5. RP!SwiRead(p)
    BY <1>2, <1>4 DEF RP!SwiRead, RP!Goto, rendezVars, RP!rendezVars, hostVars, RP!hostVars, c
  <1> QED BY <1>1, <1>3, <1>5 DEF RP!Next, RP!SwiStep

\* swiproc when it takes the sleeper or is too late,
LEMMA SwiLockMap ==
  ASSUME HostInv, UNCHANGED erVars, NEW p \in Procs, SwiLock(p)
  PROVE  CallInv' /\ RP!Next
  <1>0. RP!IInv /\ CallInv /\ lk \in [Rendezes -> Procs \cup {None}]
    BY DEF HostInv, CallInv, Procs
  <1>1. /\ pc[p] = "swilock" /\ epc[p] = "out" /\ p \in Killers /\ arg[p] \in Rendezes
        /\ tgt[p] \in Users /\ lk[arg[p]] = None /\ {"idle", "meet"} \subseteq PC
    BY <1>0, Where DEF SwiLock, CallInv, PC
  <1>2. CASE pr[tgt[p]] = arg[p]
    <2>1. /\ swipend' = [swipend EXCEPT ![tgt[p]] = TRUE] /\ rp' = [rp EXCEPT ![arg[p]] = None]
          /\ pr' = [pr EXCEPT ![tgt[p]] = None] /\ lk' = [lk EXCEPT ![arg[p]] = p]
          /\ pc' = [pc EXCEPT ![p] = "meet"]
          /\ UNCHANGED <<arg, tgt, cond, hostVars>>
      BY <1>2 DEF SwiLock, Goto
    <2>2. lk' \in [Rendezes -> Procs \cup {None}]
      BY <1>0, <2>1
    <2>3. CallInv'
      <3>1. /\ arg' \in [Procs -> Rendezes \cup {None}] /\ tgt' \in [Procs -> Users \cup {None}]
            /\ arg' = arg /\ tgt' = tgt
        BY <1>0, <2>1 DEF CallInv
      <3> QED BY <1>0, <1>1, <2>1, <3>1, OwnCall
    <2>4. /\ pcMap[p] = "swilock" /\ argMap[p] = arg[p] /\ tgtMap[p] = tgt[p] /\ lkMap[arg[p]] = None
          /\ pcMap' = [pcMap EXCEPT ![p] = "meet"] /\ argMap' = argMap /\ tgtMap' = tgtMap
          /\ lkMap' = [lkMap EXCEPT ![arg[p]] = p]
      BY <1>0, <1>1, <2>1, <2>2, OwnMap
    <2>5. RP!SwiLock(p)
      BY <1>2, <2>1, <2>4 DEF RP!SwiLock, RP!Goto, hostVars, RP!hostVars
    <2> QED BY <1>1, <2>3, <2>5 DEF RP!Next, RP!SwiStep
  <1>3. CASE pr[tgt[p]] # arg[p]
    <2>1. /\ pc' = [pc EXCEPT ![p] = "idle"] /\ arg' = [arg EXCEPT ![p] = None]
          /\ tgt' = [tgt EXCEPT ![p] = None]
          /\ UNCHANGED <<rp, lk, pr, cond, swipend, hostVars>>
      BY <1>3 DEF SwiLock, Goto
    <2>2. CallInv'
      <3>1. /\ arg' \in [Procs -> Rendezes \cup {None}] /\ tgt' \in [Procs -> Users \cup {None}]
            /\ \A q \in Procs : q # p => arg'[q] = arg[q] /\ tgt'[q] = tgt[q]
        BY <1>0, <2>1 DEF CallInv
      <3> QED BY <1>0, <1>1, <2>1, <3>1, OwnCall
    <2>3. /\ pcMap[p] = "swilock" /\ argMap[p] = arg[p] /\ tgtMap[p] = tgt[p] /\ lkMap[arg[p]] = None
          /\ pcMap' = [pcMap EXCEPT ![p] = "idle"] /\ argMap' = [argMap EXCEPT ![p] = None]
          /\ tgtMap' = [tgtMap EXCEPT ![p] = None] /\ lkMap' = lkMap
      BY <1>0, <1>1, <2>1, OwnMap
    <2>4. RP!SwiLock(p)
      BY <1>3, <2>1, <2>3 DEF RP!SwiLock, RP!Goto, hostVars, RP!hostVars
    <2> QED BY <1>1, <2>2, <2>4 DEF RP!Next, RP!SwiStep
  <1> QED BY <1>2, <1>3

\* swiproc when it looks whether the process is in a call of the host,
LEMMA SwiHostMap ==
  ASSUME HostInv, UNCHANGED erVars, NEW p \in Procs, SwiHost(p)
  PROVE  CallInv' /\ RP!Next
  <1>0. RP!IInv /\ CallInv /\ lk \in [Rendezes -> Procs \cup {None}]
    BY DEF HostInv, CallInv, Procs
  <1>1. /\ pc[p] = "swihost" /\ epc[p] = "out" /\ p \in Killers /\ {"idle", "kill"} \subseteq PC
    BY <1>0, Where DEF SwiHost, CallInv, PC
  <1>2. CASE syscall[tgt[p]] /\ ~intwait[tgt[p]]
    <2>1. /\ intwait' = [intwait EXCEPT ![tgt[p]] = TRUE] /\ swipend' = [swipend EXCEPT ![tgt[p]] = TRUE]
          /\ pc' = [pc EXCEPT ![p] = "kill"]
          /\ UNCHANGED <<tgt, rp, lk, cond, pr, arg, syscall, sig, eintr>>
      BY <1>2 DEF SwiHost, Goto, rendezVars
    <2>2. CallInv'
      <3>1. /\ arg' \in [Procs -> Rendezes \cup {None}] /\ tgt' \in [Procs -> Users \cup {None}]
            /\ arg' = arg /\ tgt' = tgt
        BY <1>0, <2>1 DEF CallInv
      <3> QED BY <1>0, <1>1, <2>1, <3>1, OwnCall
    <2>3. /\ pcMap[p] = "swihost" /\ tgtMap[p] = tgt[p]
          /\ pcMap' = [pcMap EXCEPT ![p] = "kill"] /\ UNCHANGED <<argMap, tgtMap, lkMap>>
      BY <1>0, <1>1, <2>1, OwnMap
    <2>4. RP!SwiHost(p)
      BY <1>2, <2>1, <2>3 DEF RP!SwiHost, RP!Goto, RP!rendezVars
    <2> QED BY <1>1, <2>2, <2>4 DEF RP!Next, RP!SwiStep
  <1>3. CASE ~(syscall[tgt[p]] /\ ~intwait[tgt[p]])
    <2>1. /\ tgt' = [tgt EXCEPT ![p] = None] /\ pc' = [pc EXCEPT ![p] = "idle"]
          /\ UNCHANGED <<intwait, swipend, rp, lk, cond, pr, arg, syscall, sig, eintr>>
      BY <1>3 DEF SwiHost, Goto, rendezVars
    <2>2. CallInv'
      <3>1. /\ arg' \in [Procs -> Rendezes \cup {None}] /\ tgt' \in [Procs -> Users \cup {None}]
            /\ \A q \in Procs : q # p => arg'[q] = arg[q] /\ tgt'[q] = tgt[q]
        BY <1>0, <2>1 DEF CallInv
      <3> QED BY <1>0, <1>1, <2>1, <3>1, OwnCall
    <2>3. /\ pcMap[p] = "swihost" /\ tgtMap[p] = tgt[p]
          /\ pcMap' = [pcMap EXCEPT ![p] = "idle"] /\ tgtMap' = [tgtMap EXCEPT ![p] = None]
          /\ UNCHANGED <<argMap, lkMap>>
      BY <1>0, <1>1, <2>1, OwnMap
    <2>4. RP!SwiHost(p)
      BY <1>3, <2>1, <2>3 DEF RP!SwiHost, RP!Goto, RP!rendezVars
    <2> QED BY <1>1, <2>2, <2>4 DEF RP!Next, RP!SwiStep
  <1> QED BY <1>2, <1>3

\* What Rendez sees does not change if neither the callers of erendezvous nor
\* those it has answered do.
LEMMA MapKept ==
  ASSUME CallInv, UNCHANGED <<pc, arg, tgt, lk>>, Answered' = Answered
  PROVE  UNCHANGED <<pcMap, argMap, tgtMap, lkMap>>
  <1>1. lk \in [Rendezes -> Procs \cup {None}] /\ lk' = lk
    BY DEF CallInv, Procs
  <1> QED BY <1>1, MapDef

\* and the handler of the signal, which may come at any time.
LEMMA TrapMap ==
  ASSUME HostInv, UNCHANGED erVars, NEW p \in Procs, p \in Users, TrapUSR1(p)
  PROVE  CallInv' /\ RP!Next
  <1>0. RP!IInv /\ CallInv /\ lk \in [Rendezes -> Procs \cup {None}]
    BY DEF HostInv, CallInv, Procs
  <1>1. /\ sig[p] /\ sig' = [sig EXCEPT ![p] = FALSE]
        /\ intwait' = IF p \in Interps THEN [intwait EXCEPT ![p] = FALSE] ELSE intwait
        /\ UNCHANGED <<rp, lk, cond, pr, swipend, arg, tgt, syscall, eintr>>
    BY DEF TrapUSR1, rendezVars
  <1>2. CASE pc[p] = "host" /\ pc' = [pc EXCEPT ![p] = "leave"]
    <2>1. epc[p] = "out" /\ "leave" \in PC
      BY <1>0, <1>2 DEF CallInv, PC
    <2>2. CallInv'
      <3>1. /\ arg' \in [Procs -> Rendezes \cup {None}] /\ tgt' \in [Procs -> Users \cup {None}]
        BY <1>0, <1>1 DEF CallInv
      <3> QED BY <1>0, <1>1, <1>2, <2>1, <3>1, OwnCall
    <2>3. /\ pcMap[p] = "host" /\ pcMap' = [pcMap EXCEPT ![p] = "leave"]
          /\ UNCHANGED <<argMap, tgtMap, lkMap>>
      BY <1>0, <1>1, <1>2, <2>1, OwnMap
    <2>4. RP!TrapUSR1(p)
      BY <1>1, <2>3 DEF RP!TrapUSR1, RP!Goto, RP!rendezVars
    <2> QED BY <2>2, <2>4, SameProcs DEF RP!Next
  <1>3. CASE UNCHANGED pc
    <2>1. Answered' = Answered
      BY DEF Answered, Met, erVars
    <2>2. UNCHANGED <<pcMap, argMap, tgtMap, lkMap>>
      BY <1>0, <1>1, <1>3, <2>1, MapKept
    <2>3. RP!TrapUSR1(p)
      BY <1>1, <2>2 DEF RP!TrapUSR1, RP!rendezVars
    <2>4. CallInv'
      BY <1>0, <1>1, <1>3 DEF CallInv, erVars, First, Arg
    <2> QED BY <2>3, <2>4, SameProcs DEF RP!Next
  <1> QED BY <1>2, <1>3 DEF TrapUSR1, Goto

\* A step that a process takes by itself is a step of Rendez.
LEMMA OwnStep ==
  ASSUME HostInv, UNCHANGED erVars, NEW p \in Procs, Own(p)
  PROVE  CallInv' /\ RP!Next
  <1>1. CASE p \in Users /\ (HostStep(p) \/ OsEnter(p) \/ HostReturn(p) \/ TrapUSR1(p))
    BY <1>1, HostMap, TrapMap
  <1>2. CASE p \in Users /\ SleepStep(p)
    BY <1>2, SleepMap
  <1>3. CASE \E r \in Rendezes : SleepStart(p, r)
    BY <1>3, SleepMap DEF SleepStart, Users
  <1>4. CASE \E r \in Rendezes : Event(p, r)
    BY <1>4, BeginMap
  <1>5. CASE Wakeup(p) \/ SwiRead(p) \/ SwiLock(p) \/ SwiHost(p)
    BY <1>5, WakeupMap, SwiReadMap, SwiLockMap, SwiHostMap
  <1>6. CASE HostIntr(p)
    BY <1>6, BeginMap
  <1>7. CASE \E q \in Users : SwiStart(p, q)
    BY <1>7, BeginMap
  <1> QED BY <1>1, <1>2, <1>3, <1>4, <1>5, <1>6, <1>7 DEF Own

-----------------------------------------------------------------------------
\* When the second takes the first's cell, the two meet in Rendez.
LEMMA MeetStep ==
  ASSUME CallInv, UNCHANGED vars, NEW w \in Procs, NEW v \in Procs,
         pc[w] = "meet", pc[v] = "rendez", tgt[w] = v,
         w \notin Answered, v \notin Answered, Answered' = Answered \cup {w, v}
  PROVE  RP!Next
  <1>1. /\ lk \in [Rendezes -> Procs \cup {None}] /\ pc \in [Procs -> PC]
        /\ arg \in [Procs -> Rendezes \cup {None}] /\ tgt \in [Procs -> Users \cup {None}]
        /\ w \in Wakers \cup Killers /\ arg[w] \in Rendezes /\ lk[arg[w]] = w
        /\ None \notin Procs /\ v # w
    BY CallersAssumption, ProcsAssumption DEF CallInv, Procs
  <1>2. UNCHANGED <<rp, lk, cond, pr, swipend, syscall, intwait, sig, pc, arg, tgt, eintr>>
    BY DEF vars
  <1>3. \A r \in Rendezes : r # arg[w] => lk[r] \notin {w, v}
    BY <1>1 DEF CallInv
  <1>4. /\ pcMap = [p \in Procs |-> IF p \in Answered /\ pc[p] = "meet" THEN "idle"
                                    ELSE IF p \in Answered /\ pc[p] = "rendez" THEN "woken"
                                    ELSE pc[p]]
        /\ argMap = [p \in Procs |-> IF p \in Answered /\ pc[p] = "meet" THEN None ELSE arg[p]]
        /\ tgtMap = [p \in Procs |-> IF p \in Answered /\ pc[p] = "meet" THEN None ELSE tgt[p]]
        /\ lkMap = [r \in Rendezes |-> IF lk[r] \in Answered /\ pc[lk[r]] = "meet" THEN None ELSE lk[r]]
        /\ pcMap' = [p \in Procs |-> IF p \in Answered' /\ pc[p] = "meet" THEN "idle"
                                    ELSE IF p \in Answered' /\ pc[p] = "rendez" THEN "woken"
                                    ELSE pc[p]]
        /\ argMap' = [p \in Procs |-> IF p \in Answered' /\ pc[p] = "meet" THEN None ELSE arg[p]]
        /\ tgtMap' = [p \in Procs |-> IF p \in Answered' /\ pc[p] = "meet" THEN None ELSE tgt[p]]
        /\ lkMap' = [r \in Rendezes |-> IF lk[r] \in Answered' /\ pc[lk[r]] = "meet" THEN None ELSE lk[r]]
    BY <1>1, <1>2, MapDef
  <1>5. /\ pcMap[w] = "meet" /\ pcMap[v] = "rendez" /\ tgtMap[w] = v /\ argMap[w] = arg[w]
    BY <1>4
  <1>6. pcMap' = [pcMap EXCEPT ![w] = "idle", ![v] = "woken"]
    BY <1>1, <1>4
  <1>7. argMap' = [argMap EXCEPT ![w] = None] /\ tgtMap' = [tgtMap EXCEPT ![w] = None]
    BY <1>1, <1>4
  <1>8. lkMap' = [lkMap EXCEPT ![arg[w]] = None]
    BY <1>1, <1>3, <1>4
  <1>9. RP!Meet(w)
    BY <1>2, <1>5, <1>6, <1>7, <1>8 DEF RP!Meet, RP!hostVars
  <1> QED BY <1>1, <1>9 DEF RP!Next, RP!WakeStep, RP!SwiStep

\* Two that want to wake the same sleeper do not find each other.
LEMMA OneWaker ==
  ASSUME HostInv, NEW p \in Procs, NEW q \in Procs, pc[p] = "meet", pc[q] = "meet",
         p \notin Answered, q \notin Answered, tgt[p] = tgt[q]
  PROVE  p = q
  <1>0. CallInv /\ RP!TakenInv
    BY DEF HostInv, RP!IInv
  <1>1. /\ p \in RP!Others /\ q \in RP!Others /\ tgt[p] \in RP!Users
        /\ lk[arg[p]] = p /\ lk[arg[q]] = q
    BY <1>0, SameProcs DEF CallInv, RP!Others
  <1>2. /\ pcMap[p] = "meet" /\ argMap[p] = arg[p] /\ tgtMap[p] = tgt[p]
        /\ pcMap[q] = "meet" /\ argMap[q] = arg[q] /\ tgtMap[q] = tgt[q]
    BY CallersAssumption DEF pcMap, argMap, tgtMap, Done, Answered
  <1>3. argMap[p] = argMap[q]
    BY <1>0, <1>1, <1>2 DEF RP!TakenInv, RP!Meeting
  <1> QED BY <1>1, <1>2, <1>3

\* erendezvous is called, and its caller waits or has met the other.
LEMMA CallStep ==
  ASSUME HostInv, NEW p \in Procs, Call(p)
  PROVE  ErInv' /\ CallInv' /\ [RP!Next]_(RP!vars)
  <1>0. ErInv /\ CallInv /\ p \in Callers
    BY CallersAssumption DEF HostInv
  <1>1. /\ pc[p] \in {"rendez", "meet"} /\ UNCHANGED vars
        /\ UNCHANGED <<pc, arg, tgt, lk>>
        /\ Arg(p) \in Callers /\ Arg(p) # Nobody
    BY <1>0, CallersAssumption, ProcsAssumption DEF Call, vars, Arg, CallInv, Procs
  <1>2. \A x \in Callers : First(x) => tag[cell[x]] \in {Arg(x), Nobody}
    BY <1>0, CallersAssumption DEF CallInv
  <1>3. ASSUME NEW x \in Callers PROVE Arg(x)' = Arg(x)
    BY <1>1 DEF Arg
  <1>4. CASE Hang(p, Arg(p))
    <2>1. /\ p \notin Answered /\ Answered' = Answered
          /\ epc' = [epc EXCEPT ![p] = "test"] /\ tag'[cell'[p]] = Arg(p)
          /\ \A x \in Callers : First(x) => cell'[x] = cell[x] /\ tag'[cell[x]] = tag[cell[x]]
      BY <1>0, <1>1, <1>4, HangMet
    <2>2. ErInv'
      BY <1>0, <1>1, <1>4, HangInv
    <2>3. \A x \in Callers : epc'[x] = IF x = p THEN "test" ELSE epc[x]
      BY <1>0, <2>1 DEF ErInv, CellInv
    <2>4. CallInv'
      <3>1. ASSUME NEW x \in Callers, First(x)' PROVE tag'[cell'[x]] \in {Arg(x)', Nobody}
        <4>1. x # p => First(x)
          BY <2>3, <3>1 DEF First
        <4> QED BY <1>2, <1>3, <2>1, <4>1
      <3>2. \A x \in Procs : epc'[x] # "out" => pc[x] \in {"rendez", "meet"}
        BY <1>0, <1>1, <2>3, CallersAssumption DEF CallInv
      <3> QED BY <1>0, <1>1, <3>1, <3>2, CallersAssumption DEF CallInv
    <2>5. UNCHANGED RP!vars
      BY <1>0, <1>1, <2>1, MapKept DEF vars, RP!vars
    <2> QED BY <2>2, <2>4, <2>5
  <1>5. CASE Take(p, Arg(p))
    <2>1. PICK q \in Callers : /\ First(q) /\ tag[cell[q]] = Arg(p)
                               /\ p \notin Answered /\ q \notin Answered
                               /\ Answered' = Answered \cup {p, q}
                               /\ epc' = [epc EXCEPT ![p] = "post"]
                               /\ \A x \in Callers : First(x) =>
                                    /\ cell'[x] = cell[x]
                                    /\ tag'[cell[x]] \in {tag[cell[x]], Nobody}
      BY <1>0, <1>1, <1>5, TakeMet
    <2>2. ErInv'
      BY <1>0, <1>1, <1>5, TakeInv
    <2>3. \A x \in Callers : epc'[x] = IF x = p THEN "post" ELSE epc[x]
      BY <1>0, <2>1 DEF ErInv, CellInv
    <2>4. CallInv'
      <3>1. ASSUME NEW x \in Callers, First(x)' PROVE tag'[cell'[x]] \in {Arg(x)', Nobody}
        <4>1. First(x)
          BY <2>3, <3>1 DEF First
        <4> QED BY <1>2, <1>3, <2>1, <4>1
      <3>2. \A x \in Procs : epc'[x] # "out" => pc[x] \in {"rendez", "meet"}
        BY <1>0, <1>1, <2>3, CallersAssumption DEF CallInv
      <3> QED BY <1>0, <1>1, <3>1, <3>2, CallersAssumption DEF CallInv
    <2>5. q # p /\ q \in Procs /\ pc[q] \in {"rendez", "meet"} /\ Arg(q) = Arg(p)
      BY <1>0, <1>1, <1>2, <1>5, <2>1, CallersAssumption DEF Take, First, CallInv
    <2>6. CASE pc[p] = "rendez"
      <3>1. pc[q] = "meet" /\ tgt[q] = p
        BY <2>5, <2>6 DEF Arg
      <3>2. Answered' = Answered \cup {q, p}
        BY <2>1
      <3> QED BY <1>0, <1>1, <2>1, <2>2, <2>4, <2>5, <2>6, <3>1, <3>2, MeetStep
    <2>7. CASE pc[p] = "meet"
      <3>1. pc[q] = "rendez"
        <4>1. SUFFICES ASSUME pc[q] = "meet" PROVE FALSE
          BY <2>5
        <4>2. tgt[p] = tgt[q]
          BY <2>5, <2>7, <4>1 DEF Arg
        <4> QED BY <2>1, <2>5, <2>7, <4>1, <4>2, OneWaker
      <3>2. tgt[p] = q
        BY <2>5, <2>7, <3>1 DEF Arg
      <3> QED BY <1>0, <1>1, <2>1, <2>2, <2>4, <2>5, <2>7, <3>1, <3>2, MeetStep
    <2> QED BY <1>1, <2>6, <2>7
  <1> QED BY <1>4, <1>5 DEF Call, Enter

\* Its caller waits.
LEMMA WaitStep ==
  ASSUME HostInv, NEW p \in Procs, Wait(p)
  PROVE  ErInv' /\ CallInv' /\ UNCHANGED RP!vars
  <1>0. ErInv /\ CallInv /\ p \in Callers
    BY CallersAssumption DEF HostInv
  <1>1. /\ Answered' = Answered /\ UNCHANGED <<tag, cell>>
        /\ \A x \in Callers : /\ epc'[x] = "out" <=> epc[x] = "out"
                              /\ epc'[x] = "post" <=> epc[x] = "post"
    BY <1>0, WaitMet DEF Wait
  <1>2. ErInv'
    BY <1>0, WaitInv DEF Wait
  <1>3. UNCHANGED vars /\ UNCHANGED <<pc, arg, tgt, lk>>
    BY DEF Wait, vars
  <1>4. CallInv'
    <2>1. ASSUME NEW x \in Procs, First(x)' PROVE tag'[cell'[x]] \in {Arg(x)', Nobody}
      <3>1. epc[x] \in {"out", "test", "semop", "unlink", "post"}
        BY <1>0, CallersAssumption DEF ErInv, CellInv
      <3>2. First(x)
        BY <1>1, <2>1, <3>1, CallersAssumption DEF First
      <3> QED BY <1>0, <1>1, <1>3, <3>2 DEF CallInv, Arg
    <2>2. \A x \in Procs : epc'[x] # "out" => pc[x] \in {"rendez", "meet"}
      BY <1>0, <1>1, CallersAssumption DEF CallInv
    <2> QED BY <1>0, <1>3, <2>1, <2>2 DEF CallInv
  <1>5. UNCHANGED RP!vars
    BY <1>0, <1>1, <1>3, MapKept DEF vars, RP!vars
  <1> QED BY <1>2, <1>4, <1>5

\* It returns to where its caller seemed to be already.
LEMMA ReturnStep ==
  ASSUME HostInv, NEW p \in Procs, ReturnToSleep(p) \/ ReturnToWaker(p)
  PROVE  ErInv' /\ CallInv' /\ UNCHANGED RP!vars
  <1>0. /\ ErInv /\ CallInv /\ p \in Callers
        /\ lk \in [Rendezes -> Procs \cup {None}] /\ pc \in [Procs -> PC]
        /\ arg \in [Procs -> Rendezes \cup {None}] /\ tgt \in [Procs -> Users \cup {None}]
    BY CallersAssumption DEF HostInv, CallInv, Procs
  <1>1. /\ p \in Answered /\ Answered' = Answered \ {p} /\ UNCHANGED tag
        /\ epc' = [epc EXCEPT ![p] = "out"] /\ cell' = [cell EXCEPT ![p] = Nobody]
    BY <1>0, LeaveMet DEF ReturnToSleep, ReturnToWaker
  <1>2. ErInv'
    BY <1>0, PostInv, UnlinkInv DEF ReturnToSleep, ReturnToWaker, Leave
  <1>3. None \notin Procs /\ None \notin Answered
    BY CallersAssumption, ProcsAssumption DEF Answered
  <1>4. /\ \A x \in Procs : epc'[x] = IF x = p THEN "out" ELSE epc[x]
        /\ \A x \in Procs : x # p => cell'[x] = cell[x]
    BY <1>0, <1>1, CallersAssumption DEF ErInv, CellInv
  <1>5. CASE ReturnToSleep(p)
    <2>1. /\ pc[p] = "rendez" /\ pc' = [pc EXCEPT ![p] = "woken"] /\ "woken" \in PC
          /\ UNCHANGED <<rp, lk, cond, pr, swipend, arg, tgt, syscall, intwait, sig, eintr>>
      BY <1>5 DEF ReturnToSleep, Goto, rendezVars, hostVars, PC
    <2>2. \A x \in Procs : pc'[x] = IF x = p THEN "woken" ELSE pc[x]
      BY <1>0, <2>1
    <2>3. \A r \in Rendezes : lk[r] # p
      BY <1>0, <1>3, <2>1 DEF CallInv
    <2>4. CallInv'
      <3>1. ASSUME NEW x \in Procs, First(x)' PROVE tag'[cell'[x]] \in {Arg(x)', Nobody}
        <4>1. First(x) /\ x # p
          BY <1>4, <3>1 DEF First
        <4> QED BY <1>0, <1>1, <1>4, <2>1, <2>2, <4>1 DEF CallInv, Arg
      <3>2. \A x \in Procs : epc'[x] # "out" => pc'[x] \in {"rendez", "meet"}
        BY <1>0, <1>4, <2>2 DEF CallInv
      <3>3. \A r \in Rendezes : lk[r] # None => pc'[lk[r]] = "meet" /\ arg[lk[r]] = r
        BY <1>0, <2>2, <2>3 DEF CallInv
      <3>4. pc' \in [Procs -> PC] /\ \A x \in Procs : pc'[x] = "meet" => pc[x] = "meet"
        BY <1>0, <2>1, <2>2
      <3> QED BY <1>0, <2>1, <3>1, <3>2, <3>3, <3>4 DEF CallInv
    <2>5. \A r \in Rendezes : lk[r] \in Answered' /\ pc'[lk[r]] = "meet" <=> lk[r] \in Answered /\ pc[lk[r]] = "meet"
      BY <1>0, <1>1, <1>3, <2>2, <2>3
    <2>6. UNCHANGED <<pcMap, argMap, tgtMap, lkMap>>
      BY <1>0, <1>1, <2>1, <2>2, <2>5, MapDef
    <2> QED BY <1>2, <2>1, <2>4, <2>6 DEF RP!vars
  <1>6. CASE ReturnToWaker(p)
    <2>1. /\ pc[p] = "meet" /\ pc' = [pc EXCEPT ![p] = "idle"] /\ "idle" \in PC
          /\ lk' = [lk EXCEPT ![arg[p]] = None] /\ arg' = [arg EXCEPT ![p] = None]
          /\ tgt' = [tgt EXCEPT ![p] = None]
          /\ UNCHANGED <<rp, cond, pr, swipend, syscall, intwait, sig, eintr>>
      BY <1>6 DEF ReturnToWaker, Goto, hostVars, PC
    <2>2. arg[p] \in Rendezes /\ lk[arg[p]] = p /\ \A r \in Rendezes : lk[r] = p => r = arg[p]
      BY <1>0, <1>3, <2>1 DEF CallInv
    <2>3. /\ \A x \in Procs : pc'[x] = IF x = p THEN "idle" ELSE pc[x]
          /\ \A x \in Procs : arg'[x] = IF x = p THEN None ELSE arg[x]
          /\ \A x \in Procs : tgt'[x] = IF x = p THEN None ELSE tgt[x]
          /\ \A r \in Rendezes : lk'[r] = IF r = arg[p] THEN None ELSE lk[r]
      BY <1>0, <2>1
    <2>4. CallInv'
      <3>1. ASSUME NEW x \in Procs, First(x)' PROVE tag'[cell'[x]] \in {Arg(x)', Nobody}
        <4>1. First(x) /\ x # p
          BY <1>4, <3>1 DEF First
        <4> QED BY <1>0, <1>1, <1>4, <2>3, <4>1 DEF CallInv, Arg
      <3>2. \A x \in Procs : epc'[x] # "out" => pc'[x] \in {"rendez", "meet"}
        BY <1>0, <1>4, <2>3 DEF CallInv
      <3>3. \A r \in Rendezes : lk'[r] # None => pc'[lk'[r]] = "meet" /\ arg'[lk'[r]] = r
        BY <1>0, <2>2, <2>3 DEF CallInv
      <3>4. \A x \in Procs : pc'[x] = "meet" =>
              /\ x \in Wakers \cup Killers /\ tgt'[x] \in Users
              /\ arg'[x] \in Rendezes /\ lk'[arg'[x]] = x
        BY <1>0, <2>2, <2>3 DEF CallInv
      <3>5. /\ lk' \in [Rendezes -> Wakers \cup Killers \cup {None}] /\ pc' \in [Procs -> PC]
            /\ arg' \in [Procs -> Rendezes \cup {None}] /\ tgt' \in [Procs -> Users \cup {None}]
        BY <1>0, <2>1 DEF CallInv
      <3> QED BY <3>1, <3>2, <3>3, <3>4, <3>5 DEF CallInv
    <2>5. lk' \in [Rendezes -> Procs \cup {None}]
      BY <1>0, <2>1
    <2>6. UNCHANGED <<pcMap, argMap, tgtMap>>
      BY <1>0, <1>1, <2>1, <2>3, <2>5, MapDef
    <2>7. UNCHANGED lkMap
      <3>1. ASSUME NEW r \in Rendezes
            PROVE  (IF lk'[r] \in Answered' /\ pc'[lk'[r]] = "meet" THEN None ELSE lk'[r])
                     = (IF lk[r] \in Answered /\ pc[lk[r]] = "meet" THEN None ELSE lk[r])
        <4>1. CASE r = arg[p]
          BY <1>1, <2>1, <2>2, <2>3, <4>1
        <4>2. CASE r # arg[p]
          BY <1>0, <1>1, <1>3, <2>2, <2>3, <4>2
        <4> QED BY <4>1, <4>2
      <3> QED BY <1>0, <2>5, <3>1, MapDef
    <2> QED BY <1>2, <2>1, <2>4, <2>6, <2>7 DEF RP!vars
  <1> QED BY <1>5, <1>6

-----------------------------------------------------------------------------
\* Nobody is in erendezvous at first.
LEMMA InitHost == HostInit => HostInv /\ RP!Init
  <1> SUFFICES ASSUME HostInit PROVE HostInv /\ RP!Init
    OBVIOUS
  <1>1. ErInv
    BY InitErInv DEF HostInit
  <1>2. CallInv
    BY CallersAssumption DEF HostInit, Init, ErInit, CallInv, First, PC
  <1>3. \A p \in Procs : ~Met(p) /\ ~Done(p)
    BY CallersAssumption DEF HostInit, ErInit, Met, Done
  <1>4. RP!Init
    <2>1. /\ pcMap = [p \in Procs |-> "idle"] /\ argMap = [p \in Procs |-> None]
          /\ tgtMap = [p \in Procs |-> None]
      BY <1>3 DEF HostInit, Init, pcMap, argMap, tgtMap
    <2>2. lkMap = [r \in Rendezes |-> None]
      BY DEF HostInit, Init, lkMap
    <2> QED BY <2>1, <2>2, SameProcs DEF HostInit, Init, RP!Init
  <1>5. RP!IInv
    BY <1>4, ProcsAssumption, SameProcs, RP!InitIInv DEF RP!ProcsAssumption
  <1> QED BY <1>1, <1>2, <1>4, <1>5 DEF HostInv

\* Every step keeps the invariant, and is a step of Rendez or none.
LEMMA NextHost == HostInv /\ [HostNext]_allVars => HostInv' /\ [RP!Next]_(RP!vars)
  <1> SUFFICES ASSUME HostInv, [HostNext]_allVars PROVE HostInv' /\ [RP!Next]_(RP!vars)
    OBVIOUS
  <1>1. ErInv' /\ CallInv' /\ [RP!Next]_(RP!vars)
    <2>1. CASE UNCHANGED allVars
      <3>1. UNCHANGED vars /\ UNCHANGED <<pc, arg, tgt, lk>> /\ UNCHANGED erVars /\ Answered' = Answered
        BY <2>1 DEF allVars, vars, erVars, Answered, Met
      <3>2. ErInv'
        BY <3>1 DEF HostInv, ErInv, erVars, CellInv, OwnerInv, TagInv, First
      <3>3. CallInv'
        BY <3>1 DEF HostInv, CallInv, erVars, First, Arg
      <3>4. UNCHANGED RP!vars
        BY <3>1, MapKept DEF HostInv, vars, RP!vars
      <3> QED BY <3>2, <3>3, <3>4
    <2>2. ASSUME NEW p \in Procs, Own(p), UNCHANGED erVars
          PROVE  ErInv' /\ CallInv' /\ [RP!Next]_(RP!vars)
      <3>1. ErInv'
        BY <2>2 DEF HostInv, ErInv, erVars, CellInv, OwnerInv, TagInv, First
      <3> QED BY <2>2, <3>1, OwnStep
    <2>3. ASSUME NEW p \in Procs, ErStep(p)
          PROVE  ErInv' /\ CallInv' /\ [RP!Next]_(RP!vars)
      BY <2>3, CallStep, WaitStep, ReturnStep DEF ErStep
    <2> QED BY <2>1, <2>2, <2>3 DEF HostNext
  <1>2. RP!IInv'
    BY <1>1, ProcsAssumption, SameProcs, RP!NextIInv DEF HostInv, RP!ProcsAssumption
  <1> QED BY <1>1, <1>2 DEF HostInv

\* The instance whose theorems are used is the abstract specification.
LEMMA SameSpec == RP!Init /\ [][RP!Next]_(RP!vars) => RendezSpec
  <1>1. RP!Init => R!Init
    BY DEF RP!Init, R!Init, RP!Users, R!Users, RP!Procs, R!Procs
  <1>2. [RP!Next]_(RP!vars) => [R!Next]_(R!vars)
    BY DEF RP!Next, R!Next, RP!Users, R!Users, RP!Procs, R!Procs, RP!vars,
           R!vars, RP!rendezVars, R!rendezVars, RP!hostVars, R!hostVars,
           RP!Goto, R!Goto, RP!SleepStart, R!SleepStart, RP!SleepReady,
           R!SleepReady, RP!SleepWait, R!SleepWait, RP!SleepReturn,
           R!SleepReturn, RP!Event, R!Event, RP!Wakeup, R!Wakeup, RP!Meet,
           R!Meet, RP!SwiStart, R!SwiStart, RP!SwiRead, R!SwiRead, RP!SwiLock,
           R!SwiLock, RP!SwiHost, R!SwiHost, RP!HostIntr, R!HostIntr,
           RP!OsEnter, R!OsEnter, RP!HostReturn, R!HostReturn, RP!OsLeave,
           R!OsLeave, RP!OsLeft, R!OsLeft, RP!TrapUSR1, R!TrapUSR1,
           RP!SleepStep, R!SleepStep, RP!HostStep, R!HostStep, RP!WakeStep,
           R!WakeStep, RP!SwiStep, R!SwiStep
  <1> QED BY <1>1, <1>2, PTL DEF RendezSpec, R!Spec

\* erendezvous never uses a cell twice, nor leaves whom it has met to wait.
THEOREM ErTypeCorrect == HostSpec => []ErTypeOK
  <1>1. HostInv => ErTypeOK
    BY ErInvType DEF HostInv
  <1> QED BY <1>1, InitHost, NextHost, PTL DEF HostSpec

\* Sleep, Wakeup and swiproc over erendezvous implement Rendez.
THEOREM HostImplementsRendez == HostSpec => RendezSpec
  <1>1. HostInit => RP!Init
    BY InitHost
  <1> QED BY <1>1, InitHost, NextHost, SameSpec, PTL DEF HostSpec
=============================================================================
