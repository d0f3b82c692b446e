----------------------------- MODULE PipeProofs -----------------------------
(***************************************************************************)
(* A pipe keeps its types, wakes whoever sleeps at either side of it, and  *)
(* implements Stream, for any number of readers and writers.               *)
(***************************************************************************)
EXTENDS Pipe, QueueProofs, FiniteSetTheorems

-----------------------------------------------------------------------------
(***************************************************************************)
(* The inductive invariant.                                                *)
(***************************************************************************)
Block == {b \in Seq(Byte) : Len(b) <= Chunk}

\* The places of a reader that has q->rlock, of a writer that has q->wlock, and
\* of who has p->l.
RLocked == {"rtest", "rsleep", "rasleep", "rsplit", "rwake", "runlock", "rerror"}
WLocked == {"wtest", "wsleep", "wasleep", "wwake", "wunlock", "werror"}
Closing == {"pend", "pwaker", "pwakew", "pcheck"}

\* The places where a call has not had its outcome, and where it has.
RAsks == {"rlock", "rtest", "rsleep", "rasleep", "rerror", "reof"}
RHas  == {"rsplit", "rwake", "runlock", "done"}
WAsks == {"wlock", "wtest", "wsleep", "wasleep", "werror"}

Rests == {"idle"} \cup Closing

Types ==
  /\ blocks \in Seq(Block)
  /\ len = Bytes(blocks)
  /\ state \subseteq {"Qstarve", "Qclosed", "Qflow"}
  /\ eof \in 0 .. EofMax + 1
  /\ rest \in Block \cup {None}
  /\ wake \in [Users -> BOOLEAN]
  /\ writes \in [Writers -> Nat]

PlaceInv ==
  /\ pc = [p \in Users |-> pc[p]]
  /\ \A r \in Readers : pc[r] \in Rests \cup RAsks \cup RHas
  /\ \A w \in Writers : pc[w] \in Rests \cup WAsks \cup {"wwake", "wunlock", "done"}

CallInv ==
  /\ call = [p \in Users |-> call[p]] /\ res = [p \in Users |-> res[p]]
  /\ \A p \in Users : pc[p] \in Rests => call[p] = None /\ res[p] = None
  /\ \A p \in Users : pc[p] \in RHas => call[p] = None /\ res[p] # None
  /\ \A r \in Readers : pc[r] \in RAsks => call[r] \in Lens /\ res[r] = None
  /\ \A w \in Writers : pc[w] \in WAsks => call[w] \in Seq(Byte) /\ res[w] = None
  /\ \A w \in Writers : pc[w] \in {"wwake", "wunlock"} =>
       \/ call[w] \in Seq(Byte) /\ res[w] = None
       \/ call[w] = None /\ res[w] # None

LockInv ==
  /\ rlock \in Readers \cup {None} /\ wlock \in Writers \cup {None}
  /\ rr \in Readers \cup {None} /\ wr \in Writers \cup {None}
  /\ \A r \in Readers : pc[r] \in RLocked <=> rlock = r
  /\ \A w \in Writers : pc[w] \in WLocked <=> wlock = w
  /\ \A r \in Readers : pc[r] = "rasleep" <=> rr = r
  /\ \A w \in Writers : pc[w] = "wasleep" <=> wr = w
  /\ rest # None <=> \E r \in Readers : pc[r] = "rsplit"

OpenInv ==
  /\ open \subseteq Users /\ IsFiniteSet(open)
  /\ qref \in [0 .. 1 -> Nat]
  /\ pl \in Users \cup {None}
  /\ \A e \in 0 .. 1 : qref[e] = Cardinality({p \in open : End(p) = e})
  /\ \A p \in Users : pc[p] \in Closing <=> pl = p
  /\ \A p \in Users : pc[p] \notin Rests => p \in open
  /\ \A p \in Users : pc[p] = "pend" => qref[End(p)] = 0

ReaderInv ==
  /\ \A r \in Readers : pc[r] = "reof" => Closed /\ blocks = <<>> /\ rest = None
  /\ \A r \in Readers : pc[r] = "rsleep" => NotEmpty \/ "Qstarve" \in state
  /\ ReaderWaits

(***************************************************************************)
(* The writers' side.  A writer that sets Qflow while a reader is about to *)
(* put back the rest of a block, and to wake nobody yet, relies on that    *)
(* rest leaving room: no block may be larger than about half the limit.    *)
(***************************************************************************)
Fits(n) == n <= Limit - Limit \div 2 + 1
Piece(n) == IF n < Chunk THEN n ELSE Chunk

\* Whatever is written at once makes blocks that fit.
BlocksFit == \A n \in Sizes : Fits(Piece(n))

FitBlock == {b \in Block : Fits(Len(b))}

SmallBlocks ==
  /\ blocks \in Seq(FitBlock)
  /\ rest \in FitBlock \cup {None}
  /\ \A w \in Writers : call[w] # None => Fits(Piece(Len(call[w])))

FitInv == BlocksFit => SmallBlocks

\* What will be queued when the reader has put back what it split off.
Total == len + (IF rest = None THEN 0 ELSE Len(rest))

WriterSide ==
  /\ \A w \in Writers : pc[w] = "wsleep" => Closed \/ "Qflow" \in state \/ Total < Limit
  /\ WriterWaits

FlowInv == BlocksFit => WriterSide

IInv == /\ Types /\ PlaceInv /\ CallInv /\ LockInv /\ OpenInv /\ ReaderInv
        /\ FitInv /\ FlowInv

-----------------------------------------------------------------------------
(***************************************************************************)
(* The number of bytes of a queue.                                         *)
(***************************************************************************)
Positions(ss) == UNION {{i} \X DOMAIN ss[i] : i \in DOMAIN ss}

\* A position is the number of a block and the place of a byte in it.
LEMMA Position ==
  ASSUME NEW T, NEW ss \in Seq(Seq(T))
  PROVE  \A x : x \in Positions(ss) <=>
           \E i \in 1 .. Len(ss), j \in Nat : j \in 1 .. Len(ss[i]) /\ x = <<i, j>>
  <1>1. DOMAIN ss = 1 .. Len(ss) /\ \A i \in 1 .. Len(ss) : DOMAIN ss[i] = 1 .. Len(ss[i])
    OBVIOUS
  <1>2. \A i, j : i \in 1 .. Len(ss) /\ j \in 1 .. Len(ss[i]) => j \in Nat
    OBVIOUS
  <1>3. \A x : x \in Positions(ss) <=> \E i \in DOMAIN ss : x \in {i} \X DOMAIN ss[i]
    BY DEF Positions
  <1>4. \A x, i : x \in {i} \X DOMAIN ss[i] <=> \E j \in DOMAIN ss[i] : x = <<i, j>>
    OBVIOUS
  <1>5. ASSUME NEW x, x \in Positions(ss)
        PROVE  \E i \in 1 .. Len(ss), j \in Nat : j \in 1 .. Len(ss[i]) /\ x = <<i, j>>
    <2>1. PICK i \in 1 .. Len(ss) : x \in {i} \X DOMAIN ss[i]
      BY <1>1, <1>3, <1>5
    <2>2. PICK j \in 1 .. Len(ss[i]) : x = <<i, j>>
      BY <1>1, <1>4, <2>1
    <2> QED BY <1>2, <2>2
  <1>6. ASSUME NEW x, NEW i \in 1 .. Len(ss), NEW j \in Nat, j \in 1 .. Len(ss[i]), x = <<i, j>>
        PROVE  x \in Positions(ss)
    BY <1>1, <1>3, <1>4, <1>6
  <1> QED BY <1>5, <1>6

\* There are finitely many of them.
LEMMA PositionsFinite ==
  ASSUME NEW ss \in Seq(Block)
  PROVE  ss \in Seq(Seq(Byte)) /\ IsFiniteSet(Positions(ss)) /\ Bytes(ss) \in Nat
  <1>1. /\ ss \in Seq(Seq(Byte)) /\ Len(ss) \in Nat
        /\ \A i \in 1 .. Len(ss) : ss[i] \in Seq(Byte) /\ Len(ss[i]) <= Chunk
    <2>1. Block \subseteq Seq(Byte)
      BY DEF Block
    <2>2. \A i \in 1 .. Len(ss) : ss[i] \in Block
      OBVIOUS
    <2> QED BY <2>1, <2>2 DEF Block
  <1>2. IsFiniteSet(1 .. Len(ss)) /\ IsFiniteSet(1 .. Chunk)
    BY <1>1, QioAssumption, FS_Interval
  <1>3. IsFiniteSet((1 .. Len(ss)) \X (1 .. Chunk))
    BY <1>2, FS_Product
  <1>4. ASSUME NEW x \in Positions(ss) PROVE x \in (1 .. Len(ss)) \X (1 .. Chunk)
    <2>1. PICK i \in 1 .. Len(ss), j \in Nat : j \in 1 .. Len(ss[i]) /\ x = <<i, j>>
      BY <1>1, Position
    <2>2. Len(ss[i]) \in Nat /\ Len(ss[i]) <= Chunk
      BY <1>1
    <2>3. j \in 1 .. Chunk
      BY <2>1, <2>2, QioAssumption
    <2> QED BY <2>1, <2>3
  <1>5. IsFiniteSet(Positions(ss))
    BY <1>3, <1>4, FS_Subset
  <1> QED BY <1>1, <1>5, FS_CardinalityType DEF Bytes, Positions

\* One block has as many positions as bytes.
LEMMA RowSize ==
  ASSUME NEW i, NEW n \in Nat
  PROVE  IsFiniteSet({i} \X (1 .. n)) /\ Cardinality({i} \X (1 .. n)) = n
  <1>1. IsFiniteSet(1 .. n) /\ Cardinality(1 .. n) = n
    BY FS_Interval
  <1>2. IsFiniteSet({i}) /\ Cardinality({i}) = 1
    BY FS_Singleton
  <1>3. /\ IsFiniteSet({i} \X (1 .. n))
        /\ Cardinality({i} \X (1 .. n)) = Cardinality({i}) * Cardinality(1 .. n)
    BY <1>1, <1>2, FS_Product
  <1> QED BY <1>1, <1>2, <1>3

\* The empty queue has no bytes.
LEMMA BytesEmpty == Bytes(<<>>) = 0
  <1>1. Positions(<<>>) = {}
    BY DEF Positions
  <1> QED BY <1>1, FS_EmptySet DEF Bytes, Positions

\* A block at the end adds its bytes.
LEMMA BytesAppend ==
  ASSUME NEW ss \in Seq(Block), NEW b \in Block
  PROVE  Append(ss, b) \in Seq(Block) /\ Bytes(Append(ss, b)) = Bytes(ss) + Len(b)
  <1> DEFINE tt == Append(ss, b)
             n == Len(ss) + 1
             row == {n} \X (1 .. Len(b))
  <1>0. ss \in Seq(Seq(Byte)) /\ IsFiniteSet(Positions(ss)) /\ b \in Seq(Byte)
    BY PositionsFinite DEF Block
  <1>1. /\ tt \in Seq(Block) /\ Len(tt) = n /\ tt[n] = b /\ n \in Nat /\ Len(b) \in Nat
        /\ \A i \in 1 .. Len(ss) : tt[i] = ss[i]
        /\ Len(ss) \in Nat
    BY <1>0
  <1>2. \A x : x \in row <=> \E j \in Nat : j \in 1 .. Len(b) /\ x = <<n, j>>
    <2>1. \A j : j \in 1 .. Len(b) => j \in Nat
      BY <1>1
    <2> QED BY <2>1
  <1> HIDE DEF tt, row
  <1>3. \A x : x \in Positions(tt) <=>
          \E i \in 1 .. n, j \in Nat : j \in 1 .. Len(tt[i]) /\ x = <<i, j>>
    BY <1>1, PositionsFinite, Position
  <1>4. \A x : x \in Positions(ss) <=>
          \E i \in 1 .. Len(ss), j \in Nat : j \in 1 .. Len(ss[i]) /\ x = <<i, j>>
    BY <1>0, Position
  <1>5. \A i : i \in 1 .. n <=> i \in 1 .. Len(ss) \/ i = n
    BY <1>1
  <1> HIDE DEF n
  <1>6. Positions(tt) = Positions(ss) \cup row
    <2>1. ASSUME NEW x \in Positions(tt) PROVE x \in Positions(ss) \cup row
      <3>1. PICK i \in 1 .. n, j \in Nat : j \in 1 .. Len(tt[i]) /\ x = <<i, j>>
        BY <1>3
      <3> QED BY <1>1, <1>2, <1>4, <1>5, <3>1
    <2>2. ASSUME NEW x \in Positions(ss) PROVE x \in Positions(tt)
      <3>1. PICK i \in 1 .. Len(ss), j \in Nat : j \in 1 .. Len(ss[i]) /\ x = <<i, j>>
        BY <1>4
      <3> QED BY <1>1, <1>3, <1>5, <3>1
    <2>3. ASSUME NEW x \in row PROVE x \in Positions(tt)
      <3>1. PICK j \in Nat : j \in 1 .. Len(b) /\ x = <<n, j>>
        BY <1>2
      <3> QED BY <1>1, <1>3, <1>5, <3>1
    <2> QED BY <2>1, <2>2, <2>3
  <1>7. Positions(ss) \cap row = {}
    <2>1. n \notin 1 .. Len(ss)
      BY <1>1 DEF n
    <2> QED BY <1>2, <1>4, <2>1
  <1>8. IsFiniteSet(row) /\ Cardinality(row) = Len(b)
    BY <1>1, RowSize DEF row
  <1>9. /\ IsFiniteSet(Positions(tt))
        /\ Cardinality(Positions(tt)) = Cardinality(Positions(ss)) + Cardinality(row)
    <2>1. Cardinality({}) = 0 /\ Cardinality(Positions(ss)) \in Nat /\ Cardinality(row) \in Nat
      BY <1>0, <1>8, FS_EmptySet, FS_CardinalityType
    <2>2. /\ IsFiniteSet(Positions(ss) \cup row)
          /\ Cardinality(Positions(ss) \cup row)
               = Cardinality(Positions(ss)) + Cardinality(row) - Cardinality(Positions(ss) \cap row)
      BY <1>0, <1>8, FS_Union
    <2>3. Cardinality(Positions(ss) \cap row) = 0
      BY <1>7, <2>1
    <2>4. Cardinality(Positions(tt)) = Cardinality(Positions(ss)) + Cardinality(row) - 0
      BY <1>6, <2>2, <2>3
    <2> QED BY <1>6, <2>1, <2>2, <2>4
  <1>10. Bytes(tt) = Cardinality(Positions(tt)) /\ Bytes(ss) = Cardinality(Positions(ss))
    BY DEF Bytes, Positions
  <1> QED BY <1>1, <1>8, <1>9, <1>10 DEF tt

\* A block at the head takes its bytes along.
LEMMA BytesTail ==
  ASSUME NEW ss \in Seq(Block), ss # <<>>
  PROVE  /\ Tail(ss) \in Seq(Block) /\ Head(ss) \in Block
         /\ Bytes(ss) = Bytes(Tail(ss)) + Len(Head(ss))
  <1> DEFINE tt == Tail(ss)
             row == {1} \X (1 .. Len(Head(ss)))
             rows == Positions(ss) \ row
             f == [x \in rows |-> <<x[1] - 1, x[2]>>]
  <1>0. ss \in Seq(Seq(Byte)) /\ IsFiniteSet(Positions(ss))
    BY PositionsFinite
  <1>1. /\ tt \in Seq(Block) /\ Len(tt) = Len(ss) - 1 /\ Len(ss) \in Nat /\ Len(ss) > 0
        /\ Head(ss) = ss[1] /\ Len(Head(ss)) \in Nat /\ Head(ss) \in Block
        /\ \A i \in 1 .. Len(tt) : tt[i] = ss[i + 1]
    BY <1>0
  <1>2. \A x : x \in row <=> \E j \in Nat : j \in 1 .. Len(Head(ss)) /\ x = <<1, j>>
    <2>1. \A j : j \in 1 .. Len(Head(ss)) => j \in Nat
      BY <1>1
    <2> QED BY <2>1
  <1> HIDE DEF tt, row
  <1>3. \A x : x \in Positions(tt) <=>
          \E i \in 1 .. Len(tt), j \in Nat : j \in 1 .. Len(tt[i]) /\ x = <<i, j>>
    BY <1>1, PositionsFinite, Position
  <1>4. \A x : x \in Positions(ss) <=>
          \E i \in 1 .. Len(ss), j \in Nat : j \in 1 .. Len(ss[i]) /\ x = <<i, j>>
    BY <1>0, Position
  <1>5. row \subseteq Positions(ss)
    BY <1>1, <1>2, <1>4
  <1>6. \A x : x \in rows <=>
          \E i \in 2 .. Len(ss), j \in Nat : j \in 1 .. Len(ss[i]) /\ x = <<i, j>>
    <2>1. \A i : i \in 1 .. Len(ss) <=> i \in 2 .. Len(ss) \/ i = 1
      BY <1>1
    <2>2. 1 \notin 2 .. Len(ss)
      OBVIOUS
    <2> QED BY <1>1, <1>2, <1>4, <2>1, <2>2
  <1>7. IsFiniteSet(rows) /\ IsFiniteSet(row) /\ Cardinality(row) = Len(Head(ss))
    BY <1>0, <1>1, RowSize, FS_Difference DEF row
  <1>8. Cardinality(rows) = Cardinality(Positions(ss)) - Cardinality(row)
    <2>1. Positions(ss) \cap row = row
      BY <1>5
    <2> QED BY <1>0, <2>1, FS_Difference
  <1> HIDE DEF rows
  <1>9. f \in Bijection(rows, Positions(tt))
    <2>1. ASSUME NEW x \in rows PROVE f[x] \in Positions(tt)
      <3>1. PICK i \in 2 .. Len(ss), j \in Nat : j \in 1 .. Len(ss[i]) /\ x = <<i, j>>
        BY <1>6
      <3>2. f[x] = <<i - 1, j>> /\ i - 1 \in 1 .. Len(tt) /\ tt[i - 1] = ss[i]
        BY <1>1, <3>1
      <3> QED BY <1>3, <3>1, <3>2
    <2>2. ASSUME NEW x \in rows, NEW y \in rows, f[x] = f[y] PROVE x = y
      <3>1. PICK i \in 2 .. Len(ss), j \in Nat : j \in 1 .. Len(ss[i]) /\ x = <<i, j>>
        BY <1>6
      <3>2. PICK k \in 2 .. Len(ss), l \in Nat : l \in 1 .. Len(ss[k]) /\ y = <<k, l>>
        BY <1>6
      <3>3. f[x] = <<i - 1, j>> /\ f[y] = <<k - 1, l>>
        BY <3>1, <3>2
      <3>4. i - 1 = k - 1 /\ j = l
        BY <2>2, <3>3
      <3> QED BY <1>1, <3>1, <3>2, <3>4
    <2>3. ASSUME NEW y \in Positions(tt) PROVE \E x \in rows : f[x] = y
      <3>1. PICK i \in 1 .. Len(tt), j \in Nat : j \in 1 .. Len(tt[i]) /\ y = <<i, j>>
        BY <1>3
      <3>2. i + 1 \in 2 .. Len(ss) /\ tt[i] = ss[i + 1] /\ (i + 1) - 1 = i
        BY <1>1
      <3>3. <<i + 1, j>> \in rows
        BY <1>6, <3>1, <3>2
      <3> QED BY <3>1, <3>2, <3>3
    <2> QED BY <2>1, <2>2, <2>3
       DEF Bijection, Injection, Surjection, IsInjective
  <1>10. IsFiniteSet(Positions(tt)) /\ Cardinality(Positions(tt)) = Cardinality(rows)
    BY <1>7, <1>9, FS_Bijection DEF ExistsBijection
  <1>11. Cardinality(Positions(ss)) \in Nat /\ Cardinality(rows) \in Nat /\ Cardinality(row) \in Nat
    BY <1>0, <1>7, FS_CardinalityType
  <1>12. Bytes(tt) = Cardinality(Positions(tt)) /\ Bytes(ss) = Cardinality(Positions(ss))
    BY DEF Bytes, Positions
  <1> QED BY <1>1, <1>7, <1>8, <1>10, <1>11, <1>12 DEF tt

\* A block that is put back adds its bytes again.
LEMMA BytesPush ==
  ASSUME NEW ss \in Seq(Block), NEW b \in Block
  PROVE  <<b>> \o ss \in Seq(Block) /\ Bytes(<<b>> \o ss) = Bytes(ss) + Len(b)
  <1>1. /\ <<b>> \o ss \in Seq(Block) /\ <<b>> \o ss # <<>>
        /\ Head(<<b>> \o ss) = b
        /\ Tail(<<b>> \o ss) = ss
    OBVIOUS
  <1> QED BY <1>1, BytesTail

-----------------------------------------------------------------------------
USE DEF Users, Rests, Closing, RLocked, WLocked, RAsks, RHas, WAsks

\* Nobody is None, nor on both sides; None is neither bytes nor an outcome.
LEMMA NoneFacts ==
  /\ None \notin Users /\ Readers \cap Writers = {}
  /\ None \notin Nat /\ None \notin Seq(Byte) /\ None \notin Outcomes
  /\ None \notin Block /\ Lens \subseteq Nat \ {0}
  BY QioAssumption DEF Block

\* What is no longer than something that fits, fits.
LEMMA Smaller ==
  ASSUME NEW m \in Nat, NEW n \in Nat, m <= n
  PROVE  (Fits(n) => Fits(m)) /\ (Fits(Piece(n)) => Fits(Piece(m)))
  <1>1. Limit \div 2 \in Nat /\ Limit \in Nat /\ Chunk \in Nat
    BY QioAssumption
  <1>2. \A k, l \in Nat : k <= l /\ Fits(l) => Fits(k)
    BY <1>1 DEF Fits
  <1>3. Piece(m) \in Nat /\ Piece(n) \in Nat /\ Piece(m) <= Piece(n)
    BY <1>1 DEF Piece
  <1> QED BY <1>2, <1>3

\* A reader gets q->rlock.
LEMMA RLockInv ==
  ASSUME IInv, NEW r \in Users, RLock(r), UNCHANGED pipeVars
  PROVE  IInv'
  <1>0. /\ Types /\ PlaceInv /\ CallInv /\ LockInv /\ OpenInv /\ ReaderInv
        /\ FitInv /\ FlowInv
    BY DEF IInv
  <1>1. r \in Readers /\ pc[r] = "rlock" /\ rlock = None
    BY <1>0, NoneFacts DEF RLock, PlaceInv
  <1>2. /\ rlock' = r
        /\ pc' = [q \in Users |-> IF q = r THEN "rtest" ELSE pc[q]]
        /\ UNCHANGED <<blocks, len, state, eof, rest, wake, writes, wlock, rr,
                       wr, call, res, open, qref, pl>>
    BY <1>0, <1>1 DEF RLock, Goto, queue, locks, pipeVars, PlaceInv, CallInv
  <1>3. Types'
    BY <1>0, <1>2 DEF Types
  <1>4. PlaceInv'
    BY <1>0, <1>1, <1>2 DEF PlaceInv
  <1>5. CallInv'
    BY <1>0, <1>1, <1>2, NoneFacts DEF CallInv, PlaceInv
  <1>6. LockInv'
    BY <1>0, <1>1, <1>2, NoneFacts DEF LockInv, PlaceInv
  <1>7. OpenInv'
    BY <1>0, <1>1, <1>2, NoneFacts DEF OpenInv, PlaceInv
  <1>8. ReaderInv'
    BY <1>0, <1>1, <1>2, NoneFacts
       DEF ReaderInv, ReaderWaits, WakesReader, NotEmpty, Closed, LockInv,
           PlaceInv
  <1>9. FitInv'
    BY <1>0, <1>1, <1>2 DEF FitInv, SmallBlocks, CallInv, PlaceInv
  <1>10. FlowInv'
    BY <1>0, <1>1, <1>2, NoneFacts
       DEF FlowInv, WriterSide, WriterWaits, WakesWriter, Total, Closed,
           LockInv, PlaceInv
  <1> QED BY <1>3, <1>4, <1>5, <1>6, <1>7, <1>8, <1>9, <1>10 DEF IInv

\* A writer gets q->wlock.
LEMMA WLockInv ==
  ASSUME IInv, NEW w \in Users, WLock(w), UNCHANGED pipeVars
  PROVE  IInv'
  <1>0. /\ Types /\ PlaceInv /\ CallInv /\ LockInv /\ OpenInv /\ ReaderInv
        /\ FitInv /\ FlowInv
    BY DEF IInv
  <1>1. w \in Writers /\ pc[w] = "wlock" /\ wlock = None
    BY <1>0, NoneFacts DEF WLock, PlaceInv
  <1>2. /\ wlock' = w
        /\ pc' = [q \in Users |-> IF q = w THEN "wtest" ELSE pc[q]]
        /\ UNCHANGED <<blocks, len, state, eof, rest, wake, writes, rlock, rr,
                       wr, call, res, open, qref, pl>>
    BY <1>0, <1>1 DEF WLock, Goto, queue, locks, pipeVars, PlaceInv, CallInv
  <1>3. Types'
    BY <1>0, <1>2 DEF Types
  <1>4. PlaceInv'
    BY <1>0, <1>1, <1>2 DEF PlaceInv
  <1>5. CallInv'
    BY <1>0, <1>1, <1>2, NoneFacts DEF CallInv, PlaceInv
  <1>6. LockInv'
    BY <1>0, <1>1, <1>2, NoneFacts DEF LockInv, PlaceInv
  <1>7. OpenInv'
    BY <1>0, <1>1, <1>2, NoneFacts DEF OpenInv, PlaceInv
  <1>8. ReaderInv'
    BY <1>0, <1>1, <1>2, NoneFacts
       DEF ReaderInv, ReaderWaits, WakesReader, NotEmpty, Closed, LockInv,
           PlaceInv
  <1>9. FitInv'
    BY <1>0, <1>1, <1>2 DEF FitInv, SmallBlocks, CallInv, PlaceInv
  <1>10. FlowInv'
    BY <1>0, <1>1, <1>2, NoneFacts
       DEF FlowInv, WriterSide, WriterWaits, WakesWriter, Total, Closed,
           LockInv, PlaceInv
  <1> QED BY <1>3, <1>4, <1>5, <1>6, <1>7, <1>8, <1>9, <1>10 DEF IInv

\* A reader calls.
LEMMA QReadInv ==
  ASSUME IInv, NEW r \in Users, QRead(r), r \in open, UNCHANGED pipeVars
  PROVE  IInv'
  <1>0. /\ Types /\ PlaceInv /\ CallInv /\ LockInv /\ OpenInv /\ ReaderInv
        /\ FitInv /\ FlowInv
    BY DEF IInv
  <1>1. r \in Readers /\ pc[r] = "idle" /\ r \in open
    BY <1>0, NoneFacts DEF QRead, PlaceInv
  <1>2. /\ pc' = [q \in Users |-> IF q = r THEN "rlock" ELSE pc[q]]
        /\ UNCHANGED <<blocks, len, state, eof, rest, wake, writes, rlock,
                       wlock, rr, wr, res, open, qref, pl>>
    BY <1>0, <1>1 DEF QRead, Goto, queue, locks, pipeVars, PlaceInv, CallInv
  <1>3. PICK n \in Lens : call' = [q \in Users |-> IF q = r THEN n ELSE call[q]]
    BY <1>0, <1>1 DEF QRead, CallInv
  <1>4. Types'
    BY <1>0, <1>2 DEF Types
  <1>5. PlaceInv'
    BY <1>0, <1>1, <1>2, <1>3, NoneFacts DEF PlaceInv
  <1>6. CallInv'
    BY <1>0, <1>1, <1>2, <1>3, NoneFacts DEF CallInv, PlaceInv
  <1>7. LockInv'
    BY <1>0, <1>1, <1>2, NoneFacts DEF LockInv, PlaceInv
  <1>8. OpenInv'
    BY <1>0, <1>1, <1>2, NoneFacts DEF OpenInv, PlaceInv
  <1>9. ReaderInv'
    BY <1>0, <1>1, <1>2, NoneFacts
       DEF ReaderInv, ReaderWaits, WakesReader, NotEmpty, Closed, LockInv,
           PlaceInv
  <1>10. FitInv'
    BY <1>0, <1>1, <1>2, <1>3, NoneFacts
       DEF FitInv, SmallBlocks, CallInv, PlaceInv
  <1>11. FlowInv'
    BY <1>0, <1>1, <1>2, NoneFacts
       DEF FlowInv, WriterSide, WriterWaits, WakesWriter, Total, Closed,
           LockInv, PlaceInv
  <1> QED BY <1>4, <1>5, <1>6, <1>7, <1>8, <1>9, <1>10, <1>11 DEF IInv

\* A writer calls.
LEMMA QWriteInv ==
  ASSUME IInv, NEW w \in Users, QWrite(w), w \in open, UNCHANGED pipeVars
  PROVE  IInv'
  <1>0. /\ Types /\ PlaceInv /\ CallInv /\ LockInv /\ OpenInv /\ ReaderInv
        /\ FitInv /\ FlowInv
    BY DEF IInv
  <1>1. w \in Writers /\ pc[w] = "idle" /\ w \in open
    BY <1>0, NoneFacts DEF QWrite, PlaceInv
  <1>2. /\ pc' = [q \in Users |-> IF q = w THEN "wlock" ELSE pc[q]]
        /\ writes' = [writes EXCEPT ![w] = @ + 1]
        /\ UNCHANGED <<blocks, len, state, eof, rest, wake, rlock, wlock, rr,
                       wr, res, open, qref, pl>>
    BY <1>0, <1>1 DEF QWrite, Goto, queue, locks, pipeVars, PlaceInv, CallInv
  <1>3. PICK b \in Seq(Byte) : /\ call' = [q \in Users |-> IF q = w THEN b ELSE call[q]]
                               /\ BlocksFit => Fits(Piece(Len(b)))
    <2>1. PICK n \in Sizes : call' = [call EXCEPT ![w] = [i \in 1 .. n |-> <<w, writes[w], i>>]]
      BY DEF QWrite
    <2>2. n \in Nat /\ writes[w] \in Nat
      BY <1>0, <1>1, QioAssumption DEF Types
    <2> DEFINE b == [i \in 1 .. n |-> <<w, writes[w], i>>]
    <2>3. b \in Seq(Byte) /\ Len(b) = n
      BY <1>1, <2>2 DEF Byte
    <2>4. BlocksFit => Fits(Piece(n))
      BY DEF BlocksFit
    <2> HIDE DEF b
    <2>5. call' = [q \in Users |-> IF q = w THEN b ELSE call[q]]
      BY <1>0, <2>1 DEF CallInv, b
    <2> QED BY <2>3, <2>4, <2>5
  <1>4. Types'
    BY <1>0, <1>1, <1>2, <1>3, NoneFacts DEF Types
  <1>5. PlaceInv'
    BY <1>0, <1>1, <1>2, <1>3, NoneFacts DEF PlaceInv
  <1>6. CallInv'
    BY <1>0, <1>1, <1>2, <1>3, NoneFacts DEF CallInv, PlaceInv
  <1>7. LockInv'
    BY <1>0, <1>1, <1>2, NoneFacts DEF LockInv, PlaceInv
  <1>8. OpenInv'
    BY <1>0, <1>1, <1>2, NoneFacts DEF OpenInv, PlaceInv
  <1>9. ReaderInv'
    BY <1>0, <1>1, <1>2, NoneFacts
       DEF ReaderInv, ReaderWaits, WakesReader, NotEmpty, Closed, LockInv,
           PlaceInv
  <1>10. FitInv'
    <2> SUFFICES ASSUME BlocksFit PROVE SmallBlocks'
      BY DEF FitInv
    <2>1. \A q \in Writers : call[q] # None => Fits(Piece(Len(call[q])))
      BY <1>0 DEF FitInv, SmallBlocks
    <2>2. \A q \in Writers : call'[q] # None => Fits(Piece(Len(call'[q])))
      BY <1>1, <1>3, <2>1
    <2> QED BY <1>0, <1>2, <2>2 DEF FitInv, SmallBlocks
  <1>11. FlowInv'
    BY <1>0, <1>1, <1>2, NoneFacts
       DEF FlowInv, WriterSide, WriterWaits, WakesWriter, Total, Closed,
           LockInv, PlaceInv
  <1> QED BY <1>4, <1>5, <1>6, <1>7, <1>8, <1>9, <1>10, <1>11 DEF IInv

\* A reader finds nothing, and nothing will come.
LEMMA ReadTestEofInv ==
  ASSUME IInv, NEW r \in Users, ReadTest(r), Closed, UNCHANGED pipeVars
  PROVE  IInv'
  <1>0. /\ Types /\ PlaceInv /\ CallInv /\ LockInv /\ OpenInv /\ ReaderInv
        /\ FitInv /\ FlowInv
    BY DEF IInv
  <1>1. r \in Readers /\ pc[r] = "rtest" /\ blocks = <<>>
    BY <1>0, NoneFacts DEF ReadTest, PlaceInv
  <1>2. /\ rlock' = None
        /\ pc' = [q \in Users |-> IF q = r THEN "reof" ELSE pc[q]]
        /\ UNCHANGED <<blocks, len, state, eof, rest, wake, writes, wlock, rr,
                       wr, call, res, open, qref, pl>>
    BY <1>0, <1>1 DEF ReadTest, Goto, queue, locks, pipeVars, PlaceInv, CallInv
  <1>3. Types'
    BY <1>0, <1>2 DEF Types
  <1>4. PlaceInv'
    BY <1>0, <1>1, <1>2 DEF PlaceInv
  <1>5. CallInv'
    BY <1>0, <1>1, <1>2, NoneFacts DEF CallInv, PlaceInv
  <1>6. LockInv'
    BY <1>0, <1>1, <1>2, NoneFacts DEF LockInv, PlaceInv
  <1>7. OpenInv'
    BY <1>0, <1>1, <1>2, NoneFacts DEF OpenInv, PlaceInv
  <1>8. ReaderInv'
    BY <1>0, <1>1, <1>2, NoneFacts
       DEF ReaderInv, ReaderWaits, WakesReader, NotEmpty, Closed, LockInv,
           PlaceInv
  <1>9. FitInv'
    BY <1>0, <1>1, <1>2 DEF FitInv, SmallBlocks, CallInv, PlaceInv
  <1>10. FlowInv'
    BY <1>0, <1>1, <1>2, NoneFacts
       DEF FlowInv, WriterSide, WriterWaits, WakesWriter, Total, Closed,
           LockInv, PlaceInv
  <1> QED BY <1>3, <1>4, <1>5, <1>6, <1>7, <1>8, <1>9, <1>10 DEF IInv

\* A reader finds nothing, and says so.
LEMMA ReadTestStarveInv ==
  ASSUME IInv, NEW r \in Users, ReadTest(r), ~Closed, UNCHANGED pipeVars
  PROVE  IInv'
  <1>0. /\ Types /\ PlaceInv /\ CallInv /\ LockInv /\ OpenInv /\ ReaderInv
        /\ FitInv /\ FlowInv
    BY DEF IInv
  <1>1. r \in Readers /\ pc[r] = "rtest" /\ blocks = <<>>
    BY <1>0, NoneFacts DEF ReadTest, PlaceInv
  <1>2. /\ state' = state \cup {"Qstarve"}
        /\ pc' = [q \in Users |-> IF q = r THEN "rsleep" ELSE pc[q]]
        /\ UNCHANGED <<blocks, len, eof, rest, wake, writes, rlock, wlock, rr,
                       wr, call, res, open, qref, pl>>
    BY <1>0, <1>1 DEF ReadTest, Goto, queue, locks, pipeVars, PlaceInv, CallInv
  <1>3. Types'
    BY <1>0, <1>2 DEF Types
  <1>4. PlaceInv'
    BY <1>0, <1>1, <1>2 DEF PlaceInv
  <1>5. CallInv'
    BY <1>0, <1>1, <1>2, NoneFacts DEF CallInv, PlaceInv
  <1>6. LockInv'
    BY <1>0, <1>1, <1>2, NoneFacts DEF LockInv, PlaceInv
  <1>7. OpenInv'
    BY <1>0, <1>1, <1>2, NoneFacts DEF OpenInv, PlaceInv
  <1>8. ReaderInv'
    BY <1>0, <1>1, <1>2, NoneFacts
       DEF ReaderInv, ReaderWaits, WakesReader, NotEmpty, Closed, LockInv,
           PlaceInv
  <1>9. FitInv'
    BY <1>0, <1>1, <1>2 DEF FitInv, SmallBlocks, CallInv, PlaceInv
  <1>10. FlowInv'
    BY <1>0, <1>1, <1>2, NoneFacts
       DEF FlowInv, WriterSide, WriterWaits, WakesWriter, Total, Closed,
           LockInv, PlaceInv
  <1> QED BY <1>3, <1>4, <1>5, <1>6, <1>7, <1>8, <1>9, <1>10 DEF IInv

\* A reader is told of the end of the file.
LEMMA ReadEofInv ==
  ASSUME IInv, NEW r \in Users, ReadEof(r), UNCHANGED pipeVars
  PROVE  IInv'
  <1>0. /\ Types /\ PlaceInv /\ CallInv /\ LockInv /\ OpenInv /\ ReaderInv
        /\ FitInv /\ FlowInv
    BY DEF IInv
  <1>1. r \in Readers /\ pc[r] = "reof"
    BY <1>0, NoneFacts DEF ReadEof, PlaceInv
  <1>2. /\ pc' = [q \in Users |-> IF q = r THEN "done" ELSE pc[q]]
        /\ call' = [q \in Users |-> IF q = r THEN None ELSE call[q]]
        /\ UNCHANGED <<blocks, len, state, rest, wake, writes, rlock, wlock, rr,
                       wr, open, qref, pl>>
    BY <1>0, <1>1
       DEF ReadEof, Return, Goto, queue, locks, pipeVars, PlaceInv, CallInv
  <1>3. eof' \in 0 .. EofMax + 1
    BY <1>0, QioAssumption DEF ReadEof, Types
  <1>4. PICK v \in Outcomes : res' = [q \in Users |-> IF q = r THEN v ELSE res[q]]
    BY <1>0 DEF ReadEof, Return, Outcomes, CallInv
  <1>5. Types'
    BY <1>0, <1>2, <1>3 DEF Types
  <1>6. PlaceInv'
    BY <1>0, <1>1, <1>2 DEF PlaceInv
  <1>7. CallInv'
    BY <1>0, <1>1, <1>2, <1>4, NoneFacts DEF CallInv, PlaceInv
  <1>8. LockInv'
    BY <1>0, <1>1, <1>2, NoneFacts DEF LockInv, PlaceInv
  <1>9. OpenInv'
    BY <1>0, <1>1, <1>2, NoneFacts DEF OpenInv, PlaceInv
  <1>10. ReaderInv'
    BY <1>0, <1>1, <1>2, NoneFacts
       DEF ReaderInv, ReaderWaits, WakesReader, NotEmpty, Closed, LockInv,
           PlaceInv
  <1>11. FitInv'
    BY <1>0, <1>1, <1>2 DEF FitInv, SmallBlocks, CallInv, PlaceInv
  <1>12. FlowInv'
    BY <1>0, <1>1, <1>2, NoneFacts
       DEF FlowInv, WriterSide, WriterWaits, WakesWriter, Total, Closed,
           LockInv, PlaceInv
  <1> QED BY <1>5, <1>6, <1>7, <1>8, <1>9, <1>10, <1>11, <1>12 DEF IInv

\* Something has come before the reader sleeps.
LEMMA ReadAgainInv ==
  ASSUME IInv, NEW r \in Users, ReadSleep(r), NotEmpty, UNCHANGED pipeVars
  PROVE  IInv'
  <1>0. /\ Types /\ PlaceInv /\ CallInv /\ LockInv /\ OpenInv /\ ReaderInv
        /\ FitInv /\ FlowInv
    BY DEF IInv
  <1>1. r \in Readers /\ pc[r] = "rsleep"
    BY <1>0, NoneFacts DEF ReadSleep, PlaceInv
  <1>2. /\ pc' = [q \in Users |-> IF q = r THEN "rtest" ELSE pc[q]]
        /\ UNCHANGED <<blocks, len, state, eof, rest, wake, writes, rlock,
                       wlock, rr, wr, call, res, open, qref, pl>>
    BY <1>0, <1>1 DEF ReadSleep, Goto, queue, locks, pipeVars, PlaceInv, CallInv
  <1>3. Types'
    BY <1>0, <1>2 DEF Types
  <1>4. PlaceInv'
    BY <1>0, <1>1, <1>2 DEF PlaceInv
  <1>5. CallInv'
    BY <1>0, <1>1, <1>2, NoneFacts DEF CallInv, PlaceInv
  <1>6. LockInv'
    BY <1>0, <1>1, <1>2, NoneFacts DEF LockInv, PlaceInv
  <1>7. OpenInv'
    BY <1>0, <1>1, <1>2, NoneFacts DEF OpenInv, PlaceInv
  <1>8. ReaderInv'
    BY <1>0, <1>1, <1>2, NoneFacts
       DEF ReaderInv, ReaderWaits, WakesReader, NotEmpty, Closed, LockInv,
           PlaceInv
  <1>9. FitInv'
    BY <1>0, <1>1, <1>2 DEF FitInv, SmallBlocks, CallInv, PlaceInv
  <1>10. FlowInv'
    BY <1>0, <1>1, <1>2, NoneFacts
       DEF FlowInv, WriterSide, WriterWaits, WakesWriter, Total, Closed,
           LockInv, PlaceInv
  <1> QED BY <1>3, <1>4, <1>5, <1>6, <1>7, <1>8, <1>9, <1>10 DEF IInv

\* The reader sleeps.
LEMMA ReadSleepInv ==
  ASSUME IInv, NEW r \in Users, ReadSleep(r), ~NotEmpty, UNCHANGED pipeVars
  PROVE  IInv'
  <1>0. /\ Types /\ PlaceInv /\ CallInv /\ LockInv /\ OpenInv /\ ReaderInv
        /\ FitInv /\ FlowInv
    BY DEF IInv
  <1>1. r \in Readers /\ pc[r] = "rsleep"
    BY <1>0, NoneFacts DEF ReadSleep, PlaceInv
  <1>2. /\ rr' = r
        /\ pc' = [q \in Users |-> IF q = r THEN "rasleep" ELSE pc[q]]
        /\ UNCHANGED <<blocks, len, state, eof, rest, wake, writes, rlock,
                       wlock, wr, call, res, open, qref, pl>>
    BY <1>0, <1>1 DEF ReadSleep, Goto, queue, locks, pipeVars, PlaceInv, CallInv
  <1>3. Types'
    BY <1>0, <1>2 DEF Types
  <1>4. PlaceInv'
    BY <1>0, <1>1, <1>2 DEF PlaceInv
  <1>5. CallInv'
    BY <1>0, <1>1, <1>2, NoneFacts DEF CallInv, PlaceInv
  <1>6. LockInv'
    BY <1>0, <1>1, <1>2, NoneFacts DEF LockInv, PlaceInv
  <1>7. OpenInv'
    BY <1>0, <1>1, <1>2, NoneFacts DEF OpenInv, PlaceInv
  <1>8. ReaderInv'
    BY <1>0, <1>1, <1>2, NoneFacts
       DEF ReaderInv, ReaderWaits, WakesReader, NotEmpty, Closed, LockInv,
           PlaceInv
  <1>9. FitInv'
    BY <1>0, <1>1, <1>2 DEF FitInv, SmallBlocks, CallInv, PlaceInv
  <1>10. FlowInv'
    BY <1>0, <1>1, <1>2, NoneFacts
       DEF FlowInv, WriterSide, WriterWaits, WakesWriter, Total, Closed,
           LockInv, PlaceInv
  <1> QED BY <1>3, <1>4, <1>5, <1>6, <1>7, <1>8, <1>9, <1>10 DEF IInv

\* What First and Rest of SubSeq are.
LEMMA FirstRest ==
  ASSUME NEW b \in Seq(Byte), NEW n \in Nat \ {0}
  PROVE  /\ First(b, n) \in Seq(Byte) /\ Rest(b, n) \in Seq(Byte)
         /\ Len(First(b, n)) = IF n < Len(b) THEN n ELSE Len(b)
         /\ Len(Rest(b, n)) = IF n < Len(b) THEN Len(b) - n ELSE 0
         /\ First(b, n) # None /\ Rest(b, n) # None
  <1>0. Len(b) \in Nat /\ \A i \in 1 .. Len(b) : b[i] \in Byte
    OBVIOUS
  <1>1. First(b, n) \in Seq(Byte) /\ Len(First(b, n)) = IF n < Len(b) THEN n ELSE Len(b)
    <2> DEFINE m == IF n < Len(b) THEN n ELSE Len(b)
    <2>1. m \in Nat /\ m <= Len(b)
      BY <1>0
    <2>2. \A i \in 1 .. m : b[i] \in Byte
      BY <1>0, <2>1
    <2> HIDE DEF m
    <2>3. SubSeq(b, 1, m) \in Seq(Byte) /\ Len(SubSeq(b, 1, m)) = IF 1 <= m THEN m - 1 + 1 ELSE 0
      BY <1>0, <2>1, <2>2, SubSeqProperties
    <2>4. Len(SubSeq(b, 1, m)) = m
      BY <2>1, <2>3
    <2> QED BY <2>3, <2>4 DEF First, m
  <1>2. Rest(b, n) \in Seq(Byte) /\ Len(Rest(b, n)) = IF n < Len(b) THEN Len(b) - n ELSE 0
    <2>1. \A i \in n + 1 .. Len(b) : b[i] \in Byte
      BY <1>0
    <2>2. /\ SubSeq(b, n + 1, Len(b)) \in Seq(Byte)
          /\ Len(SubSeq(b, n + 1, Len(b)))
               = IF n + 1 <= Len(b) THEN Len(b) - (n + 1) + 1 ELSE 0
      BY <1>0, <2>1, SubSeqProperties
    <2>3. (n + 1 <= Len(b) <=> n < Len(b)) /\ Len(b) - (n + 1) + 1 = Len(b) - n
      BY <1>0
    <2> QED BY <2>2, <2>3 DEF Rest
  <1> QED BY <1>1, <1>2, NoneFacts

\* A reader takes the whole first block.
LEMMA ReadTakeInv ==
  ASSUME IInv, NEW r \in Users, ReadTake(r), ~(Len(Head(blocks)) > call[r]), UNCHANGED pipeVars
  PROVE  IInv'
  <1>0. /\ Types /\ PlaceInv /\ CallInv /\ LockInv /\ OpenInv /\ ReaderInv
        /\ FitInv /\ FlowInv
    BY DEF IInv
  <1>1. r \in Readers /\ pc[r] = "rtest" /\ blocks # <<>>
    BY <1>0, NoneFacts DEF ReadTake, PlaceInv
  <1>2. /\ blocks' = Tail(blocks) /\ len' = len - Len(Head(blocks))
        /\ call' = [q \in Users |-> IF q = r THEN None ELSE call[q]]
        /\ res' = [q \in Users |-> IF q = r THEN First(Head(blocks), call[r]) ELSE res[q]]
        /\ rest' = None
        /\ UNCHANGED <<eof, writes, rlock, wlock, rr, wr, open, qref, pl>>
    BY <1>0, <1>1
       DEF ReadTake, Return, Types, Goto, queue, locks, pipeVars, PlaceInv,
           CallInv
  <1>3. PICK s \in BOOLEAN : s <=> Restart(len - Len(Head(blocks)))
    OBVIOUS
  <1>4. wake' = [wake EXCEPT ![r] = s]
    <2>1. wake' = [wake EXCEPT ![r] = Restart(len - Len(Head(blocks)))]
      BY DEF ReadTake
    <2> QED BY <1>3, <2>1, Zenon DEF Restart
  <1>5. /\ wake' \in [Users -> BOOLEAN] /\ wake'[r] = s
        /\ \A q \in Users : q # r => wake'[q] = wake[q]
    BY <1>0, <1>4 DEF Types
  <1>6. /\ state' \subseteq state /\ state \subseteq state' \cup {"Qflow"}
        /\ ~s => state' = state
    BY <1>3 DEF ReadTake
  <1>7. /\ blocks' \in Seq(Block) /\ len' = Bytes(blocks') /\ len' \in Nat /\ len \in Nat
        /\ call[r] \in Nat \ {0} /\ Head(blocks) \in Seq(Byte) /\ Head(blocks) \in Block
        /\ Len(Head(blocks)) \in Nat /\ len = len' + Len(Head(blocks))
        /\ s <=> "Qflow" \in state /\ len' < Limit \div 2
        /\ rest = None
    <2>1. /\ Tail(blocks) \in Seq(Block) /\ Head(blocks) \in Block
          /\ Bytes(blocks) = Bytes(Tail(blocks)) + Len(Head(blocks))
      BY <1>0, <1>1, BytesTail DEF Types
    <2>2. Head(blocks) \in Seq(Byte) /\ Len(Head(blocks)) \in Nat
      BY <2>1 DEF Block
    <2>3. Bytes(Tail(blocks)) \in Nat
      BY <2>1, PositionsFinite
    <2>4. len - Len(Head(blocks)) = Bytes(Tail(blocks)) /\ len = Bytes(Tail(blocks)) + Len(Head(blocks))
      BY <1>0, <2>1, <2>2, <2>3 DEF Types
    <2>5. rest = None
      BY <1>0, <1>1, NoneFacts DEF LockInv
    <2>6. len' = Bytes(Tail(blocks)) /\ blocks' = Tail(blocks)
      BY <1>2, <2>4
    <2>7. s <=> "Qflow" \in state /\ len' < Limit \div 2
      BY <1>3, <2>4, <2>6 DEF Restart
    <2> QED BY <1>0, <1>1, <2>1, <2>2, <2>3, <2>4, <2>5, <2>6, <2>7, NoneFacts
       DEF CallInv
  <1>8. PICK c \in {"rwake", "runlock"} :
          /\ pc' = [q \in Users |-> IF q = r THEN c ELSE pc[q]]
          /\ (c = "rwake" <=> s)
    BY <1>0, <1>3 DEF ReadTake, Goto, PlaceInv
  <1>9. res'[r] # None
    BY <1>1, <1>2, <1>7, FirstRest
  <1>10. Types'
    BY <1>0, <1>2, <1>3, <1>4, <1>5, <1>6, <1>7 DEF Types
  <1>11. PlaceInv'
    BY <1>0, <1>1, <1>2, <1>8 DEF PlaceInv
  <1>12. CallInv'
    BY <1>0, <1>1, <1>2, <1>7, <1>8, <1>9, NoneFacts DEF CallInv, PlaceInv
  <1>13. LockInv'
    BY <1>0, <1>1, <1>2, <1>7, <1>8, NoneFacts DEF LockInv, PlaceInv
  <1>14. OpenInv'
    BY <1>0, <1>1, <1>2, <1>8, NoneFacts DEF OpenInv, PlaceInv
  <1>15. ReaderInv'
    BY <1>0, <1>1, <1>2, <1>3, <1>6, <1>7, <1>8, NoneFacts
       DEF ReaderInv, ReaderWaits, WakesReader, NotEmpty, Closed, LockInv,
           PlaceInv
  <1>16. FitInv'
    <2> SUFFICES ASSUME BlocksFit PROVE SmallBlocks'
      BY DEF FitInv
    <2>1. blocks \in Seq(FitBlock)
      BY <1>0 DEF FitInv, SmallBlocks
    <2>2. Tail(blocks) \in Seq(FitBlock) /\ Head(blocks) \in FitBlock
      BY <1>1, <2>1
    <2>3. rest' \in FitBlock \cup {None}
      BY <1>2
    <2>4. \A w \in Writers : call'[w] = call[w]
      BY <1>1, <1>2, NoneFacts
    <2>5. \A w \in Writers : call[w] # None => Fits(Piece(Len(call[w])))
      BY <1>0 DEF FitInv, SmallBlocks
    <2> QED BY <1>2, <2>2, <2>3, <2>4, <2>5 DEF SmallBlocks
  <1>17. FlowInv'
    <2> SUFFICES ASSUME BlocksFit PROVE WriterSide'
      BY DEF FlowInv
    <2>1. /\ \A w \in Writers : pc[w] = "wsleep" => Closed \/ "Qflow" \in state \/ len < Limit
          /\ WriterWaits
      BY <1>0, <1>7 DEF FlowInv, WriterSide, Total
    <2>2. /\ \A w \in Writers : pc'[w] = pc[w]
          /\ \A q \in Users : WakesWriter(q) => q # r /\ pc'[q] = pc[q] /\ wake'[q] = wake[q]
      BY <1>1, <1>5, <1>8, NoneFacts DEF WakesWriter
    <2>3. ASSUME NEW w \in Writers, pc'[w] = "wsleep"
          PROVE  Closed' \/ "Qflow" \in state' \/ Total' < Limit
      <3>1. Total' = len'
        BY <1>2, <1>7 DEF Total
      <3>2. len' <= len /\ (s => len' < Limit)
        BY <1>7, QioAssumption
      <3> QED BY <1>6, <1>7, <2>1, <2>2, <2>3, <3>1, <3>2, QioAssumption
         DEF Closed
    <2>4. WriterWaits'
      <3>1. CASE s
        <4>1. WakesWriter(r)'
          BY <1>1, <1>5, <1>8, <3>1 DEF WakesWriter
        <4> QED BY <4>1 DEF WriterWaits
      <3>2. CASE ~s
        <4>1. state' = state /\ wr' = wr
          BY <1>2, <1>6, <3>2
        <4>2. "Qflow" \in state => len' >= Limit \div 2
          BY <1>7, <3>2, QioAssumption
        <4>3. \A q \in Users : WakesWriter(q) => WakesWriter(q)'
          BY <2>2 DEF WakesWriter
        <4> QED BY <2>1, <4>1, <4>2, <4>3 DEF WriterWaits, Closed
      <3> QED BY <3>1, <3>2
    <2> QED BY <2>3, <2>4 DEF WriterSide
  <1> QED BY <1>10, <1>11, <1>12, <1>13, <1>14, <1>15, <1>16, <1>17 DEF IInv

\* A reader takes part of the first block.
LEMMA ReadPartInv ==
  ASSUME IInv, NEW r \in Users, ReadTake(r), Len(Head(blocks)) > call[r], UNCHANGED pipeVars
  PROVE  IInv'
  <1>0. /\ Types /\ PlaceInv /\ CallInv /\ LockInv /\ OpenInv /\ ReaderInv
        /\ FitInv /\ FlowInv
    BY DEF IInv
  <1>1. r \in Readers /\ pc[r] = "rtest" /\ blocks # <<>>
    BY <1>0, NoneFacts DEF ReadTake, PlaceInv
  <1>2. /\ blocks' = Tail(blocks) /\ len' = len - Len(Head(blocks))
        /\ call' = [q \in Users |-> IF q = r THEN None ELSE call[q]]
        /\ res' = [q \in Users |-> IF q = r THEN First(Head(blocks), call[r]) ELSE res[q]]
        /\ rest' = Rest(Head(blocks), call[r])
        /\ UNCHANGED <<eof, writes, rlock, wlock, rr, wr, open, qref, pl>>
    BY <1>0, <1>1
       DEF ReadTake, Return, Types, Goto, queue, locks, pipeVars, PlaceInv,
           CallInv
  <1>3. PICK s \in BOOLEAN : s <=> Restart(len - Len(Head(blocks)))
    OBVIOUS
  <1>4. wake' = [wake EXCEPT ![r] = s]
    <2>1. wake' = [wake EXCEPT ![r] = Restart(len - Len(Head(blocks)))]
      BY DEF ReadTake
    <2> QED BY <1>3, <2>1, Zenon DEF Restart
  <1>5. /\ wake' \in [Users -> BOOLEAN] /\ wake'[r] = s
        /\ \A q \in Users : q # r => wake'[q] = wake[q]
    BY <1>0, <1>4 DEF Types
  <1>6. /\ state' \subseteq state /\ state \subseteq state' \cup {"Qflow"}
        /\ ~s => state' = state
    BY <1>3 DEF ReadTake
  <1>7. /\ blocks' \in Seq(Block) /\ len' = Bytes(blocks') /\ len' \in Nat /\ len \in Nat
        /\ call[r] \in Nat \ {0} /\ Head(blocks) \in Seq(Byte) /\ Head(blocks) \in Block
        /\ Len(Head(blocks)) \in Nat /\ len = len' + Len(Head(blocks))
        /\ s <=> "Qflow" \in state /\ len' < Limit \div 2
        /\ rest = None
    <2>1. /\ Tail(blocks) \in Seq(Block) /\ Head(blocks) \in Block
          /\ Bytes(blocks) = Bytes(Tail(blocks)) + Len(Head(blocks))
      BY <1>0, <1>1, BytesTail DEF Types
    <2>2. Head(blocks) \in Seq(Byte) /\ Len(Head(blocks)) \in Nat
      BY <2>1 DEF Block
    <2>3. Bytes(Tail(blocks)) \in Nat
      BY <2>1, PositionsFinite
    <2>4. len - Len(Head(blocks)) = Bytes(Tail(blocks)) /\ len = Bytes(Tail(blocks)) + Len(Head(blocks))
      BY <1>0, <2>1, <2>2, <2>3 DEF Types
    <2>5. rest = None
      BY <1>0, <1>1, NoneFacts DEF LockInv
    <2>6. len' = Bytes(Tail(blocks)) /\ blocks' = Tail(blocks)
      BY <1>2, <2>4
    <2>7. s <=> "Qflow" \in state /\ len' < Limit \div 2
      BY <1>3, <2>4, <2>6 DEF Restart
    <2> QED BY <1>0, <1>1, <2>1, <2>2, <2>3, <2>4, <2>5, <2>6, <2>7, NoneFacts
       DEF CallInv
  <1>8. pc' = [q \in Users |-> IF q = r THEN "rsplit" ELSE pc[q]]
    BY <1>0 DEF ReadTake, Goto, PlaceInv
  <1>9. /\ res'[r] # None /\ rest' \in Block /\ rest' # None
        /\ Len(rest') \in Nat /\ Len(rest') = Len(Head(blocks)) - call[r]
    <2>1. First(Head(blocks), call[r]) # None /\ Rest(Head(blocks), call[r]) \in Seq(Byte)
      BY <1>7, FirstRest
    <2>2. Len(Rest(Head(blocks), call[r])) = Len(Head(blocks)) - call[r]
      BY <1>7, FirstRest
    <2>3. Len(Head(blocks)) - call[r] <= Chunk
      BY <1>7, QioAssumption DEF Block
    <2> QED BY <1>1, <1>2, <2>1, <2>2, <2>3, NoneFacts DEF Block
  <1>10. Types'
    BY <1>0, <1>2, <1>3, <1>4, <1>5, <1>6, <1>7, <1>9 DEF Types
  <1>11. PlaceInv'
    BY <1>0, <1>1, <1>2, <1>8 DEF PlaceInv
  <1>12. CallInv'
    BY <1>0, <1>1, <1>2, <1>7, <1>8, <1>9, NoneFacts DEF CallInv, PlaceInv
  <1>13. LockInv'
    BY <1>0, <1>1, <1>2, <1>7, <1>8, <1>9, NoneFacts DEF LockInv, PlaceInv
  <1>14. OpenInv'
    BY <1>0, <1>1, <1>2, <1>8, NoneFacts DEF OpenInv, PlaceInv
  <1>15. ReaderInv'
    BY <1>0, <1>1, <1>2, <1>3, <1>6, <1>7, <1>8, <1>9, NoneFacts
       DEF ReaderInv, ReaderWaits, WakesReader, NotEmpty, Closed, LockInv,
           PlaceInv
  <1>16. FitInv'
    <2> SUFFICES ASSUME BlocksFit PROVE SmallBlocks'
      BY DEF FitInv
    <2>1. blocks \in Seq(FitBlock)
      BY <1>0 DEF FitInv, SmallBlocks
    <2>2. Tail(blocks) \in Seq(FitBlock) /\ Head(blocks) \in FitBlock
      BY <1>1, <2>1
    <2>3. rest' \in FitBlock \cup {None}
      <3>1. Fits(Len(Head(blocks)))
        BY <2>2 DEF FitBlock
      <3>2. Fits(Len(rest'))
        BY <1>7, <1>9, <3>1, Smaller
      <3> QED BY <1>9, <3>2 DEF FitBlock
    <2>4. \A w \in Writers : call'[w] = call[w]
      BY <1>1, <1>2, NoneFacts
    <2>5. \A w \in Writers : call[w] # None => Fits(Piece(Len(call[w])))
      BY <1>0 DEF FitInv, SmallBlocks
    <2> QED BY <1>2, <2>2, <2>3, <2>4, <2>5 DEF SmallBlocks
  <1>17. FlowInv'
    <2> SUFFICES ASSUME BlocksFit PROVE WriterSide'
      BY DEF FlowInv
    <2>1. /\ \A w \in Writers : pc[w] = "wsleep" => Closed \/ "Qflow" \in state \/ len < Limit
          /\ WriterWaits
      BY <1>0, <1>7 DEF FlowInv, WriterSide, Total
    <2>2. /\ \A w \in Writers : pc'[w] = pc[w]
          /\ \A q \in Users : WakesWriter(q) => q # r /\ pc'[q] = pc[q] /\ wake'[q] = wake[q]
      BY <1>1, <1>5, <1>8, NoneFacts DEF WakesWriter
    <2>3. ASSUME NEW w \in Writers, pc'[w] = "wsleep"
          PROVE  Closed' \/ "Qflow" \in state' \/ Total' < Limit
      <3>1. Total' = len' + Len(rest')
        BY <1>9 DEF Total
      <3>2. Fits(Len(Head(blocks)))
        BY <1>0, <1>1 DEF FitInv, SmallBlocks, FitBlock
      <3>3. Total' < len /\ (s => Total' < Limit)
        <4>1. \A a, h, k \in Nat : k > 0 =>
                /\ a + (h - k) < a + h
                /\ h <= Limit - Limit \div 2 + 1 /\ a < Limit \div 2 => a + (h - k) < Limit
          BY QioAssumption
        <4>2. Len(Head(blocks)) <= Limit - Limit \div 2 + 1
          BY <3>2 DEF Fits
        <4>3. call[r] \in Nat /\ call[r] > 0
          BY <1>7
        <4> QED BY <1>7, <1>9, <3>1, <4>1, <4>2, <4>3
      <3>4. Total' \in Nat
        BY <1>7, <1>9, <3>1
      <3> QED BY <1>6, <1>7, <2>1, <2>2, <2>3, <3>3, <3>4, QioAssumption
         DEF Closed
    <2>4. WriterWaits'
      <3>1. CASE s
        <4>1. WakesWriter(r)'
          BY <1>1, <1>5, <1>8, <3>1 DEF WakesWriter
        <4> QED BY <4>1 DEF WriterWaits
      <3>2. CASE ~s
        <4>1. state' = state /\ wr' = wr
          BY <1>2, <1>6, <3>2
        <4>2. "Qflow" \in state => len' >= Limit \div 2
          BY <1>7, <3>2, QioAssumption
        <4>3. \A q \in Users : WakesWriter(q) => WakesWriter(q)'
          BY <2>2 DEF WakesWriter
        <4> QED BY <2>1, <4>1, <4>2, <4>3 DEF WriterWaits, Closed
      <3> QED BY <3>1, <3>2
    <2> QED BY <2>3, <2>4 DEF WriterSide
  <1> QED BY <1>10, <1>11, <1>12, <1>13, <1>14, <1>15, <1>16, <1>17 DEF IInv

\* The rest of the block is put back.
LEMMA ReadSplitInv ==
  ASSUME IInv, NEW r \in Users, ReadSplit(r), UNCHANGED pipeVars
  PROVE  IInv'
  <1>0. /\ Types /\ PlaceInv /\ CallInv /\ LockInv /\ OpenInv /\ ReaderInv
        /\ FitInv /\ FlowInv
    BY DEF IInv
  <1>1. r \in Readers /\ pc[r] = "rsplit" /\ rest \in Block
    BY <1>0, NoneFacts DEF ReadSplit, LockInv, Types, PlaceInv
  <1>2. /\ blocks' = <<rest>> \o blocks /\ len' = len + Len(rest)
        /\ rest' = None
        /\ UNCHANGED <<state, eof, writes, wake, rlock, wlock, rr, wr, call,
                       res, open, qref, pl>>
    BY <1>0, <1>1 DEF ReadSplit, Goto, queue, locks, pipeVars, PlaceInv, CallInv
  <1>3. PICK c \in {"rwake", "runlock"} :
          /\ pc' = [q \in Users |-> IF q = r THEN c ELSE pc[q]]
          /\ (wake[r] => c = "rwake")
    BY <1>0 DEF ReadSplit, Goto, PlaceInv
  <1>4. /\ blocks' \in Seq(Block) /\ len' = Bytes(blocks') /\ blocks' # <<>>
    BY <1>0, <1>1, <1>2, BytesPush DEF Types
  <1>5. /\ len \in Nat /\ len' \in Nat /\ Len(rest) \in Nat
        /\ Total' = Total /\ len <= len'
    <2>1. len \in Nat /\ Len(rest) \in Nat
      BY <1>0, <1>1, PositionsFinite DEF Types, Block
    <2> QED BY <1>1, <1>2, <2>1, NoneFacts DEF Total
  <1>6. Types'
    BY <1>0, <1>2, <1>3, <1>4, <1>5 DEF Types
  <1>7. PlaceInv'
    BY <1>0, <1>1, <1>2, <1>3 DEF PlaceInv
  <1>8. CallInv'
    BY <1>0, <1>1, <1>2, <1>3, NoneFacts DEF CallInv, PlaceInv
  <1>9. LockInv'
    BY <1>0, <1>1, <1>2, <1>3, <1>5, NoneFacts DEF LockInv, PlaceInv
  <1>10. OpenInv'
    BY <1>0, <1>1, <1>2, <1>3, NoneFacts DEF OpenInv, PlaceInv
  <1>11. ReaderInv'
    BY <1>0, <1>1, <1>2, <1>3, <1>4, <1>5, NoneFacts
       DEF ReaderInv, ReaderWaits, WakesReader, NotEmpty, Closed, LockInv,
           PlaceInv
  <1>12. FitInv'
    <2> SUFFICES ASSUME BlocksFit PROVE SmallBlocks'
      BY DEF FitInv
    <2>1. blocks \in Seq(FitBlock) /\ rest \in FitBlock
      BY <1>0, <1>1, NoneFacts DEF FitInv, SmallBlocks
    <2>2. <<rest>> \o blocks \in Seq(FitBlock)
      BY <2>1
    <2> QED BY <1>0, <1>2, <2>2 DEF FitInv, SmallBlocks
  <1>13. FlowInv'
    <2> SUFFICES ASSUME BlocksFit PROVE WriterSide'
      BY DEF FlowInv
    <2>1. \A w \in Writers : pc'[w] = "wsleep" => pc[w] = "wsleep"
      BY <1>1, <1>3, NoneFacts
    <2>2. \A q \in Users : WakesWriter(q) => WakesWriter(q)'
      BY <1>1, <1>2, <1>3 DEF WakesWriter
    <2>3. len >= Limit \div 2 => len' >= Limit \div 2
      BY <1>5, QioAssumption
    <2> QED BY <1>0, <1>2, <1>5, <2>1, <2>2, <2>3
       DEF FlowInv, WriterSide, WriterWaits, Closed
  <1> QED BY <1>6, <1>7, <1>8, <1>9, <1>10, <1>11, <1>12, <1>13 DEF IInv

\* The reader gives up q->rlock.
LEMMA ReadUnlockInv ==
  ASSUME IInv, NEW r \in Users, ReadUnlock(r), UNCHANGED pipeVars
  PROVE  IInv'
  <1>0. /\ Types /\ PlaceInv /\ CallInv /\ LockInv /\ OpenInv /\ ReaderInv
        /\ FitInv /\ FlowInv
    BY DEF IInv
  <1>1. r \in Readers /\ pc[r] = "runlock"
    BY <1>0, NoneFacts DEF ReadUnlock, PlaceInv
  <1>2. /\ rlock' = None
        /\ pc' = [q \in Users |-> IF q = r THEN "done" ELSE pc[q]]
        /\ wake' = [wake EXCEPT ![r] = FALSE]
        /\ UNCHANGED <<blocks, len, state, eof, rest, writes, wlock, rr, wr,
                       call, res, open, qref, pl>>
    BY <1>0, <1>1
       DEF ReadUnlock, Types, Goto, queue, locks, pipeVars, PlaceInv, CallInv
  <1>3. Types'
    BY <1>0, <1>2 DEF Types
  <1>4. PlaceInv'
    BY <1>0, <1>1, <1>2 DEF PlaceInv
  <1>5. CallInv'
    BY <1>0, <1>1, <1>2, NoneFacts DEF CallInv, PlaceInv
  <1>6. LockInv'
    BY <1>0, <1>1, <1>2, NoneFacts DEF LockInv, PlaceInv
  <1>7. OpenInv'
    BY <1>0, <1>1, <1>2, NoneFacts DEF OpenInv, PlaceInv
  <1>8. ReaderInv'
    BY <1>0, <1>1, <1>2, NoneFacts
       DEF ReaderInv, ReaderWaits, WakesReader, NotEmpty, Closed, LockInv,
           PlaceInv
  <1>9. FitInv'
    BY <1>0, <1>1, <1>2 DEF FitInv, SmallBlocks, CallInv, PlaceInv
  <1>10. FlowInv'
    BY <1>0, <1>1, <1>2, NoneFacts
       DEF FlowInv, WriterSide, WriterWaits, WakesWriter, Total, Closed,
           LockInv, PlaceInv
  <1> QED BY <1>3, <1>4, <1>5, <1>6, <1>7, <1>8, <1>9, <1>10 DEF IInv

\* A writer finds the queue closed.
LEMMA WriteClosedInv ==
  ASSUME IInv, NEW w \in Users, WriteClosed(w), UNCHANGED pipeVars
  PROVE  IInv'
  <1>0. /\ Types /\ PlaceInv /\ CallInv /\ LockInv /\ OpenInv /\ ReaderInv
        /\ FitInv /\ FlowInv
    BY DEF IInv
  <1>1. w \in Writers /\ pc[w] = "wtest"
    BY <1>0, NoneFacts DEF WriteClosed, PlaceInv
  <1>2. /\ wlock' = None
        /\ pc' = [q \in Users |-> IF q = w THEN "done" ELSE pc[q]]
        /\ call' = [q \in Users |-> IF q = w THEN None ELSE call[q]]
        /\ res' = [q \in Users |-> IF q = w THEN "hungup" ELSE res[q]]
        /\ UNCHANGED <<blocks, len, state, eof, rest, wake, writes, rlock, rr,
                       wr, open, qref, pl>>
    BY <1>0, <1>1
       DEF WriteClosed, Return, Goto, queue, locks, pipeVars, PlaceInv, CallInv
  <1>3. "hungup" # None
    BY NoneFacts DEF Outcomes
  <1>4. Types'
    BY <1>0, <1>2 DEF Types
  <1>5. PlaceInv'
    BY <1>0, <1>1, <1>2 DEF PlaceInv
  <1>6. CallInv'
    BY <1>0, <1>1, <1>2, <1>3, NoneFacts DEF CallInv, PlaceInv
  <1>7. LockInv'
    BY <1>0, <1>1, <1>2, NoneFacts DEF LockInv, PlaceInv
  <1>8. OpenInv'
    BY <1>0, <1>1, <1>2, NoneFacts DEF OpenInv, PlaceInv
  <1>9. ReaderInv'
    BY <1>0, <1>1, <1>2, NoneFacts
       DEF ReaderInv, ReaderWaits, WakesReader, NotEmpty, Closed, LockInv,
           PlaceInv
  <1>10. FitInv'
    BY <1>0, <1>1, <1>2 DEF FitInv, SmallBlocks, CallInv, PlaceInv
  <1>11. FlowInv'
    BY <1>0, <1>1, <1>2, NoneFacts
       DEF FlowInv, WriterSide, WriterWaits, WakesWriter, Total, Closed,
           LockInv, PlaceInv
  <1> QED BY <1>4, <1>5, <1>6, <1>7, <1>8, <1>9, <1>10, <1>11 DEF IInv

\* A writer appends a block.
LEMMA WriteAppendInv ==
  ASSUME IInv, NEW w \in Users, WriteAppend(w), UNCHANGED pipeVars
  PROVE  IInv'
  <1>0. /\ Types /\ PlaceInv /\ CallInv /\ LockInv /\ OpenInv /\ ReaderInv
        /\ FitInv /\ FlowInv
    BY DEF IInv
  <1>1. w \in Writers /\ pc[w] = "wtest" /\ ~Closed /\ call[w] \in Seq(Byte) /\ res[w] = None
    BY <1>0, NoneFacts DEF WriteAppend, CallInv, PlaceInv
  <1>2. /\ blocks' = Append(blocks, First(call[w], Chunk))
        /\ len' = len + Len(First(call[w], Chunk))
        /\ state' = state \ {"Qstarve"}
        /\ wake' = [wake EXCEPT ![w] = "Qstarve" \in state]
        /\ pc' = [pc EXCEPT ![w] = IF wake'[w] THEN "wwake" ELSE "wunlock"]
        /\ UNCHANGED <<eof, rest, writes, rlock, wlock, rr, wr, open, qref, pl>>
    BY <1>0, <1>1 DEF WriteAppend, Goto, queue, locks, pipeVars
  <1>3. PICK s \in BOOLEAN : s <=> "Qstarve" \in state
    OBVIOUS
  <1>4. wake' = [wake EXCEPT ![w] = s]
    BY <1>2, <1>3, Zenon
  <1>5. wake' \in [Users -> BOOLEAN] /\ wake'[w] = s
    BY <1>0, <1>4 DEF Types
  <1>6. PICK c \in {"wwake", "wunlock"} :
          /\ pc' = [q \in Users |-> IF q = w THEN c ELSE pc[q]]
          /\ (c = "wwake" <=> "Qstarve" \in state)
    BY <1>0, <1>2, <1>3, <1>5 DEF PlaceInv
  <1>7. UNCHANGED <<rest, rlock, wlock, rr, wr>>
    BY <1>2
  <1>8. PICK v, u : /\ call' = [q \in Users |-> IF q = w THEN v ELSE call[q]]
                    /\ res' = [q \in Users |-> IF q = w THEN u ELSE res[q]]
                    /\ (v \in Seq(Byte) /\ u = None) \/ (v = None /\ u # None)
                    /\ v # None => Len(v) <= Len(call[w])
    <2> DEFINE more == Rest(call[w], Chunk)
    <2>1. more \in Seq(Byte) /\ Len(more) <= Len(call[w])
      <3>1. /\ more \in Seq(Byte) /\ Len(call[w]) \in Nat
            /\ Len(more) = IF Chunk < Len(call[w]) THEN Len(call[w]) - Chunk ELSE 0
        BY <1>1, QioAssumption, FirstRest
      <3> QED BY <3>1, QioAssumption
    <2> HIDE DEF more
    <2>2. \/ call' = [call EXCEPT ![w] = more] /\ res' = res
          \/ call' = [call EXCEPT ![w] = None] /\ res' = [res EXCEPT ![w] = "written"]
      BY DEF WriteAppend, Advance, Return, more
    <2>3. CASE call' = [call EXCEPT ![w] = more] /\ res' = res
      <3>1. /\ call' = [q \in Users |-> IF q = w THEN more ELSE call[q]]
            /\ res' = [q \in Users |-> IF q = w THEN res[w] ELSE res[q]]
        BY <1>0, <2>3 DEF CallInv
      <3> QED BY <1>1, <2>1, <3>1
    <2>4. CASE call' = [call EXCEPT ![w] = None] /\ res' = [res EXCEPT ![w] = "written"]
      <3>1. /\ call' = [q \in Users |-> IF q = w THEN None ELSE call[q]]
            /\ res' = [q \in Users |-> IF q = w THEN "written" ELSE res[q]]
        BY <1>0, <2>4 DEF CallInv
      <3>2. "written" # None
        BY NoneFacts DEF Outcomes
      <3> QED BY <3>1, <3>2
    <2> QED BY <2>2, <2>3, <2>4
  <1>9. /\ blocks' \in Seq(Block) /\ len' = Bytes(blocks') /\ blocks' # <<>>
    <2> DEFINE b == First(call[w], Chunk)
    <2>1. b \in Seq(Byte) /\ Len(b) = IF Chunk < Len(call[w]) THEN Chunk ELSE Len(call[w])
      BY <1>1, QioAssumption, FirstRest
    <2>2. Len(call[w]) \in Nat
      BY <1>1
    <2>3. Len(b) <= Chunk
      BY <2>1, <2>2, QioAssumption
    <2>4. b \in Block
      BY <2>1, <2>3 DEF Block
    <2> HIDE DEF b
    <2>5. blocks' = Append(blocks, b) /\ len' = len + Len(b)
      BY <1>2 DEF b
    <2>6. Append(blocks, b) # <<>>
      BY <1>0, <2>4 DEF Types
    <2> QED BY <1>0, <2>4, <2>5, <2>6, BytesAppend DEF Types
  <1>10. Types'
    BY <1>0, <1>2, <1>3, <1>4, <1>5, <1>6, <1>7, <1>9 DEF Types
  <1>11. PlaceInv'
    BY <1>0, <1>1, <1>2, <1>6 DEF PlaceInv
  <1>12. CallInv'
    BY <1>0, <1>1, <1>6, <1>8, NoneFacts DEF CallInv, PlaceInv
  <1>13. LockInv'
    BY <1>0, <1>1, <1>6, <1>7, NoneFacts DEF LockInv, PlaceInv
  <1>14. OpenInv'
    BY <1>0, <1>1, <1>2, <1>6, NoneFacts DEF OpenInv, PlaceInv
  <1>15. ReaderInv'
    BY <1>0, <1>1, <1>2, <1>3, <1>6, <1>7, <1>9, NoneFacts
       DEF ReaderInv, ReaderWaits, WakesReader, NotEmpty, Closed, LockInv,
           PlaceInv
  <1>16. FitInv'
    <2> SUFFICES ASSUME BlocksFit PROVE SmallBlocks'
      BY DEF FitInv
    <2> DEFINE b == First(call[w], Chunk)
    <2>1. /\ blocks \in Seq(FitBlock) /\ Fits(Piece(Len(call[w])))
          /\ \A q \in Writers : call[q] # None => Fits(Piece(Len(call[q])))
      BY <1>0, <1>1, NoneFacts DEF FitInv, SmallBlocks
    <2>2. /\ b \in Seq(Byte) /\ Len(b) = IF Chunk < Len(call[w]) THEN Chunk ELSE Len(call[w])
          /\ Len(call[w]) \in Nat
      BY <1>1, QioAssumption, FirstRest
    <2>3. Len(b) = Piece(Len(call[w])) /\ Len(b) <= Chunk
      BY <2>2, QioAssumption DEF Piece
    <2>4. b \in FitBlock
      BY <2>1, <2>2, <2>3 DEF FitBlock, Block
    <2> HIDE DEF b
    <2>5. blocks' \in Seq(FitBlock)
      <3>1. blocks' = Append(blocks, b)
        BY <1>2 DEF b
      <3> QED BY <2>1, <2>4, <3>1
    <2>6. rest' \in FitBlock \cup {None}
      BY <1>0, <1>7 DEF FitInv, SmallBlocks
    <2>7. call'[w] # None => Fits(Piece(Len(call'[w])))
      BY <1>1, <1>8, <2>1, <2>2, Smaller
    <2>8. \A q \in Writers : call'[q] # None => Fits(Piece(Len(call'[q])))
      BY <1>8, <2>1, <2>7
    <2> QED BY <2>5, <2>6, <2>8 DEF SmallBlocks
  <1>17. FlowInv'
    <2>1. wr = None /\ \A q \in Writers : pc'[q] # "wsleep"
      BY <1>0, <1>1, <1>6, NoneFacts DEF LockInv
    <2> QED BY <1>7, <2>1 DEF FlowInv, WriterSide, WriterWaits
  <1> QED BY <1>10, <1>11, <1>12, <1>13, <1>14, <1>15, <1>16, <1>17 DEF IInv

\* A writer finds no room, and says so.
LEMMA WriteFullInv ==
  ASSUME IInv, NEW w \in Users, WriteFull(w), UNCHANGED pipeVars
  PROVE  IInv'
  <1>0. /\ Types /\ PlaceInv /\ CallInv /\ LockInv /\ OpenInv /\ ReaderInv
        /\ FitInv /\ FlowInv
    BY DEF IInv
  <1>1. w \in Writers /\ pc[w] = "wtest"
    BY <1>0, NoneFacts DEF WriteFull, PlaceInv
  <1>2. /\ state' = state \cup {"Qflow"}
        /\ pc' = [q \in Users |-> IF q = w THEN "wsleep" ELSE pc[q]]
        /\ UNCHANGED <<blocks, len, eof, rest, wake, writes, rlock, wlock, rr,
                       wr, call, res, open, qref, pl>>
    BY <1>0, <1>1 DEF WriteFull, Goto, queue, locks, pipeVars, PlaceInv, CallInv
  <1>3. Types'
    BY <1>0, <1>2 DEF Types
  <1>4. PlaceInv'
    BY <1>0, <1>1, <1>2 DEF PlaceInv
  <1>5. CallInv'
    BY <1>0, <1>1, <1>2, NoneFacts DEF CallInv, PlaceInv
  <1>6. LockInv'
    BY <1>0, <1>1, <1>2, NoneFacts DEF LockInv, PlaceInv
  <1>7. OpenInv'
    BY <1>0, <1>1, <1>2, NoneFacts DEF OpenInv, PlaceInv
  <1>8. ReaderInv'
    BY <1>0, <1>1, <1>2, NoneFacts
       DEF ReaderInv, ReaderWaits, WakesReader, NotEmpty, Closed, LockInv,
           PlaceInv
  <1>9. FitInv'
    BY <1>0, <1>1, <1>2 DEF FitInv, SmallBlocks, CallInv, PlaceInv
  <1>10. FlowInv'
    BY <1>0, <1>1, <1>2, NoneFacts
       DEF FlowInv, WriterSide, WriterWaits, WakesWriter, Total, Closed,
           LockInv, PlaceInv
  <1> QED BY <1>3, <1>4, <1>5, <1>6, <1>7, <1>8, <1>9, <1>10 DEF IInv

\* Room has come before the writer sleeps.
LEMMA WriteAgainInv ==
  ASSUME IInv, NEW w \in Users, WriteSleep(w), NotFull, UNCHANGED pipeVars
  PROVE  IInv'
  <1>0. /\ Types /\ PlaceInv /\ CallInv /\ LockInv /\ OpenInv /\ ReaderInv
        /\ FitInv /\ FlowInv
    BY DEF IInv
  <1>1. w \in Writers /\ pc[w] = "wsleep"
    BY <1>0, NoneFacts DEF WriteSleep, PlaceInv
  <1>2. /\ pc' = [q \in Users |-> IF q = w THEN "wtest" ELSE pc[q]]
        /\ UNCHANGED <<blocks, len, state, eof, rest, wake, writes, rlock,
                       wlock, rr, wr, call, res, open, qref, pl>>
    BY <1>0, <1>1
       DEF WriteSleep, Goto, queue, locks, pipeVars, PlaceInv, CallInv
  <1>3. Types'
    BY <1>0, <1>2 DEF Types
  <1>4. PlaceInv'
    BY <1>0, <1>1, <1>2 DEF PlaceInv
  <1>5. CallInv'
    BY <1>0, <1>1, <1>2, NoneFacts DEF CallInv, PlaceInv
  <1>6. LockInv'
    BY <1>0, <1>1, <1>2, NoneFacts DEF LockInv, PlaceInv
  <1>7. OpenInv'
    BY <1>0, <1>1, <1>2, NoneFacts DEF OpenInv, PlaceInv
  <1>8. ReaderInv'
    BY <1>0, <1>1, <1>2, NoneFacts
       DEF ReaderInv, ReaderWaits, WakesReader, NotEmpty, Closed, LockInv,
           PlaceInv
  <1>9. FitInv'
    BY <1>0, <1>1, <1>2 DEF FitInv, SmallBlocks, CallInv, PlaceInv
  <1>10. FlowInv'
    BY <1>0, <1>1, <1>2, NoneFacts
       DEF FlowInv, WriterSide, WriterWaits, WakesWriter, Total, Closed,
           LockInv, PlaceInv
  <1> QED BY <1>3, <1>4, <1>5, <1>6, <1>7, <1>8, <1>9, <1>10 DEF IInv

\* The writer sleeps.
LEMMA WriteSleepInv ==
  ASSUME IInv, NEW w \in Users, WriteSleep(w), ~NotFull, UNCHANGED pipeVars
  PROVE  IInv'
  <1>0. /\ Types /\ PlaceInv /\ CallInv /\ LockInv /\ OpenInv /\ ReaderInv
        /\ FitInv /\ FlowInv
    BY DEF IInv
  <1>1. w \in Writers /\ pc[w] = "wsleep"
    BY <1>0, NoneFacts DEF WriteSleep, PlaceInv
  <1>2. /\ wr' = w
        /\ pc' = [q \in Users |-> IF q = w THEN "wasleep" ELSE pc[q]]
        /\ UNCHANGED <<blocks, len, state, eof, rest, wake, writes, rlock,
                       wlock, rr, call, res, open, qref, pl>>
    BY <1>0, <1>1
       DEF WriteSleep, Goto, queue, locks, pipeVars, PlaceInv, CallInv
  <1>3. Types'
    BY <1>0, <1>2 DEF Types
  <1>4. PlaceInv'
    BY <1>0, <1>1, <1>2 DEF PlaceInv
  <1>5. CallInv'
    BY <1>0, <1>1, <1>2, NoneFacts DEF CallInv, PlaceInv
  <1>6. LockInv'
    BY <1>0, <1>1, <1>2, NoneFacts DEF LockInv, PlaceInv
  <1>7. OpenInv'
    BY <1>0, <1>1, <1>2, NoneFacts DEF OpenInv, PlaceInv
  <1>8. ReaderInv'
    BY <1>0, <1>1, <1>2, NoneFacts
       DEF ReaderInv, ReaderWaits, WakesReader, NotEmpty, Closed, LockInv,
           PlaceInv
  <1>9. FitInv'
    BY <1>0, <1>1, <1>2 DEF FitInv, SmallBlocks, CallInv, PlaceInv
  <1>10. FlowInv'
    <2> SUFFICES ASSUME BlocksFit PROVE WriterSide'
      BY DEF FlowInv
    <2>1. ~Closed /\ len >= Limit /\ len \in Nat
      <3>1. len \in Nat
        BY <1>0, PositionsFinite DEF Types
      <3> QED BY <3>1, QioAssumption DEF NotFull
    <2>2. Total >= Limit /\ Total \in Nat
      <3>1. rest # None => Len(rest) \in Nat
        BY <1>0 DEF Types, Block
      <3> QED BY <2>1, <3>1, QioAssumption DEF Total
    <2>3. "Qflow" \in state /\ len >= Limit \div 2
      <3>1. ~(Total < Limit)
        BY <2>2, QioAssumption
      <3>2. "Qflow" \in state
        BY <1>0, <1>1, <2>1, <3>1 DEF FlowInv, WriterSide
      <3> QED BY <2>1, <3>2, QioAssumption
    <2>4. Total' = Total /\ Closed' = Closed
      BY <1>2 DEF Total, Closed
    <2>5. \A q \in Writers : pc'[q] = "wsleep" => pc[q] = "wsleep"
      BY <1>1, <1>2
    <2> QED BY <1>0, <1>2, <2>1, <2>3, <2>4, <2>5
       DEF FlowInv, WriterSide, WriterWaits, Closed
  <1> QED BY <1>3, <1>4, <1>5, <1>6, <1>7, <1>8, <1>9, <1>10 DEF IInv

\* The writer gives up q->wlock.
LEMMA WriteUnlockInv ==
  ASSUME IInv, NEW w \in Users, WriteUnlock(w), UNCHANGED pipeVars
  PROVE  IInv'
  <1>0. /\ Types /\ PlaceInv /\ CallInv /\ LockInv /\ OpenInv /\ ReaderInv
        /\ FitInv /\ FlowInv
    BY DEF IInv
  <1>1. w \in Writers /\ pc[w] = "wunlock"
    BY <1>0, NoneFacts DEF WriteUnlock, PlaceInv
  <1>2. /\ wlock' = None
        /\ pc' = [q \in Users |-> IF q = w THEN (IF call[w] = None THEN "done" ELSE "wlock") ELSE pc[q]]
        /\ wake' = [wake EXCEPT ![w] = FALSE]
        /\ UNCHANGED <<blocks, len, state, eof, rest, writes, rlock, rr, wr,
                       call, res, open, qref, pl>>
    BY <1>0, <1>1
       DEF WriteUnlock, Types, Goto, queue, locks, pipeVars, PlaceInv, CallInv
  <1>3. Types'
    BY <1>0, <1>2 DEF Types
  <1>4. PlaceInv'
    BY <1>0, <1>1, <1>2 DEF PlaceInv
  <1>5. CallInv'
    BY <1>0, <1>1, <1>2, NoneFacts DEF CallInv, PlaceInv
  <1>6. LockInv'
    BY <1>0, <1>1, <1>2, NoneFacts DEF LockInv, PlaceInv
  <1>7. OpenInv'
    BY <1>0, <1>1, <1>2, NoneFacts DEF OpenInv, PlaceInv
  <1>8. ReaderInv'
    BY <1>0, <1>1, <1>2, NoneFacts
       DEF ReaderInv, ReaderWaits, WakesReader, NotEmpty, Closed, LockInv,
           PlaceInv
  <1>9. FitInv'
    BY <1>0, <1>1, <1>2 DEF FitInv, SmallBlocks, CallInv, PlaceInv
  <1>10. FlowInv'
    BY <1>0, <1>1, <1>2, NoneFacts
       DEF FlowInv, WriterSide, WriterWaits, WakesWriter, Total, Closed,
           LockInv, PlaceInv
  <1> QED BY <1>3, <1>4, <1>5, <1>6, <1>7, <1>8, <1>9, <1>10 DEF IInv

\* A reader is interrupted.
LEMMA ErrorReaderInv ==
  ASSUME IInv, NEW p \in Users, Error(p), pc[p] = "rerror", UNCHANGED pipeVars
  PROVE  IInv'
  <1>0. /\ Types /\ PlaceInv /\ CallInv /\ LockInv /\ OpenInv /\ ReaderInv
        /\ FitInv /\ FlowInv
    BY DEF IInv
  <1>1. p \in Readers
    BY <1>0, NoneFacts DEF Error, PlaceInv
  <1>2. /\ rlock' = None
        /\ pc' = [q \in Users |-> IF q = p THEN "done" ELSE pc[q]]
        /\ call' = [q \in Users |-> IF q = p THEN None ELSE call[q]]
        /\ res' = [q \in Users |-> IF q = p THEN "interrupted" ELSE res[q]]
        /\ UNCHANGED <<blocks, len, state, eof, rest, wake, writes, wlock, rr,
                       wr, open, qref, pl>>
    BY <1>0, <1>1
       DEF Error, Return, Goto, queue, locks, pipeVars, PlaceInv, CallInv
  <1>3. "interrupted" # None
    BY NoneFacts DEF Outcomes
  <1>4. Types'
    BY <1>0, <1>2 DEF Types
  <1>5. PlaceInv'
    BY <1>0, <1>1, <1>2 DEF PlaceInv
  <1>6. CallInv'
    BY <1>0, <1>1, <1>2, <1>3, NoneFacts DEF CallInv, PlaceInv
  <1>7. LockInv'
    BY <1>0, <1>1, <1>2, NoneFacts DEF LockInv, PlaceInv
  <1>8. OpenInv'
    BY <1>0, <1>1, <1>2, NoneFacts DEF OpenInv, PlaceInv
  <1>9. ReaderInv'
    BY <1>0, <1>1, <1>2, NoneFacts
       DEF ReaderInv, ReaderWaits, WakesReader, NotEmpty, Closed, LockInv,
           PlaceInv
  <1>10. FitInv'
    BY <1>0, <1>1, <1>2 DEF FitInv, SmallBlocks, CallInv, PlaceInv
  <1>11. FlowInv'
    BY <1>0, <1>1, <1>2, NoneFacts
       DEF FlowInv, WriterSide, WriterWaits, WakesWriter, Total, Closed,
           LockInv, PlaceInv
  <1> QED BY <1>4, <1>5, <1>6, <1>7, <1>8, <1>9, <1>10, <1>11 DEF IInv

\* A writer is interrupted.
LEMMA ErrorWriterInv ==
  ASSUME IInv, NEW p \in Users, Error(p), pc[p] = "werror", UNCHANGED pipeVars
  PROVE  IInv'
  <1>0. /\ Types /\ PlaceInv /\ CallInv /\ LockInv /\ OpenInv /\ ReaderInv
        /\ FitInv /\ FlowInv
    BY DEF IInv
  <1>1. p \in Writers
    BY <1>0, NoneFacts DEF Error, PlaceInv
  <1>2. /\ wlock' = None
        /\ pc' = [q \in Users |-> IF q = p THEN "done" ELSE pc[q]]
        /\ call' = [q \in Users |-> IF q = p THEN None ELSE call[q]]
        /\ res' = [q \in Users |-> IF q = p THEN "interrupted" ELSE res[q]]
        /\ UNCHANGED <<blocks, len, state, eof, rest, wake, writes, rlock, rr,
                       wr, open, qref, pl>>
    BY <1>0, <1>1
       DEF Error, Return, Goto, queue, locks, pipeVars, PlaceInv, CallInv
  <1>3. "interrupted" # None
    BY NoneFacts DEF Outcomes
  <1>4. Types'
    BY <1>0, <1>2 DEF Types
  <1>5. PlaceInv'
    BY <1>0, <1>1, <1>2 DEF PlaceInv
  <1>6. CallInv'
    BY <1>0, <1>1, <1>2, <1>3, NoneFacts DEF CallInv, PlaceInv
  <1>7. LockInv'
    BY <1>0, <1>1, <1>2, NoneFacts DEF LockInv, PlaceInv
  <1>8. OpenInv'
    BY <1>0, <1>1, <1>2, NoneFacts DEF OpenInv, PlaceInv
  <1>9. ReaderInv'
    BY <1>0, <1>1, <1>2, NoneFacts
       DEF ReaderInv, ReaderWaits, WakesReader, NotEmpty, Closed, LockInv,
           PlaceInv
  <1>10. FitInv'
    BY <1>0, <1>1, <1>2 DEF FitInv, SmallBlocks, CallInv, PlaceInv
  <1>11. FlowInv'
    BY <1>0, <1>1, <1>2, NoneFacts
       DEF FlowInv, WriterSide, WriterWaits, WakesWriter, Total, Closed,
           LockInv, PlaceInv
  <1> QED BY <1>4, <1>5, <1>6, <1>7, <1>8, <1>9, <1>10, <1>11 DEF IInv

\* A call returns.
LEMMA DoneInv ==
  ASSUME IInv, NEW p \in Users, Done(p), UNCHANGED pipeVars
  PROVE  IInv'
  <1>0. /\ Types /\ PlaceInv /\ CallInv /\ LockInv /\ OpenInv /\ ReaderInv
        /\ FitInv /\ FlowInv
    BY DEF IInv
  <1>1. pc[p] = "done"
    BY <1>0, NoneFacts DEF Done, PlaceInv
  <1>2. /\ pc' = [q \in Users |-> IF q = p THEN "idle" ELSE pc[q]]
        /\ res' = [q \in Users |-> IF q = p THEN None ELSE res[q]]
        /\ UNCHANGED <<blocks, len, state, eof, rest, wake, writes, rlock,
                       wlock, rr, wr, call, open, qref, pl>>
    BY <1>0, <1>1 DEF Done, Goto, queue, locks, pipeVars, PlaceInv, CallInv
  <1>3. Types'
    BY <1>0, <1>2 DEF Types
  <1>4. PlaceInv'
    BY <1>0, <1>1, <1>2 DEF PlaceInv
  <1>5. CallInv'
    BY <1>0, <1>1, <1>2, NoneFacts DEF CallInv, PlaceInv
  <1>6. LockInv'
    BY <1>0, <1>1, <1>2, NoneFacts DEF LockInv, PlaceInv
  <1>7. OpenInv'
    BY <1>0, <1>1, <1>2, NoneFacts DEF OpenInv, PlaceInv
  <1>8. ReaderInv'
    BY <1>0, <1>1, <1>2, NoneFacts
       DEF ReaderInv, ReaderWaits, WakesReader, NotEmpty, Closed, LockInv,
           PlaceInv
  <1>9. FitInv'
    BY <1>0, <1>1, <1>2 DEF FitInv, SmallBlocks, CallInv, PlaceInv
  <1>10. FlowInv'
    BY <1>0, <1>1, <1>2, NoneFacts
       DEF FlowInv, WriterSide, WriterWaits, WakesWriter, Total, Closed,
           LockInv, PlaceInv
  <1> QED BY <1>3, <1>4, <1>5, <1>6, <1>7, <1>8, <1>9, <1>10 DEF IInv

\* A reader is pulled out of its sleep.
LEMMA InterruptReaderInv ==
  ASSUME IInv, NEW p \in Users, Interrupt(p), rr = p, UNCHANGED pipeVars
  PROVE  IInv'
  <1>0. /\ Types /\ PlaceInv /\ CallInv /\ LockInv /\ OpenInv /\ ReaderInv
        /\ FitInv /\ FlowInv
    BY DEF IInv
  <1>1. p \in Readers /\ pc[p] = "rasleep" /\ wr # p
    BY <1>0, NoneFacts DEF LockInv, PlaceInv
  <1>2. /\ rr' = None
        /\ pc' = [q \in Users |-> IF q = p THEN "rerror" ELSE pc[q]]
        /\ UNCHANGED <<blocks, len, state, eof, rest, wake, writes, rlock,
                       wlock, wr, call, res, open, qref, pl>>
    BY <1>0, <1>1, NoneFacts
       DEF Interrupt, LockInv, Goto, queue, locks, pipeVars, PlaceInv, CallInv
  <1>3. Types'
    BY <1>0, <1>2 DEF Types
  <1>4. PlaceInv'
    BY <1>0, <1>1, <1>2 DEF PlaceInv
  <1>5. CallInv'
    BY <1>0, <1>1, <1>2, NoneFacts DEF CallInv, PlaceInv
  <1>6. LockInv'
    BY <1>0, <1>1, <1>2, NoneFacts DEF LockInv, PlaceInv
  <1>7. OpenInv'
    BY <1>0, <1>1, <1>2, NoneFacts DEF OpenInv, PlaceInv
  <1>8. ReaderInv'
    BY <1>0, <1>1, <1>2, NoneFacts
       DEF ReaderInv, ReaderWaits, WakesReader, NotEmpty, Closed, LockInv,
           PlaceInv
  <1>9. FitInv'
    BY <1>0, <1>1, <1>2 DEF FitInv, SmallBlocks, CallInv, PlaceInv
  <1>10. FlowInv'
    BY <1>0, <1>1, <1>2, NoneFacts
       DEF FlowInv, WriterSide, WriterWaits, WakesWriter, Total, Closed,
           LockInv, PlaceInv
  <1> QED BY <1>3, <1>4, <1>5, <1>6, <1>7, <1>8, <1>9, <1>10 DEF IInv

\* A writer is pulled out of its sleep.
LEMMA InterruptWriterInv ==
  ASSUME IInv, NEW p \in Users, Interrupt(p), wr = p, UNCHANGED pipeVars
  PROVE  IInv'
  <1>0. /\ Types /\ PlaceInv /\ CallInv /\ LockInv /\ OpenInv /\ ReaderInv
        /\ FitInv /\ FlowInv
    BY DEF IInv
  <1>1. p \in Writers /\ pc[p] = "wasleep" /\ rr # p
    BY <1>0, NoneFacts DEF LockInv, PlaceInv
  <1>2. /\ wr' = None
        /\ pc' = [q \in Users |-> IF q = p THEN "werror" ELSE pc[q]]
        /\ UNCHANGED <<blocks, len, state, eof, rest, wake, writes, rlock,
                       wlock, rr, call, res, open, qref, pl>>
    BY <1>0, <1>1, NoneFacts
       DEF Interrupt, LockInv, Goto, queue, locks, pipeVars, PlaceInv, CallInv
  <1>3. Types'
    BY <1>0, <1>2 DEF Types
  <1>4. PlaceInv'
    BY <1>0, <1>1, <1>2 DEF PlaceInv
  <1>5. CallInv'
    BY <1>0, <1>1, <1>2, NoneFacts DEF CallInv, PlaceInv
  <1>6. LockInv'
    BY <1>0, <1>1, <1>2, NoneFacts DEF LockInv, PlaceInv
  <1>7. OpenInv'
    BY <1>0, <1>1, <1>2, NoneFacts DEF OpenInv, PlaceInv
  <1>8. ReaderInv'
    BY <1>0, <1>1, <1>2, NoneFacts
       DEF ReaderInv, ReaderWaits, WakesReader, NotEmpty, Closed, LockInv,
           PlaceInv
  <1>9. FitInv'
    BY <1>0, <1>1, <1>2 DEF FitInv, SmallBlocks, CallInv, PlaceInv
  <1>10. FlowInv'
    BY <1>0, <1>1, <1>2, NoneFacts
       DEF FlowInv, WriterSide, WriterWaits, WakesWriter, Total, Closed,
           LockInv, PlaceInv
  <1> QED BY <1>3, <1>4, <1>5, <1>6, <1>7, <1>8, <1>9, <1>10 DEF IInv

\* The writer wakes the reader that sleeps.
LEMMA WriteWakeInv ==
  ASSUME IInv, NEW w \in Users, WriteWake(w), UNCHANGED pipeVars
  PROVE  IInv'
  <1>0. /\ Types /\ PlaceInv /\ CallInv /\ LockInv /\ OpenInv /\ ReaderInv
        /\ FitInv /\ FlowInv
    BY DEF IInv
  <1>1. w \in Writers /\ pc[w] = "wwake"
    BY <1>0, NoneFacts DEF WriteWake, PlaceInv
  <1>2. /\ rr' = None
        /\ pc' = [q \in Users |-> IF q = rr THEN "rtest" ELSE IF q = w THEN "wunlock" ELSE pc[q]]
        /\ UNCHANGED <<blocks, len, state, eof, rest, wake, writes, rlock,
                       wlock, wr, call, res, open, qref, pl>>
    BY <1>0, <1>1 DEF WriteWake, WakeupReader, queue, locks, pipeVars
  <1>3. \A q \in Users : q = rr => q \in Readers /\ pc[q] = "rasleep"
    BY <1>0, NoneFacts DEF LockInv
  <1>4. Types'
    BY <1>0, <1>2 DEF Types
  <1>5. PlaceInv'
    BY <1>0, <1>1, <1>2, <1>3 DEF PlaceInv
  <1>6. CallInv'
    BY <1>0, <1>1, <1>2, <1>3, NoneFacts DEF CallInv, PlaceInv
  <1>7. LockInv'
    BY <1>0, <1>1, <1>2, <1>3, NoneFacts DEF LockInv, PlaceInv
  <1>8. OpenInv'
    BY <1>0, <1>1, <1>2, <1>3, NoneFacts DEF OpenInv, PlaceInv
  <1>9. ReaderInv'
    BY <1>0, <1>1, <1>2, <1>3, NoneFacts
       DEF ReaderInv, ReaderWaits, WakesReader, NotEmpty, Closed, LockInv,
           PlaceInv
  <1>10. FitInv'
    BY <1>0, <1>1, <1>2 DEF FitInv, SmallBlocks, CallInv, PlaceInv
  <1>11. FlowInv'
    BY <1>0, <1>1, <1>2, <1>3, NoneFacts
       DEF FlowInv, WriterSide, WriterWaits, WakesWriter, Total, Closed,
           LockInv, PlaceInv
  <1> QED BY <1>4, <1>5, <1>6, <1>7, <1>8, <1>9, <1>10, <1>11 DEF IInv

\* The reader wakes the writer that sleeps.
LEMMA ReadWakeInv ==
  ASSUME IInv, NEW r \in Users, ReadWake(r), UNCHANGED pipeVars
  PROVE  IInv'
  <1>0. /\ Types /\ PlaceInv /\ CallInv /\ LockInv /\ OpenInv /\ ReaderInv
        /\ FitInv /\ FlowInv
    BY DEF IInv
  <1>1. r \in Readers /\ pc[r] = "rwake"
    BY <1>0, NoneFacts DEF ReadWake, PlaceInv
  <1>2. /\ wr' = None
        /\ pc' = [q \in Users |-> IF q = wr THEN "wtest" ELSE IF q = r THEN "runlock" ELSE pc[q]]
        /\ UNCHANGED <<blocks, len, state, eof, rest, wake, writes, rlock,
                       wlock, rr, call, res, open, qref, pl>>
    BY <1>0, <1>1 DEF ReadWake, WakeupWriter, queue, locks, pipeVars
  <1>3. \A q \in Users : q = wr => q \in Writers /\ pc[q] = "wasleep"
    BY <1>0, NoneFacts DEF LockInv
  <1>4. Types'
    BY <1>0, <1>2 DEF Types
  <1>5. PlaceInv'
    BY <1>0, <1>1, <1>2, <1>3 DEF PlaceInv
  <1>6. CallInv'
    BY <1>0, <1>1, <1>2, <1>3, NoneFacts DEF CallInv, PlaceInv
  <1>7. LockInv'
    BY <1>0, <1>1, <1>2, <1>3, NoneFacts DEF LockInv, PlaceInv
  <1>8. OpenInv'
    BY <1>0, <1>1, <1>2, <1>3, NoneFacts DEF OpenInv, PlaceInv
  <1>9. ReaderInv'
    BY <1>0, <1>1, <1>2, <1>3, NoneFacts
       DEF ReaderInv, ReaderWaits, WakesReader, NotEmpty, Closed, LockInv,
           PlaceInv
  <1>10. FitInv'
    BY <1>0, <1>1, <1>2 DEF FitInv, SmallBlocks, CallInv, PlaceInv
  <1>11. FlowInv'
    BY <1>0, <1>1, <1>2, <1>3, NoneFacts
       DEF FlowInv, WriterSide, WriterWaits, WakesWriter, Total, Closed,
           LockInv, PlaceInv
  <1> QED BY <1>4, <1>5, <1>6, <1>7, <1>8, <1>9, <1>10, <1>11 DEF IInv

\* The close of an end wakes the reader.
LEMMA PipeWakeReaderInv ==
  ASSUME IInv, NEW p \in Users, PipeWakeReader(p)
  PROVE  IInv'
  <1>0. /\ Types /\ PlaceInv /\ CallInv /\ LockInv /\ OpenInv /\ ReaderInv
        /\ FitInv /\ FlowInv
    BY DEF IInv
  <1>1. pc[p] = "pwaker"
    BY <1>0, NoneFacts DEF PipeWakeReader, PlaceInv
  <1>2. /\ rr' = None
        /\ pc' = [q \in Users |-> IF q = rr THEN "rtest" ELSE IF q = p THEN "pwakew" ELSE pc[q]]
        /\ UNCHANGED <<blocks, len, state, eof, rest, wake, writes, rlock,
                       wlock, wr, call, res, open, qref, pl>>
    BY <1>0, <1>1 DEF PipeWakeReader, WakeupReader, queue, locks, pipeVars
  <1>3. \A q \in Users : q = rr => q \in Readers /\ pc[q] = "rasleep"
    BY <1>0, NoneFacts DEF LockInv
  <1>4. Types'
    BY <1>0, <1>2 DEF Types
  <1>5. PlaceInv'
    BY <1>0, <1>1, <1>2, <1>3 DEF PlaceInv
  <1>6. CallInv'
    BY <1>0, <1>1, <1>2, <1>3, NoneFacts DEF CallInv, PlaceInv
  <1>7. LockInv'
    BY <1>0, <1>1, <1>2, <1>3, NoneFacts DEF LockInv, PlaceInv
  <1>8. OpenInv'
    BY <1>0, <1>1, <1>2, <1>3, NoneFacts DEF OpenInv, PlaceInv
  <1>9. ReaderInv'
    BY <1>0, <1>1, <1>2, <1>3, NoneFacts
       DEF ReaderInv, ReaderWaits, WakesReader, NotEmpty, Closed, LockInv,
           PlaceInv
  <1>10. FitInv'
    BY <1>0, <1>1, <1>2 DEF FitInv, SmallBlocks, CallInv, PlaceInv
  <1>11. FlowInv'
    BY <1>0, <1>1, <1>2, <1>3, NoneFacts
       DEF FlowInv, WriterSide, WriterWaits, WakesWriter, Total, Closed,
           LockInv, PlaceInv
  <1> QED BY <1>4, <1>5, <1>6, <1>7, <1>8, <1>9, <1>10, <1>11 DEF IInv

\* The close of an end wakes the writer.
LEMMA PipeWakeWriterInv ==
  ASSUME IInv, NEW p \in Users, PipeWakeWriter(p)
  PROVE  IInv'
  <1>0. /\ Types /\ PlaceInv /\ CallInv /\ LockInv /\ OpenInv /\ ReaderInv
        /\ FitInv /\ FlowInv
    BY DEF IInv
  <1>1. pc[p] = "pwakew"
    BY <1>0, NoneFacts DEF PipeWakeWriter, PlaceInv
  <1>2. /\ wr' = None
        /\ pc' = [q \in Users |-> IF q = wr THEN "wtest" ELSE IF q = p THEN "pcheck" ELSE pc[q]]
        /\ UNCHANGED <<blocks, len, state, eof, rest, wake, writes, rlock,
                       wlock, rr, call, res, open, qref, pl>>
    BY <1>0, <1>1 DEF PipeWakeWriter, WakeupWriter, queue, locks, pipeVars
  <1>3. \A q \in Users : q = wr => q \in Writers /\ pc[q] = "wasleep"
    BY <1>0, NoneFacts DEF LockInv
  <1>4. Types'
    BY <1>0, <1>2 DEF Types
  <1>5. PlaceInv'
    BY <1>0, <1>1, <1>2, <1>3 DEF PlaceInv
  <1>6. CallInv'
    BY <1>0, <1>1, <1>2, <1>3, NoneFacts DEF CallInv, PlaceInv
  <1>7. LockInv'
    BY <1>0, <1>1, <1>2, <1>3, NoneFacts DEF LockInv, PlaceInv
  <1>8. OpenInv'
    BY <1>0, <1>1, <1>2, <1>3, NoneFacts DEF OpenInv, PlaceInv
  <1>9. ReaderInv'
    BY <1>0, <1>1, <1>2, <1>3, NoneFacts
       DEF ReaderInv, ReaderWaits, WakesReader, NotEmpty, Closed, LockInv,
           PlaceInv
  <1>10. FitInv'
    BY <1>0, <1>1, <1>2 DEF FitInv, SmallBlocks, CallInv, PlaceInv
  <1>11. FlowInv'
    BY <1>0, <1>1, <1>2, <1>3, NoneFacts
       DEF FlowInv, WriterSide, WriterWaits, WakesWriter, Total, Closed,
           LockInv, PlaceInv
  <1> QED BY <1>4, <1>5, <1>6, <1>7, <1>8, <1>9, <1>10, <1>11 DEF IInv

\* The processes that have an end open.
At(e) == {p \in open : End(p) = e}

\* An end is 0 or 1, and nobody has an end open that is not counted.
LEMMA Ends ==
  ASSUME OpenInv
  PROVE  /\ \A p \in Users : End(p) \in 0 .. 1
         /\ \A e \in 0 .. 1 : IsFiniteSet(At(e)) /\ qref[e] = Cardinality(At(e))
         /\ \A p \in Users : qref[End(p)] = 0 => \A q \in open : End(q) # End(p)
         /\ qref[0] = 0 /\ qref[1] = 0 => open = {}
  <1>1. \A p \in Users : End(p) \in 0 .. 1
    BY DEF End
  <1>2. ASSUME NEW e \in 0 .. 1
        PROVE  IsFiniteSet(At(e)) /\ qref[e] = Cardinality(At(e))
    <2>1. IsFiniteSet(open) /\ At(e) \subseteq open
      BY DEF OpenInv, At
    <2>2. IsFiniteSet(At(e))
      BY <2>1, FS_Subset
    <2> QED BY <2>2 DEF OpenInv, At
  <1>3. ASSUME NEW e \in 0 .. 1, qref[e] = 0 PROVE \A q \in open : End(q) # e
    <2>1. At(e) = {}
      BY <1>2, <1>3, FS_EmptySet
    <2> QED BY <2>1 DEF At
  <1>4. ASSUME qref[0] = 0, qref[1] = 0 PROVE open = {}
    <2>1. ASSUME NEW q \in open PROVE FALSE
      <3>1. End(q) = 0 \/ End(q) = 1
        BY DEF End
      <3>2. 0 \in 0 .. 1 /\ 1 \in 0 .. 1
        OBVIOUS
      <3> QED BY <1>3, <1>4, <3>1, <3>2
    <2> QED BY <2>1
  <1> QED BY <1>1, <1>2, <1>3, <1>4

\* A process opens its end, or clones its channel.
LEMMA PipeOpenInv ==
  ASSUME IInv, NEW p \in Users, PipeOpen(p)
  PROVE  IInv'
  <1>0. /\ Types /\ PlaceInv /\ CallInv /\ LockInv /\ OpenInv /\ ReaderInv
        /\ FitInv /\ FlowInv
    BY DEF IInv
  <1>1. p \notin open /\ pc[p] = "idle" /\ pl = None
    BY <1>0, NoneFacts DEF PipeOpen, PlaceInv
  <1>2. /\ open' = open \cup {p}
        /\ qref' = [qref EXCEPT ![End(p)] = @ + 1]
        /\ UNCHANGED <<blocks, len, state, eof, rest, wake, writes, rlock,
                       wlock, rr, wr, call, res, pc, pl>>
    BY <1>0, <1>1 DEF PipeOpen, queue, locks, qioVars
  <1>3. Types'
    BY <1>0, <1>2 DEF Types
  <1>4. PlaceInv'
    BY <1>0, <1>1, <1>2 DEF PlaceInv
  <1>5. CallInv'
    BY <1>0, <1>1, <1>2, NoneFacts DEF CallInv, PlaceInv
  <1>6. LockInv'
    BY <1>0, <1>1, <1>2, NoneFacts DEF LockInv, PlaceInv
  <1>7. OpenInv'
    <2>1. ASSUME NEW e \in 0 .. 1 PROVE qref'[e] = Cardinality({q \in open' : End(q) = e})
      <3>1. IsFiniteSet(At(e)) /\ qref[e] = Cardinality(At(e)) /\ p \notin At(e) /\ qref[e] \in Nat
        BY <1>0, <1>1, Ends DEF At, OpenInv
      <3>2. CASE e = End(p)
        <4>1. {q \in open' : End(q) = e} = At(e) \cup {p}
          BY <1>2, <3>2 DEF At
        <4>2. qref'[e] = qref[e] + 1
          BY <1>0, <1>2, <3>2 DEF OpenInv
        <4> QED BY <3>1, <4>1, <4>2, FS_AddElement
      <3>3. CASE e # End(p)
        <4>1. {q \in open' : End(q) = e} = At(e)
          BY <1>2, <3>3 DEF At
        <4>2. qref'[e] = qref[e]
          BY <1>0, <1>2, <3>3 DEF OpenInv
        <4> QED BY <3>1, <4>1, <4>2
      <3> QED BY <3>2, <3>3
    <2>2. open' \subseteq Users /\ IsFiniteSet(open')
      BY <1>0, <1>2, FS_AddElement DEF OpenInv
    <2>3. qref' \in [0 .. 1 -> Nat]
      BY <1>0, <1>2, Ends DEF OpenInv
    <2>4. \A q \in Users : pc'[q] # "pend"
      BY <1>0, <1>1, <1>2, NoneFacts DEF OpenInv
    <2> QED BY <1>0, <1>1, <1>2, <2>1, <2>2, <2>3, <2>4, NoneFacts DEF OpenInv
  <1>8. ReaderInv'
    BY <1>0, <1>1, <1>2, NoneFacts
       DEF ReaderInv, ReaderWaits, WakesReader, NotEmpty, Closed, LockInv,
           PlaceInv
  <1>9. FitInv'
    BY <1>0, <1>1, <1>2 DEF FitInv, SmallBlocks, CallInv, PlaceInv
  <1>10. FlowInv'
    BY <1>0, <1>1, <1>2, NoneFacts
       DEF FlowInv, WriterSide, WriterWaits, WakesWriter, Total, Closed,
           LockInv, PlaceInv
  <1> QED BY <1>3, <1>4, <1>5, <1>6, <1>7, <1>8, <1>9, <1>10 DEF IInv

\* A process closes its channel.
LEMMA PipeCloseInv ==
  ASSUME IInv, NEW p \in Users, PipeClose(p)
  PROVE  IInv'
  <1>0. /\ Types /\ PlaceInv /\ CallInv /\ LockInv /\ OpenInv /\ ReaderInv
        /\ FitInv /\ FlowInv
    BY DEF IInv
  <1>1. p \in open /\ pc[p] = "idle" /\ pl = None
    BY <1>0, NoneFacts DEF PipeClose, PlaceInv
  <1>2. /\ open' = open \ {p} /\ pl' = p
        /\ qref' = [qref EXCEPT ![End(p)] = @ - 1]
        /\ pc' = [q \in Users |-> IF q = p THEN (IF qref'[End(p)] = 0 THEN "pend" ELSE "pcheck") ELSE pc[q]]
        /\ UNCHANGED <<blocks, len, state, eof, rest, wake, writes, rlock,
                       wlock, rr, wr, call, res>>
    BY <1>0, <1>1 DEF PipeClose, Goto, PlaceInv, queue, locks
  <1>3. PICK c \in {"pend", "pcheck"} :
          /\ pc' = [q \in Users |-> IF q = p THEN c ELSE pc[q]]
          /\ (c = "pend" <=> qref'[End(p)] = 0)
    BY <1>2
  <1>4. Types'
    BY <1>0, <1>2 DEF Types
  <1>5. PlaceInv'
    BY <1>0, <1>1, <1>2, <1>3 DEF PlaceInv
  <1>6. CallInv'
    BY <1>0, <1>1, <1>2, <1>3, NoneFacts DEF CallInv, PlaceInv
  <1>7. LockInv'
    BY <1>0, <1>1, <1>2, <1>3, NoneFacts DEF LockInv, PlaceInv
  <1>8. OpenInv'
    <2>1. ASSUME NEW e \in 0 .. 1
          PROVE  qref'[e] \in Nat /\ qref'[e] = Cardinality({q \in open' : End(q) = e})
      <3>1. IsFiniteSet(At(e)) /\ qref[e] = Cardinality(At(e)) /\ qref[e] \in Nat
        BY <1>0, <1>1, Ends DEF At, OpenInv
      <3>2. CASE e = End(p)
        <4>1. {q \in open' : End(q) = e} = At(e) \ {p} /\ p \in At(e)
          BY <1>1, <1>2, <3>2 DEF At
        <4>2. qref'[e] = qref[e] - 1
          BY <1>0, <1>2, <3>2 DEF OpenInv
        <4>3. IsFiniteSet(At(e) \ {p}) /\ Cardinality(At(e) \ {p}) = Cardinality(At(e)) - 1
          BY <3>1, <4>1, FS_RemoveElement
        <4> QED BY <3>1, <4>1, <4>2, <4>3, FS_CardinalityType
      <3>3. CASE e # End(p)
        <4>1. {q \in open' : End(q) = e} = At(e)
          BY <1>2, <3>3 DEF At
        <4>2. qref'[e] = qref[e]
          BY <1>0, <1>2, <3>3 DEF OpenInv
        <4> QED BY <3>1, <4>1, <4>2
      <3> QED BY <3>2, <3>3
    <2>2. open' \subseteq Users /\ IsFiniteSet(open')
      BY <1>0, <1>2, FS_RemoveElement DEF OpenInv
    <2>3. qref' \in [0 .. 1 -> Nat]
      BY <1>0, <1>2, <2>1 DEF OpenInv
    <2>4. \A q \in Users : (pc'[q] \in Closing <=> pl' = q) /\ (pc'[q] \notin Rests => q \in open')
      BY <1>0, <1>1, <1>2, <1>3, NoneFacts DEF OpenInv, PlaceInv
    <2>5. \A q \in Users : pc'[q] = "pend" => qref'[End(q)] = 0
      BY <1>0, <1>1, <1>3, NoneFacts DEF OpenInv
    <2> QED BY <1>0, <1>1, <1>2, <2>1, <2>2, <2>3, <2>4, <2>5, NoneFacts
       DEF OpenInv
  <1>9. ReaderInv'
    BY <1>0, <1>1, <1>2, <1>3, NoneFacts
       DEF ReaderInv, ReaderWaits, WakesReader, NotEmpty, Closed, LockInv,
           PlaceInv
  <1>10. FitInv'
    BY <1>0, <1>1, <1>2 DEF FitInv, SmallBlocks, CallInv, PlaceInv
  <1>11. FlowInv'
    BY <1>0, <1>1, <1>2, <1>3, NoneFacts
       DEF FlowInv, WriterSide, WriterWaits, WakesWriter, Total, Closed,
           LockInv, PlaceInv
  <1> QED BY <1>4, <1>5, <1>6, <1>7, <1>8, <1>9, <1>10, <1>11 DEF IInv

\* The last close of an end closes the queue, or hangs it up.
LEMMA PipeEndInv ==
  ASSUME IInv, NEW p \in Users, PipeEnd(p)
  PROVE  IInv'
  <1>0. /\ Types /\ PlaceInv /\ CallInv /\ LockInv /\ OpenInv /\ ReaderInv
        /\ FitInv /\ FlowInv
    BY DEF IInv
  <1>1. pc[p] = "pend"
    BY <1>0, NoneFacts DEF PipeEnd, PlaceInv
  <1>2. /\ "Qclosed" \in state'
        /\ pc' = [q \in Users |-> IF q = p THEN "pwaker" ELSE pc[q]]
        /\ UNCHANGED <<eof, rest, wake, writes, rlock, wlock, rr, wr, call, res,
                       open, qref, pl>>
    BY <1>0, <1>1 DEF PipeEnd, QClose, QHangup, Goto, PlaceInv, locks, pipeVars
  <1>3. /\ state' \subseteq {"Qstarve", "Qclosed", "Qflow"}
        /\ (blocks' = <<>> /\ len' = 0) \/ (blocks' = blocks /\ len' = len)
    BY <1>0 DEF PipeEnd, QClose, QHangup, Types
  <1>4. <<>> \in Seq(Block) /\ <<>> \in Seq(FitBlock) /\ Bytes(<<>>) = 0
    BY BytesEmpty
  <1>5. Types'
    BY <1>0, <1>1, <1>2, <1>3, <1>4, NoneFacts DEF Types
  <1>6. PlaceInv'
    BY <1>0, <1>1, <1>2 DEF PlaceInv
  <1>7. CallInv'
    BY <1>0, <1>1, <1>2, NoneFacts DEF CallInv, PlaceInv
  <1>8. LockInv'
    BY <1>0, <1>1, <1>2, NoneFacts DEF LockInv, PlaceInv
  <1>9. OpenInv'
    BY <1>0, <1>1, <1>2, NoneFacts DEF OpenInv, PlaceInv
  <1>10. ReaderInv'
    BY <1>0, <1>1, <1>2, <1>3, NoneFacts
       DEF ReaderInv, ReaderWaits, WakesReader, NotEmpty, Closed, LockInv,
           PlaceInv
  <1>11. FitInv'
    BY <1>0, <1>1, <1>2, <1>3, <1>4, NoneFacts
       DEF FitInv, SmallBlocks, CallInv, PlaceInv
  <1>12. FlowInv'
    BY <1>0, <1>1, <1>2, <1>3, NoneFacts
       DEF FlowInv, WriterSide, WriterWaits, WakesWriter, Total, Closed,
           LockInv, PlaceInv
  <1> QED BY <1>5, <1>6, <1>7, <1>8, <1>9, <1>10, <1>11, <1>12 DEF IInv

\* A process has closed; a pipe that nobody has open is as new.
LEMMA PipeCheckInv ==
  ASSUME IInv, NEW p \in Users, PipeCheck(p)
  PROVE  IInv'
  <1>0. /\ Types /\ PlaceInv /\ CallInv /\ LockInv /\ OpenInv /\ ReaderInv
        /\ FitInv /\ FlowInv
    BY DEF IInv
  <1>1. pc[p] = "pcheck"
    BY <1>0, NoneFacts DEF PipeCheck, PlaceInv
  <1>2. /\ pl' = None
        /\ pc' = [q \in Users |-> IF q = p THEN "idle" ELSE pc[q]]
        /\ UNCHANGED <<blocks, len, rest, wake, writes, rlock, wlock, rr, wr,
                       call, res, open, qref>>
    BY <1>0, <1>1 DEF PipeCheck, QReopen, Goto, PlaceInv, queue, locks
  <1>3. /\ state' \subseteq {"Qstarve", "Qclosed", "Qflow"}
        /\ eof' \in 0 .. EofMax + 1
        /\ state' = state \/ open = {}
    <2>1. CASE qref[0] = 0 /\ qref[1] = 0
      <3>1. open = {}
        BY <1>0, <2>1, Ends
      <3>2. state' = (state \ {"Qclosed"}) \cup {"Qstarve"} /\ eof' = 0
        BY <2>1 DEF PipeCheck, QReopen
      <3>3. 0 \in 0 .. EofMax + 1
        BY QioAssumption
      <3> QED BY <1>0, <3>1, <3>2, <3>3 DEF Types
    <2>2. CASE ~(qref[0] = 0 /\ qref[1] = 0)
      BY <1>0, <2>2 DEF PipeCheck, Types, queue
    <2> QED BY <2>1, <2>2
  <1>4. open = {} => \A q \in Users : pc[q] \in Rests
    BY <1>0 DEF OpenInv
  <1>5. Types'
    BY <1>0, <1>2, <1>3 DEF Types
  <1>6. PlaceInv'
    BY <1>0, <1>1, <1>2, <1>4 DEF PlaceInv
  <1>7. CallInv'
    BY <1>0, <1>1, <1>2, <1>4, NoneFacts DEF CallInv, PlaceInv
  <1>8. LockInv'
    BY <1>0, <1>1, <1>2, <1>4, NoneFacts DEF LockInv, PlaceInv
  <1>9. OpenInv'
    BY <1>0, <1>1, <1>2, <1>3, <1>4, NoneFacts DEF OpenInv, PlaceInv
  <1>10. ReaderInv'
    BY <1>0, <1>1, <1>2, <1>3, <1>4, NoneFacts
       DEF ReaderInv, ReaderWaits, WakesReader, NotEmpty, Closed, LockInv,
           PlaceInv
  <1>11. FitInv'
    BY <1>0, <1>1, <1>2 DEF FitInv, SmallBlocks, CallInv, PlaceInv
  <1>12. FlowInv'
    BY <1>0, <1>1, <1>2, <1>3, <1>4, NoneFacts
       DEF FlowInv, WriterSide, WriterWaits, WakesWriter, Total, Closed,
           LockInv, PlaceInv
  <1> QED BY <1>5, <1>6, <1>7, <1>8, <1>9, <1>10, <1>11, <1>12 DEF IInv

\* A pipe is empty and nobody has it open.
LEMMA InitIInv == Init => IInv
  <1> SUFFICES ASSUME Init PROVE IInv
    OBVIOUS
  <1> USE DEF Init, QioInit
  <1>1. Types
    <2>1. <<>> \in Seq(Block) /\ Bytes(<<>>) = 0
      BY BytesEmpty
    <2>2. 0 \in 0 .. EofMax + 1
      BY QioAssumption
    <2> QED BY <2>1, <2>2 DEF Types
  <1>2. PlaceInv
    BY DEF PlaceInv
  <1>3. CallInv
    BY DEF CallInv
  <1>4. LockInv
    BY NoneFacts DEF LockInv
  <1>5. OpenInv
    <2>1. IsFiniteSet(open) /\ \A e \in 0 .. 1 : {p \in open : End(p) = e} = {}
      BY FS_EmptySet
    <2>2. \A e \in 0 .. 1 : qref[e] = Cardinality({p \in open : End(p) = e})
      BY <2>1, FS_EmptySet
    <2> QED BY <2>1, <2>2, NoneFacts DEF OpenInv
  <1>6. ReaderInv
    BY DEF ReaderInv, ReaderWaits
  <1>7. FitInv
    BY DEF FitInv, SmallBlocks
  <1>8. FlowInv
    BY DEF FlowInv, WriterSide, WriterWaits
  <1> QED BY <1>1, <1>2, <1>3, <1>4, <1>5, <1>6, <1>7, <1>8 DEF IInv

\* A step of qread or qbread.
LEMMA ReadStepInv ==
  ASSUME IInv, NEW p \in Users, ReadStep(p), UNCHANGED pipeVars
  PROVE  IInv'
  <1>1. CASE ReadTest(p)
    BY <1>1, ReadTestEofInv, ReadTestStarveInv
  <1>2. CASE ReadSleep(p)
    BY <1>2, ReadAgainInv, ReadSleepInv
  <1>3. CASE ReadTake(p)
    BY <1>3, ReadTakeInv, ReadPartInv
  <1>4. CASE ReadEof(p) \/ ReadSplit(p) \/ ReadWake(p) \/ ReadUnlock(p)
    BY <1>4, ReadEofInv, ReadSplitInv, ReadWakeInv, ReadUnlockInv
  <1> QED BY <1>1, <1>2, <1>3, <1>4 DEF ReadStep

\* A step of qwrite or qbwrite.
LEMMA WriteStepInv ==
  ASSUME IInv, NEW p \in Users, WriteStep(p), UNCHANGED pipeVars
  PROVE  IInv'
  <1>1. CASE WriteSleep(p)
    BY <1>1, WriteAgainInv, WriteSleepInv
  <1>2. CASE WriteClosed(p) \/ WriteAppend(p) \/ WriteFull(p) \/ WriteWake(p) \/ WriteUnlock(p)
    BY <1>2, WriteClosedInv, WriteAppendInv, WriteFullInv, WriteWakeInv, WriteUnlockInv
  <1> QED BY <1>1, <1>2 DEF WriteStep

\* Every step keeps the invariant.
LEMMA NextIInv == IInv /\ [Next]_vars => IInv'
  <1> SUFFICES ASSUME IInv, [Next]_vars PROVE IInv'
    OBVIOUS
  <1>1. CASE UNCHANGED vars
    <2>1. UNCHANGED <<blocks, len, state, eof, rlock, wlock, rr, wr, rest, wake, pc, call,
                      res, writes, open, qref, pl>>
      BY <1>1 DEF vars, qioVars, queue, locks, pipeVars
    <2>2. Types'
      BY <2>1 DEF IInv, Types
    <2>3. PlaceInv'
      BY <2>1 DEF IInv, PlaceInv
    <2>4. CallInv'
      BY <2>1 DEF IInv, CallInv
    <2>5. LockInv'
      BY <2>1 DEF IInv, LockInv
    <2>6. OpenInv'
      BY <2>1 DEF IInv, OpenInv
    <2>7. ReaderInv'
      BY <2>1 DEF IInv, ReaderInv, ReaderWaits, WakesReader, NotEmpty, Closed
    <2>8. FitInv'
      BY <2>1 DEF IInv, FitInv, SmallBlocks
    <2>9. FlowInv'
      BY <2>1
         DEF IInv, FlowInv, WriterSide, WriterWaits, WakesWriter, Total, Closed
    <2> QED BY <2>2, <2>3, <2>4, <2>5, <2>6, <2>7, <2>8, <2>9 DEF IInv
  <1>2. ASSUME NEW p \in Users, PipeOpen(p) \/ PipeClose(p) \/ PipeStep(p)
        PROVE  IInv'
    BY <1>2, PipeOpenInv, PipeCloseInv, PipeEndInv, PipeWakeReaderInv, PipeWakeWriterInv,
       PipeCheckInv DEF PipeStep
  <1>3. ASSUME NEW p \in Users, PipeCall(p) \/ Lock(p)
        PROVE  IInv'
    BY <1>3, QReadInv, QWriteInv, RLockInv, WLockInv DEF PipeCall, Lock
  <1>4. ASSUME NEW p \in Users, Run(p)
        PROVE  IInv'
    <2>1. CASE Error(p)
      BY <1>4, <2>1, ErrorReaderInv, ErrorWriterInv DEF Run, Error
    <2> QED BY <1>4, <2>1, ReadStepInv, WriteStepInv, DoneInv DEF Run
  <1>5. ASSUME NEW p \in Users, Interrupt(p), UNCHANGED pipeVars
        PROVE  IInv'
    BY <1>5, InterruptReaderInv, InterruptWriterInv DEF Interrupt
  <1> QED BY <1>1, <1>2, <1>3, <1>4, <1>5 DEF Next

\* The invariant holds in every state of a pipe.
THEOREM PipeSafe == Spec => []IInv
  BY InitIInv, NextIInv, PTL DEF Spec

\* A lock of the queue is held by who is where it is needed; q->len is the number
\* of bytes queued, while qbread has split a block and after; and q->rr and q->wr
\* name nobody but who has the lock and sleeps.
THEOREM TypeCorrect == Spec => []TypeOK
  <1>1. IInv => TypeOK
    <2> SUFFICES ASSUME IInv PROVE TypeOK
      OBVIOUS
    <2>1. \A r \in Readers :
            pc[r] \in {"rtest", "rsleep", "rasleep", "rsplit", "rwake", "runlock", "rerror"}
              <=> rlock = r
      BY DEF IInv, LockInv
    <2>2. \A w \in Writers :
            pc[w] \in {"wtest", "wsleep", "wasleep", "wwake", "wunlock", "werror"} <=> wlock = w
      BY DEF IInv, LockInv
    <2>3. /\ rr # None => rr = rlock /\ pc[rr] = "rasleep"
          /\ wr # None => wr = wlock /\ pc[wr] = "wasleep"
      BY DEF IInv, LockInv
    <2> QED BY <2>1, <2>2, <2>3 DEF TypeOK, IInv, Types, LockInv, OpenInv
  <1> QED BY <1>1, PipeSafe, PTL

\* A reader that sleeps will be woken when there is something for it, whatever
\* the sizes of blocks: nobody can come between its test and its sleep unseen.
THEOREM ReaderWakes == Spec => []ReaderWaits
  <1>1. IInv => ReaderWaits
    BY DEF IInv, ReaderInv
  <1> QED BY <1>1, PipeSafe, PTL

\* A writer that sleeps while there is room for it again will be woken, when no
\* block is larger than about half the limit.
THEOREM WriterWakes == ASSUME BlocksFit PROVE Spec => []WriterWaits
  <1>1. IInv => WriterWaits
    BY DEF IInv, FlowInv, WriterSide
  <1> QED BY <1>1, PipeSafe, PTL

\* Nobody sleeps on at either side of such a queue.
THEOREM SleepersWakeHolds == ASSUME BlocksFit PROVE Spec => []SleepersWake
  <1>1. IInv => SleepersWake
    BY DEF IInv, ReaderInv, FlowInv, WriterSide, SleepersWake
  <1> QED BY <1>1, PipeSafe, PTL

-----------------------------------------------------------------------------
(***************************************************************************)
(* The queue is what Stream promises.                                      *)
(***************************************************************************)
Data == IF rest = None THEN blocks ELSE <<rest>> \o blocks

\* A step that touches neither the blocks nor the calls stutters.
LEMMA Stutters ==
  ASSUME UNCHANGED <<Data, call, res>>, "Qclosed" \in state' <=> "Qclosed" \in state
  PROVE  UNCHANGED S!vars
  <1>1. Closed' = Closed
    BY DEF Closed
  <1> QED BY <1>1, Zenon DEF S!vars, Data

\* The steps within a call that its process does not see.
LEMMA Within ==
  ASSUME IInv, NEW p \in Users,
         \/ RLock(p) \/ WLock(p) \/ ReadTest(p) \/ ReadSleep(p) \/ ReadSplit(p) \/ ReadWake(p)
         \/ ReadUnlock(p) \/ WriteFull(p) \/ WriteSleep(p) \/ WriteWake(p) \/ WriteUnlock(p)
         \/ Interrupt(p)
  PROVE  UNCHANGED S!vars
  <1>1. CASE RLock(p) \/ WLock(p) \/ ReadWake(p) \/ ReadUnlock(p)
    BY <1>1, Stutters
       DEF RLock, WLock, ReadWake, ReadUnlock, WakeupWriter, queue, locks, Data
  <1>2. CASE WriteWake(p) \/ WriteUnlock(p) \/ Interrupt(p)
    BY <1>2, Stutters
       DEF WriteWake, WakeupReader, WriteUnlock, Interrupt, queue, locks, Data
  <1>3. CASE ReadSleep(p) \/ WriteSleep(p)
    BY <1>3, Stutters DEF ReadSleep, WriteSleep, queue, locks, Data
  <1>4. CASE ReadTest(p) \/ WriteFull(p)
    <2>1. UNCHANGED <<blocks, rest, call, res>>
      BY <1>4 DEF ReadTest, WriteFull, locks
    <2>2. state' = state \/ state' = state \cup {"Qstarve"} \/ state' = state \cup {"Qflow"}
      BY <1>4 DEF ReadTest, WriteFull
    <2> QED BY <2>1, <2>2, Stutters DEF Data
  <1>5. CASE ReadSplit(p)
    <2>1. rest # None
      BY <1>5, NoneFacts DEF IInv, LockInv, PlaceInv, ReadSplit
    <2> QED BY <1>5, <2>1, Stutters DEF ReadSplit, Data
  <1> QED BY <1>1, <1>2, <1>3, <1>4, <1>5

\* Opens and closes, but for what they do to the queue.
LEMMA Apart ==
  ASSUME NEW p \in Users,
         PipeOpen(p) \/ PipeClose(p) \/ PipeWakeReader(p) \/ PipeWakeWriter(p)
  PROVE  UNCHANGED S!vars
  BY Stutters
     DEF PipeOpen, PipeClose, PipeWakeReader, PipeWakeWriter, WakeupReader,
     WakeupWriter, qioVars, queue, locks, Data

\* Calls.
LEMMA CallStep ==
  ASSUME IInv, NEW p \in Users, QRead(p) \/ QWrite(p)
  PROVE  S!Call(p)
  <1>1. call[p] = None /\ res[p] = None
    BY DEF IInv, CallInv, QRead, QWrite
  <1>2. PICK v : call' = [call EXCEPT ![p] = v] /\ v # None
    <2>1. CASE QRead(p)
      BY <2>1, NoneFacts DEF QRead
    <2>2. CASE QWrite(p)
      <3>1. p \in Writers
        BY <2>2 DEF QWrite
      <3>2. PICK n \in Sizes : call' = [call EXCEPT ![p] = [i \in 1 .. n |-> <<p, writes[p], i>>]]
        BY <2>2 DEF QWrite
      <3>3. n \in Nat /\ writes[p] \in Nat
        BY <3>1, QioAssumption DEF IInv, Types
      <3>4. [i \in 1 .. n |-> <<p, writes[p], i>>] \in Seq(Byte)
        BY <3>1, <3>3 DEF Byte
      <3> QED BY <3>2, <3>4, NoneFacts
    <2> QED BY <2>1, <2>2
  <1>3. call = [q \in Users |-> call[q]]
    BY DEF IInv, CallInv
  <1>4. call'[p] = v
    BY <1>2, <1>3
  <1>5. UNCHANGED <<blocks, rest, state, res>>
    BY DEF QRead, QWrite, queue, locks
  <1> QED BY <1>1, <1>2, <1>4, <1>5 DEF S!Call, Closed

\* Answers.
LEMMA DoneStep ==
  ASSUME IInv, NEW p \in Users, Done(p)
  PROVE  S!Done(p)
  <1>1. res[p] # None
    BY DEF IInv, CallInv, Done
  <1> QED BY <1>1 DEF Done, S!Done, Closed, queue, locks

\* A call that is interrupted.
LEMMA ErrorStep ==
  ASSUME IInv, NEW p \in Users, Error(p)
  PROVE  S!Interrupted(p)
  <1>1. call[p] # None
    BY NoneFacts DEF IInv, CallInv, PlaceInv, Error
  <1> QED BY <1>1 DEF Error, Return, S!Interrupted, S!Return, Closed, queue

\* The end of the file.
LEMMA ReadEofStep ==
  ASSUME IInv, NEW r \in Users, ReadEof(r)
  PROVE  r \in Readers /\ S!ReadEnd(r)
  <1>1. r \in Readers /\ pc[r] = "reof"
    BY NoneFacts DEF IInv, PlaceInv, ReadEof
  <1>2. call[r] # None /\ Closed /\ blocks = <<>> /\ rest = None
    BY <1>1, NoneFacts DEF IInv, CallInv, ReaderInv
  <1>3. PICK v \in {"eof", "hungup"} : Return(r, v)
    BY DEF ReadEof
  <1>4. UNCHANGED <<blocks, rest, state>>
    BY DEF ReadEof, locks
  <1> QED BY <1>1, <1>2, <1>3, <1>4 DEF S!ReadEnd, S!Return, Return, Closed

\* A reader takes a block, or the first part of it.
LEMMA ReadTakeStep ==
  ASSUME IInv, NEW r \in Users, ReadTake(r)
  PROVE  r \in Readers /\ S!Read(r)
  <1>1. r \in Readers /\ pc[r] = "rtest" /\ blocks # <<>>
    BY NoneFacts DEF IInv, PlaceInv, ReadTake
  <1>2. call[r] \in Nat \ {0} /\ call[r] # None
    BY <1>1, NoneFacts DEF IInv, CallInv
  <1>3. rest = None
    BY <1>1, NoneFacts DEF IInv, LockInv
  <1>4. Head(blocks) \in Seq(Byte) /\ Tail(blocks) \in Seq(Block)
    BY <1>1 DEF IInv, Types, Block
  <1> DEFINE left == Rest(Head(blocks), call[r])
  <1>5. /\ left \in Seq(Byte) /\ left # None
        /\ Len(left) = IF call[r] < Len(Head(blocks)) THEN Len(Head(blocks)) - call[r] ELSE 0
    BY <1>2, <1>4, FirstRest
  <1>6. left = <<>> <=> ~(Len(Head(blocks)) > call[r])
    <2>1. Len(Head(blocks)) \in Nat /\ (left = <<>> <=> Len(left) = 0)
      BY <1>4, <1>5
    <2> QED BY <1>2, <1>5, <2>1
  <1>7. /\ blocks' = Tail(blocks)
        /\ rest' = IF left = <<>> THEN None ELSE left
    BY <1>6 DEF ReadTake
  <1>8. (IF rest' = None THEN blocks' ELSE <<rest'>> \o blocks')
          = (IF left = <<>> THEN <<>> ELSE <<left>>) \o Tail(blocks)
    <2> HIDE DEF left
    <2>1. <<>> \o Tail(blocks) = Tail(blocks)
      BY <1>4
    <2> QED BY <1>5, <1>7, <2>1
  <1>9. "Qclosed" \in state' <=> "Qclosed" \in state
    BY DEF ReadTake
  <1>10. Closed' = Closed
    BY <1>9 DEF Closed
  <1>11. Return(r, First(Head(blocks), call[r]))
    BY DEF ReadTake
  <1> QED BY <1>1, <1>2, <1>3, <1>8, <1>10, <1>11
     DEF S!Read, S!Return, Return, S!Rest, S!First, Rest, First

\* A writer finds the queue closed.
LEMMA WriteClosedStep ==
  ASSUME IInv, NEW w \in Users, WriteClosed(w)
  PROVE  w \in Writers /\ S!WriteHungup(w)
  <1>1. w \in Writers /\ pc[w] = "wtest"
    BY NoneFacts DEF IInv, PlaceInv, WriteClosed
  <1>2. call[w] # None
    BY <1>1, NoneFacts DEF IInv, CallInv
  <1> QED BY <1>1, <1>2
     DEF WriteClosed, S!WriteHungup, S!Return, Return, Closed, queue

\* A writer appends a block.
LEMMA WriteAppendStep ==
  ASSUME IInv, NEW w \in Users, WriteAppend(w)
  PROVE  w \in Writers /\ S!Write(w)
  <1>1. w \in Writers /\ pc[w] = "wtest" /\ ~Closed
    BY NoneFacts DEF IInv, PlaceInv, WriteAppend
  <1>2. call[w] \in Seq(Byte) /\ call[w] # None
    BY <1>1, NoneFacts DEF IInv, CallInv
  <1>3. blocks \in Seq(Block) /\ rest \in Block \cup {None} /\ len = Bytes(blocks) /\ len \in Nat
    BY PositionsFinite DEF IInv, Types
  <1>4. Bytes(Data) < Limit + Chunk
    <2>1. len < Limit
      BY DEF WriteAppend
    <2>2. CASE rest = None
      BY <1>3, <2>1, <2>2, QioAssumption DEF Data
    <2>3. CASE rest # None
      <3>1. rest \in Block /\ Len(rest) \in Nat /\ Len(rest) <= Chunk
        BY <1>3, <2>3 DEF Block
      <3>2. Bytes(Data) = len + Len(rest)
        BY <1>3, <2>3, <3>1, BytesPush DEF Data
      <3> QED BY <1>3, <2>1, <3>1, <3>2, QioAssumption
    <2> QED BY <2>2, <2>3
  <1>5. Data' = Append(Data, First(call[w], Chunk))
    <2>1. blocks' = Append(blocks, First(call[w], Chunk)) /\ rest' = rest
      BY DEF WriteAppend
    <2> DEFINE b == First(call[w], Chunk)
    <2>2. b \in Seq(Byte)
      BY <1>2, QioAssumption, FirstRest
    <2>3. blocks \in Seq(Seq(Byte)) /\ (rest # None => rest \in Seq(Byte))
      BY <1>3, PositionsFinite DEF Block
    <2> HIDE DEF b
    <2>4. rest # None => <<rest>> \o Append(blocks, b) = Append(<<rest>> \o blocks, b)
      BY <2>2, <2>3
    <2> QED BY <2>1, <2>4 DEF Data, b
  <1>6. "Qclosed" \in state' <=> "Qclosed" \in state
    BY DEF WriteAppend
  <1>7. Closed' = Closed
    BY <1>6 DEF Closed
  <1>8. Advance(w)
    BY DEF WriteAppend
  <1>9. S!Advance(w)
    BY <1>8 DEF Advance, Return, Rest, S!Advance, S!Return, S!Rest
  <1>10. S!Bytes(Data) = Bytes(Data) /\ S!First(call[w], Chunk) = First(call[w], Chunk)
    <2>1. S!Bytes(Data) = Bytes(Data)
      BY Zenon DEF S!Bytes, Bytes, S!Cardinality, Cardinality
    <2>2. \A s, n : S!First(s, n) = First(s, n)
      BY Zenon DEF S!First, First
    <2> QED BY <2>1, <2>2
  <1> QED BY <1>1, <1>2, <1>4, <1>5, <1>7, <1>9, <1>10 DEF S!Write, Data

\* Nobody is in a call at an end that nobody has open.
LEMMA NoCalls ==
  ASSUME IInv
  PROVE  /\ qref[0] = 0 => rest = None /\ \A r \in Readers : call[r] = None
         /\ qref[0] = 0 /\ qref[1] = 0 => \A p \in Users : call[p] = None
  <1>1. \A p \in Users : p \notin open => pc[p] \in Rests /\ call[p] = None
    BY DEF IInv, OpenInv, CallInv
  <1>2. \A r \in Readers : End(r) = 0
    BY DEF End
  <1>3. ASSUME qref[0] = 0 PROVE rest = None /\ \A r \in Readers : call[r] = None
    <2>1. \A r \in Readers : r \notin open
      BY <1>2, <1>3, Ends DEF IInv
    <2> QED BY <1>1, <2>1 DEF IInv, LockInv
  <1>4. ASSUME qref[0] = 0, qref[1] = 0 PROVE \A p \in Users : call[p] = None
    <2>1. open = {}
      BY <1>4, Ends DEF IInv
    <2> QED BY <1>1, <2>1
  <1> QED BY <1>3, <1>4

\* The last close of an end.
LEMMA PipeEndStep ==
  ASSUME IInv, NEW p \in Users, PipeEnd(p)
  PROVE  S!Close \/ S!Hangup
  <1>1. UNCHANGED <<rest, call, res>>
    BY DEF PipeEnd, locks
  <1>2. CASE End(p) = 0
    <2>1. qref[0] = 0
      BY <1>2 DEF IInv, OpenInv, PipeEnd
    <2>2. rest = None /\ \A r \in Readers : call[r] = None
      BY <2>1, NoCalls
    <2>3. "Qclosed" \in state' /\ blocks' = <<>>
      BY <1>2 DEF PipeEnd, QClose
    <2>4. Closed' = TRUE
      BY <2>3 DEF Closed
    <2> QED BY <1>1, <2>2, <2>3, <2>4 DEF S!Close
  <1>3. CASE End(p) # 0
    <2>1. "Qclosed" \in state' /\ blocks' = blocks
      BY <1>3 DEF PipeEnd, QHangup
    <2>2. Closed' = TRUE
      BY <2>1 DEF Closed
    <2> QED BY <1>1, <2>1, <2>2 DEF S!Hangup
  <1> QED BY <1>2, <1>3

\* A process has closed.
LEMMA PipeCheckStep ==
  ASSUME IInv, NEW p \in Users, PipeCheck(p)
  PROVE  S!Reopen \/ UNCHANGED S!vars
  <1>1. UNCHANGED <<blocks, rest, call, res>>
    BY DEF PipeCheck, QReopen, queue, locks
  <1>2. CASE qref[0] = 0 /\ qref[1] = 0
    <2>1. \A q \in Users : call[q] = None
      BY <1>2, NoCalls
    <2>2. "Qclosed" \notin state'
      BY <1>2 DEF PipeCheck, QReopen
    <2>3. Closed' = FALSE
      BY <2>2 DEF Closed
    <2> QED BY <1>1, <2>1, <2>3 DEF S!Reopen
  <1>3. CASE ~(qref[0] = 0 /\ qref[1] = 0)
    BY <1>1, <1>3, Stutters DEF PipeCheck, queue, Data
  <1> QED BY <1>2, <1>3

\* Every step is one of the stream, or none.
LEMMA NextStep == IInv /\ [Next]_vars => [S!Next]_S!vars
  <1> SUFFICES ASSUME IInv, [Next]_vars PROVE S!Next \/ UNCHANGED S!vars
    BY Zenon
  <1>1. CASE UNCHANGED vars
    BY <1>1, Stutters DEF vars, qioVars, queue, locks, Data
  <1>2. ASSUME NEW p \in Users, PipeOpen(p) \/ PipeClose(p) \/ PipeStep(p)
        PROVE  S!Next \/ UNCHANGED S!vars
    BY <1>2, Apart, PipeEndStep, PipeCheckStep, Zenon DEF PipeStep, S!Next
  <1>3. ASSUME NEW p \in Users, PipeCall(p) \/ Lock(p) \/ Interrupt(p)
        PROVE  S!Next \/ UNCHANGED S!vars
    BY <1>3, CallStep, Within, Zenon DEF PipeCall, Lock, S!Next
  <1>4. ASSUME NEW p \in Users, Run(p)
        PROVE  S!Next \/ UNCHANGED S!vars
    <2>1. CASE ReadStep(p)
      BY <2>1, Within, ReadEofStep, ReadTakeStep, Zenon DEF ReadStep, S!Next
    <2>2. CASE WriteStep(p)
      BY <2>2, Within, WriteClosedStep, WriteAppendStep, Zenon
         DEF WriteStep, S!Next
    <2>3. CASE Error(p) \/ Done(p)
      BY <2>3, ErrorStep, DoneStep, Zenon DEF S!Next
    <2> QED BY <1>4, <2>1, <2>2, <2>3 DEF Run
  <1> QED BY <1>1, <1>2, <1>3, <1>4 DEF Next

\* What readers and writers see of a pipe is a stream: bytes come out once, in the
\* order in which they went in, though qbread puts back the rest of a block with
\* q->l unlocked in between, and a writer may append meanwhile.
THEOREM PipeImplementsStream == Spec => StreamSpec
  <1>1. Init => S!Init
    <2> SUFFICES ASSUME Init PROVE S!Init
      OBVIOUS
    <2>1. Closed = FALSE
      BY DEF Init, QioInit, Closed
    <2> QED BY <2>1 DEF Init, QioInit, S!Init
  <1> QED BY <1>1, NextStep, PipeSafe, PTL DEF Spec, StreamSpec, S!Spec

=============================================================================
