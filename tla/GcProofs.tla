------------------------------ MODULE GcProofs ------------------------------
(***************************************************************************)
(* The memory of Dis, for any number of objects, pointers, roots and       *)
(* Progs: what can be reached is never freed, neither by the last          *)
(* reference that goes nor by the collector, in spite of the free routines *)
(* that give the machine away in the middle of destroy() and of the sweep. *)
(*                                                                         *)
(* Why: an object whose color is not the sweeper's refers to such objects  *)
(* only (Kept).  The counts of these, and of all that a destroy() in       *)
(* progress may still come to (the set G of SoundInv, which is larger when *)
(* an epoch has ended in the middle of a destroy()), include every         *)
(* reference from a root, from one of them and from what is being freed.   *)
(*                                                                         *)
(* The theorems are for Calls = {}, that is, without the link that mcall   *)
(* does not mark.                                                          *)
(***************************************************************************)
EXTENDS Gc, QueueProofs, FiniteSetTheorems

NoMCall == Calls = {}

\* What the sweeper will leave.
Kept == {o \in alloc \ Freeing : color[o] # Sweeper}

\* The slots whose pointers are counted: those of roots and of the objects in
\* G, and those that a destroy() in progress has still to come to.
RootSlots == {<<r>> : r \in Roots}
Pending   == {s \in Freeing \X Fields : s[2] \in todo[s[1]]}
Uses(G)   == RootSlots \cup (G \X Fields) \cup Pending

Refs(G, o) == {s \in Uses(G) : Read(s) = o}

\* G refers to G, and its counts are not too low.
Sound(G) ==
  /\ Kept \subseteq G /\ G \subseteq alloc \ Freeing
  /\ \A r \in Roots : root[r] \in G \cup {Nil}
  /\ \A o \in G, f \in Fields : field[o][f] \in G \cup {Nil}
  /\ \A o \in Freeing : \A f \in todo[o] : field[o][f] \in G
  /\ \A o \in G : ref[o] >= Cardinality(Refs(G, o))
  /\ gcpc # "out" => G \subseteq Kept

SoundInv == \E G \in SUBSET Objs : Sound(G)

KeptInv ==
  /\ \A r \in Roots : root[r] \in Kept \cup {Nil}
  /\ \A o \in Kept, f \in Fields : field[o][f] \in Kept \cup {Nil}

\* The sweeper will leave it, and what it points to.
Spared(o) == color[o] # Sweeper /\ \A c \in Children(o) \cap alloc : color[c] # Sweeper

\* What is being freed is freed once, and the collector leaves it alone.
FreeInv ==
  /\ Freeing \subseteq alloc
  /\ \A p \in Progs : IsInjective(stk[p])
  /\ \A p, q \in Progs : p # q => ToSet(stk[p]) \cap ToSet(stk[q]) = {}
  /\ gcpc # "out" => \A o \in Freeing : Spared(o)

BlankInv == \A o \in Objs \ alloc : field[o] = Blank

\* What is behind the collector has been swept.
SweepInv ==
  /\ gcpc = "sweep" => ptr \in alloc /\ color[ptr] = Sweeper
  /\ \A o \in alloc : color[o] = Sweeper => o >= ptr

IInv == /\ TypeOK /\ Tricolour /\ SoundInv /\ KeptInv /\ FreeInv /\ BlankInv /\ SweepInv

-----------------------------------------------------------------------------
USE GcAssumption

\* The four colors.
LEMMA Colors ==
  ASSUME gccolor \in 0 .. 2
  PROVE  /\ Mutator \in 0 .. 2 /\ Marker \in 0 .. 2 /\ Sweeper \in 0 .. 2 /\ Propagator = 3
         /\ Mutator # Marker /\ Mutator # Sweeper /\ Marker # Sweeper
         /\ \A c \in 0 .. 3 : c \in {Mutator, Marker, Sweeper, Propagator}
         /\ (Sweeper + 2) % 3 = Mutator /\ (Sweeper + 1) % 3 = Marker
  <1>1. CASE gccolor = 0
    BY <1>1 DEF Mutator, Marker, Sweeper, Propagator
  <1>2. CASE gccolor = 1
    BY <1>2 DEF Mutator, Marker, Sweeper, Propagator
  <1>3. CASE gccolor = 2
    BY <1>3 DEF Mutator, Marker, Sweeper, Propagator
  <1> QED BY <1>1, <1>2, <1>3

\* The heap is finite, and Nil is not a cell of it.
LEMMA Cells ==
  /\ IsFiniteSet(Objs) /\ Nil \notin Objs /\ Objs \subseteq Nat
  /\ \A o \in Objs : o >= 1 /\ o <= N
  BY FS_Interval DEF Objs

\* A slot is of a root or of an object, and Read() reads no other.
LEMMA Slot ==
  /\ \A r, o, f : <<r>> # <<o, f>>
  /\ \A r : Read(<<r>>) = root[r]
  /\ \A o, f : Read(<<o, f>>) = field[o][f]
  <1>1. \A r : Len(<<r>>) = 1 /\ <<r>>[1] = r
    OBVIOUS
  <1>2. \A o, f : Len(<<o, f>>) = 2 /\ <<o, f>>[1] = o /\ <<o, f>>[2] = f
    OBVIOUS
  <1> QED BY <1>1, <1>2 DEF Read

\* So it does in the next state.
LEMMA SlotNext ==
  /\ \A r : Read(<<r>>)' = root'[r]
  /\ \A o, f : Read(<<o, f>>)' = field'[o][f]
  <1>1. \A r : Len(<<r>>) = 1 /\ <<r>>[1] = r
    OBVIOUS
  <1>2. \A o, f : Len(<<o, f>>) = 2 /\ <<o, f>>[1] = o /\ <<o, f>>[2] = f
    OBVIOUS
  <1> QED BY <1>1, <1>2 DEF Read

\* There are finitely many slots.
LEMMA UsesFinite ==
  ASSUME NEW G \in SUBSET Objs, Freeing \subseteq Objs
  PROVE  IsFiniteSet(Uses(G))
  <1>1. IsFiniteSet(RootSlots)
    <2> DEFINE f == [r \in Roots |-> <<r>>]
    <2>1. IsFiniteSet(Roots)
      BY FS_Union DEF Roots
    <2>2. f \in Surjection(Roots, RootSlots)
      BY DEF Surjection, RootSlots
    <2> QED BY <2>1, <2>2, FS_Surjection
  <1>2. IsFiniteSet(Objs \X Fields)
    BY Cells, FS_Product
  <1>3. IsFiniteSet(RootSlots \cup (Objs \X Fields))
    BY <1>1, <1>2, FS_Union
  <1>4. Uses(G) \subseteq RootSlots \cup (Objs \X Fields)
    BY DEF Uses, Pending
  <1> QED BY <1>3, <1>4, FS_Subset

\* How many a set has that has one more at most, no more, or one less.
LEMMA Recount ==
  ASSUME NEW H, IsFiniteSet(H), NEW d, NEW I
  PROVE  /\ Cardinality(H) \in Nat
         /\ I \subseteq H \cup {d} =>
              Cardinality(I) \in Nat /\ Cardinality(I) <= Cardinality(H) + 1
         /\ I \subseteq H => Cardinality(I) \in Nat /\ Cardinality(I) <= Cardinality(H)
         /\ d \in H /\ I \subseteq H \ {d} => Cardinality(I) + 1 <= Cardinality(H)
  <1>1. Cardinality(H) \in Nat
    BY FS_CardinalityType
  <1>2. ASSUME I \subseteq H \cup {d}
        PROVE  Cardinality(I) \in Nat /\ Cardinality(I) <= Cardinality(H) + 1
    <2>1. IsFiniteSet(H \cup {d}) /\ Cardinality(H \cup {d}) <= Cardinality(H) + 1
      <3>1. /\ IsFiniteSet(H \cup {d})
            /\ Cardinality(H \cup {d}) = IF d \in H THEN Cardinality(H) ELSE Cardinality(H) + 1
        BY FS_AddElement
      <3> QED BY <1>1, <3>1
    <2>2. IsFiniteSet(I) /\ Cardinality(I) <= Cardinality(H \cup {d})
      BY <1>2, <2>1, FS_Subset
    <2>3. Cardinality(I) \in Nat /\ Cardinality(H \cup {d}) \in Nat
      BY <2>1, <2>2, FS_CardinalityType
    <2> QED BY <1>1, <2>1, <2>2, <2>3
  <1>3. ASSUME I \subseteq H
        PROVE  Cardinality(I) \in Nat /\ Cardinality(I) <= Cardinality(H)
    BY <1>3, FS_Subset, FS_CardinalityType
  <1>4. ASSUME d \in H, I \subseteq H \ {d} PROVE Cardinality(I) + 1 <= Cardinality(H)
    <2>1. IsFiniteSet(H \ {d}) /\ Cardinality(H \ {d}) = Cardinality(H) - 1
      BY <1>4, FS_RemoveElement
    <2>2. IsFiniteSet(I) /\ Cardinality(I) <= Cardinality(H \ {d})
      BY <1>4, <2>1, FS_Subset
    <2>3. Cardinality(I) \in Nat
      BY <2>2, FS_CardinalityType
    <2> QED BY <1>1, <2>1, <2>2, <2>3
  <1> QED BY <1>1, <1>2, <1>3, <1>4

-----------------------------------------------------------------------------
(***************************************************************************)
(* destroy()                                                               *)
(***************************************************************************)
\* In a step a pointer to v is taken from the slots, which are U then: v is one
\* of G, and r counts one reference to it more than there are.
Taken(G, K, U, v, r, t) ==
  /\ alloc' \subseteq Objs /\ color' \in [Objs -> 0 .. 3] /\ nprop' \in BOOLEAN
  /\ field' \in [Objs -> [Fields -> Objs \cup {Nil}]] /\ root' \in [Roots -> Objs \cup {Nil}]
  /\ \A o \in Objs : field'[o] # field[o] => \E q \in Roots : root'[q] = o
  /\ G \subseteq alloc' \ Freeing /\ Freeing \subseteq alloc'
  /\ \A q \in Roots : root'[q] \in G \cup {Nil}
  /\ \A o \in G, f \in Fields : field'[o][f] \in G \cup {Nil}
  /\ \A o \in Freeing : \A f \in t[o] : field'[o][f] \in G
  /\ U = RootSlots \cup (G \X Fields) \cup {s \in Freeing \X Fields : s[2] \in t[s[1]]}
  /\ \A o \in G : r[o] >= Cardinality({s \in U : Read(s)' = o}) + (IF o = v THEN 1 ELSE 0)
  /\ K = {o \in alloc' \ Freeing : color'[o] # Sweeper}
  /\ gcpc # "out" => G \subseteq K /\ \A o \in Freeing : Spared(o)'
  /\ \A q \in Roots : root'[q] \in K \cup {Nil}
  /\ \A o \in K, f \in Fields : field'[o][f] \in K \cup {Nil}

\* What destroy(v) does then keeps the invariant.
LEMMA DestroyInv ==
  ASSUME TypeOK, FreeInv, UNCHANGED <<gccolor, ptr, gcpc>>,
         NEW p \in Progs, NEW G \in SUBSET Objs, NEW K \in SUBSET G, NEW U, NEW v \in G \cup {Nil},
         NEW r \in [Objs -> Nat], NEW t \in [Objs -> SUBSET Fields],
         Taken(G, K, U, v, r, t), Destroy(p, v, r, t)
  PROVE  TypeOK' /\ SoundInv' /\ KeptInv' /\ FreeInv' /\ Freeing \subseteq Freeing'
  <1>1. /\ alloc' \subseteq Objs /\ color' \in [Objs -> 0 .. 3] /\ nprop' \in BOOLEAN
        /\ field' \in [Objs -> [Fields -> Objs \cup {Nil}]] /\ root' \in [Roots -> Objs \cup {Nil}]
        /\ \A o \in Objs : field'[o] # field[o] => \E q \in Roots : root'[q] = o
    BY DEF Taken
  <1>2. /\ G \subseteq alloc' \ Freeing /\ Freeing \subseteq alloc'
        /\ \A q \in Roots : root'[q] \in G \cup {Nil}
        /\ \A o \in G, f \in Fields : field'[o][f] \in G \cup {Nil}
        /\ \A o \in Freeing : \A f \in t[o] : field'[o][f] \in G
    BY DEF Taken
  <1>3. U = RootSlots \cup (G \X Fields) \cup {s \in Freeing \X Fields : s[2] \in t[s[1]]}
    BY DEF Taken
  <1>4. /\ K = {o \in alloc' \ Freeing : color'[o] # Sweeper}
        /\ gcpc # "out" => G \subseteq K /\ \A o \in Freeing : Spared(o)'
        /\ \A q \in Roots : root'[q] \in K \cup {Nil}
        /\ \A o \in K, f \in Fields : field'[o][f] \in K \cup {Nil}
    BY DEF Taken
  <1>5. Sweeper' = Sweeper
    BY DEF Sweeper
  <1>6. Freeing \subseteq Objs /\ IsFiniteSet(Freeing) /\ Cardinality(Freeing) \in Nat
    <2>1. Freeing \subseteq Objs
      BY DEF FreeInv, TypeOK
    <2> QED BY <2>1, Cells, FS_Subset, FS_CardinalityType
  <1>7. IsFiniteSet(U)
    <2>1. IsFiniteSet(Uses(Objs) \cup (Freeing \X Fields))
      BY <1>6, UsesFinite, FS_Product, FS_Union
    <2>2. U \subseteq Uses(Objs) \cup (Freeing \X Fields)
      BY <1>3 DEF Uses
    <2> QED BY <2>1, <2>2, FS_Subset
  <1>8. PICK H : H = [o \in Objs |-> {s \in U : Read(s)' = o}]
    OBVIOUS
  <1>9. \A o \in Objs : H[o] = {s \in U : Read(s)' = o}
    BY <1>8
  <1>10. \A o \in G : r[o] >= Cardinality(H[o]) + (IF o = v THEN 1 ELSE 0)
    BY <1>9 DEF Taken
  <1>11. \A o \in Objs : IsFiniteSet(H[o]) /\ Cardinality(H[o]) \in Nat
    <2>1. \A o \in Objs : H[o] \subseteq U
      BY <1>9
    <2> QED BY <1>7, <2>1, FS_Subset, FS_CardinalityType
  <1>12. CASE v = Nil \/ r[v] > 1 \/ gchalt > MaxHalt
    <2>1. /\ ref' = IF v = Nil THEN r ELSE [r EXCEPT ![v] = @ - 1]
          /\ todo' = t /\ UNCHANGED <<stk, gchalt>>
      BY <1>12 DEF Destroy
    <2>2. Freeing' = Freeing
      BY <2>1 DEF Freeing
    <2>3. Kept' = K
      BY <1>4, <1>5, <2>2 DEF Kept
    <2>4. \A o \in G : Refs(G, o)' = H[o]
      <3>1. Uses(G)' = U
        BY <1>3, <2>1, <2>2 DEF Uses, Pending, RootSlots
      <3> QED BY <1>9, <3>1 DEF Refs
    <2>5. /\ ref' \in [Objs -> Nat]
          /\ \A o \in G : ref'[o] >= Cardinality(H[o])
      <3>1. CASE v = Nil
        BY <1>10, <1>11, <2>1, <3>1, Cells
      <3>2. CASE v # Nil
        <4>1. v \in Objs /\ r[v] \in Nat /\ r[v] >= Cardinality(H[v]) + 1 /\ Cardinality(H[v]) \in Nat
          BY <1>10, <1>11, <3>2
        <4>2. r[v] - 1 \in Nat /\ r[v] - 1 >= Cardinality(H[v])
          BY <4>1
        <4>3. ref' = [r EXCEPT ![v] = r[v] - 1]
          BY <2>1, <3>2
        <4>4. ref' \in [Objs -> Nat]
          BY <4>1, <4>2, <4>3
        <4>5. ASSUME NEW o \in G PROVE ref'[o] >= Cardinality(H[o])
          <5>1. CASE o = v
            BY <4>1, <4>2, <4>3, <5>1
          <5>2. CASE o # v
            <6>1. ref'[o] = r[o] /\ r[o] >= Cardinality(H[o]) + 0
              BY <1>10, <4>3, <5>2
            <6> QED BY <1>11, <6>1
          <5> QED BY <5>1, <5>2
        <4> QED BY <4>4, <4>5
      <3> QED BY <3>1, <3>2
    <2>6. TypeOK'
      BY <1>1, <2>1, <2>2, <2>5 DEF TypeOK
    <2>7. SoundInv'
      <3>1. Sound(G)'
        BY <1>2, <1>4, <2>1, <2>2, <2>3, <2>4, <2>5 DEF Sound
      <3> QED BY <3>1 DEF SoundInv
    <2>8. KeptInv'
      BY <1>4, <2>3 DEF KeptInv
    <2>9. FreeInv'
      BY <1>2, <1>4, <2>1, <2>2 DEF FreeInv
    <2> QED BY <2>2, <2>6, <2>7, <2>8, <2>9
  <1>13. CASE ~(v = Nil \/ r[v] > 1 \/ gchalt > MaxHalt)
    <2>1. /\ ref' = [r EXCEPT ![v] = 0]
          /\ stk' = [stk EXCEPT ![p] = Append(@, v)]
          /\ todo' = [t EXCEPT ![v] = {f \in Fields : field[v][f] # Nil}]
          /\ gchalt' = gchalt + 1
      BY <1>13 DEF Destroy
    <2>2. v \in G /\ v \in Objs /\ v \notin Freeing /\ v \in alloc' /\ r[v] \in Nat /\ ~(r[v] > 1)
      BY <1>2, <1>13
    <2>3. H[v] = {}
      <3>1. r[v] >= Cardinality(H[v]) + 1
        BY <1>10, <2>2
      <3>2. Cardinality(H[v]) = 0
        <4>1. Cardinality(H[v]) \in Nat
          BY <1>11, <2>2
        <4> QED BY <2>2, <3>1, <4>1
      <3>3. IsFiniteSet(H[v])
        BY <1>11, <2>2
      <3> QED BY <3>2, <3>3, FS_EmptySet
    <2>4. /\ \A q \in Roots : root'[q] # v
          /\ \A o \in G, f \in Fields : field'[o][f] # v
          /\ \A o \in Freeing : \A f \in t[o] : field'[o][f] # v
      <3>1. \A s \in U : Read(s)' # v
        BY <1>9, <2>2, <2>3
      <3>2. /\ \A q : Read(<<q>>)' = root'[q]
            /\ \A o, f : Read(<<o, f>>)' = field'[o][f]
        BY SlotNext
      <3>3. \A q \in Roots : <<q>> \in U
        BY <1>3 DEF RootSlots
      <3>4. \A o \in G, f \in Fields : <<o, f>> \in U
        BY <1>3
      <3>5. \A o \in Freeing : \A f \in t[o] : <<o, f>> \in U
        BY <1>3, <1>6
      <3>6. \A q \in Roots : root'[q] # v
        BY <3>1, <3>2, <3>3
      <3>7. \A o \in G, f \in Fields : field'[o][f] # v
        BY <3>1, <3>2, <3>4
      <3>8. \A o \in Freeing : \A f \in t[o] : field'[o][f] # v
        BY <3>1, <3>2, <3>5
      <3> QED BY <3>6, <3>7, <3>8
    <2>5. field'[v] = field[v]
      BY <1>1, <2>2, <2>4
    <2>6. /\ stk'[p] \in Seq(Objs) /\ ToSet(stk'[p]) = ToSet(stk[p]) \cup {v} /\ IsInjective(stk'[p])
          /\ \A q \in Progs : q # p => stk'[q] = stk[q]
          /\ stk' \in [Progs -> Seq(Objs)]
      <3>1. stk \in [Progs -> Seq(Objs)] /\ stk'[p] = Append(stk[p], v)
        BY <2>1 DEF TypeOK
      <3>2. v \notin ToSet(stk[p]) /\ IsInjective(stk[p])
        BY <2>2 DEF FreeInv, Freeing
      <3> QED BY <2>1, <2>2, <3>1, <3>2, AppendQueue
    <2>7. Freeing' = Freeing \cup {v}
      <3>1. PICK T : T = [q \in Progs |-> ToSet(stk[q])]
        OBVIOUS
      <3>2. PICK T1 : T1 = [q \in Progs |-> ToSet(stk'[q])]
        OBVIOUS
      <3>3. T1[p] = T[p] \cup {v} /\ \A q \in Progs : q # p => T1[q] = T[q]
        BY <2>6, <3>1, <3>2
      <3>4. Freeing = UNION {T[q] : q \in Progs}
        BY <3>1 DEF Freeing
      <3>5. Freeing' = UNION {T1[q] : q \in Progs}
        BY <3>2 DEF Freeing
      <3> QED BY <3>3, <3>4, <3>5
    <2> DEFINE F == G \ {v}
    <2>8. Kept' = K \ {v}
      BY <1>4, <1>5, <2>7 DEF Kept
    <2>9. t[v] \in SUBSET Fields /\ todo' \in [Objs -> SUBSET Fields]
          /\ todo'[v] = {f \in Fields : field[v][f] # Nil}
          /\ \A o \in Objs : o # v => todo'[o] = t[o]
      BY <2>1, <2>2
    <2>10. ASSUME NEW o \in F PROVE Refs(F, o)' \subseteq H[o]
      <3>1. ASSUME NEW s \in Uses(F)' PROVE s \in U
        <4>1. CASE s \in RootSlots \cup (F \X Fields)
          BY <1>3, <4>1
        <4>2. CASE s \in Pending'
          <5>1. PICK x \in Freeing', f \in Fields : s = <<x, f>> /\ f \in todo'[x]
            BY <4>2 DEF Pending
          <5>2. CASE x = v
            BY <1>3, <1>2, <2>2, <5>1, <5>2
          <5>3. CASE x # v
            <6>1. x \in Freeing /\ f \in t[x]
              BY <1>6, <2>7, <2>9, <5>1, <5>3
            <6> QED BY <1>3, <5>1, <6>1
          <5> QED BY <5>2, <5>3
        <4> QED BY <4>1, <4>2 DEF Uses, RootSlots
      <3>2. \A s \in Refs(F, o)' : s \in Uses(F)' /\ Read(s)' = o
        BY DEF Refs
      <3>3. o \in Objs
        OBVIOUS
      <3> QED BY <1>9, <3>1, <3>2, <3>3
    <2>11. /\ ref' \in [Objs -> Nat]
           /\ \A o \in F : ref'[o] >= Cardinality(Refs(F, o)')
      <3>1. ref' \in [Objs -> Nat]
        BY <2>1, <2>2
      <3>2. ASSUME NEW o \in F PROVE ref'[o] >= Cardinality(Refs(F, o)')
        <4>1. ref'[o] = r[o] /\ r[o] >= Cardinality(H[o]) + 0 /\ r[o] \in Nat
          BY <1>10, <2>1
        <4>2. PICK I : I = Refs(F, o)'
          OBVIOUS
        <4>3. Cardinality(I) \in Nat /\ Cardinality(I) <= Cardinality(H[o])
          BY <1>11, <2>10, <4>2, Recount
        <4> QED BY <1>11, <4>1, <4>2, <4>3
      <3> QED BY <3>1, <3>2
    <2>12. TypeOK'
      <3>1. Cardinality(Freeing') = Cardinality(Freeing) + 1
        BY <1>6, <2>2, <2>7, FS_AddElement
      <3>2. gchalt' = Cardinality(Freeing') + (IF gcpc = "sweep" THEN 1 ELSE 0)
        BY <1>6, <2>1, <3>1 DEF TypeOK
      <3> QED BY <1>1, <2>6, <2>9, <2>11, <3>2 DEF TypeOK
    <2>13. SoundInv'
      <3>1. Kept' \subseteq F /\ F \subseteq alloc' \ Freeing'
        BY <1>2, <1>4, <2>7, <2>8
      <3>2. /\ \A q \in Roots : root'[q] \in F \cup {Nil}
            /\ \A o \in F, f \in Fields : field'[o][f] \in F \cup {Nil}
        BY <1>2, <2>4
      <3>3. ASSUME NEW o \in Freeing', NEW f \in todo'[o] PROVE field'[o][f] \in F
        <4>1. CASE o = v
          BY <1>2, <2>2, <2>4, <2>5, <2>9, <3>3, <4>1
        <4>2. CASE o # v
          <5>1. o \in Freeing /\ f \in t[o]
            BY <1>6, <2>7, <2>9, <4>2
          <5> QED BY <1>2, <2>4, <5>1
        <4> QED BY <4>1, <4>2
      <3>4. gcpc' # "out" => F \subseteq Kept'
        BY <1>4, <2>8
      <3>5. Sound(F)'
        BY <2>11, <3>1, <3>2, <3>3, <3>4 DEF Sound
      <3> QED BY <3>5 DEF SoundInv
    <2>14. KeptInv'
      BY <1>4, <2>4, <2>8 DEF KeptInv
    <2>15. FreeInv'
      <3>1. gcpc' # "out" => Spared(v)'
        <4> SUFFICES ASSUME gcpc # "out" PROVE Spared(v)'
          OBVIOUS
        <4>1. v \in K /\ color'[v] # Sweeper'
          BY <1>4, <1>5, <2>2
        <4>2. \A c \in Children(v)' : c \in K
          BY <1>4, <2>2, <4>1 DEF Children
        <4> QED BY <1>4, <1>5, <4>1, <4>2 DEF Spared
      <3>2. Freeing' \subseteq alloc'
        BY <1>2, <2>2, <2>7
      <3>3. \A q \in Progs : IsInjective(stk'[q])
        BY <2>6 DEF FreeInv
      <3>4. ASSUME NEW x \in Progs, NEW y \in Progs, x # y
            PROVE  ToSet(stk'[x]) \cap ToSet(stk'[y]) = {}
        <4>1. \A q \in Progs : v \notin ToSet(stk[q])
          BY <2>2 DEF Freeing
        <4>2. ToSet(stk[x]) \cap ToSet(stk[y]) = {}
          BY <3>4 DEF FreeInv
        <4>3. CASE x = p
          BY <2>6, <3>4, <4>1, <4>2, <4>3
        <4>4. CASE y = p
          BY <2>6, <3>4, <4>1, <4>2, <4>4
        <4> QED BY <2>6, <4>2, <4>3, <4>4
      <3> QED BY <1>4, <2>7, <3>1, <3>2, <3>3, <3>4 DEF FreeInv
    <2> QED BY <2>7, <2>12, <2>13, <2>14, <2>15
  <1> QED BY <1>12, <1>13

-----------------------------------------------------------------------------
(***************************************************************************)
(* A pointer is stored in a slot.                                          *)
(***************************************************************************)
\* Only that slot changes.
LEMMA WriteSlot ==
  ASSUME TypeOK, NEW d \in RootSlots \cup (InHand \X Fields), NEW w \in Objs \cup {Nil}, Write(d, w)
  PROVE  /\ root' \in [Roots -> Objs \cup {Nil}] /\ field' \in [Objs -> [Fields -> Objs \cup {Nil}]]
         /\ Read(d) \in Objs \cup {Nil}
         /\ \A s \in RootSlots \cup (Objs \X Fields) : Read(s)' = IF s = d THEN w ELSE Read(s)
         /\ \A q \in Roots : root'[q] \in {root[q], w}
         /\ \A o \in Objs, f \in Fields : field'[o][f] \in {field[o][f], w}
         /\ \A o \in Objs \ InHand : field'[o] = field[o]
         /\ \A o \in Objs : field'[o] # field[o] => \E q \in Roots : root'[q] = o
  <1>1. /\ root \in [Roots -> Objs \cup {Nil}] /\ field \in [Objs -> [Fields -> Objs \cup {Nil}]]
        /\ InHand \subseteq Objs
    BY DEF TypeOK, InHand
  <1>2. CASE d \in RootSlots
    <2>1. PICK q \in Roots : d = <<q>>
      BY <1>2 DEF RootSlots
    <2>2. Len(d) = 1 /\ d[1] = q
      BY <2>1
    <2>3. root' = [root EXCEPT ![q] = w] /\ field' = field
      BY <2>2 DEF Write
    <2>4. Read(d) = root[q]
      BY <2>1, Slot
    <2>5. ASSUME NEW s \in RootSlots PROVE Read(s)' = IF s = d THEN w ELSE Read(s)
      <3>1. PICK x \in Roots : s = <<x>>
        BY DEF RootSlots
      <3>2. Read(s)' = root'[x] /\ Read(s) = root[x] /\ (s = d <=> x = q)
        BY <2>1, <3>1, Slot, SlotNext
      <3> QED BY <1>1, <2>3, <3>2
    <2>6. ASSUME NEW s \in Objs \X Fields PROVE Read(s)' = IF s = d THEN w ELSE Read(s)
      <3>1. PICK x \in Objs, f \in Fields : s = <<x, f>>
        OBVIOUS
      <3>2. Read(s)' = field'[x][f] /\ Read(s) = field[x][f] /\ s # d
        BY <2>1, <3>1, Slot, SlotNext
      <3> QED BY <2>3, <3>2
    <2> QED BY <1>1, <2>3, <2>4, <2>5, <2>6
  <1>3. CASE d \in InHand \X Fields
    <2>1. PICK x \in InHand, f \in Fields : d = <<x, f>>
      BY <1>3
    <2>2. Len(d) = 2 /\ d[1] = x /\ d[2] = f
      BY <2>1
    <2>3. field' = [field EXCEPT ![x][f] = w] /\ root' = root
      BY <2>2 DEF Write
    <2>4. Read(d) = field[x][f] /\ x \in Objs
      BY <1>1, <2>1, Slot
    <2>5. field' \in [Objs -> [Fields -> Objs \cup {Nil}]] /\ \A o \in Objs \ {x} : field'[o] = field[o]
      BY <1>1, <2>3, <2>4
    <2>6. \A o \in Objs, g \in Fields : field'[o][g] = IF o = x /\ g = f THEN w ELSE field[o][g]
      BY <1>1, <2>3, <2>4
    <2>7. \E q \in Roots : root'[q] = x
      BY <2>1, <2>3 DEF InHand
    <2>8. ASSUME NEW s \in RootSlots PROVE Read(s)' = IF s = d THEN w ELSE Read(s)
      <3>1. PICK q \in Roots : s = <<q>>
        BY DEF RootSlots
      <3>2. Read(s)' = root'[q] /\ Read(s) = root[q] /\ s # d
        BY <2>1, <3>1, Slot, SlotNext
      <3> QED BY <2>3, <3>2
    <2>9. ASSUME NEW s \in Objs \X Fields PROVE Read(s)' = IF s = d THEN w ELSE Read(s)
      <3>1. PICK o \in Objs, g \in Fields : s = <<o, g>>
        OBVIOUS
      <3>2. Read(s)' = field'[o][g] /\ Read(s) = field[o][g] /\ (s = d <=> o = x /\ g = f)
        BY <2>1, <3>1, Slot, SlotNext
      <3> QED BY <2>6, <3>2
    <2>10. Read(d) \in Objs \cup {Nil}
      BY <1>1, <2>1, <2>4
    <2>11. \A o \in Objs, g \in Fields : field'[o][g] \in {field[o][g], w}
      BY <2>6
    <2>12. \A o \in Objs \ InHand : field'[o] = field[o]
      BY <2>1, <2>5
    <2>13. \A o \in Objs : field'[o] # field[o] => \E q \in Roots : root'[q] = o
      BY <2>5, <2>7
    <2> QED BY <1>1, <2>3, <2>5, <2>8, <2>9, <2>10, <2>11, <2>12, <2>13
  <1> QED BY <1>2, <1>3

\* It refers to one object less and to one more.
LEMMA WriteCount ==
  ASSUME TypeOK, Freeing \subseteq Objs, NEW G \in SUBSET Objs,
         NEW d \in RootSlots \cup (InHand \X Fields), d \in Uses(G), NEW w \in Objs \cup {Nil}, Write(d, w),
         NEW x \in Objs, NEW I, I = {s \in Uses(G) : Read(s)' = x}
  PROVE  /\ Cardinality(I) \in Nat /\ Cardinality(Refs(G, x)) \in Nat
         /\ Cardinality(I) + (IF x = Read(d) THEN 1 ELSE 0)
              <= Cardinality(Refs(G, x)) + (IF x = w THEN 1 ELSE 0)
  <1>1. PICK H : H = Refs(G, x)
    OBVIOUS
  <1>2. IsFiniteSet(H)
    <2>1. H \subseteq Uses(G)
      BY <1>1 DEF Refs
    <2> QED BY <2>1, UsesFinite, FS_Subset
  <1>3. \A s \in Uses(G) : Read(s)' = IF s = d THEN w ELSE Read(s)
    <2>1. Uses(G) \subseteq RootSlots \cup (Objs \X Fields)
      BY DEF Uses, Pending
    <2> QED BY <2>1, WriteSlot
  <1>4. /\ \A s : s \in H <=> s \in Uses(G) /\ Read(s) = x
        /\ \A s : s \in I <=> s \in Uses(G) /\ Read(s)' = x
    BY <1>1 DEF Refs
  <1>5. I \subseteq H \cup {d}
    BY <1>3, <1>4
  <1>6. x # w => I \subseteq H
    BY <1>3, <1>4
  <1>7. x = Read(d) => d \in H /\ I \subseteq H
    BY <1>3, <1>4
  <1>8. x = Read(d) /\ x # w => I \subseteq H \ {d}
    BY <1>3, <1>4
  <1>9. /\ Cardinality(H) \in Nat
        /\ Cardinality(I) \in Nat /\ Cardinality(I) <= Cardinality(H) + 1
        /\ I \subseteq H => Cardinality(I) <= Cardinality(H)
        /\ d \in H /\ I \subseteq H \ {d} => Cardinality(I) + 1 <= Cardinality(H)
    BY <1>2, <1>5, Recount
  <1> QED BY <1>1, <1>6, <1>7, <1>8, <1>9

\* In a step w is stored in the slot d.  A is {w} if w is new and otherwise
\* empty; r has the counts with w's new reference, and w is marked.
Stored(d, w, A, r) ==
  /\ gcpc # "visit" /\ Write(d, w)
  /\ A \subseteq {w} \ alloc /\ alloc' = alloc \cup A
  /\ w \in Kept \cup A \cup {Nil}
  /\ \A o \in Objs : r[o] >= (IF o \in A THEN 0 ELSE ref[o]) + (IF o = w THEN 1 ELSE 0)
  /\ color' \in [Objs -> 0 .. 3]
  /\ \A o \in Objs : o # w => color'[o] = color[o]
  /\ w \in Objs => \/ color'[w] = Propagator
                   \/ color'[w] = Mutator /\ (w \in A \/ color[w] = Mutator)
  /\ nprop' \in BOOLEAN
  /\ ~nprop' => ~nprop /\ \A o \in Objs : color'[o] = Propagator => color[o] = Propagator /\ o \notin A

\* Storing it, and destroying what was in the slot, keeps the invariant.
LEMMA StoredInv ==
  ASSUME IInv, UNCHANGED gcVars, NEW p \in Progs, NEW d \in RootSlots \cup (InHand \X Fields),
         NEW w \in Objs \cup {Nil}, NEW A \in SUBSET Objs, NEW r \in [Objs -> Nat],
         Stored(d, w, A, r), Destroy(p, Read(d), r, todo)
  PROVE  IInv'
  <1>1. /\ UNCHANGED <<gccolor, ptr, gcpc>>
        /\ Mutator' = Mutator /\ Sweeper' = Sweeper /\ Propagator' = Propagator
    BY DEF gcVars, Mutator, Sweeper, Propagator
  <1>2. TypeOK /\ FreeInv /\ KeptInv /\ Tricolour /\ BlankInv /\ SweepInv
    BY DEF IInv
  <1>3. /\ Mutator \in 0 .. 2 /\ Sweeper \in 0 .. 2 /\ Propagator = 3
        /\ Mutator # Sweeper /\ Propagator # Sweeper /\ Mutator # Propagator
    BY <1>2, Colors DEF TypeOK
  <1>4. alloc \subseteq Objs /\ Freeing \subseteq alloc /\ Kept \subseteq alloc \ Freeing
    BY <1>2 DEF TypeOK, FreeInv, Kept
  <1>5. InHand \subseteq Kept
    BY <1>2 DEF KeptInv, InHand
  <1>6. /\ root' \in [Roots -> Objs \cup {Nil}] /\ field' \in [Objs -> [Fields -> Objs \cup {Nil}]]
        /\ Read(d) \in Objs \cup {Nil}
        /\ \A q \in Roots : root'[q] \in {root[q], w}
        /\ \A o \in Objs, f \in Fields : field'[o][f] \in {field[o][f], w}
        /\ \A o \in Objs \ InHand : field'[o] = field[o]
        /\ \A o \in Objs : field'[o] # field[o] => \E q \in Roots : root'[q] = o
    BY <1>2, WriteSlot DEF Stored
  <1>7. /\ A \subseteq {w} \ alloc /\ alloc' = alloc \cup A
        /\ w \in Kept \cup A \cup {Nil}
    BY DEF Stored
  <1>8. /\ color' \in [Objs -> 0 .. 3] /\ nprop' \in BOOLEAN
        /\ \A o \in Objs : IF o = w THEN color'[o] \in {Mutator, Propagator} ELSE color'[o] = color[o]
    BY DEF Stored
  <1>9. \A o \in A, f \in Fields : field'[o][f] = Nil /\ field[o][f] = Nil
    <2>1. \A o \in A : field[o] = Blank /\ field'[o] = field[o]
      BY <1>2, <1>4, <1>5, <1>6, <1>7 DEF BlankInv
    <2> QED BY <2>1 DEF Blank
  <1>10. PICK G \in SUBSET Objs : Sound(G)
    BY DEF IInv, SoundInv
  <1>11. /\ Kept \subseteq G /\ G \subseteq alloc \ Freeing
         /\ \A q \in Roots : root[q] \in G \cup {Nil}
         /\ \A o \in G, f \in Fields : field[o][f] \in G \cup {Nil}
         /\ \A o \in Freeing : \A f \in todo[o] : field[o][f] \in G
         /\ \A o \in G : ref[o] >= Cardinality(Refs(G, o))
         /\ gcpc # "out" => G \subseteq Kept
    BY <1>10 DEF Sound
  <1>12. PICK J : J = G \cup A
    OBVIOUS
  <1>13. PICK K : K = Kept \cup A
    OBVIOUS
  <1>14. PICK U : U = RootSlots \cup (J \X Fields) \cup {s \in Freeing \X Fields : s[2] \in todo[s[1]]}
    OBVIOUS
  <1>15. J \in SUBSET Objs /\ K \in SUBSET J /\ Read(d) \in G \cup {Nil}
    <2>1. CASE d \in RootSlots
      <3>1. PICK q \in Roots : d = <<q>>
        BY <2>1 DEF RootSlots
      <3> QED BY <1>11, <1>12, <1>13, <3>1, Slot
    <2>2. CASE d \in InHand \X Fields
      <3>1. PICK o \in InHand, f \in Fields : d = <<o, f>>
        BY <2>2
      <3> QED BY <1>5, <1>11, <1>12, <1>13, <3>1, Slot
    <2> QED BY <2>1, <2>2
  <1>16. ASSUME NEW o \in J
         PROVE  r[o] >= Cardinality({s \in U : Read(s)' = o}) + (IF o = Read(d) THEN 1 ELSE 0)
    <2>1. PICK I : I = {s \in Uses(G) : Read(s)' = o}
      OBVIOUS
    <2>2. PICK I1 : I1 = {s \in U : Read(s)' = o}
      OBVIOUS
    <2>3. I1 = I
      <3>1. U = Uses(G) \cup (A \X Fields)
        BY <1>12, <1>14 DEF Uses, Pending
      <3>2. ASSUME NEW s \in A \X Fields PROVE Read(s)' # o
        <4>1. PICK a \in A, f \in Fields : s = <<a, f>>
          OBVIOUS
        <4>2. Read(s)' = Nil
          BY <1>9, <4>1, SlotNext
        <4> QED BY <1>15, <4>2, Cells
      <3> QED BY <2>1, <2>2, <3>1, <3>2
    <2>4. d \in Uses(G)
      BY <1>5, <1>11 DEF Uses
    <2>5. o \in Objs /\ Freeing \subseteq Objs
      BY <1>4, <1>15
    <2>6. /\ Cardinality(I) \in Nat /\ Cardinality(Refs(G, o)) \in Nat
          /\ Cardinality(I) + (IF o = Read(d) THEN 1 ELSE 0)
               <= Cardinality(Refs(G, o)) + (IF o = w THEN 1 ELSE 0)
      <3>1. Write(d, w)
        BY DEF Stored
      <3> QED BY <1>2, <2>1, <2>4, <2>5, <3>1, WriteCount
    <2>7. r[o] >= (IF o \in A THEN 0 ELSE ref[o]) + (IF o = w THEN 1 ELSE 0)
      BY <2>5 DEF Stored
    <2>8. r[o] \in Nat /\ ref[o] \in Nat
      BY <1>2, <2>5 DEF TypeOK
    <2>9. PICK e \in Nat : e = IF o = Read(d) THEN 1 ELSE 0
      OBVIOUS
    <2>10. PICK g \in Nat : g = IF o = w THEN 1 ELSE 0
      OBVIOUS
    <2>11. PICK n \in Nat : n = Cardinality(I)
      BY <2>6
    <2>12. PICK k \in Nat : k = Cardinality(Refs(G, o))
      BY <2>6
    <2>13. n + e <= k + g
      BY <2>6, <2>9, <2>10, <2>11, <2>12
    <2>14. CASE o \in A
      <3>1. Refs(G, o) = {}
        <4>1. o \notin G /\ o # Nil
          BY <1>7, <1>11, <1>15, <2>14, Cells
        <4>2. ASSUME NEW s \in Uses(G) PROVE Read(s) # o
          <5>1. CASE s \in RootSlots
            <6>1. PICK q \in Roots : s = <<q>>
              BY <5>1 DEF RootSlots
            <6> QED BY <1>11, <4>1, <6>1, Slot
          <5>2. CASE s \in G \X Fields
            <6>1. PICK x \in G, f \in Fields : s = <<x, f>>
              BY <5>2
            <6> QED BY <1>11, <4>1, <6>1, Slot
          <5>3. CASE s \in Pending
            <6>1. PICK x \in Freeing, f \in Fields : s = <<x, f>> /\ f \in todo[x]
              BY <5>3 DEF Pending
            <6> QED BY <1>11, <4>1, <6>1, Slot
          <5> QED BY <5>1, <5>2, <5>3 DEF Uses
        <4> QED BY <4>2 DEF Refs
      <3>2. Cardinality(Refs(G, o)) = 0
        BY <3>1, FS_EmptySet
      <3>3. r[o] >= g
        BY <2>7, <2>14, <2>10
      <3>4. r[o] >= n + e
        BY <2>8, <2>12, <2>13, <3>2, <3>3
      <3> QED BY <2>2, <2>3, <2>9, <2>11, <3>4
    <2>15. CASE o \notin A
      <3>1. ref[o] >= Cardinality(Refs(G, o))
        BY <1>11, <1>12, <2>15
      <3>2. r[o] >= ref[o] + g
        BY <2>7, <2>15, <2>10
      <3>3. r[o] >= n + e
        BY <2>8, <2>12, <2>13, <3>1, <3>2
      <3> QED BY <2>2, <2>3, <2>9, <2>11, <3>3
    <2> QED BY <2>14, <2>15
  <1>17. K = {o \in alloc' \ Freeing : color'[o] # Sweeper}
    <2>1. \A o \in alloc' \ Freeing : color'[o] # Sweeper => o \in K
      <3> SUFFICES ASSUME NEW o \in alloc' \ Freeing, color'[o] # Sweeper, o \notin K PROVE FALSE
        OBVIOUS
      <3>1. o \in alloc /\ o \in Objs /\ o # w /\ o # Nil
        BY <1>4, <1>7, <1>13, Cells
      <3>2. color[o] # Sweeper
        BY <1>8, <3>1
      <3> QED BY <1>13, <3>1, <3>2 DEF Kept
    <2>2. \A o \in K : o \in alloc' \ Freeing
      BY <1>4, <1>7, <1>13
    <2>3. \A o \in K : color'[o] # Sweeper
      BY <1>3, <1>4, <1>7, <1>8, <1>13 DEF Kept
    <2> QED BY <2>1, <2>2, <2>3
  <1>18. gcpc # "out" => J \subseteq K /\ \A o \in Freeing : Spared(o)'
    <2> SUFFICES ASSUME gcpc # "out" PROVE J \subseteq K /\ \A o \in Freeing : Spared(o)'
      OBVIOUS
    <2>1. J \subseteq K
      BY <1>11, <1>12, <1>13
    <2>2. ASSUME NEW o \in Freeing PROVE Spared(o)'
      <3>1. Spared(o)
        BY <1>2 DEF FreeInv
      <3>2. Children(o)' = Children(o) /\ color'[o] = color[o] /\ Children(o) \subseteq Objs
        <4>1. field'[o] = field[o] /\ o \in Objs
          BY <1>4, <1>5, <1>6
        <4>2. o # w
          BY <1>4, <1>7, <4>1, Cells
        <4> QED BY <1>2, <1>8, <4>1, <4>2 DEF Children, TypeOK
      <3>3. \A c \in Children(o) \cap alloc' : color'[c] # Sweeper
        BY <1>3, <1>7, <1>8, <3>1, <3>2 DEF Spared
      <3> QED BY <1>1, <3>1, <3>2, <3>3 DEF Spared
    <2> QED BY <2>1, <2>2
  <1>19. /\ \A q \in Roots : root'[q] \in K \cup {Nil}
         /\ \A o \in K, f \in Fields : field'[o][f] \in K \cup {Nil}
    BY <1>2, <1>4, <1>6, <1>7, <1>9, <1>13 DEF KeptInv
  <1>20. Taken(J, K, U, Read(d), r, todo)
    <2>1. J \subseteq alloc' \ Freeing /\ Freeing \subseteq alloc' /\ alloc' \subseteq Objs
      BY <1>4, <1>7, <1>11, <1>12
    <2>2. /\ \A q \in Roots : root'[q] \in J \cup {Nil}
          /\ \A o \in J, f \in Fields : field'[o][f] \in J \cup {Nil}
      BY <1>6, <1>7, <1>9, <1>11, <1>12
    <2>3. \A o \in Freeing : \A f \in todo[o] : field'[o][f] \in J
      BY <1>4, <1>5, <1>6, <1>11, <1>12
    <2> QED BY <1>6, <1>8, <1>14, <1>16, <1>17, <1>18, <1>19, <2>1, <2>2, <2>3 DEF Taken
  <1>21. PICK v : v = Read(d)
    OBVIOUS
  <1>22. TypeOK' /\ SoundInv' /\ KeptInv' /\ FreeInv' /\ Freeing \subseteq Freeing'
    <2>1. todo \in [Objs -> SUBSET Fields]
      BY <1>2 DEF TypeOK
    <2>2. v \in J \cup {Nil}
      BY <1>12, <1>15, <1>21
    <2>3. Taken(J, K, U, v, r, todo) /\ Destroy(p, v, r, todo)
      BY <1>20, <1>21
    <2> QED BY <1>1, <1>2, <1>15, <2>1, <2>2, <2>3, DestroyInv
  <1>23. Tricolour'
    <2>1. PICK C : C = {o \in Objs : color[o] \in {Mutator, Propagator}}
      OBVIOUS
    <2>2. PICK D : D = {o \in Objs : color'[o] \in {Mutator, Propagator}}
      OBVIOUS
    <2>3. C \cup ({w} \ {Nil}) \subseteq D
      BY <1>8, <2>1, <2>2
    <2>4. InHand' \subseteq D
      <3>1. InHand \subseteq C
        BY <1>2, <2>1 DEF Tricolour
      <3> QED BY <1>6, <2>3, <3>1 DEF InHand
    <2>5. ASSUME NEW o \in alloc' \ Freeing', color'[o] = Mutator PROVE Children(o)' \subseteq D
      <3>1. CASE o \in A
        BY <1>9, <3>1 DEF Children
      <3>2. CASE o \in alloc
        <4>1. o \in alloc \ Freeing /\ o \in Objs
          BY <1>4, <1>22, <3>2
        <4>2. CASE o # w
          <5>1. color[o] = Mutator
            BY <1>8, <2>5, <4>1, <4>2
          <5>2. Children(o) \subseteq C
            BY <1>2, <2>1, <4>1, <5>1 DEF Tricolour
          <5> QED BY <1>6, <2>3, <4>1, <5>2 DEF Children
        <4>3. CASE o = w
          <5>1. color[o] = Mutator
            BY <1>3, <1>7, <2>5, <3>2, <4>1, <4>3 DEF Stored
          <5>2. Children(o) \subseteq C
            BY <1>2, <2>1, <4>1, <5>1 DEF Tricolour
          <5> QED BY <1>6, <2>3, <4>1, <5>2 DEF Children
        <4> QED BY <4>2, <4>3
      <3> QED BY <1>7, <3>1, <3>2
    <2>6. ~nprop' => \A o \in alloc' : color'[o] = Propagator => o >= ptr'
      <3>1. ~nprop' => ~nprop /\ \A o \in Objs : color'[o] = Propagator => color[o] = Propagator /\ o \notin A
        BY DEF Stored
      <3> QED BY <1>1, <1>2, <1>4, <1>7, <3>1 DEF Tricolour
    <2> QED BY <1>1, <2>2, <2>4, <2>5, <2>6 DEF Tricolour
  <1>24. BlankInv'
    BY <1>2, <1>4, <1>5, <1>6, <1>7 DEF BlankInv, Blank
  <1>25. SweepInv'
    <2>1. gcpc = "sweep" => ptr \in alloc /\ color[ptr] = Sweeper /\ ptr # w
      <3> SUFFICES ASSUME gcpc = "sweep" PROVE ptr \in alloc /\ color[ptr] = Sweeper /\ ptr # w
        OBVIOUS
      <3>1. ptr \in alloc /\ color[ptr] = Sweeper
        BY <1>2 DEF SweepInv
      <3>2. ptr \in Objs /\ ptr \notin Kept /\ ptr \notin A /\ ptr # Nil
        BY <1>4, <1>7, <3>1, Cells DEF Kept
      <3> QED BY <1>7, <3>1, <3>2
    <2>2. gcpc = "sweep" => ptr \in alloc' /\ color'[ptr] = Sweeper
      BY <1>4, <1>7, <1>8, <2>1
    <2>3. ASSUME NEW o \in alloc', color'[o] = Sweeper PROVE o >= ptr
      <3>1. o # w /\ o \in alloc /\ color[o] = Sweeper
        BY <1>3, <1>4, <1>7, <1>8, <2>3
      <3> QED BY <1>2, <3>1 DEF SweepInv
    <2> QED BY <1>1, <2>2, <2>3 DEF SweepInv
  <1> QED BY <1>22, <1>23, <1>24, <1>25 DEF IInv

\* A slot is a slot of a root, or of an object that a root has.
LEMMA SlotRange == Slots \subseteq RootSlots \cup (InHand \X Fields)
  BY DEF Slots, RootSlots, Roots

\* OP(new) keeps the invariant.
LEMMA NewInv ==
  ASSUME IInv, NEW p \in Progs, NEW d \in Slots, NEW o \in Objs, New(p, d, o)
  PROVE  IInv'
  <1>1. TypeOK
    BY DEF IInv
  <1>2. Mutator \in 0 .. 3 /\ Mutator # Propagator
    BY <1>1, Colors DEF TypeOK
  <1>3. PICK r : r = [ref EXCEPT ![o] = 1]
    OBVIOUS
  <1>4. r \in [Objs -> Nat] /\ r[o] = 1 /\ \A x \in Objs : x # o => r[x] = ref[x] /\ ref[x] \in Nat
    BY <1>1, <1>3 DEF TypeOK
  <1>5. /\ color' \in [Objs -> 0 .. 3] /\ color'[o] = Mutator
        /\ \A x \in Objs : x # o => color'[x] = color[x]
    BY <1>1, <1>2 DEF New, TypeOK
  <1>6. \A x \in Objs : r[x] >= (IF x \in {o} THEN 0 ELSE ref[x]) + (IF x = o THEN 1 ELSE 0)
    BY <1>4
  <1>7. ~nprop' => ~nprop /\ \A x \in Objs : color'[x] = Propagator => color[x] = Propagator /\ x \notin {o}
    BY <1>2, <1>5 DEF New
  <1>8. Stored(d, o, {o}, r)
    <2>1. gcpc # "visit" /\ Write(d, o) /\ o \notin alloc /\ alloc' = alloc \cup {o}
      BY DEF New, Runs
    <2>2. nprop' \in BOOLEAN
      BY <1>1 DEF New, TypeOK
    <2> QED BY <1>5, <1>6, <1>7, <2>1, <2>2 DEF Stored
  <1>9. Destroy(p, Read(d), r, todo) /\ UNCHANGED gcVars
    BY <1>3 DEF New
  <1>10. d \in RootSlots \cup (InHand \X Fields)
    BY SlotRange
  <1> QED BY <1>4, <1>8, <1>9, <1>10, StoredInv

\* OP(movp) keeps the invariant.
LEMMA MovPInv ==
  ASSUME IInv, NEW p \in Progs, NEW s \in Slots, NEW d \in Slots, MovP(p, s, d)
  PROVE  IInv'
  <1>1. TypeOK /\ KeptInv
    BY DEF IInv
  <1>2. PICK w : w = Read(s)
    OBVIOUS
  <1>3. w \in Kept
    <2>1. CASE s \in RootSlots
      <3>1. PICK q \in Roots : s = <<q>>
        BY <2>1 DEF RootSlots
      <3> QED BY <1>1, <1>2, <3>1, Slot DEF KeptInv, MovP
    <2>2. CASE s \in InHand \X Fields
      <3>1. PICK o \in InHand, f \in Fields : s = <<o, f>>
        BY <2>2
      <3>2. o \in Kept
        BY <1>1 DEF KeptInv, InHand
      <3> QED BY <1>1, <1>2, <3>1, <3>2, Slot DEF KeptInv, MovP
    <2> QED BY <2>1, <2>2, SlotRange
  <1>4. w \in Objs /\ color[w] \in 0 .. 3
    BY <1>1, <1>3 DEF Kept, TypeOK
  <1>5. PICK r : r = Count(w)
    OBVIOUS
  <1>6. r \in [Objs -> Nat] /\ \A x \in Objs : r[x] >= ref[x] + (IF x = w THEN 1 ELSE 0)
    <2>1. ref \in [Objs -> Nat] /\ r = [ref EXCEPT ![w] = ref[w] + 1]
      BY <1>1, <1>5 DEF TypeOK, Count
    <2>2. r \in [Objs -> Nat] /\ r[w] = ref[w] + 1 /\ \A x \in Objs : x # w => r[x] = ref[x]
      BY <1>4, <2>1
    <2> QED BY <2>1, <2>2
  <1>7. Mutator \in 0 .. 2 /\ Propagator = 3
    BY <1>1, Colors DEF TypeOK
  <1>8. /\ color' = [o \in Objs |-> IF o = w /\ color[o] # Mutator THEN Propagator ELSE color[o]]
        /\ nprop' = (nprop \/ color[w] # Mutator)
    BY <1>2 DEF MovP, Setmark, Marked, Marks
  <1>9. color' \in [Objs -> 0 .. 3] /\ \A x \in Objs : x # w => color'[x] = color[x]
    BY <1>1, <1>7, <1>8 DEF TypeOK
  <1>10. color'[w] = Propagator \/ (color'[w] = Mutator /\ color[w] = Mutator)
    BY <1>4, <1>8
  <1>11. nprop' \in BOOLEAN
    BY <1>1, <1>8 DEF TypeOK
  <1>12. ~nprop' => ~nprop /\ \A x \in Objs : color'[x] = Propagator => color[x] = Propagator
    BY <1>4, <1>7, <1>8, <1>9
  <1>13. gcpc # "visit" /\ Write(d, w) /\ alloc' = alloc
    BY <1>2 DEF MovP, Runs
  <1>14. Stored(d, w, {}, r)
    <2>1. \A x \in Objs : r[x] >= (IF x \in {} THEN 0 ELSE ref[x]) + (IF x = w THEN 1 ELSE 0)
      BY <1>6
    <2>2. {} \subseteq {w} \ alloc /\ alloc' = alloc \cup {} /\ w \in Kept \cup {} \cup {Nil}
      BY <1>3, <1>13
    <2>3. ~nprop' => ~nprop /\ \A x \in Objs : color'[x] = Propagator => color[x] = Propagator /\ x \notin {}
      BY <1>12
    <2>4. w \in Objs => \/ color'[w] = Propagator
                        \/ color'[w] = Mutator /\ (w \in {} \/ color[w] = Mutator)
      BY <1>10
    <2>5. gcpc # "visit" /\ Write(d, w)
      BY <1>13
    <2>6. nprop' \in BOOLEAN
      BY <1>11
    <2> QED BY <1>9, <2>1, <2>2, <2>3, <2>4, <2>5, <2>6, Zenon DEF Stored
  <1>15. Destroy(p, Read(d), r, todo) /\ UNCHANGED gcVars
    BY <1>2, <1>5 DEF MovP
  <1>16. d \in RootSlots \cup (InHand \X Fields)
    BY SlotRange
  <1> QED BY <1>4, <1>6, <1>14, <1>15, <1>16, StoredInv

\* A nil pointer that is stored keeps the invariant.
LEMMA ClearInv ==
  ASSUME IInv, NEW p \in Progs, NEW d \in Slots \cup {<<c>> : c \in Calls}, Clear(p, d)
  PROVE  IInv'
  <1>1. TypeOK
    BY DEF IInv
  <1>2. d \in RootSlots \cup (InHand \X Fields)
    BY SlotRange DEF RootSlots, Roots
  <1>3. \A x \in Objs : ref[x] \in Nat /\ ref[x] >= ref[x] + (IF x = Nil THEN 1 ELSE 0)
    BY <1>1, Cells DEF TypeOK
  <1>4. Stored(d, Nil, {}, ref)
    BY <1>1, <1>3, Cells DEF Clear, Runs, Stored, TypeOK
  <1>5. Destroy(p, Read(d), ref, todo) /\ UNCHANGED gcVars /\ ref \in [Objs -> Nat]
    BY <1>1 DEF Clear, TypeOK
  <1> QED BY <1>2, <1>4, <1>5, StoredInv

-----------------------------------------------------------------------------
(***************************************************************************)
(* A destroy() goes on.                                                    *)
(***************************************************************************)
\* What a Prog is freeing is being freed.
LEMMA InFreeing ==
  ASSUME TypeOK, FreeInv, NEW p \in Progs, stk[p] # <<>>, NEW o, o = Last(stk[p])
  PROVE  /\ o \in Freeing /\ o \in alloc /\ o \in Objs
         /\ stk[p] \in Seq(Objs) /\ ToSet(stk[p]) = ToSet(Front(stk[p])) \cup {o}
         /\ Front(stk[p]) \in Seq(Objs) /\ IsInjective(Front(stk[p])) /\ o \notin ToSet(Front(stk[p]))
  <1>1. stk[p] \in Seq(Objs) /\ IsInjective(stk[p])
    BY DEF TypeOK, FreeInv
  <1>2. o \in ToSet(stk[p])
    BY <1>1, FrontQueue
  <1>3. o \in Freeing
    BY <1>2 DEF Freeing
  <1>4. o \in alloc /\ o \in Objs
    BY <1>3 DEF TypeOK, FreeInv
  <1> QED BY <1>1, <1>3, <1>4, FrontQueue

\* The next pointer in an object is destroyed.
LEMMA DestroyFieldInv ==
  ASSUME IInv, NEW p \in Progs, DestroyField(p)
  PROVE  IInv'
  <1>1. TypeOK /\ FreeInv /\ KeptInv /\ Tricolour /\ BlankInv /\ SweepInv
    BY DEF IInv
  <1>2. PICK o : o = Last(stk[p])
    OBVIOUS
  <1>3. PICK f \in todo[o] : Destroy(p, field[o][f], ref, [todo EXCEPT ![o] = @ \ {f}])
    BY <1>2 DEF DestroyField
  <1>4. o \in Freeing /\ o \in Objs
    BY <1>1, <1>2, InFreeing DEF DestroyField
  <1>5. f \in Fields /\ todo \in [Objs -> SUBSET Fields]
    BY <1>1, <1>3, <1>4 DEF TypeOK
  <1>6. PICK G \in SUBSET Objs : Sound(G)
    BY DEF IInv, SoundInv
  <1>7. /\ Kept \subseteq G /\ G \subseteq alloc \ Freeing
        /\ \A q \in Roots : root[q] \in G \cup {Nil}
        /\ \A x \in G, g \in Fields : field[x][g] \in G \cup {Nil}
        /\ \A x \in Freeing : \A g \in todo[x] : field[x][g] \in G
        /\ \A x \in G : ref[x] >= Cardinality(Refs(G, x))
        /\ gcpc # "out" => G \subseteq Kept
    BY <1>6 DEF Sound
  <1>8. PICK v : v = field[o][f]
    OBVIOUS
  <1>9. v \in G
    BY <1>3, <1>4, <1>7, <1>8
  <1>10. PICK t : t = [todo EXCEPT ![o] = @ \ {f}]
    OBVIOUS
  <1>11. /\ t \in [Objs -> SUBSET Fields] /\ t[o] = todo[o] \ {f}
         /\ \A x \in Objs : x # o => t[x] = todo[x]
    BY <1>4, <1>5, <1>10
  <1>12. PICK U : U = RootSlots \cup (G \X Fields) \cup {s \in Freeing \X Fields : s[2] \in t[s[1]]}
    OBVIOUS
  <1>13. UNCHANGED <<alloc, color, field, root, nprop, gccolor, ptr, gcpc>>
    BY DEF DestroyField, gcVars
  <1>14. /\ Mutator' = Mutator /\ Sweeper' = Sweeper /\ Propagator' = Propagator
         /\ InHand' = InHand /\ \A x : Children(x)' = Children(x)
    BY <1>13 DEF Mutator, Sweeper, Propagator, InHand, Children
  <1>15. Freeing \subseteq alloc /\ alloc \subseteq Objs
    BY <1>1 DEF TypeOK, FreeInv
  <1>16. U = Uses(G) \ {<<o, f>>} /\ <<o, f>> \in Uses(G)
    <2>1. <<o, f>> \in Pending /\ <<o, f>> \notin G \X Fields
      BY <1>3, <1>4, <1>5, <1>7 DEF Pending
    <2>2. <<o, f>> \notin RootSlots
      BY Slot DEF RootSlots
    <2>3. {s \in Freeing \X Fields : s[2] \in t[s[1]]} = Pending \ {<<o, f>>}
      <3>1. ASSUME NEW x \in Freeing, NEW g \in Fields
            PROVE  g \in t[x] <=> g \in todo[x] /\ <<x, g>> # <<o, f>>
        BY <1>11, <1>15
      <3> QED BY <3>1 DEF Pending
    <2> QED BY <1>12, <2>1, <2>2, <2>3 DEF Uses
  <1>17. ASSUME NEW x \in G
         PROVE  ref[x] >= Cardinality({s \in U : Read(s)' = x}) + (IF x = v THEN 1 ELSE 0)
    <2>1. PICK H : H = Refs(G, x)
      OBVIOUS
    <2>2. PICK I : I = {s \in U : Read(s)' = x}
      OBVIOUS
    <2>3. \A s : Read(s)' = Read(s)
      BY <1>13 DEF Read
    <2>4. I \subseteq H \ {<<o, f>>}
      BY <1>16, <2>1, <2>2, <2>3 DEF Refs
    <2>5. x = v => <<o, f>> \in H
      BY <1>8, <1>16, <2>1, Slot DEF Refs
    <2>6. IsFiniteSet(H)
      <3>1. H \subseteq Uses(G)
        BY <2>1 DEF Refs
      <3>2. Freeing \subseteq Objs
        BY <1>15
      <3> QED BY <3>1, <3>2, UsesFinite, FS_Subset
    <2>7. /\ Cardinality(H) \in Nat /\ Cardinality(I) \in Nat /\ Cardinality(I) <= Cardinality(H)
          /\ <<o, f>> \in H => Cardinality(I) + 1 <= Cardinality(H)
      BY <2>4, <2>6, Recount
    <2>8. ref[x] \in Nat /\ ref[x] >= Cardinality(H)
      BY <1>1, <1>7, <2>1 DEF TypeOK
    <2> QED BY <2>2, <2>5, <2>7, <2>8
  <1>18. gcpc # "out" => \A x \in Freeing : Spared(x)'
    BY <1>1, <1>13, <1>14 DEF FreeInv, Spared
  <1>19. Taken(G, Kept, U, v, ref, t)
    <2>1. \A x \in Freeing : \A g \in t[x] : field'[x][g] \in G
      BY <1>7, <1>11, <1>13, <1>15
    <2>2. /\ alloc' \subseteq Objs /\ color' \in [Objs -> 0 .. 3] /\ nprop' \in BOOLEAN
          /\ field' \in [Objs -> [Fields -> Objs \cup {Nil}]] /\ root' \in [Roots -> Objs \cup {Nil}]
      BY <1>1, <1>13 DEF TypeOK
    <2>3. Kept = {x \in alloc' \ Freeing : color'[x] # Sweeper}
      BY <1>13 DEF Kept
    <2>4. /\ \A q \in Roots : root'[q] \in Kept \cup {Nil}
          /\ \A x \in Kept, g \in Fields : field'[x][g] \in Kept \cup {Nil}
      BY <1>1, <1>13 DEF KeptInv
    <2> QED BY <1>7, <1>12, <1>13, <1>15, <1>17, <1>18, <2>1, <2>2, <2>3, <2>4 DEF Taken
  <1>20. TypeOK' /\ SoundInv' /\ KeptInv' /\ FreeInv' /\ Freeing \subseteq Freeing'
    <2>1. PICK K \in SUBSET G : K = Kept
      BY <1>7
    <2>2. PICK r \in [Objs -> Nat] : r = ref
      BY <1>1 DEF TypeOK
    <2>3. Taken(G, K, U, v, r, t) /\ Destroy(p, v, r, t)
      BY <1>3, <1>8, <1>10, <1>19, <2>1, <2>2
    <2>4. v \in G \cup {Nil} /\ UNCHANGED <<gccolor, ptr, gcpc>>
      BY <1>9, <1>13
    <2> QED BY <1>1, <1>11, <2>3, <2>4, DestroyInv
  <1>21. Tricolour'
    BY <1>1, <1>13, <1>14, <1>20 DEF Tricolour
  <1>22. BlankInv' /\ SweepInv'
    BY <1>1, <1>13, <1>14 DEF BlankInv, Blank, SweepInv
  <1> QED BY <1>20, <1>21, <1>22 DEF IInv

\* A cell to which nothing in G refers, and of which nothing is to be destroyed
\* any more, is given back.
LEMMA PoolfreeInv ==
  ASSUME TypeOK, FreeInv, BlankInv, NEW G \in SUBSET Objs, Sound(G), NEW o \in Objs \ G,
         Poolfree(o), UNCHANGED <<root, todo>>, Freeing' = Freeing \ {o},
         o \in Freeing => todo[o] = {}
  PROVE  /\ alloc' = alloc \ {o}
         /\ ref' \in [Objs -> Nat] /\ field' \in [Objs -> [Fields -> Objs \cup {Nil}]]
         /\ \A x \in Objs \ {o} : field'[x] = field[x]
         /\ \A x \in Freeing' : \A f \in todo'[x] : field'[x][f] \in G
         /\ \A x \in G : ref'[x] >= Cardinality(Refs(G, x)')
         /\ BlankInv'
  <1>1. /\ alloc' = alloc \ {o}
        /\ ref' = [ref EXCEPT ![o] = 0] /\ field' = [field EXCEPT ![o] = Blank]
        /\ root' = root /\ todo' = todo
    BY DEF Poolfree
  <1>2. ref \in [Objs -> Nat] /\ field \in [Objs -> [Fields -> Objs \cup {Nil}]] /\ Freeing \subseteq Objs
    BY DEF TypeOK, FreeInv
  <1>3. Blank \in [Fields -> Objs \cup {Nil}] /\ Blank' = Blank
    BY DEF Blank
  <1>4. /\ ref' \in [Objs -> Nat] /\ field' \in [Objs -> [Fields -> Objs \cup {Nil}]]
        /\ field'[o] = Blank
        /\ \A x \in Objs \ {o} : field'[x] = field[x] /\ ref'[x] = ref[x]
    BY <1>1, <1>2, <1>3
  <1>5. /\ \A x \in Freeing : \A f \in todo[x] : field[x][f] \in G
        /\ \A x \in G : ref[x] >= Cardinality(Refs(G, x))
    BY DEF Sound
  <1>6. \A x \in Freeing' : \A f \in todo'[x] : field'[x][f] \in G
    BY <1>1, <1>2, <1>4, <1>5
  <1>7. Uses(G)' = Uses(G)
    <2>1. Pending' = Pending
      <3>1. Pending' = {s \in Freeing' \X Fields : s[2] \in todo[s[1]]}
        BY <1>1 DEF Pending
      <3>2. \A x \in Freeing, f \in Fields : f \in todo[x] => x # o
        OBVIOUS
      <3> QED BY <3>1, <3>2 DEF Pending
    <2> QED BY <2>1 DEF Uses, RootSlots
  <1>8. ASSUME NEW s \in Uses(G) PROVE Read(s)' = Read(s)
    <2>1. CASE s \in RootSlots
      <3>1. PICK q \in Roots : s = <<q>>
        BY <2>1 DEF RootSlots
      <3> QED BY <1>1, <3>1, Slot, SlotNext
    <2>2. CASE s \in G \X Fields
      <3>1. PICK x \in G, f \in Fields : s = <<x, f>>
        BY <2>2
      <3> QED BY <1>4, <3>1, Slot, SlotNext
    <2>3. CASE s \in Pending
      <3>1. PICK x \in Freeing, f \in Fields : s = <<x, f>> /\ f \in todo[x]
        BY <2>3 DEF Pending
      <3>2. x # o /\ x \in Objs
        BY <1>2, <3>1
      <3> QED BY <1>4, <3>1, <3>2, Slot, SlotNext
    <2> QED BY <2>1, <2>2, <2>3 DEF Uses
  <1>9. \A x \in G : Refs(G, x)' = Refs(G, x)
    BY <1>7, <1>8 DEF Refs
  <1>10. \A x \in G : ref'[x] >= Cardinality(Refs(G, x)')
    BY <1>4, <1>5, <1>9
  <1>11. BlankInv'
    BY <1>1, <1>3, <1>4 DEF BlankInv
  <1> QED BY <1>1, <1>4, <1>6, <1>10, <1>11

\* An object of which all pointers have been destroyed is given back.
LEMMA DestroyEndInv ==
  ASSUME IInv, NEW p \in Progs, DestroyEnd(p)
  PROVE  IInv'
  <1>1. TypeOK /\ FreeInv /\ KeptInv /\ Tricolour /\ BlankInv /\ SweepInv
    BY DEF IInv
  <1>2. PICK o : o = Last(stk[p])
    OBVIOUS
  <1>3. /\ stk[p] # <<>> /\ todo[o] = {}
        /\ Poolfree(o) /\ color' = Faded(o)
        /\ stk' = [stk EXCEPT ![p] = Front(@)] /\ gchalt' = gchalt - 1
        /\ UNCHANGED <<root, nprop, todo, gccolor, ptr, gcpc>>
    BY <1>2 DEF DestroyEnd, gcVars
  <1>4. /\ o \in Freeing /\ o \in alloc /\ o \in Objs
        /\ stk[p] \in Seq(Objs) /\ ToSet(stk[p]) = ToSet(Front(stk[p])) \cup {o}
        /\ Front(stk[p]) \in Seq(Objs) /\ IsInjective(Front(stk[p])) /\ o \notin ToSet(Front(stk[p]))
    BY <1>1, <1>2, <1>3, InFreeing
  <1>5. /\ stk' \in [Progs -> Seq(Objs)] /\ stk'[p] = Front(stk[p])
        /\ \A q \in Progs : q # p => stk'[q] = stk[q]
    BY <1>1, <1>3, <1>4 DEF TypeOK
  <1>6. PICK T : T = [q \in Progs |-> ToSet(stk[q])]
    OBVIOUS
  <1>7. PICK T1 : T1 = [q \in Progs |-> ToSet(stk'[q])]
    OBVIOUS
  <1>8. T[p] = T1[p] \cup {o} /\ o \notin T1[p] /\ \A q \in Progs : q # p => T1[q] = T[q]
    BY <1>4, <1>5, <1>6, <1>7
  <1>9. \A x, y \in Progs : x # y => T[x] \cap T[y] = {}
    BY <1>1, <1>6 DEF FreeInv
  <1>10. Freeing = UNION {T[q] : q \in Progs} /\ Freeing' = UNION {T1[q] : q \in Progs}
    BY <1>6, <1>7 DEF Freeing
  <1>11. Freeing' = Freeing \ {o}
    <2>1. \A q \in Progs : o \notin T1[q]
      BY <1>8, <1>9
    <2> QED BY <1>8, <1>10, <2>1
  <1>12. PICK G \in SUBSET Objs : Sound(G)
    BY DEF IInv, SoundInv
  <1>13. /\ Kept \subseteq G /\ G \subseteq alloc \ Freeing
         /\ \A q \in Roots : root[q] \in G \cup {Nil}
         /\ \A x \in G, f \in Fields : field[x][f] \in G \cup {Nil}
         /\ gcpc # "out" => G \subseteq Kept
    BY <1>12 DEF Sound
  <1>14. o \notin G
    BY <1>4, <1>13
  <1>15. /\ alloc' = alloc \ {o}
         /\ ref' \in [Objs -> Nat] /\ field' \in [Objs -> [Fields -> Objs \cup {Nil}]]
         /\ \A x \in Objs \ {o} : field'[x] = field[x]
         /\ \A x \in Freeing' : \A f \in todo'[x] : field'[x][f] \in G
         /\ \A x \in G : ref'[x] >= Cardinality(Refs(G, x)')
         /\ BlankInv'
    BY <1>1, <1>3, <1>4, <1>11, <1>12, <1>14, PoolfreeInv
  <1>16. color' \in [Objs -> 0 .. 3] /\ \A x \in Objs \ {o} : color'[x] = color[x]
    BY <1>1, <1>3, <1>4 DEF TypeOK, Faded
  <1>17. /\ Mutator' = Mutator /\ Sweeper' = Sweeper /\ Propagator' = Propagator
         /\ InHand' = InHand /\ \A x \in Objs \ {o} : Children(x)' = Children(x)
    BY <1>3, <1>15 DEF Mutator, Sweeper, Propagator, InHand, Children
  <1>18. alloc \subseteq Objs /\ Freeing \subseteq alloc
    BY <1>1 DEF TypeOK, FreeInv
  <1>19. Kept' = Kept /\ o \notin Kept
    BY <1>4, <1>11, <1>15, <1>16, <1>17, <1>18 DEF Kept
  <1>20. TypeOK'
    <2>1. IsFiniteSet(Freeing)
      BY <1>18, Cells, FS_Subset
    <2>2. Cardinality(Freeing') = Cardinality(Freeing) - 1 /\ Cardinality(Freeing) \in Nat
      BY <1>4, <1>11, <2>1, FS_RemoveElement, FS_CardinalityType
    <2>3. gchalt' = Cardinality(Freeing') + (IF gcpc = "sweep" THEN 1 ELSE 0)
      BY <1>1, <1>3, <2>2 DEF TypeOK
    <2> QED BY <1>1, <1>3, <1>5, <1>15, <1>16, <2>3 DEF TypeOK
  <1>21. SoundInv'
    <2>1. \A x \in G, f \in Fields : field'[x][f] \in G \cup {Nil}
      BY <1>13, <1>14, <1>15
    <2>2. G \subseteq alloc' \ Freeing'
      BY <1>11, <1>13, <1>14, <1>15
    <2>3. Sound(G)'
      BY <1>3, <1>13, <1>15, <1>19, <2>1, <2>2 DEF Sound
    <2> QED BY <2>3 DEF SoundInv
  <1>22. KeptInv'
    <2>1. Kept \subseteq Objs
      BY <1>18 DEF Kept
    <2> QED BY <1>1, <1>3, <1>15, <1>19, <2>1 DEF KeptInv
  <1>23. FreeInv'
    <2>1. ASSUME gcpc # "out", NEW x \in Freeing' PROVE Spared(x)'
      <3>1. Spared(x) /\ x \in Objs \ {o}
        BY <1>1, <1>11, <1>18, <2>1 DEF FreeInv
      <3>2. \A c \in Children(x) \cap alloc' : color'[c] # Sweeper
        BY <1>15, <1>16, <1>18, <3>1 DEF Spared
      <3> QED BY <1>16, <1>17, <3>1, <3>2 DEF Spared
    <2>2. \A q \in Progs : IsInjective(stk'[q])
      BY <1>1, <1>4, <1>5 DEF FreeInv
    <2>3. \A x, y \in Progs : x # y => T1[x] \cap T1[y] = {}
      BY <1>8, <1>9
    <2>4. \A x, y \in Progs : x # y => ToSet(stk'[x]) \cap ToSet(stk'[y]) = {}
      BY <1>7, <2>3
    <2>5. Freeing' \subseteq alloc'
      BY <1>11, <1>15, <1>18
    <2> QED BY <1>3, <2>1, <2>2, <2>4, <2>5 DEF FreeInv
  <1>24. Tricolour'
    <2>1. PICK C : C = {x \in Objs : color[x] \in {Mutator, Propagator}}
      OBVIOUS
    <2>2. PICK D : D = {x \in Objs : color'[x] \in {Mutator, Propagator}}
      OBVIOUS
    <2>3. C \ {o} \subseteq D
      BY <1>16, <2>1, <2>2
    <2>4. InHand \subseteq D
      <3>1. InHand \subseteq C /\ InHand \subseteq Kept
        BY <1>1, <2>1 DEF Tricolour, KeptInv, InHand
      <3> QED BY <1>19, <2>3, <3>1
    <2>5. ASSUME NEW x \in alloc' \ Freeing', color'[x] = Mutator PROVE Children(x)' \subseteq D
      <3>1. x \in alloc \ Freeing /\ x \in Objs \ {o} /\ color[x] = Mutator
        BY <1>4, <1>11, <1>15, <1>16, <1>18, <2>5
      <3>2. Children(x) \subseteq C
        BY <1>1, <2>1, <3>1 DEF Tricolour
      <3>3. x \in Kept
        BY <1>1, <3>1, Colors DEF Kept, TypeOK
      <3>4. Children(x) \subseteq Kept
        BY <1>1, <3>3 DEF KeptInv, Children
      <3> QED BY <1>17, <1>19, <2>3, <3>1, <3>2, <3>4
    <2>6. ~nprop' => \A x \in alloc' : color'[x] = Propagator => x >= ptr'
      BY <1>1, <1>3, <1>15, <1>16, <1>18 DEF Tricolour
    <2> QED BY <1>17, <2>2, <2>4, <2>5, <2>6 DEF Tricolour
  <1>25. SweepInv'
    <2>1. gcpc = "sweep" => ptr \in alloc /\ color[ptr] = Sweeper /\ ptr # o
      BY <1>1, <1>4 DEF SweepInv, FreeInv, Spared
    <2>2. gcpc = "sweep" => ptr \in alloc' /\ color'[ptr] = Sweeper
      BY <1>15, <1>16, <1>18, <2>1
    <2>3. \A x \in alloc' : color'[x] = Sweeper => x >= ptr
      BY <1>1, <1>15, <1>16, <1>18 DEF SweepInv
    <2> QED BY <1>3, <1>17, <2>2, <2>3 DEF SweepInv
  <1> QED BY <1>15, <1>20, <1>21, <1>22, <1>23, <1>24, <1>25 DEF IInv

-----------------------------------------------------------------------------
(***************************************************************************)
(* The collector.                                                          *)
(***************************************************************************)
\* The cell at ptr has been dealt with: c are the colors then, and n tells if
\* anything was marked; of the cells that are in use the collector has still to
\* come to those that the sweeper will free and, if n is FALSE, to those that
\* are left to propagate.  K is what the sweeper will leave.
Visited(c, n, K) ==
  LET Come == {o \in Objs : c[o] \in {Mutator, Propagator}} IN
  /\ c \in [Objs -> 0 .. 3] /\ n \in BOOLEAN
  /\ K = {o \in alloc' \ Freeing' : c[o] # Sweeper}
  /\ InHand' \subseteq Come
  /\ \A o \in alloc' \ Freeing' : c[o] = Mutator => Children(o)' \subseteq Come
  /\ ~n => \A o \in alloc' : c[o] = Propagator => o > ptr
  /\ \A o \in alloc' : c[o] = Sweeper => o > ptr
  /\ \A r \in Roots : root'[r] \in K \cup {Nil}
  /\ \A o \in K, f \in Fields : field'[o][f] \in K \cup {Nil}
  /\ \A o \in Freeing' : \A f \in todo'[o] : field'[o][f] \in K
  /\ \A o \in K : ref'[o] >= Cardinality(Refs(K, o)')
  /\ \A o \in Freeing' : c[o] # Sweeper /\ \A x \in Children(o)' \cap alloc' : c[x] # Sweeper

\* What of the invariant does not concern the colors.
Heap ==
  /\ alloc \subseteq Objs
  /\ ref \in [Objs -> Nat]
  /\ field \in [Objs -> [Fields -> Objs \cup {Nil}]]
  /\ root \in [Roots -> Objs \cup {Nil}]
  /\ stk \in [Progs -> Seq(Objs)]
  /\ todo \in [Objs -> SUBSET Fields]
  /\ gchalt = Cardinality(Freeing)
  /\ Freeing \subseteq alloc
  /\ \A p \in Progs : IsInjective(stk[p])
  /\ \A p, q \in Progs : p # q => ToSet(stk[p]) \cap ToSet(stk[q]) = {}
  /\ BlankInv

\* The collector goes on to the next cell, and at the end of the heap perhaps to
\* the next epoch.
LEMMA AdvanceInv ==
  ASSUME gccolor \in 0 .. 2, ptr \in Objs, Heap', NEW c, NEW n, NEW K, Visited(c, n, K),
         Advance(c, n), root' = root
  PROVE  IInv'
  <1>1. /\ Mutator \in 0 .. 2 /\ Marker \in 0 .. 2 /\ Sweeper \in 0 .. 2 /\ Propagator = 3
        /\ Mutator # Marker /\ Mutator # Sweeper /\ Marker # Sweeper
        /\ \A k \in 0 .. 3 : k \in {Mutator, Marker, Sweeper, Propagator}
        /\ (Sweeper + 2) % 3 = Mutator /\ (Sweeper + 1) % 3 = Marker
    BY Colors
  <1>2. PICK Come : Come = {o \in Objs : c[o] \in {Mutator, Propagator}}
    OBVIOUS
  <1>3. K = {o \in alloc' \ Freeing' : c[o] # Sweeper}
    BY DEF Visited
  <1>4. /\ c \in [Objs -> 0 .. 3] /\ n \in BOOLEAN
        /\ InHand' \subseteq Come
        /\ \A o \in alloc' \ Freeing' : c[o] = Mutator => Children(o)' \subseteq Come
        /\ ~n => \A o \in alloc' : c[o] = Propagator => o > ptr
        /\ \A o \in alloc' : c[o] = Sweeper => o > ptr
    BY <1>2 DEF Visited
  <1>5. /\ \A r \in Roots : root'[r] \in K \cup {Nil}
        /\ \A o \in K, f \in Fields : field'[o][f] \in K \cup {Nil}
        /\ \A o \in Freeing' : \A f \in todo'[o] : field'[o][f] \in K
    BY DEF Visited
  <1>6. \A o \in K : ref'[o] >= Cardinality(Refs(K, o)')
    BY DEF Visited
  <1>7. \A o \in Freeing' : c[o] # Sweeper /\ \A x \in Children(o)' \cap alloc' : c[x] # Sweeper
    BY DEF Visited
  <1>8. /\ alloc' \subseteq Objs
        /\ ref' \in [Objs -> Nat]
        /\ field' \in [Objs -> [Fields -> Objs \cup {Nil}]]
        /\ root' \in [Roots -> Objs \cup {Nil}]
        /\ stk' \in [Progs -> Seq(Objs)]
        /\ todo' \in [Objs -> SUBSET Fields]
        /\ gchalt' = Cardinality(Freeing')
        /\ Freeing' \subseteq alloc'
        /\ \A p \in Progs : IsInjective(stk'[p])
        /\ \A p, q \in Progs : p # q => ToSet(stk'[p]) \cap ToSet(stk'[q]) = {}
        /\ BlankInv'
    BY DEF Heap
  <1>9. K \in SUBSET Objs /\ K \subseteq alloc' \ Freeing'
    BY <1>3, <1>8
  <1>10. N \in Nat /\ Objs = 1 .. N
    BY DEF Objs
  <1>11. gcpc' \in {"visit", "out"} =>
           gchalt' = Cardinality(Freeing') + (IF gcpc' = "sweep" THEN 1 ELSE 0)
    <2>1. IsFiniteSet(Freeing')
      BY <1>8, Cells, FS_Subset
    <2> QED BY <1>8, <2>1, FS_CardinalityType
  <1>12. ASSUME color' = c, gccolor' = gccolor, ptr' \in Objs, gcpc' \in {"visit", "out"},
                nprop' \in BOOLEAN,
                ~nprop' => \A o \in alloc' : c[o] = Propagator => o >= ptr',
                \A o \in alloc' : c[o] = Sweeper => o >= ptr'
         PROVE  IInv'
    <2>1. Mutator' = Mutator /\ Sweeper' = Sweeper /\ Propagator' = Propagator
      BY <1>12 DEF Mutator, Sweeper, Propagator
    <2>2. Kept' = K
      BY <1>3, <1>12, <2>1 DEF Kept
    <2>3. TypeOK'
      BY <1>4, <1>8, <1>12, <1>11 DEF TypeOK
    <2>4. Tricolour'
      BY <1>2, <1>4, <1>12, <2>1 DEF Tricolour
    <2>5. SoundInv'
      <3>1. Sound(K)'
        BY <1>5, <1>6, <1>9, <2>2 DEF Sound
      <3> QED BY <1>9, <3>1 DEF SoundInv
    <2>6. KeptInv'
      BY <1>5, <2>2 DEF KeptInv
    <2>7. FreeInv'
      <3>1. \A o \in Freeing' : Spared(o)'
        BY <1>7, <1>12, <2>1 DEF Spared
      <3> QED BY <1>8, <3>1 DEF FreeInv
    <2>8. SweepInv'
      BY <1>12, <2>1 DEF SweepInv
    <2> QED BY <1>8, <2>3, <2>4, <2>5, <2>6, <2>7, <2>8 DEF IInv
  <1>13. CASE ptr < N
    <2>1. /\ ptr' = ptr + 1 /\ gcpc' \in {"visit", "out"}
          /\ color' = c /\ nprop' = n /\ gccolor' = gccolor
      BY <1>13 DEF Advance
    <2>2. ptr' \in Objs
      BY <1>10, <1>13, <2>1
    <2>3. ASSUME NEW o \in alloc', o > ptr PROVE o >= ptr'
      BY <1>8, <1>10, <2>1, <2>3
    <2>4. /\ ~nprop' => \A o \in alloc' : c[o] = Propagator => o >= ptr'
          /\ \A o \in alloc' : c[o] = Sweeper => o >= ptr'
      BY <1>4, <2>1, <2>3
    <2> QED BY <1>4, <1>12, <2>1, <2>2, <2>4
  <1>14. CASE ~(ptr < N) /\ n
    <2>1. /\ ptr' = 1 /\ gcpc' = "out" /\ color' = c /\ nprop' = FALSE /\ gccolor' = gccolor
      BY <1>14 DEF Advance
    <2>2. ptr' \in Objs /\ \A o \in alloc' : o >= ptr'
      BY <1>8, <1>10, <2>1
    <2> QED BY <1>12, <2>1, <2>2
  <1>15. CASE ~(ptr < N) /\ ~n
    <2>1. /\ ptr' = 1 /\ gcpc' = "out" /\ gccolor' = (gccolor + 1) % 3
          /\ color' = Marked(InHand, c, (gccolor + 1) % 3)
          /\ nprop' = Marks(InHand, c, (gccolor + 1) % 3)
      BY <1>15 DEF Advance, Rootset
    <2>2. gccolor' = Sweeper /\ Sweeper \in 0 .. 2
      BY <1>1, <2>1 DEF Sweeper
    <2>3. Mutator' = Sweeper /\ Sweeper' = Marker /\ Propagator' = Propagator
      BY <1>1, <2>2 DEF Mutator, Sweeper, Propagator
    <2>4. ptr' \in Objs /\ \A o \in alloc' : o >= ptr'
      BY <1>8, <1>10, <2>1
    <2>5. \A o \in alloc' : ~(o > ptr)
      BY <1>8, <1>10, <1>15
    <2>6. \A o \in alloc' : c[o] \in {Mutator, Marker}
      <3> SUFFICES ASSUME NEW o \in alloc' PROVE c[o] \in {Mutator, Marker}
        OBVIOUS
      <3>1. c[o] # Propagator /\ c[o] # Sweeper
        BY <1>4, <1>15, <2>5
      <3>2. c[o] \in 0 .. 3
        BY <1>4, <1>8
      <3> QED BY <1>1, <3>1, <3>2
    <2>7. InHand' = InHand /\ InHand \subseteq K
      <3>1. InHand' = InHand
        BY DEF InHand
      <3>2. InHand' \subseteq K
        BY <1>5 DEF InHand
      <3> QED BY <3>1, <3>2
    <2>8. \A o \in Objs : color'[o] = IF o \in InHand /\ c[o] # Sweeper THEN Propagator ELSE c[o]
      BY <2>1, <2>2 DEF Marked
    <2>9. \A o \in InHand : c[o] = Mutator /\ color'[o] = Propagator /\ o \in K
      BY <1>1, <1>2, <1>4, <1>9, <2>6, <2>7, <2>8
    <2>10. \A o \in alloc' : color'[o] # Sweeper
      <3> SUFFICES ASSUME NEW o \in alloc' PROVE color'[o] # Sweeper
        OBVIOUS
      <3>1. Propagator # Sweeper
        BY <1>1
      <3>2. c[o] # Sweeper
        BY <1>1, <2>6
      <3>3. o \in Objs
        BY <1>8
      <3> QED BY <2>8, <3>1, <3>2, <3>3
    <2>11. PICK J : J = {o \in K : c[o] = Mutator}
      OBVIOUS
    <2>12. Kept' = J
      <3>1. ASSUME NEW o \in alloc' \ Freeing' PROVE color'[o] # Marker <=> c[o] = Mutator
        BY <1>1, <1>8, <2>6, <2>8, <2>9
      <3>2. \A o \in alloc' \ Freeing' : c[o] = Mutator => o \in K
        BY <1>1, <1>3
      <3> QED BY <1>9, <2>3, <2>11, <3>1, <3>2 DEF Kept
    <2>13. TypeOK'
      <3>1. color' \in [Objs -> 0 .. 3]
        <4>1. \A o \in Objs : c[o] \in 0 .. 3 /\ Propagator \in 0 .. 3
          BY <1>1, <1>4
        <4> QED BY <2>1, <4>1 DEF Marked
      <3>2. nprop' \in BOOLEAN
        BY <2>1 DEF Marks
      <3> QED BY <1>8, <1>11, <2>1, <2>2, <2>4, <3>1, <3>2 DEF TypeOK
    <2>14. Tricolour'
      <3>1. \A o \in InHand' : o \in Objs /\ color'[o] \in {Mutator', Propagator'}
        BY <1>9, <2>3, <2>7, <2>9
      <3>2. \A o \in alloc' \ Freeing' : color'[o] # Mutator'
        BY <2>3, <2>10
      <3> QED BY <2>4, <3>1, <3>2 DEF Tricolour
    <2>15. SoundInv'
      <3>1. Sound(K)'
        BY <1>5, <1>6, <1>9, <2>1, <2>11, <2>12 DEF Sound
      <3> QED BY <1>9, <3>1 DEF SoundInv
    <2>16. KeptInv'
      <3>1. \A r \in Roots : root'[r] \in J \cup {Nil}
        <4>1. \A r \in Roots : root'[r] # Nil => root'[r] \in InHand
          BY <2>7 DEF InHand
        <4> QED BY <2>9, <2>11, <4>1
      <3>2. ASSUME NEW o \in J, NEW f \in Fields, field'[o][f] # Nil PROVE field'[o][f] \in J
        <4>1. field'[o][f] \in K /\ field'[o][f] \in Come
          BY <1>4, <1>5, <1>9, <2>11, <3>2 DEF Children
        <4>2. c[field'[o][f]] = Mutator
          BY <1>1, <1>2, <1>9, <2>6, <4>1
        <4> QED BY <2>11, <4>1, <4>2
      <3> QED BY <2>12, <3>1, <3>2 DEF KeptInv
    <2>17. FreeInv'
      BY <1>8, <2>1 DEF FreeInv
    <2>18. SweepInv'
      BY <2>1, <2>4 DEF SweepInv
    <2> QED BY <1>8, <2>13, <2>14, <2>15, <2>16, <2>17, <2>18 DEF IInv
  <1> QED BY <1>13, <1>14, <1>15

\* In the middle of a pass, the objects with sound counts are those that the
\* sweeper will leave.
LEMMA KeptSound ==
  ASSUME IInv, gcpc # "out"
  PROVE  Sound(Kept) /\ Kept \in SUBSET Objs
  <1>1. PICK G \in SUBSET Objs : Sound(G)
    BY DEF IInv, SoundInv
  <1>2. G = Kept
    BY <1>1 DEF Sound
  <1> QED BY <1>1, <1>2

\* A cell that is not freed is visited, which gives the colors c.
LEMMA VisitInv ==
  ASSUME IInv, gcpc = "visit", UNCHANGED <<alloc, ref, field, root, stk, todo, gchalt>>,
         NEW c \in [Objs -> 0 .. 3], NEW n \in BOOLEAN, Advance(c, n),
         \A o \in alloc : c[o] = Sweeper <=> color[o] = Sweeper,
         \A o \in Objs : color[o] \in {Mutator, Propagator} => c[o] \in {Mutator, Propagator},
         \A o \in alloc \ Freeing : c[o] = Mutator =>
           color[o] = Mutator \/ \A x \in Children(o) : c[x] \in {Mutator, Propagator},
         ~n => \A o \in alloc : c[o] = Propagator => o > ptr,
         ptr \in alloc => color[ptr] # Sweeper
  PROVE  IInv'
  <1>1. TypeOK /\ FreeInv /\ KeptInv /\ Tricolour /\ BlankInv /\ SweepInv
    BY DEF IInv
  <1>2. /\ Freeing' = Freeing /\ InHand' = InHand /\ \A o : Children(o)' = Children(o)
        /\ \A s : Read(s)' = Read(s)
    BY DEF Freeing, InHand, Children, Uses, RootSlots, Pending, Read
  <1>3. PICK K \in SUBSET Objs : K = Kept
    BY KeptSound
  <1>4. Sound(K)
    BY <1>3, KeptSound
  <1>5. K = {o \in alloc' \ Freeing' : c[o] # Sweeper}
    BY <1>2, <1>3 DEF Kept
  <1>6. \A o \in K : Refs(K, o)' = Refs(K, o)
    BY <1>2 DEF Refs, Uses, RootSlots, Pending
  <1>7. Heap'
    <2>1. BlankInv'
      BY <1>1 DEF BlankInv, Blank
    <2>2. IsFiniteSet(Freeing)
      BY <1>1, Cells, FS_Subset DEF TypeOK, FreeInv
    <2>3. gchalt' = Cardinality(Freeing')
      BY <1>1, <1>2, <2>2, FS_CardinalityType DEF TypeOK
    <2> QED BY <1>1, <1>2, <2>1, <2>3 DEF Heap, TypeOK, FreeInv
  <1>8. Visited(c, n, K)
    <2>1. PICK C : C = {o \in Objs : color[o] \in {Mutator, Propagator}}
      OBVIOUS
    <2>2. PICK D : D = {o \in Objs : c[o] \in {Mutator, Propagator}}
      OBVIOUS
    <2>3. C \subseteq D
      BY <2>1, <2>2
    <2>4. InHand' \subseteq D
      BY <1>1, <1>2, <2>1, <2>3 DEF Tricolour
    <2>5. \A o \in alloc' \ Freeing' : c[o] = Mutator => Children(o)' \subseteq D
      <3> SUFFICES ASSUME NEW o \in alloc \ Freeing, c[o] = Mutator PROVE Children(o) \subseteq D
        BY <1>2
      <3>1. Children(o) \subseteq Objs
        BY <1>1 DEF Children, TypeOK
      <3>2. CASE color[o] = Mutator
        BY <1>1, <2>1, <2>3, <3>2 DEF Tricolour
      <3>3. CASE \A x \in Children(o) : c[x] \in {Mutator, Propagator}
        BY <2>2, <3>1, <3>3
      <3> QED BY <3>2, <3>3
    <2>6. ASSUME NEW o \in alloc', c[o] = Sweeper PROVE o > ptr
      <3>1. o \in alloc /\ o \in Objs /\ color[o] = Sweeper /\ o # ptr
        BY <1>1, <2>6 DEF TypeOK
      <3>2. o >= ptr
        BY <1>1, <3>1 DEF SweepInv
      <3>3. o \in Nat /\ ptr \in Nat
        BY <1>1, <3>1, Cells DEF TypeOK
      <3> QED BY <3>1, <3>2, <3>3
    <2>7. /\ \A r \in Roots : root'[r] \in K \cup {Nil}
          /\ \A o \in K, f \in Fields : field'[o][f] \in K \cup {Nil}
          /\ \A o \in Freeing' : \A f \in todo'[o] : field'[o][f] \in K
          /\ \A o \in K : ref'[o] >= Cardinality(Refs(K, o)')
      BY <1>2, <1>4, <1>6 DEF Sound
    <2>8. \A o \in Freeing' : c[o] # Sweeper /\ \A x \in Children(o)' \cap alloc' : c[x] # Sweeper
      BY <1>1, <1>2 DEF FreeInv, Spared
    <2>9. ~n => \A o \in alloc' : c[o] = Propagator => o > ptr
      OBVIOUS
    <2> QED BY <1>5, <2>2, <2>4, <2>5, <2>6, <2>7, <2>8, <2>9 DEF Visited
  <1> QED BY <1>1, <1>7, <1>8, AdvanceInv DEF TypeOK

\* A cell that is skipped.
LEMMA GcSkipInv == ASSUME IInv, GcSkip PROVE IInv'
  <1>1. TypeOK /\ Tricolour
    BY DEF IInv
  <1>2. PICK c \in [Objs -> 0 .. 3] : c = color
    BY <1>1 DEF TypeOK
  <1>3. PICK n \in BOOLEAN : n = nprop
    BY <1>1 DEF TypeOK
  <1>4. Advance(c, n) /\ gcpc = "visit" /\ UNCHANGED <<alloc, ref, field, root, stk, todo, gchalt>>
    BY <1>2, <1>3 DEF GcSkip
  <1>5. ASSUME ~n, NEW o \in alloc, c[o] = Propagator PROVE o > ptr
    <2>1. o # ptr /\ o >= ptr
      BY <1>1, <1>2, <1>3, <1>5 DEF GcSkip, Tricolour
    <2>2. o \in Nat /\ ptr \in Nat
      BY <1>1, Cells DEF TypeOK
    <2> QED BY <2>1, <2>2
  <1>6. ptr \in alloc => color[ptr] # Sweeper
    BY DEF GcSkip
  <1> QED BY <1>2, <1>4, <1>5, <1>6, VisitInv

\* A marked object passes its mark on to what it points to.
LEMMA GcMarkInv == ASSUME IInv, GcMark PROVE IInv'
  <1>1. TypeOK /\ FreeInv /\ KeptInv /\ Tricolour
    BY DEF IInv
  <1>2. /\ Mutator \in 0 .. 2 /\ Sweeper \in 0 .. 2 /\ Propagator = 3 /\ Mutator # Sweeper
        /\ Propagator # Sweeper /\ Propagator # Mutator
    <2>1. Mutator \in 0 .. 2 /\ Sweeper \in 0 .. 2 /\ Propagator = 3 /\ Mutator # Sweeper
      BY <1>1, Colors DEF TypeOK
    <2> QED BY <2>1
  <1>3. PICK a : a = [color EXCEPT ![ptr] = Mutator]
    OBVIOUS
  <1>4. PICK c : c = Marked(Children(ptr), a, Mutator)
    OBVIOUS
  <1>5. PICK n \in BOOLEAN : n = (nprop \/ Marks(Children(ptr), a, Mutator))
    BY DEF Marks
  <1>6. /\ gcpc = "visit" /\ ptr \in alloc /\ color[ptr] = Propagator /\ Advance(c, n)
        /\ UNCHANGED <<alloc, ref, field, root, stk, todo, gchalt>>
    BY <1>3, <1>4, <1>5 DEF GcMark
  <1>7. color \in [Objs -> 0 .. 3] /\ ptr \in Objs /\ alloc \subseteq Objs /\ Children(ptr) \subseteq Objs
    BY <1>1 DEF TypeOK, Children
  <1>8. a[ptr] = Mutator /\ \A o \in Objs : o # ptr => a[o] = color[o]
    BY <1>3, <1>7
  <1>9. \A o \in Objs : c[o] = IF o \in Children(ptr) /\ a[o] # Mutator THEN Propagator ELSE a[o]
    BY <1>4 DEF Marked
  <1>10. c \in [Objs -> 0 .. 3]
    <2>1. a \in [Objs -> 0 .. 3] /\ Propagator \in 0 .. 3
      BY <1>2, <1>3, <1>7
    <2> QED BY <1>4, <2>1 DEF Marked
  <1>11. ASSUME NEW x \in Children(ptr) \cap alloc PROVE color[x] # Sweeper
    <2>1. CASE ptr \in Freeing
      BY <1>1, <1>6, <2>1 DEF FreeInv, Spared
    <2>2. CASE ptr \notin Freeing
      <3>1. ptr \in Kept
        BY <1>2, <1>6, <2>2 DEF Kept
      <3>2. x \in Kept
        BY <1>1, <3>1 DEF KeptInv, Children
      <3> QED BY <3>2 DEF Kept
    <2> QED BY <2>1, <2>2
  <1>12. ASSUME NEW o \in alloc PROVE c[o] = Sweeper <=> color[o] = Sweeper
    <2>1. CASE o \in Children(ptr)
      BY <1>2, <1>6, <1>7, <1>8, <1>9, <1>11, <2>1
    <2>2. CASE o \notin Children(ptr)
      BY <1>2, <1>6, <1>7, <1>8, <1>9, <2>2
    <2> QED BY <2>1, <2>2
  <1>13. \A o \in Objs : color[o] \in {Mutator, Propagator} => c[o] \in {Mutator, Propagator}
    BY <1>8, <1>9
  <1>14. ASSUME NEW o \in alloc \ Freeing, c[o] = Mutator
         PROVE  color[o] = Mutator \/ \A x \in Children(o) : c[x] \in {Mutator, Propagator}
    <2>1. CASE o = ptr
      BY <1>7, <1>9, <2>1
    <2>2. CASE o # ptr
      BY <1>2, <1>7, <1>8, <1>9, <1>14, <2>2
    <2> QED BY <2>1, <2>2
  <1>15. ASSUME ~n, NEW o \in alloc, c[o] = Propagator PROVE o > ptr
    <2>1. ~nprop /\ \A x \in Children(ptr) : a[x] = Mutator
      BY <1>5, <1>15 DEF Marks
    <2>2. c[o] = a[o] /\ o # ptr /\ color[o] = Propagator
      BY <1>2, <1>7, <1>8, <1>9, <1>15, <2>1
    <2>3. o >= ptr
      BY <1>1, <2>1, <2>2 DEF Tricolour
    <2>4. o \in Nat /\ ptr \in Nat
      BY <1>7, Cells
    <2> QED BY <2>2, <2>3, <2>4
  <1>16. color[ptr] # Sweeper
    BY <1>2, <1>6
  <1> QED BY <1>6, <1>10, <1>12, <1>13, <1>14, <1>15, <1>16, VisitInv

\* Garbage is given to its free routine.
LEMMA GcSweepInv == ASSUME IInv, GcSweep PROVE IInv'
  <1>1. TypeOK /\ FreeInv /\ KeptInv /\ Tricolour /\ BlankInv /\ SweepInv
    BY DEF IInv
  <1>2. /\ gcpc = "visit" /\ gcpc' = "sweep" /\ gchalt' = gchalt + 1
        /\ ptr \in alloc /\ color[ptr] = Sweeper
        /\ UNCHANGED <<alloc, color, ref, field, root, nprop, gccolor, ptr, stk, todo>>
    BY DEF GcSweep, heapVars
  <1>3. /\ Mutator' = Mutator /\ Sweeper' = Sweeper /\ Propagator' = Propagator
        /\ Freeing' = Freeing /\ InHand' = InHand
        /\ \A o : Children(o)' = Children(o)
        /\ \A s : Read(s)' = Read(s)
    BY <1>2 DEF Mutator, Sweeper, Propagator, Freeing, InHand, Children, Read
  <1>4. Kept' = Kept
    BY <1>2, <1>3 DEF Kept
  <1>5. TypeOK'
    <2>1. IsFiniteSet(Freeing)
      BY <1>1, Cells, FS_Subset DEF TypeOK, FreeInv
    <2>2. gchalt' = Cardinality(Freeing') + 1
      BY <1>1, <1>2, <1>3, <2>1, FS_CardinalityType DEF TypeOK
    <2> QED BY <1>1, <1>2, <2>2 DEF TypeOK
  <1>6. SoundInv'
    <2>1. PICK K \in SUBSET Objs : K = Kept /\ Sound(K)
      BY <1>2, KeptSound
    <2>2. \A o \in K : Refs(K, o)' = Refs(K, o)
      BY <1>2, <1>3 DEF Refs, Uses, RootSlots, Pending
    <2>3. Sound(K)'
      BY <1>2, <1>3, <1>4, <2>1, <2>2 DEF Sound
    <2> QED BY <2>3 DEF SoundInv
  <1>7. KeptInv'
    BY <1>1, <1>2, <1>4 DEF KeptInv
  <1>8. FreeInv'
    BY <1>1, <1>2, <1>3 DEF FreeInv, Spared
  <1>9. Tricolour' /\ BlankInv' /\ SweepInv'
    BY <1>1, <1>2, <1>3 DEF Tricolour, BlankInv, Blank, SweepInv
  <1> QED BY <1>5, <1>6, <1>7, <1>8, <1>9 DEF IInv

\* Garbage is freed.
LEMMA GcFreeInv == ASSUME IInv, GcFree PROVE IInv'
  <1>1. TypeOK /\ FreeInv /\ KeptInv /\ Tricolour /\ BlankInv /\ SweepInv
    BY DEF IInv
  <1>2. /\ gcpc = "sweep" /\ gchalt' = gchalt - 1 /\ Poolfree(ptr)
        /\ Advance(Faded(ptr), nprop) /\ UNCHANGED <<root, stk, todo>>
    BY DEF GcFree
  <1>3. /\ Mutator \in 0 .. 2 /\ Sweeper \in 0 .. 2 /\ Propagator = 3 /\ Mutator # Sweeper
    BY <1>1, Colors DEF TypeOK
  <1>4. /\ ptr \in alloc /\ color[ptr] = Sweeper /\ ptr \in Objs /\ ptr \notin Freeing
        /\ alloc \subseteq Objs /\ Freeing \subseteq alloc
    BY <1>1, <1>2 DEF SweepInv, FreeInv, Spared, TypeOK
  <1>5. PICK K \in SUBSET Objs : K = Kept /\ Sound(K)
    BY <1>2, KeptSound
  <1>6. ptr \notin K
    BY <1>4, <1>5 DEF Kept
  <1>7. /\ Freeing' = Freeing /\ InHand' = InHand
    BY <1>2 DEF Freeing, InHand
  <1>8. /\ alloc' = alloc \ {ptr}
        /\ ref' \in [Objs -> Nat] /\ field' \in [Objs -> [Fields -> Objs \cup {Nil}]]
        /\ \A x \in Objs \ {ptr} : field'[x] = field[x]
        /\ \A x \in Freeing' : \A f \in todo'[x] : field'[x][f] \in K
        /\ \A x \in K : ref'[x] >= Cardinality(Refs(K, x)')
        /\ BlankInv'
    <2>1. Freeing' = Freeing \ {ptr} /\ ptr \in Objs \ K /\ UNCHANGED <<root, todo>>
      BY <1>2, <1>4, <1>6, <1>7
    <2>2. PICK o \in Objs \ K : o = ptr
      BY <2>1
    <2>3. Poolfree(o) /\ Freeing' = Freeing \ {o} /\ o \notin Freeing
      BY <1>2, <1>4, <2>1, <2>2
    <2> QED BY <1>1, <1>5, <2>1, <2>2, <2>3, PoolfreeInv
  <1>9. PICK c : c = Faded(ptr)
    OBVIOUS
  <1>10. c \in [Objs -> 0 .. 3] /\ \A x \in Objs \ {ptr} : c[x] = color[x]
    BY <1>1, <1>4, <1>9 DEF Faded, TypeOK
  <1>11. PICK n \in BOOLEAN : n = nprop
    BY <1>1 DEF TypeOK
  <1>12. \A x \in Objs \ {ptr} : Children(x)' = Children(x)
    BY <1>8 DEF Children
  <1>13. Heap'
    <2>1. IsFiniteSet(Freeing)
      BY <1>4, Cells, FS_Subset
    <2>2. gchalt' = Cardinality(Freeing')
      BY <1>1, <1>2, <1>7, <2>1, FS_CardinalityType DEF TypeOK
    <2>3. alloc' \subseteq Objs /\ Freeing' \subseteq alloc'
      BY <1>4, <1>7, <1>8
    <2> QED BY <1>1, <1>2, <1>8, <2>2, <2>3 DEF Heap, TypeOK, FreeInv
  <1>14. K = {o \in alloc' \ Freeing' : c[o] # Sweeper}
    BY <1>4, <1>5, <1>7, <1>8, <1>10 DEF Kept
  <1>15. Visited(c, n, K)
    <2>1. PICK C : C = {o \in Objs : color[o] \in {Mutator, Propagator}}
      OBVIOUS
    <2>2. PICK D : D = {o \in Objs : c[o] \in {Mutator, Propagator}}
      OBVIOUS
    <2>3. C \ {ptr} \subseteq D
      BY <1>10, <2>1, <2>2
    <2>4. InHand' \subseteq D
      <3>1. InHand \subseteq C /\ InHand \subseteq K
        BY <1>1, <1>5, <2>1 DEF Tricolour, KeptInv, InHand
      <3> QED BY <1>6, <1>7, <2>3, <3>1
    <2>5. ASSUME NEW o \in alloc' \ Freeing', c[o] = Mutator PROVE Children(o)' \subseteq D
      <3>1. o \in alloc \ Freeing /\ o \in Objs \ {ptr} /\ color[o] = Mutator
        BY <1>4, <1>7, <1>8, <1>10, <2>5
      <3>2. Children(o) \subseteq C
        BY <1>1, <2>1, <3>1 DEF Tricolour
      <3>3. Children(o) \subseteq K
        BY <1>1, <1>3, <1>5, <3>1 DEF KeptInv, Kept, Children
      <3> QED BY <1>6, <1>12, <2>3, <3>1, <3>2, <3>3
    <2>6. ASSUME NEW o \in alloc' PROVE o \in alloc /\ o \in Objs \ {ptr} /\ c[o] = color[o] /\ (o >= ptr => o > ptr)
      <3>1. o \in alloc /\ o \in Objs \ {ptr} /\ c[o] = color[o]
        BY <1>4, <1>8, <1>10
      <3>2. o \in Nat /\ ptr \in Nat
        BY <1>4, <3>1, Cells
      <3> QED BY <3>1, <3>2
    <2>7. \A o \in alloc' : c[o] = Sweeper => o > ptr
      BY <1>1, <2>6 DEF SweepInv
    <2>8. ~n => \A o \in alloc' : c[o] = Propagator => o > ptr
      BY <1>1, <1>11, <2>6 DEF Tricolour
    <2>9. /\ \A r \in Roots : root'[r] \in K \cup {Nil}
          /\ \A o \in K, f \in Fields : field'[o][f] \in K \cup {Nil}
      BY <1>2, <1>5, <1>6, <1>8 DEF Sound
    <2>10. ASSUME NEW o \in Freeing'
           PROVE  c[o] # Sweeper /\ \A x \in Children(o)' \cap alloc' : c[x] # Sweeper
      <3>1. o \in Objs \ {ptr} /\ Spared(o)
        BY <1>1, <1>2, <1>4, <1>7 DEF FreeInv
      <3> QED BY <1>10, <1>12, <2>6, <3>1 DEF Spared
    <2> QED BY <1>8, <1>10, <1>14, <2>2, <2>4, <2>5, <2>7, <2>8, <2>9, <2>10 DEF Visited
  <1>16. Advance(c, n) /\ gccolor \in 0 .. 2 /\ root' = root
    BY <1>1, <1>2, <1>9, <1>11 DEF TypeOK
  <1> QED BY <1>4, <1>13, <1>15, <1>16, AdvanceInv

\* The collector is called when nothing is being freed.
LEMMA GcStartInv == ASSUME IInv, GcStart PROVE IInv'
  <1>1. TypeOK /\ FreeInv /\ KeptInv /\ Tricolour /\ BlankInv /\ SweepInv
    BY DEF IInv
  <1>2. /\ gcpc = "out" /\ gchalt = 0 /\ gcpc' = "visit"
        /\ UNCHANGED <<alloc, color, ref, field, root, nprop, gccolor, ptr, stk, todo, gchalt>>
    BY DEF GcStart, Idle, heapVars
  <1>3. Freeing = {}
    <2>1. IsFiniteSet(Freeing)
      BY <1>1, Cells, FS_Subset DEF TypeOK, FreeInv
    <2>2. Cardinality(Freeing) = 0
      BY <1>1, <1>2, <2>1, FS_CardinalityType DEF TypeOK
    <2> QED BY <2>1, <2>2, FS_EmptySet
  <1>4. /\ Mutator' = Mutator /\ Sweeper' = Sweeper /\ Propagator' = Propagator
        /\ Freeing' = Freeing /\ InHand' = InHand
        /\ \A o : Children(o)' = Children(o)
        /\ \A s : Read(s)' = Read(s)
    BY <1>2 DEF Mutator, Sweeper, Propagator, Freeing, InHand, Children, Read
  <1>5. Kept' = Kept
    BY <1>2, <1>4 DEF Kept
  <1>6. SoundInv'
    <2>1. PICK G \in SUBSET Objs : Sound(G)
      BY DEF IInv, SoundInv
    <2>2. PICK K : K = Kept
      OBVIOUS
    <2>3. K \subseteq G /\ K \in SUBSET Objs /\ K \subseteq alloc
      BY <1>1, <2>1, <2>2 DEF Sound, Kept
    <2>4. ASSUME NEW o \in K PROVE ref[o] >= Cardinality(Refs(K, o)')
      <3>1. PICK H : H = Refs(G, o)
        OBVIOUS
      <3>2. PICK I : I = Refs(K, o)'
        OBVIOUS
      <3>3. I = Refs(K, o)
        BY <1>2, <1>4, <3>2 DEF Refs, Uses, RootSlots, Pending
      <3>4. I \subseteq H
        BY <2>3, <3>1, <3>3 DEF Refs, Uses
      <3>5. IsFiniteSet(H)
        <4>1. H \subseteq Uses(G)
          BY <3>1 DEF Refs
        <4> QED BY <1>3, <4>1, UsesFinite, FS_Subset
      <3>6. Cardinality(H) \in Nat /\ Cardinality(I) \in Nat /\ Cardinality(I) <= Cardinality(H)
        BY <3>4, <3>5, Recount
      <3>7. ref[o] >= Cardinality(H) /\ ref[o] \in Nat
        BY <1>1, <2>1, <2>3, <3>1 DEF Sound, TypeOK
      <3> QED BY <3>2, <3>6, <3>7
    <2>5. Sound(K)'
      BY <1>1, <1>2, <1>3, <1>4, <1>5, <2>2, <2>3, <2>4 DEF Sound, KeptInv
    <2> QED BY <2>3, <2>5 DEF SoundInv
  <1>7. TypeOK' /\ KeptInv' /\ FreeInv'
    <2>1. TypeOK'
      BY <1>1, <1>2, <1>4 DEF TypeOK
    <2>2. KeptInv' /\ FreeInv'
      BY <1>1, <1>2, <1>3, <1>4, <1>5 DEF KeptInv, FreeInv
    <2> QED BY <2>1, <2>2
  <1>8. Tricolour' /\ BlankInv' /\ SweepInv'
    BY <1>1, <1>2, <1>4 DEF Tricolour, BlankInv, Blank, SweepInv
  <1> QED BY <1>6, <1>7, <1>8 DEF IInv

\* The collector starts again at the beginning of the heap.
LEMMA ChainBrokenInv == ASSUME IInv, ChainBroken PROVE IInv'
  <1>1. TypeOK /\ FreeInv /\ KeptInv /\ Tricolour /\ BlankInv /\ SweepInv
    BY DEF IInv
  <1>2. /\ gcpc = "out" /\ ptr' = 1
        /\ UNCHANGED <<alloc, color, ref, field, root, nprop, gccolor, gcpc, stk, todo, gchalt>>
    BY DEF ChainBroken, Idle, heapVars
  <1>3. /\ Mutator' = Mutator /\ Sweeper' = Sweeper /\ Propagator' = Propagator
        /\ Freeing' = Freeing /\ InHand' = InHand
        /\ \A o : Children(o)' = Children(o)
        /\ \A s : Read(s)' = Read(s)
    BY <1>2 DEF Mutator, Sweeper, Propagator, Freeing, InHand, Children, Read
  <1>4. Kept' = Kept
    BY <1>2, <1>3 DEF Kept
  <1>5. ptr' \in Objs /\ \A o \in alloc : o >= 1
    BY <1>1, <1>2, Cells DEF Objs, TypeOK
  <1>6. SoundInv'
    <2>1. PICK G \in SUBSET Objs : Sound(G)
      BY DEF IInv, SoundInv
    <2>2. \A o \in G : Refs(G, o)' = Refs(G, o)
      BY <1>2, <1>3 DEF Refs, Uses, RootSlots, Pending
    <2>3. Sound(G)'
      BY <1>2, <1>3, <1>4, <2>1, <2>2 DEF Sound
    <2> QED BY <2>3 DEF SoundInv
  <1>7. TypeOK' /\ KeptInv' /\ FreeInv'
    <2>1. TypeOK'
      BY <1>1, <1>2, <1>3, <1>5 DEF TypeOK
    <2>2. KeptInv' /\ FreeInv'
      BY <1>1, <1>2, <1>3, <1>4 DEF KeptInv, FreeInv
    <2> QED BY <2>1, <2>2
  <1>8. Tricolour' /\ BlankInv' /\ SweepInv'
    BY <1>1, <1>2, <1>3, <1>5 DEF Tricolour, BlankInv, Blank, SweepInv
  <1> QED BY <1>6, <1>7, <1>8 DEF IInv

-----------------------------------------------------------------------------
(***************************************************************************)
(* The theorems.                                                           *)
(***************************************************************************)
\* The heap is empty at first.
LEMMA InitIInv == Init => IInv
  <1> SUFFICES ASSUME Init PROVE IInv
    OBVIOUS
  <1>1. /\ alloc = {} /\ color = [o \in Objs |-> 0] /\ ref = [o \in Objs |-> 0]
        /\ field = [o \in Objs |-> Blank] /\ root = [r \in Roots |-> Nil]
        /\ gccolor = 0 /\ nprop = FALSE /\ ptr = 1 /\ gcpc = "out"
        /\ stk = [p \in Progs |-> <<>>] /\ todo = [o \in Objs |-> {}] /\ gchalt = 0
    BY DEF Init
  <1>2. Freeing = {} /\ InHand = {} /\ Kept = {}
    BY <1>1, EmptyQueue DEF Freeing, InHand, Kept
  <1>3. TypeOK
    <2>1. gchalt = Cardinality(Freeing) + (IF gcpc = "sweep" THEN 1 ELSE 0)
      BY <1>1, <1>2, FS_EmptySet
    <2>2. ptr \in Objs
      BY <1>1 DEF Objs
    <2>3. Blank \in [Fields -> Objs \cup {Nil}]
      BY DEF Blank
    <2>4. stk \in [Progs -> Seq(Objs)]
      BY <1>1
    <2>5. /\ color \in [Objs -> 0 .. 3] /\ ref \in [Objs -> Nat]
          /\ field \in [Objs -> [Fields -> Objs \cup {Nil}]]
          /\ root \in [Roots -> Objs \cup {Nil}] /\ todo \in [Objs -> SUBSET Fields]
      BY <1>1, <2>3
    <2>6. alloc \subseteq Objs /\ gccolor \in 0 .. 2
      BY <1>1
    <2>7. nprop \in BOOLEAN
      BY <1>1
    <2>8. gcpc \in {"out", "visit", "sweep"}
      BY <1>1
    <2> QED BY <2>1, <2>2, <2>4, <2>5, <2>6, <2>7, <2>8 DEF TypeOK
  <1>4. Tricolour /\ KeptInv
    BY <1>1, <1>2 DEF Tricolour, KeptInv
  <1>5. SoundInv
    <2>1. Sound({})
      BY <1>1, <1>2 DEF Sound
    <2> QED BY <2>1 DEF SoundInv
  <1>6. FreeInv
    BY <1>1, <1>2, EmptyQueue DEF FreeInv
  <1>7. BlankInv /\ SweepInv
    BY <1>1 DEF BlankInv, SweepInv
  <1> QED BY <1>3, <1>4, <1>5, <1>6, <1>7 DEF IInv

\* Every step keeps the invariant, when there are no links that mcall made.
LEMMA NextIInv == ASSUME NoMCall, IInv, [Next]_vars PROVE IInv'
  <1>1. ASSUME NEW p \in Progs, NEW d \in Slots, NEW o \in Objs, New(p, d, o) PROVE IInv'
    BY <1>1, NewInv
  <1>2. ASSUME NEW p \in Progs, NEW s \in Slots, NEW d \in Slots, MovP(p, s, d) PROVE IInv'
    BY <1>2, MovPInv
  <1>3. ASSUME NEW p \in Progs, NEW d \in Slots \cup {<<c>> : c \in Calls}, Clear(p, d) PROVE IInv'
    BY <1>3, ClearInv
  <1>4. ASSUME NEW p \in Progs, NEW s \in Slots, NEW c \in Calls, MCall(p, s, c) PROVE IInv'
    BY <1>4 DEF NoMCall
  <1>5. ASSUME NEW p \in Progs, FreeStep(p) PROVE IInv'
    BY <1>5, DestroyFieldInv, DestroyEndInv DEF FreeStep
  <1>6. ASSUME GcStart PROVE IInv'
    BY <1>6, GcStartInv
  <1>7. ASSUME ChainBroken PROVE IInv'
    BY <1>7, ChainBrokenInv
  <1>8. ASSUME GcStep PROVE IInv'
    BY <1>8, GcMarkInv, GcSkipInv, GcSweepInv, GcFreeInv DEF GcStep
  <1>9. CASE UNCHANGED vars
    <2>1. UNCHANGED <<alloc, color, ref, field, root, gccolor, nprop, ptr, gcpc, stk, todo, gchalt>>
      BY <1>9 DEF vars, heapVars, gcVars
    <2>2. TypeOK /\ FreeInv /\ KeptInv /\ Tricolour /\ BlankInv /\ SweepInv
      BY DEF IInv
    <2>3. /\ Mutator' = Mutator /\ Sweeper' = Sweeper /\ Propagator' = Propagator
          /\ Freeing' = Freeing /\ InHand' = InHand
          /\ \A o : Children(o)' = Children(o)
          /\ \A s : Read(s)' = Read(s)
      BY <2>1 DEF Mutator, Sweeper, Propagator, Freeing, InHand, Children, Read
    <2>4. Kept' = Kept
      BY <2>1, <2>3 DEF Kept
    <2>5. SoundInv'
      <3>1. PICK G \in SUBSET Objs : Sound(G)
        BY DEF IInv, SoundInv
      <3>2. \A o \in G : Refs(G, o)' = Refs(G, o)
        BY <2>1, <2>3 DEF Refs, Uses, RootSlots, Pending
      <3>3. Sound(G)'
        BY <2>1, <2>3, <2>4, <3>1, <3>2 DEF Sound
      <3> QED BY <3>3 DEF SoundInv
    <2>6. TypeOK' /\ KeptInv' /\ FreeInv'
      BY <2>1, <2>2, <2>3, <2>4 DEF TypeOK, KeptInv, FreeInv, Spared
    <2>7. Tricolour' /\ BlankInv' /\ SweepInv'
      BY <2>1, <2>2, <2>3 DEF Tricolour, BlankInv, Blank, SweepInv
    <2> QED BY <2>5, <2>6, <2>7 DEF IInv
  <1> QED BY <1>1, <1>2, <1>3, <1>4, <1>5, <1>6, <1>7, <1>8, <1>9 DEF Next

\* The inductive invariant.
THEOREM IInvHolds == ASSUME NoMCall PROVE Spec => []IInv
  <1>1. IInv /\ [Next]_vars => IInv'
    BY NextIInv
  <1> QED BY InitIInv, <1>1, PTL DEF Spec

\* The variables have their types, and gchalt counts what is being freed.
THEOREM TypeCorrect == ASSUME NoMCall PROVE Spec => []TypeOK
  <1>1. IInv => TypeOK
    BY DEF IInv
  <1> QED BY IInvHolds, <1>1, PTL

\* No frame, and no object that has been marked and passed its mark on, refers
\* to an object that the collector may take for garbage.
THEOREM TricolourHolds == ASSUME NoMCall PROVE Spec => []Tricolour
  <1>1. IInv => Tricolour
    BY DEF IInv
  <1> QED BY IInvHolds, <1>1, PTL

\* What can be reached will be left by the sweeper.
LEMMA ReachableKept == IInv => Reachable \subseteq Kept
  <1> SUFFICES ASSUME IInv PROVE Reachable \subseteq Kept
    OBVIOUS
  <1>1. Kept \in SUBSET Objs
    BY DEF IInv, TypeOK, Kept
  <1>2. Closed(Kept)
    BY DEF Closed, InHand, Children, IInv, KeptInv
  <1> QED BY <1>1, <1>2 DEF Reachable

\* What a Prog can get at is never freed, nor about to be, neither by destroy()
\* nor by the collector.
THEOREM LiveKeptHolds == ASSUME NoMCall PROVE Spec => []LiveKept
  <1>1. IInv => LiveKept
    BY ReachableKept DEF LiveKept, Kept
  <1> QED BY IInvHolds, <1>1, PTL

\* The count of an object is never less than the references to it.
THEOREM RefCountedHolds == ASSUME NoMCall PROVE Spec => []RefCounted
  <1>1. ASSUME IInv PROVE RefCounted
    <2> SUFFICES ASSUME NEW o \in alloc \ Freeing PROVE ref[o] >= Cardinality(Holders(o))
      BY DEF RefCounted
    <2>1. TypeOK /\ FreeInv
      BY <1>1 DEF IInv
    <2>2. ref[o] \in Nat /\ o \in Objs /\ o # Nil /\ Freeing \subseteq Objs
      BY <2>1, Cells DEF TypeOK, FreeInv
    <2>3. PICK G \in SUBSET Objs : Sound(G)
      BY <1>1 DEF IInv, SoundInv
    <2>4. Reachable \subseteq G
      BY <1>1, <2>3, ReachableKept DEF Sound
    <2>5. PICK H : H = Refs(G, o)
      OBVIOUS
    <2>6. PICK I : I = Holders(o)
      OBVIOUS
    <2>7. I \subseteq H
      <3> SUFFICES ASSUME NEW s \in I PROVE s \in Uses(G) /\ Read(s) = o
        BY <2>5 DEF Refs
      <3>1. CASE s \in {<<r>> : r \in {x \in Roots : root[x] = o}}
        <4>1. PICK r \in Roots : s = <<r>> /\ root[r] = o
          BY <3>1
        <4> QED BY <4>1, Slot DEF Uses, RootSlots
      <3>2. CASE s \in {x \in Reachable \X Fields : field[x[1]][x[2]] = o}
        <4>1. PICK x \in Reachable, f \in Fields : s = <<x, f>> /\ field[x][f] = o
          BY <3>2
        <4> QED BY <2>4, <4>1, Slot DEF Uses
      <3>3. CASE s \in {x \in Freeing \X Fields : x[2] \in todo[x[1]] /\ field[x[1]][x[2]] = o}
        <4>1. PICK x \in Freeing, f \in Fields : s = <<x, f>> /\ f \in todo[x] /\ field[x][f] = o
          BY <3>3
        <4> QED BY <4>1, Slot DEF Uses, Pending
      <3> QED BY <2>6, <3>1, <3>2, <3>3 DEF Holders
    <2>8. IsFiniteSet(H)
      <3>1. H \subseteq Uses(G)
        BY <2>5 DEF Refs
      <3> QED BY <2>2, <3>1, UsesFinite, FS_Subset
    <2>9. CASE o \in G
      <3>1. Cardinality(H) \in Nat /\ Cardinality(I) \in Nat /\ Cardinality(I) <= Cardinality(H)
        BY <2>7, <2>8, Recount
      <3>2. ref[o] >= Cardinality(H)
        BY <2>3, <2>5, <2>9 DEF Sound
      <3> QED BY <2>2, <2>6, <3>1, <3>2
    <2>10. CASE o \notin G
      <3>1. ASSUME NEW s \in I PROVE FALSE
        <4>1. s \in Uses(G) /\ Read(s) = o
          BY <2>5, <2>7 DEF Refs
        <4>2. CASE s \in RootSlots
          <5>1. PICK r \in Roots : s = <<r>>
            BY <4>2 DEF RootSlots
          <5> QED BY <2>2, <2>3, <2>10, <4>1, <5>1, Slot DEF Sound
        <4>3. CASE s \in G \X Fields
          <5>1. PICK x \in G, f \in Fields : s = <<x, f>>
            BY <4>3
          <5> QED BY <2>2, <2>3, <2>10, <4>1, <5>1, Slot DEF Sound
        <4>4. CASE s \in Pending
          <5>1. PICK x \in Freeing, f \in Fields : s = <<x, f>> /\ f \in todo[x]
            BY <4>4 DEF Pending
          <5> QED BY <2>3, <2>10, <4>1, <5>1, Slot DEF Sound
        <4> QED BY <4>1, <4>2, <4>3, <4>4 DEF Uses
      <3>2. I = {}
        BY <3>1
      <3>3. Cardinality(I) = 0
        BY <3>2, FS_EmptySet
      <3> QED BY <2>2, <2>6, <3>3
    <2> QED BY <2>9, <2>10
  <1> QED BY IInvHolds, <1>1, PTL

\* When an epoch ends, everything that was marked has passed its mark on, and
\* what the sweeper was to free has been freed.
THEOREM EpochCompleteHolds == ASSUME NoMCall PROVE Spec => EpochComplete
  <1>1. ASSUME IInv, [Next]_vars
        PROVE  [gccolor' # gccolor =>
                  \A o \in alloc' :
                    color[o] # Sweeper /\ (color[o] = Propagator => o = ptr)]_vars
    <2> SUFFICES ASSUME Next, gccolor' # gccolor, NEW o \in alloc'
                 PROVE  color[o] # Sweeper /\ (color[o] = Propagator => o = ptr)
      BY <1>1
    <2>1. TypeOK /\ Tricolour /\ SweepInv
      BY <1>1 DEF IInv
    <2>2. \/ GcMark \/ GcSkip \/ GcFree
      BY DEF Next, New, MovP, MCall, Clear, FreeStep, DestroyField, DestroyEnd, GcStart, ChainBroken,
             GcStep, GcSweep, gcVars
    <2>3. o \in alloc /\ o \in Nat /\ ptr \in Nat /\ (ptr = N /\ o >= ptr => o = ptr)
      <3>1. o \in alloc
        BY <2>2 DEF GcMark, GcSkip, GcFree, Poolfree
      <3>2. o \in Objs /\ ptr \in Objs
        BY <2>1, <3>1 DEF TypeOK
      <3> QED BY <3>1, <3>2, Cells
    <2>4. ptr = N /\ ~nprop
      <3>1. \E c, n : Advance(c, n) /\ (~n => ~nprop)
        BY <2>2 DEF GcMark, GcSkip, GcFree
      <3>2. ~(ptr < N) /\ ~nprop
        BY <3>1 DEF Advance
      <3> QED BY <2>1, <3>2, Cells DEF TypeOK
    <2>5. color[o] = Propagator => o = ptr
      BY <2>1, <2>3, <2>4 DEF Tricolour
    <2>6. color[o] = Sweeper => o = ptr
      BY <2>1, <2>3, <2>4 DEF SweepInv
    <2>7. o = ptr => color[o] # Sweeper
      BY <2>1, <2>2, Colors DEF GcMark, GcSkip, GcFree, Poolfree, TypeOK
    <2> QED BY <2>5, <2>6, <2>7
  <1> QED BY IInvHolds, <1>1, PTL DEF Spec, EpochComplete
=============================================================================
