--------------------------------- MODULE Gc ---------------------------------
(***************************************************************************)
(* The memory of Dis (interp/heap.c, interp/gc.c): reference counts, which *)
(* free an object at once when its last reference goes, and an incremental *)
(* collector, which runs between the quanta of the Progs and frees cycles. *)
(*                                                                         *)
(* Objects are the cells of the heap, numbered in the order in which the   *)
(* collector visits them; each has the same pointer fields.  The roots are *)
(* the pointers in the frames of the Progs and in the data of modules.     *)
(*                                                                         *)
(* The machine changes hands only when the free routine of an object gives *)
(* it away (freerdchan, emu/devsrv.c), which it may in every step of a     *)
(* destroy() and in the sweep.                                             *)
(***************************************************************************)
EXTENDS Naturals, FiniteSets, SequencesExt

CONSTANTS N,        \* the number of cells of the heap
          Fields,   \* the pointer fields of an object
          Frames,   \* root slots that are written by movp
          Calls,    \* root slots that are written by mcall: R.M
          Progs,
          MaxHalt,  \* the depth of destroy(): 64 in the code
          Nil       \* the pointer H

ASSUME GcAssumption ==
  /\ N \in Nat \ {0} /\ MaxHalt \in Nat
  /\ IsFiniteSet(Fields) /\ IsFiniteSet(Frames) /\ IsFiniteSet(Calls)
  /\ Nil \notin Nat /\ Frames \cap Calls = {}

Objs  == 1 .. N
Roots == Frames \cup Calls

VARIABLES alloc,    \* the cells in use
          color,
          ref,
          field,    \* the pointers in objects
          root,     \* the pointers in frames
          gccolor,  \* modulo 3
          nprop,    \* something was marked in this pass
          ptr,      \* the cell that the collector visits next
          gcpc,     \* where rungc() is
          stk,      \* the objects each Prog is freeing in destroy()
          todo,     \* the fields of each that it has not destroyed yet
          gchalt

heapVars == <<alloc, color, ref, field, root>>
gcVars   == <<gccolor, ptr, gcpc>>
vars     == <<heapVars, gcVars, nprop, stk, todo, gchalt>>

Mutator    == gccolor
Marker     == (gccolor + 2) % 3
Sweeper    == (gccolor + 1) % 3
Propagator == 3

-----------------------------------------------------------------------------
(* Setmark() of each object of S, when the mutator's color is m.           *)
Marked(S, c, m) ==
  [o \in Objs |-> IF o \in S /\ c[o] # m THEN Propagator ELSE c[o]]
Marks(S, c, m) == \E o \in S : c[o] # m

Setmark(S) ==
  /\ color' = Marked(S, color, Mutator)
  /\ nprop' = (nprop \/ Marks(S, color, Mutator))

Children(o) == {field[o][f] : f \in Fields} \ {Nil}

(* destroy(v) by p, when the counts are r and the fields left to destroy   *)
(* are t.  With its last reference v goes, and the pointers in it are      *)
(* destroyed too, unless the recursion is too deep.                        *)
Destroy(p, v, r, t) ==
  IF v = Nil \/ r[v] > 1 \/ gchalt > MaxHalt
    THEN /\ ref' = IF v = Nil THEN r ELSE [r EXCEPT ![v] = @ - 1]
         /\ todo' = t
         /\ UNCHANGED <<stk, gchalt>>
    ELSE /\ ref' = [r EXCEPT ![v] = 0]
         /\ stk' = [stk EXCEPT ![p] = Append(@, v)]
         /\ todo' = [t EXCEPT ![v] = {f \in Fields : field[v][f] # Nil}]
         /\ gchalt' = gchalt + 1

-----------------------------------------------------------------------------
(***************************************************************************)
(* The Progs.                                                              *)
(***************************************************************************)
\* A Prog runs: the collector has not the machine, and it is not freeing.
Runs(p) == gcpc # "visit" /\ stk[p] = <<>>

(* Slots: <<r>> is a root, <<o, f>> a field of an object that a root has.  *)
InHand == {root[r] : r \in Roots} \ {Nil}
Slots  == {<<r>> : r \in Frames} \cup (InHand \X Fields)
Read(s) == IF Len(s) = 1 THEN root[s[1]] ELSE field[s[1]][s[2]]
Write(s, v) ==
  IF Len(s) = 1
    THEN root' = [root EXCEPT ![s[1]] = v] /\ UNCHANGED field
    ELSE field' = [field EXCEPT ![s[1]][s[2]] = v] /\ UNCHANGED root

Count(v) == [ref EXCEPT ![v] = @ + 1]

\* Mutant of New: a new object has the color that is being marked.
NewUncolored(p, d, o) ==
  /\ Runs(p) /\ o \notin alloc
  /\ alloc' = alloc \cup {o}
  /\ color' = [color EXCEPT ![o] = Marker]
  /\ Write(d, o)
  /\ Destroy(p, Read(d), [ref EXCEPT ![o] = 1], todo)
  /\ UNCHANGED <<nprop, gcVars>>

(* OP(new): an object has the mutator's color.                             *)
New(p, d, o) ==
  /\ Runs(p) /\ o \notin alloc
  /\ alloc' = alloc \cup {o}
  /\ color' = [color EXCEPT ![o] = Mutator]
  /\ Write(d, o)
  /\ Destroy(p, Read(d), [ref EXCEPT ![o] = 1], todo)
  /\ UNCHANGED <<nprop, gcVars>>

\* Mutants of MovP: the pointer that is copied is not marked, or not counted.
MovPUnmarked(p, s, d) ==
  /\ Runs(p) /\ Read(s) # Nil
  /\ Write(d, Read(s))
  /\ Destroy(p, Read(d), Count(Read(s)), todo)
  /\ UNCHANGED <<alloc, color, nprop, gcVars>>

MovPUncounted(p, s, d) ==
  /\ Runs(p) /\ Read(s) # Nil
  /\ Write(d, Read(s))
  /\ Setmark({Read(s)})
  /\ Destroy(p, Read(d), ref, todo)
  /\ UNCHANGED <<alloc, gcVars>>

(* OP(movp), and whatever else copies a pointer: count it, mark it, and    *)
(* destroy what was there.                                                 *)
MovP(p, s, d) ==
  /\ Runs(p) /\ Read(s) # Nil
  /\ Write(d, Read(s))
  /\ Setmark({Read(s)})
  /\ Destroy(p, Read(d), Count(Read(s)), todo)
  /\ UNCHANGED <<alloc, gcVars>>

(* A slot gets the value nil, or its frame goes: OP(ret), destroystack().  *)
Clear(p, d) ==
  /\ Runs(p) /\ Read(d) # Nil
  /\ Write(d, Nil)
  /\ Destroy(p, Read(d), ref, todo)
  /\ UNCHANGED <<alloc, color, nprop, gcVars>>

(* OP(mcall): the link to a module is counted, but not marked.  A link and *)
(* the data of its module, which rootset() marks with it, are one object.  *)
MCall(p, s, c) ==
  /\ Runs(p) /\ root[c] = Nil /\ Read(s) # Nil
  /\ root' = [root EXCEPT ![c] = Read(s)]
  /\ ref' = Count(Read(s))
  /\ UNCHANGED <<alloc, color, field, nprop, gcVars, stk, todo, gchalt>>

(* poolfree().  What is in a free cell means nothing until heap() fills    *)
(* it, and is not told apart.                                              *)
Blank == [f \in Fields |-> Nil]
Poolfree(o) ==
  /\ alloc' = alloc \ {o}
  /\ ref' = [ref EXCEPT ![o] = 0]
  /\ field' = [field EXCEPT ![o] = Blank]
Faded(o) == [color EXCEPT ![o] = 0]

(* In destroy(): a pointer in the object is destroyed ...                  *)
DestroyField(p) ==
  /\ gcpc # "visit" /\ stk[p] # <<>>
  /\ LET o == Last(stk[p]) IN
     \E f \in todo[o] : Destroy(p, field[o][f], ref, [todo EXCEPT ![o] = @ \ {f}])
  /\ UNCHANGED <<alloc, color, field, root, nprop, gcVars>>

(* ... and when all are, poolfree().                                       *)
DestroyEnd(p) ==
  /\ gcpc # "visit" /\ stk[p] # <<>>
  /\ todo[Last(stk[p])] = {}
  /\ Poolfree(Last(stk[p]))
  /\ color' = Faded(Last(stk[p]))
  /\ stk' = [stk EXCEPT ![p] = Front(@)]
  /\ gchalt' = gchalt - 1
  /\ UNCHANGED <<root, nprop, todo, gcVars>>

-----------------------------------------------------------------------------
(***************************************************************************)
(* rungc()                                                                 *)
(***************************************************************************)
(* rootset(), after gccolor++, when the colors are c.                      *)
Rootset(c) ==
  LET m == (gccolor + 1) % 3 IN
  /\ gccolor' = m
  /\ color' = Marked(InHand, c, m)
  /\ nprop' = Marks(InHand, c, m)

\* Mutants of Advance: the collector goes beyond the end of the heap, or does
\* not clear nprop.
AdvanceBeyond(c, n) ==
  IF ptr <= N
    THEN /\ ptr' = ptr + 1
         /\ gcpc' \in {"visit", "out"}
         /\ color' = c /\ nprop' = n
         /\ UNCHANGED gccolor
    ELSE /\ ptr' = 1
         /\ gcpc' = "out"
         /\ IF n THEN color' = c /\ nprop' = FALSE /\ UNCHANGED gccolor
                 ELSE Rootset(c)

AdvanceStill(c, n) ==
  IF ptr < N
    THEN /\ ptr' = ptr + 1
         /\ gcpc' \in {"visit", "out"}
         /\ color' = c /\ nprop' = n
         /\ UNCHANGED gccolor
    ELSE /\ ptr' = 1
         /\ gcpc' = "out"
         /\ IF n THEN color' = c /\ nprop' = n /\ UNCHANGED gccolor
                 ELSE Rootset(c)

\* Mutant of Advance: an epoch ends with every pass.
AdvanceEpoch(c, n) ==
  IF ptr < N
    THEN /\ ptr' = ptr + 1
         /\ gcpc' \in {"visit", "out"}
         /\ color' = c /\ nprop' = n
         /\ UNCHANGED gccolor
    ELSE /\ ptr' = 1
         /\ gcpc' = "out"
         /\ Rootset(c)

(* On to the next cell, in this call or the next; at the end of the heap   *)
(* an epoch ends if nothing was marked in the pass.                        *)
Advance(c, n) ==
  IF ptr < N
    THEN /\ ptr' = ptr + 1
         /\ gcpc' \in {"visit", "out"}
         /\ color' = c /\ nprop' = n
         /\ UNCHANGED gccolor
    ELSE /\ ptr' = 1
         /\ gcpc' = "out"
         /\ IF n THEN color' = c /\ nprop' = FALSE /\ UNCHANGED gccolor
                 ELSE Rootset(c)

Idle == gcpc = "out" /\ gchalt = 0

GcStart ==
  /\ Idle
  /\ gcpc' = "visit"
  /\ UNCHANGED <<heapVars, nprop, gccolor, ptr, stk, todo, gchalt>>

(* The cell at ptr was freed and is now in the middle of another one.      *)
ChainBroken ==
  /\ Idle
  /\ ptr \notin alloc /\ ptr # 1
  /\ ptr' = 1
  /\ UNCHANGED <<heapVars, nprop, gccolor, gcpc, stk, todo, gchalt>>

(* A marked object: mark what it points to.                                *)
GcMark ==
  LET c == [color EXCEPT ![ptr] = Mutator] IN
  /\ gcpc = "visit"
  /\ ptr \in alloc /\ color[ptr] = Propagator
  /\ Advance(Marked(Children(ptr), c, Mutator), nprop \/ Marks(Children(ptr), c, Mutator))
  /\ UNCHANGED <<alloc, ref, field, root, stk, todo, gchalt>>

(* A free cell, or an object that has been marked or may be.               *)
GcSkip ==
  /\ gcpc = "visit"
  /\ ptr \in alloc => color[ptr] \notin {Propagator, Sweeper}
  /\ Advance(color, nprop)
  /\ UNCHANGED <<alloc, ref, field, root, stk, todo, gchalt>>

(* Garbage: t->free(h, 1), which destroys nothing, but may give the        *)
(* machine away ...                                                        *)
GcSweep ==
  /\ gcpc = "visit"
  /\ ptr \in alloc /\ color[ptr] = Sweeper
  /\ gcpc' = "sweep"
  /\ gchalt' = gchalt + 1
  /\ UNCHANGED <<heapVars, nprop, gccolor, ptr, stk, todo>>

(* ... and poolfree().                                                     *)
GcFree ==
  /\ gcpc = "sweep"
  /\ gchalt' = gchalt - 1
  /\ Poolfree(ptr)
  /\ Advance(Faded(ptr), nprop)
  /\ UNCHANGED <<root, stk, todo>>

-----------------------------------------------------------------------------
Init ==
  /\ alloc = {}
  /\ color = [o \in Objs |-> 0]
  /\ ref = [o \in Objs |-> 0]
  /\ field = [o \in Objs |-> Blank]
  /\ root = [r \in Roots |-> Nil]
  /\ gccolor = 0
  /\ nprop = FALSE
  /\ ptr = 1
  /\ gcpc = "out"
  /\ stk = [p \in Progs |-> <<>>]
  /\ todo = [o \in Objs |-> {}]
  /\ gchalt = 0

FreeStep(p) == DestroyField(p) \/ DestroyEnd(p)
GcStep == GcMark \/ GcSkip \/ GcSweep \/ GcFree

Next ==
  \/ \E p \in Progs :
       \/ \E d \in Slots, o \in Objs : New(p, d, o)
       \/ \E s, d \in Slots : MovP(p, s, d)
       \/ \E d \in Slots \cup {<<c>> : c \in Calls} : Clear(p, d)
       \/ \E s \in Slots, c \in Calls : MCall(p, s, c)
       \/ FreeStep(p)
  \/ GcStart \/ ChainBroken \/ GcStep

Spec == Init /\ [][Next]_vars

(* The vmachines run the collector when they are idle and every so often   *)
(* when they are not, and what holds it up goes on.                        *)
Fairness ==
  SF_vars(GcStart) /\ WF_vars(GcStep \/ \E p \in Progs : FreeStep(p))

FairSpec == Spec /\ Fairness

-----------------------------------------------------------------------------
Freeing == UNION {ToSet(stk[p]) : p \in Progs}

TypeOK ==
  /\ alloc \subseteq Objs
  /\ color \in [Objs -> 0 .. 3]
  /\ ref \in [Objs -> Nat]
  /\ field \in [Objs -> [Fields -> Objs \cup {Nil}]]
  /\ root \in [Roots -> Objs \cup {Nil}]
  /\ gccolor \in 0 .. 2
  /\ nprop \in BOOLEAN
  /\ ptr \in Objs
  /\ gcpc \in {"out", "visit", "sweep"}
  /\ stk \in [Progs -> Seq(Objs)]
  /\ todo \in [Objs -> SUBSET Fields]
  /\ gchalt = Cardinality(Freeing) + (IF gcpc = "sweep" THEN 1 ELSE 0)

(* The objects that a Prog can get at: the least set that has those in     *)
(* roots, and the children of its members.                                 *)
Closed(S) == InHand \subseteq S /\ \A o \in S : Children(o) \subseteq S

Reachable == {o \in Objs : \A S \in SUBSET Objs : Closed(S) => o \in S}

\* What a Prog can get at is never freed, nor about to be.
LiveKept == Reachable \subseteq alloc \ Freeing

(* The references to o that may still be used: those in roots and in what    *)
(* can be reached, and those that are still to be destroyed.                *)
Holders(o) ==
  {<<r>> : r \in {x \in Roots : root[x] = o}}
    \cup {s \in Reachable \X Fields : field[s[1]][s[2]] = o}
    \cup {s \in Freeing \X Fields : s[2] \in todo[s[1]] /\ field[s[1]][s[2]] = o}

\* The count of an object is never less than the references there are to it,
\* so that destroy() frees only what nothing refers to.
RefCounted == \A o \in alloc \ Freeing : ref[o] >= Cardinality(Holders(o))

\* Neither a frame nor an object that the collector has done with refers to an
\* object that it has not come to; and while nprop is clear, what is left to
\* propagate is ahead of the collector: at the end of the heap there is none.
Tricolour ==
  LET Come == {o \in Objs : color[o] \in {Mutator, Propagator}} IN
  /\ InHand \subseteq Come
  /\ \A o \in alloc \ Freeing : color[o] = Mutator => Children(o) \subseteq Come
  /\ ~nprop => \A o \in alloc : color[o] = Propagator => o >= ptr

\* When an epoch ends everything has been propagated, and what was garbage at
\* its beginning has been freed: its color is now the mutator's.
EpochComplete ==
  [][gccolor' # gccolor =>
       \A o \in alloc' :
         color[o] # Sweeper /\ (color[o] = Propagator => o = ptr)]_vars

\* Garbage is freed in the end, if the collector is not made to start over
\* for ever and the Progs are not for ever in one destroy() or another.
Collected ==
  <>[][~ChainBroken]_vars /\ []<>(gchalt = 0) =>
    \A o \in Objs : o \in alloc /\ o \notin Reachable ~> o \notin alloc

=============================================================================
