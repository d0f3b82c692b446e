---------------------------- MODULE QueueProofs ----------------------------
(***************************************************************************)
(* What the operations on a queue of processes, or of requests, do to the  *)
(* members of the queue: ToSet of SequencesExt; and that nobody is on it   *)
(* twice: IsInjective of Functions.                                        *)
(***************************************************************************)
EXTENDS SequencesExt, SequenceTheorems, TLAPS

\* The empty queue has no members.
LEMMA EmptyQueue == ToSet(<<>>) = {} /\ IsInjective(<<>>)
  BY DEF ToSet, IsInjective

\* A member of a queue is an element of what the queue is made of.
LEMMA QueueSubset ==
  ASSUME NEW S, NEW q \in Seq(S)
  PROVE  ToSet(q) \subseteq S /\ (q # <<>> <=> ToSet(q) # {})
  <1>1. Len(q) \in Nat /\ DOMAIN q = 1 .. Len(q) /\ \A i \in 1 .. Len(q) : q[i] \in S
    OBVIOUS
  <1>2. q # <<>> => 1 \in 1 .. Len(q)
    BY <1>1
  <1>3. q = <<>> => ToSet(q) = {}
    BY EmptyQueue
  <1> QED BY <1>1, <1>2, <1>3 DEF ToSet

\* A process goes to the end of a queue.
LEMMA AppendQueue ==
  ASSUME NEW S, NEW q \in Seq(S), NEW e \in S
  PROVE  /\ Append(q, e) \in Seq(S)
         /\ Append(q, e) # <<>>
         /\ ToSet(Append(q, e)) = ToSet(q) \cup {e}
         /\ IsInjective(q) /\ e \notin ToSet(q) => IsInjective(Append(q, e))
         /\ q # <<>> => Head(Append(q, e)) = Head(q)
         /\ q = <<>> => Head(Append(q, e)) = e
  <1> DEFINE r == Append(q, e)
  <1>1. /\ r \in Seq(S) /\ Len(q) \in Nat /\ Len(r) = Len(q) + 1
        /\ DOMAIN q = 1 .. Len(q) /\ DOMAIN r = 1 .. Len(q) + 1
        /\ r[Len(q) + 1] = e
        /\ \A i \in 1 .. Len(q) : r[i] = q[i]
    OBVIOUS
  <1>2. r # <<>> /\ (q # <<>> => Head(r) = Head(q)) /\ (q = <<>> => Head(r) = e)
    OBVIOUS
  <1> HIDE DEF r
  <1>3. \A i \in DOMAIN r : i = Len(q) + 1 \/ (i \in DOMAIN q /\ r[i] = q[i])
    BY <1>1
  <1>4. ToSet(r) = ToSet(q) \cup {e}
    <2>1. \A i \in DOMAIN r : r[i] \in ToSet(q) \cup {e}
      BY <1>1, <1>3 DEF ToSet
    <2>2. Len(q) + 1 \in DOMAIN r /\ \A i \in DOMAIN q : i \in DOMAIN r
      BY <1>1
    <2>3. e \in ToSet(r) /\ \A i \in DOMAIN q : q[i] \in ToSet(r)
      BY <1>1, <2>2 DEF ToSet
    <2> QED BY <2>1, <2>3 DEF ToSet
  <1>5. ASSUME IsInjective(q), e \notin ToSet(q) PROVE IsInjective(r)
    <2>1. \A i \in DOMAIN q : q[i] # e
      BY <1>5 DEF ToSet
    <2> SUFFICES ASSUME NEW i \in DOMAIN r, NEW j \in DOMAIN r, r[i] = r[j]
                 PROVE  i = j
      BY DEF IsInjective
    <2>2. CASE i \in DOMAIN q /\ j \in DOMAIN q
      BY <1>1, <1>5, <2>2 DEF IsInjective
    <2>3. CASE i \notin DOMAIN q \/ j \notin DOMAIN q
      BY <1>1, <1>3, <2>1, <2>3
    <2> QED BY <2>2, <2>3
  <1> QED BY <1>1, <1>2, <1>4, <1>5 DEF r

\* A process is taken off the head of a queue.
LEMMA TailQueue ==
  ASSUME NEW S, NEW q \in Seq(S), q # <<>>
  PROVE  /\ Tail(q) \in Seq(S)
         /\ Head(q) \in S
         /\ Head(q) \in ToSet(q)
         /\ ToSet(q) = ToSet(Tail(q)) \cup {Head(q)}
         /\ IsInjective(q) => IsInjective(Tail(q)) /\ Head(q) \notin ToSet(Tail(q))
  <1> DEFINE t == Tail(q)
  <1>1. /\ t \in Seq(S) /\ Head(q) \in S
        /\ Len(q) \in Nat /\ Len(q) > 0 /\ Len(t) = Len(q) - 1
        /\ DOMAIN q = 1 .. Len(q) /\ DOMAIN t = 1 .. Len(q) - 1
        /\ \A i \in 1 .. Len(t) : t[i] = q[i + 1]
        /\ Head(q) = q[1]
    OBVIOUS
  <1> HIDE DEF t
  <1>2. \A i \in DOMAIN q : i = 1 \/ (i - 1 \in DOMAIN t /\ q[i] = t[i - 1])
    BY <1>1
  <1>3. \A i \in DOMAIN t : i + 1 \in DOMAIN q /\ t[i] = q[i + 1]
    BY <1>1
  <1>4. ToSet(q) = ToSet(t) \cup {Head(q)}
    <2>1. \A i \in DOMAIN q : q[i] \in ToSet(t) \cup {Head(q)}
      BY <1>1, <1>2 DEF ToSet
    <2>2. 1 \in DOMAIN q
      BY <1>1
    <2> QED BY <1>1, <1>3, <2>1, <2>2 DEF ToSet
  <1>5. ASSUME IsInjective(q) PROVE IsInjective(t) /\ Head(q) \notin ToSet(t)
    <2>1. ASSUME NEW i \in DOMAIN t PROVE t[i] # Head(q)
      <3>1. i + 1 \in DOMAIN q /\ 1 \in DOMAIN q /\ i + 1 # 1 /\ t[i] = q[i + 1]
        BY <1>1, <1>3
      <3> QED BY <1>1, <1>5, <3>1 DEF IsInjective
    <2>2. ASSUME NEW i \in DOMAIN t, NEW j \in DOMAIN t, t[i] = t[j] PROVE i = j
      <3>1. i + 1 = j + 1
        BY <1>3, <1>5, <2>2 DEF IsInjective
      <3> QED BY <1>1, <3>1
    <2> QED BY <2>1, <2>2 DEF ToSet, IsInjective
  <1> QED BY <1>1, <1>4, <1>5 DEF t, ToSet

\* A process is taken off the end of a queue, or of a stack.
LEMMA FrontQueue ==
  ASSUME NEW S, NEW q \in Seq(S), q # <<>>
  PROVE  /\ Front(q) \in Seq(S)
         /\ Last(q) \in S
         /\ Last(q) \in ToSet(q)
         /\ ToSet(q) = ToSet(Front(q)) \cup {Last(q)}
         /\ IsInjective(q) => IsInjective(Front(q)) /\ Last(q) \notin ToSet(Front(q))
  <1> DEFINE t == Front(q)
             n == Len(q)
  <1>1. n \in Nat /\ n > 0 /\ DOMAIN q = 1 .. n /\ Last(q) = q[n] /\ \A i \in 1 .. n : q[i] \in S
    BY DEF Last
  <1>2. t \in Seq(S) /\ DOMAIN t = 1 .. n - 1 /\ \A i \in 1 .. n - 1 : t[i] = q[i]
    BY <1>1 DEF Front
  <1> HIDE DEF t, n
  <1>3. ToSet(q) = ToSet(t) \cup {q[n]}
    <2>1. \A i \in DOMAIN q : i = n \/ (i \in DOMAIN t /\ q[i] = t[i])
      BY <1>1, <1>2
    <2>2. n \in DOMAIN q /\ \A i \in DOMAIN t : i \in DOMAIN q /\ t[i] = q[i]
      BY <1>1, <1>2
    <2> QED BY <2>1, <2>2 DEF ToSet
  <1>4. ASSUME IsInjective(q) PROVE IsInjective(t) /\ q[n] \notin ToSet(t)
    <2>1. \A i \in DOMAIN t : i \in DOMAIN q /\ i # n /\ t[i] = q[i]
      BY <1>1, <1>2
    <2>2. n \in DOMAIN q
      BY <1>1
    <2> QED BY <1>4, <2>1, <2>2 DEF IsInjective, ToSet
  <1>5. Last(q) \in S /\ Last(q) \in ToSet(q)
    BY <1>1, <1>3
  <1> QED BY <1>1, <1>2, <1>3, <1>4, <1>5 DEF t

\* A process is pushed on a queue.
LEMMA PushQueue ==
  ASSUME NEW S, NEW q \in Seq(S), NEW e \in S
  PROVE  /\ <<e>> \o q \in Seq(S)
         /\ ToSet(<<e>> \o q) = ToSet(q) \cup {e}
         /\ IsInjective(q) /\ e \notin ToSet(q) => IsInjective(<<e>> \o q)
  <1> DEFINE r == <<e>> \o q
  <1>1. /\ r \in Seq(S) /\ Len(q) \in Nat /\ Len(r) = Len(q) + 1
        /\ DOMAIN q = 1 .. Len(q) /\ DOMAIN r = 1 .. Len(q) + 1
        /\ r[1] = e
        /\ \A i \in 1 .. Len(q) : r[i + 1] = q[i]
    OBVIOUS
  <1> HIDE DEF r
  <1>2. \A i \in DOMAIN r : i = 1 \/ (i - 1 \in DOMAIN q /\ r[i] = q[i - 1])
    BY <1>1
  <1>3. ToSet(r) = ToSet(q) \cup {e}
    <2>1. \A i \in DOMAIN r : r[i] \in ToSet(q) \cup {e}
      BY <1>1, <1>2 DEF ToSet
    <2>2. 1 \in DOMAIN r /\ \A i \in DOMAIN q : i + 1 \in DOMAIN r
      BY <1>1
    <2>3. e \in ToSet(r) /\ \A i \in DOMAIN q : q[i] \in ToSet(r)
      BY <1>1, <2>2 DEF ToSet
    <2> QED BY <2>1, <2>3 DEF ToSet
  <1>4. ASSUME IsInjective(q), e \notin ToSet(q) PROVE IsInjective(r)
    <2>1. \A i \in DOMAIN q : q[i] # e
      BY <1>4 DEF ToSet
    <2> SUFFICES ASSUME NEW i \in DOMAIN r, NEW j \in DOMAIN r, r[i] = r[j]
                 PROVE  i = j
      BY DEF IsInjective
    <2>2. CASE i = 1 \/ j = 1
      BY <1>1, <1>2, <2>1, <2>2
    <2>3. CASE i # 1 /\ j # 1
      <3>1. q[i - 1] = q[j - 1] /\ i - 1 \in DOMAIN q /\ j - 1 \in DOMAIN q
        BY <1>2, <2>3
      <3>2. i - 1 = j - 1
        BY <1>4, <3>1 DEF IsInjective
      <3> QED BY <1>1, <3>2
    <2> QED BY <2>2, <2>3
  <1> QED BY <1>1, <1>3, <1>4 DEF r

\* A process is taken off a queue, wherever it stands there.
LEMMA RemoveQueue ==
  ASSUME NEW S, NEW q \in Seq(S), NEW e, IsInjective(q)
  PROVE  /\ RemoveFirst(q, e) \in Seq(S)
         /\ ToSet(RemoveFirst(q, e)) = ToSet(q) \ {e}
         /\ IsInjective(RemoveFirst(q, e))
         /\ q # <<>> /\ Head(q) # e =>
              RemoveFirst(q, e) # <<>> /\ Head(RemoveFirst(q, e)) = Head(q)
  <1>1. CASE e \notin ToSet(q)
    <2>1. ~ \E i \in 1 .. Len(q) : q[i] = e
      BY <1>1 DEF ToSet
    <2>2. RemoveFirst(q, e) = q
      BY <2>1 DEF RemoveFirst
    <2> QED BY <1>1, <2>2
  <1>2. CASE e \in ToSet(q)
    <2>0. /\ Len(q) \in Nat /\ DOMAIN q = 1 .. Len(q)
          /\ \A i \in 1 .. Len(q) : q[i] \in S
      OBVIOUS
    <2>1. PICK k \in 1 .. Len(q) : q[k] = e
      BY <1>2, <2>0 DEF ToSet
    <2>2. {i \in 1 .. Len(q) : q[i] = e} = {k}
      BY <2>0, <2>1 DEF IsInjective
    <2>3. Min({k}) = k
      BY <2>1 DEF Min
    <2>4. RemoveFirst(q, e) = SubSeq(q, 1, k - 1) \o SubSeq(q, k + 1, Len(q))
      BY <2>1, <2>2, <2>3 DEF RemoveFirst, RemoveAt, SelectInSeq
    <2> DEFINE r == RemoveFirst(q, e)
    <2>5. /\ r \in Seq(S) /\ Len(r) = Len(q) - 1 /\ DOMAIN r = 1 .. Len(q) - 1
          /\ \A i \in 1 .. Len(q) - 1 : r[i] = IF i < k THEN q[i] ELSE q[i + 1]
      <3> DEFINE a == SubSeq(q, 1, k - 1)
                 b == SubSeq(q, k + 1, Len(q))
      <3>1. /\ a \in Seq(S) /\ Len(a) = k - 1
            /\ \A i \in 1 .. k - 1 : a[i] = q[i]
        BY <2>0
      <3>2. /\ b \in Seq(S) /\ Len(b) = Len(q) - k
            /\ \A i \in 1 .. Len(q) - k : b[i] = q[k + i]
        <4>1. \A i \in k + 1 .. Len(q) : q[i] \in S
          BY <2>0
        <4>2. /\ b \in Seq(S)
              /\ Len(b) = IF k + 1 <= Len(q) THEN Len(q) - (k + 1) + 1 ELSE 0
              /\ \A i \in 1 .. Len(q) - (k + 1) + 1 : b[i] = q[(k + 1) + i - 1]
          BY <2>0, <4>1, SubSeqProperties
        <4> HIDE DEF b
        <4>3. Len(q) - (k + 1) + 1 = Len(q) - k /\ Len(b) = Len(q) - k
          <5>1. Len(q) - (k + 1) + 1 = Len(q) - k
            BY <2>0, <2>1
          <5>2. k \in Nat /\ k <= Len(q)
            BY <2>0
          <5>3. CASE k + 1 <= Len(q)
            BY <4>2, <5>1, <5>3
          <5>4. CASE k = Len(q)
            BY <2>0, <4>2, <5>4
          <5>5. \A n \in Nat : k <= n => k + 1 <= n \/ k = n
            BY <5>2
          <5> QED BY <2>0, <5>2, <5>3, <5>4, <5>5
        <4>4. ASSUME NEW i \in 1 .. Len(q) - k PROVE b[i] = q[k + i]
          <5>1. (k + 1) + i - 1 = k + i
            BY <2>0
          <5> QED BY <4>2, <4>3, <5>1
        <4> QED BY <4>2, <4>3, <4>4
      <3>3. r = a \o b
        BY <2>4
      <3> HIDE DEF a, b, r
      <3>4. /\ r \in Seq(S) /\ Len(r) = Len(q) - 1
            /\ \A i \in 1 .. Len(q) - 1 : r[i] = IF i < k THEN a[i] ELSE b[i - k + 1]
        <4>1. /\ r \in Seq(S) /\ Len(r) = Len(a) + Len(b)
              /\ \A i \in 1 .. Len(a) + Len(b) :
                   r[i] = IF i <= Len(a) THEN a[i] ELSE b[i - Len(a)]
          BY <3>1, <3>2, <3>3, ConcatProperties
        <4>2. Len(a) + Len(b) = Len(q) - 1
          BY <2>0, <3>1, <3>2
        <4>3. ASSUME NEW i \in 1 .. Len(q) - 1
              PROVE  r[i] = IF i < k THEN a[i] ELSE b[i - k + 1]
          <5>1. (i <= Len(a) <=> i < k) /\ i - Len(a) = i - k + 1
            BY <2>0, <3>1
          <5> QED BY <4>1, <4>2, <5>1
        <4> QED BY <4>1, <4>2, <4>3
      <3>5. ASSUME NEW i \in 1 .. Len(q) - 1
            PROVE  r[i] = IF i < k THEN q[i] ELSE q[i + 1]
        <4>1. CASE i < k
          BY <2>0, <3>1, <3>4, <4>1
        <4>2. CASE i >= k
          <5>1. i - k + 1 \in 1 .. Len(q) - k /\ k + (i - k + 1) = i + 1
            BY <2>0, <4>2
          <5> QED BY <2>0, <3>2, <3>4, <4>2, <5>1
        <4> QED BY <2>0, <4>1, <4>2
      <3> QED BY <2>0, <3>4, <3>5
    <2> HIDE DEF r
    <2>6. ToSet(r) = ToSet(q) \ {e}
      <3>1. ASSUME NEW i \in DOMAIN r PROVE r[i] \in ToSet(q) \ {e}
        <4>1. PICK j \in DOMAIN q : j # k /\ r[i] = q[j]
          BY <2>0, <2>1, <2>5
        <4>2. q[j] # e
          BY <2>0, <2>1, <4>1 DEF IsInjective
        <4> QED BY <4>1, <4>2 DEF ToSet
      <3>2. ASSUME NEW i \in DOMAIN q, q[i] # e PROVE q[i] \in ToSet(r)
        <4>1. i # k
          BY <2>1, <3>2
        <4>2. CASE i < k
          BY <2>0, <2>1, <2>5, <4>2 DEF ToSet
        <4>3. CASE i > k
          <5>1. i - 1 \in DOMAIN r /\ r[i - 1] = q[i]
            BY <2>0, <2>1, <2>5, <4>3
          <5> QED BY <5>1 DEF ToSet
        <4> QED BY <2>0, <2>1, <4>1, <4>2, <4>3
      <3> QED BY <3>1, <3>2 DEF ToSet
    <2>7. IsInjective(r)
      <3> SUFFICES ASSUME NEW i \in DOMAIN r, NEW j \in DOMAIN r, r[i] = r[j]
                   PROVE  i = j
        BY DEF IsInjective
      <3> DEFINE at(n) == IF n < k THEN n ELSE n + 1
      <3>1. /\ at(i) \in DOMAIN q /\ at(j) \in DOMAIN q
            /\ q[at(i)] = r[i] /\ q[at(j)] = r[j]
        BY <2>0, <2>1, <2>5
      <3>2. at(i) = at(j)
        BY <3>1 DEF IsInjective
      <3> QED BY <2>0, <2>1, <2>5, <3>2
    <2>8. ASSUME q # <<>>, Head(q) # e PROVE r # <<>> /\ Head(r) = Head(q)
      <3>1. Head(q) = q[1] /\ Len(q) > 0
        BY <2>8
      <3>2. k > 1
        BY <2>0, <2>1, <2>8, <3>1
      <3>3. Len(r) > 0 /\ r[1] = q[1]
        BY <2>0, <2>1, <2>5, <3>2
      <3> QED BY <2>5, <3>1, <3>3
    <2> QED BY <2>5, <2>6, <2>7, <2>8 DEF r
  <1> QED BY <1>1, <1>2

=============================================================================
