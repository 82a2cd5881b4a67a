------------------------- MODULE FolderTitleProofs -------------------------
(***************************************************************************)
(* Proofs about FolderTitle, for titles of any length: what FolderName     *)
(* makes is always found, DisplayName takes out the markers and nothing    *)
(* else, and FolderName marks a name once.                                 *)
(***************************************************************************)
EXTENDS FolderTitle, SequenceTheorems, WellFoundedInduction, TLAPS

(***************************************************************************)
(* Induction by least counterexample, and flattening.                      *)
(***************************************************************************)

\* A non-empty set of natural numbers has a least one.
LEMMA LeastNatural ==
    ASSUME NEW T, T \subseteq Nat, T # {}
    PROVE  \E m \in T : \A k \in T : m <= k
<1>1. IsWellFoundedOn(OpToRel(<, Nat), Nat)
  BY NatLessThanWellFounded, Zenon
<1>2. \E m \in T : \A k \in T : <<k, m>> \notin OpToRel(<, Nat)
  BY <1>1, WFMin, Zenon
<1>3. \E m \in T : \A k \in T : ~(k < m)
  BY <1>2, Zenon DEF OpToRel
<1> QED
  BY <1>3

\* A set of natural numbers up to n that is not empty has a greatest one.
LEMMA GreatestNatural ==
    ASSUME NEW n \in Nat, NEW T, T \subseteq 1..n, T # {}
    PROVE  \E m \in T : \A k \in T : k <= m
<1> DEFINE Left == {n - k : k \in T}
<1>1. Left \subseteq Nat /\ Left # {}
  <2>1. \A k \in T : n - k \in Nat
    OBVIOUS
  <2>2. PICK k \in T : TRUE
    OBVIOUS
  <2>3. n - k \in Left
    OBVIOUS
  <2>4. Left \subseteq Nat
    BY <2>1
  <2> QED
    BY <2>3, <2>4
<1>2. PICK l \in Left : \A j \in Left : l <= j
  <2> HIDE DEF Left
  <2> QED
    BY <1>1, LeastNatural
<1>3. PICK m \in T : l = n - m
  OBVIOUS
<1>4. ASSUME NEW k \in T PROVE k <= m
  <2>1. n - m <= n - k
    BY <1>2, <1>3
  <2> QED
    BY <2>1
<1> QED
  BY <1>4

\* A set that has 0 and every number whose predecessor it has has all of them.
LEMMA NaturalSet ==
    ASSUME NEW T, 0 \in T, \A n \in Nat \ {0} : n - 1 \in T => n \in T
    PROVE  \A n \in Nat : n \in T
<1> DEFINE Missing == {n \in Nat : n \notin T}
<1>1. SUFFICES ASSUME Missing # {} PROVE FALSE
  OBVIOUS
<1>2. PICK m \in Missing : \A k \in Missing : m <= k
  BY <1>1, LeastNatural
<1>3. m \in Nat \ {0}
  OBVIOUS
<1>4. m - 1 \in Nat /\ m - 1 \notin Missing
  <2> HIDE DEF Missing
  <2> QED
    BY <1>2, <1>3
<1> QED
  BY <1>3, <1>4

\* The recursion of FlattenSeq has a solution.
LEMMA FlattenDefined ==
    ASSUME NEW T, NEW s \in Seq(Seq(T))
    PROVE  \E f \in [0..Len(s) -> Seq(T)] :
              /\ f[0] = <<>>
              /\ \A i \in 1..Len(s) : f[i] = f[i - 1] \o s[i]
              /\ FlattenSeq(s) = f[Len(s)]
<1>1. Len(s) \in Nat /\ \A i \in 1..Len(s) : s[i] \in Seq(T)
  OBVIOUS
<1> DEFINE Solves(g, n) == g = [i \in 1..n |-> IF i = 1 THEN s[i] ELSE g[i - 1] \o s[i]]
           Solved == {n \in Nat : n <= Len(s) => \E g : Solves(g, n)}
<1>2. \A n \in Nat : n \in Solved
  <2>1. 0 \in Solved
    <3>1. Solves([i \in 1..0 |-> 0], 0)
      OBVIOUS
    <3> QED
      BY <3>1
  <2>2. ASSUME NEW n \in Nat \ {0}, n - 1 \in Solved, n <= Len(s)
        PROVE  \E h : Solves(h, n)
    <3>1. \E g : Solves(g, n - 1)
      <4> HIDE DEF Solves
      <4> QED
        BY <1>1, <2>2
    <3>2. PICK g : Solves(g, n - 1)
      BY <3>1
    <3> DEFINE h == [i \in 1..n |-> IF i = 1 THEN s[i]
                                    ELSE IF i < n THEN g[i] ELSE g[n - 1] \o s[i]]
    <3>3. ASSUME NEW i \in 1..n
          PROVE  h[i] = IF i = 1 THEN s[i] ELSE h[i - 1] \o s[i]
      <4>1. CASE i = 1
        BY <4>1
      <4>2. CASE i # 1
        <5>1. i - 1 \in 1..n - 1
          BY <4>2
        <5>2. h[i - 1] = g[i - 1]
          <6>1. i - 1 = 1 => g[i - 1] = s[i - 1]
            BY <3>2, <5>1
          <6> QED
            BY <4>2, <5>1, <6>1
        <5>3. CASE i < n
          <6>1. i \in 1..n - 1
            BY <5>3
          <6>2. g[i] = g[i - 1] \o s[i]
            BY <3>2, <4>2, <6>1
          <6>3. h[i] = g[i]
            BY <4>2, <5>3
          <6> QED
            BY <4>2, <5>2, <6>2, <6>3
        <5>4. CASE ~(i < n)
          <6>1. i = n
            BY <5>4
          <6>2. h[i] = g[n - 1] \o s[i]
            BY <4>2, <5>4
          <6>3. h[i - 1] = g[n - 1]
            BY <5>2, <6>1
          <6> HIDE DEF h
          <6> QED
            BY <4>2, <6>2, <6>3
        <5> QED
          BY <5>3, <5>4
      <4> QED
        BY <4>1, <4>2
    <3>4. h = [i \in 1..n |-> h[i]]
      OBVIOUS
    <3> HIDE DEF h
    <3>5. Solves(h, n)
      BY <3>3, <3>4
    <3> QED
      BY <3>5
  <2>3. \A n \in Nat \ {0} : n - 1 \in Solved => n \in Solved
    <3> HIDE DEF Solves
    <3> QED
      BY <1>1, <2>2
  <2> HIDE DEF Solved
  <2> QED
    BY <2>1, <2>3, NaturalSet
<1> DEFINE f == CHOOSE g : Solves(g, Len(s))
<1>3. Solves(f, Len(s))
  <2>1. \E g : Solves(g, Len(s))
    <3> HIDE DEF Solves
    <3> QED
      BY <1>1, <1>2
  <2> QED
    BY <2>1
<1> HIDE DEF f
<1> DEFINE Typed == {n \in Nat : n \in 1..Len(s) => f[n] \in Seq(T)}
<1>4. \A n \in Nat : n \in Typed
  <2>1. 0 \in Typed
    OBVIOUS
  <2>2. ASSUME NEW n \in Nat \ {0}, n - 1 \in Typed, n \in 1..Len(s)
        PROVE  f[n] \in Seq(T)
    <3>1. f[n] = IF n = 1 THEN s[n] ELSE f[n - 1] \o s[n]
      BY <1>3, <2>2
    <3>2. s[n] \in Seq(T)
      BY <1>1, <2>2
    <3>3. n # 1 => f[n - 1] \in Seq(T)
      BY <1>1, <2>2
    <3>4. n # 1 => f[n - 1] \o s[n] \in Seq(T)
      BY <3>2, <3>3, ConcatProperties
    <3> QED
      BY <3>1, <3>2, <3>4
  <2>3. \A n \in Nat \ {0} : n - 1 \in Typed => n \in Typed
    BY <2>2
  <2> HIDE DEF Typed
  <2> QED
    BY <2>1, <2>3, NaturalSet
<1> DEFINE e == [i \in 0..Len(s) |-> IF i = 0 THEN <<>> ELSE f[i]]
<1>5. e \in [0..Len(s) -> Seq(T)] /\ e[0] = <<>>
  BY <1>1, <1>4
<1>6. ASSUME NEW i \in 1..Len(s)
      PROVE  e[i] = e[i - 1] \o s[i]
  <2>1. f[i] = IF i = 1 THEN s[i] ELSE f[i - 1] \o s[i]
    BY <1>3
  <2>2. <<>> \o s[i] = s[i]
    BY <1>1, ConcatEmptySeq
  <2>3. i = 1 => e[i - 1] = <<>>
    BY <1>1
  <2>4. i # 1 => e[i - 1] = f[i - 1]
    BY <1>1
  <2>5. e[i] = f[i]
    BY <1>1
  <2> HIDE DEF e
  <2> QED
    BY <2>1, <2>2, <2>3, <2>4, <2>5
<1>7. FlattenSeq(s) = e[Len(s)]
  <2>1. CASE Len(s) = 0
    <3>1. s = <<>>
      BY <2>1
    <3> QED
      BY <2>1, <3>1 DEF FlattenSeq
  <2>2. CASE Len(s) # 0
    <3>1. FlattenSeq(s) = f[Len(s)]
      BY <2>2 DEF FlattenSeq, f
    <3> QED
      BY <1>1, <2>2, <3>1
  <2> QED
    BY <2>1, <2>2
<1> HIDE DEF e
<1> QED
  BY <1>5, <1>6, <1>7

\* What is flattened from sequences over T is one, and grows by what is appended.
LEMMA FlattenAppend ==
    ASSUME NEW T, NEW s \in Seq(Seq(T)), NEW x \in Seq(T)
    PROVE  /\ FlattenSeq(s) \in Seq(T)
           /\ FlattenSeq(Append(s, x)) = FlattenSeq(s) \o x
<1>1. PICK f \in [0..Len(s) -> Seq(T)] :
          /\ f[0] = <<>>
          /\ \A i \in 1..Len(s) : f[i] = f[i - 1] \o s[i]
          /\ FlattenSeq(s) = f[Len(s)]
  BY FlattenDefined
<1> DEFINE t == Append(s, x)
<1>2. /\ t \in Seq(Seq(T)) /\ Len(t) = Len(s) + 1 /\ t[Len(s) + 1] = x
      /\ \A i \in 1..Len(s) : t[i] = s[i]
      /\ Len(s) \in Nat
  OBVIOUS
<1> HIDE DEF t
<1>3. PICK g \in [0..Len(t) -> Seq(T)] :
          /\ g[0] = <<>>
          /\ \A i \in 1..Len(t) : g[i] = g[i - 1] \o t[i]
          /\ FlattenSeq(t) = g[Len(t)]
  BY <1>2, FlattenDefined
<1> DEFINE Same == {n \in Nat : n <= Len(s) => f[n] = g[n]}
<1>4. \A n \in Nat : n \in Same
  <2>1. 0 \in Same
    BY <1>1, <1>3
  <2>2. ASSUME NEW n \in Nat \ {0}, n - 1 \in Same, n <= Len(s)
        PROVE  f[n] = g[n]
    <3>1. n \in 1..Len(s) /\ n \in 1..Len(t)
      BY <1>2, <2>2
    <3>2. f[n] = f[n - 1] \o s[n] /\ g[n] = g[n - 1] \o t[n]
      BY <1>1, <1>3, <3>1
    <3>3. f[n - 1] = g[n - 1] /\ t[n] = s[n]
      BY <1>2, <2>2, <3>1
    <3> QED
      BY <3>2, <3>3
  <2>3. \A n \in Nat \ {0} : n - 1 \in Same => n \in Same
    BY <1>2, <2>2
  <2> HIDE DEF Same
  <2> QED
    BY <2>1, <2>3, NaturalSet
<1>5. FlattenSeq(t) = g[Len(s)] \o x
  <2>1. Len(t) \in 1..Len(t) /\ Len(t) - 1 = Len(s)
    BY <1>2
  <2>2. g[Len(t)] = g[Len(t) - 1] \o t[Len(t)]
    BY <1>3, <2>1
  <2> QED
    BY <1>2, <1>3, <2>1, <2>2
<1>6. f[Len(s)] = g[Len(s)] /\ f[Len(s)] \in Seq(T)
  <2>1. Len(s) \in Same
    BY <1>2, <1>4
  <2>2. f[Len(s)] = g[Len(s)]
    BY <2>1
  <2> QED
    BY <1>1, <1>2, <2>2
<1> QED
  BY <1>1, <1>5, <1>6 DEF t

\* The grouping of a concatenation does not matter.
Regroups(a, b, c) == (a \o b) \o c = a \o (b \o c)

\* Concatenation is associative, and adds lengths.
LEMMA Concat ==
    /\ \A T : \A a, b, c \in Seq(T) : Regroups(a, b, c)
    /\ \A T : \A a, b \in Seq(T) : a \o b \in Seq(T) /\ Len(a \o b) = Len(a) + Len(b)
<1>1. ASSUME NEW T, NEW a \in Seq(T), NEW b \in Seq(T), NEW c \in Seq(T)
      PROVE  Regroups(a, b, c)
  <2>1. (a \o b) \o c = a \o (b \o c)
    BY ConcatAssociative
  <2> QED
    BY <2>1 DEF Regroups
<1>2. ASSUME NEW T, NEW a \in Seq(T), NEW b \in Seq(T)
      PROVE  a \o b \in Seq(T) /\ Len(a \o b) = Len(a) + Len(b)
  BY ConcatProperties
<1> QED
  BY <1>1, <1>2

\* Flattening nothing, one sequence, and a concatenation.
LEMMA FlattenConcat ==
    ASSUME NEW T
    PROVE  /\ FlattenSeq(<<>>) = <<>>
           /\ \A x \in Seq(T) : FlattenSeq(<<x>>) = x
           /\ \A s, t \in Seq(Seq(T)) : FlattenSeq(s \o t) = FlattenSeq(s) \o FlattenSeq(t)
<1>1. FlattenSeq(<<>>) = <<>>
  BY DEF FlattenSeq
<1>2. ASSUME NEW x \in Seq(T) PROVE FlattenSeq(<<x>>) = x
  <2>1. <<>> \in Seq(Seq(T)) /\ <<x>> = Append(<<>>, x) /\ <<>> \o x = x
    OBVIOUS
  <2> QED
    BY <1>1, <2>1, FlattenAppend
<1> DEFINE Splits == {n \in Nat : \A s, t \in Seq(Seq(T)) :
               Len(t) = n => FlattenSeq(s \o t) = FlattenSeq(s) \o FlattenSeq(t)}
<1>3. \A n \in Nat : n \in Splits
  <2>1. 0 \in Splits
    <3> SUFFICES ASSUME NEW s \in Seq(Seq(T)), NEW t \in Seq(Seq(T)), Len(t) = 0
                 PROVE  FlattenSeq(s \o t) = FlattenSeq(s) \o FlattenSeq(t)
      OBVIOUS
    <3>1. t = <<>> /\ s \o t = s
      OBVIOUS
    <3>2. FlattenSeq(s) \in Seq(T)
      BY FlattenAppend, <<>> \in Seq(T)
    <3> QED
      BY <1>1, <3>1, <3>2
  <2>2. ASSUME NEW n \in Nat \ {0}, n - 1 \in Splits, NEW s \in Seq(Seq(T)), NEW t \in Seq(Seq(T)),
               Len(t) = n
        PROVE  FlattenSeq(s \o t) = FlattenSeq(s) \o FlattenSeq(t)
    <3>1. PICK u \in Seq(Seq(T)), x \in Seq(T) : t = Append(u, x)
      <4>1. t # <<>>
        BY <2>2
      <4> QED
        BY <4>1, SequenceEmptyOrAppend
    <3>2. Len(u) = n - 1 /\ s \o u \in Seq(Seq(T)) /\ s \o t = Append(s \o u, x)
      <4>1. Len(t) = Len(u) + 1
        BY <3>1
      <4>2. Len(u) = n - 1
        BY <2>2, <4>1
      <4>3. s \o u \in Seq(Seq(T))
        BY <2>2, <3>1
      <4>4. s \o Append(u, x) = Append(s \o u, x)
        BY <2>2, <3>1
      <4> QED
        BY <3>1, <4>2, <4>3, <4>4
    <3>3. FlattenSeq(s \o u) = FlattenSeq(s) \o FlattenSeq(u)
      BY <2>2, <3>2
    <3>4. /\ FlattenSeq(s \o t) = FlattenSeq(s \o u) \o x
          /\ FlattenSeq(t) = FlattenSeq(u) \o x
          /\ FlattenSeq(s) \in Seq(T) /\ FlattenSeq(u) \in Seq(T)
      BY <3>1, <3>2, FlattenAppend
    <3>5. (FlattenSeq(s) \o FlattenSeq(u)) \o x = FlattenSeq(s) \o (FlattenSeq(u) \o x)
      <4>1. Regroups(FlattenSeq(s), FlattenSeq(u), x)
        BY <3>1, <3>4, Concat, Zenon
      <4> QED
        BY <4>1 DEF Regroups
    <3> QED
      BY <3>3, <3>4, <3>5
  <2>3. \A n \in Nat \ {0} : n - 1 \in Splits => n \in Splits
    BY <2>2
  <2> HIDE DEF Splits
  <2> QED
    BY <2>1, <2>3, NaturalSet
<1>4. ASSUME NEW s \in Seq(Seq(T)), NEW t \in Seq(Seq(T))
      PROVE  FlattenSeq(s \o t) = FlattenSeq(s) \o FlattenSeq(t)
  <2>1. Len(t) \in Nat
    OBVIOUS
  <2> QED
    BY <1>3, <2>1
<1> QED
  BY <1>1, <1>2, <1>4

\* A function on 1..n is a sequence.
LEMMA IsSequence ==
    ASSUME NEW T, NEW n \in Nat, NEW f \in [1..n -> T]
    PROVE  f \in Seq(T)
OBVIOUS

\* Cutting a sequence and flattening its pieces gives it back.
LEMMA FlattenPieces ==
    ASSUME NEW T, NEW p \in Seq(T)
    PROVE  FlattenSeq([i \in DOMAIN p |-> <<p[i]>>]) = p
<1> DEFINE Pieces(u) == [i \in DOMAIN u |-> <<u[i]>>]
           Whole == {n \in Nat : \A u \in Seq(T) : Len(u) = n => FlattenSeq(Pieces(u)) = u}
<1>1. \A n \in Nat : n \in Whole
  <2>1. 0 \in Whole
    <3> SUFFICES ASSUME NEW u \in Seq(T), Len(u) = 0
                 PROVE  FlattenSeq(Pieces(u)) = u
      OBVIOUS
    <3>1. u = <<>> /\ Pieces(u) = <<>>
      OBVIOUS
    <3> QED
      BY <3>1, FlattenConcat
  <2>2. ASSUME NEW n \in Nat \ {0}, n - 1 \in Whole, NEW u \in Seq(T), Len(u) = n
        PROVE  FlattenSeq(Pieces(u)) = u
    <3>1. PICK v \in Seq(T), x \in T : u = Append(v, x)
      <4>1. u # <<>>
        BY <2>2
      <4> QED
        BY <4>1, SequenceEmptyOrAppend
    <3>2. Len(v) = n - 1 /\ Pieces(v) \in Seq(Seq(T)) /\ <<x>> \in Seq(T)
      <4>1. Pieces(v) \in [1..Len(v) -> Seq(T)]
        OBVIOUS
      <4>2. Len(v) = n - 1 /\ Len(v) \in Nat
        BY <2>2, <3>1
      <4> HIDE DEF Pieces
      <4> QED
        BY <4>1, <4>2, IsSequence
    <3>3. Pieces(u) = Append(Pieces(v), <<x>>)
      BY <3>1
    <3>4. FlattenSeq(Pieces(v)) = v
      <4> HIDE DEF Pieces
      <4> QED
        BY <2>2, <3>2
    <3>5. FlattenSeq(Pieces(u)) = FlattenSeq(Pieces(v)) \o <<x>>
      <4> HIDE DEF Pieces
      <4> QED
        BY <3>2, <3>3, FlattenAppend
    <3>6. u = v \o <<x>>
      BY <3>1
    <3> HIDE DEF Pieces
    <3> QED
      BY <3>4, <3>5, <3>6
  <2>3. \A n \in Nat \ {0} : n - 1 \in Whole => n \in Whole
    BY <2>2
  <2> HIDE DEF Whole
  <2> QED
    BY <2>1, <2>3, NaturalSet
<1>2. Len(p) \in Nat
  OBVIOUS
<1> HIDE DEF Pieces
<1>3. FlattenSeq(Pieces(p)) = p
  BY <1>1, <1>2
<1> QED
  BY <1>3 DEF Pieces

\* The elements of a concatenation that come from its second part.
LEMMA Joined ==
    ASSUME NEW T, NEW s \in Seq(T), NEW t \in Seq(T)
    PROVE  /\ Len(s) \in Nat /\ Len(t) \in Nat /\ Len(s \o t) = Len(s) + Len(t)
           /\ \A k \in 1..Len(t) : (s \o t)[Len(s) + k] = t[k]
           /\ Len(t) # 0 => (s \o t)[Len(s \o t)] = t[Len(t)]
           /\ Len(t) = 2 => (s \o t)[Len(s) + 1] = t[1] /\ (s \o t)[Len(s) + 2] = t[2]
<1>1. Len(s) \in Nat /\ Len(t) \in Nat
  OBVIOUS
<1>2. /\ Len(s \o t) = Len(s) + Len(t)
      /\ \A i \in 1..Len(s) + Len(t) :
            (s \o t)[i] = IF i <= Len(s) THEN s[i] ELSE t[i - Len(s)]
  BY ConcatProperties
<1>3. ASSUME NEW k \in 1..Len(t)
      PROVE  (s \o t)[Len(s) + k] = t[k]
  <2>1. Len(s) + k \in 1..Len(s) + Len(t) /\ ~(Len(s) + k <= Len(s)) /\ Len(s) + k - Len(s) = k
    BY <1>1
  <2> QED
    BY <1>2, <2>1
<1>4. Len(t) # 0 => Len(t) \in 1..Len(t)
  BY <1>1
<1>5. Len(t) = 2 => 1 \in 1..Len(t) /\ 2 \in 1..Len(t)
  OBVIOUS
<1> QED
  BY <1>1, <1>2, <1>3, <1>4, <1>5

\* The two parts of a concatenation.
LEMMA Parts ==
    ASSUME NEW T, NEW s \in Seq(T), NEW t \in Seq(T)
    PROVE  /\ s \o t \in Seq(T) /\ Len(s \o t) = Len(s) + Len(t)
           /\ SubSeq(s \o t, 1, Len(s)) = s
           /\ SubSeq(s \o t, Len(s) + 1, Len(s) + Len(t)) = t
<1>1. /\ s \o t \in Seq(T) /\ Len(s \o t) = Len(s) + Len(t)
      /\ \A i \in 1..Len(s) + Len(t) :
            (s \o t)[i] = IF i <= Len(s) THEN s[i] ELSE t[i - Len(s)]
  BY ConcatProperties
<1>2. SubSeq(s \o t, 1, Len(s)) = s
  OBVIOUS
<1>3. SubSeq(s \o t, Len(s) + 1, Len(s) + Len(t)) = t
  OBVIOUS
<1> QED
  BY <1>1, <1>2, <1>3

\* Concatenations of short tuples.
LEMMA Tuples ==
    ASSUME NEW T
    PROVE  /\ \A a, b \in T : <<a>> \o <<b>> = <<a, b>>
           /\ \A a, b, c \in T : <<a>> \o <<b, c>> = <<a, b, c>>
           /\ \A a, b, c, d \in T : <<a, b>> \o <<c, d>> = <<a, b, c, d>>
           /\ \A a, b, c, d \in T : <<a, b, c, d>> \in Seq(T) /\ Len(<<a, b, c, d>>) = 4
<1>1. ASSUME NEW a \in T, NEW b \in T
      PROVE  <<a>> \o <<b>> = <<a, b>>
  <2> DEFINE s == <<a>> \o <<b>>
             t == <<a, b>>
  <2>1. s \in Seq(T) /\ Len(s) = 2 /\ s[1] = a /\ s[2] = b
    OBVIOUS
  <2>2. t \in Seq(T) /\ Len(t) = 2 /\ t[1] = a /\ t[2] = b
    OBVIOUS
  <2> HIDE DEF s, t
  <2>3. \A i \in 1..2 : i = 1 \/ i = 2
    OBVIOUS
  <2>4. s = t
    BY <2>1, <2>2, <2>3, SeqEqual
  <2> QED
    BY <2>1, <2>2, <2>4 DEF s, t
<1>2. ASSUME NEW a \in T, NEW b \in T, NEW c \in T
      PROVE  <<a>> \o <<b, c>> = <<a, b, c>>
  <2> DEFINE s == <<a>> \o <<b, c>>
             t == <<a, b, c>>
  <2>1. s \in Seq(T) /\ Len(s) = 3 /\ s[1] = a /\ s[2] = b /\ s[3] = c
    OBVIOUS
  <2>2. t \in Seq(T) /\ Len(t) = 3 /\ t[1] = a /\ t[2] = b /\ t[3] = c
    OBVIOUS
  <2> HIDE DEF s, t
  <2>3. \A i \in 1..3 : i = 1 \/ i = 2 \/ i = 3
    OBVIOUS
  <2>4. s = t
    BY <2>1, <2>2, <2>3, SeqEqual
  <2> QED
    BY <2>1, <2>2, <2>4 DEF s, t
<1>3. ASSUME NEW a \in T, NEW b \in T, NEW c \in T, NEW d \in T
      PROVE  /\ <<a, b>> \o <<c, d>> = <<a, b, c, d>>
             /\ <<a, b, c, d>> \in Seq(T) /\ Len(<<a, b, c, d>>) = 4
  <2> DEFINE s == <<a, b>> \o <<c, d>>
             t == <<a, b, c, d>>
  <2>1. s \in Seq(T) /\ Len(s) = 4 /\ s[1] = a /\ s[2] = b /\ s[3] = c /\ s[4] = d
    OBVIOUS
  <2>2. t \in Seq(T) /\ Len(t) = 4 /\ t[1] = a /\ t[2] = b /\ t[3] = c /\ t[4] = d
    OBVIOUS
  <2> HIDE DEF s, t
  <2>3. \A i \in 1..4 : i = 1 \/ i = 2 \/ i = 3 \/ i = 4
    OBVIOUS
  <2>4. s = t
    BY <2>1, <2>2, <2>3, SeqEqual
  <2> QED
    BY <2>1, <2>2, <2>4 DEF s, t
<1> QED
  BY <1>1, <1>2, <1>3

\* Two elements of a sequence.
LEMMA TwoOf ==
    ASSUME NEW T, NEW s \in Seq(T), NEW i \in Nat, i >= 1, i + 1 <= Len(s)
    PROVE  SubSeq(s, i, i + 1) = <<s[i], s[i + 1]>>
<1> DEFINE u == SubSeq(s, i, i + 1)
           v == <<s[i], s[i + 1]>>
<1>1. s[i] \in T /\ s[i + 1] \in T
  OBVIOUS
<1>2. /\ v \in Seq(T) /\ Len(v) = 2 /\ v[1] = s[i] /\ v[2] = s[i + 1]
  <2> HIDE DEF u
  <2> QED
    BY <1>1
<1>3. /\ u \in Seq(T) /\ Len(u) = 2 /\ u[1] = s[i] /\ u[2] = s[i + 1]
  <2>1. /\ u \in Seq(T) /\ Len(u) = 2
        /\ \A k \in 1..2 : u[k] = s[i + k - 1]
    <3>1. i \in Int /\ i + 1 \in Int /\ \A k \in i..i + 1 : s[k] \in T
      OBVIOUS
    <3>2. /\ u \in Seq(T)
          /\ Len(u) = IF i <= i + 1 THEN (i + 1) - i + 1 ELSE 0
          /\ \A k \in 1..(i + 1) - i + 1 : u[k] = s[i + k - 1]
      BY <3>1, SubSeqProperties, SMT
    <3> HIDE DEF u
    <3>3. i <= i + 1 /\ (i + 1) - i + 1 = 2
      OBVIOUS
    <3> QED
      BY <3>2, <3>3
  <2>2. i + 1 - 1 = i /\ i + 2 - 1 = i + 1
    OBVIOUS
  <2> HIDE DEF u
  <2> QED
    BY <2>1, <2>2
<1>4. \A k \in 1..2 : k = 1 \/ k = 2
  OBVIOUS
<1> HIDE DEF u, v
<1>5. u = v
  BY <1>2, <1>3, <1>4, SeqEqual
<1> QED
  BY <1>5 DEF u, v

\* Four elements of a sequence.
LEMMA FourOf ==
    ASSUME NEW T, NEW s \in Seq(T), NEW i \in Nat, i + 4 <= Len(s)
    PROVE  SubSeq(s, i + 1, i + 4) = <<s[i + 1], s[i + 2], s[i + 3], s[i + 4]>>
<1> DEFINE u == SubSeq(s, i + 1, i + 4)
           v == <<s[i + 1], s[i + 2], s[i + 3], s[i + 4]>>
<1>1. /\ s[i + 1] \in T /\ s[i + 2] \in T /\ s[i + 3] \in T /\ s[i + 4] \in T
  OBVIOUS
<1>2. /\ v \in Seq(T) /\ Len(v) = 4
      /\ v[1] = s[i + 1] /\ v[2] = s[i + 2] /\ v[3] = s[i + 3] /\ v[4] = s[i + 4]
  <2> HIDE DEF u
  <2> QED
    BY <1>1
<1>3. /\ u \in Seq(T) /\ Len(u) = 4
      /\ \A k \in 1..4 : u[k] = s[i + k]
  OBVIOUS
<1>4. u[1] = s[i + 1] /\ u[2] = s[i + 2] /\ u[3] = s[i + 3] /\ u[4] = s[i + 4]
  <2> HIDE DEF u
  <2> QED
    BY <1>3
<1>5. \A k \in 1..4 : k = 1 \/ k = 2 \/ k = 3 \/ k = 4
  OBVIOUS
<1> HIDE DEF u, v
<1>6. \A k \in 1..4 : u[k] = v[k]
  BY <1>2, <1>4, <1>5
<1>7. u = v
  BY <1>2, <1>3, <1>6, SeqEqual
<1> QED
  BY <1>7 DEF u, v
-----------------------------------------------------------------------------
(***************************************************************************)
(* Bytes and lower case.                                                   *)
(***************************************************************************)

Byte == (Symbols \cup {Invalid}) \X (1..3)

\* The bytes of a symbol, and of its lower case.
Unit(x) == [k \in 1..Width(x) |-> <<x, k>>]

LowerUnit(x) ==
    CASE x = Grows   -> <<<<x, 1>>, <<x, 2>>, <<x, 3>>>>
      [] x = Shrinks -> <<<<x, 1>>>>
      [] OTHER       -> Unit(x)

Lower(u) == ToLower(Bytes(u))

\* The six symbols are different.
LEMMA SymbolsDiffer ==
    /\ Open # Close /\ Open # Space /\ Open # Letter /\ Open # Grows /\ Open # Shrinks
    /\ Close # Space /\ Close # Letter /\ Close # Grows /\ Close # Shrinks
    /\ Space # Letter /\ Space # Grows /\ Space # Shrinks
    /\ Letter # Grows /\ Letter # Shrinks /\ Grows # Shrinks
BY DEF Open, Close, Space, Letter, Grows, Shrinks

\* The bytes of a symbol are one or two, each with its place.
LEMMA UnitIs ==
    ASSUME NEW x \in Symbols
    PROVE  /\ Unit(x) \in Seq(Byte)
           /\ Unit(x) = IF x \in {Space, Letter} THEN <<<<x, 1>>>>
                        ELSE <<<<x, 1>>, <<x, 2>>>>
<1>1. CASE x \in {Space, Letter}
  BY <1>1 DEF Unit, Width, Byte
<1>2. CASE x \notin {Space, Letter}
  BY <1>2 DEF Unit, Width, Byte
<1> QED
  BY <1>1, <1>2

\* Bytes of nothing, of one symbol and of a concatenation.
LEMMA BytesConcat ==
    /\ Bytes(<<>>) = <<>>
    /\ \A x \in Symbols : Bytes(<<x>>) = Unit(x)
    /\ \A u \in Seq(Symbols) : Bytes(u) \in Seq(Byte)
    /\ \A u, v \in Seq(Symbols) : Bytes(u \o v) = Bytes(u) \o Bytes(v)
<1> DEFINE Units(u) == [i \in DOMAIN u |-> Unit(u[i])]
<1>1. \A u : Bytes(u) = FlattenSeq(Units(u))
  BY DEF Bytes, Unit
<1>2. ASSUME NEW u \in Seq(Symbols)
      PROVE  Units(u) \in Seq(Seq(Byte))
  <2>1. Units(u) \in [1..Len(u) -> Seq(Byte)]
    BY UnitIs
  <2> HIDE DEF Units
  <2> QED
    BY <2>1, IsSequence
<1>3. Units(<<>>) = <<>>
  OBVIOUS
<1>4. ASSUME NEW x \in Symbols
      PROVE  Units(<<x>>) = <<Unit(x)>>
  OBVIOUS
<1>5. ASSUME NEW u \in Seq(Symbols), NEW v \in Seq(Symbols)
      PROVE  Units(u \o v) = Units(u) \o Units(v)
  BY SMTT(60)
<1>6. \A u \in Seq(Symbols) : Bytes(u) \in Seq(Byte)
  <2> HIDE DEF Units
  <2>1. <<>> \in Seq(Byte)
    OBVIOUS
  <2> QED
    BY <1>1, <1>2, <2>1, FlattenAppend
<1> HIDE DEF Units
<1>7. Bytes(<<>>) = <<>>
  BY <1>1, <1>3, FlattenConcat
<1>8. \A x \in Symbols : Bytes(<<x>>) = Unit(x)
  BY <1>1, <1>4, UnitIs, FlattenConcat
<1>9. ASSUME NEW u \in Seq(Symbols), NEW v \in Seq(Symbols)
      PROVE  Bytes(u \o v) = Bytes(u) \o Bytes(v)
  <2>1. Units(u) \in Seq(Seq(Byte)) /\ Units(v) \in Seq(Seq(Byte))
    BY <1>2
  <2>2. FlattenSeq(Units(u) \o Units(v)) = FlattenSeq(Units(u)) \o FlattenSeq(Units(v))
    BY <2>1, FlattenConcat, Zenon
  <2>3. Units(u \o v) = Units(u) \o Units(v)
    BY <1>5
  <2> QED
    BY <1>1, <2>2, <2>3, Zenon
<1> QED
  BY <1>6, <1>7, <1>8, <1>9

\* What lower-casing makes of each byte.
Lowered(s) == [i \in DOMAIN s |-> LowerAt(s, i)]

\* A text begins with no byte of a letter that begins before it.
Begins(s) == s = <<>> \/ s[1] \notin TailBytes

\* Lower case makes bytes of bytes.
LEMMA EachTyped ==
    ASSUME NEW s \in Seq(Byte)
    PROVE  Lowered(s) \in Seq(Seq(Byte)) /\ ToLower(s) \in Seq(Byte)
<1>1. /\ <<Grows, 3>> \in Byte /\ <<Invalid, 1>> \in Byte /\ <<Invalid, 2>> \in Byte
      /\ <<Invalid, 3>> \in Byte
  BY DEF Byte, Symbols
<1>2. ASSUME NEW i \in DOMAIN s
      PROVE  LowerAt(s, i) \in Seq(Byte)
  <2>1. s[i] \in Byte
    OBVIOUS
  <2>2. LowerAt(s, i) \in {<<<<Invalid, 1>>, <<Invalid, 2>>, <<Invalid, 3>>>>, <<s[i]>>,
                           <<s[i], <<Grows, 3>>>>, <<>>}
    BY DEF LowerAt
  <2> HIDE DEF Byte
  <2>3. \A b, c, d \in Byte : /\ <<b, c, d>> \in Seq(Byte) /\ <<b, c>> \in Seq(Byte)
                              /\ <<b>> \in Seq(Byte) /\ <<>> \in Seq(Byte)
    OBVIOUS
  <2>4. /\ <<<<Invalid, 1>>, <<Invalid, 2>>, <<Invalid, 3>>>> \in Seq(Byte)
        /\ <<s[i]>> \in Seq(Byte) /\ <<s[i], <<Grows, 3>>>> \in Seq(Byte) /\ <<>> \in Seq(Byte)
    BY <1>1, <2>1, <2>3, Zenon
  <2> QED
    BY <2>2, <2>4
<1>3. Lowered(s) \in [1..Len(s) -> Seq(Byte)] /\ Len(s) \in Nat
  BY <1>2 DEF Lowered
<1>4. Lowered(s) \in Seq(Seq(Byte))
  BY <1>3, IsSequence
<1>5. ToLower(s) = FlattenSeq(Lowered(s))
  BY DEF ToLower, Lowered
<1>6. <<>> \in Seq(Byte)
  OBVIOUS
<1> QED
  BY <1>4, <1>5, <1>6, FlattenAppend

\* Before a text that begins a letter, and in it, the other text is of no account.
LEMMA EachConcat ==
    ASSUME NEW s \in Seq(Byte), NEW t \in Seq(Byte), Begins(t)
    PROVE  Lowered(s \o t) = Lowered(s) \o Lowered(t)
<1> DEFINE st == s \o t
<1>1. /\ Len(s) \in Nat /\ Len(t) \in Nat /\ Len(st) = Len(s) + Len(t) /\ st \in Seq(Byte)
      /\ \A i \in 1..Len(s) : st[i] = s[i]
      /\ \A i \in 1..Len(t) : st[Len(s) + i] = t[i]
  <2>1. /\ Len(s) \in Nat /\ Len(t) \in Nat /\ Len(st) = Len(s) + Len(t) /\ st \in Seq(Byte)
        /\ \A i \in 1..Len(t) : st[Len(s) + i] = t[i]
    BY Joined, Parts
  <2>2. \A i \in 1..Len(s) : st[i] = s[i]
    OBVIOUS
  <2> QED
    BY <2>1, <2>2
<1>2. t # <<>> => 1 \in 1..Len(t)
  OBVIOUS
<1>3. t # <<>> => t[1] \notin TailBytes
  BY DEF Begins
<1>4. Len(t) # 0 => t # <<>>
  OBVIOUS
<1> HIDE DEF st
<1>5. ASSUME NEW i \in 0..Len(s)
      PROVE  Joins(st, i) <=> Joins(s, i)
  <2>1. CASE i \in 1..Len(s) - 1
    BY <1>1, <2>1 DEF Joins
  <2>2. CASE i = Len(s)
    <3>1. ~Joins(s, i)
      BY <1>1, <2>2 DEF Joins
    <3>2. Joins(st, i) => Len(t) # 0 /\ st[Len(s) + 1] \in TailBytes
      BY <1>1, <2>2 DEF Joins
    <3> QED
      BY <1>1, <1>2, <1>3, <1>4, <3>1, <3>2
  <2>3. CASE i = 0
    BY <2>3 DEF Joins
  <2> QED
    BY <1>1, <2>1, <2>2, <2>3
<1>6. ASSUME NEW i \in 1..Len(s)
      PROVE  LowerAt(st, i) = LowerAt(s, i)
  <2>1. (Joins(st, i) <=> Joins(s, i)) /\ (Joins(st, i - 1) <=> Joins(s, i - 1))
    BY <1>1, <1>5
  <2>2. st[i] = s[i] /\ (i # 1 => st[i - 1] = s[i - 1])
    <3>1. i # 1 => i - 1 \in 1..Len(s)
      BY <1>1
    <3>2. \A k \in 1..Len(s) : st[k] = s[k]
      BY <1>1
    <3> QED
      BY <3>1, <3>2
  <2>3. ~Joins(s, 1 - 1)
    BY DEF Joins
  <2> QED
    BY <2>1, <2>2, <2>3 DEF LowerAt
<1>7. ASSUME NEW i \in 1..Len(t)
      PROVE  LowerAt(st, Len(s) + i) = LowerAt(t, i)
  <2>1. st[Len(s) + i] = t[i] /\ (i # 1 => st[Len(s) + i - 1] = t[i - 1])
    <3>1. i # 1 => i - 1 \in 1..Len(t) /\ Len(s) + (i - 1) = Len(s) + i - 1
      BY <1>1
    <3> QED
      BY <1>1, <3>1
  <2>2. Joins(st, Len(s) + i) <=> Joins(t, i)
    <3>1. i \in 1..Len(t) - 1 <=> Len(s) + i \in 1..Len(st) - 1
      BY <1>1
    <3>2. i \in 1..Len(t) - 1 => st[Len(s) + i + 1] = t[i + 1]
      <4>1. i \in 1..Len(t) - 1 => i + 1 \in 1..Len(t) /\ Len(s) + (i + 1) = Len(s) + i + 1
        BY <1>1
      <4> QED
        BY <1>1, <4>1
    <3> QED
      BY <2>1, <3>1, <3>2 DEF Joins
  <2>3. CASE i = 1
    <3>1. t[1] \notin TailBytes
      BY <1>1, <1>3, <1>4
    <3> QED
      BY <2>1, <2>2, <2>3, <3>1 DEF LowerAt
  <2>4. CASE i # 1
    <3>1. Joins(st, Len(s) + i - 1) <=> Joins(t, i - 1)
      <4>1. i - 1 \in 1..Len(t) - 1 /\ Len(s) + i - 1 \in 1..Len(st) - 1
        BY <1>1, <2>4
      <4>2. (i - 1) + 1 = i /\ (Len(s) + i - 1) + 1 = Len(s) + i
        BY <1>1
      <4> QED
        BY <2>1, <2>4, <4>1, <4>2 DEF Joins
    <3> QED
      BY <2>1, <2>2, <2>4, <3>1 DEF LowerAt
  <2> QED
    BY <2>3, <2>4
<1>8. Lowered(s) \in Seq(Seq(Byte)) /\ Lowered(t) \in Seq(Seq(Byte)) /\ Lowered(st) \in Seq(Seq(Byte))
  BY <1>1, EachTyped
<1>9. Len(Lowered(s)) = Len(s) /\ Len(Lowered(t)) = Len(t) /\ Len(Lowered(st)) = Len(st)
  BY <1>1 DEF Lowered
<1>10. /\ \A i \in 1..Len(s) : Lowered(s)[i] = LowerAt(s, i)
       /\ \A i \in 1..Len(t) : Lowered(t)[i] = LowerAt(t, i)
       /\ \A i \in 1..Len(st) : Lowered(st)[i] = LowerAt(st, i)
  BY <1>1 DEF Lowered
<1> DEFINE joined == Lowered(s) \o Lowered(t)
<1>11. /\ joined \in Seq(Seq(Byte)) /\ Len(joined) = Len(s) + Len(t)
       /\ \A i \in 1..Len(s) + Len(t) :
             joined[i] = IF i <= Len(s) THEN Lowered(s)[i] ELSE Lowered(t)[i - Len(s)]
  <2> DEFINE a == Lowered(s)
             b == Lowered(t)
  <2>1. a \in Seq(Seq(Byte)) /\ b \in Seq(Seq(Byte)) /\ Len(a) = Len(s) /\ Len(b) = Len(t)
    BY <1>8, <1>9
  <2> HIDE DEF a, b
  <2>2. /\ a \o b \in Seq(Seq(Byte)) /\ Len(a \o b) = Len(a) + Len(b)
        /\ \A i \in 1..Len(a) + Len(b) :
              (a \o b)[i] = IF i <= Len(a) THEN a[i] ELSE b[i - Len(a)]
    BY <2>1, ConcatProperties
  <2>3. /\ a \o b \in Seq(Seq(Byte)) /\ Len(a \o b) = Len(s) + Len(t)
        /\ \A i \in 1..Len(s) + Len(t) :
              (a \o b)[i] = IF i <= Len(s) THEN a[i] ELSE b[i - Len(s)]
    BY <2>1, <2>2
  <2> QED
    BY <2>3 DEF a, b
<1> HIDE DEF joined
<1>12. ASSUME NEW i \in 1..Len(st)
       PROVE  Lowered(st)[i] = joined[i]
  <2>1. CASE i <= Len(s)
    <3>1. i \in 1..Len(s)
      BY <1>1, <2>1
    <3>2. joined[i] = Lowered(s)[i]
      BY <1>1, <1>11, <2>1
    <3>3. Lowered(s)[i] = LowerAt(s, i) /\ LowerAt(st, i) = LowerAt(s, i)
      BY <1>6, <1>10, <3>1
    <3> QED
      BY <1>10, <3>2, <3>3
  <2>2. CASE ~(i <= Len(s))
    <3>1. i - Len(s) \in 1..Len(t) /\ Len(s) + (i - Len(s)) = i
      BY <1>1, <2>2
    <3>2. LowerAt(st, i) = LowerAt(t, i - Len(s))
      BY <1>7, <3>1
    <3>3. joined[i] = Lowered(t)[i - Len(s)]
      BY <1>1, <1>11, <2>2
    <3> QED
      BY <1>10, <3>1, <3>2, <3>3
  <2> QED
    BY <2>1, <2>2
<1>13. Lowered(st) = joined
  BY <1>1, <1>8, <1>9, <1>11, <1>12, SeqEqual
<1> QED
  BY <1>13 DEF st, joined

\* Lower case of nothing and of a concatenation that cuts no letter in two.
LEMMA LowerConcat ==
    /\ ToLower(<<>>) = <<>>
    /\ \A s \in Seq(Byte) : ToLower(s) \in Seq(Byte)
    /\ \A s, t \in Seq(Byte) : Begins(t) => ToLower(s \o t) = ToLower(s) \o ToLower(t)
<1>1. \A s : ToLower(s) = FlattenSeq(Lowered(s))
  BY DEF ToLower, Lowered
<1>2. Lowered(<<>>) = <<>>
  BY DEF Lowered
<1>3. ToLower(<<>>) = <<>>
  BY <1>1, <1>2, FlattenConcat
<1>4. ASSUME NEW s \in Seq(Byte), NEW t \in Seq(Byte), Begins(t)
      PROVE  ToLower(s \o t) = ToLower(s) \o ToLower(t)
  <2>1. Lowered(s) \in Seq(Seq(Byte)) /\ Lowered(t) \in Seq(Seq(Byte))
    BY EachTyped
  <2>2. FlattenSeq(Lowered(s) \o Lowered(t)) = FlattenSeq(Lowered(s)) \o FlattenSeq(Lowered(t))
    BY <2>1, FlattenConcat, Zenon
  <2>3. Lowered(s \o t) = Lowered(s) \o Lowered(t)
    BY <1>4, EachConcat
  <2> QED
    BY <1>1, <2>2, <2>3, Zenon
<1> QED
  BY <1>3, <1>4, EachTyped

\* A symbol in lower case keeps its places; a letter that grows or shrinks has
\* one byte more or less.
LEMMA LowerUnitIs ==
    ASSUME NEW x \in Symbols
    PROVE  /\ ToLower(Unit(x)) = LowerUnit(x)
           /\ LowerUnit(x) \in Seq(Byte)
           /\ Len(LowerUnit(x)) \in 1..3
           /\ \A k \in 1..Len(LowerUnit(x)) : LowerUnit(x)[k] = <<x, k>>
           /\ x \in {Open, Close} => LowerUnit(x) = <<<<x, 1>>, <<x, 2>>>>
           /\ x \notin {Grows, Shrinks} => LowerUnit(x) = Unit(x)
<1>1. \A k \in 1..3 : <<x, k>> \in Byte
  BY DEF Byte
<1> DEFINE a == <<x, 1>>
           b == <<x, 2>>
           u == Unit(x)
<1>2. /\ a \in LeadBytes <=> x \in {Grows, Shrinks}
      /\ b \in TailBytes <=> x \in {Grows, Shrinks}
      /\ a \notin TailBytes /\ b \notin LeadBytes
      /\ b = <<Grows, 2>> <=> x = Grows
      /\ a[1] = x /\ b[1] = x
  BY DEF LeadBytes, TailBytes
<1>3. ToLower(u) = FlattenSeq(Lowered(u))
  BY DEF ToLower, Lowered
<1>4. CASE x \in {Space, Letter}
  <2>1. u = <<a>> /\ LowerUnit(x) = <<a>>
    BY <1>4, UnitIs, SymbolsDiffer DEF LowerUnit
  <2>2. Lowered(u) = <<<<a>>>>
    <3>1. LowerAt(u, 1) = <<a>>
      BY <1>2, <1>4, <2>1, SymbolsDiffer DEF LowerAt
    <3> QED
      BY <2>1, <3>1 DEF Lowered
  <2>3. ToLower(u) = <<a>>
    <3>1. <<a>> \in Seq(Byte)
      BY <1>1
    <3>2. FlattenSeq(<<<<a>>>>) = <<a>>
      BY <3>1, FlattenConcat, Zenon
    <3> QED
      BY <1>3, <2>2, <3>2
  <2> QED
    BY <1>1, <1>4, <2>1, <2>3, SymbolsDiffer
<1>5. CASE x \notin {Space, Letter}
  <2>1. u = <<a, b>>
    BY <1>5, UnitIs
  <2> DEFINE v == IF x = Grows THEN <<b, <<x, 3>>>> ELSE IF x = Shrinks THEN <<>> ELSE <<b>>
  <2>2. Lowered(u) = <<<<a>>, v>>
    <3>1. u[1] = a /\ u[2] = b /\ Len(u) = 2 /\ DOMAIN u = 1..2
      BY <2>1
    <3> HIDE DEF a, b, u
    <3>2. Joins(u, 1) <=> x \in {Grows, Shrinks}
      BY <1>2, <3>1 DEF Joins
    <3>3. LowerAt(u, 1) = <<a>>
      BY <1>2, <3>1, <3>2 DEF LowerAt
    <3>4. LowerAt(u, 2) = v
      <4>1. u[2 - 1] = a /\ (Joins(u, 2 - 1) <=> Joins(u, 1))
        BY <3>1
      <4> QED
        BY <1>2, <3>1, <3>2, <4>1 DEF LowerAt
    <3> HIDE DEF v
    <3>5. Lowered(u) = [i \in 1..2 |-> IF i = 1 THEN <<a>> ELSE v]
      BY <3>1, <3>3, <3>4 DEF Lowered
    <3> QED
      BY <3>5
  <2>3. <<a>> \in Seq(Byte) /\ v \in Seq(Byte) /\ <<<<a>>>> \in Seq(Seq(Byte))
    BY <1>1
  <2>4. FlattenSeq(<<<<a>>, v>>) = <<a>> \o v
    <3> HIDE DEF a, b, u, v
    <3>1. FlattenSeq(<<<<a>>>>) = <<a>>
      BY <2>3, FlattenConcat, Zenon
    <3>2. \A x1, x2 : <<x1, x2>> = Append(<<x1>>, x2)
      OBVIOUS
    <3>3. FlattenSeq(Append(<<<<a>>>>, v)) = FlattenSeq(<<<<a>>>>) \o v
      BY <2>3, FlattenAppend, Zenon
    <3> QED
      BY <3>1, <3>2, <3>3, Zenon
  <2>5. ToLower(u) = <<a>> \o v
    BY <1>3, <2>2, <2>4
  <2>6. <<a>> \o v = IF x = Grows THEN <<a, b, <<x, 3>>>>
                     ELSE IF x = Shrinks THEN <<a>> ELSE <<a, b>>
    <3>1. /\ \A c, d \in Byte : <<c>> \o <<d>> = <<c, d>>
          /\ \A c, d, e \in Byte : <<c>> \o <<d, e>> = <<c, d, e>>
      BY Tuples, Zenon
    <3>2. a \in Byte /\ b \in Byte /\ <<x, 3>> \in Byte
      BY <1>1
    <3>3. <<a>> \o <<b, <<x, 3>>>> = <<a, b, <<x, 3>>>> /\ <<a>> \o <<b>> = <<a, b>>
      BY <3>1, <3>2, Zenon
    <3>4. <<a>> \o <<>> = <<a>>
      BY <2>3, ConcatEmptySeq
    <3> QED
      BY <3>3, <3>4
  <2>7. LowerUnit(x) = IF x = Grows THEN <<a, b, <<x, 3>>>>
                       ELSE IF x = Shrinks THEN <<a>> ELSE <<a, b>>
    BY <2>1, SymbolsDiffer DEF LowerUnit
  <2>8. x \in {Open, Close} => x # Grows /\ x # Shrinks
    BY SymbolsDiffer
  <2>9. ToLower(u) = LowerUnit(x)
    <3> HIDE DEF a, b, u, v
    <3> QED
      BY <2>5, <2>6, <2>7
  <2>10. CASE x = Grows
    <3>1. LowerUnit(x) = <<a, b, <<x, 3>>>>
      BY <2>7, <2>10
    <3> QED
      BY <1>1, <2>8, <2>9, <2>10, <3>1
  <2>11. CASE x = Shrinks
    <3>1. LowerUnit(x) = <<a>>
      BY <2>7, <2>11, SymbolsDiffer
    <3> QED
      BY <1>1, <2>8, <2>9, <2>11, <3>1
  <2>12. CASE x # Grows /\ x # Shrinks
    <3>1. LowerUnit(x) = <<a, b>>
      BY <2>7, <2>12
    <3> QED
      BY <1>1, <2>1, <2>9, <2>12, <3>1
  <2> QED
    BY <2>10, <2>11, <2>12
<1> QED
  BY <1>4, <1>5

\* The bytes of a title begin with a symbol's first.
LEMMA BytesBegin ==
    ASSUME NEW u \in Seq(Symbols)
    PROVE  Begins(Bytes(u))
<1>1. CASE u = <<>>
  BY <1>1, BytesConcat DEF Begins
<1>2. CASE u # <<>>
  <2> DEFINE y == u[1]
             z == SubSeq(u, 2, Len(u))
  <2>1. y \in Symbols /\ z \in Seq(Symbols) /\ u = <<y>> \o z /\ <<y>> \in Seq(Symbols)
    BY <1>2
  <2> HIDE DEF y, z
  <2>2. Bytes(u) = Unit(y) \o Bytes(z) /\ Bytes(z) \in Seq(Byte)
    BY <2>1, BytesConcat
  <2>3. Unit(y) \in Seq(Byte) /\ Len(Unit(y)) \in 1..2 /\ Unit(y)[1] = <<y, 1>>
    BY <2>1, UnitIs
  <2>4. (Unit(y) \o Bytes(z))[1] = Unit(y)[1]
    BY <2>2, <2>3
  <2>5. <<y, 1>> \notin TailBytes
    BY DEF TailBytes
  <2> QED
    BY <2>2, <2>3, <2>4, <2>5 DEF Begins
<1> QED
  BY <1>1, <1>2

\* The lower case of a title, symbol by symbol.
LEMMA LowerIs ==
    /\ Lower(<<>>) = <<>>
    /\ \A x \in Symbols : Lower(<<x>>) = LowerUnit(x)
    /\ \A u \in Seq(Symbols) : Lower(u) \in Seq(Byte)
    /\ \A u, v \in Seq(Symbols) : Lower(u \o v) = Lower(u) \o Lower(v)
<1>1. Lower(<<>>) = <<>>
  BY BytesConcat, LowerConcat DEF Lower
<1>2. \A x \in Symbols : Lower(<<x>>) = LowerUnit(x)
  BY BytesConcat, LowerUnitIs DEF Lower
<1>3. \A u \in Seq(Symbols) : Lower(u) \in Seq(Byte)
  BY BytesConcat, LowerConcat DEF Lower
<1>4. ASSUME NEW u \in Seq(Symbols), NEW v \in Seq(Symbols)
      PROVE  Lower(u \o v) = Lower(u) \o Lower(v)
  <2>1. Bytes(u \o v) = Bytes(u) \o Bytes(v) /\ Bytes(u) \in Seq(Byte) /\ Bytes(v) \in Seq(Byte)
    BY BytesConcat, Zenon
  <2>2. Begins(Bytes(v))
    BY BytesBegin
  <2>3. ToLower(Bytes(u) \o Bytes(v)) = ToLower(Bytes(u)) \o ToLower(Bytes(v))
    BY <2>1, <2>2, LowerConcat, Zenon
  <2> QED
    BY <2>1, <2>3, Zenon DEF Lower
<1> QED
  BY <1>1, <1>2, <1>3, <1>4

\* A title without letters that change their width has its bytes in lower case.
LEMMA LowerSame ==
    ASSUME NEW p \in Seq(Symbols \ {Grows, Shrinks})
    PROVE  Lower(p) = Bytes(p)
<1> DEFINE Kept == Symbols \ {Grows, Shrinks}
           Same == {n \in Nat : \A u \in Seq(Kept) : Len(u) = n => Lower(u) = Bytes(u)}
<1>1. \A n \in Nat : n \in Same
  <2>1. 0 \in Same
    <3> SUFFICES ASSUME NEW u \in Seq(Kept), Len(u) = 0
                 PROVE  Lower(u) = Bytes(u)
      OBVIOUS
    <3>1. u = <<>>
      OBVIOUS
    <3> QED
      BY <3>1, LowerIs, BytesConcat
  <2>2. ASSUME NEW n \in Nat \ {0}, n - 1 \in Same, NEW u \in Seq(Kept), Len(u) = n
        PROVE  Lower(u) = Bytes(u)
    <3>1. PICK v \in Seq(Kept), x \in Kept : u = Append(v, x)
      <4>1. u # <<>>
        BY <2>2
      <4> QED
        BY <4>1, SequenceEmptyOrAppend
    <3>2. Len(v) = n - 1 /\ u = v \o <<x>>
      BY <2>2, <3>1
    <3>3. Lower(v) = Bytes(v)
      BY <2>2, <3>2
    <3>4. v \in Seq(Symbols) /\ <<x>> \in Seq(Symbols) /\ x \in Symbols
      BY <3>1
    <3>5. Lower(u) = Lower(v) \o LowerUnit(x) /\ Bytes(u) = Bytes(v) \o Unit(x)
      <4>1. /\ Lower(v \o <<x>>) = Lower(v) \o Lower(<<x>>)
            /\ Lower(<<x>>) = LowerUnit(x)
        BY <3>4, LowerIs, Zenon
      <4>2. /\ Bytes(v \o <<x>>) = Bytes(v) \o Bytes(<<x>>)
            /\ Bytes(<<x>>) = Unit(x)
        BY <3>4, BytesConcat, Zenon
      <4> QED
        BY <3>2, <4>1, <4>2, Zenon
    <3>6. LowerUnit(x) = Unit(x)
      BY <3>1, LowerUnitIs
    <3> QED
      BY <3>3, <3>5, <3>6
  <2>3. \A n \in Nat \ {0} : n - 1 \in Same => n \in Same
    BY <2>2
  <2> HIDE DEF Same
  <2> QED
    BY <2>1, <2>3, NaturalSet
<1> QED
  BY <1>1

-----------------------------------------------------------------------------
(***************************************************************************)
(* Where the marker is in the bytes of a title.                            *)
(***************************************************************************)

\* The marker is four bytes, those of its halves.
LEMMA MarkerIs ==
    /\ marker = <<<<Open, 1>>, <<Open, 2>>, <<Close, 1>>, <<Close, 2>>>>
    /\ marker = Bytes(<<Open, Close>>) /\ marker = Lower(<<Open, Close>>)
    /\ marker \in Seq(Byte) /\ Len(marker) = 4
<1>1. Open \in Symbols /\ Close \in Symbols
  BY DEF Symbols
<1>2. <<Open>> \in Seq(Symbols) /\ <<Close>> \in Seq(Symbols)
      /\ <<Open, Close>> = <<Open>> \o <<Close>>
  <2>1. \A a, b \in Symbols : <<a>> \o <<b>> = <<a, b>>
    BY Tuples
  <2>2. <<Open, Close>> = <<Open>> \o <<Close>>
    BY <1>1, <2>1, Zenon
  <2> QED
    BY <1>1, <2>2
<1>3. Unit(Open) = <<<<Open, 1>>, <<Open, 2>>>> /\ Unit(Close) = <<<<Close, 1>>, <<Close, 2>>>>
  BY <1>1, UnitIs, SymbolsDiffer
<1>4. Bytes(<<Open, Close>>) = Unit(Open) \o Unit(Close)
  BY <1>1, <1>2, BytesConcat
<1>5. Lower(<<Open, Close>>) = LowerUnit(Open) \o LowerUnit(Close)
  BY <1>1, <1>2, LowerIs
<1>6. LowerUnit(Open) = Unit(Open) /\ LowerUnit(Close) = Unit(Close)
  BY <1>1, LowerUnitIs, SymbolsDiffer
<1>7. /\ <<Open, 1>> \in Byte /\ <<Open, 2>> \in Byte
      /\ <<Close, 1>> \in Byte /\ <<Close, 2>> \in Byte
  BY <1>1 DEF Byte
<1> DEFINE four == <<<<Open, 1>>, <<Open, 2>>, <<Close, 1>>, <<Close, 2>>>>
<1>8. four \in Seq(Byte) /\ Len(four) = 4
  BY <1>7, Tuples, Zenon
<1>9. Unit(Open) \o Unit(Close) = four
  <2>1. \A a, b, c, d \in Byte : <<a, b>> \o <<c, d>> = <<a, b, c, d>>
    <3> SUFFICES ASSUME NEW a \in Byte, NEW b \in Byte, NEW c \in Byte, NEW d \in Byte
                 PROVE  <<a, b>> \o <<c, d>> = <<a, b, c, d>>
      OBVIOUS
    <3> QED
      BY Tuples, SMT
  <2>2. <<<<Open, 1>>, <<Open, 2>>>> \o <<<<Close, 1>>, <<Close, 2>>>> = four
    <3> DEFINE a == <<Open, 1>>
               b == <<Open, 2>>
               c == <<Close, 1>>
               d == <<Close, 2>>
    <3>1. a \in Byte /\ b \in Byte /\ c \in Byte /\ d \in Byte /\ four = <<a, b, c, d>>
      BY <1>7
    <3> HIDE DEF a, b, c, d, four
    <3>2. <<a, b>> \o <<c, d>> = four
      BY <2>1, <3>1
    <3> QED
      BY <3>2 DEF a, b, c, d
  <2> QED
    BY <1>3, <2>2, Zenon
<1> HIDE DEF four
<1>10. marker = four /\ marker = Bytes(<<Open, Close>>) /\ marker = Lower(<<Open, Close>>)
  BY <1>4, <1>5, <1>6, <1>9 DEF marker
<1> QED
  BY <1>8, <1>10 DEF four

Starts(text) ==
    {i \in 0..Len(text) - Len(marker) :
        SubSeq(text, i + 1, i + Len(marker)) = marker}

\* The marker starts after i bytes if the next four are its bytes.
LEMMA StartsIs ==
    ASSUME NEW text \in Seq(Byte), NEW i
    PROVE  i \in Starts(text) <=>
              /\ i \in Nat /\ i + 4 <= Len(text)
              /\ text[i + 1] = <<Open, 1>> /\ text[i + 2] = <<Open, 2>>
              /\ text[i + 3] = <<Close, 1>> /\ text[i + 4] = <<Close, 2>>
<1>1. i \in Starts(text) <=>
          /\ i \in Nat /\ i + 4 <= Len(text)
          /\ SubSeq(text, i + 1, i + 4) = marker
  <2>1. Len(marker) = 4 /\ Len(text) \in Nat
    BY MarkerIs
  <2>2. i \in Starts(text) <=>
            i \in 0..Len(text) - 4 /\ SubSeq(text, i + 1, i + 4) = marker
    BY <2>1 DEF Starts
  <2>3. i \in 0..Len(text) - 4 <=> i \in Nat /\ i + 4 <= Len(text)
    BY <2>1
  <2> QED
    BY <2>2, <2>3
<1>2. ASSUME i \in Nat, i + 4 <= Len(text)
      PROVE  SubSeq(text, i + 1, i + 4) = <<text[i + 1], text[i + 2], text[i + 3], text[i + 4]>>
  BY <1>2, FourOf
<1>3. ASSUME NEW a, NEW b, NEW c, NEW d
      PROVE  <<a, b, c, d>> = marker <=>
          a = <<Open, 1>> /\ b = <<Open, 2>> /\ c = <<Close, 1>> /\ d = <<Close, 2>>
  BY MarkerIs
<1>4. CASE i \in Nat /\ i + 4 <= Len(text)
  <2> DEFINE a == text[i + 1]
             b == text[i + 2]
             c == text[i + 3]
             d == text[i + 4]
  <2>1. SubSeq(text, i + 1, i + 4) = <<a, b, c, d>>
    BY <1>2, <1>4
  <2>2. i \in Starts(text) <=> SubSeq(text, i + 1, i + 4) = marker
    BY <1>1, <1>4
  <2> HIDE DEF a, b, c, d
  <2>3. <<a, b, c, d>> = marker <=>
            a = <<Open, 1>> /\ b = <<Open, 2>> /\ c = <<Close, 1>> /\ d = <<Close, 2>>
    BY <1>3
  <2>4. i \in Starts(text) <=>
            a = <<Open, 1>> /\ b = <<Open, 2>> /\ c = <<Close, 1>> /\ d = <<Close, 2>>
    BY <2>1, <2>2, <2>3, Zenon
  <2> QED
    BY <1>4, <2>4 DEF a, b, c, d
<1>5. CASE ~(i \in Nat /\ i + 4 <= Len(text))
  BY <1>1, <1>5
<1> QED
  BY <1>4, <1>5

\* Index returns the least start, or -1.
LEMMA IndexIs ==
    ASSUME NEW text \in Seq(Byte)
    PROVE  IF Starts(text) = {} THEN Index(text) = -1
           ELSE Index(text) \in Starts(text) /\ \A i \in Starts(text) : Index(text) <= i
<1>1. Starts(text) \subseteq Nat
  BY StartsIs
<1>2. Starts(text) # {} => \E i \in Starts(text) : \A j \in Starts(text) : i <= j
  BY <1>1, LeastNatural
<1>3. Index(text) = IF Starts(text) = {} THEN -1
                    ELSE CHOOSE i \in Starts(text) : \A j \in Starts(text) : i <= j
  BY DEF Index, Starts
<1> HIDE DEF Starts
<1> QED
  BY <1>2, <1>3

\* A symbol more may end a marker; it starts where the symbol before it does.
LEMMA StartsAppend ==
    ASSUME NEW v \in Seq(Symbols), NEW x \in Symbols
    PROVE  Starts(Lower(Append(v, x))) =
              Starts(Lower(v)) \cup
              (IF x = Close /\ v # <<>> /\ v[Len(v)] = Open
               THEN {Len(Lower(SubSeq(v, 1, Len(v) - 1)))} ELSE {})
<1> DEFINE X == Lower(v)
           Y == LowerUnit(x)
           text == Lower(Append(v, x))
           w == SubSeq(v, 1, Len(v) - 1)
           ends == x = Close /\ v # <<>> /\ v[Len(v)] = Open
<1>1. /\ X \in Seq(Byte) /\ Y \in Seq(Byte) /\ Len(Y) \in 1..3
      /\ \A k \in 1..Len(Y) : Y[k] = <<x, k>>
      /\ x = Close => Len(Y) = 2
  <2>1. x = Close => LowerUnit(x) = <<<<x, 1>>, <<x, 2>>>>
    BY LowerUnitIs
  <2> QED
    BY <2>1, LowerIs, LowerUnitIs
<1>2. text = X \o Y
  <2>1. Append(v, x) = v \o <<x>> /\ <<x>> \in Seq(Symbols)
    OBVIOUS
  <2> QED
    BY <2>1, LowerIs
<1>3. /\ text \in Seq(Byte) /\ Len(text) = Len(X) + Len(Y)
      /\ \A i \in 1..Len(X) : text[i] = X[i]
      /\ \A k \in 1..Len(Y) : text[Len(X) + k] = <<x, k>>
      /\ Len(X) \in Nat /\ Len(Y) \in Nat
  <2> HIDE DEF X, Y, text
  <2>1. /\ text \in Seq(Byte) /\ Len(text) = Len(X) + Len(Y)
        /\ \A i \in 1..Len(X) + Len(Y) :
              text[i] = IF i <= Len(X) THEN X[i] ELSE Y[i - Len(X)]
    BY <1>1, <1>2, ConcatProperties
  <2>2. Len(X) \in Nat /\ Len(Y) \in Nat
    BY <1>1
  <2>3. ASSUME NEW k \in 1..Len(Y)
        PROVE  text[Len(X) + k] = <<x, k>>
    <3>1. Len(X) + k \in 1..Len(X) + Len(Y) /\ ~(Len(X) + k <= Len(X))
          /\ Len(X) + k - Len(X) = k
      BY <2>2
    <3>2. text[Len(X) + k] = Y[Len(X) + k - Len(X)]
      BY <2>1, <3>1
    <3>3. Y[k] = <<x, k>>
      BY <1>1
    <3> QED
      BY <3>1, <3>2, <3>3, Zenon
  <2> QED
    BY <2>1, <2>2, <2>3

\* What is before the last symbol of v.
<1>4. ASSUME v # <<>>
      PROVE  /\ w \in Seq(Symbols) /\ v[Len(v)] \in Symbols
             /\ X = Lower(w) \o LowerUnit(v[Len(v)])
             /\ Len(X) = Len(Lower(w)) + Len(LowerUnit(v[Len(v)]))
             /\ X[Len(X)] = <<v[Len(v)], Len(LowerUnit(v[Len(v)]))>>
  <2>1. /\ w \in Seq(Symbols) /\ v[Len(v)] \in Symbols /\ <<v[Len(v)]>> \in Seq(Symbols)
        /\ v = w \o <<v[Len(v)]>>
    BY <1>4
  <2> DEFINE y == v[Len(v)]
  <2> HIDE DEF w, y
  <2>2. X = Lower(w) \o LowerUnit(y)
    BY <2>1, LowerIs DEF y
  <2>3. /\ Lower(w) \in Seq(Byte) /\ LowerUnit(y) \in Seq(Byte)
        /\ Len(LowerUnit(y)) \in 1..3
        /\ LowerUnit(y)[Len(LowerUnit(y))] = <<y, Len(LowerUnit(y))>>
    <3>1. y \in Symbols /\ w \in Seq(Symbols)
      BY <2>1 DEF y
    <3>2. /\ LowerUnit(y) \in Seq(Byte) /\ Len(LowerUnit(y)) \in 1..3
          /\ \A k \in 1..Len(LowerUnit(y)) : LowerUnit(y)[k] = <<y, k>>
      BY <3>1, LowerUnitIs
    <3>3. Len(LowerUnit(y)) \in 1..Len(LowerUnit(y))
      <4>1. \A n \in 1..3 : n \in 1..n
        OBVIOUS
      <4> QED
        BY <3>2, <4>1, Zenon
    <3>4. Lower(w) \in Seq(Byte)
      BY <3>1, LowerIs
    <3> QED
      BY <3>2, <3>3, <3>4
  <2>4. /\ Len(X) = Len(Lower(w)) + Len(LowerUnit(y))
        /\ X[Len(X)] = LowerUnit(y)[Len(LowerUnit(y))]
    <3> DEFINE A == Lower(w)
               B == LowerUnit(y)
    <3>1. A \in Seq(Byte) /\ B \in Seq(Byte) /\ Len(B) \in 1..3 /\ X = A \o B
      BY <2>2, <2>3
    <3> HIDE DEF A, B, X
    <3>2. Len(X) = Len(A) + Len(B) /\ X[Len(X)] = B[Len(B)]
      <4>1. Len(B) # 0
        <5>1. \A n \in 1..3 : n # 0
          OBVIOUS
        <5> QED
          BY <3>1, <5>1, Zenon
      <4>2. Len(A \o B) = Len(A) + Len(B) /\ (A \o B)[Len(A \o B)] = B[Len(B)]
        BY <3>1, <4>1, Joined, Zenon
      <4> QED
        BY <3>1, <4>2, Zenon
    <3> QED
      BY <3>2 DEF A, B
  <2> QED
    BY <2>1, <2>2, <2>3, <2>4 DEF y
<1> HIDE DEF X, Y, text, w
<1>5. ASSUME NEW i \in Starts(X)
      PROVE  i \in Starts(text)
  <2>1. /\ i \in Nat /\ i + 4 <= Len(X)
        /\ X[i + 1] = <<Open, 1>> /\ X[i + 2] = <<Open, 2>>
        /\ X[i + 3] = <<Close, 1>> /\ X[i + 4] = <<Close, 2>>
    BY <1>1, StartsIs
  <2>2. /\ i + 1 \in 1..Len(X) /\ i + 2 \in 1..Len(X)
        /\ i + 3 \in 1..Len(X) /\ i + 4 \in 1..Len(X) /\ i + 4 <= Len(text)
    BY <1>3, <2>1
  <2>3. /\ text[i + 1] = X[i + 1] /\ text[i + 2] = X[i + 2]
        /\ text[i + 3] = X[i + 3] /\ text[i + 4] = X[i + 4]
    BY <1>3, <2>2
  <2> QED
    BY <1>3, <2>1, <2>2, <2>3, StartsIs
<1>6. ASSUME ends
      PROVE  Len(Lower(w)) \in Starts(text)
  <2>1. /\ X = Lower(w) \o LowerUnit(Open) /\ Lower(w) \in Seq(Byte) /\ Open \in Symbols
    BY <1>4, <1>6, LowerIs
  <2>2. LowerUnit(Open) = <<<<Open, 1>>, <<Open, 2>>>> /\ LowerUnit(Open) \in Seq(Byte)
    BY <2>1, LowerUnitIs
  <2> DEFINE n == Len(Lower(w))
             A == Lower(w)
             B == LowerUnit(Open)
  <2>3. /\ n \in Nat /\ Len(X) = n + 2
        /\ X[n + 1] = <<Open, 1>> /\ X[n + 2] = <<Open, 2>>
    <3>1. /\ A \in Seq(Byte) /\ B \in Seq(Byte) /\ X = A \o B /\ Len(B) = 2
          /\ B[1] = <<Open, 1>> /\ B[2] = <<Open, 2>>
      BY <2>1, <2>2
    <3> HIDE DEF A, B
    <3>2. /\ Len(A) \in Nat /\ Len(X) = Len(A) + 2
          /\ X[Len(A) + 1] = B[1] /\ X[Len(A) + 2] = B[2]
      <4>1. A \in Seq(Byte) /\ B \in Seq(Byte) /\ Len(B) = 2 /\ X = A \o B
        BY <3>1
      <4>2. Len(A) \in Nat /\ Len(A \o B) = Len(A) + Len(B)
        BY <4>1, Joined, Zenon
      <4>3. (A \o B)[Len(A) + 1] = B[1] /\ (A \o B)[Len(A) + 2] = B[2]
        BY <4>1, Joined, Zenon
      <4> QED
        BY <4>1, <4>2, <4>3, Zenon
    <3> QED
      BY <3>1, <3>2 DEF A
  <2> HIDE DEF n
  <2>4. /\ text[n + 1] = X[n + 1] /\ text[n + 2] = X[n + 2]
    BY <1>3, <2>3
  <2>5. /\ text[n + 3] = <<Close, 1>> /\ text[n + 4] = <<Close, 2>>
        /\ n + 4 <= Len(text)
    <3>1. Len(Y) = 2 /\ Len(X) + 1 = n + 3 /\ Len(X) + 2 = n + 4 /\ Len(text) = n + 4
      <4>1. Len(Y) = 2
        BY <1>1, <1>6
      <4> QED
        BY <1>3, <2>3, <4>1
    <3>2. text[Len(X) + 1] = <<x, 1>> /\ text[Len(X) + 2] = <<x, 2>>
      BY <1>3, <3>1
    <3> QED
      BY <1>6, <2>3, <3>1, <3>2
  <2> QED
    BY <1>3, <2>3, <2>4, <2>5, StartsIs DEF n
<1>7. ASSUME NEW i \in Starts(text), i \notin Starts(X)
      PROVE  ends /\ i = Len(Lower(w))
  <2>1. /\ i \in Nat /\ i + 4 <= Len(text)
        /\ text[i + 1] = <<Open, 1>> /\ text[i + 2] = <<Open, 2>>
        /\ text[i + 3] = <<Close, 1>> /\ text[i + 4] = <<Close, 2>>
    BY <1>3, StartsIs
  <2>2. ~(i + 4 <= Len(X))
    <3> SUFFICES ASSUME i + 4 <= Len(X) PROVE FALSE
      OBVIOUS
    <3>1. /\ text[i + 1] = X[i + 1] /\ text[i + 2] = X[i + 2]
          /\ text[i + 3] = X[i + 3] /\ text[i + 4] = X[i + 4]
      <4>1. /\ i + 1 \in 1..Len(X) /\ i + 2 \in 1..Len(X)
            /\ i + 3 \in 1..Len(X) /\ i + 4 \in 1..Len(X)
        <5>1. Len(X) \in Nat /\ i \in Nat
          BY <1>3, <2>1
        <5> QED
          BY <5>1
      <4> QED
        BY <1>3, <4>1
    <3> QED
      BY <1>1, <1>7, <2>1, <3>1, StartsIs
  <2> DEFINE k == i + 4 - Len(X)
  <2>3. k \in 1..Len(Y) /\ i + 4 = Len(X) + k
    BY <1>3, <2>1, <2>2
  <2>4. <<x, k>> = <<Close, 2>>
    BY <1>3, <2>1, <2>3
  <2>5. x = Close /\ k = 2
    BY <2>4
  <2>6. i + 2 = Len(X) /\ i + 2 \in 1..Len(X)
    BY <1>3, <2>1, <2>3, <2>5
  <2>7. X[Len(X)] = <<Open, 2>>
    BY <1>3, <2>1, <2>6
  <2>8. v # <<>>
    <3>1. Lower(<<>>) = <<>> /\ Len(<<>>) = 0
      BY LowerIs
    <3> QED
      BY <2>1, <2>6, <3>1 DEF X
  <2>9. v[Len(v)] = Open /\ Len(LowerUnit(v[Len(v)])) = 2
    BY <1>4, <2>7, <2>8
  <2>10. Len(Lower(w)) \in Nat
    BY <1>4, <2>8, LowerIs
  <2>11. Len(X) = Len(Lower(w)) + 2
    BY <1>4, <2>8, <2>9
  <2> QED
    BY <2>1, <2>5, <2>6, <2>8, <2>9, <2>10, <2>11
<1> DEFINE more == IF ends THEN {Len(Lower(w))} ELSE {}
<1>8. Starts(text) = Starts(X) \cup more
  BY <1>5, <1>6, <1>7
<1> QED
  BY <1>8 DEF text, X, w

\* The same of the markers of a title.
LEMMA MarkersAppend ==
    ASSUME NEW v \in Seq(Symbols), NEW x \in Symbols
    PROVE  Markers(Append(v, x)) =
              Markers(v) \cup
              (IF x = Close /\ v # <<>> /\ v[Len(v)] = Open THEN {Len(v)} ELSE {})
<1> DEFINE u == Append(v, x)
<1>1. /\ Len(u) = Len(v) + 1 /\ Len(v) \in Nat /\ u[Len(v) + 1] = x
      /\ \A i \in 1..Len(v) : u[i] = v[i]
      /\ v # <<>> <=> Len(v) # 0
  OBVIOUS
<1> HIDE DEF u
<1>2. ASSUME NEW i \in 1..Len(v) - 1
      PROVE  i \in Markers(u) <=> i \in Markers(v)
  BY <1>1 DEF Markers
<1>3. Len(v) # 0 => (Len(v) \in Markers(u) <=> v[Len(v)] = Open /\ x = Close)
  BY <1>1 DEF Markers
<1>4. Markers(u) \subseteq 1..Len(v) /\ Markers(v) \subseteq 1..Len(v) - 1
  BY <1>1 DEF Markers
<1>5. 0 \notin Markers(u)
  BY DEF Markers
<1> QED
  BY <1>1, <1>2, <1>3, <1>4, <1>5 DEF u

\* The markers in the lower-cased bytes of a title are those of the title.
LEMMA StartsAre ==
    ASSUME NEW u \in Seq(Symbols)
    PROVE  Starts(Lower(u)) = {Len(Lower(SubSeq(u, 1, i - 1))) : i \in Markers(u)}
<1> DEFINE Places(t) == {Len(Lower(SubSeq(t, 1, i - 1))) : i \in Markers(t)}
           Agree == {n \in Nat : \A t \in Seq(Symbols) :
                        Len(t) = n => Starts(Lower(t)) = Places(t)}
<1>1. \A n \in Nat : n \in Agree
  <2>1. 0 \in Agree
    <3> SUFFICES ASSUME NEW t \in Seq(Symbols), Len(t) = 0
                 PROVE  Starts(Lower(t)) = Places(t)
      OBVIOUS
    <3>1. Markers(t) = {}
      BY DEF Markers
    <3>2. Lower(t) = <<>> /\ <<>> \in Seq(Byte) /\ Len(<<>>) = 0
      BY LowerIs, t = <<>>
    <3>3. Starts(<<>>) = {}
      <4>1. ASSUME NEW i \in Starts(<<>>)
            PROVE  FALSE
        <5>1. i \in Nat /\ i + 4 <= Len(<<>>)
          BY <3>2, StartsIs
        <5> QED
          BY <3>2, <5>1
      <4> QED
        BY <4>1
    <3> QED
      BY <3>1, <3>2, <3>3
  <2>2. ASSUME NEW n \in Nat \ {0}, n - 1 \in Agree, NEW t \in Seq(Symbols), Len(t) = n
        PROVE  Starts(Lower(t)) = Places(t)
    <3>1. PICK v \in Seq(Symbols), x \in Symbols : t = Append(v, x)
      <4>1. t # <<>>
        BY <2>2
      <4> QED
        BY <4>1, SequenceEmptyOrAppend
    <3>2. Len(v) = n - 1 /\ Len(v) \in Nat
      BY <2>2, <3>1
    <3>3. Starts(Lower(v)) = Places(v)
      <4> HIDE DEF Places
      <4> QED
        BY <2>2, <3>2
    <3> DEFINE ends == x = Close /\ v # <<>> /\ v[Len(v)] = Open
    <3>4. Markers(t) = Markers(v) \cup (IF ends THEN {Len(v)} ELSE {})
      BY <3>1, MarkersAppend
    <3>5. Starts(Lower(t)) = Starts(Lower(v)) \cup
             (IF ends THEN {Len(Lower(SubSeq(v, 1, Len(v) - 1)))} ELSE {})
      BY <3>1, StartsAppend
    <3>6. ASSUME NEW i \in 1..Len(v)
          PROVE  SubSeq(t, 1, i - 1) = SubSeq(v, 1, i - 1)
      BY <3>1
    <3>7. Markers(v) \subseteq 1..Len(v) /\ (ends => Len(v) \in 1..Len(v))
      BY <3>2 DEF Markers
    <3>8. Places(t) = Places(v) \cup
             (IF ends THEN {Len(Lower(SubSeq(v, 1, Len(v) - 1)))} ELSE {})
      <4>1. \A i \in Markers(t) :
               Len(Lower(SubSeq(t, 1, i - 1))) = Len(Lower(SubSeq(v, 1, i - 1)))
        BY <3>4, <3>6, <3>7
      <4>2. Places(t) = {Len(Lower(SubSeq(v, 1, i - 1))) : i \in Markers(t)}
        BY <4>1
      <4> DEFINE F(i) == Len(Lower(SubSeq(v, 1, i - 1)))
                 M == Markers(v)
      <4> HIDE DEF ends, F
      <4>3. {F(i) : i \in M \cup (IF ends THEN {Len(v)} ELSE {})}
            = {F(i) : i \in M} \cup (IF ends THEN {F(Len(v))} ELSE {})
        <5> HIDE DEF M
        <5> QED
          OBVIOUS
      <4> QED
        BY <3>4, <4>2, <4>3 DEF F
    <3> QED
      BY <3>3, <3>5, <3>8
  <2>3. \A n \in Nat \ {0} : n - 1 \in Agree => n \in Agree
    BY <2>2
  <2> HIDE DEF Agree
  <2> QED
    BY <2>1, <2>3, NaturalSet
<1>2. Len(u) \in Nat
  OBVIOUS
<1> HIDE DEF Places
<1>3. Starts(Lower(u)) = Places(u)
  BY <1>1, <1>2
<1> QED
  BY <1>3 DEF Places

\* Index finds the first marker of a title, if there is one.
LEMMA IndexLower ==
    ASSUME NEW u \in Seq(Symbols)
    PROVE  /\ Index(Lower(u)) \in Int
           /\ Markers(u) = {} => Index(Lower(u)) = -1
           /\ \A i \in Markers(u) : (\A j \in Markers(u) : i <= j) =>
                 Index(Lower(u)) = Len(Lower(SubSeq(u, 1, i - 1)))
<1> DEFINE place(i) == Len(Lower(SubSeq(u, 1, i - 1)))
<1>1. Lower(u) \in Seq(Byte)
  BY LowerIs
<1>2. Starts(Lower(u)) = {place(i) : i \in Markers(u)}
  BY StartsAre
<1>3. IF Starts(Lower(u)) = {} THEN Index(Lower(u)) = -1
      ELSE /\ Index(Lower(u)) \in Starts(Lower(u))
           /\ \A k \in Starts(Lower(u)) : Index(Lower(u)) <= k
  BY <1>1, IndexIs
<1>4. Starts(Lower(u)) \subseteq Nat
  BY <1>1, StartsIs
<1>5. ASSUME NEW i \in Markers(u), NEW j \in Markers(u), i <= j
      PROVE  place(i) \in Nat /\ place(j) \in Nat /\ place(i) <= place(j)
  <2>1. i \in 1..Len(u) /\ j \in 1..Len(u) /\ Len(u) \in Nat
    BY DEF Markers
  <2> DEFINE a == SubSeq(u, 1, i - 1)
             b == SubSeq(u, i, j - 1)
             c == SubSeq(u, 1, j - 1)
  <2>2. a \in Seq(Symbols) /\ b \in Seq(Symbols) /\ c = a \o b
    BY <1>5, <2>1
  <2> HIDE DEF a, b, c
  <2>3. Lower(a) \in Seq(Byte) /\ Lower(b) \in Seq(Byte) /\ Lower(c) = Lower(a) \o Lower(b)
    BY <2>2, LowerIs
  <2>4. Len(Lower(a)) \in Nat /\ Len(Lower(c)) \in Nat /\ Len(Lower(a)) <= Len(Lower(c))
    <3> DEFINE A == Lower(a)
               B == Lower(b)
    <3> HIDE DEF A, B
    <3>1. A \in Seq(Byte) /\ B \in Seq(Byte)
      BY <2>3 DEF A, B
    <3>2. Len(A) \in Nat /\ Len(A \o B) \in Nat /\ Len(A) <= Len(A \o B)
      BY <3>1
    <3> QED
      BY <2>3, <3>2 DEF A, B
  <2> QED
    BY <2>4 DEF a, c
<1> HIDE DEF place
<1>6. ASSUME NEW i \in Markers(u), \A j \in Markers(u) : i <= j
      PROVE  Index(Lower(u)) = place(i)
  <2>1. place(i) \in Starts(Lower(u))
    BY <1>2
  <2>2. PICK j \in Markers(u) : Index(Lower(u)) = place(j)
    BY <1>2, <1>3, <2>1
  <2>3. place(j) <= place(i)
    BY <1>3, <2>1, <2>2
  <2>4. place(i) \in Nat /\ place(j) \in Nat /\ place(i) <= place(j)
    BY <1>5, <1>6
  <2> QED
    BY <2>2, <2>3, <2>4
<1>7. Markers(u) = {} => Index(Lower(u)) = -1
  BY <1>2, <1>3
<1>8. Index(Lower(u)) \in Int
  BY <1>3, <1>4
<1> QED
  BY <1>6, <1>7, <1>8 DEF place

-----------------------------------------------------------------------------
(***************************************************************************)
(* One turn of DisplayName's loop on a title whose letters keep their      *)
(* width in front of its markers.                                          *)
(***************************************************************************)

\* The markers behind a marker, in what is left when it is cut out.
LEMMA MarkersBehind ==
    ASSUME NEW u \in Seq(Symbols), NEW i \in Markers(u)
    PROVE  LET q == SubSeq(u, i + 2, Len(u))
           IN  /\ i \in Nat /\ i >= 1 /\ i + 1 <= Len(u) /\ Len(u) \in Nat
               /\ q \in Seq(Symbols) /\ Len(q) = Len(u) - (i + 1)
               /\ \A k \in 1..Len(q) : q[k] = u[k + (i + 1)]
               /\ \A k \in Nat : k >= 1 => (k \in Markers(q) <=> k + (i + 1) \in Markers(u))
               /\ 0 \notin Markers(q) /\ i + 1 \notin Markers(u)
<1> DEFINE q == SubSeq(u, i + 2, Len(u))
<1>1. /\ i \in Nat /\ i >= 1 /\ i + 1 <= Len(u) /\ Len(u) \in Nat
      /\ u[i] = Open /\ u[i + 1] = Close
  BY DEF Markers
<1>2. /\ q \in Seq(Symbols) /\ Len(q) = Len(u) - (i + 1)
      /\ \A k \in 1..Len(q) : q[k] = u[k + (i + 1)]
  BY <1>1
<1> HIDE DEF q
<1>3. ASSUME NEW k \in Nat, k >= 1
      PROVE  k \in Markers(q) <=> k + (i + 1) \in Markers(u)
  <2>1. k \in 1..Len(q) - 1 <=> k + (i + 1) \in 1..Len(u) - 1
    BY <1>1, <1>2, <1>3
  <2>2. k \in 1..Len(q) - 1 => q[k] = u[k + (i + 1)] /\ q[k + 1] = u[k + (i + 1) + 1]
    <3> SUFFICES ASSUME k \in 1..Len(q) - 1
                 PROVE  q[k] = u[k + (i + 1)] /\ q[k + 1] = u[k + (i + 1) + 1]
      OBVIOUS
    <3>1. k \in 1..Len(q) /\ k + 1 \in 1..Len(q) /\ k + 1 + (i + 1) = k + (i + 1) + 1
      BY <1>1, <1>2
    <3> QED
      BY <1>2, <3>1
  <2> QED
    BY <2>1, <2>2 DEF Markers
<1>4. 0 \notin Markers(q) /\ i + 1 \notin Markers(u)
  BY <1>1, SymbolsDiffer DEF Markers
<1> QED
  BY <1>1, <1>2, <1>3, <1>4 DEF q

\* Of the part in front of the first marker nothing is taken out.
LEMMA StrippedSplits ==
    ASSUME NEW u \in Seq(Symbols), NEW i \in Markers(u), \A j \in Markers(u) : i <= j
    PROVE  Stripped(u) = SubSeq(u, 1, i - 1) \o Stripped(SubSeq(u, i + 2, Len(u)))
<1> DEFINE p == SubSeq(u, 1, i - 1)
           q == SubSeq(u, i + 2, Len(u))
           Each(t) == [k \in DOMAIN t |->
                          IF {k - 1, k} \cap Markers(t) = {} THEN <<t[k]>> ELSE <<>>]
           Pieces == [k \in DOMAIN p |-> <<p[k]>>]
<1>1. /\ i \in Nat /\ i >= 1 /\ i + 1 <= Len(u) /\ Len(u) \in Nat
      /\ q \in Seq(Symbols) /\ Len(q) = Len(u) - (i + 1)
      /\ \A k \in 1..Len(q) : q[k] = u[k + (i + 1)]
      /\ \A k \in Nat : k >= 1 => (k \in Markers(q) <=> k + (i + 1) \in Markers(u))
      /\ 0 \notin Markers(q) /\ i + 1 \notin Markers(u)
  BY MarkersBehind
<1>2. /\ p \in Seq(Symbols) /\ Len(p) = i - 1
      /\ \A k \in 1..i - 1 : p[k] = u[k]
  <2> DEFINE m == i - 1
  <2>1. m \in 0..Len(u)
    BY <1>1
  <2>2. \A n \in 0..Len(u) :
           /\ SubSeq(u, 1, n) \in Seq(Symbols) /\ Len(SubSeq(u, 1, n)) = n
           /\ \A k \in 1..n : SubSeq(u, 1, n)[k] = u[k]
    OBVIOUS
  <2> HIDE DEF m
  <2>3. /\ SubSeq(u, 1, m) \in Seq(Symbols) /\ Len(SubSeq(u, 1, m)) = m
        /\ \A k \in 1..m : SubSeq(u, 1, m)[k] = u[k]
    BY <2>1, <2>2
  <2> QED
    BY <2>3 DEF m
<1>3. ASSUME NEW t \in Seq(Symbols)
      PROVE  /\ Each(t) \in Seq(Seq(Symbols)) /\ Len(Each(t)) = Len(t)
             /\ \A k \in 1..Len(t) : Each(t)[k] =
                   IF {k - 1, k} \cap Markers(t) = {} THEN <<t[k]>> ELSE <<>>
  <2>1. Each(t) \in [1..Len(t) -> Seq(Symbols)]
    OBVIOUS
  <2>2. Len(t) \in Nat
    OBVIOUS
  <2>3. Each(t) \in Seq(Seq(Symbols))
    <3> HIDE DEF Each
    <3> QED
      BY <2>1, <2>2, IsSequence
  <2> QED
    BY <2>3
<1>4. Pieces \in Seq(Seq(Symbols)) /\ Len(Pieces) = i - 1
      /\ \A k \in 1..i - 1 : Pieces[k] = <<p[k]>>
  <2>1. Pieces \in [1..Len(p) -> Seq(Symbols)]
    BY <1>2
  <2>2. Len(p) \in Nat
    BY <1>2
  <2>3. Pieces \in Seq(Seq(Symbols))
    <3> HIDE DEF Pieces
    <3> QED
      BY <2>1, <2>2, IsSequence
  <2>4. DOMAIN p = 1..i - 1
    BY <1>2
  <2>5. Len(Pieces) = i - 1
    BY <1>1, <2>3, <2>4
  <2> QED
    BY <2>3, <2>4, <2>5
<1>5. Stripped(u) = FlattenSeq(Each(u)) /\ Stripped(q) = FlattenSeq(Each(q))
  BY DEF Stripped
<1>6. FlattenSeq(Pieces) = p
  BY <1>2, FlattenPieces
<1> HIDE DEF Each, Pieces, p, q
<1> DEFINE none == <<<<>>, <<>>>>
<1>7. /\ none \in Seq(Seq(Symbols)) /\ Len(none) = 2
      /\ none[1] = <<>> /\ none[2] = <<>>
  <2>1. <<>> \in Seq(Symbols)
    OBVIOUS
  <2> QED
    BY <2>1
<1>8. FlattenSeq(none) = <<>>
  <2>1. <<>> \in Seq(Symbols) /\ <<<<>>>> \in Seq(Seq(Symbols))
    OBVIOUS
  <2>2. \A a, b \in Seq(Symbols) : <<a>> \o <<b>> = <<a, b>>
    BY Tuples
  <2>3. none = <<<<>>>> \o <<<<>>>>
    BY <2>1, <2>2, Zenon
  <2>4. FlattenSeq(<<<<>>>>) = <<>>
    BY <2>1, FlattenConcat
  <2>5. FlattenSeq(<<<<>>>> \o <<<<>>>>) = FlattenSeq(<<<<>>>>) \o FlattenSeq(<<<<>>>>)
    BY <2>1, FlattenConcat
  <2>6. <<>> \o <<>> = <<>>
    BY <2>1, ConcatEmptySeq
  <2> HIDE DEF none
  <2> QED
    BY <2>3, <2>4, <2>5, <2>6
<1> HIDE DEF none
<1> DEFINE front == Pieces \o none
           whole == front \o Each(q)
<1>9. /\ front \in Seq(Seq(Symbols)) /\ Len(front) = i + 1
      /\ \A k \in 1..i - 1 : front[k] = <<p[k]>>
      /\ front[i] = <<>> /\ front[i + 1] = <<>>
  <2>1. /\ front \in Seq(Seq(Symbols)) /\ Len(front) = i - 1 + 2
        /\ \A k \in 1..(i - 1) + 2 :
              front[k] = IF k <= i - 1 THEN Pieces[k] ELSE none[k - (i - 1)]
    <3>1. /\ front \in Seq(Seq(Symbols)) /\ Len(front) = Len(Pieces) + Len(none)
          /\ \A k \in 1..Len(Pieces) + Len(none) :
                front[k] = IF k <= Len(Pieces) THEN Pieces[k] ELSE none[k - Len(Pieces)]
      BY <1>4, <1>7, ConcatProperties, Zenon
    <3> HIDE DEF front
    <3> QED
      BY <1>4, <1>7, <3>1
  <2> HIDE DEF front
  <2>2. i - 1 + 2 = i + 1 /\ i - (i - 1) = 1 /\ i + 1 - (i - 1) = 2
        /\ i \in 1..(i - 1) + 2 /\ i + 1 \in 1..(i - 1) + 2
        /\ ~(i <= i - 1) /\ ~(i + 1 <= i - 1)
    BY <1>1
  <2>3. \A k \in 1..i - 1 : k \in 1..(i - 1) + 2 /\ k <= i - 1
    BY <1>1
  <2>4. front[i] = none[1] /\ front[i + 1] = none[2]
    BY <2>1, <2>2
  <2>5. \A k \in 1..i - 1 : front[k] = Pieces[k]
    BY <2>1, <2>3
  <2> QED
    BY <1>4, <1>7, <2>1, <2>2, <2>4, <2>5
<1> HIDE DEF front
<1>10. /\ whole \in Seq(Seq(Symbols)) /\ Len(whole) = Len(u)
       /\ \A k \in 1..Len(u) : whole[k] =
             IF k <= i + 1 THEN front[k] ELSE Each(q)[k - (i + 1)]
  <2>1. Each(q) \in Seq(Seq(Symbols)) /\ Len(Each(q)) = Len(u) - (i + 1)
    BY <1>1, <1>3
  <2>2. /\ whole \in Seq(Seq(Symbols)) /\ Len(whole) = Len(front) + Len(Each(q))
        /\ \A k \in 1..Len(front) + Len(Each(q)) : whole[k] =
              IF k <= Len(front) THEN front[k] ELSE Each(q)[k - Len(front)]
    BY <1>9, <2>1, ConcatProperties
  <2>3. Len(front) + Len(Each(q)) = Len(u)
    BY <1>1, <1>9, <2>1
  <2> HIDE DEF whole
  <2> QED
    BY <1>9, <2>2, <2>3
<1> HIDE DEF whole
<1>11. ASSUME NEW k \in 1..Len(u)
       PROVE  Each(u)[k] = whole[k]
  <2>1. Each(u)[k] = IF {k - 1, k} \cap Markers(u) = {} THEN <<u[k]>> ELSE <<>>
    BY <1>3
  <2>2. CASE k <= i - 1
    <3>1. k - 1 \notin Markers(u) /\ k \notin Markers(u)
      BY <1>1, <2>2
    <3>2. k \in 1..i - 1 /\ k <= i + 1
      BY <1>1, <2>2
    <3>3. whole[k] = <<u[k]>>
      BY <1>2, <1>9, <1>10, <3>2
    <3> QED
      BY <2>1, <3>1, <3>3
  <2>3. CASE k = i \/ k = i + 1
    <3>1. i \in {k - 1, k}
      BY <1>1, <2>3
    <3>2. k <= i + 1
      BY <1>1, <2>3
    <3>3. whole[k] = <<>>
      BY <1>9, <1>10, <2>3, <3>2
    <3> QED
      BY <2>1, <3>1, <3>3
  <2>4. CASE k > i + 1
    <3> DEFINE j == k - (i + 1)
    <3>1. j \in 1..Len(q) /\ j \in Nat /\ j >= 1 /\ j + (i + 1) = k /\ ~(k <= i + 1)
      BY <1>1, <2>4
    <3>2. k \in Markers(u) <=> j \in Markers(q)
      BY <1>1, <3>1
    <3>3. k - 1 \in Markers(u) <=> j - 1 \in Markers(q)
      <4>1. CASE j = 1
        <5>1. k - 1 = i + 1 /\ j - 1 = 0
          BY <1>1, <3>1, <4>1
        <5> QED
          BY <1>1, <5>1
      <4>2. CASE j # 1
        <5>1. j - 1 \in Nat /\ j - 1 >= 1 /\ (j - 1) + (i + 1) = k - 1
          BY <1>1, <3>1, <4>2
        <5> QED
          BY <1>1, <5>1
      <4> QED
        BY <4>1, <4>2
    <3>4. q[j] = u[k]
      BY <1>1, <3>1
    <3>5. whole[k] = Each(q)[j]
      BY <1>10, <3>1
    <3>6. Each(q)[j] = IF {j - 1, j} \cap Markers(q) = {} THEN <<q[j]>> ELSE <<>>
      BY <1>1, <1>3, <3>1
    <3> HIDE DEF j
    <3> QED
      BY <2>1, <3>2, <3>3, <3>4, <3>5, <3>6
  <2> QED
    BY <1>1, <2>2, <2>3, <2>4
<1>12. Each(u) = whole
  <2>1. Each(u) \in Seq(Seq(Symbols)) /\ Len(Each(u)) = Len(u)
    BY <1>3
  <2> QED
    BY <1>10, <1>11, <2>1, SeqEqual
<1>13. FlattenSeq(whole) = (FlattenSeq(Pieces) \o FlattenSeq(none)) \o FlattenSeq(Each(q))
  <2>1. Each(q) \in Seq(Seq(Symbols))
    BY <1>1, <1>3
  <2>2. FlattenSeq(whole) = FlattenSeq(front) \o FlattenSeq(Each(q))
    BY <1>9, <2>1, FlattenConcat DEF whole
  <2>3. FlattenSeq(front) = FlattenSeq(Pieces) \o FlattenSeq(none)
    BY <1>4, <1>7, FlattenConcat DEF front
  <2> QED
    BY <2>2, <2>3
<1>14. p \o <<>> = p
  BY <1>2, ConcatEmptySeq
<1>15. Stripped(u) = p \o Stripped(q)
  BY <1>5, <1>6, <1>8, <1>12, <1>13, <1>14
<1> QED
  BY <1>15 DEF p, q

\* A title without markers is left as it is.
LEMMA StrippedSame ==
    ASSUME NEW u \in Seq(Symbols), Markers(u) = {}
    PROVE  Stripped(u) = u
<1>1. Stripped(u) = FlattenSeq([k \in DOMAIN u |-> <<u[k]>>])
  BY DEF Stripped
<1> QED
  BY <1>1, FlattenPieces

\* In front of a marker no letter changes its width, and behind it the same holds.
LEMMA AlignSplits ==
    ASSUME NEW u \in Seq(Symbols), CutsAlign(u), NEW i \in Markers(u)
    PROVE  /\ SubSeq(u, 1, i - 1) \in Seq(Symbols \ {Grows, Shrinks})
           /\ CutsAlign(SubSeq(u, i + 2, Len(u)))
<1> DEFINE p == SubSeq(u, 1, i - 1)
           q == SubSeq(u, i + 2, Len(u))
<1>1. /\ i \in Nat /\ i >= 1 /\ i + 1 <= Len(u) /\ Len(u) \in Nat
      /\ q \in Seq(Symbols) /\ Len(q) = Len(u) - (i + 1)
      /\ \A k \in 1..Len(q) : q[k] = u[k + (i + 1)]
      /\ \A k \in Nat : k >= 1 => (k \in Markers(q) <=> k + (i + 1) \in Markers(u))
  BY MarkersBehind
<1>2. p \in Seq(Symbols \ {Grows, Shrinks})
  <2>1. ASSUME NEW k \in 1..i - 1
        PROVE  u[k] \in Symbols \ {Grows, Shrinks}
    <3>1. k \in 1..Len(u) /\ ~(k > i)
      BY <1>1
    <3>2. DOMAIN u = 1..Len(u) /\ u[k] \in Symbols
      BY <3>1
    <3> QED
      BY <3>1, <3>2 DEF CutsAlign
  <2>2. 1 \in Int /\ i - 1 \in Int
    BY <1>1
  <2> QED
    BY <2>1, <2>2, SubSeqProperties
<1> HIDE DEF q
<1>3. CutsAlign(q)
  <2> SUFFICES ASSUME NEW k \in Markers(q), NEW j \in DOMAIN q, q[j] \in {Grows, Shrinks}
               PROVE  j > k
    BY DEF CutsAlign
  <2>1. k \in Nat /\ k >= 1 /\ j \in 1..Len(q)
    BY <1>1 DEF Markers
  <2>2. k + (i + 1) \in Markers(u)
    BY <1>1, <2>1
  <2>3. j + (i + 1) \in DOMAIN u /\ u[j + (i + 1)] = q[j]
    <3>1. j + (i + 1) \in 1..Len(u) /\ u[j + (i + 1)] = q[j]
      <4>1. u[j + (i + 1)] = q[j]
        BY <1>1, <2>1, Zenon
      <4>2. j + (i + 1) \in 1..Len(u)
        <5> DEFINE n == Len(q)
        <5>1. j \in 1..n /\ n = Len(u) - (i + 1)
          BY <1>1, <2>1
        <5>2. i \in Nat /\ Len(u) \in Nat
          BY <1>1
        <5> HIDE DEF n
        <5> QED
          BY <5>1, <5>2
      <4> QED
        BY <4>1, <4>2
    <3>2. DOMAIN u = 1..Len(u)
      OBVIOUS
    <3> QED
      BY <3>1, <3>2
  <2>4. j + (i + 1) > k + (i + 1)
    BY <2>2, <2>3 DEF CutsAlign
  <2> QED
    BY <1>1, <2>1, <2>4
<1> QED
  BY <1>2, <1>3 DEF q

\* One turn on a title: the part in front of the first marker is kept, the
\* marker is dropped and the rest is left for the next turn.
LEMMA CutTurn ==
    ASSUME NEW u \in Seq(Symbols), CutsAlign(u),
           NEW i \in Markers(u), \A j \in Markers(u) : i <= j,
           NEW kept
    PROVE  LET p == SubSeq(u, 1, i - 1)
               q == SubSeq(u, i + 2, Len(u))
           IN  Cut([rest |-> Bytes(u), lower |-> Lower(u), kept |-> kept, panics |-> FALSE])
               = [rest |-> Bytes(q), lower |-> Lower(q), kept |-> kept \o Bytes(p),
                  panics |-> FALSE]
<1> DEFINE p == SubSeq(u, 1, i - 1)
           q == SubSeq(u, i + 2, Len(u))
           s == [rest |-> Bytes(u), lower |-> Lower(u), kept |-> kept, panics |-> FALSE]
<1>1. /\ p \in Seq(Symbols \ {Grows, Shrinks}) /\ p \in Seq(Symbols)
  <2>1. p \in Seq(Symbols \ {Grows, Shrinks})
    BY AlignSplits
  <2> QED
    BY <2>1
<1>2. /\ i \in Nat /\ i >= 1 /\ i + 1 <= Len(u) /\ Len(u) \in Nat /\ q \in Seq(Symbols)
  BY MarkersBehind
<1>3. <<Open, Close>> \in Seq(Symbols) /\ u = (p \o <<Open, Close>>) \o q
  <2>1. <<Open, Close>> \in Seq(Symbols)
    BY DEF Symbols
  <2>2. SubSeq(u, i, i + 1) = <<Open, Close>>
    <3>1. u[i] = Open /\ u[i + 1] = Close
      BY DEF Markers
    <3>2. SubSeq(u, i, i + 1) = <<u[i], u[i + 1]>>
      BY <1>2, TwoOf
    <3> QED
      BY <3>1, <3>2
  <2>3. u = (p \o SubSeq(u, i, i + 1)) \o q
    <3>1. /\ 1 \in 1..Len(u) + 1 /\ i - 1 \in 0..Len(u) /\ i + 1 \in (i - 1)..Len(u)
          /\ i + 1 \in 0..Len(u) /\ Len(u) \in (i + 1)..Len(u)
          /\ (i - 1) + 1 = i /\ (i + 1) + 1 = i + 2 /\ 1 - 1 = 0
      BY <1>2
    <3>2. SubSeq(u, 1, i - 1) \o SubSeq(u, (i - 1) + 1, i + 1) = SubSeq(u, 1, i + 1)
      BY <3>1, ConcatAdjacentSubSeq
    <3>3. SubSeq(u, 1, i + 1) \o SubSeq(u, (i + 1) + 1, Len(u)) = SubSeq(u, 1, Len(u))
      BY <3>1, ConcatAdjacentSubSeq
    <3>4. SubSeq(u, 1, Len(u)) = u
      BY SubSeqFull
    <3> QED
      BY <3>1, <3>2, <3>3, <3>4
  <2> QED
    BY <2>1, <2>2, <2>3
<1> HIDE DEF p, q
<1> DEFINE P == Bytes(p)
           Q == Bytes(q)
           L == Lower(q)
<1>4. P \in Seq(Byte) /\ Q \in Seq(Byte) /\ L \in Seq(Byte) /\ marker \in Seq(Byte)
      /\ Len(marker) = 4
  BY <1>1, <1>2, BytesConcat, LowerIs, MarkerIs
<1>5. Bytes(u) = (P \o marker) \o Q
  <2>1. p \o <<Open, Close>> \in Seq(Symbols)
    BY <1>1, <1>3
  <2>2. Bytes(u) = Bytes(p \o <<Open, Close>>) \o Bytes(q)
    BY <1>2, <1>3, <2>1, BytesConcat, Zenon
  <2>3. Bytes(p \o <<Open, Close>>) = Bytes(p) \o Bytes(<<Open, Close>>)
    BY <1>1, <1>3, BytesConcat, Zenon
  <2> QED
    BY <2>2, <2>3, MarkerIs, Zenon
<1>6. Lower(u) = (P \o marker) \o L
  <2>1. p \o <<Open, Close>> \in Seq(Symbols)
    BY <1>1, <1>3
  <2>2. Lower(p) = P
    BY <1>1, LowerSame
  <2>3. Lower(u) = Lower(p \o <<Open, Close>>) \o Lower(q)
    BY <1>2, <1>3, <2>1, LowerIs, Zenon
  <2>4. Lower(p \o <<Open, Close>>) = Lower(p) \o Lower(<<Open, Close>>)
    BY <1>1, <1>3, LowerIs, Zenon
  <2> QED
    BY <2>2, <2>3, <2>4, MarkerIs, Zenon
<1>7. Index(Lower(u)) = Len(P)
  <2>1. Index(Lower(u)) = Len(Lower(p))
    BY IndexLower DEF p
  <2> QED
    BY <1>1, <2>1, LowerSame
<1> HIDE DEF P, Q, L
<1>8. ASSUME NEW X \in Seq(Byte)
      PROVE  LET text == (P \o marker) \o X
             IN  /\ Len(P) \in Nat /\ Len(text) = Len(P) + 4 + Len(X)
                 /\ Len(X) \in Nat
                 /\ SubSeq(text, 1, Len(P)) = P
                 /\ SubSeq(text, Len(P) + 4 + 1, Len(text)) = X
  <2> DEFINE M == P \o marker
             text == M \o X
  <2>1. M \in Seq(Byte) /\ Len(M) = Len(P) + 4 /\ Len(P) \in Nat /\ Len(X) \in Nat
    <3>1. P \in Seq(Byte) /\ marker \in Seq(Byte) /\ Len(marker) = 4
      BY <1>4
    <3>2. P \o marker \in Seq(Byte) /\ Len(P \o marker) = Len(P) + Len(marker)
      BY <3>1, Concat, Zenon
    <3>3. Len(P) \in Nat /\ Len(X) \in Nat
      BY <3>1
    <3> QED
      BY <3>1, <3>2, <3>3, Zenon
  <2>2. text = P \o (marker \o X) /\ marker \o X \in Seq(Byte)
    <3>1. P \in Seq(Byte) /\ marker \in Seq(Byte)
      BY <1>4
    <3>2. Regroups(P, marker, X)
      BY <3>1, Concat, Zenon
    <3>3. marker \o X \in Seq(Byte)
      BY <3>1, Concat, Zenon
    <3> QED
      BY <3>2, <3>3 DEF Regroups
  <2>3. SubSeq(text, 1, Len(P)) = P
    <3>1. P \in Seq(Byte)
      BY <1>4
    <3> DEFINE Y == marker \o X
    <3> HIDE DEF Y
    <3>3. Y \in Seq(Byte)
      BY <2>2 DEF Y
    <3>4. SubSeq(P \o Y, 1, Len(P)) = P
      BY <3>1, <3>3, Parts
    <3>2. SubSeq(P \o (marker \o X), 1, Len(P)) = P
      BY <3>4 DEF Y
    <3> QED
      BY <2>2, <3>2, Zenon
  <2> HIDE DEF M
  <2>4. Len(text) = Len(M) + Len(X) /\ SubSeq(text, Len(M) + 1, Len(M) + Len(X)) = X
    <3>1. M \in Seq(Byte) /\ X \in Seq(Byte)
      BY <2>1
    <3>2. /\ Len(M \o X) = Len(M) + Len(X)
          /\ SubSeq(M \o X, Len(M) + 1, Len(M) + Len(X)) = X
      BY <3>1, Parts
    <3> QED
      BY <3>2
  <2> HIDE DEF text
  <2>5. SubSeq(text, Len(P) + 4 + 1, Len(text)) = X
    BY <2>1, <2>4
  <2> QED
    BY <2>1, <2>3, <2>4, <2>5 DEF text, M
<1>9. /\ Len(P) \in Nat /\ Len(Bytes(u)) = Len(P) + 4 + Len(Q) /\ Len(Q) \in Nat
      /\ SubSeq(Bytes(u), 1, Len(P)) = P
      /\ SubSeq(Bytes(u), Len(P) + 4 + 1, Len(Bytes(u))) = Q
  BY <1>4, <1>5, <1>8
<1>10. SubSeq(Lower(u), Len(P) + 4 + 1, Len(Lower(u))) = L
  BY <1>4, <1>6, <1>8
<1>11. ~(Index(s.lower) < 0 \/ s.panics)
  BY <1>7, <1>9
<1>12. Cut(s) = [rest   |-> SubSeq(Bytes(u), Len(P) + 4 + 1, Len(Bytes(u))),
                 lower  |-> SubSeq(Lower(u), Len(P) + 4 + 1, Len(Lower(u))),
                 kept   |-> kept \o SubSeq(Bytes(u), 1, Len(P)),
                 panics |-> Len(P) + 4 > Len(Bytes(u))]
  BY <1>4, <1>7, <1>11 DEF Cut
<1>13. ~(Len(P) + 4 > Len(Bytes(u)))
  BY <1>9
<1>14. Cut(s) = [rest |-> Q, lower |-> L, kept |-> kept \o P, panics |-> FALSE]
  <2>1. (Len(P) + 4 > Len(Bytes(u))) = FALSE
    BY <1>13
  <2> QED
    BY <1>9, <1>10, <1>12, <2>1, Zenon
<1> QED
  BY <1>14 DEF p, q, P, Q, L

\* A title without markers ends the loop.
LEMMA CutEnds ==
    ASSUME NEW u \in Seq(Symbols), Markers(u) = {}, NEW rest, NEW kept
    PROVE  LET s == [rest |-> rest, lower |-> Lower(u), kept |-> kept, panics |-> FALSE]
           IN  Cut(s) = s
<1>1. Index(Lower(u)) = -1
  BY IndexLower
<1> QED
  BY <1>1 DEF Cut

\* The turns of DisplayName's loop: its recursion has a solution.
LEMMA TurnsDefined ==
    ASSUME NEW t, Len(t) \in Nat
    PROVE  \E s : /\ s[0] = [rest |-> t, lower |-> ToLower(t), kept |-> <<>>, panics |-> FALSE]
                  /\ \A k \in 1..Len(t) : s[k] = Cut(s[k - 1])
                  /\ DisplayName(t) = [text |-> TrimSpace(s[Len(t)].kept \o s[Len(t)].rest),
                                       panics |-> s[Len(t)].panics]
<1> DEFINE first == [rest |-> t, lower |-> ToLower(t), kept |-> <<>>, panics |-> FALSE]
           Solves(g, n) == g = [k \in 0..n |-> IF k = 0 THEN first ELSE Cut(g[k - 1])]
           Solved == {n \in Nat : \E g : Solves(g, n)}
<1> HIDE DEF first
<1>1. \A n \in Nat : n \in Solved
  <2>1. 0 \in Solved
    <3>1. Solves([k \in 0..0 |-> first], 0)
      OBVIOUS
    <3> QED
      BY <3>1
  <2>2. ASSUME NEW n \in Nat \ {0}, n - 1 \in Solved
        PROVE  \E h : Solves(h, n)
    <3>1. PICK g : Solves(g, n - 1)
      BY <2>2
    <3> DEFINE h == [k \in 0..n |-> IF k < n THEN g[k] ELSE Cut(g[n - 1])]
    <3>2. ASSUME NEW k \in 0..n
          PROVE  h[k] = IF k = 0 THEN first ELSE Cut(h[k - 1])
      <4>1. CASE k = 0
        <5>1. g[0] = first
          BY <3>1
        <5> QED
          BY <4>1, <5>1
      <4>2. CASE k # 0 /\ k < n
        <5>1. k \in 0..n - 1 /\ k - 1 \in 0..n /\ k - 1 < n
          BY <4>2
        <5>2. g[k] = Cut(g[k - 1])
          BY <3>1, <4>2, <5>1
        <5>3. h[k] = g[k] /\ h[k - 1] = g[k - 1]
          BY <4>2, <5>1
        <5> HIDE DEF h
        <5> QED
          BY <4>2, <5>2, <5>3
      <4>3. CASE k # 0 /\ ~(k < n)
        <5>1. k = n /\ n - 1 \in 0..n /\ n - 1 < n
          BY <4>3
        <5>2. h[n - 1] = g[n - 1]
          BY <5>1
        <5>3. h[k] = Cut(g[n - 1])
          BY <4>3
        <5> HIDE DEF h
        <5> QED
          BY <4>3, <5>1, <5>2, <5>3
      <4> QED
        BY <4>1, <4>2, <4>3
    <3>3. h = [k \in 0..n |-> h[k]]
      OBVIOUS
    <3> HIDE DEF h
    <3>4. Solves(h, n)
      BY <3>2, <3>3
    <3> QED
      BY <3>4
  <2>3. \A n \in Nat \ {0} : n - 1 \in Solved => n \in Solved
    <3> HIDE DEF Solves
    <3> QED
      BY <2>2
  <2> HIDE DEF Solved
  <2> QED
    BY <2>1, <2>3, NaturalSet
<1> DEFINE f == CHOOSE g : Solves(g, Len(t))
<1>2. Solves(f, Len(t))
  <2>1. \E g : Solves(g, Len(t))
    <3> HIDE DEF Solves
    <3> QED
      BY <1>1
  <2> QED
    BY <2>1
<1>3. DisplayName(t) = [text |-> TrimSpace(f[Len(t)].kept \o f[Len(t)].rest),
                        panics |-> f[Len(t)].panics]
  BY DEF DisplayName, first
<1> HIDE DEF f
<1>4. f[0] = first /\ \A k \in 1..Len(t) : f[k] = Cut(f[k - 1])
  BY <1>2
<1> QED
  BY <1>3, <1>4 DEF first
-----------------------------------------------------------------------------
(***************************************************************************)
(* DisplayName takes out every marker and nothing else.                    *)
(***************************************************************************)

\* What is left of a title are symbols of it.
LEMMA StrippedTyped ==
    ASSUME NEW T, NEW t \in Seq(T)
    PROVE  Stripped(t) \in Seq(T)
<1> DEFINE Each == [i \in DOMAIN t |->
                       IF {i - 1, i} \cap Markers(t) = {} THEN <<t[i]>> ELSE <<>>]
<1>1. Len(t) \in Nat /\ DOMAIN t = 1..Len(t) /\ \A i \in 1..Len(t) : t[i] \in T
  OBVIOUS
<1>2. \A i \in DOMAIN t : <<t[i]>> \in Seq(T) /\ <<>> \in Seq(T)
  BY <1>1
<1>3. Each \in [1..Len(t) -> Seq(T)]
  BY <1>1, <1>2
<1>4. Stripped(t) = FlattenSeq(Each)
  BY DEF Stripped
<1> HIDE DEF Each
<1>5. Each \in Seq(Seq(T))
  BY <1>1, <1>3, IsSequence
<1> QED
  BY <1>4, <1>5, FlattenAppend

\* A title has at least as many bytes as symbols.
LEMMA BytesLonger ==
    ASSUME NEW u \in Seq(Symbols)
    PROVE  Len(u) <= Len(Bytes(u)) /\ Len(u) \in Nat /\ Len(Bytes(u)) \in Nat
<1> DEFINE Long == {n \in Nat : \A v \in Seq(Symbols) : Len(v) = n => n <= Len(Bytes(v))}
<1>1. 0 \in Long
  <2>1. ASSUME NEW v \in Seq(Symbols) PROVE 0 <= Len(Bytes(v))
    <3>1. Bytes(v) \in Seq(Byte)
      BY BytesConcat
    <3> QED
      BY <3>1
  <2> QED
    BY <2>1
<1>2. ASSUME NEW n \in Nat \ {0}, n - 1 \in Long, NEW v \in Seq(Symbols), Len(v) = n
      PROVE  n <= Len(Bytes(v))
  <2>1. PICK w \in Seq(Symbols), x \in Symbols : v = Append(w, x)
    <3>1. v # <<>>
      BY <1>2
    <3> QED
      BY <3>1, SequenceEmptyOrAppend
  <2>2. v = w \o <<x>> /\ Len(w) = n - 1 /\ <<x>> \in Seq(Symbols)
    BY <1>2, <2>1
  <2>3. Bytes(v) = Bytes(w) \o Unit(x) /\ Bytes(w) \in Seq(Byte) /\ Unit(x) \in Seq(Byte)
    <3>1. Bytes(w \o <<x>>) = Bytes(w) \o Bytes(<<x>>)
      BY <2>1, <2>2, BytesConcat, Zenon
    <3>2. Bytes(<<x>>) = Unit(x) /\ Bytes(w) \in Seq(Byte)
      BY <2>1, BytesConcat, Zenon
    <3>3. Unit(x) \in Seq(Byte)
      BY <2>1, UnitIs
    <3> QED
      BY <2>2, <3>1, <3>2, <3>3, Zenon
  <2>4. Len(Unit(x)) >= 1 /\ Len(Unit(x)) \in Nat
    BY DEF Unit, Width
  <2>5. Len(Bytes(v)) = Len(Bytes(w)) + Len(Unit(x)) /\ Len(Bytes(w)) \in Nat
    BY <2>3, Joined
  <2>6. n - 1 <= Len(Bytes(w))
    BY <1>2, <2>2
  <2> QED
    BY <2>4, <2>5, <2>6
<1>3. \A n \in Nat \ {0} : n - 1 \in Long => n \in Long
  BY <1>2
<1>4. Len(u) \in Nat /\ Len(Bytes(u)) \in Nat
  <2>1. Bytes(u) \in Seq(Byte)
    BY BytesConcat
  <2> QED
    BY <2>1
<1>5. \A n \in Nat : n \in Long
  <2> HIDE DEF Long
  <2> QED
    BY <1>1, <1>3, NaturalSet
<1> QED
  BY <1>4, <1>5

\* Unless a letter before a marker changes its width, DisplayName gives the
\* title without its markers and the spaces around it, and does not panic.
THEOREM MarkersStripped ==
    ASSUME NEW t \in Seq(Symbols), CutsAlign(t)
    PROVE  DisplayName(Bytes(t)) =
              [text |-> TrimSpace(Bytes(Stripped(t))), panics |-> FALSE]
<1> DEFINE T == Bytes(t)
           State(v, u) == [rest |-> Bytes(u), lower |-> Lower(u), kept |-> Bytes(v),
                           panics |-> FALSE]
           Good(v, u, k) == /\ CutsAlign(u)
                            /\ Stripped(t) = v \o Stripped(u)
                            /\ Markers(u) = {} \/ Len(u) + k <= Len(t)
<1>1. /\ Len(T) \in Nat /\ Len(t) \in Nat /\ Len(t) <= Len(T)
      /\ \A u \in Seq(Symbols) : Len(u) \in Nat
      /\ CutsAlign(t)
  BY BytesLonger
<1>2. PICK s : /\ s[0] = [rest |-> T, lower |-> ToLower(T), kept |-> <<>>, panics |-> FALSE]
               /\ \A k \in 1..Len(T) : s[k] = Cut(s[k - 1])
               /\ DisplayName(T) = [text |-> TrimSpace(s[Len(T)].kept \o s[Len(T)].rest),
                                    panics |-> s[Len(T)].panics]
  BY <1>1, TurnsDefined
<1> DEFINE Reached == {k \in Nat : k <= Len(T) =>
                          \E v, u \in Seq(Symbols) : s[k] = State(v, u) /\ Good(v, u, k)}
<1>3. \A k \in Nat : k \in Reached
  <2>1. 0 \in Reached
    <3>1. s[0] = State(<<>>, t)
      BY <1>2, BytesConcat DEF Lower
    <3>2. Stripped(t) \in Seq(Symbols)
      BY StrippedTyped
    <3>3. Stripped(t) = <<>> \o Stripped(t)
      BY <3>2, ConcatEmptySeq
    <3>4. Good(<<>>, t, 0)
      BY <1>1, <3>3
    <3>5. <<>> \in Seq(Symbols)
      OBVIOUS
    <3> HIDE DEF Good, State
    <3> QED
      BY <3>1, <3>4, <3>5
  <2>2. ASSUME NEW k \in Nat \ {0}, k - 1 \in Reached, k <= Len(T)
        PROVE  \E v, u \in Seq(Symbols) : s[k] = State(v, u) /\ Good(v, u, k)
    <3>1. PICK v \in Seq(Symbols), u \in Seq(Symbols) :
              s[k - 1] = State(v, u) /\ Good(v, u, k - 1)
      <4> HIDE DEF State, Good
      <4> QED
        BY <1>1, <2>2
    <3>2. s[k] = Cut(State(v, u))
      <4> HIDE DEF State, Good
      <4>1. k \in 1..Len(T)
        BY <1>1, <2>2
      <4> QED
        BY <1>2, <3>1, <4>1
    <3>3. CASE Markers(u) = {}
      <4>1. Cut(State(v, u)) = State(v, u)
        BY <3>3, CutEnds
      <4>2. Good(v, u, k)
        BY <3>1, <3>3
      <4> HIDE DEF State, Good
      <4> QED
        BY <3>2, <4>1, <4>2
    <3>4. CASE Markers(u) # {}
      <4>1. PICK i \in Markers(u) : \A j \in Markers(u) : i <= j
        <5>1. Markers(u) \subseteq Nat
          BY DEF Markers
        <5> QED
          BY <3>4, <5>1, LeastNatural
      <4> DEFINE p == SubSeq(u, 1, i - 1)
                 q == SubSeq(u, i + 2, Len(u))
      <4>2. CutsAlign(u)
        BY <3>1
      <4>3. Cut(State(v, u)) = [rest |-> Bytes(q), lower |-> Lower(q),
                                kept |-> Bytes(v) \o Bytes(p), panics |-> FALSE]
        BY <4>1, <4>2, CutTurn
      <4>4. /\ p \in Seq(Symbols \ {Grows, Shrinks}) /\ CutsAlign(q)
            /\ q \in Seq(Symbols) /\ Len(q) = Len(u) - (i + 1) /\ i \in Nat /\ Len(u) \in Nat
        BY <4>1, <4>2, AlignSplits, MarkersBehind
      <4>5. Stripped(u) = p \o Stripped(q)
        BY <4>1, StrippedSplits
      <4> HIDE DEF p, q
      <4>6. p \in Seq(Symbols) /\ v \o p \in Seq(Symbols)
        BY <4>4
      <4>7. Bytes(v \o p) = Bytes(v) \o Bytes(p)
        BY <4>6, BytesConcat
      <4>8. Cut(State(v, u)) = State(v \o p, q)
        BY <4>3, <4>7
      <4>9. Stripped(t) = (v \o p) \o Stripped(q)
        <5>1. Stripped(t) = v \o (p \o Stripped(q))
          BY <3>1, <4>5
        <5>2. Stripped(q) \in Seq(Symbols)
          BY <4>4, StrippedTyped
        <5>3. Regroups(v, p, Stripped(q))
          BY <4>6, <5>2, Concat, Zenon
        <5> QED
          BY <5>1, <5>3 DEF Regroups
      <4>10. Markers(q) = {} \/ Len(q) + k <= Len(t)
        BY <1>1, <3>1, <3>4, <4>4
      <4>11. Good(v \o p, q, k)
        BY <4>4, <4>9, <4>10
      <4> HIDE DEF Good, State
      <4> QED
        BY <3>2, <4>4, <4>6, <4>8, <4>11
    <3> QED
      BY <3>3, <3>4
  <2>3. \A k \in Nat \ {0} : k - 1 \in Reached => k \in Reached
    <3> HIDE DEF State, Good
    <3> QED
      BY <1>1, <2>2
  <2> HIDE DEF Reached
  <2> QED
    BY <2>1, <2>3, NaturalSet
<1>4. PICK v \in Seq(Symbols), u \in Seq(Symbols) :
          s[Len(T)] = State(v, u) /\ Good(v, u, Len(T))
  <2>1. Len(T) \in Reached
    <3> HIDE DEF Reached, T
    <3> QED
      BY <1>1, <1>3
  <2>2. Len(T) <= Len(T)
    <3> HIDE DEF T
    <3> QED
      BY <1>1
  <2> HIDE DEF State, Good, T
  <2> QED
    BY <2>1, <2>2
<1> HIDE DEF Reached, T
<1>5. Markers(u) = {}
  <2> SUFFICES ASSUME Len(u) + Len(T) <= Len(t) PROVE Markers(u) = {}
    BY <1>4
  <2>1. Len(u) = 0
    BY <1>1
  <2> QED
    BY <2>1 DEF Markers
<1>6. Stripped(t) = v \o u
  <2>1. Stripped(u) = u
    BY <1>5, StrippedSame
  <2> QED
    BY <1>4, <2>1
<1>7. Bytes(Stripped(t)) = Bytes(v) \o Bytes(u)
  BY <1>6, BytesConcat
<1>8. s[Len(T)].kept \o s[Len(T)].rest = Bytes(Stripped(t)) /\ s[Len(T)].panics = FALSE
  BY <1>4, <1>7
<1> QED
  BY <1>2, <1>8 DEF T

\* The titles that are checked are titles.
LEMMA TitlesTyped == Titles \subseteq Seq(Symbols)
<1> SUFFICES ASSUME NEW t \in Titles PROVE t \in Seq(Symbols)
  OBVIOUS
<1>1. PICK m \in 0..MaxTitle : t \in [1..m -> Symbols]
  BY DEF Titles, BoundedSeq, SeqOf
<1>2. m \in Nat
  BY FolderTitleAssumption
<1> QED
  BY <1>1, <1>2, IsSequence

-----------------------------------------------------------------------------
(***************************************************************************)
(* Trimming.                                                               *)
(***************************************************************************)

\* What is trimmed are bytes of the text.
LEMMA TrimTyped ==
    ASSUME NEW text \in Seq(Byte)
    PROVE  TrimSpace(text) \in Seq(Byte)
<1> DEFINE kept == {i \in DOMAIN text : text[i] # <<Space, 1>>}
           first == CHOOSE i \in kept : \A j \in kept : i <= j
           last  == CHOOSE i \in kept : \A j \in kept : j <= i
<1>1. Len(text) \in Nat /\ kept \subseteq 1..Len(text) /\ kept \subseteq Nat
  OBVIOUS
<1>2. CASE kept = {}
  BY <1>2 DEF TrimSpace
<1>3. CASE kept # {}
  <2>1. first \in kept
    <3>1. \E i \in kept : \A j \in kept : i <= j
      <4> HIDE DEF kept
      <4> QED
        BY <1>1, <1>3, LeastNatural
    <3> HIDE DEF kept
    <3> QED
      BY <3>1
  <2>2. last \in kept
    <3>1. \E i \in kept : \A j \in kept : j <= i
      <4> HIDE DEF kept
      <4> QED
        BY <1>1, <1>3, GreatestNatural
    <3> HIDE DEF kept
    <3> QED
      BY <3>1
  <2>3. TrimSpace(text) = SubSeq(text, first, last)
    BY <1>3 DEF TrimSpace
  <2>4. first \in 1..Len(text) /\ last \in 1..Len(text)
    <3> HIDE DEF first, last, kept
    <3> QED
      BY <1>1, <2>1, <2>2
  <2>5. first \in Nat /\ first >= 1 /\ last \in Nat /\ last <= Len(text)
    <3> HIDE DEF first, last, kept
    <3> QED
      BY <1>1, <2>4
  <2> HIDE DEF first, last, kept
  <2> QED
    BY <2>3, <2>5
<1> QED
  BY <1>2, <1>3

\* The spaces before and after a text that begins and ends with another byte
\* are trimmed, and nothing else.
LEMMA TrimIs ==
    ASSUME NEW X \in Seq(Byte), NEW M \in Seq(Byte), NEW Y \in Seq(Byte),
           \A i \in 1..Len(X) : X[i] = <<Space, 1>>,
           \A i \in 1..Len(Y) : Y[i] = <<Space, 1>>,
           M # <<>> => M[1] # <<Space, 1>> /\ M[Len(M)] # <<Space, 1>>
    PROVE  TrimSpace((X \o M) \o Y) = M
<1> DEFINE text == (X \o M) \o Y
           kept == {i \in DOMAIN text : text[i] # <<Space, 1>>}
           first == CHOOSE i \in kept : \A j \in kept : i <= j
           last  == CHOOSE i \in kept : \A j \in kept : j <= i
<1>1. /\ Len(X) \in Nat /\ Len(M) \in Nat /\ Len(Y) \in Nat
      /\ X \o M \in Seq(Byte) /\ Len(X \o M) = Len(X) + Len(M)
      /\ text \in Seq(Byte) /\ Len(text) = (Len(X) + Len(M)) + Len(Y)
      /\ DOMAIN text = 1..Len(text)
  OBVIOUS
<1>2. ASSUME NEW i \in 1..Len(text)
      PROVE  /\ i <= Len(X) => text[i] = <<Space, 1>>
             /\ i > Len(X) /\ i <= Len(X) + Len(M) => text[i] = M[i - Len(X)]
             /\ i > Len(X) + Len(M) => text[i] = <<Space, 1>>
  <2>1. CASE i <= Len(X)
    <3>1. text[i] = X[i] /\ i \in 1..Len(X)
      BY <1>1, <2>1
    <3> QED
      BY <1>1, <2>1, <3>1
  <2>2. CASE i > Len(X) /\ i <= Len(X) + Len(M)
    BY <1>1, <2>2
  <2>3. CASE i > Len(X) + Len(M)
    <3>1. text[i] = Y[i - (Len(X) + Len(M))] /\ i - (Len(X) + Len(M)) \in 1..Len(Y)
      BY <1>1, <2>3
    <3> HIDE DEF text
    <3> QED
      BY <1>1, <2>3, <3>1
  <2> QED
    BY <1>1, <2>1, <2>2, <2>3
<1>3. TrimSpace(text) = IF kept = {} THEN <<>> ELSE SubSeq(text, first, last)
  BY DEF TrimSpace
<1>4. kept \subseteq {i \in 1..Len(text) : i > Len(X) /\ i <= Len(X) + Len(M)}
  <2> HIDE DEF text
  <2> QED
    BY <1>1, <1>2
<1>5. CASE M = <<>>
  <2>1. kept = {}
    <3> HIDE DEF text, kept
    <3> QED
      BY <1>1, <1>4, <1>5
  <2> HIDE DEF text, kept, first, last
  <2>2. TrimSpace(text) = M
    BY <1>3, <1>5, <2>1
  <2> QED
    BY <2>2 DEF text
<1>6. CASE M # <<>>
  <2>1. Len(M) >= 1
    BY <1>1, <1>6
  <2>2. /\ Len(X) + 1 \in 1..Len(text) /\ Len(X) + Len(M) \in 1..Len(text)
        /\ text[Len(X) + 1] = M[1] /\ text[Len(X) + Len(M)] = M[Len(M)]
    <3>1. /\ Len(X) + 1 \in 1..Len(text) /\ Len(X) + Len(M) \in 1..Len(text)
          /\ (Len(X) + 1) - Len(X) = 1 /\ (Len(X) + Len(M)) - Len(X) = Len(M)
      <4> HIDE DEF text
      <4> QED
        BY <1>1, <2>1
    <3>2. Len(X) + 1 > Len(X) /\ Len(X) + 1 <= Len(X) + Len(M)
          /\ Len(X) + Len(M) > Len(X) /\ Len(X) + Len(M) <= Len(X) + Len(M)
      <4> HIDE DEF text
      <4> QED
        BY <1>1, <2>1
    <3>3. text[Len(X) + 1] = M[(Len(X) + 1) - Len(X)]
      <4> HIDE DEF text
      <4> QED
        BY <1>2, <3>1, <3>2
    <3>4. text[Len(X) + Len(M)] = M[(Len(X) + Len(M)) - Len(X)]
      <4> HIDE DEF text
      <4> QED
        BY <1>2, <3>1, <3>2
    <3> HIDE DEF text
    <3> QED
      BY <3>1, <3>3, <3>4
  <2>3. Len(X) + 1 \in kept /\ Len(X) + Len(M) \in kept
    <3> HIDE DEF text
    <3> QED
      BY <1>1, <1>6, <2>2
  <2>4. \A j \in kept : Len(X) + 1 <= j /\ j <= Len(X) + Len(M) /\ j \in Int
    <3> HIDE DEF text, kept
    <3> QED
      BY <1>1, <1>4
  <2>5. first = Len(X) + 1
    <3>1. first \in kept /\ \A j \in kept : first <= j
      <4> HIDE DEF text, kept
      <4> QED
        BY <2>3, <2>4
    <3> HIDE DEF text, kept, first
    <3> QED
      BY <1>1, <2>3, <2>4, <3>1
  <2>6. last = Len(X) + Len(M)
    <3>1. last \in kept /\ \A j \in kept : j <= last
      <4> HIDE DEF text, kept
      <4> QED
        BY <2>3, <2>4
    <3> HIDE DEF text, kept, last
    <3> QED
      BY <1>1, <2>3, <2>4, <3>1
  <2>7. SubSeq(text, Len(X) + 1, Len(X) + Len(M)) = M
    <3>1. SubSeq(text, Len(X) + 1, Len(X) + Len(M)) \in Seq(Byte)
      <4> HIDE DEF text
      <4> QED
        BY <1>1
    <3>2. Len(SubSeq(text, Len(X) + 1, Len(X) + Len(M))) = Len(M)
      <4> HIDE DEF text
      <4> QED
        BY <1>1
    <3>3. \A i \in 1..Len(M) : SubSeq(text, Len(X) + 1, Len(X) + Len(M))[i] = M[i]
      <4> SUFFICES ASSUME NEW i \in 1..Len(M)
                   PROVE  SubSeq(text, Len(X) + 1, Len(X) + Len(M))[i] = M[i]
        OBVIOUS
      <4> HIDE DEF text
      <4>1. SubSeq(text, Len(X) + 1, Len(X) + Len(M))[i] = text[Len(X) + i]
        BY <1>1
      <4>2. Len(X) + i \in 1..Len(text) /\ (Len(X) + i) - Len(X) = i
            /\ Len(X) + i > Len(X) /\ Len(X) + i <= Len(X) + Len(M)
        BY <1>1
      <4>3. text[Len(X) + i] = M[(Len(X) + i) - Len(X)]
        BY <1>2, <4>2
      <4> QED
        BY <4>1, <4>2, <4>3
    <3> HIDE DEF text
    <3> QED
      BY <3>1, <3>2, <3>3, SeqEqual
  <2>8. kept # {}
    <3> HIDE DEF kept
    <3> QED
      BY <2>3
  <2> HIDE DEF text, kept, first, last
  <2>9. TrimSpace(text) = M
    BY <1>3, <2>5, <2>6, <2>7, <2>8
  <2> QED
    BY <2>9 DEF text
<1> QED
  BY <1>5, <1>6

\* The bytes of spaces are spaces.
LEMMA SpaceBytes ==
    ASSUME NEW u \in Seq({Space})
    PROVE  /\ Bytes(u) \in Seq(Byte)
           /\ \A i \in 1..Len(Bytes(u)) : Bytes(u)[i] = <<Space, 1>>
<1> DEFINE Units == [i \in DOMAIN u |-> Unit(u[i])]
           One   == {<<Space, 1>>}
<1>1. Unit(Space) = <<<<Space, 1>>>>
  <2>1. Space \in Symbols
    BY DEF Symbols
  <2> QED
    BY <2>1, UnitIs
<1>2. Units \in [1..Len(u) -> Seq(One)] /\ Len(u) \in Nat
  <2>1. <<<<Space, 1>>>> \in Seq(One)
    OBVIOUS
  <2>2. Len(u) \in Nat /\ DOMAIN u = 1..Len(u) /\ \A i \in 1..Len(u) : u[i] = Space
    OBVIOUS
  <2> HIDE DEF One
  <2>3. \A i \in DOMAIN u : Unit(u[i]) \in Seq(One)
    BY <1>1, <2>1, <2>2
  <2> QED
    BY <2>2, <2>3
<1>3. Bytes(u) = FlattenSeq(Units)
  BY DEF Bytes, Unit
<1> HIDE DEF Units
<1>4. Units \in Seq(Seq(One))
  <2> HIDE DEF One
  <2> QED
    BY <1>2, IsSequence
<1>5. Bytes(u) \in Seq(One)
  <2> HIDE DEF One
  <2> QED
    BY <1>3, <1>4, FlattenAppend
<1>6. <<Space, 1>> \in Byte
  BY DEF Byte, Symbols
<1>7. One \subseteq Byte
  BY <1>6
<1>8. \A i \in 1..Len(Bytes(u)) : Bytes(u)[i] \in One
  <2> HIDE DEF One
  <2> QED
    BY <1>5
<1>9. Bytes(u) \in Seq(Byte)
  <2> HIDE DEF One
  <2> QED
    BY <1>5, <1>7
<1> QED
  BY <1>8, <1>9

\* A title that begins and ends with no space does so in its bytes.
LEMMA EndsBytes ==
    ASSUME NEW s \in Seq(Symbols), s # <<>>, s[1] # Space, s[Len(s)] # Space
    PROVE  /\ Bytes(s) # <<>> /\ Bytes(s)[1] # <<Space, 1>>
           /\ Bytes(s)[Len(Bytes(s))] # <<Space, 1>>
<1>1. ASSUME NEW x \in Symbols
      PROVE  /\ Unit(x) \in Seq(Byte) /\ Len(Unit(x)) \in 1..2
             /\ Unit(x)[1] = <<x, 1>> /\ \E k : Unit(x)[Len(Unit(x))] = <<x, k>>
  <2>1. Unit(x) \in Seq(Byte)
    BY UnitIs
  <2>2. Len(Unit(x)) = Width(x) /\ Width(x) \in 1..2
    BY DEF Unit, Width
  <2>3. \A k \in 1..Width(x) : Unit(x)[k] = <<x, k>>
    BY DEF Unit
  <2>4. 1 \in 1..Width(x) /\ Width(x) \in 1..Width(x)
    BY <2>2
  <2>5. Unit(x)[1] = <<x, 1>> /\ Unit(x)[Len(Unit(x))] = <<x, Width(x)>>
    BY <2>2, <2>3, <2>4
  <2> QED
    BY <2>1, <2>2, <2>5
<1>2. PICK w \in Seq(Symbols), x \in Symbols : s = Append(w, x)
  BY SequenceEmptyOrAppend
<1>3. s = w \o <<x>> /\ x = s[Len(s)] /\ <<x>> \in Seq(Symbols)
  BY <1>2
<1>4. Bytes(s) = Bytes(w) \o Unit(x) /\ Bytes(w) \in Seq(Byte)
  BY <1>3, BytesConcat
<1>5. /\ Len(Unit(x)) # 0 /\ Bytes(s) \in Seq(Byte) /\ Len(Bytes(s)) >= 1
      /\ Bytes(s)[Len(Bytes(s))] = Unit(x)[Len(Unit(x))]
  <2>1. Unit(x) \in Seq(Byte) /\ Len(Unit(x)) \in 1..2
    BY <1>1
  <2>2. /\ Len(Bytes(w)) \in Nat /\ Len(Bytes(s)) = Len(Bytes(w)) + Len(Unit(x))
        /\ Len(Unit(x)) # 0 => Bytes(s)[Len(Bytes(s))] = Unit(x)[Len(Unit(x))]
    BY <1>4, <2>1, Joined
  <2>3. Bytes(s) \in Seq(Byte)
    BY BytesConcat
  <2>4. Len(Unit(x)) # 0 /\ Len(Unit(x)) \in Nat /\ Len(Unit(x)) >= 1
    BY <2>1
  <2>5. Len(Bytes(w)) + Len(Unit(x)) >= 1
    BY <2>2, <2>4
  <2> QED
    BY <2>2, <2>3, <2>4, <2>5
<1>6. Bytes(s)[Len(Bytes(s))] # <<Space, 1>>
  <2>1. PICK k : Unit(x)[Len(Unit(x))] = <<x, k>>
    BY <1>1
  <2> QED
    BY <1>3, <1>5, <2>1
<1>7. Bytes(s)[1] = <<s[1], 1>>
  <2> DEFINE y == s[1]
             z == SubSeq(s, 2, Len(s))
  <2>1. y \in Symbols /\ z \in Seq(Symbols) /\ s = <<y>> \o z /\ <<y>> \in Seq(Symbols)
    OBVIOUS
  <2> HIDE DEF y, z
  <2>2. Bytes(s) = Unit(y) \o Bytes(z) /\ Bytes(z) \in Seq(Byte)
    BY <2>1, BytesConcat
  <2>3. Unit(y) \in Seq(Byte) /\ Len(Unit(y)) \in 1..2 /\ Unit(y)[1] = <<y, 1>>
    BY <1>1, <2>1
  <2>4. (Unit(y) \o Bytes(z))[1] = Unit(y)[1]
    BY <2>2, <2>3
  <2> QED
    BY <2>2, <2>3, <2>4 DEF y
<1> QED
  BY <1>5, <1>6, <1>7

\* A title with no letter that changes its width and no marker, trimmed, is
\* such a title that begins and ends with no space.
LEMMA Trimmed ==
    ASSUME NEW T, NEW v \in Seq(T), Markers(v) = {}
    PROVE  \E p, q \in Seq({Space}), s \in Seq(T) :
              /\ v = (p \o s) \o q
              /\ s # <<>> => s[1] # Space /\ s[Len(s)] # Space
              /\ Markers(s) = {}
<1> DEFINE kept == {i \in 1..Len(v) : v[i] # Space}
<1>1. Len(v) \in Nat /\ \A i \in 1..Len(v) : v[i] \in T
  OBVIOUS
<1>2. <<>> \in Seq({Space}) /\ <<>> \in Seq(T)
  OBVIOUS
<1>3. CASE kept = {}
  <2>1. v \in Seq({Space})
    <3>1. v = [i \in 1..Len(v) |-> v[i]]
      OBVIOUS
    <3>2. v \in [1..Len(v) -> {Space}]
      BY <1>3, <3>1
    <3> QED
      BY <1>1, <3>2, IsSequence
  <2>2. v = (v \o <<>>) \o <<>>
    OBVIOUS
  <2>3. Markers(<<>>) = {}
    BY DEF Markers
  <2> HIDE DEF kept
  <2> QED
    BY <1>2, <2>1, <2>2, <2>3
<1>4. CASE kept # {}
  <2>1. PICK a \in kept : \A j \in kept : a <= j
    <3>1. kept \subseteq Nat
      OBVIOUS
    <3> HIDE DEF kept
    <3> QED
      BY <1>4, <3>1, LeastNatural
  <2>2. PICK b \in kept : \A j \in kept : j <= b
    <3>1. kept \subseteq 1..Len(v)
      OBVIOUS
    <3> HIDE DEF kept
    <3> QED
      BY <1>1, <1>4, <3>1, GreatestNatural
  <2>3. /\ a \in Nat /\ b \in Nat /\ 1 <= a /\ a <= b /\ b <= Len(v)
        /\ v[a] # Space /\ v[b] # Space
    BY <1>1, <2>1, <2>2
  <2>4. \A i \in 1..Len(v) : i < a \/ i > b => v[i] = Space
    <3> SUFFICES ASSUME NEW i \in 1..Len(v), v[i] # Space PROVE ~(i < a \/ i > b)
      OBVIOUS
    <3>1. i \in kept
      OBVIOUS
    <3>2. a <= i /\ i <= b /\ i \in Nat
      BY <2>1, <2>2, <3>1
    <3> HIDE DEF kept
    <3> QED
      BY <2>3, <3>2
  <2> HIDE DEF kept
  <2> DEFINE p == SubSeq(v, 1, a - 1)
             s == SubSeq(v, a, b)
             q == SubSeq(v, b + 1, Len(v))
  <2>5. /\ p \in Seq(T) /\ Len(p) = a - 1 /\ \A i \in 1..Len(p) : p[i] = v[i]
    BY <1>1, <2>3
  <2>6. /\ q \in Seq(T) /\ Len(q) = Len(v) - b /\ \A i \in 1..Len(q) : q[i] = v[b + i]
    BY <1>1, <2>3
  <2>7. /\ s \in Seq(T) /\ Len(s) = (b - a) + 1
        /\ \A i \in 1..Len(s) : s[i] = v[(a - 1) + i]
    BY <1>1, <2>3
  <2> HIDE DEF p, q, s
  <2>8. p \in Seq({Space})
    <3>1. p = [i \in 1..Len(p) |-> p[i]] /\ Len(p) \in Nat
      BY <2>5
    <3>2. \A i \in 1..Len(p) : p[i] = Space
      BY <1>1, <2>3, <2>4, <2>5
    <3>3. p \in [1..Len(p) -> {Space}]
      BY <3>1, <3>2
    <3> QED
      BY <3>1, <3>3, IsSequence
  <2>9. q \in Seq({Space})
    <3>1. q = [i \in 1..Len(q) |-> q[i]] /\ Len(q) \in Nat
      BY <2>6
    <3>2. \A i \in 1..Len(q) : b + i \in 1..Len(v) /\ b + i > b
      BY <1>1, <2>3, <2>6
    <3>3. \A i \in 1..Len(q) : q[i] = Space
      BY <2>4, <2>6, <3>2
    <3>4. q \in [1..Len(q) -> {Space}]
      BY <3>1, <3>3
    <3> QED
      BY <3>1, <3>4, IsSequence
  <2>10. v = (p \o s) \o q
    <3> DEFINE ps == p \o s
               w == ps \o q
    <3>1. /\ ps \in Seq(T) /\ Len(ps) = b
          /\ \A i \in 1..b : ps[i] = IF i <= a - 1 THEN p[i] ELSE s[i - (a - 1)]
      <4>1. /\ ps \in Seq(T) /\ Len(ps) = Len(p) + Len(s)
            /\ \A i \in 1..Len(p) + Len(s) :
                  ps[i] = IF i <= Len(p) THEN p[i] ELSE s[i - Len(p)]
        <5>1. p \in Seq(T) /\ s \in Seq(T)
          BY <2>5, <2>7
        <5> QED
          BY <5>1, ConcatProperties, SMT
      <4>2. Len(p) + Len(s) = b /\ Len(p) = a - 1
        BY <1>1, <2>3, <2>5, <2>7
      <4> QED
        BY <4>1, <4>2
    <3>2. /\ w \in Seq(T) /\ Len(w) = Len(v)
          /\ \A i \in 1..Len(v) : w[i] = IF i <= b THEN ps[i] ELSE q[i - b]
      <4>1. ps \in Seq(T) /\ q \in Seq(T)
        BY <2>6, <3>1
      <4> HIDE DEF ps
      <4>2. /\ w \in Seq(T) /\ Len(w) = Len(ps) + Len(q)
            /\ \A i \in 1..Len(ps) + Len(q) :
                  w[i] = IF i <= Len(ps) THEN ps[i] ELSE q[i - Len(ps)]
        BY <4>1, ConcatProperties, SMT
      <4>3. Len(ps) = b /\ Len(ps) + Len(q) = Len(v)
        BY <1>1, <2>3, <2>6, <3>1
      <4> QED
        BY <4>2, <4>3
    <3> HIDE DEF w, ps
    <3>3. ASSUME NEW i \in 1..Len(v) PROVE w[i] = v[i]
      <4>1. CASE i <= a - 1
        <5>1. i \in 1..Len(p) /\ i \in 1..b /\ i <= b
          BY <1>1, <2>3, <2>5, <4>1
        <5> QED
          BY <2>5, <3>1, <3>2, <4>1, <5>1
      <4>2. CASE ~(i <= a - 1) /\ i <= b
        <5>1. i \in 1..b /\ i - (a - 1) \in 1..Len(s) /\ (a - 1) + (i - (a - 1)) = i
          BY <1>1, <2>3, <2>7, <4>2
        <5> QED
          BY <2>7, <3>1, <3>2, <4>2, <5>1
      <4>3. CASE ~(i <= b)
        <5>1. i - b \in 1..Len(q) /\ b + (i - b) = i
          BY <1>1, <2>3, <2>6, <4>3
        <5> QED
          BY <2>6, <3>2, <4>3, <5>1
      <4> QED
        BY <1>1, <2>3, <4>1, <4>2, <4>3
    <3>4. v = w
      BY <3>2, <3>3, SeqEqual
    <3> QED
      BY <3>4 DEF w, ps
  <2>11. s[1] # Space /\ s[Len(s)] # Space
    <3>1. 1 \in 1..Len(s) /\ Len(s) \in 1..Len(s) /\ (a - 1) + 1 = a /\ (a - 1) + Len(s) = b
      BY <2>3, <2>7
    <3> QED
      BY <2>3, <2>7, <3>1
  <2>12. Markers(s) = {}
    <3> SUFFICES ASSUME NEW i \in Markers(s) PROVE FALSE
      OBVIOUS
    <3>1. i \in 1..Len(s) - 1 /\ s[i] = Open /\ s[i + 1] = Close
      BY DEF Markers
    <3>2. /\ i \in 1..Len(s) /\ i + 1 \in 1..Len(s)
          /\ (a - 1) + (i + 1) = ((a - 1) + i) + 1
          /\ (a - 1) + i \in 1..Len(v) - 1
      BY <1>1, <2>3, <2>7, <3>1
    <3>3. v[(a - 1) + i] = Open /\ v[((a - 1) + i) + 1] = Close
      BY <2>7, <3>1, <3>2
    <3>4. (a - 1) + i \in Markers(v)
      BY <3>2, <3>3 DEF Markers
    <3> QED
      BY <3>4
  <2> QED
    BY <2>7, <2>8, <2>9, <2>10, <2>11, <2>12
<1> QED
  BY <1>3, <1>4

\* To trim the bytes of a title trims its symbols.
LEMMA TrimBytes ==
    ASSUME NEW p \in Seq({Space}), NEW s \in Seq(Symbols), NEW q \in Seq({Space}),
           s # <<>> => s[1] # Space /\ s[Len(s)] # Space
    PROVE  TrimSpace(Bytes((p \o s) \o q)) = Bytes(s)
<1>1. p \in Seq(Symbols) /\ q \in Seq(Symbols) /\ p \o s \in Seq(Symbols)
  <2>1. Space \in Symbols
    BY DEF Symbols
  <2> QED
    BY <2>1
<1>2. Bytes((p \o s) \o q) = (Bytes(p) \o Bytes(s)) \o Bytes(q)
  BY <1>1, BytesConcat
<1>3. Bytes(s) # <<>> => Bytes(s)[1] # <<Space, 1>> /\ Bytes(s)[Len(Bytes(s))] # <<Space, 1>>
  <2>1. CASE s = <<>>
    BY <2>1, BytesConcat
  <2>2. CASE s # <<>>
    BY <2>2, EndsBytes
  <2> QED
    BY <2>1, <2>2
<1>4. /\ Bytes(p) \in Seq(Byte) /\ Bytes(s) \in Seq(Byte) /\ Bytes(q) \in Seq(Byte)
      /\ \A i \in 1..Len(Bytes(p)) : Bytes(p)[i] = <<Space, 1>>
      /\ \A i \in 1..Len(Bytes(q)) : Bytes(q)[i] = <<Space, 1>>
  BY SpaceBytes, BytesConcat
<1>5. TrimSpace((Bytes(p) \o Bytes(s)) \o Bytes(q)) = Bytes(s)
  BY <1>3, <1>4, TrimIs
<1> QED
  BY <1>2, <1>5
-----------------------------------------------------------------------------
(***************************************************************************)
(* FolderName marks every name, and ordinary names once.                   *)
(***************************************************************************)

\* A text that ends with the marker is the title of a folder.
LEMMA MarkedFound ==
    ASSUME NEW Z \in Seq(Byte)
    PROVE  IsFolderTitle(Z \o marker)
<1> DEFINE text == ToLower(Z) \o marker
           i    == Len(ToLower(Z))
<1>1. ToLower(Z \o marker) = text
  <2>1. ToLower(marker) = marker /\ Begins(marker)
    <3>1. marker = Bytes(<<Open, Close>>) /\ <<Open, Close>> \in Seq(Symbols)
      BY DEF marker, Symbols
    <3>2. Begins(marker)
      BY <3>1, BytesBegin
    <3>3. ToLower(marker) = marker
      BY MarkerIs DEF Lower
    <3> QED
      BY <3>2, <3>3
  <2> QED
    BY <2>1, MarkerIs, LowerConcat
<1>2. ToLower(Z) \in Seq(Byte) /\ text \in Seq(Byte)
  BY MarkerIs, LowerConcat
<1>3. /\ i \in Nat /\ Len(text) = i + 4
      /\ \A k \in 1..4 : text[i + k] = marker[k]
  BY <1>2, MarkerIs, Joined
<1>4. i \in Starts(text)
  <2>1. /\ marker[1] = <<Open, 1>> /\ marker[2] = <<Open, 2>>
        /\ marker[3] = <<Close, 1>> /\ marker[4] = <<Close, 2>>
    BY MarkerIs
  <2> HIDE DEF text, i
  <2>2. /\ text[i + 1] = <<Open, 1>> /\ text[i + 2] = <<Open, 2>>
        /\ text[i + 3] = <<Close, 1>> /\ text[i + 4] = <<Close, 2>>
    BY <1>3, <2>1
  <2>3. i + 4 <= Len(text)
    BY <1>3
  <2> QED
    BY <1>2, <1>3, <2>2, <2>3, StartsIs
<1>5. Index(text) \in Starts(text)
  <2> HIDE DEF text, i
  <2> QED
    BY <1>2, <1>4, IndexIs
<1>6. Index(text) \in Nat
  <2> HIDE DEF text, i
  <2> QED
    BY <1>2, <1>5, StartsIs
<1> HIDE DEF text
<1> QED
  BY <1>1, <1>6 DEF IsFolderTitle

\* A title without markers is no folder's.
LEMMA UnmarkedNotFound ==
    ASSUME NEW u \in Seq(Symbols), Markers(u) = {}
    PROVE  ~IsFolderTitle(Bytes(u))
<1>1. Index(Lower(u)) = -1
  BY IndexLower
<1> QED
  BY <1>1 DEF IsFolderTitle, Lower

\* What DisplayName gives are bytes, where it does not panic.
LEMMA CleanTyped ==
    ASSUME NEW X \in Seq(Byte), ~DisplayName(X).panics
    PROVE  DisplayName(X).text \in Seq(Byte)
<1> DEFINE Typed(a) == ~a.panics => /\ a.rest \in Seq(Byte) /\ a.lower \in Seq(Byte)
                                    /\ a.kept \in Seq(Byte)
<1>1. PICK s : /\ s[0] = [rest |-> X, lower |-> ToLower(X), kept |-> <<>>, panics |-> FALSE]
               /\ \A k \in 1..Len(X) : s[k] = Cut(s[k - 1])
               /\ DisplayName(X) = [text |-> TrimSpace(s[Len(X)].kept \o s[Len(X)].rest),
                                    panics |-> s[Len(X)].panics]
  <2>1. Len(X) \in Nat
    OBVIOUS
  <2> QED
    BY <2>1, TurnsDefined
<1>2. ASSUME NEW a, Typed(a)
      PROVE  Typed(Cut(a))
  <2> DEFINE i == Index(a.lower)
  <2>1. CASE i < 0 \/ a.panics
    <3>1. Cut(a) = a
      BY <2>1 DEF Cut
    <3> HIDE DEF Typed
    <3> QED
      BY <1>2, <3>1
  <2>2. CASE ~(i < 0 \/ a.panics)
    <3> DEFINE b == [rest   |-> SubSeq(a.rest, i + Len(marker) + 1, Len(a.rest)),
                     lower  |-> SubSeq(a.lower, i + Len(marker) + 1, Len(a.lower)),
                     kept   |-> a.kept \o SubSeq(a.rest, 1, i),
                     panics |-> i + Len(marker) > Len(a.rest)]
    <3>1. Cut(a) = b
      BY <2>2 DEF Cut
    <3>2. a.rest \in Seq(Byte) /\ a.lower \in Seq(Byte) /\ a.kept \in Seq(Byte)
      BY <1>2, <2>2
    <3>3. i \in Nat /\ i + 4 <= Len(a.lower) /\ Len(marker) = 4
      <4>1. i \in Starts(a.lower)
        <5>1. i # -1
          BY <2>2
        <5> HIDE DEF i
        <5>2. IF Starts(a.lower) = {} THEN i = -1 ELSE i \in Starts(a.lower)
          BY <3>2, IndexIs DEF i
        <5> QED
          BY <5>1, <5>2
      <4> HIDE DEF i
      <4> QED
        BY <3>2, <4>1, StartsIs, MarkerIs
    <3>4. Len(a.rest) \in Nat /\ Len(a.lower) \in Nat
      BY <3>2
    <3> HIDE DEF i
    <3>5. SubSeq(a.lower, i + Len(marker) + 1, Len(a.lower)) \in Seq(Byte)
      BY <3>2, <3>3, <3>4
    <3>6. SubSeq(a.rest, i + Len(marker) + 1, Len(a.rest)) \in Seq(Byte)
      BY <3>2, <3>3, <3>4
    <3>7. ASSUME ~(i + Len(marker) > Len(a.rest))
          PROVE  a.kept \o SubSeq(a.rest, 1, i) \in Seq(Byte)
      <4>1. i <= Len(a.rest)
        BY <3>3, <3>4, <3>7
      <4>2. SubSeq(a.rest, 1, i) \in Seq(Byte)
        BY <3>2, <3>3, <3>4, <4>1
      <4> QED
        BY <3>2, <4>2
    <3>8. /\ b.rest = SubSeq(a.rest, i + Len(marker) + 1, Len(a.rest))
          /\ b.lower = SubSeq(a.lower, i + Len(marker) + 1, Len(a.lower))
          /\ b.kept = a.kept \o SubSeq(a.rest, 1, i)
          /\ b.panics = (i + Len(marker) > Len(a.rest))
      OBVIOUS
    <3> HIDE DEF b
    <3>9. ~b.panics => ~(i + Len(marker) > Len(a.rest))
      BY <3>8, Zenon
    <3>10. Typed(b)
      BY <3>5, <3>6, <3>7, <3>8, <3>9
    <3> HIDE DEF Typed
    <3> QED
      BY <3>1, <3>10
  <2> QED
    BY <2>1, <2>2
<1> DEFINE Reached == {k \in Nat : k <= Len(X) => Typed(s[k])}
<1>3. \A k \in Nat : k \in Reached
  <2>1. Typed(s[0])
    <3>1. ToLower(X) \in Seq(Byte) /\ <<>> \in Seq(Byte)
      BY LowerConcat
    <3> QED
      BY <1>1, <3>1
  <2>2. \A k \in Nat \ {0} : k - 1 \in Reached => k \in Reached
    <3> SUFFICES ASSUME NEW k \in Nat \ {0}, k - 1 \in Reached, k <= Len(X)
                 PROVE  Typed(s[k])
      OBVIOUS
    <3>1. k \in 1..Len(X) /\ k - 1 \in Nat /\ k - 1 <= Len(X)
      OBVIOUS
    <3>2. Typed(s[k - 1])
      <4> HIDE DEF Typed
      <4> QED
        BY <3>1
    <3>3. s[k] = Cut(s[k - 1])
      BY <1>1, <3>1
    <3> HIDE DEF Typed
    <3> QED
      BY <1>2, <3>2, <3>3
  <2>3. 0 \in Reached
    <3> HIDE DEF Typed
    <3> QED
      BY <2>1
  <2> HIDE DEF Reached
  <2> QED
    BY <2>2, <2>3, NaturalSet
<1>4. Typed(s[Len(X)])
  <2>1. Len(X) \in Nat /\ Len(X) <= Len(X)
    OBVIOUS
  <2>2. Len(X) \in Reached
    <3> HIDE DEF Reached
    <3> QED
      BY <1>3, <2>1
  <2> HIDE DEF Typed
  <2> QED
    BY <2>1, <2>2
<1>5. ~s[Len(X)].panics
  BY <1>1
<1>6. s[Len(X)].kept \o s[Len(X)].rest \in Seq(Byte)
  BY <1>4, <1>5
<1>7. TrimSpace(s[Len(X)].kept \o s[Len(X)].rest) \in Seq(Byte)
  BY <1>6, TrimTyped
<1> QED
  BY <1>1, <1>7

\* FolderName appends the marker, to the name it has cleaned or to nothing.
LEMMA FolderIs ==
    ASSUME NEW X
    PROVE  LET clean == DisplayName(X)
           IN  /\ FolderName(X).panics = clean.panics
               /\ clean.text = <<>> => FolderName(X).text = marker
               /\ clean.text # <<>> =>
                     FolderName(X).text = (clean.text \o Bytes(<<Space>>)) \o marker
               /\ FolderName(X) = [text |-> FolderName(X).text, panics |-> clean.panics]
<1>1. PICK text, panics : DisplayName(X) = [text |-> text, panics |-> panics]
  BY DEF DisplayName
<1> DEFINE made == IF text = <<>> THEN marker ELSE (text \o Bytes(<<Space>>)) \o marker
<1>2. FolderName(X) = [text |-> made, panics |-> panics]
  <2>1. FolderName(X) = [DisplayName(X) EXCEPT !.text =
                             IF DisplayName(X).text = <<>> THEN marker
                             ELSE (DisplayName(X).text \o Bytes(<<Space>>)) \o marker]
    BY Zenon DEF FolderName
  <2>2. DisplayName(X).text = text
    BY <1>1
  <2>3. FolderName(X) = [DisplayName(X) EXCEPT !.text = made]
    BY <2>1, <2>2, Zenon
  <2>4. \A e : [[text |-> text, panics |-> panics] EXCEPT !.text = e] =
                   [text |-> e, panics |-> panics]
    OBVIOUS
  <2> HIDE DEF made
  <2> QED
    BY <1>1, <2>3, <2>4, Zenon
<1>3. DisplayName(X).text = text /\ DisplayName(X).panics = panics
  BY <1>1
<1>4. FolderName(X).text = made /\ FolderName(X).panics = panics
  <2> HIDE DEF made
  <2> QED
    BY <1>2
<1> QED
  BY <1>2, <1>3, <1>4

\* Whatever the name, what FolderName makes of it is the title of a folder.
THEOREM NameIsMarked ==
    ASSUME NEW n \in Seq(Symbols), ~FolderName(Bytes(n)).panics
    PROVE  IsFolderTitle(FolderName(Bytes(n)).text)
<1> DEFINE X == Bytes(n)
           clean == DisplayName(X)
<1>1. clean.text \in Seq(Byte)
  <2>1. X \in Seq(Byte)
    BY BytesConcat
  <2>2. ~clean.panics
    BY FolderIs
  <2> HIDE DEF X
  <2> QED
    BY <2>1, <2>2, CleanTyped
<1>2. CASE clean.text = <<>>
  <2>1. FolderName(X).text = marker
    BY <1>2, FolderIs
  <2>2. marker = <<>> \o marker /\ <<>> \in Seq(Byte)
    BY MarkerIs
  <2> HIDE DEF X, clean
  <2>3. IsFolderTitle(FolderName(X).text)
    BY <2>1, <2>2, MarkedFound
  <2> QED
    BY <2>3 DEF X
<1>3. CASE clean.text # <<>>
  <2>1. FolderName(X).text = (clean.text \o Bytes(<<Space>>)) \o marker
    BY <1>3, FolderIs
  <2>2. Bytes(<<Space>>) \in Seq(Byte)
    <3>1. <<Space>> \in Seq(Symbols)
      BY DEF Symbols
    <3> QED
      BY <3>1, BytesConcat
  <2> HIDE DEF X, clean
  <2>3. clean.text \o Bytes(<<Space>>) \in Seq(Byte)
    BY <1>1, <2>2
  <2>4. IsFolderTitle(FolderName(X).text)
    BY <2>1, <2>3, MarkedFound
  <2> QED
    BY <2>4 DEF X
<1> QED
  BY <1>2, <1>3

\* The same of the titles that are checked.
THEOREM EveryNameIsMarkedAlways == EveryNameIsMarked
BY TitlesTyped, NameIsMarked DEF EveryNameIsMarked

Plain == Symbols \ {Grows, Shrinks}

\* Letters that keep their width disturb no cut.
LEMMA PlainAligns ==
    ASSUME NEW t \in Seq(Plain)
    PROVE  t \in Seq(Symbols) /\ CutsAlign(t)
<1>1. \A j \in DOMAIN t : t[j] \notin {Grows, Shrinks}
  BY DEF Plain
<1>2. t \in Seq(Symbols)
  BY DEF Plain
<1> QED
  BY <1>1, <1>2 DEF CutsAlign

\* The symbols of an ordinary name keep their width, before and after the
\* marker is stripped.
LEMMA OrdinaryPlain ==
    ASSUME NEW t \in Seq(Symbols), Ordinary(t)
    PROVE  t \in Seq(Plain) /\ Markers(Stripped(t)) = {}
<1>1. Len(t) \in Nat /\ t = [i \in 1..Len(t) |-> t[i]] /\ DOMAIN t = 1..Len(t)
  OBVIOUS
<1>2. \A i \in 1..Len(t) : t[i] \in Plain
  BY <1>1 DEF Ordinary, Plain
<1>3. t \in [1..Len(t) -> Plain]
  BY <1>1, <1>2
<1>4. t \in Seq(Plain)
  BY <1>1, <1>3, IsSequence
<1> QED
  BY <1>4 DEF Ordinary, OneLayer

\* What DisplayName makes of an ordinary name are the bytes of a title without
\* markers and spaces around it.
LEMMA OrdinaryClean ==
    ASSUME NEW n \in Seq(Symbols), Ordinary(n)
    PROVE  \E s \in Seq(Plain) :
              /\ Markers(s) = {}
              /\ s # <<>> => s[1] # Space /\ s[Len(s)] # Space
              /\ TrimSpace(Bytes(Stripped(n))) = Bytes(s)
              /\ DisplayName(Bytes(n)) = [text |-> Bytes(s), panics |-> FALSE]
<1>1. n \in Seq(Plain) /\ Markers(Stripped(n)) = {} /\ CutsAlign(n)
  BY OrdinaryPlain, PlainAligns
<1>2. Stripped(n) \in Seq(Plain)
  BY <1>1, StrippedTyped
<1>3. PICK p \in Seq({Space}), q \in Seq({Space}), s \in Seq(Plain) :
          /\ Stripped(n) = (p \o s) \o q
          /\ s # <<>> => s[1] # Space /\ s[Len(s)] # Space
          /\ Markers(s) = {}
  BY <1>1, <1>2, Trimmed
<1>4. s \in Seq(Symbols)
  BY PlainAligns
<1>5. TrimSpace(Bytes(Stripped(n))) = Bytes(s)
  <2>1. s # <<>> => s[1] # Space /\ s[Len(s)] # Space
    BY <1>3
  <2>2. TrimSpace(Bytes((p \o s) \o q)) = Bytes(s)
    BY <1>4, <2>1, TrimBytes
  <2> QED
    BY <1>3, <2>2, Zenon
<1>6. DisplayName(Bytes(n)) =
          [text |-> TrimSpace(Bytes(Stripped(n))), panics |-> FALSE]
  BY <1>1, MarkersStripped
<1> QED
  BY <1>3, <1>5, <1>6

\* A marker after a title without markers is stripped from it again.
LEMMA MarkerStripped ==
    ASSUME NEW w \in Seq(Plain), Markers(w) = {}
    PROVE  LET f == w \o <<Open, Close>>
           IN  /\ f \in Seq(Symbols) /\ CutsAlign(f)
               /\ Stripped(f) = w
               /\ Bytes(f) = Bytes(w) \o marker
<1> DEFINE f == w \o <<Open, Close>>
           g == Append(w, Open)
<1>1. /\ Open \in Plain /\ Close \in Plain /\ <<Open, Close>> \in Seq(Plain)
      /\ Open \in Symbols /\ Close \in Symbols /\ w \in Seq(Symbols)
  <2>1. Open \in Plain /\ Close \in Plain
    BY SymbolsDiffer DEF Plain, Symbols
  <2>2. Open \in Symbols /\ Close \in Symbols
    BY DEF Symbols
  <2>3. w \in Seq(Symbols)
    BY PlainAligns
  <2> QED
    BY <2>1, <2>2, <2>3
<1>2. f \in Seq(Plain) /\ f \in Seq(Symbols) /\ CutsAlign(f)
  <2>1. f \in Seq(Plain)
    BY <1>1
  <2> HIDE DEF f
  <2> QED
    BY <2>1, PlainAligns
<1>3. f = Append(g, Close) /\ g \in Seq(Symbols) /\ g # <<>> /\ g[Len(g)] = Open
      /\ Len(g) = Len(w) + 1 /\ Len(w) \in Nat /\ Len(f) = Len(w) + 2
  BY <1>1
<1>4. Markers(g) = {}
  <2>1. Open # Close
    BY SymbolsDiffer
  <2> QED
    BY <1>1, <2>1, MarkersAppend
<1>5. Markers(f) = {Len(w) + 1}
  <2> HIDE DEF f, g
  <2> QED
    BY <1>1, <1>3, <1>4, MarkersAppend
<1>6. SubSeq(f, 1, (Len(w) + 1) - 1) = w
  <2>1. (Len(w) + 1) - 1 = Len(w)
    BY <1>3
  <2>2. SubSeq(f, 1, Len(w)) = w
    BY <1>1, Parts
  <2> HIDE DEF f
  <2> QED
    BY <2>1, <2>2
<1>7. SubSeq(f, (Len(w) + 1) + 2, Len(f)) = <<>>
  <2> HIDE DEF f
  <2> QED
    BY <1>2, <1>3
<1>8. Stripped(f) = w \o Stripped(<<>>)
  <2>1. Len(w) + 1 \in Markers(f) /\ \A j \in Markers(f) : Len(w) + 1 <= j
    <3> HIDE DEF f
    <3> QED
      BY <1>3, <1>5
  <2> HIDE DEF f
  <2>2. Stripped(f) = SubSeq(f, 1, (Len(w) + 1) - 1)
                         \o Stripped(SubSeq(f, (Len(w) + 1) + 2, Len(f)))
    BY <1>2, <2>1, StrippedSplits
  <2> QED
    BY <1>6, <1>7, <2>2
<1>9. Stripped(<<>>) = <<>>
  <2>1. <<>> \in Seq(Symbols) /\ Markers(<<>>) = {}
    BY DEF Markers
  <2> QED
    BY <2>1, StrippedSame
<1>10. Stripped(f) = w
  <2> HIDE DEF f
  <2> QED
    BY <1>8, <1>9
<1>11. Bytes(f) = Bytes(w) \o marker
  <2>1. <<Open, Close>> \in Seq(Symbols)
    BY <1>1
  <2> QED
    BY <1>1, <2>1, BytesConcat, MarkerIs
<1> QED
  BY <1>2, <1>10, <1>11

\* DisplayName leaves no marker in an ordinary title.
THEOREM OrdinaryStripped ==
    ASSUME NEW t \in Seq(Symbols), Ordinary(t)
    PROVE  ~IsFolderTitle(DisplayName(Bytes(t)).text)
<1>1. PICK s \in Seq(Plain) :
          /\ Markers(s) = {}
          /\ DisplayName(Bytes(t)) = [text |-> Bytes(s), panics |-> FALSE]
  BY OrdinaryClean
<1>2. s \in Seq(Symbols)
  BY PlainAligns
<1>3. ~IsFolderTitle(Bytes(s))
  BY <1>1, <1>2, UnmarkedNotFound
<1>4. DisplayName(Bytes(t)).text = Bytes(s)
  BY <1>1
<1> QED
  BY <1>3, <1>4

\* FolderName gives an ordinary name a marker that DisplayName takes out again
\* and a second FolderName leaves alone; without it, it is no folder's title.
THEOREM OrdinaryFolder ==
    ASSUME NEW n \in Seq(Symbols), Ordinary(n)
    PROVE  LET folder == FolderName(Bytes(n))
           IN  /\ folder.panics = FALSE
               /\ FolderName(folder.text) = folder
               /\ DisplayName(folder.text) =
                     [text |-> TrimSpace(Bytes(Stripped(n))), panics |-> FALSE]
               /\ ~IsFolderTitle(DisplayName(folder.text).text)
<1>1. PICK s \in Seq(Plain) :
          /\ Markers(s) = {}
          /\ s # <<>> => s[1] # Space /\ s[Len(s)] # Space
          /\ TrimSpace(Bytes(Stripped(n))) = Bytes(s)
          /\ DisplayName(Bytes(n)) = [text |-> Bytes(s), panics |-> FALSE]
  BY OrdinaryClean
<1> DEFINE w == IF s = <<>> THEN <<>> ELSE s \o <<Space>>
           f == w \o <<Open, Close>>
           folder == FolderName(Bytes(n))
<1>2. s \in Seq(Symbols) /\ Space \in Plain /\ Space \in Symbols
      /\ <<Space>> \in Seq(Plain) /\ <<Space>> \in Seq(Symbols) /\ <<>> \in Seq({Space})
      /\ <<Space>> \in Seq({Space})
  <2>1. s \in Seq(Symbols)
    BY PlainAligns
  <2>2. Space \in Plain /\ Space \in Symbols
    BY SymbolsDiffer DEF Plain, Symbols
  <2> QED
    BY <2>1, <2>2
<1>3. w \in Seq(Plain) /\ Markers(w) = {}
  <2>1. CASE s = <<>>
    BY <2>1 DEF Markers
  <2>2. CASE s # <<>>
    <3>1. w = Append(s, Space) /\ w \in Seq(Plain)
      BY <1>2, <2>2
    <3>2. Markers(Append(s, Space)) = {}
      <4>1. Space # Close
        BY SymbolsDiffer
      <4> QED
        BY <1>1, <1>2, <4>1, MarkersAppend
    <3> QED
      BY <3>1, <3>2
  <2> QED
    BY <2>1, <2>2
<1>4. TrimSpace(Bytes(w)) = Bytes(s)
  <2>1. CASE s = <<>>
    <3>1. w = (<<>> \o s) \o <<>>
      BY <2>1
    <3> HIDE DEF w
    <3> QED
      BY <1>1, <1>2, <3>1, TrimBytes
  <2>2. CASE s # <<>>
    <3>1. w = (<<>> \o s) \o <<Space>>
      BY <1>2, <2>2
    <3> HIDE DEF w
    <3> QED
      BY <1>1, <1>2, <3>1, TrimBytes
  <2> QED
    BY <2>1, <2>2
<1>5. /\ f \in Seq(Symbols) /\ CutsAlign(f) /\ Stripped(f) = w
      /\ Bytes(f) = Bytes(w) \o marker
  <2> HIDE DEF w
  <2> QED
    BY <1>3, MarkerStripped
<1>6. DisplayName(Bytes(f)) = [text |-> Bytes(s), panics |-> FALSE]
  <2> HIDE DEF f, w
  <2> QED
    BY <1>4, <1>5, MarkersStripped
<1>7. Bytes(s) = <<>> <=> s = <<>>
  <2>1. Bytes(<<>>) = <<>>
    BY BytesConcat
  <2>2. Len(s) <= Len(Bytes(s))
    BY <1>2, BytesLonger
  <2>3. s # <<>> => Len(s) >= 1 /\ Len(s) \in Nat
    BY <1>2
  <2> QED
    BY <2>1, <2>2, <2>3
<1>8. \A X : DisplayName(X) = [text |-> Bytes(s), panics |-> FALSE] =>
                FolderName(X) = [text |-> Bytes(f), panics |-> FALSE]
  <2> SUFFICES ASSUME NEW X, DisplayName(X) = [text |-> Bytes(s), panics |-> FALSE]
               PROVE  FolderName(X) = [text |-> Bytes(f), panics |-> FALSE]
    OBVIOUS
  <2>1. DisplayName(X).text = Bytes(s) /\ DisplayName(X).panics = FALSE
    OBVIOUS
  <2>2. FolderName(X).text = Bytes(f)
    <3>1. CASE s = <<>>
      <4>1. FolderName(X).text = marker
        BY <1>7, <2>1, <3>1, FolderIs
      <4>2. f = <<Open, Close>>
        BY <3>1
      <4> HIDE DEF f
      <4> QED
        BY <4>1, <4>2, MarkerIs
    <3>2. CASE s # <<>>
      <4>1. FolderName(X).text = (Bytes(s) \o Bytes(<<Space>>)) \o marker
        BY <1>7, <2>1, <3>2, FolderIs
      <4>2. w = s \o <<Space>>
        BY <3>2
      <4>3. Bytes(w) = Bytes(s) \o Bytes(<<Space>>)
        <5> HIDE DEF w
        <5> QED
          BY <1>2, <4>2, BytesConcat
      <4> HIDE DEF f, w
      <4> QED
        BY <1>5, <4>1, <4>3
    <3> QED
      BY <3>1, <3>2
  <2> HIDE DEF f
  <2> QED
    BY <2>1, <2>2, FolderIs
<1>9. folder = [text |-> Bytes(f), panics |-> FALSE]
  <2> HIDE DEF f
  <2> QED
    BY <1>1, <1>8
<1>10. FolderName(Bytes(f)) = [text |-> Bytes(f), panics |-> FALSE]
  <2> HIDE DEF f
  <2> QED
    BY <1>6, <1>8
<1> HIDE DEF f
<1>11. folder.text = Bytes(f) /\ folder.panics = FALSE
  <2> HIDE DEF folder
  <2> QED
    BY <1>9
<1>12. ~IsFolderTitle(Bytes(s))
  BY <1>1, <1>2, UnmarkedNotFound
<1>13. DisplayName(folder.text) = [text |-> Bytes(s), panics |-> FALSE]
  <2> HIDE DEF folder
  <2> QED
    BY <1>6, <1>11
<1>14. DisplayName(folder.text).text = Bytes(s)
  <2> HIDE DEF folder
  <2> QED
    BY <1>13
<1>15. FolderName(folder.text) = folder
  <2> HIDE DEF folder
  <2> QED
    BY <1>9, <1>10, <1>11
<1> HIDE DEF folder
<1>16. /\ folder.panics = FALSE
       /\ FolderName(folder.text) = folder
       /\ DisplayName(folder.text) =
             [text |-> TrimSpace(Bytes(Stripped(n))), panics |-> FALSE]
       /\ ~IsFolderTitle(DisplayName(folder.text).text)
  BY <1>1, <1>11, <1>12, <1>13, <1>14, <1>15
<1> QED
  BY <1>16 DEF folder

=============================================================================
