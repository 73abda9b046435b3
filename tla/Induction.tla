------------------------------ MODULE Induction ------------------------------
(***************************************************************************)
(* Induction and recursion on natural numbers for the provers that take no *)
(* operators as parameters: a property is given as the set of the numbers  *)
(* that have it, a recursive definition by the function it steps with.     *)
(***************************************************************************)
EXTENDS Integers, FiniteSetsExt, SequencesExt, SequenceTheorems, WellFoundedInduction, TLAPS

-----------------------------------------------------------------------------
(* Induction. *)

Less == {ss \in Nat \X Nat : ss[1] < ss[2]}

\* Less is the order of the library, which has no infinite descent.
LEMMA LessIsWellFounded == IsWellFoundedOn(Less, Nat)
<1>1. Less = OpToRel(<, Nat)
  BY DEF Less, OpToRel
<1>2. QED
  BY <1>1, NatLessThanWellFounded

\* A set of natural numbers that is not empty has a least element.
LEMMA LeastElement ==
  ASSUME NEW S \in SUBSET Nat, S # {}
  PROVE  \E n \in S : \A m \in S : n <= m
<1>1. PICK n \in S : \A m \in S : ~(<<m, n>> \in Less)
  BY LessIsWellFounded, WFMin
<1>2. \A m \in S : ~(m < n)
  BY <1>1 DEF Less
<1>3. QED
  BY <1>2

\* A set with 0 and with the successor of each of its elements has all
\* natural numbers.
LEMMA Induct ==
  ASSUME NEW S, 0 \in S, \A n \in Nat : n \in S => n + 1 \in S
  PROVE  \A n \in Nat : n \in S
<1>1. SUFFICES ASSUME Nat \ S # {} PROVE FALSE
  OBVIOUS
<1>2. PICK n \in Nat \ S : \A m \in Nat \ S : n <= m
  BY <1>1, LeastElement
<1>3. n # 0 /\ n - 1 \in Nat /\ n - 1 \in S
  BY <1>2
<1>4. QED
  BY <1>2, <1>3

\* A set has all natural numbers if it has each whose predecessors it has.
LEMMA InductAll ==
  ASSUME NEW S, \A n \in Nat : (\A m \in 0..n - 1 : m \in S) => n \in S
  PROVE  \A n \in Nat : n \in S
<1>1. SUFFICES ASSUME Nat \ S # {} PROVE FALSE
  OBVIOUS
<1>2. PICK n \in Nat \ S : \A m \in Nat \ S : n <= m
  BY <1>1, LeastElement
<1>3. \A m \in 0..n - 1 : m \in S
  BY <1>2
<1>4. QED
  BY <1>2, <1>3

\* A set with m and, up to n, the successor of each of its elements has the
\* numbers from m to n.
LEMMA InductUpTo ==
  ASSUME NEW m \in Int, NEW n \in Int, NEW S,
         m <= n => m \in S, \A k \in m..n - 1 : k \in S => k + 1 \in S
  PROVE  \A k \in m..n : k \in S
<1> DEFINE T == {k \in Nat : m + k \in m..n => m + k \in S}
<1>1. 0 \in T
  OBVIOUS
<1>2. ASSUME NEW k \in Nat, k \in T PROVE k + 1 \in T
  <2>1. SUFFICES ASSUME m + (k + 1) \in m..n PROVE m + (k + 1) \in S
    OBVIOUS
  <2>2. m + k \in m..n - 1
    BY <2>1
  <2>3. m + k \in S
    BY <1>2, <2>2
  <2>4. (m + k) + 1 \in S
    BY <2>2, <2>3
  <2>5. QED
    BY <2>4
<1>3. \A k \in Nat : k \in T
  <2> HIDE DEF T
  <2>1. QED
    BY <1>1, <1>2, Induct
<1>4. ASSUME NEW k \in m..n PROVE k \in S
  <2>1. k - m \in Nat /\ m + (k - m) = k
    OBVIOUS
  <2>2. k - m \in T
    BY <1>3, <2>1
  <2>3. QED
    BY <2>1, <2>2
<1>5. QED
  BY <1>4

-----------------------------------------------------------------------------
(* Recursion. *)

\* step[k][v] is in T for the values v in T.
IsStep(step, m, n, T) == \A k \in m + 1..n, v \in T : step[k][v] \in T

\* f starts at m with a and goes on with step up to n.
Recurs(f, m, n, a, step) ==
  /\ f[m] = a
  /\ \A k \in m + 1..n : f[k] = step[k][f[k - 1]]

\* A definition by recursion from m to n is one: there is a function with
\* values in T that starts with a and goes on with step.
LEMMA Recursion ==
  ASSUME NEW T, NEW m \in Int, NEW n \in Int, m <= n, NEW a \in T, NEW step,
         IsStep(step, m, n, T)
  PROVE  \E f \in [m..n -> T] : Recurs(f, m, n, a, step)
<1> DEFINE S == {k \in m..n : \E f \in [m..k -> T] : Recurs(f, m, k, a, step)}
<1>1. m \in S
  <2>1. /\ [k \in m..m |-> a] \in [m..m -> T]
        /\ Recurs([k \in m..m |-> a], m, m, a, step)
    BY DEF Recurs
  <2>2. QED
    BY <2>1
<1>2. ASSUME NEW k \in m..n - 1, k \in S PROVE k + 1 \in S
  <2>1. PICK f \in [m..k -> T] : Recurs(f, m, k, a, step)
    BY <1>2
  <2> DEFINE g == [i \in m..k + 1 |->
                     IF i = k + 1 THEN step[i][f[k]] ELSE f[i]]
  <2>2. f[k] \in T /\ k + 1 \in m + 1..n /\ k + 1 \in m..n
    OBVIOUS
  <2>3. step[k + 1][f[k]] \in T
    BY <2>2 DEF IsStep
  <2>4. g \in [m..k + 1 -> T] /\ g[m] = a
    BY <2>1, <2>3 DEF Recurs
  <2>5. ASSUME NEW i \in m + 1..k + 1 PROVE g[i] = step[i][g[i - 1]]
    <3>1. CASE i = k + 1
      BY <3>1
    <3>2. CASE i # k + 1
      <4>1. i \in m + 1..k /\ g[i] = f[i] /\ g[i - 1] = f[i - 1]
        BY <3>2
      <4>2. QED
        BY <2>1, <4>1 DEF Recurs
    <3>3. QED
      BY <3>1, <3>2
  <2>6. Recurs(g, m, k + 1, a, step)
    BY <2>4, <2>5 DEF Recurs
  <2>7. QED
    BY <2>2, <2>4, <2>6
<1>3. n \in S
  <2>1. \A k \in m..n - 1 : k \in S => k + 1 \in S
    BY <1>2
  <2> HIDE DEF S
  <2>2. \A k \in m..n : k \in S
    BY <1>1, <2>1, InductUpTo
  <2>3. QED
    BY <2>2
<1>4. QED
  BY <1>3

-----------------------------------------------------------------------------
(* A sequence of sequences put end to end. *)

Flattening(s) ==
  CHOOSE flatten : flatten = [i \in 1..Len(s) |->
                                IF i = 1 THEN s[i] ELSE flatten[i - 1] \o s[i]]

\* The recursive function of FlattenSeq has a name.
LEMMA FlattenSeqIsFlattening ==
  ASSUME NEW s
  PROVE  FlattenSeq(s) = IF Len(s) = 0 THEN s ELSE Flattening(s)[Len(s)]
BY DEF FlattenSeq, Flattening

\* Flattening is the recursive function it is written as.
LEMMA FlatteningShape ==
  ASSUME NEW T, NEW s \in Seq(Seq(T)), Len(s) # 0
  PROVE  /\ Flattening(s) \in [1..Len(s) -> Seq(T)]
         /\ Flattening(s)[1] = s[1]
         /\ \A i \in 2..Len(s) : Flattening(s)[i] = Flattening(s)[i - 1] \o s[i]
<1> DEFINE top == Len(s)
           Is(f) == f = [i \in 1..top |->
                           IF i = 1 THEN s[i] ELSE f[i - 1] \o s[i]]
           step == [i \in 1..top |-> [v \in Seq(T) |-> v \o s[i]]]
<1>1. top \in Nat \ {0} /\ \A i \in 1..top : s[i] \in Seq(T)
  BY LenProperties, ElementOfSeq
<1>2. \A i \in 1 + 1..top, v \in Seq(T) :
        step[i][v] = v \o s[i] /\ step[i][v] \in Seq(T)
  <2>1. ASSUME NEW i \in 1 + 1..top, NEW v \in Seq(T)
        PROVE  i \in 1..top /\ v \o s[i] \in Seq(T)
    BY <1>1, ConcatProperties
  <2>2. QED
    BY <2>1
<1> HIDE DEF top
<1>3. PICK f \in [1..top -> Seq(T)] : Recurs(f, 1, top, s[1], step)
  <2>1. 1 \in Int /\ top \in Int /\ 1 <= top /\ s[1] \in Seq(T)
    BY <1>1
  <2>2. IsStep(step, 1, top, Seq(T))
    BY <1>2 DEF IsStep
  <2> HIDE DEF step
  <2>3. QED
    BY <2>1, <2>2, Recursion, Zenon
<1>4. f[1] = s[1] /\ \A i \in 2..top : f[i] = f[i - 1] \o s[i]
  <2>1. ASSUME NEW i \in 2..top PROVE f[i] = f[i - 1] \o s[i]
    <3>1. i \in 1 + 1..top /\ i - 1 \in 1..top
      BY <1>1
    <3>2. f[i - 1] \in Seq(T)
      BY <3>1
    <3> HIDE DEF step
    <3>3. step[i][f[i - 1]] = f[i - 1] \o s[i]
      BY <3>1, <3>2, <1>2, Zenon
    <3>4. f[i] = step[i][f[i - 1]]
      BY <3>1, <1>3, Zenon DEF Recurs
    <3>5. QED
      BY <3>3, <3>4, Zenon
  <2>2. QED
    BY <2>1, <1>3 DEF Recurs
<1>5. Is(f)
  <2>1. ASSUME NEW i \in 1..top
        PROVE  f[i] = IF i = 1 THEN s[i] ELSE f[i - 1] \o s[i]
    <3>1. i # 1 => i \in 2..top
      BY <1>1
    <3>2. QED
      BY <1>4, <3>1, Zenon
  <2>2. f = [i \in 1..top |-> f[i]]
    BY <1>3
  <2>3. QED
    BY <2>1, <2>2, Zenon
<1>6. Is(Flattening(s))
  BY <1>5 DEF Flattening, top
<1>7. \A i \in 1..top : Flattening(s)[i] = f[i]
  <2> DEFINE S == {i \in 1..top : Flattening(s)[i] = f[i]}
  <2>1. 1 \in Int /\ top \in Int /\ (1 <= top => 1 \in S)
    BY <1>1, <1>4, <1>6
  <2>2. ASSUME NEW i \in 1..top - 1, i \in S PROVE i + 1 \in S
    <3>1. i + 1 \in 1..top /\ i + 1 \in 2..top /\ (i + 1) - 1 = i /\ i + 1 # 1
      BY <1>1
    <3>2. Flattening(s)[i + 1] = Flattening(s)[(i + 1) - 1] \o s[i + 1]
      BY <1>6, <3>1, Zenon
    <3>3. f[i + 1] = f[(i + 1) - 1] \o s[i + 1]
      BY <1>4, <3>1, Zenon
    <3>4. QED
      BY <2>2, <3>1, <3>2, <3>3
  <2>3. \A i \in 1..top : i \in S
    <3>1. \A i \in 1..top - 1 : i \in S => i + 1 \in S
      BY <2>2
    <3> HIDE DEF S
    <3>2. QED
      BY <2>1, <3>1, InductUpTo, Zenon
  <2>4. QED
    BY <2>3
<1>8. Flattening(s) = f
  <2>1. Flattening(s) = [i \in 1..top |-> Flattening(s)[i]]
    BY <1>6, Zenon
  <2>2. f = [i \in 1..top |-> f[i]]
    BY <1>3
  <2>3. QED
    BY <1>7, <2>1, <2>2, Zenon
<1>9. QED
  BY <1>4, <1>8 DEF top

\* FlattenSeq of a longer sequence puts the last element behind the others.
LEMMA FlattenAppend ==
  ASSUME NEW T, NEW s \in Seq(Seq(T)), NEW x \in Seq(T)
  PROVE  /\ FlattenSeq(s) \in Seq(T)
         /\ FlattenSeq(Append(s, x)) = FlattenSeq(s) \o x
<1> DEFINE d == Append(s, x)
           top == Len(s)
<1>1. /\ top \in Nat /\ d \in Seq(Seq(T)) /\ Len(d) = top + 1
      /\ d[top + 1] = x /\ \A i \in 1..top : d[i] = s[i]
  BY AppendProperties, LenProperties
<1> HIDE DEF d
<1>2. CASE top = 0
  <2>1. s = <<>> /\ <<>> \in Seq(T)
    BY <1>2, EmptySeq
  <2>2. FlattenSeq(s) = <<>>
    BY <1>2, <2>1, FlattenSeqIsFlattening
  <2>3. FlattenSeq(d) = x
    <3>1. Len(d) = 1 /\ Len(d) # 0 /\ d[1] = x
      BY <1>1, <1>2
    <3>2. FlattenSeq(d) = Flattening(d)[1]
      BY <3>1, FlattenSeqIsFlattening
    <3>3. Flattening(d)[1] = d[1]
      BY <1>1, <3>1, FlatteningShape, Zenon
    <3>4. QED
      BY <3>1, <3>2, <3>3
  <2>4. <<>> \o x = x
    BY ConcatEmptySeq
  <2>5. QED
    BY <2>1, <2>2, <2>3, <2>4 DEF d
<1>3. CASE top # 0
  <2> DEFINE S == {i \in 1..top : Flattening(d)[i] = Flattening(s)[i]}
  <2>0. Len(s) # 0 /\ Len(d) # 0
    BY <1>1, <1>3
  <2>1. 1 \in Int /\ top \in Int /\ (1 <= top => 1 \in S)
    <3>1. Flattening(s)[1] = s[1] /\ Flattening(d)[1] = d[1]
      BY <1>1, <2>0, FlatteningShape, Zenon
    <3>2. QED
      BY <1>1, <3>1
  <2>2. ASSUME NEW i \in 1..top - 1, i \in S PROVE i + 1 \in S
    <3>1. /\ i + 1 \in 1..top /\ i + 1 \in 2..top /\ i + 1 \in 2..top + 1
          /\ (i + 1) - 1 = i
      BY <1>1
    <3>2. /\ Flattening(s)[i + 1] = Flattening(s)[(i + 1) - 1] \o s[i + 1]
          /\ Flattening(d)[i + 1] = Flattening(d)[(i + 1) - 1] \o d[i + 1]
      BY <1>1, <2>0, <3>1, FlatteningShape
    <3>3. QED
      BY <1>1, <2>2, <3>1, <3>2
  <2>3. \A i \in 1..top - 1 : i \in S => i + 1 \in S
    BY <2>2
  <2>4. \A i \in 1..top : i \in S
    <3> HIDE DEF S, top
    <3>1. QED
      BY <2>1, <2>3, InductUpTo, Zenon
  <2>5. Flattening(d)[top] = Flattening(s)[top] /\ Flattening(s)[top] \in Seq(T)
    <3>1. Flattening(s) \in [1..top -> Seq(T)]
      BY <2>0, FlatteningShape, Zenon
    <3>2. top \in 1..top
      BY <1>1, <1>3
    <3>3. QED
      BY <2>4, <3>1, <3>2
  <2>6. Flattening(d)[top + 1] = Flattening(d)[(top + 1) - 1] \o d[top + 1]
    <3>1. top + 1 \in 2..Len(d)
      BY <1>1, <1>3
    <3>2. QED
      BY <1>1, <2>0, <3>1, FlatteningShape, Zenon
  <2>7. /\ FlattenSeq(s) = Flattening(s)[top]
        /\ FlattenSeq(d) = Flattening(d)[top + 1]
    BY <1>1, <2>0, FlattenSeqIsFlattening
  <2>8. (top + 1) - 1 = top
    BY <1>1
  <2>9. QED
    BY <1>1, <2>5, <2>6, <2>7, <2>8 DEF d
<1>4. QED
  BY <1>2, <1>3

-----------------------------------------------------------------------------
(* Sequences: what is left of one from a position on. *)

\* The elements from position p on.
LEMMA SuffixShape ==
  ASSUME NEW T, NEW s \in Seq(T), NEW p \in 1..Len(s) + 1
  PROVE  /\ SubSeq(s, p, Len(s)) \in Seq(T)
         /\ Len(SubSeq(s, p, Len(s))) = Len(s) - p + 1
         /\ \A i \in 1..Len(s) - p + 1 : SubSeq(s, p, Len(s))[i] = s[p + i - 1]
         /\ p <= Len(s) => SubSeq(s, p, Len(s)) # <<>>
<1>1. Len(s) \in Nat /\ \A i \in p..Len(s) : s[i] \in T
  BY ElementOfSeq
<1>2. /\ SubSeq(s, p, Len(s)) \in Seq(T)
      /\ Len(SubSeq(s, p, Len(s))) = IF p <= Len(s) THEN Len(s) - p + 1 ELSE 0
      /\ \A i \in 1..Len(s) - p + 1 : SubSeq(s, p, Len(s))[i] = s[p + i - 1]
  BY <1>1, SubSeqProperties
<1>3. Len(SubSeq(s, p, Len(s))) = Len(s) - p + 1
  BY <1>1, <1>2
<1>4. p <= Len(s) => Len(SubSeq(s, p, Len(s))) # 0
  BY <1>1, <1>3
<1>5. p <= Len(s) => SubSeq(s, p, Len(s)) # <<>>
  BY <1>4, EmptySeq, Zenon
<1>6. QED
  BY <1>2, <1>3, <1>5

\* The first of them, and those behind it.
LEMMA SuffixTail ==
  ASSUME NEW T, NEW s \in Seq(T), NEW p \in 1..Len(s)
  PROVE  /\ Head(SubSeq(s, p, Len(s))) = s[p]
         /\ Tail(SubSeq(s, p, Len(s))) = SubSeq(s, p + 1, Len(s))
<1>1. Len(s) \in Nat /\ Len(s) \in p..Len(s)
  OBVIOUS
<1>2. QED
  BY <1>1, HeadTailOfSubSeq

\* The first 1 + w of them, and those behind the first w.
LEMMA SuffixSplit ==
  ASSUME NEW T, NEW s \in Seq(T), NEW p \in 1..Len(s), NEW w \in 0..Len(s) - p
  PROVE  /\ SubSeq(SubSeq(s, p, Len(s)), 1, 1 + w) = SubSeq(s, p, p + w)
         /\ SubSeq(SubSeq(s, p, Len(s)), 1 + w, Len(SubSeq(s, p, Len(s))))
              = SubSeq(s, p + w, Len(s))
         /\ SubSeq(s, p, p + w) \in Seq(T)
         /\ SubSeq(s, p, Len(s))
              = SubSeq(s, p, p + w) \o SubSeq(s, p + w + 1, Len(s))
<1> DEFINE d == SubSeq(s, p, Len(s))
<1>1. Len(s) \in Nat /\ Len(d) = Len(s) - p + 1 /\ d \in Seq(T)
  BY SuffixShape
<1>2. /\ Len(s) \in 1..Len(s)
      /\ 1 \in 1..Len(s) - p + 1 /\ 1 + w \in 1..Len(s) - p + 1
      /\ Len(s) - p + 1 \in 1..Len(s) - p + 1
      /\ p + 1 - 1 = p /\ p + (1 + w) - 1 = p + w
      /\ p + (Len(s) - p + 1) - 1 = Len(s)
  BY <1>1
<1>3. SubSeq(d, 1, 1 + w) = SubSeq(s, p + 1 - 1, p + (1 + w) - 1)
  BY <1>1, <1>2, SubSeqOfSubSeq
<1>4. SubSeq(d, 1 + w, Len(s) - p + 1)
        = SubSeq(s, p + (1 + w) - 1, p + (Len(s) - p + 1) - 1)
  BY <1>1, <1>2, SubSeqOfSubSeq
<1>5. SubSeq(s, p, p + w) \in Seq(T)
  <2>1. \A i \in p..p + w : s[i] \in T
    BY <1>1, ElementOfSeq
  <2>2. p \in Int /\ p + w \in Int
    BY <1>1
  <2>3. QED
    BY <2>1, <2>2, SubSeqProperties
<1>6. SubSeq(s, p, Len(s)) = SubSeq(s, p, p + w) \o SubSeq(s, p + w + 1, Len(s))
  <2>1. /\ p \in 1..Len(s) + 1 /\ p + w \in p - 1..Len(s)
        /\ Len(s) \in p + w..Len(s)
    BY <1>1
  <2>2. QED
    BY <2>1, ConcatAdjacentSubSeq, Zenon
<1>7. QED
  BY <1>1, <1>2, <1>3, <1>4, <1>5, <1>6, Zenon DEF d

\* A sequence is a prefix of itself with another one behind it.
LEMMA PrefixOfConcat ==
  ASSUME NEW T, NEW s \in Seq(T), NEW t \in Seq(T)
  PROVE  IsPrefix(s, s \o t)
<1>1. /\ s \o t \in Seq(T) /\ Len(s \o t) = Len(s) + Len(t)
      /\ Len(s) \in Nat /\ Len(t) \in Nat
      /\ \A i \in 1..Len(s) + Len(t) :
           (s \o t)[i] = IF i <= Len(s) THEN s[i] ELSE t[i - Len(s)]
  BY ConcatProperties
<1> DEFINE d == s \o t
<1> HIDE DEF d
<1>2. Len(d) = Len(s) + Len(t) /\ d \in Seq(T)
  BY <1>1 DEF d
<1>3. \A i \in 1..Len(s) : d[i] = s[i] /\ d[i] \in T
  <2>1. ASSUME NEW i \in 1..Len(s) PROVE d[i] = s[i]
    <3>1. i \in 1..Len(s) + Len(t) /\ i <= Len(s)
      BY <1>1
    <3>2. QED
      BY <1>1, <3>1 DEF d
  <2>2. QED
    BY <2>1, ElementOfSeq
<1>4. /\ SubSeq(d, 1, Len(s)) \in Seq(T)
      /\ Len(SubSeq(d, 1, Len(s))) = IF 1 <= Len(s) THEN Len(s) - 1 + 1 ELSE 0
      /\ \A i \in 1..Len(s) - 1 + 1 : SubSeq(d, 1, Len(s))[i] = d[1 + i - 1]
  <2>1. 1 \in Int /\ Len(s) \in Int
    BY <1>1
  <2>2. QED
    BY <1>3, <2>1, SubSeqProperties
<1>5. Len(SubSeq(d, 1, Len(s))) = Len(s)
  BY <1>1, <1>4
<1>6. \A i \in 1..Len(SubSeq(d, 1, Len(s))) : SubSeq(d, 1, Len(s))[i] = s[i]
  <2>1. ASSUME NEW i \in 1..Len(s) PROVE SubSeq(d, 1, Len(s))[i] = d[i]
    <3>1. i \in 1..Len(s) - 1 + 1 /\ 1 + i - 1 = i
      BY <1>1
    <3>2. QED
      BY <1>4, <3>1
  <2>2. QED
    BY <1>3, <1>5, <2>1
<1>7. SubSeq(d, 1, Len(s)) = s
  BY <1>4, <1>5, <1>6, SeqEqual
<1>8. SubSeq(s, 1, Len(s)) = s
  BY SubSeqFull
<1>9. Len(s) <= Len(d)
  BY <1>1, <1>2
<1>10. QED
  BY <1>7, <1>8, <1>9 DEF IsPrefix, d

\* The largest element of a set of numbers that has a bound.
LEMMA MaxShape ==
  ASSUME NEW S \in SUBSET Int, S # {}, NEW n \in Int, \A x \in S : x <= n
  PROVE  Max(S) \in S /\ \A x \in S : x <= Max(S)
<1> DEFINE D == {n - x : x \in S}
<1>1. D \in SUBSET Nat /\ D # {}
  <2>1. ASSUME NEW x \in S PROVE n - x \in Nat
    OBVIOUS
  <2>2. QED
    BY <2>1
<1>2. PICK k \in D : \A m \in D : k <= m
  BY <1>1, LeastElement
<1>3. PICK x \in S : k = n - x
  OBVIOUS
<1>4. ASSUME NEW y \in S PROVE x >= y
  <2>1. n - y \in D
    OBVIOUS
  <2>2. k <= n - y
    BY <1>2, <2>1
  <2>3. QED
    BY <1>3, <2>2
<1>5. Max(S) \in S /\ \A y \in S : Max(S) >= y
  BY <1>4 DEF Max
<1>6. QED
  BY <1>5

\* The smallest one.
LEMMA MinShape ==
  ASSUME NEW S \in SUBSET Int, S # {}, NEW n \in Int, \A x \in S : n <= x
  PROVE  Min(S) \in S /\ \A x \in S : Min(S) <= x
<1> DEFINE D == {x - n : x \in S}
<1>1. D \in SUBSET Nat /\ D # {}
  <2>1. ASSUME NEW x \in S PROVE x - n \in Nat
    OBVIOUS
  <2>2. QED
    BY <2>1
<1>2. PICK k \in D : \A m \in D : k <= m
  BY <1>1, LeastElement
<1>3. PICK x \in S : k = x - n
  OBVIOUS
<1>4. ASSUME NEW y \in S PROVE x <= y
  <2>1. y - n \in D
    OBVIOUS
  <2>2. k <= y - n
    BY <1>2, <2>1
  <2>3. QED
    BY <1>3, <2>2
<1>5. QED
  BY <1>4 DEF Min

-----------------------------------------------------------------------------
(* Sequences: induction, and what is left of one that is two end to end. *)

\* A set with the empty sequence and with each sequence that is longer by one
\* than a sequence in it has all sequences.
LEMMA SeqInduct ==
  ASSUME NEW T, NEW S, <<>> \in S,
         \A s \in Seq(T), x \in T : s \in S => Append(s, x) \in S
  PROVE  \A s \in Seq(T) : s \in S
<1> DEFINE N == {n \in Nat : \A s \in Seq(T) : Len(s) = n => s \in S}
<1>1. 0 \in N
  <2>1. ASSUME NEW s \in Seq(T), Len(s) = 0 PROVE s \in S
    <3>1. s = <<>>
      BY <2>1, EmptySeq
    <3>2. QED
      BY <3>1
  <2>2. QED
    BY <2>1
<1>2. ASSUME NEW n \in Nat, n \in N PROVE n + 1 \in N
  <2>1. ASSUME NEW s \in Seq(T), Len(s) = n + 1 PROVE s \in S
    <3>1. s # <<>>
      BY <2>1, EmptySeq
    <3>2. PICK t \in Seq(T), x \in T : s = Append(t, x)
      BY <3>1, SequenceEmptyOrAppend
    <3>3. Len(s) = Len(t) + 1 /\ Len(t) \in Nat
      BY <3>2, AppendProperties, LenProperties
    <3>4. Len(t) = n
      BY <2>1, <3>3
    <3>5. t \in S
      BY <1>2, <3>4
    <3>6. QED
      BY <3>2, <3>5
  <2>2. QED
    BY <2>1
<1>3. \A n \in Nat : n \in N
  <2>1. \A n \in Nat : n \in N => n + 1 \in N
    BY <1>2
  <2> HIDE DEF N
  <2>2. QED
    BY <1>1, <2>1, Induct, Zenon
<1>4. QED
  BY <1>3, LenProperties

LEMMA FunctionIsSeq ==
  ASSUME NEW n \in Nat, NEW T, NEW f \in [1..n -> T]
  PROVE  f \in Seq(T) /\ Len(f) = n
<1>1. f \in Seq(T) /\ DOMAIN f = 1..n
  BY SeqDef
<1>2. Len(f) \in Nat /\ DOMAIN f = 1..Len(f)
  BY <1>1, LenProperties
<1>3. QED
  BY <1>1, <1>2

\* The elements of a sequence from position k on.
Onward(s, k) == SubSeq(s, k, Len(s))

LEMMA OnwardAll ==
  ASSUME NEW T, NEW s \in Seq(T)
  PROVE  Onward(s, 1) = s /\ Onward(s, Len(s) + 1) = <<>>
<1>1. Len(s) \in Nat
  BY LenProperties
<1>2. SubSeq(s, Len(s) + 1, Len(s)) = <<>>
  <2>1. Len(s) + 1 \in Int /\ Len(s) \in Int /\ Len(s) < Len(s) + 1
    BY <1>1
  <2>2. QED
    BY <2>1, SubSeqEmpty, Zenon
<1>3. QED
  BY <1>2, SubSeqFull DEF Onward

\* From position k on t is a with b behind it.
IsMadeOf(t, k, a, b) == Onward(t, k) = a \o b

\* Behind a there is the rest b.
LEMMA OnwardOfConcat ==
  ASSUME NEW T, NEW t \in Seq(T), NEW a \in Seq(T), NEW b \in Seq(T),
         NEW k \in 1..Len(t) + 1, IsMadeOf(t, k, a, b)
  PROVE  /\ k + Len(a) \in 1..Len(t) + 1
         /\ Onward(t, k + Len(a)) = b
         /\ Len(t) = k + Len(a) + Len(b) - 1
         /\ \A j \in 1..Len(a) : t[k + j - 1] = a[j]
         /\ \A j \in 1..Len(b) : t[k + Len(a) + j - 1] = b[j]
<1> DEFINE la == Len(a)
           lb == Len(b)
           lt == Len(t)
<1>1. la \in Nat /\ lb \in Nat /\ lt \in Nat /\ k \in 1..lt + 1
  BY LenProperties
<1>2. /\ a \o b \in Seq(T) /\ Len(a \o b) = la + lb
      /\ \A j \in 1..la + lb : (a \o b)[j] = IF j <= la THEN a[j] ELSE b[j - la]
  BY ConcatProperties
<1>3. /\ Len(Onward(t, k)) = lt - k + 1
      /\ \A j \in 1..lt - k + 1 : Onward(t, k)[j] = t[k + j - 1]
  BY SuffixShape DEF Onward
<1> DEFINE d == Onward(t, k)
<1>4. Len(d) = la + lb /\ lt = k + la + lb - 1 /\ lt - k + 1 = la + lb
  BY <1>1, <1>2, <1>3 DEF IsMadeOf
<1>5. \A j \in 1..la + lb : t[k + j - 1] = IF j <= la THEN a[j] ELSE b[j - la]
  BY <1>2, <1>3, <1>4 DEF IsMadeOf
<1> HIDE DEF la, lb, lt, d
<1>6. k + la \in 1..lt + 1
  BY <1>1, <1>4
<1>7. \A j \in 1..la : t[k + j - 1] = a[j]
  <2>1. ASSUME NEW j \in 1..la PROVE t[k + j - 1] = a[j]
    <3>1. j \in 1..la + lb /\ j <= la
      BY <1>1
    <3>2. QED
      BY <1>5, <3>1
  <2>2. QED
    BY <2>1
<1>8. \A j \in 1..lb : t[k + la + j - 1] = b[j]
  <2>1. ASSUME NEW j \in 1..lb PROVE t[k + la + j - 1] = b[j]
    <3>1. /\ la + j \in 1..la + lb /\ ~(la + j <= la) /\ (la + j) - la = j
          /\ k + (la + j) - 1 = k + la + j - 1
      BY <1>1
    <3>2. QED
      BY <1>5, <3>1, Zenon
  <2>2. QED
    BY <2>1
<1>9. Onward(t, k + la) = b
  <2> DEFINE e == Onward(t, k + la)
  <2>1. /\ e \in Seq(T) /\ Len(e) = lt - (k + la) + 1
        /\ \A j \in 1..lt - (k + la) + 1 : e[j] = t[(k + la) + j - 1]
    BY <1>6, SuffixShape DEF Onward, lt
  <2>2. Len(e) = lb /\ lt - (k + la) + 1 = lb
    BY <1>1, <1>4, <2>1
  <2> HIDE DEF e
  <2>3. \A j \in 1..Len(e) : e[j] = b[j]
    BY <1>8, <2>1, <2>2
  <2>4. e = b
    BY <2>1, <2>2, <2>3, SeqEqual DEF lb
  <2>5. QED
    BY <2>4 DEF e
<1>10. QED
  BY <1>4, <1>6, <1>7, <1>8, <1>9 DEF la, lb, lt

\* The first of what is left, and the rest.
LEMMA OnwardFirst ==
  ASSUME NEW T, NEW s \in Seq(T), NEW k \in 1..Len(s)
  PROVE  /\ Onward(s, k) = <<s[k]>> \o Onward(s, k + 1)
         /\ Onward(s, k) \in Seq(T) /\ Onward(s, k + 1) \in Seq(T)
         /\ <<s[k]>> \in Seq(T)
<1>1. Len(s) \in Nat /\ Len(s) \in k..Len(s) /\ k \in 1..Len(s) + 1
      /\ k + 1 \in 1..Len(s) + 1
  BY LenProperties
<1>2. Onward(s, k) = <<s[k]>> \o Onward(s, k + 1)
  BY <1>1, SubSeqRecursiveFirst DEF Onward
<1>3. Onward(s, k) \in Seq(T) /\ Onward(s, k + 1) \in Seq(T)
  BY <1>1, SuffixShape DEF Onward
<1>4. s[k] \in T
  BY ElementOfSeq
<1>5. QED
  BY <1>2, <1>3, <1>4

-----------------------------------------------------------------------------
(* Sequences put end to end: from the front, and in a set of sequences. *)

LEMMA FlattenFew ==
  ASSUME NEW T, NEW x \in Seq(T)
  PROVE  FlattenSeq(<<>>) = <<>> /\ FlattenSeq(<<x>>) = x
<1>1. Len(<<>>) = 0 /\ <<>> \in Seq(T) /\ <<>> \in Seq(Seq(T))
  BY EmptySeq
<1>2. FlattenSeq(<<>>) = <<>>
  BY <1>1, FlattenSeqIsFlattening
<1>3. FlattenSeq(Append(<<>>, x)) = FlattenSeq(<<>>) \o x
  BY <1>1, FlattenAppend
<1>4. Append(<<>>, x) = <<x>> /\ <<>> \o x = x
  BY ConcatEmptySeq
<1>5. QED
  BY <1>2, <1>3, <1>4

LEMMA FlattenConcat ==
  ASSUME NEW T, NEW s \in Seq(Seq(T)), NEW t \in Seq(Seq(T))
  PROVE  FlattenSeq(s \o t) = FlattenSeq(s) \o FlattenSeq(t)
<1> DEFINE S == {u \in Seq(Seq(T)) :
                   FlattenSeq(s \o u) = FlattenSeq(s) \o FlattenSeq(u)}
<1>0. FlattenSeq(s) \in Seq(T)
  <2>1. <<>> \in Seq(T)
    BY EmptySeq
  <2>2. QED
    BY <2>1, FlattenAppend
<1>1. <<>> \in S
  <2>1. <<>> \in Seq(Seq(T)) /\ <<>> \in Seq(T)
    BY EmptySeq
  <2>2. FlattenSeq(<<>>) = <<>>
    BY <2>1, FlattenFew
  <2>3. s \o <<>> = s /\ FlattenSeq(s) \o <<>> = FlattenSeq(s)
    BY <1>0, ConcatEmptySeq
  <2>4. QED
    BY <2>1, <2>2, <2>3
<1>2. ASSUME NEW u \in Seq(Seq(T)), NEW x \in Seq(T), u \in S
      PROVE  Append(u, x) \in S
  <2>1. /\ s \o u \in Seq(Seq(T))
        /\ Append(u, x) \in Seq(Seq(T))
    BY ConcatProperties, AppendProperties
  <2>2. s \o Append(u, x) = Append(s \o u, x)
    <3>1. Append(u, x) = u \o <<x>> /\ Append(s \o u, x) = (s \o u) \o <<x>>
      BY <2>1, AppendIsConcat
    <3>2. (s \o u) \o <<x>> = s \o (u \o <<x>>)
      <4>1. <<x>> \in Seq(Seq(T))
        OBVIOUS
      <4>2. QED
        BY <4>1, ConcatAssociative
    <3>3. QED
      BY <3>1, <3>2
  <2>3. /\ FlattenSeq(Append(s \o u, x)) = FlattenSeq(s \o u) \o x
        /\ FlattenSeq(Append(u, x)) = FlattenSeq(u) \o x
        /\ FlattenSeq(u) \in Seq(T)
    BY <2>1, FlattenAppend
  <2>4. (FlattenSeq(s) \o FlattenSeq(u)) \o x
          = FlattenSeq(s) \o (FlattenSeq(u) \o x)
    BY <1>0, <2>3, ConcatAssociative
  <2>5. FlattenSeq(s \o u) = FlattenSeq(s) \o FlattenSeq(u)
    BY <1>2
  <2>6. QED
    BY <2>1, <2>2, <2>3, <2>4, <2>5, Zenon
<1>3. \A u \in Seq(Seq(T)) : u \in S
  <2>1. \A u \in Seq(Seq(T)), x \in Seq(T) : u \in S => Append(u, x) \in S
    BY <1>2
  <2> HIDE DEF S
  <2>2. QED
    BY <1>1, <2>1, SeqInduct, Zenon
<1>4. QED
  BY <1>3

\* The first of the sequences that are left comes first.
LEMMA FlattenOnward ==
  ASSUME NEW T, NEW s \in Seq(Seq(T))
  PROVE  /\ \A k \in 1..Len(s) : FlattenSeq(Onward(s, k))
                                   = s[k] \o FlattenSeq(Onward(s, k + 1))
         /\ FlattenSeq(Onward(s, Len(s) + 1)) = <<>>
         /\ \A k \in 1..Len(s) + 1 : FlattenSeq(Onward(s, k)) \in Seq(T)
<1>0. <<>> \in Seq(T) /\ Len(s) \in Nat
  BY EmptySeq, LenProperties
<1>1. ASSUME NEW k \in 1..Len(s)
      PROVE  FlattenSeq(Onward(s, k)) = s[k] \o FlattenSeq(Onward(s, k + 1))
  <2>1. /\ Onward(s, k) = <<s[k]>> \o Onward(s, k + 1)
        /\ Onward(s, k + 1) \in Seq(Seq(T)) /\ <<s[k]>> \in Seq(Seq(T))
    BY OnwardFirst
  <2>2. s[k] \in Seq(T)
    BY ElementOfSeq
  <2>3. FlattenSeq(<<s[k]>>) = s[k]
    BY <2>2, FlattenFew
  <2>4. FlattenSeq(<<s[k]>> \o Onward(s, k + 1))
          = FlattenSeq(<<s[k]>>) \o FlattenSeq(Onward(s, k + 1))
    BY <2>1, FlattenConcat
  <2>5. QED
    BY <2>1, <2>3, <2>4
<1>2. FlattenSeq(Onward(s, Len(s) + 1)) = <<>>
  BY <1>0, OnwardAll, FlattenFew
<1>3. ASSUME NEW k \in 1..Len(s) + 1 PROVE FlattenSeq(Onward(s, k)) \in Seq(T)
  <2>1. Onward(s, k) \in Seq(Seq(T))
    BY SuffixShape DEF Onward
  <2>2. QED
    BY <1>0, <2>1, FlattenAppend
<1>4. QED
  BY <1>1, <1>2, <1>3

\* What is put together from sequences of a set that is closed under this is
\* in the set.
LEMMA FlattenClosed ==
  ASSUME NEW T, NEW C \in SUBSET Seq(T), <<>> \in C,
         \A a \in C, b \in C : a \o b \in C, NEW s \in Seq(C)
  PROVE  FlattenSeq(s) \in C
<1> DEFINE S == {u \in Seq(C) : FlattenSeq(u) \in C}
<1>1. <<>> \in S
  <2>1. <<>> \in Seq(C) /\ <<>> \in Seq(T)
    BY EmptySeq
  <2>2. FlattenSeq(<<>>) = <<>>
    BY <2>1, FlattenFew
  <2>3. QED
    BY <2>1, <2>2
<1>2. ASSUME NEW u \in Seq(C), NEW x \in C, u \in S PROVE Append(u, x) \in S
  <2>1. Append(u, x) \in Seq(C)
    BY AppendProperties
  <2>2. u \in Seq(Seq(T)) /\ x \in Seq(T)
    BY SeqMonotonic
  <2>3. FlattenSeq(Append(u, x)) = FlattenSeq(u) \o x
    BY <2>2, FlattenAppend
  <2>4. QED
    BY <1>2, <2>1, <2>3
<1>3. \A u \in Seq(C) : u \in S
  <2>1. \A u \in Seq(C), x \in C : u \in S => Append(u, x) \in S
    BY <1>2
  <2> HIDE DEF S
  <2>2. QED
    BY <1>1, <2>1, SeqInduct, Zenon
<1>4. QED
  BY <1>3

\* Two sequences end to end start as the first does.
LEMMA ConcatFirst ==
  ASSUME NEW T, NEW a \in Seq(T), NEW b \in Seq(T), a # <<>>
  PROVE  a \o b # <<>> /\ (a \o b)[1] = a[1]
<1> DEFINE d == a \o b
           la == Len(a)
<1>1. /\ d \in Seq(T) /\ Len(d) = la + Len(b)
      /\ \A j \in 1..la + Len(b) : d[j] = IF j <= la THEN a[j] ELSE b[j - la]
  BY ConcatProperties
<1>2. la \in Nat /\ Len(b) \in Nat /\ la # 0
  BY EmptySeq, LenProperties
<1> HIDE DEF d, la
<1>3. Len(d) # 0 /\ 1 \in 1..la + Len(b) /\ 1 <= la
  BY <1>1, <1>2
<1>4. d # <<>> /\ d[1] = a[1]
  BY <1>1, <1>3, EmptySeq
<1>5. QED
  BY <1>4 DEF d

LEMMA ConcatThree ==
  ASSUME NEW T, NEW a \in Seq(T), NEW b \in Seq(T), NEW d \in Seq(T)
  PROVE  /\ (a \o b) \o d = a \o (b \o d)
         /\ (a \o b) \o d \in Seq(T) /\ a \o b \in Seq(T) /\ b \o d \in Seq(T)
BY ConcatAssociative, ConcatProperties

\* The same for a name of \o, which the provers regroup more easily.
Joined(a, b) == a \o b

LEMMA Regroup ==
  ASSUME NEW T, NEW a \in Seq(T), NEW b \in Seq(T), NEW d \in Seq(T)
  PROVE  /\ Joined(a, b) \in Seq(T)
         /\ Joined(Joined(a, b), d) = Joined(a, Joined(b, d))
BY ConcatThree DEF Joined

LEMMA RegroupFour ==
  ASSUME NEW T, NEW a \in Seq(T), NEW b \in Seq(T), NEW d \in Seq(T), NEW e \in Seq(T)
  PROVE  /\ Joined(Joined(Joined(a, b), d), e) = Joined(a, Joined(b, Joined(d, e)))
         /\ Joined(Joined(a, b), d) \in Seq(T)
BY Regroup

\* An element that is in neither is not in the two end to end.
LEMMA ConcatNone ==
  ASSUME NEW T, NEW K, NEW a \in Seq(T), NEW b \in Seq(T),
         \A j \in 1..Len(a) : a[j] \notin K, \A j \in 1..Len(b) : b[j] \notin K
  PROVE  \A j \in 1..Len(a \o b) : (a \o b)[j] \notin K
<1> DEFINE d == a \o b
           la == Len(a)
           lb == Len(b)
<1>1. /\ la \in Nat /\ lb \in Nat /\ Len(d) = la + lb
      /\ \A j \in 1..la + lb : d[j] = IF j <= la THEN a[j] ELSE b[j - la]
  BY ConcatProperties, LenProperties
<1>2. (\A j \in 1..la : a[j] \notin K) /\ \A j \in 1..lb : b[j] \notin K
  OBVIOUS
<1> HIDE DEF d, la, lb
<1>3. ASSUME NEW j \in 1..la + lb PROVE d[j] \notin K
  <2>1. CASE j <= la
    <3>1. j \in 1..la /\ d[j] = a[j]
      BY <1>1, <2>1
    <3>2. QED
      BY <1>2, <3>1
  <2>2. CASE ~(j <= la)
    <3>1. j - la \in 1..lb /\ d[j] = b[j - la]
      BY <1>1, <2>2
    <3>2. QED
      BY <1>2, <3>1
  <2>3. QED
    BY <2>1, <2>2
<1>4. QED
  BY <1>1, <1>3 DEF d

=============================================================================
