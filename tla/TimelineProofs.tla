---------------------------- MODULE TimelineProofs ----------------------------
(***************************************************************************)
(* Theorems about Timeline and the TilePreloader it holds: types, the      *)
(* books of the preloader, the buffering indicator, and the agreement of   *)
(* playhead and page, for any hours, ladders, tiles and bounds.            *)
(***************************************************************************)
EXTENDS Timeline, SequenceTheorems, FiniteSetTheorems, WellFoundedInduction, TLAPS

-----------------------------------------------------------------------------
(***************************************************************************)
(* Induction and recursion over 0..n, from the order of the naturals.      *)
(***************************************************************************)

\* Every set of naturals that is not empty has a least element.
LEMMA LeastExists ==
    ASSUME NEW S, S \subseteq Nat, S # {}
    PROVE  \E x \in S : \A y \in S : x <= y
<1>1. PICK x \in S : \A y \in S : <<y, x>> \notin OpToRel(<, Nat)
  BY NatLessThanWellFounded, WFMin
<1>2. ASSUME NEW y \in S
      PROVE  x <= y
  <2>1. x \in Nat /\ y \in Nat
    OBVIOUS
  <2>2. ~(y < x)
    BY <1>1, <2>1 DEF OpToRel
  <2> QED
    BY <2>1, <2>2
<1> QED
  BY <1>2

\* A set that has 0, and with a natural its successor, has all of them.
LEMMA Induction ==
    ASSUME NEW T, 0 \in T, \A n \in Nat : n \in T => n + 1 \in T, NEW n \in Nat
    PROVE  n \in T
<1> SUFFICES ASSUME n \notin T PROVE FALSE
  OBVIOUS
<1> DEFINE S == Nat \ T
<1>1. PICK x \in S : \A y \in S : x <= y
  BY LeastExists
<1>2. x \in Nat /\ x # 0
  BY <1>1
<1>3. x - 1 \in Nat /\ x - 1 \in T
  BY <1>1, <1>2
<1>4. (x - 1) + 1 \in T
  BY <1>3
<1> QED
  BY <1>1, <1>2, <1>4

\* f iterates the steps from base, n times.
Iterates(f, S, base, step, n) ==
    /\ f \in [0..n -> S]
    /\ f[0] = base
    /\ \A k \in 1..n : f[k] = step[k][f[k - 1]]

\* What a recursive definition over 0..n needs: a function that satisfies it.
LEMMA RecursionExists ==
    ASSUME NEW S, NEW base \in S, NEW n \in Nat, NEW step \in [Nat -> [S -> S]]
    PROVE  \E f : Iterates(f, S, base, step, n)
<1> DEFINE Solves(f, m) == f \in [0..m -> S] /\ f[0] = base /\ \A k \in 1..m : f[k] = step[k][f[k - 1]]
           T == {m \in Nat : \E f : Solves(f, m)}
<1>1. 0 \in T
  <2>1. Solves([k \in 0..0 |-> base], 0)
    OBVIOUS
  <2> QED
    BY <2>1
<1>2. ASSUME NEW m \in Nat, m \in T
      PROVE  m + 1 \in T
  <2>1. PICK f : Solves(f, m)
    BY <1>2
  <2> DEFINE g == [k \in 0..(m + 1) |-> IF k = m + 1 THEN step[m + 1][f[m]] ELSE f[k]]
  <2>2. f[m] \in S /\ step[m + 1] \in [S -> S]
    BY <2>1
  <2>3. step[m + 1][f[m]] \in S
    BY <2>2
  <2>4. g \in [0..(m + 1) -> S] /\ g[0] = base
    BY <2>1, <2>3
  <2>5. ASSUME NEW k \in 1..(m + 1)
        PROVE  g[k] = step[k][g[k - 1]]
    <3>1. CASE k = m + 1
      BY <3>1
    <3>2. CASE k # m + 1
      BY <2>1, <3>2
    <3> QED
      BY <3>1, <3>2
  <2>6. Solves(g, m + 1)
    BY <2>4, <2>5
  <2>7. m + 1 \in Nat
    OBVIOUS
  <2> HIDE DEF Solves, g
  <2> QED
    BY <2>6, <2>7
<1> HIDE DEF T
<1>3. n \in T
  BY <1>1, <1>2, Induction
<1> QED
  BY <1>3 DEF T, Iterates

-----------------------------------------------------------------------------
(***************************************************************************)
(* Sequences.                                                              *)
(***************************************************************************)

\* The members of an extended sequence.
LEMMA AppendMembers ==
    ASSUME NEW S, NEW s \in Seq(S), NEW x \in S
    PROVE  /\ Append(s, x) \in Seq(S)
           /\ ToSet(Append(s, x)) = ToSet(s) \cup {x}
           /\ IsInjective(s) /\ x \notin ToSet(s) => IsInjective(Append(s, x))
<1> DEFINE t == Append(s, x)
<1>1. /\ t \in Seq(S) /\ Len(t) = Len(s) + 1 /\ Len(s) \in Nat
      /\ \A i \in 1..Len(s) : t[i] = s[i]
      /\ t[Len(s) + 1] = x /\ DOMAIN s = 1..Len(s) /\ DOMAIN t = 1..(Len(s) + 1)
  OBVIOUS
<1> HIDE DEF t
<1>2. ToSet(t) = ToSet(s) \cup {x}
  <2>1. ASSUME NEW y \in ToSet(t)
        PROVE  y \in ToSet(s) \cup {x}
    <3>1. PICK i \in 1..(Len(s) + 1) : y = t[i]
      BY <1>1 DEF ToSet
    <3>2. CASE i = Len(s) + 1
      BY <1>1, <3>1, <3>2
    <3>3. CASE i # Len(s) + 1
      <4>1. i \in 1..Len(s)
        BY <1>1, <3>3
      <4> QED
        BY <1>1, <3>1, <4>1 DEF ToSet
    <3> QED
      BY <3>2, <3>3
  <2>2. ASSUME NEW y \in ToSet(s)
        PROVE  y \in ToSet(t)
    <3>1. PICK i \in 1..Len(s) : y = s[i]
      BY <1>1 DEF ToSet
    <3>2. i \in 1..(Len(s) + 1)
      BY <1>1
    <3> QED
      BY <1>1, <3>1, <3>2 DEF ToSet
  <2>3. x \in ToSet(t)
    <3>1. Len(s) + 1 \in 1..(Len(s) + 1)
      BY <1>1
    <3> QED
      BY <1>1, <3>1 DEF ToSet
  <2> QED
    BY <2>1, <2>2, <2>3
<1>3. ASSUME IsInjective(s), x \notin ToSet(s)
      PROVE  IsInjective(t)
  <2> SUFFICES ASSUME NEW i \in 1..(Len(s) + 1), NEW j \in 1..(Len(s) + 1), t[i] = t[j], i # j
               PROVE  FALSE
    BY <1>1 DEF IsInjective
  <2>1. CASE i \in 1..Len(s) /\ j \in 1..Len(s)
    BY <1>1, <1>3, <2>1 DEF IsInjective
  <2>2. CASE i = Len(s) + 1
    <3>1. j \in 1..Len(s)
      BY <1>1, <2>2
    <3> QED
      BY <1>1, <1>3, <2>2, <3>1 DEF ToSet
  <2>3. CASE j = Len(s) + 1
    <3>1. i \in 1..Len(s)
      BY <1>1, <2>3
    <3> QED
      BY <1>1, <1>3, <2>3, <3>1 DEF ToSet
  <2> QED
    BY <1>1, <2>1, <2>2, <2>3
<1> QED
  BY <1>1, <1>2, <1>3 DEF t

\* f[n] is what is kept of the first n members of s.
Keeps(f, S, s, out) ==
    /\ f \in [0..Len(s) -> Seq(S)]
    /\ f[0] = <<>>
    /\ \A k \in 1..Len(s) : f[k] = IF s[k] \in out THEN f[k - 1] ELSE Append(f[k - 1], s[k])

\* The recursion of Without, unfolded.
LEMMA WithoutUnfolds ==
    ASSUME NEW S, NEW s \in Seq(S), NEW out
    PROVE  \E f : Keeps(f, S, s, out) /\ Without(s, out) = f[Len(s)]
<1> DEFINE Body(f) == [n \in 0..Len(s) |->
                         IF n = 0 THEN <<>>
                         ELSE IF s[n] \in out THEN f[n - 1] ELSE Append(f[n - 1], s[n])]
           step == [k \in Nat |-> [t \in Seq(S) |->
                      IF k \notin 1..Len(s) \/ s[k] \in out THEN t ELSE Append(t, s[k])]]
           kept == CHOOSE f : f = Body(f)
<1>1. Len(s) \in Nat /\ <<>> \in Seq(S) /\ \A k \in 1..Len(s) : s[k] \in S
  OBVIOUS
<1>2. step \in [Nat -> [Seq(S) -> Seq(S)]]
  <2>1. ASSUME NEW k \in Nat, NEW t \in Seq(S)
        PROVE  (IF k \notin 1..Len(s) \/ s[k] \in out THEN t ELSE Append(t, s[k])) \in Seq(S)
    BY <1>1, AppendMembers
  <2> QED
    BY <2>1
<1>3. PICK f : Iterates(f, Seq(S), <<>>, step, Len(s))
  <2> HIDE DEF step
  <2> QED
    BY <1>1, <1>2, RecursionExists
<1>4. f = Body(f)
  <2>1. ASSUME NEW n \in 0..Len(s), n # 0
        PROVE  f[n] = IF s[n] \in out THEN f[n - 1] ELSE Append(f[n - 1], s[n])
    <3>1. n \in 1..Len(s) /\ n \in Nat /\ n - 1 \in 0..Len(s)
      BY <1>1, <2>1
    <3>2. f[n - 1] \in Seq(S) /\ f[n] = step[n][f[n - 1]]
      BY <1>3, <3>1 DEF Iterates
    <3> QED
      BY <3>1, <3>2
  <2>2. DOMAIN f = 0..Len(s) /\ f[0] = <<>> /\ f = [n \in 0..Len(s) |-> f[n]]
    BY <1>3 DEF Iterates
  <2> QED
    BY <2>1, <2>2
<1>5. kept = Body(kept)
  <2> HIDE DEF Body
  <2> QED
    BY <1>4
<1>6. Without(s, out) = kept[Len(s)]
  BY Zenon DEF Without
<1> HIDE DEF kept
<1>7. /\ DOMAIN kept = 0..Len(s) /\ kept[0] = <<>>
      /\ \A k \in 1..Len(s) :
           kept[k] = IF s[k] \in out THEN kept[k - 1] ELSE Append(kept[k - 1], s[k])
  <2> DEFINE h == Body(kept)
  <2>1. /\ DOMAIN h = 0..Len(s) /\ h[0] = <<>>
        /\ \A k \in 1..Len(s) :
             h[k] = IF s[k] \in out THEN kept[k - 1] ELSE Append(kept[k - 1], s[k])
    BY <1>1
  <2>2. h = kept
    BY <1>5
  <2> HIDE DEF h
  <2> QED
    BY <2>1, <2>2
<1>8. ASSUME NEW n \in 0..Len(s)
      PROVE  kept[n] \in Seq(S)
  <2> DEFINE T == {m \in Nat : m <= Len(s) => kept[m] \in Seq(S)}
  <2>1. 0 \in T
    BY <1>1, <1>7
  <2>2. ASSUME NEW m \in Nat, m \in T
        PROVE  m + 1 \in T
    <3>1. CASE m + 1 <= Len(s)
      <4>1. m + 1 \in 1..Len(s) /\ (m + 1) - 1 = m /\ kept[m] \in Seq(S) /\ m + 1 \in Nat
        BY <1>1, <2>2, <3>1
      <4>2. kept[m + 1] = IF s[m + 1] \in out THEN kept[m] ELSE Append(kept[m], s[m + 1])
        BY <1>7, <4>1
      <4>3. kept[m + 1] \in Seq(S)
        BY <1>1, <4>1, <4>2, AppendMembers
      <4> QED
        BY <4>1, <4>3
    <3> QED
      BY <3>1
  <2>3. n \in Nat /\ n <= Len(s)
    BY <1>1
  <2> HIDE DEF T
  <2>4. n \in T
    BY <2>1, <2>2, <2>3, Induction
  <2> QED
    BY <2>3, <2>4 DEF T
<1>9. kept \in [0..Len(s) -> Seq(S)]
  <2>1. \E S1, S2 : kept \in [S1 -> S2]
    <3>1. Body(kept) \in [0..Len(s) -> {Body(kept)[n] : n \in 0..Len(s)}]
      OBVIOUS
    <3> HIDE DEF Body
    <3> QED
      BY <1>5, <3>1
  <2>2. kept = [n \in 0..Len(s) |-> kept[n]]
    BY <1>7, <2>1
  <2> QED
    BY <1>8, <2>2
<1> QED
  BY <1>6, <1>7, <1>9 DEF Keeps

\* What is left without some members: the others, each as often as before.
LEMMA WithoutMembers ==
    ASSUME NEW S, NEW s \in Seq(S), NEW out
    PROVE  /\ Without(s, out) \in Seq(S)
           /\ ToSet(Without(s, out)) = ToSet(s) \ out
           /\ IsInjective(s) => IsInjective(Without(s, out))
<1>1. PICK f : Keeps(f, S, s, out) /\ Without(s, out) = f[Len(s)]
  BY WithoutUnfolds
<1>a. /\ f \in [0..Len(s) -> Seq(S)] /\ f[0] = <<>> /\ Without(s, out) = f[Len(s)]
      /\ \A k \in 1..Len(s) : f[k] = IF s[k] \in out THEN f[k - 1] ELSE Append(f[k - 1], s[k])
  BY <1>1 DEF Keeps
<1> DEFINE First(n) == {s[i] : i \in 1..n}
           Good(n) == /\ ToSet(f[n]) = First(n) \ out
                      /\ IsInjective(s) => IsInjective(f[n])
           T == {n \in Nat : n <= Len(s) => Good(n)}
<1>2. Len(s) \in Nat /\ DOMAIN s = 1..Len(s) /\ \A k \in 1..Len(s) : s[k] \in S
  OBVIOUS
<1>3. 0 \in T
  BY <1>a DEF ToSet, IsInjective
<1>4. ASSUME NEW n \in Nat, n \in T
      PROVE  n + 1 \in T
  <2> SUFFICES ASSUME n + 1 <= Len(s) PROVE Good(n + 1)
    OBVIOUS
  <2>1. /\ n + 1 \in 1..Len(s) /\ (n + 1) - 1 = n /\ n \in 0..Len(s) /\ n <= Len(s)
    BY <1>2
  <2>2. /\ f[n] \in Seq(S) /\ s[n + 1] \in S
        /\ f[n + 1] = IF s[n + 1] \in out THEN f[n] ELSE Append(f[n], s[n + 1])
    BY <1>a, <1>2, <2>1
  <2>3. Good(n)
    BY <1>4, <2>1
  <2>4. First(n + 1) = First(n) \cup {s[n + 1]}
    <3>1. 1..(n + 1) = 1..n \cup {n + 1}
      OBVIOUS
    <3> QED
      BY <3>1
  <2>5. IsInjective(s) => s[n + 1] \notin First(n)
    <3> SUFFICES ASSUME IsInjective(s), NEW i \in 1..n, s[i] = s[n + 1] PROVE FALSE
      OBVIOUS
    <3>1. i \in 1..Len(s) /\ i # n + 1
      BY <1>2, <2>1
    <3> QED
      BY <1>2, <2>1, <3>1 DEF IsInjective
  <2> HIDE DEF First
  <2>6. CASE s[n + 1] \in out
    BY <2>2, <2>3, <2>4, <2>6
  <2>7. CASE s[n + 1] \notin out
    <3>1. ToSet(f[n + 1]) = ToSet(f[n]) \cup {s[n + 1]}
      BY <2>2, <2>7, AppendMembers
    <3>2. IsInjective(s) => IsInjective(f[n + 1])
      BY <2>2, <2>3, <2>5, <2>7, AppendMembers
    <3> QED
      BY <2>3, <2>4, <2>7, <3>1, <3>2
  <2> QED
    BY <2>6, <2>7
<1> HIDE DEF T
<1>5. Len(s) \in T
  BY <1>2, <1>3, <1>4, Induction
<1>6. Good(Len(s)) /\ First(Len(s)) = ToSet(s)
  BY <1>2, <1>5 DEF T, ToSet
<1>7. f[Len(s)] \in Seq(S)
  BY <1>a, <1>2
<1> QED
  BY <1>a, <1>6, <1>7

\* The smaller of two integers, and a member with the largest one.
LEMMA MinOfTwo ==
    ASSUME NEW a \in Int, NEW b \in Int
    PROVE  Min({a, b}) = IF a <= b THEN a ELSE b
<1> DEFINE m == IF a <= b THEN a ELSE b
<1>1. m \in {a, b} /\ \A y \in {a, b} : m =< y
  OBVIOUS
<1>2. ASSUME NEW x \in {a, b}, \A y \in {a, b} : x =< y
      PROVE  x = m
  BY <1>2
<1> QED
  BY <1>1, <1>2 DEF Min

\* The larger of two integers.
LEMMA MaxOfTwo ==
    ASSUME NEW a \in Int, NEW b \in Int
    PROVE  Max({a, b}) = IF a >= b THEN a ELSE b
<1> DEFINE m == IF a >= b THEN a ELSE b
<1>1. m \in {a, b} /\ \A y \in {a, b} : m >= y
  OBVIOUS
<1>2. ASSUME NEW x \in {a, b}, \A y \in {a, b} : x >= y
      PROVE  x = m
  BY <1>2
<1> QED
  BY <1>1, <1>2 DEF Max

\* A sequence without repetitions has as many members as it is long.
LEMMA InjectiveLength ==
    ASSUME NEW S, NEW s \in Seq(S), IsInjective(s)
    PROVE  /\ IsFiniteSet(ToSet(s))
           /\ Cardinality(ToSet(s)) = Len(s)
<1>1. Len(s) \in Nat /\ DOMAIN s = 1..Len(s) /\ s \in [1..Len(s) -> S]
  OBVIOUS
<1>2. s \in [1..Len(s) -> ToSet(s)]
  BY <1>1 DEF ToSet
<1>3. \A t \in ToSet(s) : \E i \in 1..Len(s) : s[i] = t
  BY <1>1 DEF ToSet
<1>4. s \in Bijection(1..Len(s), ToSet(s))
  BY <1>2, <1>3 DEF Bijection, Injection, Surjection
<1>5. ExistsBijection(1..Len(s), ToSet(s))
  BY <1>4 DEF ExistsBijection
<1>6. IsFiniteSet(1..Len(s)) /\ Cardinality(1..Len(s)) = Len(s)
  BY <1>1, FS_Interval
<1> QED
  BY <1>5, <1>6, FS_Bijection

\* A finite set as a sequence: its members, each once.
LEMMA SetToSeqMembers ==
    ASSUME NEW S, IsFiniteSet(S)
    PROVE  /\ SetToSeq(S) \in Seq(S)
           /\ ToSet(SetToSeq(S)) = S
           /\ IsInjective(SetToSeq(S))
<1> DEFINE n == Cardinality(S)
           s == SetToSeq(S)
<1>1. n \in Nat /\ ExistsBijection(1..n, S)
  BY FS_CardinalityType
<1>2. PICK f \in Bijection(1..n, S) : TRUE
  BY <1>1 DEF ExistsBijection
<1>3. f \in [1..n -> S] /\ IsInjective(f)
  BY <1>2 DEF Bijection, Injection
<1>4. s \in [1..n -> S] /\ IsInjective(s)
  BY <1>3 DEF SetToSeq
<1>5. IsFiniteSet(1..n) /\ Cardinality(1..n) = n
  BY <1>1, FS_Interval
<1> HIDE DEF s
<1>6. s \in Injection(1..n, S)
  BY <1>4 DEF Injection
<1>7. s \in Surjection(1..n, S)
  BY <1>5, <1>6, FS_Injection
<1>8. \A t \in S : \E i \in 1..n : s[i] = t
  BY <1>7 DEF Surjection
<1>9. DOMAIN s = 1..n
  BY <1>4
<1>10. ToSet(s) = S
  BY <1>4, <1>8, <1>9 DEF ToSet
<1>11. s \in Seq(S)
  BY <1>1, <1>4, SeqDef
<1> QED
  BY <1>4, <1>10, <1>11 DEF s

\* The members of two sequences one after the other.
LEMMA ConcatMembers ==
    ASSUME NEW S, NEW s \in Seq(S), NEW t \in Seq(S)
    PROVE  /\ s \o t \in Seq(S)
           /\ ToSet(s \o t) = ToSet(s) \cup ToSet(t)
           /\ IsInjective(s) /\ IsInjective(t) /\ ToSet(s) \cap ToSet(t) = {} => IsInjective(s \o t)
<1> DEFINE u == s \o t
           m == Len(s)
           n == Len(t)
<1>1. /\ u \in Seq(S) /\ Len(u) = m + n
      /\ \A i \in 1..(m + n) : u[i] = IF i <= m THEN s[i] ELSE t[i - m]
  BY ConcatProperties
<1>2. /\ m \in Nat /\ n \in Nat /\ DOMAIN s = 1..m /\ DOMAIN t = 1..n
  BY LenProperties
<1>3. DOMAIN u = 1..(m + n)
  BY <1>1, LenProperties
<1> HIDE DEF u, m, n
<1>4. ASSUME NEW i \in 1..(m + n)
      PROVE  \/ i \in 1..m /\ u[i] = s[i]
             \/ i - m \in 1..n /\ u[i] = t[i - m]
  BY <1>1, <1>2
<1>5. ToSet(u) \subseteq ToSet(s) \cup ToSet(t)
  BY <1>2, <1>3, <1>4 DEF ToSet
<1>6. ToSet(s) \subseteq ToSet(u)
  <2>1. ASSUME NEW i \in 1..m
        PROVE  i \in 1..(m + n) /\ u[i] = s[i]
    BY <1>1, <1>2
  <2> QED
    BY <2>1, <1>2, <1>3 DEF ToSet
<1>7. ToSet(t) \subseteq ToSet(u)
  <2>1. ASSUME NEW i \in 1..n
        PROVE  i + m \in 1..(m + n) /\ u[i + m] = t[i]
    BY <1>1, <1>2
  <2> QED
    BY <2>1, <1>2, <1>3 DEF ToSet
<1>8. ASSUME IsInjective(s), IsInjective(t), ToSet(s) \cap ToSet(t) = {}
      PROVE  IsInjective(u)
  <2> SUFFICES ASSUME NEW i \in 1..(m + n), NEW j \in 1..(m + n), u[i] = u[j]
               PROVE  i = j
    BY <1>3 DEF IsInjective
  <2>1. ASSUME NEW k \in 1..m, NEW l \in 1..n
        PROVE  s[k] # t[l]
    BY <1>2, <1>8 DEF ToSet
  <2>2. CASE i \in 1..m /\ j \in 1..m /\ u[i] = s[i] /\ u[j] = s[j]
    BY <1>2, <1>8, <2>2 DEF IsInjective
  <2>3. CASE i - m \in 1..n /\ j - m \in 1..n /\ u[i] = t[i - m] /\ u[j] = t[j - m]
    <3>1. i - m = j - m
      BY <1>2, <1>8, <2>3 DEF IsInjective
    <3> QED
      BY <1>2, <3>1
  <2> QED
    BY <1>4, <2>1, <2>2, <2>3
<1> QED
  BY <1>1, <1>5, <1>6, <1>7, <1>8 DEF u

\* A sequence cut in two: its members go to one side or the other.
LEMMA CutMembers ==
    ASSUME NEW S, NEW s \in Seq(S), NEW n \in 0..Len(s)
    PROVE  /\ SubSeq(s, 1, n) \in Seq(S)
           /\ SubSeq(s, n + 1, Len(s)) \in Seq(S)
           /\ Len(SubSeq(s, 1, n)) = n
           /\ ToSet(s) = ToSet(SubSeq(s, 1, n)) \cup ToSet(SubSeq(s, n + 1, Len(s)))
           /\ IsInjective(s) => /\ IsInjective(SubSeq(s, 1, n))
                                /\ IsInjective(SubSeq(s, n + 1, Len(s)))
                                /\ ToSet(SubSeq(s, 1, n)) \cap ToSet(SubSeq(s, n + 1, Len(s))) = {}
<1> DEFINE a == SubSeq(s, 1, n)
           b == SubSeq(s, n + 1, Len(s))
           k == Len(s)
<1>1. k \in Nat /\ DOMAIN s = 1..k /\ n \in Nat /\ n <= k /\ \A i \in 1..k : s[i] \in S
  BY LenProperties
<1>2. /\ a \in Seq(S) /\ Len(a) = n /\ \A i \in 1..n : a[i] = s[i]
  <2>1. \A i \in 1..n : s[i] \in S
    BY <1>1
  <2>2. /\ a \in Seq(S) /\ Len(a) = IF 1 <= n THEN n - 1 + 1 ELSE 0
        /\ \A i \in 1..(n - 1 + 1) : a[i] = s[1 + i - 1]
    BY <1>1, <2>1, SubSeqProperties
  <2> QED
    BY <1>1, <2>2
<1>3. /\ b \in Seq(S) /\ Len(b) = k - n /\ \A i \in 1..(k - n) : b[i] = s[n + i]
  <2>1. \A i \in (n + 1)..k : s[i] \in S
    BY <1>1
  <2>2. /\ b \in Seq(S) /\ Len(b) = IF n + 1 <= k THEN k - (n + 1) + 1 ELSE 0
        /\ \A i \in 1..(k - (n + 1) + 1) : b[i] = s[(n + 1) + i - 1]
    BY <1>1, <2>1, SubSeqProperties
  <2> QED
    BY <1>1, <2>2
<1>4. DOMAIN a = 1..n /\ DOMAIN b = 1..(k - n)
  BY <1>2, <1>3, LenProperties
<1> HIDE DEF a, b, k
<1>5. ToSet(s) \subseteq ToSet(a) \cup ToSet(b)
  <2> SUFFICES ASSUME NEW i \in 1..k PROVE s[i] \in ToSet(a) \cup ToSet(b)
    BY <1>1 DEF ToSet
  <2>1. CASE i <= n
    <3>1. i \in 1..n
      BY <1>1, <2>1
    <3> QED
      BY <1>2, <1>4, <3>1 DEF ToSet
  <2>2. CASE i > n
    <3>1. i - n \in 1..(k - n) /\ n + (i - n) = i
      BY <1>1, <2>2
    <3>2. b[i - n] = s[i]
      BY <1>3, <3>1
    <3> QED
      BY <1>4, <3>1, <3>2 DEF ToSet
  <2> QED
    BY <1>1, <2>1, <2>2
<1>6. ASSUME NEW i \in 1..n
      PROVE  i \in 1..k
  BY <1>1
<1>7. ASSUME NEW i \in 1..(k - n)
      PROVE  n + i \in 1..k /\ n + i > n
  BY <1>1
<1>8. ToSet(a) \cup ToSet(b) \subseteq ToSet(s)
  <2>1. ASSUME NEW y \in ToSet(a)
        PROVE  y \in ToSet(s)
    <3>1. PICK i \in 1..n : y = a[i]
      BY <1>4 DEF ToSet
    <3> QED
      BY <1>1, <1>2, <1>6, <3>1 DEF ToSet
  <2>2. ASSUME NEW y \in ToSet(b)
        PROVE  y \in ToSet(s)
    <3>1. PICK i \in 1..(k - n) : y = b[i]
      BY <1>4 DEF ToSet
    <3>2. n + i \in 1..k /\ y = s[n + i]
      BY <1>3, <1>7, <3>1
    <3> QED
      BY <1>1, <3>2 DEF ToSet
  <2> QED
    BY <2>1, <2>2
<1>9. ASSUME IsInjective(s)
      PROVE  IsInjective(a) /\ IsInjective(b) /\ ToSet(a) \cap ToSet(b) = {}
  <2>1. \A i, j \in 1..k : s[i] = s[j] => i = j
    BY <1>1, <1>9 DEF IsInjective
  <2>2. IsInjective(a)
    BY <1>2, <1>4, <1>6, <2>1 DEF IsInjective
  <2>3. IsInjective(b)
    <3> SUFFICES ASSUME NEW i \in 1..(k - n), NEW j \in 1..(k - n), b[i] = b[j] PROVE i = j
      BY <1>4 DEF IsInjective
    <3>1. n + i = n + j
      BY <1>3, <1>7, <2>1
    <3> QED
      BY <1>1, <3>1
  <2>4. ASSUME NEW i \in 1..n, NEW j \in 1..(k - n)
        PROVE  a[i] # b[j]
    <3>1. i # n + j
      BY <1>1, <1>7
    <3>2. i \in 1..k /\ n + j \in 1..k
      BY <1>6, <1>7
    <3>3. s[i] # s[n + j]
      BY <2>1, <3>1, <3>2
    <3> QED
      BY <1>2, <1>3, <3>3
  <2> QED
    BY <1>4, <2>2, <2>3, <2>4 DEF ToSet
<1> QED
  BY <1>2, <1>3, <1>5, <1>8, <1>9 DEF a, b, k

-----------------------------------------------------------------------------
(***************************************************************************)
(* The preloader.                                                          *)
(***************************************************************************)

\* What every method of the preloader keeps, but for the bound on cached frames, which
\* request passes by one before it evicts.  A tile is waited for exactly if it is queued or
\* being fetched, and once; every tile waited for is an image of a cached frame; slots in use
\* and slots lost are no more than there are.
Booked(p) ==
    /\ p \in Preloader
    /\ IsInjective(p.order)
    /\ IsInjective(p.queue)
    /\ ToSet(p.queue) \cap p.inFlight = {}
    /\ \A h \in Hours :
         /\ p.pending[h] = {t \in Urls : <<h, t>> \in p.inFlight \cup ToSet(p.queue)}
         /\ p.pending[h] \subseteq p.images[h]
         /\ h \notin Cached(p) => p.images[h] = {}
    /\ IsFiniteSet(p.inFlight)
    /\ Cardinality(p.inFlight) + p.lost <= MaxInFlight

PreloaderInv(p) == Booked(p) /\ Len(p.order) <= MaxCachedFrames

\* q makes no frame ready that p has not ready.
NoReadier(q, p) == \A h \in Hours : IsReady(q, h) => IsReady(p, h)

\* A preloader without frames.
LEMMA EmptyIsBooked ==
    ASSUME PreloaderAssumption
    PROVE  PreloaderInv(EmptyPreloader)
<1> DEFINE p == EmptyPreloader
<1>1. /\ p.order = <<>> /\ p.images = [h \in Hours |-> {}] /\ p.pending = [h \in Hours |-> {}]
      /\ p.queue = <<>> /\ p.inFlight = {} /\ p.lost = 0
  BY DEF EmptyPreloader
<1>2. ToSet(<<>>) = {} /\ IsInjective(<<>>) /\ Len(<<>>) = 0
  BY DEF ToSet, IsInjective
<1>3. p \in Preloader
  BY PreloaderAssumption DEF EmptyPreloader, Preloader
<1>4. IsFiniteSet({}) /\ Cardinality({}) = 0
  BY FS_EmptySet
<1> HIDE DEF p
<1>5. Booked(p)
  BY <1>1, <1>2, <1>3, <1>4, PreloaderAssumption DEF Booked
<1> QED
  BY <1>1, <1>2, <1>5, PreloaderAssumption DEF PreloaderInv, p

\* The parts of a preloader.
LEMMA PreloaderParts ==
    ASSUME NEW p \in Preloader
    PROVE  /\ p.order \in Seq(Hours) /\ p.images \in [Hours -> SUBSET Urls]
           /\ p.pending \in [Hours -> SUBSET Urls] /\ p.queue \in Seq(Items)
           /\ p.inFlight \in SUBSET Items /\ p.lost \in 0..MaxInFlight
           /\ p = [order |-> p.order, images |-> p.images, pending |-> p.pending,
                   queue |-> p.queue, inFlight |-> p.inFlight, lost |-> p.lost]
BY DEF Preloader

\* Starting fetches moves tiles from the queue to the slots, and nothing else.
LEMMA PumpIsBooked ==
    ASSUME PreloaderAssumption, NEW p, Booked(p)
    PROVE  /\ Booked(Pump(p))
           /\ Pump(p).order = p.order
           /\ Pump(p).pending = p.pending
<1> DEFINE n == Min({Len(p.queue), FreeSlots(p)})
           front == SubSeq(p.queue, 1, n)
           back == SubSeq(p.queue, n + 1, Len(p.queue))
           q == Pump(p)
<1>1. /\ p \in Preloader /\ p.queue \in Seq(Items) /\ p.inFlight \subseteq Items
      /\ p.lost \in 0..MaxInFlight /\ p.order \in Seq(Hours)
      /\ p.images \in [Hours -> SUBSET Urls] /\ p.pending \in [Hours -> SUBSET Urls]
  BY PreloaderParts DEF Booked
<1>2. /\ IsFiniteSet(p.inFlight) /\ Cardinality(p.inFlight) \in Nat
      /\ Cardinality(p.inFlight) + p.lost <= MaxInFlight /\ MaxInFlight \in Nat
  BY FS_CardinalityType, PreloaderAssumption DEF Booked
<1>3. Len(p.queue) \in Nat /\ FreeSlots(p) \in Nat
  BY <1>1, <1>2 DEF FreeSlots
<1>4. n \in 0..Len(p.queue) /\ n <= FreeSlots(p)
  <2>1. n = IF Len(p.queue) <= FreeSlots(p) THEN Len(p.queue) ELSE FreeSlots(p)
    BY <1>3, MinOfTwo
  <2> HIDE DEF n
  <2> QED
    BY <1>3, <2>1
<1>5. /\ q = [p EXCEPT !.queue = back, !.inFlight = @ \cup ToSet(front)]
  BY DEF Pump
<1> HIDE DEF n, q
<1>6. /\ front \in Seq(Items) /\ back \in Seq(Items) /\ Len(front) = n
      /\ ToSet(p.queue) = ToSet(front) \cup ToSet(back)
      /\ IsInjective(front) /\ IsInjective(back) /\ ToSet(front) \cap ToSet(back) = {}
  <2>1. IsInjective(p.queue)
    BY DEF Booked
  <2> QED
    BY <1>1, <1>4, <2>1, CutMembers
<1> HIDE DEF front, back
<1>7. ToSet(front) \subseteq Items
  BY <1>6 DEF ToSet
<1>8. IsFiniteSet(ToSet(front)) /\ Cardinality(ToSet(front)) = n
  BY <1>6, InjectiveLength
<1>9. /\ q.order = p.order /\ q.images = p.images /\ q.pending = p.pending
      /\ q.queue = back /\ q.inFlight = p.inFlight \cup ToSet(front) /\ q.lost = p.lost
      /\ q \in Preloader
  BY <1>1, <1>5, <1>6, <1>7 DEF Preloader
<1>10. ToSet(front) \cap p.inFlight = {}
  BY <1>6 DEF Booked
<1>11. /\ IsFiniteSet(q.inFlight)
       /\ Cardinality(q.inFlight) = Cardinality(p.inFlight) + n
  <2>1. /\ IsFiniteSet(p.inFlight \cup ToSet(front))
        /\ Cardinality(p.inFlight \cup ToSet(front)) =
             Cardinality(p.inFlight) + Cardinality(ToSet(front))
               - Cardinality(p.inFlight \cap ToSet(front))
    BY <1>2, <1>8, FS_Union
  <2>2. Cardinality(p.inFlight \cap ToSet(front)) = 0
    BY <1>10, FS_EmptySet
  <2> QED
    BY <1>2, <1>4, <1>8, <1>9, <2>1, <2>2
<1>12. Cardinality(q.inFlight) + q.lost <= MaxInFlight
  BY <1>1, <1>2, <1>4, <1>9, <1>11 DEF FreeSlots
<1>13. ToSet(q.queue) \cap q.inFlight = {}
  BY <1>6, <1>9 DEF Booked
<1>14. q.inFlight \cup ToSet(q.queue) = p.inFlight \cup ToSet(p.queue)
  BY <1>6, <1>9
<1>15. Booked(q)
  BY <1>6, <1>9, <1>11, <1>12, <1>13, <1>14 DEF Booked, Cached
<1> QED
  BY <1>9, <1>15 DEF q

\* Evicting: the bound on cached frames is met again as long as one frame is not protected,
\* a frame that stays waits for what it waited for, and the slots of the images that are
\* released are counted as lost.
LEMMA EvictIsBooked ==
    ASSUME PreloaderAssumption, NEW p, Booked(p), NEW protected,
           \/ Len(p.order) <= MaxCachedFrames
           \/ Len(p.order) = MaxCachedFrames + 1 /\ ToSet(p.order) \ protected # {}
    PROVE  /\ PreloaderInv(Evict(p, protected))
           /\ Cached(Evict(p, protected)) \subseteq Cached(p)
           /\ \A h \in Cached(Evict(p, protected)) :
                Evict(p, protected).pending[h] = p.pending[h]
<1> DEFINE candidates == Without(p.order, protected)
           excess == Max({0, Len(p.order) - MaxCachedFrames})
           m == Min({excess, Len(candidates)})
           victims == ToSet(SubSeq(candidates, 1, m))
           gone == {item \in p.inFlight : item[1] \in victims}
           q == Evict(p, protected)
<1>1. /\ p \in Preloader /\ p.queue \in Seq(Items) /\ p.inFlight \subseteq Items
      /\ p.lost \in 0..MaxInFlight /\ p.order \in Seq(Hours)
      /\ p.images \in [Hours -> SUBSET Urls] /\ p.pending \in [Hours -> SUBSET Urls]
      /\ Len(p.order) \in Nat /\ MaxCachedFrames \in Nat /\ MaxInFlight \in Nat
  BY PreloaderParts, PreloaderAssumption DEF Booked
<1>2. /\ IsInjective(p.order) /\ IsInjective(p.queue) /\ IsFiniteSet(p.inFlight)
      /\ ToSet(p.queue) \cap p.inFlight = {}
      /\ Cardinality(p.inFlight) + p.lost <= MaxInFlight
  BY DEF Booked
<1>3. /\ candidates \in Seq(Hours) /\ ToSet(candidates) = ToSet(p.order) \ protected
      /\ IsInjective(candidates)
  BY <1>1, <1>2, WithoutMembers
<1>4. Len(candidates) \in Nat
  BY <1>3
<1>5. excess = IF 0 >= Len(p.order) - MaxCachedFrames THEN 0 ELSE Len(p.order) - MaxCachedFrames
  BY <1>1, MaxOfTwo
<1>6. q = [order    |-> Without(p.order, victims),
           images   |-> [h \in Hours |-> IF h \notin victims THEN p.images[h] ELSE {}],
           pending  |-> [h \in Hours |-> IF h \notin victims THEN p.pending[h] ELSE {}],
           queue    |-> Without(p.queue, victims \X Urls),
           inFlight |-> {item \in p.inFlight : item[1] \notin victims},
           lost     |-> p.lost + Cardinality(gone)]
  <2>1. gone = {item \in p.inFlight : ~(item[1] \notin victims)}
    OBVIOUS
  <2> HIDE DEF gone
  <2> QED
    BY <2>1 DEF Evict
<1> HIDE DEF candidates, excess
<1>7. excess \in Nat
  BY <1>1, <1>5
<1>8. m = IF excess <= Len(candidates) THEN excess ELSE Len(candidates)
  BY <1>4, <1>7, MinOfTwo
<1> HIDE DEF m
<1>9. m \in 0..Len(candidates)
  BY <1>4, <1>7, <1>8
<1>10. /\ SubSeq(candidates, 1, m) \in Seq(Hours) /\ Len(SubSeq(candidates, 1, m)) = m
       /\ victims \subseteq ToSet(candidates)
       /\ IsInjective(SubSeq(candidates, 1, m))
  BY <1>3, <1>9, CutMembers
<1>11. IsFiniteSet(victims) /\ Cardinality(victims) = m
  BY <1>10, InjectiveLength
<1> HIDE DEF victims, q
<1>12. /\ q.order = Without(p.order, victims)
       /\ q.images = [h \in Hours |-> IF h \notin victims THEN p.images[h] ELSE {}]
       /\ q.pending = [h \in Hours |-> IF h \notin victims THEN p.pending[h] ELSE {}]
       /\ q.queue = Without(p.queue, victims \X Urls)
       /\ q.inFlight = {item \in p.inFlight : item[1] \notin victims}
       /\ q.lost = p.lost + Cardinality(gone)
  BY <1>6
<1>13. /\ q.order \in Seq(Hours) /\ IsInjective(q.order) /\ ToSet(q.order) = ToSet(p.order) \ victims
  BY <1>1, <1>2, <1>12, WithoutMembers
<1>14. /\ q.queue \in Seq(Items) /\ IsInjective(q.queue)
       /\ ToSet(q.queue) = ToSet(p.queue) \ (victims \X Urls)
  BY <1>1, <1>2, <1>12, WithoutMembers
<1>15. Len(q.order) <= MaxCachedFrames
  <2>1. /\ IsFiniteSet(ToSet(p.order)) /\ Cardinality(ToSet(p.order)) = Len(p.order)
        /\ Cardinality(ToSet(q.order)) = Len(q.order)
    BY <1>1, <1>2, <1>13, InjectiveLength
  <2>2. ToSet(p.order) \cap victims = victims
    BY <1>3, <1>10
  <2>3. Cardinality(ToSet(p.order) \ victims) = Len(p.order) - m
    <3>1. Cardinality(ToSet(p.order) \ victims) =
            Cardinality(ToSet(p.order)) - Cardinality(ToSet(p.order) \cap victims)
      BY <2>1, FS_Difference
    <3> QED
      BY <1>11, <2>1, <2>2, <3>1
  <2>4. Len(q.order) = Len(p.order) - m
    BY <1>13, <2>1, <2>3
  <2>5. CASE Len(p.order) <= MaxCachedFrames
    BY <1>1, <1>4, <1>9, <2>4, <2>5
  <2>6. CASE Len(p.order) = MaxCachedFrames + 1 /\ ToSet(p.order) \ protected # {}
    <3>1. Len(candidates) # 0
      <4>1. PICK h \in ToSet(candidates) : TRUE
        BY <1>3, <2>6
      <4>2. DOMAIN candidates = 1..Len(candidates)
        BY <1>3
      <4>3. PICK i \in 1..Len(candidates) : candidates[i] = h
        BY <4>1, <4>2 DEF ToSet
      <4> QED
        BY <1>4
    <3>2. excess = 1
      BY <1>1, <1>5, <2>6
    <3>3. m = 1
      BY <1>4, <1>8, <3>1, <3>2
    <3> QED
      BY <1>1, <2>4, <2>6, <3>3
  <2> QED
    BY <2>5, <2>6
<1>16. /\ IsFiniteSet(q.inFlight) /\ Cardinality(q.inFlight) \in Nat /\ Cardinality(gone) \in Nat
       /\ Cardinality(q.inFlight) + Cardinality(gone) = Cardinality(p.inFlight)
  <2>1. gone \subseteq p.inFlight /\ q.inFlight = p.inFlight \ gone
    BY <1>12
  <2> HIDE DEF gone
  <2>2. /\ IsFiniteSet(gone)
        /\ IsFiniteSet(p.inFlight \ gone)
        /\ Cardinality(p.inFlight \ gone) = Cardinality(p.inFlight) - Cardinality(p.inFlight \cap gone)
    BY <1>2, <2>1, FS_Difference, FS_Subset
  <2>3. p.inFlight \cap gone = gone
    BY <2>1
  <2>4. Cardinality(gone) \in Nat /\ Cardinality(p.inFlight) \in Nat /\ Cardinality(q.inFlight) \in Nat
    BY <1>2, <2>1, <2>2, FS_CardinalityType
  <2>5. /\ IsFiniteSet(q.inFlight)
        /\ Cardinality(q.inFlight) = Cardinality(p.inFlight) - Cardinality(gone)
    BY <2>1, <2>2, <2>3
  <2> QED
    BY <2>4, <2>5
<1>17. q.lost \in 0..MaxInFlight /\ Cardinality(q.inFlight) + q.lost <= MaxInFlight
  BY <1>1, <1>2, <1>12, <1>16
<1>18. q \in Preloader
  <2>1. q.images \in [Hours -> SUBSET Urls] /\ q.pending \in [Hours -> SUBSET Urls]
    BY <1>1, <1>12
  <2>2. q.inFlight \subseteq Items
    BY <1>1, <1>12
  <2>3. q = [order |-> q.order, images |-> q.images, pending |-> q.pending,
             queue |-> q.queue, inFlight |-> q.inFlight, lost |-> q.lost]
    BY <1>6
  <2> QED
    BY <1>13, <1>14, <1>17, <2>1, <2>2, <2>3 DEF Preloader
<1>19. ToSet(q.queue) \cap q.inFlight = {}
  BY <1>2, <1>12, <1>14
<1>20. ASSUME NEW h \in Hours
       PROVE  /\ q.pending[h] = {t \in Urls : <<h, t>> \in q.inFlight \cup ToSet(q.queue)}
              /\ q.pending[h] \subseteq q.images[h]
              /\ h \notin Cached(q) => q.images[h] = {}
  <2>1. /\ p.pending[h] = {t \in Urls : <<h, t>> \in p.inFlight \cup ToSet(p.queue)}
        /\ p.pending[h] \subseteq p.images[h]
        /\ h \notin Cached(p) => p.images[h] = {}
    BY DEF Booked
  <2>2. ASSUME NEW t \in Urls
        PROVE  <<h, t>> \in q.inFlight \cup ToSet(q.queue) <=>
                 <<h, t>> \in p.inFlight \cup ToSet(p.queue) /\ h \notin victims
    BY <1>12, <1>14
  <2>3. CASE h \in victims
    <3>1. q.pending[h] = {} /\ q.images[h] = {}
      BY <1>12, <2>3
    <3> QED
      BY <2>2, <2>3, <3>1
  <2>4. CASE h \notin victims
    <3>1. q.pending[h] = p.pending[h] /\ q.images[h] = p.images[h]
      BY <1>12, <2>4
    <3> QED
      BY <1>13, <2>1, <2>2, <2>4, <3>1 DEF Cached
  <2> QED
    BY <2>3, <2>4
<1>21. PreloaderInv(q)
  BY <1>13, <1>14, <1>15, <1>16, <1>17, <1>18, <1>19, <1>20 DEF PreloaderInv, Booked
<1>22. ASSUME NEW h \in Cached(q)
       PROVE  h \in Cached(p) /\ q.pending[h] = p.pending[h]
  <2>1. h \in ToSet(p.order) /\ h \notin victims
    BY <1>13 DEF Cached
  <2>2. h \in Hours
    BY <1>1, <2>1 DEF ToSet
  <2> QED
    BY <1>12, <2>1, <2>2 DEF Cached
<1> QED
  BY <1>21, <1>22 DEF q

\* The frame that is requested is the most recent one; at most one frame is too many then,
\* and another one may go.
LEMMA TouchedOrder ==
    ASSUME PreloaderAssumption, NEW order \in Seq(Hours), IsInjective(order),
           Len(order) <= MaxCachedFrames, NEW h \in Hours
    PROVE  /\ Touched(order, h) \in Seq(Hours) /\ IsInjective(Touched(order, h))
           /\ ToSet(Touched(order, h)) = ToSet(order) \cup {h}
           /\ \/ Len(Touched(order, h)) <= MaxCachedFrames
              \/ /\ Len(Touched(order, h)) = MaxCachedFrames + 1
                 /\ ToSet(Touched(order, h)) \ {h} # {}
<1> DEFINE rest == Without(order, {h})
           new == Touched(order, h)
<1>1. rest \in Seq(Hours) /\ ToSet(rest) = ToSet(order) \ {h} /\ IsInjective(rest)
  BY WithoutMembers
<1>2. new = Append(rest, h)
  BY DEF Touched
<1> HIDE DEF rest, new
<1>3. new \in Seq(Hours) /\ ToSet(new) = ToSet(rest) \cup {h} /\ IsInjective(new)
  BY <1>1, <1>2, AppendMembers
<1>4. Len(rest) \in Nat /\ Len(new) = Len(rest) + 1
  BY <1>1, <1>2
<1>5. Len(rest) <= MaxCachedFrames
  <2>1. /\ IsFiniteSet(ToSet(order)) /\ Cardinality(ToSet(order)) = Len(order)
        /\ Cardinality(ToSet(rest)) = Len(rest)
    BY <1>1, InjectiveLength
  <2>2. ToSet(rest) \in SUBSET ToSet(order)
    BY <1>1
  <2>3. Cardinality(ToSet(rest)) <= Cardinality(ToSet(order))
    BY <2>1, <2>2, FS_Subset
  <2>4. Len(order) \in Nat
    OBVIOUS
  <2> QED
    BY <1>4, <2>1, <2>3, <2>4, PreloaderAssumption
<1>6. ASSUME Len(new) = MaxCachedFrames + 1
      PROVE  ToSet(new) \ {h} # {}
  <2>1. Len(rest) >= 1
    BY <1>4, <1>6, PreloaderAssumption
  <2>2. rest[1] \in ToSet(rest)
    BY <1>1, <1>4, <2>1 DEF ToSet
  <2> QED
    BY <1>1, <1>3, <2>2
<1>7. Len(new) <= MaxCachedFrames \/ Len(new) = MaxCachedFrames + 1
  BY <1>4, <1>5, PreloaderAssumption
<1> QED
  BY <1>1, <1>3, <1>6, <1>7 DEF new

\* Asking for a frame keeps the books and makes no frame ready.
LEMMA RequestIsBooked ==
    ASSUME PreloaderAssumption, NEW p, PreloaderInv(p), NEW h \in Hours
    PROVE  /\ PreloaderInv(Request(p, h))
           /\ NoReadier(Request(p, h), p)
<1>1. CASE Urls = {}
  <2>1. Request(p, h) = p
    BY <1>1 DEF Request
  <2> QED
    BY <2>1 DEF NoReadier
<1>2. CASE Urls # {}
  <2> DEFINE fresh == Urls \ p.images[h]
             added == SetToSeq({h} \X fresh)
             r == [p EXCEPT !.order = Touched(@, h),
                            !.images[h] = @ \cup fresh,
                            !.pending[h] = @ \cup fresh,
                            !.queue = @ \o SetToSeq({h} \X fresh)]
             q == Evict(r, {h})
  <2>1. Request(p, h) = Pump(q)
    BY <1>2 DEF Request
  <2>2. /\ p \in Preloader /\ p.queue \in Seq(Items) /\ p.inFlight \subseteq Items
        /\ p.lost \in 0..MaxInFlight /\ p.order \in Seq(Hours)
        /\ p.images \in [Hours -> SUBSET Urls] /\ p.pending \in [Hours -> SUBSET Urls]
    BY PreloaderParts DEF PreloaderInv, Booked
  <2>3. /\ IsInjective(p.order) /\ IsInjective(p.queue) /\ IsFiniteSet(p.inFlight)
        /\ ToSet(p.queue) \cap p.inFlight = {} /\ Len(p.order) <= MaxCachedFrames
        /\ Cardinality(p.inFlight) + p.lost <= MaxInFlight
    BY DEF PreloaderInv, Booked
  <2>4. /\ r.order = Touched(p.order, h)
        /\ r.images = [p.images EXCEPT ![h] = @ \cup fresh]
        /\ r.pending = [p.pending EXCEPT ![h] = @ \cup fresh]
        /\ r.queue = p.queue \o added /\ r.inFlight = p.inFlight /\ r.lost = p.lost
        /\ r = [order |-> r.order, images |-> r.images, pending |-> r.pending,
                queue |-> r.queue, inFlight |-> r.inFlight, lost |-> r.lost]
    <3> DEFINE o == Touched(p.order, h)
               im == [p.images EXCEPT ![h] = @ \cup fresh]
               pe == [p.pending EXCEPT ![h] = @ \cup fresh]
               qu == p.queue \o added
    <3>1. r = [p EXCEPT !.order = o, !.images = im, !.pending = pe, !.queue = qu]
      BY <2>2 DEF Preloader
    <3> HIDE DEF o, im, pe, qu, r
    <3>2. r = [order |-> o, images |-> im, pending |-> pe, queue |-> qu,
               inFlight |-> p.inFlight, lost |-> p.lost]
      BY <2>2, <3>1 DEF Preloader
    <3>3. /\ r.order = o /\ r.images = im /\ r.pending = pe /\ r.queue = qu
          /\ r.inFlight = p.inFlight /\ r.lost = p.lost
          /\ r = [order |-> r.order, images |-> r.images, pending |-> r.pending,
                  queue |-> r.queue, inFlight |-> r.inFlight, lost |-> r.lost]
      BY <3>2
    <3> QED
      BY <3>3 DEF o, im, pe, qu
  <2>5. /\ r.order \in Seq(Hours) /\ IsInjective(r.order) /\ Cached(r) = Cached(p) \cup {h}
        /\ \/ Len(r.order) <= MaxCachedFrames
           \/ Len(r.order) = MaxCachedFrames + 1 /\ ToSet(r.order) \ {h} # {}
    BY <2>2, <2>3, <2>4, TouchedOrder DEF Cached
  <2> HIDE DEF r, added
  <2>6. /\ added \in Seq({h} \X fresh) /\ ToSet(added) = {h} \X fresh /\ IsInjective(added)
    <3>1. IsFiniteSet(fresh)
      BY FS_Subset, PreloaderAssumption
    <3>2. IsFiniteSet({h}) /\ IsFiniteSet({h} \X fresh)
      BY <3>1, FS_Singleton, FS_Product
    <3> QED
      BY <3>2, SetToSeqMembers DEF added
  <2>7. added \in Seq(Items)
    <3>1. {h} \X fresh \subseteq Items
      BY DEF Items
    <3> HIDE DEF fresh
    <3> QED
      BY <2>6, <3>1, SeqMonotonic
  <2>8. ASSUME NEW t \in fresh
        PROVE  <<h, t>> \notin p.inFlight \cup ToSet(p.queue)
    <3>1. /\ p.pending[h] = {u \in Urls : <<h, u>> \in p.inFlight \cup ToSet(p.queue)}
          /\ p.pending[h] \subseteq p.images[h]
      BY DEF PreloaderInv, Booked
    <3> QED
      BY <3>1
  <2>9. /\ r.queue \in Seq(Items) /\ ToSet(r.queue) = ToSet(p.queue) \cup ({h} \X fresh)
        /\ IsInjective(r.queue)
    <3>1. ToSet(p.queue) \cap ToSet(added) = {}
      BY <2>6, <2>8
    <3> HIDE DEF fresh
    <3> QED
      BY <2>2, <2>3, <2>4, <2>6, <2>7, <3>1, ConcatMembers
  <2>10. ToSet(r.queue) \cap r.inFlight = {}
    BY <2>3, <2>4, <2>8, <2>9
  <2>11. ASSUME NEW g \in Hours
         PROVE  /\ r.pending[g] = {t \in Urls : <<g, t>> \in r.inFlight \cup ToSet(r.queue)}
                /\ r.pending[g] \subseteq r.images[g]
                /\ g \notin Cached(r) => r.images[g] = {}
    <3>1. /\ p.pending[g] = {t \in Urls : <<g, t>> \in p.inFlight \cup ToSet(p.queue)}
          /\ p.pending[g] \subseteq p.images[g]
          /\ g \notin Cached(p) => p.images[g] = {}
      BY DEF PreloaderInv, Booked
    <3>2. CASE g = h
      <4>1. r.pending[g] = p.pending[h] \cup fresh /\ r.images[g] = p.images[h] \cup fresh
        BY <2>2, <2>4, <3>2
      <4>2. \A t \in Urls : <<h, t>> \in {h} \X fresh <=> t \in fresh
        OBVIOUS
      <4>3. fresh \subseteq Urls
        OBVIOUS
      <4> HIDE DEF fresh
      <4>4. r.pending[g] = {t \in Urls : <<g, t>> \in r.inFlight \cup ToSet(r.queue)}
        BY <2>4, <2>9, <3>1, <3>2, <4>1, <4>2, <4>3
      <4> QED
        BY <2>5, <3>1, <3>2, <4>1, <4>4
    <3>3. CASE g # h
      <4>1. r.pending[g] = p.pending[g] /\ r.images[g] = p.images[g]
        BY <2>2, <2>4, <3>3
      <4>2. \A t \in Urls : <<g, t>> \notin {h} \X fresh
        BY <3>3
      <4> HIDE DEF fresh
      <4>3. r.pending[g] = {t \in Urls : <<g, t>> \in r.inFlight \cup ToSet(r.queue)}
        BY <2>4, <2>9, <3>1, <4>1, <4>2
      <4> QED
        BY <2>5, <3>1, <4>1, <4>3
    <3> QED
      BY <3>2, <3>3
  <2>12. r \in Preloader
    <3>1. r.images \in [Hours -> SUBSET Urls] /\ r.pending \in [Hours -> SUBSET Urls]
      BY <2>2, <2>4
    <3> QED
      BY <2>2, <2>4, <2>5, <2>9, <3>1 DEF Preloader
  <2>13. Booked(r)
    BY <2>3, <2>4, <2>5, <2>9, <2>10, <2>11, <2>12 DEF Booked
  <2>14. /\ PreloaderInv(q) /\ Cached(q) \subseteq Cached(r)
         /\ \A g \in Cached(q) : q.pending[g] = r.pending[g]
    BY <2>5, <2>13, EvictIsBooked
  <2> HIDE DEF q
  <2>15. PreloaderInv(Pump(q)) /\ Pump(q).order = q.order /\ Pump(q).pending = q.pending
    BY <2>14, PumpIsBooked DEF PreloaderInv
  <2>16. ASSUME NEW g \in Hours, IsReady(Pump(q), g)
         PROVE  IsReady(p, g)
    <3>1. g \in Cached(r) /\ r.pending[g] = {}
      BY <2>14, <2>15, <2>16 DEF IsReady, Cached
    <3>2. CASE g # h
      BY <2>2, <2>4, <2>5, <3>1, <3>2 DEF IsReady
    <3>3. CASE g = h
      <4>1. p.pending[h] = {} /\ fresh = {}
        BY <2>2, <2>4, <3>1, <3>3
      <4>2. p.images[h] # {}
        BY <1>2, <4>1
      <4>3. h \in Cached(p)
        BY <4>2 DEF PreloaderInv, Booked
      <4> QED
        BY <3>3, <4>1, <4>3 DEF IsReady
    <3> QED
      BY <3>2, <3>3
  <2> QED
    BY <2>1, <2>15, <2>16 DEF NoReadier
<1> QED
  BY <1>1, <1>2

\* An image that loads or fails frees its slot and leaves its frame.
LEMMA SettledIsBooked ==
    ASSUME PreloaderAssumption, NEW p, PreloaderInv(p), NEW item \in p.inFlight
    PROVE  PreloaderInv(Settled(p, item))
<1> DEFINE r == [p EXCEPT !.inFlight = @ \ {item}, !.pending[item[1]] = @ \ {item[2]}]
<1>1. /\ p \in Preloader /\ p.queue \in Seq(Items) /\ p.inFlight \subseteq Items
      /\ p.lost \in 0..MaxInFlight /\ p.order \in Seq(Hours)
      /\ p.images \in [Hours -> SUBSET Urls] /\ p.pending \in [Hours -> SUBSET Urls]
  BY PreloaderParts DEF PreloaderInv, Booked
<1>2. /\ IsInjective(p.order) /\ IsInjective(p.queue) /\ IsFiniteSet(p.inFlight)
      /\ ToSet(p.queue) \cap p.inFlight = {} /\ Len(p.order) <= MaxCachedFrames
      /\ Cardinality(p.inFlight) + p.lost <= MaxInFlight
  BY DEF PreloaderInv, Booked
<1>3. PICK h \in Hours, t \in Urls : item = <<h, t>>
  <2>1. item \in Hours \X Urls
    BY <1>1 DEF Items
  <2> HIDE DEF r
  <2>2. item[1] \in Hours /\ item[2] \in Urls /\ item = <<item[1], item[2]>>
    BY <2>1
  <2> QED
    BY <2>2
<1>4. Settled(p, item) = Pump(r)
  BY DEF Settled
<1>5. /\ r.order = p.order /\ r.images = p.images /\ r.queue = p.queue /\ r.lost = p.lost
      /\ r.inFlight = p.inFlight \ {item}
      /\ r.pending = [p.pending EXCEPT ![h] = @ \ {t}]
      /\ r \in Preloader
  BY <1>1, <1>3 DEF Preloader
<1> HIDE DEF r
<1>6. /\ IsFiniteSet(r.inFlight) /\ Cardinality(r.inFlight) = Cardinality(p.inFlight) - 1
  BY <1>2, <1>5, FS_RemoveElement
<1>7. Cardinality(r.inFlight) + r.lost <= MaxInFlight
  BY <1>1, <1>2, <1>5, <1>6, FS_CardinalityType, PreloaderAssumption
<1>8. item \notin ToSet(p.queue)
  BY <1>2
<1>9. ASSUME NEW g \in Hours
      PROVE  /\ r.pending[g] = {u \in Urls : <<g, u>> \in r.inFlight \cup ToSet(r.queue)}
             /\ r.pending[g] \subseteq r.images[g]
             /\ g \notin Cached(r) => r.images[g] = {}
  <2>1. /\ p.pending[g] = {u \in Urls : <<g, u>> \in p.inFlight \cup ToSet(p.queue)}
        /\ p.pending[g] \subseteq p.images[g]
        /\ g \notin Cached(p) => p.images[g] = {}
    BY DEF PreloaderInv, Booked
  <2>2. CASE g = h
    <3>1. r.pending[g] = p.pending[g] \ {t}
      BY <1>1, <1>5, <2>2
    <3>2. \A u \in Urls : <<g, u>> = item <=> u = t
      BY <1>3, <2>2
    <3> QED
      BY <1>5, <1>8, <2>1, <3>1, <3>2 DEF Cached
  <2>3. CASE g # h
    <3>1. r.pending[g] = p.pending[g]
      BY <1>1, <1>5, <2>3
    <3>2. \A u \in Urls : <<g, u>> # item
      BY <1>3, <2>3
    <3> QED
      BY <1>5, <2>1, <3>1, <3>2 DEF Cached
  <2> QED
    BY <2>2, <2>3
<1>10. Booked(r)
  BY <1>2, <1>5, <1>6, <1>7, <1>9 DEF Booked
<1> QED
  BY <1>2, <1>4, <1>5, <1>10, PumpIsBooked DEF PreloaderInv

-----------------------------------------------------------------------------
(***************************************************************************)
(* The ladder.                                                             *)
(***************************************************************************)

\* A ladder is an ascending list of hours that is not empty.
LEMMA LadderParts ==
    ASSUME PreloaderAssumption, TimelineAssumption, NEW ladder \in Ladders
    PROVE  /\ ladder \in Seq(Hours) /\ Len(ladder) \in Nat \ {0} /\ DOMAIN ladder = 1..Len(ladder)
           /\ \A i \in 1..Len(ladder) : ladder[i] \in Hours /\ ladder[i] \in Nat
           /\ \A i, j \in 1..Len(ladder) : i < j => ladder[i] < ladder[j]
<1>1. ladder \in Seq(Hours) /\ ladder # <<>>
  BY DEF TimelineAssumption
<1>2. Len(ladder) \in Nat \ {0} /\ DOMAIN ladder = 1..Len(ladder)
  BY <1>1
<1>3. \A i \in 1..Len(ladder) : ladder[i] \in Hours
  BY <1>1
<1> QED
  BY <1>1, <1>2, <1>3 DEF TimelineAssumption, PreloaderAssumption

\* An index is brought into the ladder and stays where it is if it is in.
LEMMA ClampInside ==
    ASSUME NEW i \in Int, NEW n \in Nat \ {0}
    PROVE  /\ Clamp(i, n) \in 0..n - 1
           /\ i \in 0..n - 1 => Clamp(i, n) = i
<1> DEFINE low == Max({i, 0})
<1>1. low = IF i >= 0 THEN i ELSE 0
  BY MaxOfTwo
<1>2. Clamp(i, n) = Min({low, n - 1})
  BY DEF Clamp
<1> HIDE DEF low
<1>3. low \in Int /\ n - 1 \in Int
  BY <1>1
<1>4. Clamp(i, n) = IF low <= n - 1 THEN low ELSE n - 1
  BY <1>2, <1>3, MinOfTwo
<1> QED
  BY <1>1, <1>4

\* The hour at an index.
LEMMA HourInLadder ==
    ASSUME PreloaderAssumption, TimelineAssumption, NEW ladder \in Ladders, NEW i \in Int
    PROVE  /\ HourAt(ladder, i) \in Hours
           /\ i \in 0..Len(ladder) - 1 => HourAt(ladder, i) = ladder[i + 1]
<1>1. /\ Len(ladder) \in Nat \ {0}
      /\ \A k \in 1..Len(ladder) : ladder[k] \in Hours
  BY LadderParts
<1>2. /\ Clamp(i, Len(ladder)) \in 0..Len(ladder) - 1
      /\ i \in 0..Len(ladder) - 1 => Clamp(i, Len(ladder)) = i
  BY <1>1, ClampInside
<1>3. Clamp(i, Len(ladder)) + 1 \in 1..Len(ladder)
  BY <1>1, <1>2
<1> QED
  BY <1>1, <1>2, <1>3 DEF HourAt

\* The frame nearest to an hour is one of the ladder.
LEMMA NearestInLadder ==
    ASSUME PreloaderAssumption, TimelineAssumption, NEW ladder \in Ladders, NEW hour \in Hours
    PROVE  IndexOfHour(ladder, hour) \in 0..Len(ladder) - 1
<1> DEFINE above == {i \in 1..Len(ladder) : ladder[i] >= hour}
           lo == IF above = {} THEN Len(ladder) ELSE Min(above)
<1>1. Len(ladder) \in Nat \ {0}
  BY LadderParts
<1>2. lo \in 1..Len(ladder)
  <2>1. CASE above = {}
    BY <1>1, <2>1
  <2>2. CASE above # {}
    <3>1. above \subseteq Nat
      BY <1>1
    <3>2. \E x \in above : \A y \in above : x =< y
      BY <2>2, <3>1, LeastExists
    <3>3. Min(above) \in above
      BY <3>2 DEF Min
    <3>4. above \subseteq 1..Len(ladder)
      OBVIOUS
    <3>5. lo = Min(above)
      BY <2>2
    <3> HIDE DEF above, lo
    <3> QED
      BY <3>3, <3>4, <3>5
  <2> QED
    BY <2>1, <2>2
<1>3. IndexOfHour(ladder, hour) =
        IF lo > 1 /\ Distance(ladder[lo - 1], hour) <= Distance(ladder[lo], hour)
        THEN lo - 2 ELSE lo - 1
  BY DEF IndexOfHour
<1> HIDE DEF lo
<1> QED
  BY <1>1, <1>2, <1>3

\* The frame nearest to an hour of the ladder is that hour's.
LEMMA NearestIsExact ==
    ASSUME PreloaderAssumption, TimelineAssumption, NEW ladder \in Ladders,
           NEW k \in 0..Len(ladder) - 1
    PROVE  IndexOfHour(ladder, ladder[k + 1]) = k
<1> DEFINE hour == ladder[k + 1]
           above == {i \in 1..Len(ladder) : ladder[i] >= hour}
           lo == IF above = {} THEN Len(ladder) ELSE Min(above)
<1>1. /\ Len(ladder) \in Nat \ {0}
      /\ \A i \in 1..Len(ladder) : ladder[i] \in Nat
      /\ \A i, j \in 1..Len(ladder) : i < j => ladder[i] < ladder[j]
  BY LadderParts
<1>2. k + 1 \in 1..Len(ladder) /\ k \in Nat
  BY <1>1
<1>3. k + 1 \in above
  BY <1>1, <1>2
<1>4. \A i \in above : k + 1 =< i
  BY <1>1, <1>2
<1>5. above \subseteq Int
  BY <1>1
<1>6. lo = k + 1
  <2>1. ASSUME NEW x \in above, \A y \in above : x =< y
        PROVE  x = k + 1
    <3>1. x =< k + 1 /\ k + 1 =< x /\ x \in Int
      BY <1>3, <1>4, <1>5, <2>1
    <3> HIDE DEF above
    <3> QED
      BY <1>2, <3>1
  <2> HIDE DEF above
  <2>2. Min(above) = k + 1
    BY <1>3, <1>4, <2>1 DEF Min
  <2> QED
    BY <1>3, <2>2
<1>7. IndexOfHour(ladder, hour) =
        IF lo > 1 /\ Distance(ladder[lo - 1], hour) <= Distance(ladder[lo], hour)
        THEN lo - 2 ELSE lo - 1
  BY DEF IndexOfHour
<1> HIDE DEF lo
<1>8. CASE k = 0
  BY <1>6, <1>7, <1>8
<1>9. CASE k > 0
  <2>1. k \in 1..Len(ladder) /\ ladder[k] < ladder[k + 1]
    BY <1>1, <1>2, <1>9
  <2>2. Distance(ladder[k], hour) > 0 /\ Distance(ladder[k + 1], hour) = 0
    BY <1>1, <1>2, <2>1 DEF Distance
  <2>3. lo - 1 = k
    BY <1>2, <1>6
  <2>4. ~(Distance(ladder[lo - 1], hour) <= Distance(ladder[lo], hour))
    <3>1. Distance(ladder[k], hour) \in Int
      BY <1>1, <1>2, <2>1 DEF Distance
    <3> QED
      BY <1>6, <2>2, <2>3, <3>1
  <2>5. IndexOfHour(ladder, hour) = lo - 1
    BY <1>7, <2>4
  <2> QED
    BY <2>3, <2>5
<1> QED
  BY <1>2, <1>8, <1>9

-----------------------------------------------------------------------------
(***************************************************************************)
(* The engine.                                                             *)
(***************************************************************************)

Engine ==
    [ladder : Ladders, index : Nat, playing : BOOLEAN, direction : {1, -1},
     mode : {"forward", "rocking"}, buffering : BOOLEAN, loops : 0..MaxLoops,
     armed : BOOLEAN, cache : Preloader]

\* The playhead is on a frame, the callback that rafHandle names is outstanding, and the
\* preloader keeps its books.
GoodEngine(e) ==
    /\ e \in Engine
    /\ e.index < Len(e.ladder)
    /\ e.armed => e.loops > 0
    /\ PreloaderInv(e.cache)

\* SpinnerIsHonest, of an engine.
Honest(e) == e.buffering => e.playing /\ ~IsReady(e.cache, CurrentHour(e))

\* The same engine with more frames asked for.
Warmed(x, e) ==
    \E c : PreloaderInv(c) /\ NoReadier(c, e.cache) /\ x = [e EXCEPT !.cache = c]

\* What an engine has.
LEMMA EngineParts ==
    ASSUME PreloaderAssumption, TimelineAssumption, NEW e, GoodEngine(e)
    PROVE  /\ e.ladder \in Ladders /\ e.index \in Nat /\ e.playing \in BOOLEAN
           /\ e.direction \in {1, -1} /\ e.mode \in {"forward", "rocking"}
           /\ e.buffering \in BOOLEAN /\ e.loops \in Nat /\ e.loops <= MaxLoops
           /\ e.armed \in BOOLEAN /\ e.armed => e.loops > 0
           /\ PreloaderInv(e.cache) /\ e.cache \in Preloader
           /\ Count(e) = Len(e.ladder) /\ Count(e) \in Nat \ {0}
           /\ e.index \in 0..Count(e) - 1 /\ Forward(e) \in {1, -1}
           /\ CurrentHour(e) = e.ladder[e.index + 1] /\ CurrentHour(e) \in Hours
<1>1. /\ e.ladder \in Ladders /\ e.index \in Nat /\ e.playing \in BOOLEAN
      /\ e.direction \in {1, -1} /\ e.mode \in {"forward", "rocking"}
      /\ e.buffering \in BOOLEAN /\ e.loops \in 0..MaxLoops
      /\ e.armed \in BOOLEAN /\ e.cache \in Preloader
  BY DEF GoodEngine, Engine
<1>2. Len(e.ladder) \in Nat \ {0}
  BY <1>1, LadderParts
<1>3. e.index \in 0..Len(e.ladder) - 1 /\ e.index \in Int
  BY <1>1, <1>2 DEF GoodEngine
<1>4. CurrentHour(e) = e.ladder[e.index + 1] /\ CurrentHour(e) \in Hours
  BY <1>1, <1>3, HourInLadder DEF CurrentHour
<1>5. e.loops \in Nat /\ e.loops <= MaxLoops
  BY <1>1, TimelineAssumption DEF TimelineAssumption
<1> QED
  BY <1>1, <1>2, <1>3, <1>4, <1>5 DEF GoodEngine, Count, Forward

\* Asking for frames changes the preloader only.
LEMMA WarmedParts ==
    ASSUME PreloaderAssumption, TimelineAssumption, NEW e, GoodEngine(e), NEW x, Warmed(x, e)
    PROVE  /\ GoodEngine(x)
           /\ x.ladder = e.ladder /\ x.index = e.index /\ x.playing = e.playing
           /\ x.direction = e.direction /\ x.mode = e.mode /\ x.buffering = e.buffering
           /\ x.loops = e.loops /\ x.armed = e.armed
           /\ NoReadier(x.cache, e.cache)
<1>1. PICK c : PreloaderInv(c) /\ NoReadier(c, e.cache) /\ x = [e EXCEPT !.cache = c]
  BY DEF Warmed
<1>2. e \in Engine /\ c \in Preloader
  BY <1>1 DEF GoodEngine, PreloaderInv, Booked
<1>3. /\ x \in Engine /\ x.cache = c
      /\ x.ladder = e.ladder /\ x.index = e.index /\ x.playing = e.playing
      /\ x.direction = e.direction /\ x.mode = e.mode /\ x.buffering = e.buffering
      /\ x.loops = e.loops /\ x.armed = e.armed
  BY <1>1, <1>2 DEF Engine
<1> QED
  BY <1>1, <1>3 DEF GoodEngine

\* An engine that asks for nothing is one that has asked.
LEMMA WarmedSame ==
    ASSUME PreloaderAssumption, TimelineAssumption, NEW e, GoodEngine(e)
    PROVE  Warmed(e, e)
<1>1. e \in Engine
  BY DEF GoodEngine
<1>2. e = [e EXCEPT !.cache = e.cache]
  BY <1>1 DEF Engine
<1>3. PreloaderInv(e.cache) /\ NoReadier(e.cache, e.cache)
  BY DEF GoodEngine, NoReadier
<1> QED
  BY <1>2, <1>3 DEF Warmed

\* Asking for one more frame.
LEMMA RequestFrameWarms ==
    ASSUME PreloaderAssumption, TimelineAssumption, NEW e, GoodEngine(e), NEW x, Warmed(x, e),
           NEW i \in Int
    PROVE  Warmed(RequestFrame(x, i), e)
<1>1. PICK c : PreloaderInv(c) /\ NoReadier(c, e.cache) /\ x = [e EXCEPT !.cache = c]
  BY DEF Warmed
<1>2. GoodEngine(x)
  BY WarmedParts
<1>3. Count(x) \in Nat \ {0} /\ Count(x) = Len(x.ladder) /\ x.ladder \in Ladders
  BY <1>2, EngineParts
<1>4. (i % Count(x)) + 1 \in 1..Count(x)
  <2> DEFINE n == Count(x)
  <2> HIDE DEF n
  <2>1. n \in Nat \ {0}
    BY <1>3 DEF n
  <2>2. i % n \in 0..n - 1
    BY <2>1
  <2>3. (i % n) + 1 \in 1..n
    BY <2>1, <2>2
  <2> QED
    BY <2>3 DEF n
<1> DEFINE h == x.ladder[(i % Count(x)) + 1]
           d == Request(c, h)
<1>5. h \in Hours
  BY <1>3, <1>4, LadderParts
<1> HIDE DEF h
<1>6. PreloaderInv(d) /\ NoReadier(d, c)
  BY <1>1, <1>5, RequestIsBooked
<1>7. e \in Engine
  BY DEF GoodEngine
<1>8. RequestFrame(x, i) = [x EXCEPT !.cache = Request(x.cache, h)]
  BY DEF RequestFrame, h
<1>9. x.cache = c /\ [x EXCEPT !.cache = d] = [e EXCEPT !.cache = d]
  BY <1>1, <1>7 DEF Engine
<1>10. NoReadier(d, e.cache)
  BY <1>1, <1>6 DEF NoReadier
<1>11. RequestFrame(x, i) = [e EXCEPT !.cache = d]
  BY <1>8, <1>9
<1> HIDE DEF d
<1> QED
  BY <1>6, <1>10, <1>11 DEF Warmed

\* Asking for a number of frames: the recursion of PreloadFrames.
LEMMA PreloadFramesWarms ==
    ASSUME PreloaderAssumption, TimelineAssumption, NEW e, GoodEngine(e),
           NEW start \in Int, NEW n \in Nat
    PROVE  Warmed(PreloadFrames(e, start, n), e)
<1> DEFINE d == Forward(e)
           S == {x \in Engine : Warmed(x, e)}
           Body(f) == [k \in 0..n |-> IF k = 0 THEN e
                                      ELSE RequestFrame(f[k - 1], start + d * (k - 1))]
           step == [k \in Nat |-> [x \in S |-> RequestFrame(x, start + d * (k - 1))]]
           after == CHOOSE f : f = Body(f)
<1>1. d \in {1, -1}
  BY EngineParts
<1>2. e \in S
  BY WarmedSame DEF GoodEngine
<1>3. ASSUME NEW k \in Nat, NEW x \in S
      PROVE  RequestFrame(x, start + d * (k - 1)) \in S
  <2> DEFINE y == RequestFrame(x, start + d * (k - 1))
  <2>1. start + d * (k - 1) \in Int
    BY <1>1
  <2>2. Warmed(y, e)
    BY <2>1, RequestFrameWarms
  <2> HIDE DEF y
  <2>3. y \in Engine
    BY <2>2, WarmedParts DEF GoodEngine
  <2> QED
    BY <2>2, <2>3 DEF y
<1> HIDE DEF d, S
<1>4. step \in [Nat -> [S -> S]]
  BY <1>3
<1>5. PICK f : Iterates(f, S, e, step, n)
  <2> HIDE DEF step
  <2> QED
    BY <1>2, <1>4, RecursionExists
<1>6. f = Body(f)
  <2>1. ASSUME NEW k \in 0..n, k # 0
        PROVE  f[k] = RequestFrame(f[k - 1], start + d * (k - 1))
    <3>1. k \in 1..n /\ k \in Nat /\ k - 1 \in 0..n
      BY <2>1
    <3>2. f[k - 1] \in S /\ f[k] = step[k][f[k - 1]]
      BY <1>5, <3>1 DEF Iterates
    <3> QED
      BY <3>1, <3>2
  <2>2. DOMAIN f = 0..n /\ f[0] = e /\ f = [k \in 0..n |-> f[k]]
    BY <1>5 DEF Iterates
  <2> QED
    BY <2>1, <2>2
<1>7. after = Body(after)
  <2> HIDE DEF Body
  <2> QED
    BY <1>6
<1>8. PreloadFrames(e, start, n) = after[n]
  BY Zenon DEF PreloadFrames, d
<1> HIDE DEF after
<1>9. /\ after[0] = e
      /\ \A k \in 1..n : after[k] = RequestFrame(after[k - 1], start + d * (k - 1))
  <2> DEFINE h == Body(after)
  <2>1. /\ h[0] = e
        /\ \A k \in 1..n : h[k] = RequestFrame(after[k - 1], start + d * (k - 1))
    OBVIOUS
  <2>2. h = after
    BY <1>7
  <2> HIDE DEF h
  <2> QED
    BY <2>1, <2>2
<1> DEFINE T == {k \in Nat : k <= n => after[k] \in S}
<1>10. 0 \in T
  BY <1>2, <1>9
<1>11. ASSUME NEW k \in Nat, k \in T
       PROVE  k + 1 \in T
  <2>1. CASE k + 1 <= n
    <3>1. k + 1 \in 1..n /\ (k + 1) - 1 = k /\ after[k] \in S /\ k + 1 \in Nat
      BY <1>11, <2>1
    <3>2. after[k + 1] = RequestFrame(after[k], start + d * k)
      BY <1>9, <3>1
    <3>3. RequestFrame(after[k], start + d * ((k + 1) - 1)) \in S
      BY <1>3, <3>1
    <3> QED
      BY <3>1, <3>2, <3>3
  <2> QED
    BY <2>1
<1> HIDE DEF T
<1>12. n \in T
  BY <1>10, <1>11, Induction
<1> QED
  BY <1>8, <1>12 DEF T, S

\* preloadAhead and preloadFrom.
LEMMA PreloadsWarm ==
    ASSUME PreloaderAssumption, TimelineAssumption, NEW e, GoodEngine(e)
    PROVE  /\ Warmed(PreloadAheadOfPlayhead(e), e)
           /\ \A i \in Int : Warmed(PreloadFrom(e, i), e)
<1>1. e.index \in Int /\ Count(e) \in Nat \ {0} /\ PreloadAhead \in Nat /\ PreloadAhead + 1 \in Nat
  BY EngineParts DEF TimelineAssumption
<1>2. Max({1, PreloadAhead}) \in Nat
  <2>1. Max({1, PreloadAhead}) = IF 1 >= PreloadAhead THEN 1 ELSE PreloadAhead
    BY <1>1, MaxOfTwo
  <2> QED
    BY <1>1, <2>1
<1>3. ASSUME NEW i \in Int
      PROVE  Clamp(i, Count(e)) \in Int
  <2>1. Clamp(i, Count(e)) \in 0..Count(e) - 1
    BY <1>1, ClampInside
  <2> QED
    BY <2>1
<1>4. Warmed(PreloadAheadOfPlayhead(e), e)
  BY <1>1, PreloadFramesWarms DEF PreloadAheadOfPlayhead
<1>5. ASSUME NEW i \in Int
      PROVE  Warmed(PreloadFrom(e, i), e)
  BY <1>2, <1>3, PreloadFramesWarms DEF PreloadFrom
<1> QED
  BY <1>4, <1>5

\* x is where e is.
SamePlace(x, e) == x.ladder = e.ladder /\ x.index = e.index

\* refreshBuffering leaves an honest indicator.
LEMMA RefreshKeeps ==
    ASSUME PreloaderAssumption, TimelineAssumption, NEW e, GoodEngine(e)
    PROVE  /\ GoodEngine(RefreshBuffering(e)) /\ Honest(RefreshBuffering(e))
           /\ SamePlace(RefreshBuffering(e), e)
           /\ RefreshBuffering(e).loops = e.loops
<1> DEFINE b == e.playing /\ ~IsReady(e.cache, CurrentHour(e))
           x == RefreshBuffering(e)
<1>1. e \in Engine
  BY DEF GoodEngine
<1>2. x = [e EXCEPT !.buffering = b] /\ b \in BOOLEAN
  BY DEF RefreshBuffering
<1> HIDE DEF x
<1>3. /\ x.ladder = e.ladder /\ x.index = e.index /\ x.playing = e.playing
      /\ x.loops = e.loops /\ x.armed = e.armed /\ x.cache = e.cache /\ x.buffering = b
  <2> HIDE DEF b
  <2> QED
    BY <1>1, <1>2 DEF Engine
<1>4. x \in Engine
  <2> HIDE DEF b
  <2> QED
    BY <1>1, <1>2 DEF Engine
<1>5. CurrentHour(x) = CurrentHour(e)
  BY <1>3 DEF CurrentHour
<1>6. GoodEngine(x) /\ Honest(x) /\ SamePlace(x, e)
  BY <1>3, <1>4, <1>5 DEF GoodEngine, Honest, SamePlace
<1> QED
  BY <1>3, <1>6 DEF x

\* One more callback.
LEMMA ArmKeeps ==
    ASSUME PreloaderAssumption, TimelineAssumption, NEW e, GoodEngine(e), e.loops < MaxLoops
    PROVE  /\ GoodEngine(Arm(e)) /\ SamePlace(Arm(e), e)
           /\ Honest(e) => Honest(Arm(e))
<1> DEFINE x == Arm(e)
<1>1. e \in Engine /\ e.loops \in Nat /\ MaxLoops \in Nat
  BY EngineParts DEF GoodEngine, TimelineAssumption
<1>2. /\ x \in Engine
      /\ x.ladder = e.ladder /\ x.index = e.index /\ x.playing = e.playing
      /\ x.loops = e.loops + 1 /\ x.armed /\ x.cache = e.cache /\ x.buffering = e.buffering
  <2> DEFINE l == e.loops + 1
  <2>1. l \in 0..MaxLoops
    BY <1>1
  <2>2. x = [e EXCEPT !.loops = l, !.armed = TRUE]
    BY DEF Arm
  <2> HIDE DEF l, x
  <2>3. /\ x \in Engine
        /\ x.ladder = e.ladder /\ x.index = e.index /\ x.playing = e.playing
        /\ x.loops = l /\ x.armed = TRUE /\ x.cache = e.cache /\ x.buffering = e.buffering
    BY <1>1, <2>1, <2>2 DEF Engine
  <2> QED
    BY <2>3 DEF l
<1> HIDE DEF x
<1>3. CurrentHour(x) = CurrentHour(e)
  BY <1>2 DEF CurrentHour
<1>4. GoodEngine(x) /\ SamePlace(x, e) /\ (Honest(e) => Honest(x))
  BY <1>1, <1>2, <1>3 DEF GoodEngine, Honest, SamePlace
<1> QED
  BY <1>4 DEF x

\* pause: the playhead stays, and no callback is added.
LEMMA PauseKeeps ==
    ASSUME PreloaderAssumption, TimelineAssumption, NEW e, GoodEngine(e)
    PROVE  /\ GoodEngine(Pause(e)) /\ SamePlace(Pause(e), e)
           /\ Honest(e) => Honest(Pause(e))
           /\ Pause(e).loops <= e.loops
<1>1. e \in Engine /\ e.loops \in Nat /\ e.loops <= MaxLoops /\ (e.armed => e.loops > 0)
      /\ e.armed \in BOOLEAN
  <2>1. e \in Engine /\ (e.armed => e.loops > 0)
    BY DEF GoodEngine
  <2>2. e.loops \in Nat /\ e.loops <= MaxLoops
    BY EngineParts
  <2>3. e.armed \in BOOLEAN
    BY <2>1 DEF Engine
  <2> QED
    BY <2>1, <2>2, <2>3
<1>2. CASE ~e.playing
  BY <1>1, <1>2 DEF Pause, SamePlace
<1>3. CASE e.playing
  <2> DEFINE l == IF e.armed THEN e.loops - 1 ELSE e.loops
             x == [e EXCEPT !.playing = FALSE, !.loops = l, !.armed = FALSE]
  <2>1. Pause(e) = RefreshBuffering(x)
    BY <1>3 DEF Pause
  <2>2. l \in 0..MaxLoops /\ l <= e.loops
    BY <1>1 DEF TimelineAssumption
  <2> HIDE DEF l
  <2>3. /\ x \in Engine /\ x.ladder = e.ladder /\ x.index = e.index
        /\ x.loops = l /\ x.armed = FALSE /\ x.cache = e.cache
    BY <1>1, <2>2 DEF Engine
  <2> HIDE DEF x
  <2>4. GoodEngine(x) /\ SamePlace(x, e)
    BY <2>3 DEF GoodEngine, SamePlace
  <2> QED
    BY <2>1, <2>2, <2>3, <2>4, RefreshKeeps DEF SamePlace
<1> QED
  BY <1>1, <1>2, <1>3

\* play: an armed, honest engine in the same place.
LEMMA PlayKeeps ==
    ASSUME PreloaderAssumption, TimelineAssumption, NEW e, GoodEngine(e), e.loops < MaxLoops
    PROVE  GoodEngine(Play(e)) /\ Honest(Play(e)) /\ SamePlace(Play(e), e)
<1> DEFINE x == [e EXCEPT !.playing = TRUE]
           y == PreloadAheadOfPlayhead(Arm(x))
<1>1. e \in Engine
  BY DEF GoodEngine
<1>2. /\ x \in Engine /\ x.ladder = e.ladder /\ x.index = e.index
      /\ x.loops = e.loops /\ x.armed = e.armed /\ x.cache = e.cache
  BY <1>1 DEF Engine
<1> HIDE DEF x
<1>3. GoodEngine(x) /\ SamePlace(x, e) /\ x.loops < MaxLoops
  BY <1>2 DEF GoodEngine, SamePlace
<1>4. GoodEngine(Arm(x)) /\ SamePlace(Arm(x), x)
  BY <1>3, ArmKeeps
<1>5. GoodEngine(y) /\ SamePlace(y, Arm(x))
  BY <1>4, PreloadsWarm, WarmedParts DEF SamePlace
<1>6. Play(e) = RefreshBuffering(y)
  BY DEF Play, x
<1> HIDE DEF y
<1> QED
  BY <1>3, <1>4, <1>5, <1>6, RefreshKeeps DEF SamePlace

\* seekIndex and syncIndex: the playhead is where it was sent.
LEMMA MoveToKeeps ==
    ASSUME PreloaderAssumption, TimelineAssumption, NEW e, GoodEngine(e),
           NEW i \in 0..Len(e.ladder) - 1
    PROVE  /\ GoodEngine(MoveTo(e, i)) /\ Honest(MoveTo(e, i))
           /\ MoveTo(e, i).ladder = e.ladder /\ MoveTo(e, i).index = i
<1> DEFINE x == [e EXCEPT !.index = i]
           y == PreloadFrom(x, i)
<1>1. e \in Engine /\ Len(e.ladder) \in Nat
  BY EngineParts DEF GoodEngine, Count
<1>2. i \in Nat /\ i \in Int /\ i < Len(e.ladder)
  BY <1>1
<1>3. /\ x \in Engine /\ x.ladder = e.ladder /\ x.index = i
      /\ x.loops = e.loops /\ x.armed = e.armed /\ x.cache = e.cache
  BY <1>1, <1>2 DEF Engine
<1> HIDE DEF x
<1>4. GoodEngine(x)
  BY <1>2, <1>3 DEF GoodEngine
<1>5. GoodEngine(y) /\ SamePlace(y, x)
  BY <1>2, <1>4, PreloadsWarm, WarmedParts DEF SamePlace
<1>6. MoveTo(e, i) = RefreshBuffering(y)
  BY DEF MoveTo, x
<1> HIDE DEF y
<1> QED
  BY <1>3, <1>5, <1>6, RefreshKeeps DEF SamePlace

\* setHours: the new ladder, with the playhead on it.
LEMMA SetHoursKeeps ==
    ASSUME PreloaderAssumption, TimelineAssumption, NEW e, GoodEngine(e), Honest(e),
           NEW ladder \in Ladders
    PROVE  /\ GoodEngine(SetHours(e, ladder)) /\ Honest(SetHours(e, ladder))
           /\ SetHours(e, ladder).ladder = ladder
<1>1. CASE ladder = e.ladder
  BY <1>1 DEF SetHours
<1>2. CASE ladder # e.ladder
  <2> DEFINE i == Clamp(e.index, Len(ladder))
             f == [e EXCEPT !.ladder = ladder, !.index = Clamp(@, Len(ladder))]
             kept == {HourAt(ladder, (f.index + Forward(f) * k) % Len(ladder)) : k \in 0..PreloadAhead}
             c == Evict(f.cache, kept)
             x == [f EXCEPT !.cache = Evict(@, kept)]
  <2>1. SetHours(e, ladder) = RefreshBuffering(x)
    BY <1>2 DEF SetHours
  <2>2. /\ e \in Engine /\ e.index \in Int /\ PreloaderInv(e.cache)
        /\ Len(ladder) \in Nat \ {0}
    BY EngineParts, LadderParts DEF GoodEngine
  <2>3. i \in 0..Len(ladder) - 1
    BY <2>2, ClampInside
  <2>4. i \in Nat /\ i < Len(ladder)
    BY <2>2, <2>3
  <2>5. f = [e EXCEPT !.ladder = ladder, !.index = i]
    BY <2>2 DEF Engine
  <2> HIDE DEF i, kept
  <2>6. /\ f \in Engine /\ f.ladder = ladder /\ f.index = i /\ f.cache = e.cache
        /\ f.loops = e.loops /\ f.armed = e.armed
    BY <2>2, <2>4, <2>5 DEF Engine
  <2> HIDE DEF f
  <2>7. PreloaderInv(c)
    BY <2>2, <2>6, EvictIsBooked DEF PreloaderInv
  <2> HIDE DEF c
  <2>8. x = [f EXCEPT !.cache = c]
    BY DEF c
  <2> HIDE DEF x
  <2>9. c \in Preloader
    BY <2>7 DEF PreloaderInv, Booked
  <2>10. /\ x \in Engine /\ x.ladder = ladder /\ x.index = i /\ x.cache = c
         /\ x.loops = e.loops /\ x.armed = e.armed
    BY <2>6, <2>8, <2>9 DEF Engine
  <2>11. GoodEngine(x)
    BY <2>4, <2>7, <2>10 DEF GoodEngine
  <2> QED
    BY <2>1, <2>10, <2>11, RefreshKeeps DEF SamePlace
<1> QED
  BY <1>1, <1>2

\* setTileContext: another preloader, the same place.
LEMMA SetTileContextKeeps ==
    ASSUME PreloaderAssumption, TimelineAssumption, NEW e, GoodEngine(e)
    PROVE  GoodEngine(SetTileContext(e)) /\ Honest(SetTileContext(e)) /\ SamePlace(SetTileContext(e), e)
<1> DEFINE x == [e EXCEPT !.cache = EmptyPreloader]
           y == PreloadAheadOfPlayhead(x)
<1>1. e \in Engine /\ PreloaderInv(EmptyPreloader) /\ EmptyPreloader \in Preloader
  BY EmptyIsBooked DEF GoodEngine, PreloaderInv, Booked
<1>2. /\ x \in Engine /\ x.ladder = e.ladder /\ x.index = e.index
      /\ x.loops = e.loops /\ x.armed = e.armed /\ x.cache = EmptyPreloader
  BY <1>1 DEF Engine
<1> HIDE DEF x
<1>3. GoodEngine(x)
  BY <1>1, <1>2 DEF GoodEngine
<1>4. GoodEngine(y) /\ SamePlace(y, x)
  BY <1>3, PreloadsWarm, WarmedParts DEF SamePlace
<1>5. SetTileContext(e) = RefreshBuffering(y)
  BY DEF SetTileContext, x
<1> HIDE DEF y
<1> QED
  BY <1>2, <1>4, <1>5, RefreshKeeps DEF SamePlace

\* x is e after some frames of playback.
Played(x, e) ==
    /\ GoodEngine(x)
    /\ x.ladder = e.ladder
    /\ x.loops <= e.loops
    /\ Count(e) < 2 => x.index = e.index

\* The next index is one of the ladder.
LEMMA NextIndexInside ==
    ASSUME PreloaderAssumption, TimelineAssumption, NEW e, GoodEngine(e), Count(e) >= 2
    PROVE  NextIndex(e).index \in 0..Count(e) - 1 /\ NextIndex(e).direction \in {1, -1}
<1> DEFINE n == Count(e)
           i == e.index
           d == e.direction
           turned == IF i + d \in 0..n - 1 THEN d ELSE -d
<1>1. n \in Nat /\ n >= 2 /\ i \in 0..n - 1 /\ d \in {1, -1}
  BY EngineParts
<1>2. NextIndex(e) = IF e.mode = "rocking" THEN [index |-> i + turned, direction |-> turned]
                     ELSE [index |-> (i + d) % n, direction |-> d]
  BY DEF NextIndex
<1> HIDE DEF n, i, d
<1>3. i + turned \in 0..n - 1 /\ turned \in {1, -1}
  BY <1>1
<1>4. (i + d) % n \in 0..n - 1
  <2>1. i + d \in Int /\ n \in Nat \ {0}
    BY <1>1
  <2> DEFINE j == i + d
  <2> HIDE DEF j
  <2>2. j % n \in 0..n - 1
    BY <2>1 DEF j
  <2> QED
    BY <2>2 DEF j
<1> HIDE DEF turned
<1>5. NextIndex(e).index \in 0..n - 1 /\ NextIndex(e).direction \in {1, -1}
  BY <1>1, <1>2, <1>3, <1>4
<1> QED
  BY <1>5 DEF n

\* One frame of playback.
LEMMA AdvanceFramePlays ==
    ASSUME PreloaderAssumption, TimelineAssumption, NEW e, GoodEngine(e), NEW x, Played(x, e)
    PROVE  Played(AdvanceFrame(x), e)
<1>1. GoodEngine(x) /\ x.ladder = e.ladder /\ x.loops <= e.loops /\ (Count(e) < 2 => x.index = e.index)
  BY DEF Played
<1>2. Count(x) = Count(e) /\ Count(x) \in Nat /\ x.loops \in Nat /\ e.loops \in Nat
  BY <1>1, EngineParts DEF Count
<1>3. CASE Count(x) < 2
  <2>1. AdvanceFrame(x) = Pause(x)
    BY <1>3 DEF AdvanceFrame
  <2>2. GoodEngine(Pause(x)) /\ SamePlace(Pause(x), x) /\ Pause(x).loops <= x.loops
    BY <1>1, PauseKeeps
  <2>3. Pause(x).loops \in Nat
    BY <2>2, EngineParts
  <2> QED
    BY <1>1, <1>2, <2>1, <2>2, <2>3 DEF Played, SamePlace
<1>4. CASE Count(x) >= 2
  <2> DEFINE j == NextIndex(x).index
             d == NextIndex(x).direction
             y == [x EXCEPT !.index = j, !.direction = d]
  <2>1. j \in 0..Count(x) - 1 /\ d \in {1, -1}
    BY <1>1, <1>4, NextIndexInside
  <2>2. AdvanceFrame(x) = PreloadAheadOfPlayhead(y)
    BY <1>2, <1>4 DEF AdvanceFrame
  <2> HIDE DEF j, d
  <2>3. j \in Nat /\ j < Len(x.ladder) /\ x \in Engine
    BY <1>1, <1>2, <2>1 DEF Count, GoodEngine
  <2>4. /\ y \in Engine /\ y.ladder = x.ladder /\ y.index = j
        /\ y.loops = x.loops /\ y.armed = x.armed /\ y.cache = x.cache
    BY <2>1, <2>3 DEF Engine
  <2> HIDE DEF y
  <2>5. GoodEngine(y)
    BY <1>1, <2>3, <2>4 DEF GoodEngine
  <2>6. Warmed(PreloadAheadOfPlayhead(y), y)
    BY <2>5, PreloadsWarm
  <2>7. /\ GoodEngine(PreloadAheadOfPlayhead(y))
        /\ PreloadAheadOfPlayhead(y).ladder = y.ladder
        /\ PreloadAheadOfPlayhead(y).loops = y.loops
    BY <2>5, <2>6, WarmedParts
  <2> QED
    BY <1>1, <1>2, <1>4, <2>2, <2>4, <2>7 DEF Played
<1> QED
  BY <1>2, <1>3, <1>4

\* A number of frames of playback: the recursion of Advanced.
LEMMA AdvancedPlays ==
    ASSUME PreloaderAssumption, TimelineAssumption, NEW e, GoodEngine(e), NEW n \in Nat
    PROVE  Played(Advanced(e, n), e) /\ (n = 0 => Advanced(e, n) = e)
<1> DEFINE S == {x \in Engine : Played(x, e)}
           Body(f) == [k \in 0..n |-> IF k = 0 THEN e ELSE AdvanceFrame(f[k - 1])]
           step == [k \in Nat |-> [x \in S |-> AdvanceFrame(x)]]
           after == CHOOSE f : f = Body(f)
<1>1. e \in S
  <2>1. e.loops \in Nat
    BY EngineParts
  <2> QED
    BY <2>1 DEF Played, GoodEngine
<1>2. ASSUME NEW x \in S
      PROVE  AdvanceFrame(x) \in S
  <2>1. Played(AdvanceFrame(x), e)
    BY AdvanceFramePlays
  <2> QED
    BY <2>1 DEF Played, GoodEngine
<1> HIDE DEF S
<1>3. step \in [Nat -> [S -> S]]
  BY <1>2
<1>4. PICK f : Iterates(f, S, e, step, n)
  <2> HIDE DEF step
  <2> QED
    BY <1>1, <1>3, RecursionExists
<1>5. f = Body(f)
  <2>1. ASSUME NEW k \in 0..n, k # 0
        PROVE  f[k] = AdvanceFrame(f[k - 1])
    <3>1. k \in 1..n /\ k \in Nat /\ k - 1 \in 0..n
      BY <2>1
    <3>2. f[k - 1] \in S /\ f[k] = step[k][f[k - 1]]
      BY <1>4, <3>1 DEF Iterates
    <3> QED
      BY <3>1, <3>2
  <2>2. DOMAIN f = 0..n /\ f[0] = e /\ f = [k \in 0..n |-> f[k]]
    BY <1>4 DEF Iterates
  <2> QED
    BY <2>1, <2>2
<1>6. after = Body(after)
  <2> HIDE DEF Body
  <2> QED
    BY <1>5
<1>7. Advanced(e, n) = after[n]
  BY Zenon DEF Advanced
<1> HIDE DEF after
<1>8. /\ after[0] = e
      /\ \A k \in 1..n : after[k] = AdvanceFrame(after[k - 1])
  <2> DEFINE h == Body(after)
  <2>1. /\ h[0] = e
        /\ \A k \in 1..n : h[k] = AdvanceFrame(after[k - 1])
    OBVIOUS
  <2>2. h = after
    BY <1>6
  <2> HIDE DEF h
  <2> QED
    BY <2>1, <2>2
<1> DEFINE T == {k \in Nat : k <= n => after[k] \in S}
<1>9. 0 \in T
  BY <1>1, <1>8
<1>10. ASSUME NEW k \in Nat, k \in T
       PROVE  k + 1 \in T
  <2>1. CASE k + 1 <= n
    <3>1. k + 1 \in 1..n /\ (k + 1) - 1 = k /\ after[k] \in S /\ k + 1 \in Nat
      BY <1>10, <2>1
    <3>2. after[k + 1] = AdvanceFrame(after[k])
      BY <1>8, <3>1
    <3> QED
      BY <1>2, <3>1, <3>2
  <2> QED
    BY <2>1
<1> HIDE DEF T
<1>11. n \in T
  BY <1>9, <1>10, Induction
<1>12. after[n] \in S
  BY <1>11 DEF T
<1> QED
  BY <1>7, <1>8, <1>12 DEF S

-----------------------------------------------------------------------------
(***************************************************************************)
(* Playhead and page.                                                      *)
(***************************************************************************)

\* What each render and each effect leaves of the agreement between playhead and page: the
\* effect that moves the playhead runs whenever the one that changes the ladder does; the
\* ladders agree once the latter has run; and the playhead is on the page's frame once the
\* former has run, unless another hour is on its way to the page.
RestInv ==
    /\ "hours" \in due => "sync" \in due
    /\ "hours" \notin due => engine.ladder = page.ladder
    /\ "sync" \notin due /\ asked \in {NoHour, page.hour} =>
         engine.index = IndexOfHour(page.ladder, page.hour)

PageTyped ==
    /\ asked \in Hours \cup {NoHour}
    /\ page \in [ladder : Ladders, hour : Hours]
    /\ due \subseteq Effect
    /\ moves \in 0..Moves

TimelineInv == GoodEngine(engine) /\ Honest(engine) /\ PageTyped /\ RestInv

\* The page is mounted.
LEMMA TimelineInit ==
    ASSUME PreloaderAssumption, TimelineAssumption, Init
    PROVE  TimelineInv
<1>1. /\ page.ladder \in Ladders /\ page.hour \in Hours /\ page \in [ladder : Ladders, hour : Hours]
      /\ engine = NewEngine(page.ladder, page.hour)
  BY DEF Init, TimelineAssumption
<1> DEFINE i == IndexOfHour(page.ladder, page.hour)
<1>2. i \in 0..Len(page.ladder) - 1 /\ Len(page.ladder) \in Nat
  BY <1>1, NearestInLadder, LadderParts
<1>3. engine = [ladder |-> page.ladder, index |-> i, playing |-> FALSE, direction |-> 1,
                mode |-> "forward", buffering |-> FALSE, loops |-> 0, armed |-> FALSE,
                cache |-> EmptyPreloader]
  BY <1>1 DEF NewEngine
<1> HIDE DEF i
<1>4. PreloaderInv(EmptyPreloader) /\ EmptyPreloader \in Preloader
  BY EmptyIsBooked DEF PreloaderInv, Booked
<1>5. i \in Nat /\ i < Len(page.ladder) /\ 0 \in 0..MaxLoops
  BY <1>2 DEF TimelineAssumption
<1>6. engine \in Engine
  BY <1>1, <1>3, <1>4, <1>5 DEF Engine
<1>7. GoodEngine(engine) /\ Honest(engine)
  BY <1>3, <1>4, <1>5, <1>6 DEF GoodEngine, Honest
<1>8. PageTyped
  BY <1>1 DEF Init, PageTyped, TimelineAssumption
<1>9. RestInv
  BY DEF Init, RestInv, Effect
<1> QED
  BY <1>7, <1>8, <1>9 DEF TimelineInv

\* The playhead where it is, and asked for nothing new: agreement stays.
LEMMA RestStays ==
    ASSUME TimelineInv, UNCHANGED <<asked, page, due>>, SamePlace(engine', engine)
    PROVE  RestInv'
BY DEF TimelineInv, RestInv, SamePlace

\* The playhead on a frame whose hour it has asked for: agreement stays.
LEMMA RestMoves ==
    ASSUME PreloaderAssumption, TimelineAssumption, TimelineInv, UNCHANGED <<page, due>>,
           GoodEngine(engine)', engine'.ladder = engine.ladder, asked' = CurrentHour(engine')
    PROVE  RestInv'
<1>1. ("hours" \in due => "sync" \in due) /\ ("hours" \notin due => engine.ladder = page.ladder)
  BY DEF TimelineInv, RestInv
<1>2. GoodEngine(engine')
  OBVIOUS
<1>3. /\ engine'.ladder \in Ladders /\ engine'.index \in 0..Len(engine'.ladder) - 1
      /\ CurrentHour(engine') = engine'.ladder[engine'.index + 1] /\ CurrentHour(engine') \in Hours
  BY <1>2, EngineParts
<1>4. asked' # NoHour
  BY <1>3 DEF TimelineAssumption
<1>5. IndexOfHour(engine'.ladder, engine'.ladder[engine'.index + 1]) = engine'.index
  BY <1>3, NearestIsExact
<1>6. ASSUME "sync" \notin due, asked' = page.hour
      PROVE  engine'.index = IndexOfHour(page.ladder, page.hour)
  BY <1>1, <1>3, <1>5, <1>6
<1> QED
  BY <1>1, <1>4, <1>6 DEF RestInv

-----------------------------------------------------------------------------
(***************************************************************************)
(* The actions.                                                            *)
(***************************************************************************)

\* Play, pause, hover and another loop mode leave the playhead where it is.
LEMMA ButtonsStep ==
    ASSUME PreloaderAssumption, TimelineAssumption, TimelineInv,
           \/ PressPlay \/ PressPause \/ ToggleLoopMode
           \/ \E i \in 0..Count(engine) - 1 : Hover(i)
    PROVE  TimelineInv'
<1>1. GoodEngine(engine) /\ Honest(engine) /\ PageTyped
  BY DEF TimelineInv
<1>2. GoodEngine(engine') /\ Honest(engine') /\ SamePlace(engine', engine)
  <2>1. CASE PressPlay
    BY <1>1, <2>1, PlayKeeps DEF PressPlay
  <2>2. CASE PressPause
    BY <1>1, <2>2, PauseKeeps DEF PressPause
  <2>3. CASE ToggleLoopMode
    <3> DEFINE m == IF engine.mode = "forward" THEN "rocking" ELSE "forward"
               x == [engine EXCEPT !.mode = m, !.direction = 1]
    <3>1. engine' = x /\ m \in {"forward", "rocking"} /\ engine \in Engine
      BY <1>1, <2>3 DEF ToggleLoopMode, GoodEngine
    <3> HIDE DEF m
    <3>2. /\ x \in Engine /\ x.ladder = engine.ladder /\ x.index = engine.index
          /\ x.loops = engine.loops /\ x.armed = engine.armed /\ x.cache = engine.cache
          /\ x.playing = engine.playing /\ x.buffering = engine.buffering
      BY <3>1 DEF Engine
    <3> HIDE DEF x
    <3>3. CurrentHour(x) = CurrentHour(engine)
      BY <3>2 DEF CurrentHour
    <3>4. GoodEngine(x) /\ Honest(x) /\ SamePlace(x, engine)
      BY <1>1, <3>2, <3>3 DEF GoodEngine, Honest, SamePlace
    <3> QED
      BY <3>1, <3>4
  <2>4. CASE \E i \in 0..Count(engine) - 1 : Hover(i)
    <3>1. PICK i \in 0..Count(engine) - 1 : Hover(i)
      BY <2>4
    <3>2. i \in Int
      BY <1>1, EngineParts
    <3> DEFINE x == PreloadFrom(engine, i)
    <3>3. engine' = x
      BY <3>1 DEF Hover
    <3>4. Warmed(x, engine)
      BY <1>1, <3>2, PreloadsWarm
    <3> HIDE DEF x
    <3>5. /\ GoodEngine(x) /\ x.ladder = engine.ladder /\ x.index = engine.index
          /\ x.playing = engine.playing /\ x.buffering = engine.buffering
          /\ NoReadier(x.cache, engine.cache)
      BY <1>1, <3>4, WarmedParts
    <3>6. CurrentHour(x) = CurrentHour(engine) /\ CurrentHour(x) \in Hours
      BY <1>1, <3>5, EngineParts DEF CurrentHour
    <3>7. Honest(x)
      BY <1>1, <3>5, <3>6 DEF Honest, NoReadier
    <3> QED
      BY <3>3, <3>5, <3>7 DEF SamePlace
  <2> QED
    BY <2>1, <2>2, <2>3, <2>4
<1>3. UNCHANGED <<asked, page, due>> /\ moves' = moves - 1 /\ moves > 0
  BY DEF PressPlay, PressPause, ToggleLoopMode, Hover, Move
<1>4. PageTyped'
  BY <1>1, <1>3 DEF PageTyped, TimelineAssumption
<1>5. RestInv'
  BY <1>2, <1>3, RestStays
<1> QED
  BY <1>2, <1>4, <1>5 DEF TimelineInv

\* A seek reports the hour it goes to.
LEMMA SeekStep ==
    ASSUME PreloaderAssumption, TimelineAssumption, TimelineInv,
           NEW i \in 0..Count(engine) - 1, Seek(i)
    PROVE  TimelineInv'
<1>1. GoodEngine(engine) /\ PageTyped
  BY DEF TimelineInv
<1>2. i \in 0..Len(engine.ladder) - 1 /\ i \in Int /\ engine.ladder \in Ladders
  BY <1>1, EngineParts
<1>3. /\ engine' = MoveTo(engine, i) /\ asked' = HourAt(engine.ladder, i)
      /\ UNCHANGED <<page, due>> /\ moves' = moves - 1 /\ moves > 0
  BY DEF Seek, Move
<1>4. /\ GoodEngine(engine') /\ Honest(engine')
      /\ engine'.ladder = engine.ladder /\ engine'.index = i
  BY <1>1, <1>2, <1>3, MoveToKeeps
<1>5. asked' = CurrentHour(engine') /\ asked' \in Hours
  BY <1>2, <1>3, <1>4, HourInLadder DEF CurrentHour
<1>6. RestInv'
  BY <1>3, <1>4, <1>5, RestMoves
<1>7. PageTyped'
  BY <1>1, <1>3, <1>5 DEF PageTyped, TimelineAssumption
<1> QED
  BY <1>4, <1>6, <1>7 DEF TimelineInv

\* The hour of a new run is one the page can show.
LEMMA SnappedIsHour ==
    ASSUME PreloaderAssumption, TimelineAssumption, NEW ladder \in Ladders, NEW hour \in Hours
    PROVE  Snapped(ladder, hour) \in Hours
<1>1. Len(ladder) \in Nat \ {0} /\ \A i \in 1..Len(ladder) : ladder[i] \in Hours
  BY LadderParts
<1>2. ladder[1] \in Hours
  BY <1>1
<1> QED
  BY <1>2 DEF Snapped

\* A render makes the effects due that its changes call for.
LEMMA RenderStep ==
    ASSUME PreloaderAssumption, TimelineAssumption, TimelineInv,
           \/ Render \/ RenderContext
           \/ \E ladder \in Ladders, newCycle \in BOOLEAN : RenderRun(ladder, newCycle)
    PROVE  TimelineInv'
<1>1. GoodEngine(engine) /\ Honest(engine) /\ PageTyped /\ RestInv
  BY DEF TimelineInv
<1>2. /\ asked \in Hours \cup {NoHour} /\ page \in [ladder : Ladders, hour : Hours]
      /\ moves \in 0..Moves /\ Moves \in Nat
  BY <1>1 DEF PageTyped, TimelineAssumption
<1>3. engine' = engine /\ GoodEngine(engine') /\ Honest(engine')
  BY <1>1 DEF Render, RenderContext, RenderRun
<1>4. CASE Render
  <2>1. /\ due = {} /\ asked # NoHour /\ page' = [page EXCEPT !.hour = asked]
        /\ due' = (IF asked = page.hour THEN {} ELSE {"sync"}) /\ asked' = NoHour /\ moves' = moves
    BY <1>4 DEF Render
  <2>2. page' \in [ladder : Ladders, hour : Hours] /\ page'.ladder = page.ladder /\ page'.hour = asked
    BY <1>2, <2>1
  <2>3. PageTyped'
    BY <1>2, <2>1, <2>2 DEF PageTyped, Effect
  <2>4. engine.ladder = page.ladder
    BY <1>1, <2>1 DEF RestInv
  <2>5. asked = page.hour => engine.index = IndexOfHour(page.ladder, page.hour)
    BY <1>1, <2>1 DEF RestInv
  <2>6. RestInv'
    BY <1>3, <2>1, <2>2, <2>4, <2>5 DEF RestInv
  <2> QED
    BY <1>3, <2>3, <2>6 DEF TimelineInv
<1>5. CASE RenderContext
  <2>1. /\ due = {} /\ due' = {"context"} /\ asked' = asked /\ page' = page
        /\ moves' = moves - 1 /\ moves > 0
    BY <1>5 DEF RenderContext, Move
  <2>2. PageTyped'
    BY <1>2, <2>1 DEF PageTyped, Effect
  <2>3. RestInv'
    BY <1>1, <1>3, <2>1 DEF RestInv
  <2> QED
    BY <1>3, <2>2, <2>3 DEF TimelineInv
<1>6. CASE \E ladder \in Ladders, newCycle \in BOOLEAN : RenderRun(ladder, newCycle)
  <2>1. PICK ladder \in Ladders, newCycle \in BOOLEAN : RenderRun(ladder, newCycle)
    BY <1>6
  <2> DEFINE latest == IF asked = NoHour THEN page.hour ELSE asked
  <2>2. PICK hour \in {Snapped(ladder, latest)} \cup
                      {h \in {latest} : asked # NoHour \/ ladder = Canonical} :
          page' = [ladder |-> ladder, hour |-> hour]
    BY <2>1 DEF RenderRun
  <2>3. latest \in Hours
    BY <1>2
  <2>4. hour \in Hours
    BY <2>2, <2>3, SnappedIsHour
  <2>5. /\ due' = {"hours", "sync"} \cup (IF newCycle THEN {"context"} ELSE {})
        /\ asked' = NoHour /\ moves' = moves - 1 /\ moves > 0
    BY <2>1 DEF RenderRun, Move
  <2>6. PageTyped'
    BY <1>2, <2>2, <2>4, <2>5 DEF PageTyped, Effect
  <2>7. RestInv'
    BY <2>5 DEF RestInv
  <2> QED
    BY <1>3, <2>6, <2>7 DEF TimelineInv
<1> QED
  BY <1>4, <1>5, <1>6

\* The effects bring the ladders together first and then the playhead to the page's frame.
LEMMA EffectsStep ==
    ASSUME PreloaderAssumption, TimelineAssumption, TimelineInv, RunEffects
    PROVE  TimelineInv'
<1> DEFINE withHours == IF "hours" \in due THEN SetHours(engine, page.ladder) ELSE engine
           index == IndexOfHour(page.ladder, page.hour)
           moved == "sync" \in due /\ index # withHours.index
           synced == IF moved THEN MoveTo(withHours, index) ELSE withHours
<1>1. /\ engine' = (IF "context" \in due THEN SetTileContext(synced) ELSE synced)
      /\ asked' = (IF moved THEN HourAt(page.ladder, index) ELSE asked)
      /\ due' = {} /\ page' = page /\ moves' = moves
  BY DEF RunEffects
<1>2. GoodEngine(engine) /\ Honest(engine) /\ PageTyped /\ RestInv
  BY DEF TimelineInv
<1>3. page.ladder \in Ladders /\ page.hour \in Hours
  BY <1>2 DEF PageTyped
<1>4. index \in 0..Len(page.ladder) - 1 /\ index \in Int
  <2>1. index \in 0..Len(page.ladder) - 1
    BY <1>3, NearestInLadder
  <2> HIDE DEF index
  <2> QED
    BY <2>1
<1>5. GoodEngine(withHours) /\ Honest(withHours) /\ withHours.ladder = page.ladder
  BY <1>2, <1>3, SetHoursKeeps DEF RestInv
<1>6. "hours" \notin due => withHours = engine
  OBVIOUS
<1> HIDE DEF withHours, index
<1>7. /\ GoodEngine(synced) /\ Honest(synced) /\ synced.ladder = page.ladder
      /\ synced.index = IF moved THEN index ELSE withHours.index
  <2>1. CASE moved
    <3>1. index \in 0..Len(withHours.ladder) - 1
      BY <1>4, <1>5
    <3>2. synced = MoveTo(withHours, index)
      BY <2>1
    <3> QED
      BY <1>5, <2>1, <3>1, <3>2, MoveToKeeps
  <2>2. CASE ~moved
    BY <1>5, <2>2
  <2> QED
    BY <2>1, <2>2
<1> HIDE DEF synced
<1>8. GoodEngine(engine') /\ Honest(engine') /\ SamePlace(engine', synced)
  BY <1>1, <1>7, SetTileContextKeeps DEF SamePlace
<1>9. asked' \in Hours \cup {NoHour}
  BY <1>1, <1>2, <1>3, <1>4, HourInLadder DEF PageTyped
<1>10. PageTyped'
  BY <1>1, <1>2, <1>9 DEF PageTyped
<1>11. asked' \in {NoHour, page.hour} => engine'.index = index
  <2>1. CASE "sync" \in due
    <3>1. synced.index = index
      BY <1>7, <2>1
    <3> QED
      BY <1>8, <3>1 DEF SamePlace
  <2>2. CASE "sync" \notin due
    <3>1. "hours" \notin due /\ withHours = engine /\ asked' = asked /\ synced.index = engine.index
      BY <1>1, <1>2, <1>6, <1>7, <2>2 DEF RestInv
    <3> QED
      BY <1>2, <1>8, <2>2, <3>1 DEF RestInv, SamePlace, index
  <2> QED
    BY <2>1, <2>2
<1>12. RestInv'
  BY <1>1, <1>7, <1>8, <1>11 DEF RestInv, SamePlace, index
<1> QED
  BY <1>8, <1>10, <1>12 DEF TimelineInv

\* A callback that fires is one less outstanding.
LEMMA FiredKeeps ==
    ASSUME PreloaderAssumption, TimelineAssumption, GoodEngine(engine), NEW own \in BOOLEAN,
           Outstanding(own)
    PROVE  /\ GoodEngine(Fired(own)) /\ SamePlace(Fired(own), engine)
           /\ Fired(own).loops < MaxLoops
           /\ Honest(engine) => Honest(Fired(own))
<1> DEFINE l == engine.loops - 1
           a == IF own THEN FALSE ELSE engine.armed
           x == Fired(own)
<1>1. /\ engine \in Engine /\ (engine.armed => engine.loops > 0) /\ PreloaderInv(engine.cache)
      /\ engine.index < Len(engine.ladder)
  BY DEF GoodEngine
<1>2. engine.loops \in Nat /\ engine.loops <= MaxLoops /\ MaxLoops \in Nat
  BY EngineParts DEF TimelineAssumption
<1>3. engine.armed \in BOOLEAN
  BY <1>1 DEF Engine
<1>4. l \in 0..MaxLoops /\ l < MaxLoops /\ a \in BOOLEAN /\ (a => l > 0)
  <2>1. CASE own
    BY <1>1, <1>2, <2>1 DEF Outstanding
  <2>2. CASE ~own
    <3>1. engine.loops > (IF engine.armed THEN 1 ELSE 0)
      BY <2>2 DEF Outstanding
    <3>2. CASE engine.armed
      BY <1>2, <1>3, <2>2, <3>1, <3>2
    <3>3. CASE ~engine.armed
      BY <1>2, <1>3, <2>2, <3>1, <3>3
    <3> QED
      BY <3>2, <3>3
  <2> QED
    BY <2>1, <2>2
<1>5. x = [engine EXCEPT !.loops = l, !.armed = a]
  BY DEF Fired
<1> HIDE DEF l, a, x
<1>6. /\ x \in Engine /\ x.ladder = engine.ladder /\ x.index = engine.index
      /\ x.loops = l /\ x.armed = a /\ x.cache = engine.cache
      /\ x.playing = engine.playing /\ x.buffering = engine.buffering
  BY <1>1, <1>4, <1>5 DEF Engine
<1>7. CurrentHour(x) = CurrentHour(engine)
  BY <1>6 DEF CurrentHour
<1>8. GoodEngine(x) /\ SamePlace(x, engine) /\ (Honest(engine) => Honest(x))
  BY <1>1, <1>4, <1>6, <1>7 DEF GoodEngine, SamePlace, Honest
<1> QED
  BY <1>4, <1>6, <1>8 DEF x

\* An animation frame while playing, with its own or another callback.
LEMMA TickStep ==
    ASSUME PreloaderAssumption, TimelineAssumption, TimelineInv,
           NEW own \in BOOLEAN, NEW n \in 0..3, Tick(own, n)
    PROVE  TimelineInv'
<1> DEFINE fired == Fired(own)
           advanced == Advanced(fired, n)
           last == IF n = 0 THEN advanced ELSE RefreshBuffering(advanced)
<1>1. GoodEngine(engine) /\ Honest(engine) /\ PageTyped /\ RestInv
  BY DEF TimelineInv
<1>2. /\ Outstanding(own) /\ engine' = Arm(last)
      /\ asked' = (IF n = 0 \/ Count(engine) < 2 THEN asked ELSE CurrentHour(advanced))
      /\ UNCHANGED <<page, due, moves>>
  BY DEF Tick
<1>3. /\ GoodEngine(fired) /\ Honest(fired) /\ SamePlace(fired, engine) /\ fired.loops < MaxLoops
  BY <1>1, <1>2, FiredKeeps
<1> HIDE DEF fired
<1>4. n \in Nat
  OBVIOUS
<1>5. Played(advanced, fired) /\ (n = 0 => advanced = fired)
  BY <1>3, <1>4, AdvancedPlays
<1> HIDE DEF advanced
<1>6. /\ GoodEngine(advanced) /\ advanced.ladder = engine.ladder
      /\ advanced.loops < MaxLoops /\ Count(fired) = Count(engine)
  <2>1. /\ GoodEngine(advanced) /\ advanced.ladder = fired.ladder
        /\ advanced.loops <= fired.loops
    BY <1>5 DEF Played
  <2>2. advanced.loops \in Nat /\ fired.loops \in Nat /\ MaxLoops \in Nat
    BY <1>3, <2>1, EngineParts DEF TimelineAssumption
  <2> QED
    BY <1>3, <2>1, <2>2 DEF SamePlace, Count
<1>7. n = 0 \/ Count(engine) < 2 => advanced.index = engine.index
  BY <1>3, <1>5, <1>6 DEF Played, SamePlace
<1>8. /\ GoodEngine(last) /\ Honest(last) /\ SamePlace(last, advanced) /\ last.loops = advanced.loops
  <2>1. CASE n = 0
    BY <1>3, <1>5, <1>6, <2>1 DEF SamePlace
  <2>2. CASE n # 0
    BY <1>6, <2>2, RefreshKeeps
  <2> QED
    BY <2>1, <2>2
<1> HIDE DEF last
<1>9. /\ GoodEngine(engine') /\ Honest(engine') /\ SamePlace(engine', advanced)
  BY <1>2, <1>6, <1>8, ArmKeeps DEF SamePlace
<1>10. CASE n = 0 \/ Count(engine) < 2
  <2>1. UNCHANGED <<asked, page, due>> /\ moves' = moves /\ SamePlace(engine', engine)
    BY <1>2, <1>6, <1>7, <1>9, <1>10 DEF SamePlace
  <2>2. RestInv'
    BY <2>1, RestStays
  <2>3. PageTyped'
    BY <1>1, <2>1 DEF PageTyped
  <2> QED
    BY <1>9, <2>2, <2>3 DEF TimelineInv
<1>11. CASE ~(n = 0 \/ Count(engine) < 2)
  <2>1. asked' = CurrentHour(engine') /\ engine'.ladder = engine.ladder
    BY <1>2, <1>6, <1>9, <1>11 DEF SamePlace, CurrentHour
  <2>2. CurrentHour(engine') \in Hours
    BY <1>9, EngineParts
  <2>3. RestInv'
    BY <1>2, <1>9, <2>1, RestMoves
  <2>4. PageTyped'
    BY <1>1, <1>2, <2>1, <2>2 DEF PageTyped
  <2> QED
    BY <1>9, <2>3, <2>4 DEF TimelineInv
<1> QED
  BY <1>10, <1>11

\* An animation frame after a pause, and an image that settles.
LEMMA BrowserStep ==
    ASSUME PreloaderAssumption, TimelineAssumption, TimelineInv,
           \/ \E own \in BOOLEAN : IdleTick(own)
           \/ \E item \in Items : Settle(item)
    PROVE  TimelineInv'
<1>1. GoodEngine(engine) /\ Honest(engine) /\ PageTyped
  BY DEF TimelineInv
<1>2. /\ GoodEngine(engine') /\ Honest(engine') /\ SamePlace(engine', engine)
      /\ UNCHANGED <<asked, page, due, moves>>
  <2>1. CASE \E own \in BOOLEAN : IdleTick(own)
    <3>1. PICK own \in BOOLEAN : IdleTick(own)
      BY <2>1
    <3> QED
      BY <1>1, <3>1, FiredKeeps DEF IdleTick
  <2>2. CASE \E item \in Items : Settle(item)
    <3>1. PICK item \in Items : Settle(item)
      BY <2>2
    <3> DEFINE c == Settled(engine.cache, item)
               x == [engine EXCEPT !.cache = Settled(@, item)]
    <3>2. /\ item \in engine.cache.inFlight /\ engine' = RefreshBuffering(x)
          /\ UNCHANGED <<asked, page, due, moves>>
      BY <3>1 DEF Settle
    <3>3. PreloaderInv(engine.cache)
      BY <1>1 DEF GoodEngine
    <3>4. PreloaderInv(c)
      BY <3>2, <3>3, SettledIsBooked
    <3>5. x = [engine EXCEPT !.cache = c]
      OBVIOUS
    <3> HIDE DEF c, x
    <3>6. c \in Preloader /\ engine \in Engine
      BY <1>1, <3>4 DEF PreloaderInv, Booked, GoodEngine
    <3>7. /\ x \in Engine /\ x.ladder = engine.ladder /\ x.index = engine.index
          /\ x.loops = engine.loops /\ x.armed = engine.armed /\ x.cache = c
      BY <3>5, <3>6 DEF Engine
    <3>8. GoodEngine(x) /\ SamePlace(x, engine)
      BY <1>1, <3>4, <3>7 DEF GoodEngine, SamePlace
    <3> QED
      BY <3>2, <3>8, RefreshKeeps DEF SamePlace
  <2> QED
    BY <2>1, <2>2
<1>3. RestInv'
  BY <1>2, RestStays
<1>4. PageTyped'
  BY <1>1, <1>2 DEF PageTyped
<1> QED
  BY <1>2, <1>3, <1>4 DEF TimelineInv

\* Every step of the timeline keeps the invariant.
LEMMA TimelineStep ==
    ASSUME PreloaderAssumption, TimelineAssumption, TimelineInv, [Next]_vars
    PROVE  TimelineInv'
<1>1. CASE UNCHANGED vars
  BY <1>1 DEF vars, TimelineInv, PageTyped, RestInv
<1>2. CASE Next
  <2>1. CASE \E i \in 0..Count(engine) - 1 : Seek(i)
    BY <2>1, SeekStep
  <2>2. CASE RunEffects
    BY <2>2, EffectsStep
  <2>3. CASE \E own \in Own, n \in 0..3 : Tick(own, n)
    BY <2>3, TickStep DEF Own
  <2>4. CASE \/ \E own \in Own : IdleTick(own)
             \/ \E item \in Items : Settle(item)
    BY <2>4, BrowserStep DEF Own
  <2> QED
    BY <1>2, <2>1, <2>2, <2>3, <2>4, ButtonsStep, RenderStep DEF Next
<1> QED
  BY <1>1, <1>2

-----------------------------------------------------------------------------
(***************************************************************************)
(* The theorems.                                                           *)
(***************************************************************************)

\* The inductive invariant of the timeline.
THEOREM TimelineInvariant == Spec => []TimelineInv
BY PreloaderAssumption, TimelineAssumption, TimelineInit, TimelineStep, PTL DEF Spec

\* TypeOK: engine, preloader, page and effects keep their types and bounds; the playhead is
\* on the ladder and a named callback is outstanding.
THEOREM TimelineTypeCorrect == Spec => []TypeOK
<1>1. TimelineInv => TypeOK
  BY DEF TimelineInv, GoodEngine, Engine, PageTyped, TypeOK
<1> QED
  BY <1>1, TimelineInvariant, PTL

\* PendingIsOnItsWay: through requests, evictions, context switches and image events, the
\* tiles a frame waits for are exactly those queued or being fetched for it, each once, and
\* the cache keeps to MAX_CACHED_FRAMES.
THEOREM TilesAreOnTheirWay == Spec => []PendingIsOnItsWay
<1>1. TimelineInv => PendingIsOnItsWay
  BY DEF TimelineInv, GoodEngine, PreloaderInv, Booked, PendingIsOnItsWay
<1> QED
  BY <1>1, TimelineInvariant, PTL

\* SpinnerIsHonest: the buffering indicator is on only while playing on a frame that is
\* incomplete, although it is recomputed at chosen moments only.
THEOREM SpinnerStaysHonest == Spec => []SpinnerIsHonest
<1>1. TimelineInv => SpinnerIsHonest
  BY DEF TimelineInv, Honest, SpinnerIsHonest
<1> QED
  BY <1>1, TimelineInvariant, PTL

\* AtRestTheyAgree: once renders and effects are done, engine and page have one ladder, the
\* playhead shows the page's hour if that is on the ladder, and else the nearest frame.
THEOREM PlayheadFollowsPage == Spec => []AtRestTheyAgree
<1>1. ASSUME TimelineInv, PreloaderAssumption, TimelineAssumption
      PROVE  AtRestTheyAgree
  <2> SUFFICES ASSUME asked = NoHour, due = {}
               PROVE  /\ engine.ladder = page.ladder
                      /\ IF page.hour \in ToSet(page.ladder)
                         THEN CurrentHour(engine) = page.hour
                         ELSE engine.index = IndexOfHour(page.ladder, page.hour)
    BY DEF AtRestTheyAgree
  <2>1. /\ GoodEngine(engine) /\ engine.ladder = page.ladder
        /\ engine.index = IndexOfHour(page.ladder, page.hour)
    BY <1>1 DEF TimelineInv, RestInv
  <2>2. /\ page.ladder \in Ladders
        /\ CurrentHour(engine) = page.ladder[engine.index + 1]
        /\ Len(page.ladder) \in Nat /\ page.ladder \in Seq(Hours)
    BY <1>1, <2>1, EngineParts, LadderParts DEF TimelineAssumption
  <2>3. ASSUME page.hour \in ToSet(page.ladder)
        PROVE  CurrentHour(engine) = page.hour
    <3>1. PICK i \in 1..Len(page.ladder) : page.ladder[i] = page.hour
      BY <2>2, <2>3 DEF ToSet
    <3>2. /\ i - 1 \in 0..Len(page.ladder) - 1
          /\ page.ladder[(i - 1) + 1] = page.hour
      BY <2>2, <3>1
    <3>3. engine.index = i - 1
      BY <1>1, <2>1, <2>2, <3>2, NearestIsExact
    <3> QED
      BY <2>2, <3>2, <3>3
  <2> QED
    BY <2>1, <2>3
<1> QED
  BY <1>1, TimelineInvariant, PreloaderAssumption, TimelineAssumption, PTL
=============================================================================
