----------------------------- MODULE BasicLemmas -----------------------------
(***************************************************************************)
(* What the other proof modules share.  The least-number principle for     *)
(* sets and the form of induction that follows from it: a claim about      *)
(* every natural number is proved by taking the least counterexample.      *)
(* That the recursive functions the models define on 0..n have the values  *)
(* their definitions give them.  And what a filtered sequence holds.       *)
(***************************************************************************)
EXTENDS Integers, Sequences, Functions, Filters, FiniteSetsExt, WellFoundedInduction, TLAPS

\* Every non-empty set of natural numbers has a least element.
LEMMA LeastOf ==
    ASSUME NEW T, T \subseteq Nat, T # {}
    PROVE  \E x \in T : \A y \in T : x <= y
<1> DEFINE R == {ss \in Nat \X Nat : ss[1] < ss[2]}
<1>1. IsWellFoundedOn(R, Nat)
  BY NatLessThanWellFounded DEF OpToRel
<1>2. PICK x \in T : \A y \in T : ~ (<<y, x>> \in R)
  BY <1>1, WFMin
<1>3. \A y \in T : y < x => <<y, x>> \in R
  OBVIOUS
<1>4. \A y \in T : ~ (y < x)
  BY <1>2, <1>3
<1>5. QED BY <1>4

\* A set with 0 and, with every n below b, also n + 1 has all of 0..b.
LEMMA UpTo ==
    ASSUME NEW b \in Nat, NEW S, 0 \in S, \A n \in 0..b-1 : n \in S => n + 1 \in S
    PROVE  0..b \subseteq S
<1> DEFINE T == (0..b) \ S
<1> SUFFICES ASSUME T # {} PROVE FALSE
  OBVIOUS
<1>0. T \subseteq Nat
  OBVIOUS
<1>1. PICK x \in T : \A y \in T : x <= y
  <2> HIDE DEF T
  <2>1. QED BY <1>0, LeastOf
<1>2. x - 1 \in 0..b-1 /\ x - 1 \in S
  BY <1>1
<1>3. QED BY <1>1, <1>2

\* Max, of a set with an upper bound, is its largest element.
LEMMA MaxOf ==
    ASSUME NEW S, NEW b \in Nat, S \subseteq 0..b, S # {}
    PROVE  Max(S) \in S /\ \A x \in S : x <= Max(S)
<1> DEFINE T == {y \in Nat : b - y \in S}
<1>1. \A x \in S : b - x \in T
  OBVIOUS
<1>2. PICK y \in T : \A z \in T : y <= z
  BY <1>1, LeastOf
<1>3. \A x \in S : b - y >= x
  BY <1>1, <1>2
<1>4. \E x \in S : \A z \in S : x >= z
  BY <1>2, <1>3
<1>5. QED BY <1>4 DEF Max

\* The ways to get from one value of X to the next, n times, and the functions
\* on 0..n that start with x and go on that way.
StepsOf(X, n) == [1..n -> [X -> X]]

RunsOf(X, n, x, step) ==
    {g \in [0..n -> X] : g[0] = x /\ \A i \in 1..n : g[i] = step[i][g[i-1]]}

\* There is one of them: what makes the definition f[i \in 0..n] == ... of a
\* recursive function have a solution.
LEMMA RunExists ==
    ASSUME NEW X, NEW n \in Nat, NEW x \in X, NEW step \in StepsOf(X, n)
    PROVE  \E g : g \in RunsOf(X, n, x, step)
<1> USE DEF StepsOf
<1> DEFINE Solves(g, m) == g[0] = x /\ \A i \in 1..m : g[i] = step[i][g[i-1]]
           S == {m \in 0..n : \E g \in [0..m -> X] : Solves(g, m)}
<1>1. 0 \in S
  <2>1. [i \in 0..0 |-> x] \in [0..0 -> X] /\ Solves([i \in 0..0 |-> x], 0)
    OBVIOUS
  <2> HIDE DEF Solves
  <2>2. \E g \in [0..0 -> X] : Solves(g, 0)
    BY <2>1, Zenon
  <2>3. QED BY <2>2
<1>2. ASSUME NEW m \in 0..n-1, m \in S PROVE m + 1 \in S
  <2>1. PICK g \in [0..m -> X] : Solves(g, m)
    BY <1>2
  <2> DEFINE h == [i \in 0..m+1 |-> IF i = m + 1 THEN step[m+1][g[m]] ELSE g[i]]
  <2>2. h \in [0..m+1 -> X]
    OBVIOUS
  <2>3. h[0] = x
    BY <2>1
  <2>4. ASSUME NEW i \in 1..m+1 PROVE h[i] = step[i][h[i-1]]
    <3>1. CASE i = m + 1
      BY <3>1
    <3>2. CASE i # m + 1
      BY <3>2, <2>1
    <3>3. QED BY <3>1, <3>2
  <2>5. Solves(h, m + 1)
    BY <2>3, <2>4
  <2> HIDE DEF Solves, h
  <2>6. \E g1 \in [0..m+1 -> X] : Solves(g1, m + 1)
    BY <2>2, <2>5, Zenon
  <2>7. QED BY <2>6
<1>3. 0..n \subseteq S
  <2> HIDE DEF S
  <2>1. QED BY <1>1, <1>2, UpTo
<1>4. n \in S
  BY <1>3
<1>5. QED BY <1>4 DEF RunsOf

\* f[i] is what Without keeps of the first i elements.
KeepsUp(f, S, s, T) ==
    /\ f \in [0..Len(s) -> Seq(S)]
    /\ f[0] = <<>>
    /\ \A i \in 1..Len(s) : f[i] = IF s[i] \in T THEN f[i-1] ELSE Append(f[i-1], s[i])

\* There is such an f, and Without is its last value.
LEMMA WithoutUnfolds ==
    ASSUME NEW S, NEW s \in Seq(S), NEW T
    PROVE  \E f : KeepsUp(f, S, s, T) /\ Without(s, T) = f[Len(s)]
<1> DEFINE n == Len(s)
           X == Seq(S)
           x0 == <<>>
           Step(i, x) == IF s[i] \in T THEN x ELSE Append(x, s[i])
<1>0. n \in Nat /\ x0 \in X
  OBVIOUS
<1>1. \A i \in 1..n : \A x \in X : Step(i, x) \in X
  OBVIOUS
<1> HIDE DEF n, X, x0, Step
<1> DEFINE step == [i \in 1..n |-> [x \in X |-> Step(i, x)]]
           Solves(g) == g = [i \in 0..n |-> IF i = 0 THEN x0 ELSE Step(i, g[i - 1])]
           f == CHOOSE g : Solves(g)
<1>2. step \in StepsOf(X, n)
  BY <1>1 DEF StepsOf
<1>3. PICK g : g \in RunsOf(X, n, x0, step)
  <2> HIDE DEF step
  <2>1. QED BY <1>0, <1>2, RunExists
<1>4. g \in [0..n -> X] /\ g[0] = x0 /\ \A i \in 1..n : g[i] = Step(i, g[i-1])
  <2>1. g \in [0..n -> X] /\ g[0] = x0 /\ \A i \in 1..n : g[i] = step[i][g[i-1]]
    BY <1>3 DEF RunsOf
  <2>2. ASSUME NEW i \in 1..n PROVE g[i] = Step(i, g[i-1])
    <3>1. g[i-1] \in X
      BY <2>1, <1>0
    <3>2. step[i][g[i-1]] = Step(i, g[i-1])
      BY <3>1
    <3>3. QED BY <2>1, <3>2
  <2>3. QED BY <2>1, <2>2
<1>5. Solves(g)
  <2>1. \A i \in 0..n : g[i] = IF i = 0 THEN x0 ELSE Step(i, g[i - 1])
    BY <1>4
  <2>2. QED BY <2>1, <1>4
<1>6. Solves(f)
  BY <1>5, Zenon
<1>7. Without(s, T) = f[n]
  BY Zenon DEF Without, Step, n, x0
<1> HIDE DEF f, step
<1>8. DOMAIN f = 0..n /\ f[0] = x0 /\ \A i \in 1..n : f[i] = Step(i, f[i-1])
  BY <1>0, <1>6
<1> DEFINE In == {i \in 0..n : f[i] \in X}
<1>9. 0 \in In /\ \A i \in 0..n-1 : i \in In => i + 1 \in In
  <2>1. ASSUME NEW i \in 0..n-1, i \in In PROVE i + 1 \in In
    <3>1. i + 1 \in 1..n /\ (i + 1) - 1 = i
      BY <1>0
    <3>2. f[i + 1] = Step(i + 1, f[i])
      BY <3>1, <1>8
    <3>3. QED BY <2>1, <3>1, <3>2, <1>1
  <2>2. QED BY <2>1, <1>8, <1>0
<1>10. 0..n \subseteq In
  <2> HIDE DEF In
  <2>1. QED BY <1>0, <1>9, UpTo
<1>11. f \in [0..n -> X]
  BY <1>6, <1>10
<1>12. KeepsUp(f, S, s, T)
  BY <1>8, <1>11 DEF n, X, x0, Step, KeepsUp
<1>13. QED BY <1>7, <1>12 DEF n


\* k has, in their order, those of the first m elements of s that T lacks.
KeptOf(k, s, T, m) ==
    /\ \A i \in 1..Len(k) : \E a \in 1..m : s[a] = k[i] /\ s[a] \notin T
    /\ \A a \in 1..m : s[a] \notin T => \E i \in 1..Len(k) : s[a] = k[i]
    /\ \A i, j \in 1..Len(k) : i < j => \E a, b \in 1..m : a < b /\ s[a] = k[i] /\ s[b] = k[j]

\* One more element is kept or passed over.
LEMMA KeptStep ==
    ASSUME NEW S, NEW s \in Seq(S), NEW T, NEW m \in 0..Len(s)-1, NEW k \in Seq(S), KeptOf(k, s, T, m)
    PROVE  KeptOf(IF s[m+1] \in T THEN k ELSE Append(k, s[m+1]), s, T, m + 1)
<1>0. m \in Nat /\ Len(k) \in Nat
  OBVIOUS
<1>1. CASE s[m+1] \in T
  <2>1. \A a \in 1..m+1 : a \in 1..m \/ a = m + 1
    BY <1>0
  <2>2. 1..m \subseteq 1..m+1
    BY <1>0
  <2>3. \A i \in 1..Len(k) : \E a \in 1..m+1 : s[a] = k[i] /\ s[a] \notin T
    BY <2>2 DEF KeptOf
  <2>4. \A a \in 1..m+1 : s[a] \notin T => \E i \in 1..Len(k) : s[a] = k[i]
    BY <2>1, <1>1 DEF KeptOf
  <2>5. \A i, j \in 1..Len(k) : i < j => \E a, b \in 1..m+1 : a < b /\ s[a] = k[i] /\ s[b] = k[j]
    BY <2>2 DEF KeptOf
  <2>6. KeptOf(k, s, T, m + 1)
    BY <2>3, <2>4, <2>5 DEF KeptOf
  <2>7. QED BY <2>6, <1>1
<1>2. CASE s[m+1] \notin T
  <2>1. PICK k1 : k1 = Append(k, s[m+1])
    OBVIOUS
  <2>2. /\ Len(k1) = Len(k) + 1 /\ k1[Len(k)+1] = s[m+1]
        /\ \A i \in 1..Len(k) : k1[i] = k[i]
    BY <2>1
  <2>3. \A i \in 1..Len(k1) : i \in 1..Len(k) \/ i = Len(k) + 1
    BY <2>2, <1>0
  <2>4. \A a \in 1..m+1 : a \in 1..m \/ a = m + 1
    BY <1>0
  <2>5. 1..m \subseteq 1..m+1 /\ m + 1 \in 1..m+1 /\ 1..Len(k) \subseteq 1..Len(k1) /\ Len(k) + 1 \in 1..Len(k1)
    BY <2>2, <1>0
  <2>6. \A i \in 1..Len(k1) : \E a \in 1..m+1 : s[a] = k1[i] /\ s[a] \notin T
    <3>1. \A i \in 1..Len(k) : \E a \in 1..m : s[a] = k1[i] /\ s[a] \notin T
      BY <2>2 DEF KeptOf
    <3>2. QED BY <3>1, <2>2, <2>3, <2>5, <1>2
  <2>7. \A a \in 1..m+1 : s[a] \notin T => \E i \in 1..Len(k1) : s[a] = k1[i]
    <3>0. \A a \in 1..m : s[a] \notin T => \E i \in 1..Len(k) : s[a] = k[i]
      BY DEF KeptOf
    <3>1. \A a \in 1..m : s[a] \notin T => \E i \in 1..Len(k) : s[a] = k1[i]
      BY <3>0, <2>2
    <3>2. QED BY <3>1, <2>2, <2>4, <2>5
  <2>8. ASSUME NEW i \in 1..Len(k1), NEW j \in 1..Len(k1), i < j
        PROVE  \E a, b \in 1..m+1 : a < b /\ s[a] = k1[i] /\ s[b] = k1[j]
    <3>0. i \in 1..Len(k)
      BY <2>8, <2>2, <1>0
    <3>1. CASE j = Len(k) + 1
      <4>1. PICK a \in 1..m : s[a] = k[i]
        BY <3>0 DEF KeptOf
      <4>2. a < m + 1 /\ s[a] = k1[i] /\ s[m+1] = k1[j]
        BY <4>1, <3>0, <3>1, <2>2, <1>0
      <4>3. QED BY <4>1, <4>2, <2>5
    <3>2. CASE j \in 1..Len(k)
      <4>1. PICK a \in 1..m, b \in 1..m : a < b /\ s[a] = k[i] /\ s[b] = k[j]
        BY <3>0, <3>2, <2>8 DEF KeptOf
      <4>2. s[a] = k1[i] /\ s[b] = k1[j]
        BY <4>1, <3>0, <3>2, <2>2
      <4>3. QED BY <4>1, <4>2, <2>5
    <3>3. QED BY <3>1, <3>2, <2>3
  <2>9. KeptOf(k1, s, T, m + 1)
    BY <2>6, <2>7, <2>8 DEF KeptOf
  <2>10. QED BY <2>9, <2>1, <1>2
<1>3. QED BY <1>1, <1>2

\* What Without keeps, and that it keeps it in its order.
LEMMA WithoutKeeps ==
    ASSUME NEW S, NEW s \in Seq(S), NEW T
    PROVE  Without(s, T) \in Seq(S) /\ KeptOf(Without(s, T), s, T, Len(s))
<1>0. Len(s) \in Nat
  OBVIOUS
<1>1. PICK f : KeepsUp(f, S, s, T) /\ Without(s, T) = f[Len(s)]
  BY WithoutUnfolds
<1> DEFINE Good == {m \in 0..Len(s) : KeptOf(f[m], s, T, m)}
<1>2. 0 \in Good
  <2>1. f[0] = <<>>
    BY <1>1 DEF KeepsUp
  <2>2. QED BY <2>1, <1>0 DEF KeptOf
<1>3. ASSUME NEW m \in 0..Len(s)-1, m \in Good PROVE m + 1 \in Good
  <2>1. f[m] \in Seq(S) /\ m + 1 \in 0..Len(s)
    BY <1>0, <1>1 DEF KeepsUp
  <2>2. f[m+1] = IF s[m+1] \in T THEN f[m] ELSE Append(f[m], s[m+1])
    <3>1. m + 1 \in 1..Len(s) /\ (m + 1) - 1 = m
      BY <1>0
    <3>2. QED BY <3>1, <1>1 DEF KeepsUp
  <2>3. KeptOf(f[m+1], s, T, m+1)
    BY <2>1, <2>2, <1>3, KeptStep
  <2>4. QED BY <2>1, <2>3
<1>4. 0..Len(s) \subseteq Good
  <2> HIDE DEF Good
  <2>1. QED BY <1>0, <1>2, <1>3, UpTo
<1>5. KeptOf(f[Len(s)], s, T, Len(s))
  BY <1>0, <1>4
<1>6. f[Len(s)] \in Seq(S)
  BY <1>0, <1>1 DEF KeepsUp
<1>7. QED BY <1>1, <1>5, <1>6

\* The elements Without keeps, as a set.
LEMMA WithoutRange ==
    ASSUME NEW S, NEW s \in Seq(S), NEW T
    PROVE  Range(Without(s, T)) = Range(s) \ T
<1>1. PICK k \in Seq(S) : k = Without(s, T) /\ KeptOf(k, s, T, Len(s))
  BY WithoutKeeps
<1>2. DOMAIN k = 1..Len(k) /\ DOMAIN s = 1..Len(s)
  OBVIOUS
<1>3. \A x : x \in Range(k) <=> x \in Range(s) \ T
  <2>1. ASSUME NEW x \in Range(k) PROVE x \in Range(s) \ T
    <3>1. PICK i \in 1..Len(k) : k[i] = x
      BY <1>2 DEF Range
    <3>2. PICK a \in 1..Len(s) : s[a] = k[i] /\ s[a] \notin T
      BY <1>1 DEF KeptOf
    <3>3. QED BY <3>1, <3>2, <1>2 DEF Range
  <2>2. ASSUME NEW x \in Range(s) \ T PROVE x \in Range(k)
    <3>1. PICK a \in 1..Len(s) : s[a] = x
      BY <1>2 DEF Range
    <3>2. PICK i \in 1..Len(k) : s[a] = k[i]
      BY <3>1, <1>1 DEF KeptOf
    <3>3. QED BY <3>1, <3>2, <1>2 DEF Range
  <2>3. QED BY <2>1, <2>2
<1>4. QED BY <1>1, <1>3
==============================================================================
