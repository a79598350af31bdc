----------------------------- MODULE InductionRules -----------------------------
(***************************************************************************)
(* Induction along the two ways the models compute by recursion: a         *)
(* function defined over an interval of integers from its values at        *)
(* smaller positions, and a fold from the left. The definition and the     *)
(* property are constants of the module: a module that proves things about *)
(* a recursive definition takes an instance of this one per definition,    *)
(* which no ASSUME NEW Def(_, _) could give it, and gives the constants    *)
(* of the other kind what says nothing.                                    *)
(***************************************************************************)
EXTENDS Integers, WellFoundedInduction

CONSTANTS
  Def(_, _, _, _),  \* Def(c, d, f, k): the value at k, from what f has below k, in the context c, d
  P(_, _, _, _),    \* P(c, d, f, k): what is to be shown of the value of f at k
  Step(_, _, _),    \* Step(c, a, x): the accumulator a after the item x, in the context c
  Inv(_, _, _)      \* Inv(d, a, k): what is to be shown of the accumulator after k items

-----------------------------------------------------------------------------
(***************************************************************************)
(* A function defined by recursion satisfies its equation, and a property  *)
(* that holds of each position when it holds of the smaller ones holds of  *)
(* all.                                                                    *)
(***************************************************************************)

\* Every nonempty set of integers that are at least m has a least element.
LEMMA LeastElement ==
  ASSUME NEW m \in Int, NEW S, \A k \in S : k \in Int /\ m <= k, S # {}
  PROVE  \E k \in S : \A l \in S : k <= l
<1> DEFINE R == OpToRel(<, Nat)
           T == {k - m : k \in S}
<1>1. IsWellFoundedOn(R, Nat)
  BY NatLessThanWellFounded
<1>2. T \in SUBSET Nat /\ T # {}
  OBVIOUS
<1>3. PICK t \in T : \A u \in T : ~(<<u, t>> \in R)
  <2> HIDE DEF R, T
  <2> QED BY <1>1, <1>2, WFMin
<1>4. \A u \in T : t <= u
  <2> SUFFICES ASSUME NEW u \in T PROVE t <= u
    OBVIOUS
  <2>1. t \in Nat /\ u \in Nat
    BY <1>2
  <2>2. ~(u < t)
    BY <2>1, <1>3 DEF OpToRel
  <2> QED BY <2>1, <2>2
<1>5. PICK k \in S : t = k - m
  BY <1>3
<1>6. ASSUME NEW l \in S PROVE k <= l
  <2>1. l - m \in T
    OBVIOUS
  <2>2. k - m <= l - m
    BY <2>1, <1>4, <1>5
  <2> QED BY <2>2
<1> QED BY <1>6

\* Def looks at no value but those at smaller positions.
LookBack(c, d, m, n) ==
  \A k \in m .. n : \A f, g :
    (\A j \in m .. k - 1 : f[j] = g[j]) => Def(c, d, f, k) = Def(c, d, g, k)

\* A recursive definition that looks back has a solution, so its CHOOSE is one.
THEOREM RecursionEquation ==
  ASSUME NEW c, NEW d, NEW m \in Int, NEW n \in Int, LookBack(c, d, m, n),
         NEW r, r = CHOOSE f : f = [k \in m .. n |-> Def(c, d, f, k)]
  PROVE  r = [k \in m .. n |-> Def(c, d, r, k)]
<1> DEFINE Solution(f, l) == f = [k \in m .. l |-> Def(c, d, f, k)]
           Unsolved == {l \in m - 1 .. n : ~\E f : Solution(f, l)}
<1>1. Unsolved = {}
  <2> SUFFICES ASSUME Unsolved # {} PROVE FALSE
    OBVIOUS
  <2>1. PICK l \in Unsolved : \A k \in Unsolved : l <= k
    <3>1. m - 1 \in Int /\ \A k \in Unsolved : k \in Int /\ m - 1 <= k
      OBVIOUS
    <3> HIDE DEF Unsolved
    <3> QED BY <3>1, LeastElement
  <2>2. l # m - 1
    <3>1. Solution([k \in {} |-> 0], m - 1)
      BY m .. m - 1 = {}
    <3> QED BY <3>1
  <2>3. PICK f : Solution(f, l - 1)
    <3> HIDE DEF Solution
    <3>1. l - 1 \in m - 1 .. n /\ l - 1 \notin Unsolved
      BY <2>1, <2>2
    <3> QED BY <3>1
  <2> DEFINE g == [k \in m .. l |-> IF k <= l - 1 THEN f[k] ELSE Def(c, d, f, l)]
  <2>4. ASSUME NEW k \in m .. l PROVE g[k] = Def(c, d, g, k)
    <3>1. \A j \in m .. k - 1 : f[j] = g[j]
      OBVIOUS
    <3>2. Def(c, d, f, k) = Def(c, d, g, k)
      <4> HIDE DEF g
      <4> QED BY <3>1 DEF LookBack
    <3>3. CASE k <= l - 1
      <4>1. f[k] = Def(c, d, f, k)
        BY <2>3, <3>3
      <4> QED BY <4>1, <3>2, <3>3
    <3>4. CASE k = l
      <4>1. l \in Int /\ ~(l <= l - 1) /\ l \in m .. l
        BY <3>4
      <4>2. g[l] = Def(c, d, f, l)
        BY <4>1
      <4> HIDE DEF g
      <4> QED BY <4>2, <3>2, <3>4
    <3> QED BY <3>3, <3>4
  <2>5. Solution(g, l)
    BY <2>4
  <2> QED BY <2>1, <2>5
<1>2. \E f : Solution(f, n)
  <2>1. CASE n < m
    <3>1. Solution([k \in {} |-> 0], n)
      BY <2>1, m .. n = {}
    <3> QED BY <3>1
  <2>2. CASE n >= m
    <3>1. n \in m - 1 .. n
      BY <2>2
    <3> QED BY <3>1, <1>1
  <2> QED BY <2>1, <2>2
<1>3. Solution(r, n)
  <2>1. r = CHOOSE f : Solution(f, n)
    OBVIOUS
  <2> HIDE DEF Solution
  <2> QED BY <1>2, <2>1
<1> QED BY <1>3

\* Induction along the recursion.
THEOREM RecursionInduction ==
  ASSUME NEW c, NEW d, NEW m \in Int, NEW n \in Int, NEW f,
         \A k \in m .. n : (\A j \in m .. k - 1 : P(c, d, f, j)) => P(c, d, f, k)
  PROVE  \A k \in m .. n : P(c, d, f, k)
<1> DEFINE Fails == {k \in m .. n : ~P(c, d, f, k)}
<1> SUFFICES ASSUME Fails # {} PROVE FALSE
  OBVIOUS
<1>1. PICK k \in Fails : \A l \in Fails : k <= l
  <2>1. \A k \in Fails : k \in Int /\ m <= k
    OBVIOUS
  <2> HIDE DEF Fails
  <2> QED BY <2>1, LeastElement
<1>2. \A j \in m .. k - 1 : P(c, d, f, j)
  BY <1>1
<1> QED BY <1>1, <1>2

-----------------------------------------------------------------------------
(***************************************************************************)
(* A property of the accumulator that the base has and every step carries  *)
(* one position further holds of the result of the fold.                   *)
(***************************************************************************)

\* FoldLeft(LAMBDA a, x : Step(c, a, x), base, seq), with the library's
\* definition expanded: a table over the sets of positions.
FoldTable(c, base, seq) ==
  CHOOSE f : f = [s \in SUBSET DOMAIN seq |->
                    IF s = {} THEN base
                    ELSE LET x == CHOOSE k \in s : \A l \in s : k >= l
                         IN Step(c, f[s \ {x}], seq[x])]

Folded(c, base, seq) == FoldTable(c, base, seq)[DOMAIN seq]

\* The largest of a set of positions, as the library chooses it.
Largest(s) == CHOOSE k \in s : \A l \in s : k >= l

\* Every nonempty set of naturals has a least element.
LEMMA LeastNatural ==
  ASSUME NEW S \in SUBSET Nat, S # {}
  PROVE  \E k \in S : \A l \in S : k <= l
<1>1. 0 \in Int /\ \A k \in S : k \in Int /\ 0 <= k
  OBVIOUS
<1> QED BY <1>1, LeastElement

\* The largest position of a nonempty set of positions.
LEMMA LastPosition ==
  ASSUME NEW n \in Nat, NEW s \in SUBSET (1 .. n), s # {}
  PROVE  Largest(s) \in s /\ \A k \in s : k <= Largest(s)
<1> DEFINE T == {n - k : k \in s}
<1>1. T \in SUBSET Nat /\ T # {}
  <2>1. \A k \in s : n - k \in Nat
    OBVIOUS
  <2> QED BY <2>1
<1>2. PICK t \in T : \A u \in T : t <= u
  <2> HIDE DEF T
  <2> QED BY <1>1, LeastNatural
<1>3. PICK k \in s : t = n - k
  BY <1>2
<1>4. ASSUME NEW l \in s PROVE k >= l
  <2>1. n - l \in T
    OBVIOUS
  <2>2. n - k <= n - l
    BY <2>1, <1>2, <1>3
  <2> QED BY <2>2
<1>5. \E x \in s : \A y \in s : x >= y
  BY <1>4
<1>6. Largest(s) \in s /\ \A y \in s : Largest(s) >= y
  BY <1>5 DEF Largest
<1> QED BY <1>6

\* f is the accumulator of the fold over each set of the positions 1 .. n.
Tabulates(f, c, base, seq, n) ==
  /\ f[{}] = base
  /\ \A s \in SUBSET (1 .. n) : s # {} => f[s] = Step(c, f[s \ {Largest(s)}], seq[Largest(s)])

\* The table satisfies its equation.
LEMMA FoldTableEquation ==
  ASSUME NEW c, NEW base, NEW seq, NEW n \in Nat, DOMAIN seq = 1 .. n,
         NEW f, f = FoldTable(c, base, seq)
  PROVE  Tabulates(f, c, base, seq, n)
<1> DEFINE Body(g, s) == IF s = {} THEN base ELSE Step(c, g[s \ {Largest(s)}], seq[Largest(s)])
           Solution(g, l) == g = [s \in SUBSET (1 .. l) |-> Body(g, s)]
           Unsolved == {l \in 0 .. n : ~\E g : Solution(g, l)}
<1>1. Unsolved = {}
  <2> SUFFICES ASSUME Unsolved # {} PROVE FALSE
    OBVIOUS
  <2>1. PICK l \in Unsolved : \A k \in Unsolved : l <= k
    <3>1. Unsolved \in SUBSET Nat
      OBVIOUS
    <3> HIDE DEF Unsolved
    <3> QED BY <3>1, LeastNatural
  <2>2. l # 0
    <3>1. 1 .. 0 = {} /\ \A s \in SUBSET {} : s = {}
      OBVIOUS
    <3>2. [s \in SUBSET {} |-> base] = [s \in SUBSET {} |-> Body([t \in SUBSET {} |-> base], s)]
      BY <3>1
    <3>3. Solution([s \in SUBSET {} |-> base], 0)
      BY <3>1, <3>2
    <3> HIDE DEF Solution
    <3> QED BY <3>3
  <2>3. PICK g : Solution(g, l - 1)
    <3> HIDE DEF Solution
    <3>1. l - 1 \in 0 .. n /\ l - 1 \notin Unsolved
      BY <2>1, <2>2
    <3> QED BY <3>1
  <2> DEFINE h == [s \in SUBSET (1 .. l) |->
                     IF l \in s THEN Step(c, g[s \ {l}], seq[l]) ELSE g[s]]
  <2>4. l \in Nat /\ l > 0 /\ l <= n
    BY <2>1, <2>2
  <2>5. \A s \in SUBSET (1 .. l - 1) : h[s] = g[s] /\ g[s] = Body(g, s)
    <3> SUFFICES ASSUME NEW s \in SUBSET (1 .. l - 1) PROVE h[s] = g[s] /\ g[s] = Body(g, s)
      OBVIOUS
    <3>1. s \in SUBSET (1 .. l) /\ l \notin s
      BY <2>4
    <3>2. g[s] = Body(g, s)
      BY <2>3
    <3> QED BY <3>1, <3>2
  <2>6. ASSUME NEW s \in SUBSET (1 .. l) PROVE h[s] = Body(h, s)
    <3>1. CASE s = {}
      <4>1. s \in SUBSET (1 .. l - 1)
        BY <3>1
      <4>2. h[s] = Body(g, s)
        BY <4>1, <2>5
      <4> HIDE DEF h
      <4> QED BY <4>2, <3>1
    <3>2. CASE s # {}
      <4>1. Largest(s) \in s /\ \A k \in s : k <= Largest(s)
        BY <2>4, <3>2, LastPosition
      <4> DEFINE m == Largest(s)
                 rest == s \ {m}
      <4> HIDE DEF m
      <4>2. m \in s /\ \A k \in s : k <= m
        BY <4>1 DEF m
      <4>3. rest \in SUBSET (1 .. l - 1)
        BY <4>2, <2>4
      <4>4. h[rest] = g[rest]
        BY <4>3, <2>5
      <4>5. CASE l \in s
        <5>1. m = l
          BY <4>2, <4>5, <2>4
        <5>2. h[s] = Step(c, g[rest], seq[m])
          BY <4>5, <5>1
        <5> HIDE DEF h, rest
        <5>3. h[s] = Step(c, h[rest], seq[m])
          BY <5>2, <4>4
        <5> QED BY <5>3, <3>2 DEF m, rest
      <4>6. CASE l \notin s
        <5>1. s \in SUBSET (1 .. l - 1)
          BY <4>6, <2>4
        <5>2. h[s] = Body(g, s)
          BY <5>1, <2>5
        <5> HIDE DEF h
        <5>3. h[s] = Step(c, g[rest], seq[m])
          BY <5>2, <3>2 DEF m
        <5> HIDE DEF rest
        <5>4. h[s] = Step(c, h[rest], seq[m])
          BY <5>3, <4>4
        <5> QED BY <5>4, <3>2 DEF m, rest
      <4> QED BY <4>5, <4>6
    <3> QED BY <3>1, <3>2
  <2>7. Solution(h, l)
    <3> HIDE DEF Body
    <3> QED BY <2>6
  <2> HIDE DEF Solution
  <2> QED BY <2>1, <2>7
<1>2. \E g : Solution(g, n)
  <2> HIDE DEF Solution
  <2>1. n \in 0 .. n
    OBVIOUS
  <2> QED BY <2>1, <1>1
<1>3. f = CHOOSE g : Solution(g, n)
  BY DEF FoldTable, Largest
<1>4. Solution(f, n)
  <2> HIDE DEF Solution
  <2> QED BY <1>2, <1>3
<1> QED BY <1>4 DEF Tabulates

\* Induction along the fold.
THEOREM FoldLeftInduction ==
  ASSUME NEW c, NEW d, NEW base, NEW seq, NEW n \in Nat, DOMAIN seq = 1 .. n,
         Inv(d, base, 0),
         \A k \in 1 .. n : \A a : Inv(d, a, k - 1) => Inv(d, Step(c, a, seq[k]), k)
  PROVE  Inv(d, Folded(c, base, seq), n)
<1> DEFINE f == FoldTable(c, base, seq)
           Fails == {k \in 0 .. n : ~Inv(d, f[1 .. k], k)}
<1>1. /\ f[{}] = base
      /\ \A s \in SUBSET (1 .. n) : s # {} => f[s] = Step(c, f[s \ {Largest(s)}], seq[Largest(s)])
  <2>1. Tabulates(f, c, base, seq, n)
    BY FoldTableEquation
  <2> QED BY <2>1 DEF Tabulates
<1> HIDE DEF f
<1>2. f[1 .. 0] = base
  BY <1>1, 1 .. 0 = {}
<1>3. ASSUME NEW k \in 1 .. n PROVE f[1 .. k] = Step(c, f[1 .. k - 1], seq[k])
  <2>1. Largest(1 .. k) = k
    <3>1. Largest(1 .. k) \in 1 .. k /\ \A l \in 1 .. k : l <= Largest(1 .. k)
      <4>1. 1 .. k \in SUBSET (1 .. n) /\ k \in 1 .. k
        OBVIOUS
      <4> QED BY <4>1, LastPosition
    <3>2. k \in 1 .. k
      OBVIOUS
    <3> QED BY <3>1, <3>2
  <2>2. (1 .. k) \ {k} = 1 .. k - 1
    OBVIOUS
  <2>3. 1 .. k \in SUBSET (1 .. n) /\ k \in 1 .. k
    OBVIOUS
  <2>4. f[1 .. k] = Step(c, f[(1 .. k) \ {Largest(1 .. k)}], seq[Largest(1 .. k)])
    BY <2>3, <1>1
  <2> QED BY <2>1, <2>2, <2>4
<1>4. Fails = {}
  <2> SUFFICES ASSUME Fails # {} PROVE FALSE
    OBVIOUS
  <2>1. PICK k \in Fails : \A l \in Fails : k <= l
    <3>1. Fails \in SUBSET Nat
      OBVIOUS
    <3> HIDE DEF Fails
    <3> QED BY <3>1, LeastNatural
  <2>2. k # 0
    BY <2>1, <1>2
  <2>3. k \in 1 .. n /\ k - 1 \in 0 .. n
    BY <2>1, <2>2
  <2>4. Inv(d, f[1 .. k - 1], k - 1)
    BY <2>1, <2>3
  <2>5. Inv(d, Step(c, f[1 .. k - 1], seq[k]), k)
    BY <2>3, <2>4
  <2> QED BY <2>1, <2>3, <2>5, <1>3
<1>5. Inv(d, f[1 .. n], n)
  BY <1>4
<1> QED BY <1>5 DEF Folded, f

\* Contexts that take each item alike give the same fold.
THEOREM FoldLeftCongruence ==
  ASSUME NEW c, NEW d, NEW base, NEW seq, NEW n \in Nat, DOMAIN seq = 1 .. n,
         \A k \in 1 .. n : \A a : Step(c, a, seq[k]) = Step(d, a, seq[k])
  PROVE  Folded(c, base, seq) = Folded(d, base, seq)
<1> DEFINE f == FoldTable(c, base, seq)
           h == FoldTable(d, base, seq)
           Differs == {k \in 0 .. n : f[1 .. k] # h[1 .. k]}
<1>1. /\ f[{}] = base /\ h[{}] = base
      /\ \A s \in SUBSET (1 .. n) : s # {} => f[s] = Step(c, f[s \ {Largest(s)}], seq[Largest(s)])
      /\ \A s \in SUBSET (1 .. n) : s # {} => h[s] = Step(d, h[s \ {Largest(s)}], seq[Largest(s)])
  <2>1. Tabulates(f, c, base, seq, n) /\ Tabulates(h, d, base, seq, n)
    BY FoldTableEquation
  <2> QED BY <2>1 DEF Tabulates
<1> HIDE DEF f, h
<1>2. f[1 .. 0] = h[1 .. 0]
  BY <1>1, 1 .. 0 = {}
<1>3. ASSUME NEW k \in 1 .. n, f[1 .. k - 1] = h[1 .. k - 1] PROVE f[1 .. k] = h[1 .. k]
  <2>1. 1 .. k \in SUBSET (1 .. n) /\ k \in 1 .. k /\ (1 .. k) \ {k} = 1 .. k - 1
    OBVIOUS
  <2>2. Largest(1 .. k) = k
    <3>1. Largest(1 .. k) \in 1 .. k /\ \A l \in 1 .. k : l <= Largest(1 .. k)
      BY <2>1, LastPosition
    <3> QED BY <3>1, <2>1
  <2>3. /\ f[1 .. k] = Step(c, f[1 .. k - 1], seq[k])
        /\ h[1 .. k] = Step(d, h[1 .. k - 1], seq[k])
    <3>1. /\ f[1 .. k] = Step(c, f[(1 .. k) \ {Largest(1 .. k)}], seq[Largest(1 .. k)])
          /\ h[1 .. k] = Step(d, h[(1 .. k) \ {Largest(1 .. k)}], seq[Largest(1 .. k)])
      BY <1>1, <2>1
    <3> QED BY <3>1, <2>1, <2>2
  <2>4. Step(c, f[1 .. k - 1], seq[k]) = Step(d, f[1 .. k - 1], seq[k])
    OBVIOUS
  <2> QED BY <1>3, <2>3, <2>4
<1>4. Differs = {}
  <2> SUFFICES ASSUME Differs # {} PROVE FALSE
    OBVIOUS
  <2>1. PICK k \in Differs : \A l \in Differs : k <= l
    <3>1. Differs \in SUBSET Nat
      OBVIOUS
    <3> HIDE DEF Differs
    <3> QED BY <3>1, LeastNatural
  <2>2. k # 0
    BY <2>1, <1>2
  <2>3. k \in 1 .. n /\ k - 1 \in 0 .. n /\ k - 1 \notin Differs
    BY <2>1, <2>2
  <2> QED BY <2>1, <2>3, <1>3
<1>5. f[1 .. n] = h[1 .. n]
  BY <1>4
<1> QED BY <1>5 DEF Folded, f, h
=================================================================================
