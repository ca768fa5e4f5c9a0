-------------------------- MODULE SubscriptionProofs --------------------------
(***************************************************************************)
(* For any tunnels, requests, limits and MaxInt64: types; the flag         *)
(* over_limit is never stale; the account of a link shrinks only in a      *)
(* reset; what a user has used covers what the links account for; and a    *)
(* user is never charged for more than was carried.                        *)
(*                                                                         *)
(* The flag and the links need not know what the goroutines hold: every    *)
(* transaction reads the rows it writes.  What is charged is a sum over    *)
(* the links, so sums come first.  The library defines MapThenSumSet by    *)
(* recursion over sets and states its induction theorems for operators,    *)
(* which no backend takes as arguments; a set has no such difficulty.      *)
(* Induction is here: of the sets for which a claim fails there is a       *)
(* smallest one.                                                           *)
(***************************************************************************)
EXTENDS Subscription, FiniteSetsExt, FiniteSetTheorems, SequenceTheorems, TLAPS

-----------------------------------------------------------------------------
(* Sums over finite sets *)

\* The element that MapThenSumSet takes out of a set.
First(s) == CHOOSE x \in s : TRUE

\* g is the recursion of MapThenSumSet for the summands f[x], x \in S.
IsSum(g, f, S) ==
    g = [s \in SUBSET S |-> IF s = {} THEN 0
                            ELSE f[First(s)] + g[s \ {First(s)}]]

Total(f, S) == (CHOOSE g : IsSum(g, f, S))[S]

-----------------------------------------------------------------------------
(* Induction. *)

LEMMA SmallestSet ==
    ASSUME NEW S, IsFiniteSet(S), NEW B \in SUBSET (SUBSET S), B # {}
    PROVE  \E s \in B : \A x \in s : s \ {x} \notin B
<1>1. B \subseteq FiniteSubsetsOf(S)
  BY FS_Subset DEF FiniteSubsetsOf
<1>2. PICK s \in B : \A r \in B : <<r, s>> \notin StrictSubsetOrdering(S)
  BY <1>1, FS_StrictSubsetOrderingWellFounded, WFMin, Zenon
<1>3. ASSUME NEW x \in s PROVE s \ {x} \notin B
  <2>1. s \ {x} \in SUBSET S /\ s \in SUBSET S /\ s \ {x} \subseteq s
    OBVIOUS
  <2>2. s \ {x} # s
    OBVIOUS
  <2>3. <<s \ {x}, s>> \in StrictSubsetOrdering(S)
    BY <2>1, <2>2 DEF StrictSubsetOrdering
  <2>4. QED  BY <1>2, <2>3
<1>4. QED  BY <1>3

LEMMA SmallestNumber ==
    ASSUME NEW B \in SUBSET Nat, B # {}
    PROVE  \E n \in B : n - 1 \notin B
<1> DEFINE T == {0 .. n : n \in B}
<1>1. T \subseteq FiniteSubsetsOf(Nat)
  <2> SUFFICES ASSUME NEW n \in B PROVE 0 .. n \in FiniteSubsetsOf(Nat)
    OBVIOUS
  <2>1. IsFiniteSet(0 .. n)
    BY FS_Interval
  <2>2. QED  BY <2>1 DEF FiniteSubsetsOf
<1>2. PICK s \in T : \A r \in T : <<r, s>> \notin StrictSubsetOrdering(Nat)
  <2>1. T # {}
    OBVIOUS
  <2> HIDE DEF T
  <2>2. QED  BY <1>1, <2>1, FS_StrictSubsetOrderingWellFounded, WFMin, Zenon
<1>3. PICK n \in B : s = 0 .. n
  BY <1>2
<1>4. SUFFICES ASSUME n - 1 \in B PROVE FALSE
  BY <1>3
<1>5. 0 .. (n - 1) \in T
  BY <1>4
<1>6. <<0 .. (n - 1), 0 .. n>> \in StrictSubsetOrdering(Nat)
  <2>1. 0 .. (n - 1) \in SUBSET Nat /\ 0 .. n \in SUBSET Nat
    BY <1>4
  <2>2. 0 .. (n - 1) \subseteq 0 .. n /\ n \in 0 .. n /\ n \notin 0 .. (n - 1)
    BY <1>4
  <2>3. 0 .. (n - 1) # 0 .. n
    BY <2>2
  <2>4. QED  BY <2>1, <2>2, <2>3 DEF StrictSubsetOrdering
<1>7. QED  BY <1>2, <1>3, <1>5, <1>6

LEMMA FirstIn == ASSUME NEW s, s # {} PROVE First(s) \in s
BY DEF First

-----------------------------------------------------------------------------
(* There is such a sum, and only one. *)

LEMMA SumExists ==
    ASSUME NEW S, IsFiniteSet(S), NEW f \in [S -> Nat]
    PROVE  \E g \in [SUBSET S -> Nat] : IsSum(g, f, S)
<1> DEFINE D(n) == {s \in SUBSET S : Cardinality(s) <= n}
           Sums(n) == {g \in [D(n) -> Nat] :
                         \A s \in D(n) :
                            g[s] = IF s = {} THEN 0
                                   ELSE f[First(s)] + g[s \ {First(s)}]}
           B == {n \in Nat : Sums(n) = {}}
<1>0. \A s \in SUBSET S : IsFiniteSet(s) /\ Cardinality(s) \in Nat
  BY FS_Subset, FS_CardinalityType
<1>1. ASSUME NEW n \in B PROVE n # 0
  <2>1. SUFFICES ASSUME n = 0 PROVE FALSE
    OBVIOUS
  <2>2. \A s \in D(0) : s = {}
    BY <1>0, FS_EmptySet
  <2>3. [s \in D(0) |-> 0] \in Sums(0)
    BY <2>2
  <2>4. QED  BY <2>1, <2>3, <1>1
<1>2. ASSUME NEW n \in B, n - 1 \notin B PROVE FALSE
  <2>1. n \in Nat /\ n - 1 \in Nat
    <3>1. n \in Nat
      OBVIOUS
    <3>2. n # 0
      BY <1>1
    <3> HIDE DEF B, Sums, D
    <3>3. QED  BY <3>1, <3>2
  <2>2. PICK g : g \in Sums(n - 1)
    BY <1>2, <2>1
  <2> DEFINE h == [s \in D(n) |-> IF s = {} THEN 0
                                  ELSE f[First(s)] + g[s \ {First(s)}]]
  <2>3. \A s \in D(n) : s # {} =>
           /\ First(s) \in S /\ s \ {First(s)} \in D(n - 1)
    <3> SUFFICES ASSUME NEW s \in D(n), s # {}
                 PROVE  First(s) \in S /\ s \ {First(s)} \in D(n - 1)
      OBVIOUS
    <3>1. First(s) \in s
      BY FirstIn
    <3>2. Cardinality(s \ {First(s)}) = Cardinality(s) - 1
      BY <1>0, <3>1, FS_RemoveElement
    <3>3. QED  BY <1>0, <2>1, <3>1, <3>2
  <2>4. \A s \in D(n - 1) : s \in D(n) /\ h[s] = g[s]
    <3> SUFFICES ASSUME NEW s \in D(n - 1) PROVE s \in D(n) /\ h[s] = g[s]
      OBVIOUS
    <3>1. s \in D(n)
      BY <1>0, <2>1
    <3>2. g[s] = IF s = {} THEN 0 ELSE f[First(s)] + g[s \ {First(s)}]
      BY <2>2
    <3>3. QED  BY <3>1, <3>2
  <2>5. h \in [D(n) -> Nat]
    <3> SUFFICES ASSUME NEW s \in D(n) PROVE h[s] \in Nat
      OBVIOUS
    <3>1. CASE s = {}
      BY <3>1
    <3>2. CASE s # {}
      <4>1. g[s \ {First(s)}] \in Nat /\ f[First(s)] \in Nat
        BY <2>2, <2>3, <3>2
      <4>2. QED  BY <3>2, <4>1
    <3>3. QED  BY <3>1, <3>2
  <2>6. \A s \in D(n) : h[s] = IF s = {} THEN 0
                               ELSE f[First(s)] + h[s \ {First(s)}]
    <3> SUFFICES ASSUME NEW s \in D(n)
                 PROVE  h[s] = IF s = {} THEN 0
                               ELSE f[First(s)] + h[s \ {First(s)}]
      OBVIOUS
    <3>1. s # {} => h[s \ {First(s)}] = g[s \ {First(s)}]
      BY <2>3, <2>4
    <3>2. QED  BY <3>1
  <2>7. h \in Sums(n)
    BY <2>5, <2>6
  <2>8. QED  BY <1>2, <2>7
<1>3. B = {}
  <2>1. B \in SUBSET Nat
    OBVIOUS
  <2> HIDE DEF B
  <2>2. QED  BY <1>2, <2>1, SmallestNumber
<1>4. PICK g : g \in Sums(Cardinality(S))
  <2>1. Cardinality(S) \in Nat
    BY <1>0
  <2>2. QED  BY <1>3, <2>1
<1>5. D(Cardinality(S)) = SUBSET S
  BY FS_Subset
<1>6. g \in [SUBSET S -> Nat]
  BY <1>4, <1>5
<1>7. IsSum(g, f, S)
  BY <1>4, <1>5, <1>6 DEF IsSum
<1>8. QED  BY <1>6, <1>7
LEMMA SumUnique ==
    ASSUME NEW S, IsFiniteSet(S), NEW f, NEW g, NEW h,
           IsSum(g, f, S), IsSum(h, f, S)
    PROVE  g = h
<1> DEFINE B == {s \in SUBSET S : g[s] # h[s]}
<1>1. ASSUME NEW s \in B, \A x \in s : s \ {x} \notin B PROVE FALSE
  <2>1. s # {}
    BY <1>1 DEF IsSum
  <2>2. First(s) \in s /\ s \ {First(s)} \in SUBSET S
    BY <2>1, FirstIn
  <2>3. g[s \ {First(s)}] = h[s \ {First(s)}]
    BY <1>1, <2>2
  <2>4. /\ g[s] = f[First(s)] + g[s \ {First(s)}]
        /\ h[s] = f[First(s)] + h[s \ {First(s)}]
    BY <2>1 DEF IsSum
  <2>5. QED  BY <2>3, <2>4, <1>1
<1>2. B = {}
  <2>1. B \in SUBSET (SUBSET S)
    OBVIOUS
  <2> HIDE DEF B
  <2>2. QED  BY <1>1, <2>1, SmallestSet
<1>3. \A s \in SUBSET S : g[s] = h[s]
  BY <1>2
<1>4. g = [s \in SUBSET S |-> g[s]] /\ h = [s \in SUBSET S |-> h[s]]
  BY DEF IsSum
<1>5. QED  BY <1>3, <1>4

-----------------------------------------------------------------------------
(* Which element is taken first does not matter. *)

Stepwise(g, f, S) ==
    /\ g[{}] = 0
    /\ \A s \in SUBSET S, x \in S : x \in s => g[s] = f[x] + g[s \ {x}]

LEMMA SumStep ==
    ASSUME NEW S, IsFiniteSet(S), NEW f \in [S -> Nat],
           NEW g \in [SUBSET S -> Nat], IsSum(g, f, S)
    PROVE  Stepwise(g, f, S)
<1> DEFINE B == {s \in SUBSET S : ~ \A x \in s : g[s] = f[x] + g[s \ {x}]}
<1>1. ASSUME NEW s \in B, \A x \in s : s \ {x} \notin B PROVE FALSE
  <2>1. PICK x \in s : g[s] # f[x] + g[s \ {x}]
    OBVIOUS
  <2> DEFINE c == First(s)
  <2>2. c \in s /\ c \in S /\ x \in S
    BY FirstIn
  <2>3. g[s] = f[c] + g[s \ {c}]
    BY <2>1 DEF IsSum
  <2>4. c # x
    BY <2>1, <2>3
  <2> HIDE DEF c
  <2>5. /\ s \ {c} \notin B /\ s \ {c} \in SUBSET S /\ x \in s \ {c}
        /\ s \ {x} \notin B /\ s \ {x} \in SUBSET S /\ c \in s \ {x}
    BY <1>1, <2>2, <2>4
  <2>6. g[s \ {c}] = f[x] + g[(s \ {c}) \ {x}]
    BY <2>5
  <2>7. g[s \ {x}] = f[c] + g[(s \ {x}) \ {c}]
    BY <2>5
  <2>8. (s \ {c}) \ {x} = (s \ {x}) \ {c}
    OBVIOUS
  <2>9. f[c] \in Nat /\ f[x] \in Nat /\ g[(s \ {x}) \ {c}] \in Nat
    BY <2>2
  <2> DEFINE d == g[(s \ {x}) \ {c}]
  <2>10. g[s] = f[c] + (f[x] + d) /\ g[s \ {x}] = f[c] + d
    BY <2>3, <2>6, <2>7, <2>8
  <2> HIDE DEF d
  <2>11. g[s] = f[x] + g[s \ {x}]
    BY <2>9, <2>10 DEF d
  <2>12. QED  BY <2>1, <2>11
<1>2. B = {}
  <2>1. B \in SUBSET (SUBSET S)
    OBVIOUS
  <2> HIDE DEF B
  <2>2. QED  BY <1>1, <2>1, SmallestSet
<1>3. g[{}] = 0
  BY DEF IsSum
<1>4. QED  BY <1>2, <1>3 DEF Stepwise

\* g sums the summands f.
SumsUp(g, f, S) ==
    f \in [S -> Nat] /\ g \in [SUBSET S -> Nat] /\ IsSum(g, f, S)

\* T is a part of S, and f is zero in the rest of it.
ZeroOutside(f, S, T) == T \subseteq S /\ \A x \in S \ T : f[x] = 0

\* Summands outside of T are zero: the sum is that over T.
LEMMA SumOfPart ==
    ASSUME NEW S, IsFiniteSet(S), NEW T, NEW f, NEW g,
           SumsUp(g, f, S), ZeroOutside(f, S, T)
    PROVE  g[S] = g[T]
<1> DEFINE B == {s \in SUBSET S : g[s] # g[s \cap T]}
<1>0. /\ Stepwise(g, f, S)
      /\ f \in [S -> Nat] /\ g \in [SUBSET S -> Nat]
  BY SumStep DEF SumsUp
<1>1. ASSUME NEW s \in B, \A x \in s : s \ {x} \notin B PROVE FALSE
  <2>1. s \cap T # s
    OBVIOUS
  <2>2. PICK x \in s : x \notin T
    BY <2>1
  <2>3. g[s] = f[x] + g[s \ {x}] /\ f[x] = 0
    BY <2>2, <1>0 DEF Stepwise, ZeroOutside
  <2>4. g[s \ {x}] = g[(s \ {x}) \cap T] /\ g[s \ {x}] \in Nat
    BY <1>0, <1>1, <2>2
  <2>5. (s \ {x}) \cap T = s \cap T
    BY <2>2
  <2>6. g[s] = g[s \ {x}]
    BY <2>3, <2>4
  <2>7. g[s] = g[s \cap T]
    BY <2>4, <2>5, <2>6
  <2>8. QED  BY <2>7
<1>2. B = {}
  <2>1. B \in SUBSET (SUBSET S)
    OBVIOUS
  <2> HIDE DEF B
  <2>2. QED  BY <1>1, <2>1, SmallestSet
<1>3. S \cap T = T
  BY DEF ZeroOutside
<1>4. QED  BY <1>2, <1>3
-----------------------------------------------------------------------------
(* What the accounts need of a total. *)

LEMMA TotalIsSum ==
    ASSUME NEW S, IsFiniteSet(S), NEW f \in [S -> Nat]
    PROVE  \E g \in [SUBSET S -> Nat] : IsSum(g, f, S) /\ Total(f, S) = g[S]
<1>1. PICK g \in [SUBSET S -> Nat] : IsSum(g, f, S)
  BY SumExists
<1>2. IsSum(CHOOSE h : IsSum(h, f, S), f, S)
  BY <1>1
<1>3. g = CHOOSE h : IsSum(h, f, S)
  BY <1>1, <1>2, SumUnique
<1>4. QED  BY <1>1, <1>3 DEF Total

LEMMA TotalIsNat ==
    ASSUME NEW S, IsFiniteSet(S), NEW f \in [S -> Nat]
    PROVE  Total(f, S) \in Nat
<1>1. PICK g \in [SUBSET S -> Nat] : IsSum(g, f, S) /\ Total(f, S) = g[S]
  BY TotalIsSum
<1>2. S \in SUBSET S
  OBVIOUS
<1>3. QED  BY <1>1, <1>2

\* A sum of at most two sums.
LEMMA TotalOfSum ==
    ASSUME NEW S, IsFiniteSet(S), NEW f \in [S -> Nat],
           NEW f1 \in [S -> Nat], NEW f2 \in [S -> Nat],
           \A x \in S : f[x] <= f1[x] + f2[x]
    PROVE  Total(f, S) <= Total(f1, S) + Total(f2, S)
<1>1. PICK g \in [SUBSET S -> Nat] : IsSum(g, f, S) /\ Total(f, S) = g[S]
  BY TotalIsSum
<1>2. PICK g1 \in [SUBSET S -> Nat] : IsSum(g1, f1, S) /\ Total(f1, S) = g1[S]
  BY TotalIsSum
<1>3. PICK g2 \in [SUBSET S -> Nat] : IsSum(g2, f2, S) /\ Total(f2, S) = g2[S]
  BY TotalIsSum
<1> DEFINE B == {s \in SUBSET S : ~(g[s] <= g1[s] + g2[s])}
<1>4. Stepwise(g, f, S) /\ Stepwise(g1, f1, S) /\ Stepwise(g2, f2, S)
  BY <1>1, <1>2, <1>3, SumStep, Zenon
<1>5. ASSUME NEW s \in B, \A x \in s : s \ {x} \notin B PROVE FALSE
  <2>1. s # {}
    <3>1. g[{}] = 0 /\ g1[{}] = 0 /\ g2[{}] = 0
      BY <1>4 DEF Stepwise
    <3>2. {} \notin B
      BY <3>1
    <3>3. QED  BY <3>2
  <2>2. PICK x \in s : TRUE
    BY <2>1
  <2> DEFINE r == s \ {x}
  <2>3. r \in SUBSET S /\ x \in S /\ r \notin B
    BY <1>5
  <2>4. g[s] = f[x] + g[r] /\ g1[s] = f1[x] + g1[r] /\ g2[s] = f2[x] + g2[r]
    BY <1>4, <2>3 DEF Stepwise
  <2> HIDE DEF r
  <2>5. g[r] <= g1[r] + g2[r] /\ f[x] <= f1[x] + f2[x]
    BY <2>3
  <2>6. /\ g[r] \in Nat /\ g1[r] \in Nat /\ g2[r] \in Nat
        /\ f[x] \in Nat /\ f1[x] \in Nat /\ f2[x] \in Nat
    BY <2>3
  <2>7. g[s] <= g1[s] + g2[s]
    BY <2>4, <2>5, <2>6
  <2>8. QED  BY <2>7
<1>6. B = {}
  <2>1. B \in SUBSET (SUBSET S)
    OBVIOUS
  <2> HIDE DEF B
  <2>2. QED  BY <1>5, <2>1, SmallestSet
<1>7. g[S] <= g1[S] + g2[S]
  BY <1>6
<1>8. QED  BY <1>1, <1>2, <1>3, <1>7

LEMMA TotalOfPart ==
    ASSUME NEW S, IsFiniteSet(S), NEW T \in SUBSET S, NEW f \in [S -> Nat],
           \A x \in S \ T : f[x] = 0
    PROVE  Total(f, S) = Total([x \in T |-> f[x]], T)
<1> DEFINE h == [x \in T |-> f[x]]
<1>1. PICK g \in [SUBSET S -> Nat] : IsSum(g, f, S) /\ Total(f, S) = g[S]
  BY TotalIsSum
<1>2. IsFiniteSet(T) /\ h \in [T -> Nat]
  BY FS_Subset
<1>3. PICK k \in [SUBSET T -> Nat] : IsSum(k, h, T) /\ Total(h, T) = k[T]
  BY <1>2, TotalIsSum
<1> DEFINE r == [s \in SUBSET T |-> g[s]]
<1>4. IsSum(r, h, T)
  <2>1. \A s \in SUBSET T : r[s] = IF s = {} THEN 0
                                   ELSE h[First(s)] + r[s \ {First(s)}]
    <3> SUFFICES ASSUME NEW s \in SUBSET T
                 PROVE  r[s] = IF s = {} THEN 0
                               ELSE h[First(s)] + r[s \ {First(s)}]
      OBVIOUS
    <3>1. s # {} => First(s) \in s
      BY FirstIn
    <3>2. g[s] = IF s = {} THEN 0 ELSE f[First(s)] + g[s \ {First(s)}]
      BY <1>1 DEF IsSum
    <3>3. QED  BY <3>1, <3>2
  <2> HIDE DEF h
  <2>2. QED  BY <2>1 DEF IsSum
<1> HIDE DEF h
<1>5. r = k
  BY <1>2, <1>3, <1>4, SumUnique
<1>6. g[S] = g[T]
  <2>1. ZeroOutside(f, S, T)
    BY DEF ZeroOutside
  <2>2. SumsUp(g, f, S)
    BY <1>1 DEF SumsUp
  <2>3. QED  BY <2>1, <2>2, SumOfPart
<1>7. g[T] = r[T]
  OBVIOUS
<1> HIDE DEF r
<1>8. QED  BY <1>1, <1>3, <1>5, <1>6, <1>7 DEF h

LEMMA TotalOfZeros ==
    ASSUME NEW S, IsFiniteSet(S), NEW f \in [S -> Nat], \A x \in S : f[x] = 0
    PROVE  Total(f, S) = 0
<1>1. PICK g \in [SUBSET S -> Nat] : IsSum(g, f, S) /\ Total(f, S) = g[S]
  BY TotalIsSum
<1>2. g[S] = g[{}]
  <2>1. ZeroOutside(f, S, {})
    BY DEF ZeroOutside
  <2>2. SumsUp(g, f, S)
    BY <1>1 DEF SumsUp
  <2>3. QED  BY <2>1, <2>2, SumOfPart
<1>3. Stepwise(g, f, S)
  BY <1>1, SumStep, Zenon
<1>4. QED  BY <1>1, <1>2, <1>3 DEF Stepwise

LEMMA TotalMonotone ==
    ASSUME NEW S, IsFiniteSet(S), NEW f \in [S -> Nat], NEW f1 \in [S -> Nat],
           \A x \in S : f[x] <= f1[x]
    PROVE  Total(f, S) <= Total(f1, S)
<1> DEFINE z == [x \in S |-> 0]
<1>1. z \in [S -> Nat] /\ \A x \in S : z[x] = 0 /\ f[x] <= f1[x] + z[x]
  OBVIOUS
<1> HIDE DEF z
<1>2. Total(z, S) = 0
  BY <1>1, TotalOfZeros
<1>3. Total(f, S) <= Total(f1, S) + Total(z, S)
  BY <1>1, TotalOfSum
<1>4. QED  BY <1>2, <1>3, TotalIsNat

\* One summand grows by d.
LEMMA TotalOfOneMore ==
    ASSUME NEW S, IsFiniteSet(S), NEW f \in [S -> Nat], NEW f1 \in [S -> Nat],
           NEW c \in S, NEW d \in Nat,
           f[c] <= f1[c] + d, \A x \in S \ {c} : f[x] <= f1[x]
    PROVE  Total(f, S) <= Total(f1, S) + d
<1> DEFINE e == [x \in S |-> IF x = c THEN d ELSE 0]
<1>1. /\ e \in [S -> Nat] /\ e[c] = d
      /\ \A x \in S \ {c} : e[x] = 0
      /\ \A x \in S : f[x] <= f1[x] + e[x]
  OBVIOUS
<1> HIDE DEF e
<1>2. PICK g \in [SUBSET S -> Nat] : IsSum(g, e, S) /\ Total(e, S) = g[S]
  BY <1>1, TotalIsSum
<1>3. Stepwise(g, e, S)
  BY <1>1, <1>2, SumStep, Zenon
<1>4. PICK T \in SUBSET S : T = {c}
  OBVIOUS
<1>5. g[S] = g[T]
  <2>1. ZeroOutside(e, S, T)
    BY <1>1, <1>4 DEF ZeroOutside
  <2>2. SumsUp(g, e, S)
    BY <1>1, <1>2 DEF SumsUp
  <2>3. QED  BY <2>1, <2>2, SumOfPart
<1>6. g[T] = d
  <2>1. T \ {c} = {} /\ c \in T
    BY <1>4
  <2>2. g[T] = e[c] + g[T \ {c}]
    BY <1>3, <2>1 DEF Stepwise
  <2>3. g[T \ {c}] = 0
    BY <1>3, <2>1 DEF Stepwise
  <2>4. QED  BY <1>1, <2>2, <2>3
<1>7. Total(f, S) <= Total(f1, S) + Total(e, S)
  BY <1>1, TotalOfSum
<1>8. QED  BY <1>2, <1>5, <1>6, <1>7

-----------------------------------------------------------------------------
(* The rows and what they hold. *)

Link == [last : Bytes, accounted : Bytes]
Row == [count : Bytes, running : BOOLEAN]
SubRow == [used : Bytes, limit : Limits, over : BOOLEAN, expires : Expiries]

SubOK == sub # Nil => sub \in SubRow /\ OverIsCurrent

TablesOK ==
    /\ rows \in [Tunnels -> Row \cup {Nil}]
    /\ links \in [Tunnels -> Link \cup {Nil}]
    /\ portal \in [Tunnels -> BOOLEAN]

\* A link goes with its tunnel.
LinkedExists == \A t \in Tunnels : links[t] # Nil => rows[t] \in Row

IInv == SubOK /\ TablesOK /\ LinkedExists

-----------------------------------------------------------------------------
(* What the helpers return. *)

LEMMA AddFacts ==
    ASSUME NEW a \in Bytes, NEW b \in Nat
    PROVE  Add(a, b) \in Bytes /\ Add(a, b) >= a
<1>1. a \in Nat /\ Cap \in Nat /\ a <= Cap
  BY SubscriptionAssumption DEF Bytes
<1>2. \E m \in {a + b, Cap} : \A n \in {a + b, Cap} : m <= n
  BY <1>1
<1>3. /\ Add(a, b) \in {a + b, Cap}
      /\ \A n \in {a + b, Cap} : Add(a, b) <= n
  BY <1>2 DEF Add, Min
<1>4. QED  BY <1>1, <1>3 DEF Bytes

LEMMA AddIs ==
    ASSUME NEW a \in Bytes, NEW b \in Nat
    PROVE  Add(a, b) = IF a + b <= Cap THEN a + b ELSE Cap
<1>1. a \in Nat /\ Cap \in Nat
  BY SubscriptionAssumption DEF Bytes
<1>2. \E m \in {a + b, Cap} : \A n \in {a + b, Cap} : m <= n
  BY <1>1
<1>3. /\ Add(a, b) \in {a + b, Cap}
      /\ \A n \in {a + b, Cap} : Add(a, b) <= n
  BY <1>2 DEF Add, Min
<1>4. QED  BY <1>1, <1>3

LEMMA ZeroIsBytes == 0 \in Bytes
BY SubscriptionAssumption DEF Bytes

LEMMA LinkFacts ==
    ASSUME IInv, NEW t \in Tunnels
    PROVE  /\ rows[t] \in Row => NewLink(t) \in Link
           /\ t \in Linked => /\ Observe(t) \in Link
                              /\ Observe(t).accounted >= links[t].accounted
<1>1. rows[t] \in Row \cup {Nil} /\ links[t] \in Link \cup {Nil}
  BY DEF IInv, TablesOK
<1>2. ASSUME rows[t] \in Row PROVE NewLink(t) \in Link
  <2>1. rows[t].count \in Bytes /\ 0 \in Bytes
    BY <1>1, <1>2, SubscriptionAssumption DEF Row, Bytes
  <2>2. QED  BY <2>1 DEF NewLink, Link
<1>3. ASSUME t \in Linked
      PROVE  /\ Observe(t) \in Link
             /\ Observe(t).accounted >= links[t].accounted
  <2>1. rows[t].count \in Bytes /\ links[t].last \in Bytes
        /\ links[t].accounted \in Bytes
    BY <1>1, <1>3 DEF Linked, Row, Link, IInv, LinkedExists
  <2>2. Delta(t) \in Nat
    BY <2>1, SubscriptionAssumption DEF Delta, Bytes
  <2>3. QED  BY <2>1, <2>2, AddFacts DEF Observe, Link
<1>4. QED  BY <1>2, <1>3

\* The links that a transaction leaves behind.
LEMMA ReplacedLinks ==
    ASSUME IInv, NEW wanted \in SUBSET Existing, Replace(wanted)
    PROVE  /\ links' \in [Tunnels -> Link \cup {Nil}]
           /\ \A t \in Tunnels : links'[t] # Nil => rows[t] \in Row
           /\ \A t \in Tunnels : links[t] # Nil /\ links'[t] # Nil
                  => links'[t] = links[t]
<1>1. \A t \in Tunnels :
         /\ t \notin wanted => links'[t] = Nil
         /\ t \in wanted /\ t \in Linked => links'[t] = links[t]
         /\ t \in wanted /\ t \notin Linked => links'[t] = NewLink(t)
         /\ t \in Linked <=> links[t] # Nil
         /\ t \in wanted => rows[t] \in Row
  BY DEF Replace, Existing, Linked, IInv, TablesOK
<1>2. \A t \in Tunnels : links'[t] \in Link \cup {Nil}
  <2> SUFFICES ASSUME NEW t \in Tunnels PROVE links'[t] \in Link \cup {Nil}
    OBVIOUS
  <2>1. links[t] \in Link \cup {Nil}
    BY DEF IInv, TablesOK
  <2>2. QED  BY <1>1, <2>1, LinkFacts
<1>3. links' = [t \in Tunnels |-> links'[t]]
  BY DEF Replace
<1>4. QED  BY <1>1, <1>2, <1>3

LEMMA ObservedLinks ==
    ASSUME IInv,
           links' = [t \in Tunnels |-> IF t \in Linked THEN Observe(t) ELSE Nil]
    PROVE  /\ links' \in [Tunnels -> Link \cup {Nil}]
           /\ \A t \in Tunnels : links'[t] # Nil => rows[t] \in Row
           /\ \A t \in Tunnels : links[t] # Nil /\ links'[t] # Nil
                  => links'[t].accounted >= links[t].accounted
<1>1. \A t \in Tunnels :
         /\ t \in Linked => links'[t] = Observe(t)
         /\ t \notin Linked => links'[t] = Nil
         /\ t \in Linked <=> links[t] # Nil
  BY DEF Linked
<1>2. \A t \in Tunnels : links'[t] \in Link \cup {Nil}
  BY <1>1, LinkFacts
<1>3. QED  BY <1>1, <1>2, LinkFacts DEF IInv, LinkedExists

LEMMA ResetLinks ==
    ASSUME IInv,
           links' = [t \in Tunnels |-> IF t \in Linked THEN NewLink(t) ELSE Nil]
    PROVE  /\ links' \in [Tunnels -> Link \cup {Nil}]
           /\ \A t \in Tunnels : links'[t] # Nil => rows[t] \in Row
           /\ \A t \in Tunnels : links[t] # Nil => links'[t] = NewLink(t)
<1>1. \A t \in Tunnels :
         /\ t \in Linked => links'[t] = NewLink(t)
         /\ t \notin Linked => links'[t] = Nil
         /\ t \in Linked <=> links[t] # Nil
  BY DEF Linked
<1>2. \A t \in Tunnels : links'[t] \in Link \cup {Nil}
  BY <1>1, LinkFacts DEF IInv, LinkedExists
<1>3. QED  BY <1>1, <1>2 DEF IInv, LinkedExists

\* The rows that others leave behind.
LEMMA RowsStay ==
    ASSUME IInv, NEW t \in Tunnels, rows[t] # Nil,
           NEW n \in Bytes, NEW b \in BOOLEAN,
           \/ rows' = [rows EXCEPT ![t].count = n]
           \/ rows' = [rows EXCEPT ![t].running = b]
    PROVE  /\ rows' \in [Tunnels -> Row \cup {Nil}]
           /\ \A u \in Tunnels : rows[u] \in Row => rows'[u] \in Row
<1>1. rows[t] \in Row /\ rows \in [Tunnels -> Row \cup {Nil}]
  BY DEF IInv, TablesOK
<1>2. /\ [rows[t] EXCEPT !.count = n] \in Row
      /\ [rows[t] EXCEPT !.running = b] \in Row
  BY <1>1 DEF Row
<1>3. PICK r \in Row : rows' = [rows EXCEPT ![t] = r]
  BY <1>2
<1>4. QED  BY <1>1, <1>3

-----------------------------------------------------------------------------
(* Two sums over the tunnels: what the rows show and the links have not    *)
(* observed yet, and what the links have accounted.                        *)

Unseen == [t \in Tunnels |-> IF links[t] # Nil THEN Delta(t) ELSE 0]
Accounted == [t \in Tunnels |-> IF links[t] # Nil THEN links[t].accounted ELSE 0]

LEMMA SummandsAreNat ==
    ASSUME IInv
    PROVE  /\ Unseen \in [Tunnels -> Nat]
           /\ Accounted \in [Tunnels -> Nat]
           /\ \A t \in Tunnels : links[t] # Nil => Delta(t) \in Nat
<1>1. ASSUME NEW t \in Tunnels, links[t] # Nil
      PROVE  Delta(t) \in Nat /\ links[t].accounted \in Nat
  <2>1. rows[t] \in Row /\ links[t] \in Link /\ Bytes \subseteq Nat
    BY <1>1, SubscriptionAssumption DEF IInv, LinkedExists, TablesOK, Bytes
  <2>2. /\ rows[t].count \in Nat /\ links[t].last \in Nat
        /\ links[t].accounted \in Nat
    BY <2>1 DEF Row, Link
  <2>3. QED  BY <2>2 DEF Delta
<1>2. QED  BY <1>1 DEF Unseen, Accounted

LEMMA TotalsAreNat ==
    ASSUME IInv
    PROVE  Total(Unseen, Tunnels) \in Nat /\ Total(Accounted, Tunnels) \in Nat
BY SummandsAreNat, TotalIsNat, SubscriptionAssumption

\* The sum of AccountTraffic is that of what the links have not seen.
LEMMA DeltasAreUnseen ==
    ASSUME IInv
    PROVE  MapThenSumSet(Delta, Linked) = Total(Unseen, Tunnels)
<1> DEFINE f == [t \in Linked |-> Delta(t)]
           S == Linked
           Q(g) == g = [s \in SUBSET S |->
                          IF s = {} THEN 0
                          ELSE Delta(First(s)) + g[s \ {First(s)}]]
<1>1. /\ S \in SUBSET Tunnels /\ IsFiniteSet(Tunnels)
      /\ \A t \in Tunnels : t \in S <=> links[t] # Nil
  BY SubscriptionAssumption DEF Linked
<1>2. IsFiniteSet(S) /\ f \in [S -> Nat]
  BY <1>1, SummandsAreNat, FS_Subset
<1>3. \A x \in S : f[x] = Delta(x) /\ f[x] = Unseen[x]
  BY <1>1 DEF Unseen
<1>4. f = [t \in S |-> Unseen[t]]
  BY <1>3
<1>5. MapThenSumSet(Delta, S) = (CHOOSE h : Q(h))[S]
  BY DEF MapThenSumSet, MapThenFoldSet, First
<1> HIDE DEF f, S
<1>6. PICK g \in [SUBSET S -> Nat] : IsSum(g, f, S) /\ Total(f, S) = g[S]
  BY <1>2, TotalIsSum
<1>7. ASSUME NEW h PROVE Q(h) <=> IsSum(h, f, S)
  <2>1. \A s \in SUBSET S : s # {} => f[First(s)] = Delta(First(s))
    BY <1>3, FirstIn
  <2>2. [s \in SUBSET S |-> IF s = {} THEN 0
                            ELSE Delta(First(s)) + h[s \ {First(s)}]]
        = [s \in SUBSET S |-> IF s = {} THEN 0
                              ELSE f[First(s)] + h[s \ {First(s)}]]
    BY <2>1
  <2>3. QED  BY <2>2 DEF IsSum
<1>8. g = CHOOSE h : Q(h)
  <2>1. Q(g)
    BY <1>6, <1>7
  <2>2. ASSUME NEW h, Q(h) PROVE h = g
    <3>1. IsSum(h, f, S)
      BY <1>7, <2>2
    <3>2. QED  BY <1>2, <1>6, <3>1, SumUnique
  <2> HIDE DEF Q
  <2>3. QED  BY <2>1, <2>2
<1>9. \A t \in Tunnels \ S : Unseen[t] = 0
  BY <1>1 DEF Unseen
<1>10. Total(Unseen, Tunnels) = Total([t \in S |-> Unseen[t]], S)
  BY <1>1, <1>9, SummandsAreNat, TotalOfPart
<1>11. QED  BY <1>4, <1>5, <1>6, <1>8, <1>10 DEF S

\* And that of UsedCoversLinks.
LEMMA LinksAreAccounted ==
    ASSUME IInv
    PROVE  MapThenSumSet(LAMBDA t : links[t].accounted, Linked)
           = Total(Accounted, Tunnels)
<1> DEFINE f == [t \in Linked |-> links[t].accounted]
           S == Linked
           Q(g) == g = [s \in SUBSET S |->
                          IF s = {} THEN 0
                          ELSE links[First(s)].accounted + g[s \ {First(s)}]]
<1>1. /\ S \in SUBSET Tunnels /\ IsFiniteSet(Tunnels)
      /\ \A t \in Tunnels : t \in S <=> links[t] # Nil
  BY SubscriptionAssumption DEF Linked
<1>2. \A x \in S : f[x] = links[x].accounted /\ f[x] = Accounted[x]
  BY <1>1 DEF Accounted
<1>3. f = [t \in S |-> Accounted[t]]
  BY <1>2
<1>4. IsFiniteSet(S) /\ f \in [S -> Nat]
  BY <1>1, <1>3, SummandsAreNat, FS_Subset
<1>5. MapThenSumSet(LAMBDA t : links[t].accounted, S) = (CHOOSE h : Q(h))[S]
  BY DEF MapThenSumSet, MapThenFoldSet, First
<1> HIDE DEF f, S
<1>6. PICK g \in [SUBSET S -> Nat] : IsSum(g, f, S) /\ Total(f, S) = g[S]
  BY <1>4, TotalIsSum
<1>7. ASSUME NEW h PROVE Q(h) <=> IsSum(h, f, S)
  <2>1. \A s \in SUBSET S : s # {} => f[First(s)] = links[First(s)].accounted
    BY <1>2, FirstIn
  <2>2. [s \in SUBSET S |-> IF s = {} THEN 0
                            ELSE links[First(s)].accounted + h[s \ {First(s)}]]
        = [s \in SUBSET S |-> IF s = {} THEN 0
                              ELSE f[First(s)] + h[s \ {First(s)}]]
    BY <2>1
  <2>3. QED  BY <2>2 DEF IsSum
<1>8. g = CHOOSE h : Q(h)
  <2>1. Q(g)
    BY <1>6, <1>7
  <2>2. ASSUME NEW h, Q(h) PROVE h = g
    <3>1. IsSum(h, f, S)
      BY <1>7, <2>2
    <3>2. QED  BY <1>4, <1>6, <3>1, SumUnique
  <2> HIDE DEF Q
  <2>3. QED  BY <2>1, <2>2
<1>9. \A t \in Tunnels \ S : Accounted[t] = 0
  BY <1>1 DEF Accounted
<1>10. Total(Accounted, Tunnels) = Total([t \in S |-> Accounted[t]], S)
  BY <1>1, <1>9, SummandsAreNat, TotalOfPart
<1>11. QED  BY <1>3, <1>5, <1>6, <1>8, <1>10 DEF S

-----------------------------------------------------------------------------
(* The flag and the accounts: transactions of the subscription. *)

\* What a step promises besides the invariant.
Accounts ==
    \A t \in Tunnels :
        links[t] # Nil /\ links'[t] # Nil
        => \/ links'[t].accounted >= links[t].accounted
           \/ sub'.used = 0 /\ links'[t] = NewLink(t)

LEMMA LinkIsNat ==
    ASSUME IInv, NEW t \in Tunnels, links[t] # Nil
    PROVE  links[t].accounted \in Nat
BY SubscriptionAssumption DEF IInv, TablesOK, Link, Bytes

\* Steps that leave subscription and links alone.
LEMMA LinksStay ==
    ASSUME IInv, UNCHANGED <<sub, links>>, TablesOK', LinkedExists'
    PROVE  IInv' /\ Accounts
<1>1. SubOK'
  BY DEF IInv, SubOK, OverIsCurrent, IsOver
<1>2. Accounts
  BY LinkIsNat DEF Accounts
<1>3. QED  BY <1>1, <1>2 DEF IInv

LEMMA AccountKeeps ==
    ASSUME IInv, NEW p, Account(p)
    PROVE  IInv' /\ Accounts
<1>1. CASE sub = Nil /\ UNCHANGED <<sub, links>>
  <2>1. TablesOK' /\ LinkedExists'
    BY <1>1 DEF Account, IInv, TablesOK, LinkedExists
  <2>2. QED  BY <1>1, <2>1, LinksStay
<1>2. CASE sub # Nil
  <2> DEFINE used == Add(sub.used, MapThenSumSet(Delta, Linked))
  <2>1. /\ sub' = [sub EXCEPT !.used = used, !.over = IsOver(used, sub.limit)]
        /\ links' = [t \in Tunnels |-> IF t \in Linked THEN Observe(t) ELSE Nil]
        /\ rows' = rows /\ portal' = portal
    BY <1>2 DEF Account
  <2> HIDE DEF used
  <2>2. used \in Bytes
    <3>1. MapThenSumSet(Delta, Linked) \in Nat
      BY DeltasAreUnseen, TotalsAreNat
    <3>2. sub.used \in Bytes
      BY <1>2 DEF IInv, SubOK, SubRow
    <3>3. QED  BY <3>1, <3>2, AddFacts DEF used
  <2>3. sub \in SubRow
    BY <1>2 DEF IInv, SubOK
  <2>4. SubOK'
    BY <2>1, <2>2, <2>3 DEF SubOK, SubRow, OverIsCurrent, IsOver
  <2>5. TablesOK' /\ LinkedExists' /\ Accounts
    BY <2>1, ObservedLinks DEF IInv, TablesOK, LinkedExists, Accounts
  <2>6. QED  BY <2>4, <2>5 DEF IInv
<1>3. QED  BY <1>1, <1>2 DEF Account

LEMMA CreateKeeps ==
    ASSUME IInv, NEW p, Create(p)
    PROVE  IInv' /\ Accounts
<1>1. PICK limit \in Limits, expires \in Expiries, ids \in SUBSET Existing :
         /\ sub' = [used |-> 0, limit |-> limit, over |-> FALSE,
                    expires |-> expires]
         /\ Replace(ids)
  BY DEF Create
<1>2. SubOK'
  <2>1. limit \in Nat
    BY SubscriptionAssumption
  <2>2. IsOver(0, limit) = FALSE
    BY <2>1 DEF IsOver
  <2>3. QED
    BY <1>1, <2>1, <2>2, ZeroIsBytes DEF SubOK, SubRow, OverIsCurrent, IsOver
<1>3. rows' = rows /\ portal' = portal
  BY DEF Create
<1>4. TablesOK' /\ LinkedExists' /\ Accounts
  BY <1>1, <1>3, ReplacedLinks, LinkIsNat
     DEF IInv, TablesOK, LinkedExists, Accounts
<1>5. QED  BY <1>2, <1>4 DEF IInv

LEMMA UpdateKeeps ==
    ASSUME IInv, NEW p, Update(p)
    PROVE  IInv' /\ Accounts
<1>1. PICK limit \in Limits, expires \in Expiries, ids \in SUBSET Existing :
         /\ sub' = [sub EXCEPT !.limit = limit, !.expires = expires,
                               !.over = IsOver(sub.used, limit)]
         /\ Replace(ids)
  BY DEF Update
<1>2. SubOK'
  <2>1. sub \in SubRow
    BY DEF Update, IInv, SubOK
  <2>2. QED  BY <1>1, <2>1 DEF SubOK, SubRow, OverIsCurrent, IsOver
<1>3. rows' = rows /\ portal' = portal
  BY DEF Update
<1>4. TablesOK' /\ LinkedExists' /\ Accounts
  BY <1>1, <1>3, ReplacedLinks, LinkIsNat
     DEF IInv, TablesOK, LinkedExists, Accounts
<1>5. QED  BY <1>2, <1>4 DEF IInv

LEMMA ResetKeeps ==
    ASSUME IInv, NEW p, Reset(p)
    PROVE  IInv' /\ Accounts
<1>1. /\ sub' = [sub EXCEPT !.used = 0, !.over = FALSE]
      /\ links' = [t \in Tunnels |-> IF t \in Linked THEN NewLink(t) ELSE Nil]
      /\ rows' = rows /\ portal' = portal
  BY DEF Reset
<1>2. SubOK' /\ sub'.used = 0
  <2>1. sub \in SubRow /\ sub.limit \in Nat
    BY SubscriptionAssumption DEF Reset, IInv, SubOK, SubRow
  <2>2. IsOver(0, sub.limit) = FALSE
    BY <2>1 DEF IsOver
  <2>3. sub' \in SubRow /\ sub'.used = 0 /\ sub'.limit = sub.limit
        /\ sub'.over = FALSE
    BY <1>1, <2>1, ZeroIsBytes DEF SubRow
  <2>4. OverIsCurrent'
    BY <2>2, <2>3 DEF OverIsCurrent, IsOver
  <2>5. QED  BY <2>3, <2>4 DEF SubOK
<1>3. TablesOK' /\ LinkedExists' /\ Accounts
  BY <1>1, <1>2, ResetLinks DEF IInv, TablesOK, LinkedExists, Accounts
<1>4. QED  BY <1>2, <1>3 DEF IInv

LEMMA DeleteKeeps ==
    ASSUME IInv, NEW p, Delete(p)
    PROVE  IInv' /\ Accounts
BY DEF Delete, IInv, SubOK, TablesOK, LinkedExists, Accounts

LEMMA RemoveKeeps ==
    ASSUME IInv, NEW p, Remove(p)
    PROVE  IInv' /\ Accounts
<1> DEFINE t == proc[p].tunnel
<1>1. /\ rows' = [rows EXCEPT ![t] = Nil] /\ links' = [links EXCEPT ![t] = Nil]
      /\ portal' = [portal EXCEPT ![t] = FALSE] /\ sub' = sub
  BY DEF Remove
<1> HIDE DEF t
<1>2. /\ rows \in [Tunnels -> Row \cup {Nil}]
      /\ links \in [Tunnels -> Link \cup {Nil}]
      /\ portal \in [Tunnels -> BOOLEAN]
  BY DEF IInv, TablesOK
<1>3. TablesOK'
  BY <1>1, <1>2 DEF TablesOK
<1>4. \A u \in Tunnels :
         links'[u] # Nil => links'[u] = links[u] /\ rows'[u] = rows[u]
  BY <1>1, <1>2
<1>5. LinkedExists'
  BY <1>4 DEF IInv, LinkedExists
<1>6. Accounts
  BY <1>4, LinkIsNat DEF Accounts
<1>7. SubOK'
  BY <1>1 DEF IInv, SubOK, OverIsCurrent, IsOver
<1>8. QED  BY <1>3, <1>5, <1>6, <1>7 DEF IInv

-----------------------------------------------------------------------------
(* All others. *)

\* A step that writes rows and keeps those there are.
LEMMA RowsKeep ==
    ASSUME IInv, UNCHANGED <<sub, links>>,
           rows' \in [Tunnels -> Row \cup {Nil}],
           portal' \in [Tunnels -> BOOLEAN],
           \A t \in Tunnels : rows[t] \in Row => rows'[t] \in Row
    PROVE  IInv' /\ Accounts
<1>1. TablesOK' /\ LinkedExists'
  BY DEF IInv, TablesOK, LinkedExists
<1>2. QED  BY <1>1, LinksStay

LEMMA StopKeeps ==
    ASSUME IInv, NEW p, NEW t \in Tunnels,
           StopInstance(p, t) \/ StopFails(p, t)
    PROVE  IInv' /\ Accounts
<1>1. UNCHANGED <<sub, links, rows>>
  BY DEF StopInstance, StopFails
<1>2. portal' \in [Tunnels -> BOOLEAN] /\ rows \in [Tunnels -> Row \cup {Nil}]
  BY DEF StopInstance, StopFails, IInv, TablesOK
<1>3. QED  BY <1>1, <1>2, RowsKeep

LEMMA MarkKeeps ==
    ASSUME IInv, NEW p, MarkStopped(p)
    PROVE  IInv' /\ Accounts
<1> DEFINE t == proc[p].stopped
<1>1. /\ UNCHANGED <<sub, links, portal>>
      /\ \/ rows' = rows
         \/ rows[t] # Nil /\ rows' = [rows EXCEPT ![t].running = FALSE]
  BY DEF MarkStopped
<1> HIDE DEF t
<1>2. rows \in [Tunnels -> Row \cup {Nil}] /\ portal \in [Tunnels -> BOOLEAN]
  BY DEF IInv, TablesOK
<1>3. CASE rows' = rows
  BY <1>1, <1>2, <1>3, RowsKeep
<1>4. CASE t \notin Tunnels /\ rows' = [rows EXCEPT ![t].running = FALSE]
  <2>1. rows' = rows
    BY <1>2, <1>4
  <2>2. QED  BY <1>3, <2>1
<1>5. CASE /\ t \in Tunnels /\ rows[t] # Nil
           /\ rows' = [rows EXCEPT ![t].running = FALSE]
  BY <1>1, <1>2, <1>5, ZeroIsBytes, FALSE \in BOOLEAN, RowsStay, RowsKeep
<1>6. QED  BY <1>1, <1>3, <1>4, <1>5

LEMMA OutsideKeeps ==
    ASSUME IInv, NEW t \in Tunnels,
           \/ Appear(t) \/ Carry(t) \/ InstanceRestarts(t)
           \/ InstanceStarts(t) \/ Told(t)
    PROVE  IInv' /\ Accounts
<1>1. UNCHANGED <<sub, links>>
  BY DEF Appear, Carry, InstanceRestarts, InstanceStarts, Told, Outside
<1>2. /\ rows \in [Tunnels -> Row \cup {Nil}] /\ portal \in [Tunnels -> BOOLEAN]
      /\ rows[t] # Nil => rows[t].count \in Nat
  BY SubscriptionAssumption DEF IInv, TablesOK, Row, Bytes
<1>3. CASE Appear(t)
  <2>1. PICK running \in BOOLEAN, count \in {0, 1} :
          /\ rows' = [rows EXCEPT ![t] = [count |-> count, running |-> running]]
          /\ portal' = [portal EXCEPT ![t] = running]
    BY <1>3 DEF Appear
  <2>2. [count |-> count, running |-> running] \in Row
    BY SubscriptionAssumption DEF Row, Bytes
  <2>3. QED  BY <1>1, <1>2, <2>1, <2>2, RowsKeep
<1>4. CASE Carry(t)
  <2>1. /\ rows' = [rows EXCEPT ![t].count = rows[t].count + 1]
        /\ rows[t] # Nil /\ portal' = portal /\ rows[t].count + 1 \in Bytes
    BY <1>2, <1>4, SubscriptionAssumption DEF Carry, Bytes
  <2>2. QED  BY <1>1, <1>2, <2>1, TRUE \in BOOLEAN, RowsStay, RowsKeep
<1>5. CASE InstanceRestarts(t)
  <2>1. /\ rows' = [rows EXCEPT ![t].count = 0] /\ rows[t] # Nil
        /\ portal' = portal /\ 0 \in Bytes
    BY <1>5, ZeroIsBytes DEF InstanceRestarts
  <2>2. QED  BY <1>1, <1>2, <2>1, TRUE \in BOOLEAN, RowsStay, RowsKeep
<1>6. CASE InstanceStarts(t)
  <2>1. rows' = rows /\ portal' = [portal EXCEPT ![t] = TRUE]
    BY <1>6 DEF InstanceStarts, Outside
  <2>2. QED  BY <1>1, <1>2, <2>1, RowsKeep
<1>7. CASE Told(t)
  <2>1. /\ rows' = [rows EXCEPT ![t].running = portal[t]] /\ rows[t] # Nil
        /\ portal' = portal /\ portal[t] \in BOOLEAN
    BY <1>2, <1>7 DEF Told
  <2>2. QED  BY <1>1, <1>2, <2>1, ZeroIsBytes, RowsStay, RowsKeep
<1>8. QED  BY <1>3, <1>4, <1>5, <1>6, <1>7

LEMMA InitIInv == Init => IInv
<1> SUFFICES ASSUME Init PROVE IInv
  OBVIOUS
<1>1. /\ sub = Nil /\ links = [t \in Tunnels |-> Nil]
      /\ rows = [t \in Tunnels |-> Nil] /\ portal = [t \in Tunnels |-> FALSE]
  BY DEF Init
<1>2. QED  BY <1>1 DEF IInv, SubOK, TablesOK, LinkedExists

LEMMA NextIInv == IInv /\ [Next]_vars => IInv' /\ Accounts
<1> SUFFICES ASSUME IInv, [Next]_vars PROVE IInv' /\ Accounts
  OBVIOUS
<1>1. CASE UNCHANGED <<sub, links, rows, portal>>
  BY <1>1, RowsKeep DEF IInv, TablesOK
<1>2. CASE \E p \in Goroutines : Account(p)
  BY <1>2, AccountKeeps
<1>3. CASE \E p \in Goroutines : Change(p)
  BY <1>3, CreateKeeps, UpdateKeeps, ResetKeeps, DeleteKeeps, RemoveKeeps
     DEF Change
<1>4. CASE \E p \in Goroutines : MarkStopped(p)
  BY <1>4, MarkKeeps
<1>5. CASE \E p \in Goroutines, t \in Tunnels :
               StopInstance(p, t) \/ StopFails(p, t)
  BY <1>5, StopKeeps
<1>6. CASE \E t \in Tunnels : \/ Appear(t) \/ Carry(t) \/ InstanceRestarts(t)
                              \/ InstanceStarts(t) \/ Told(t)
  BY <1>6, OutsideKeeps
<1>7. CASE \/ EnforceAll \/ Tick
           \/ \E p \in Goroutines :
                 \/ Judge(p) \/ List(p) \/ Fails(p)
                 \/ \E op \in Ops : Request(p, op)
                 \/ \E t \in Tunnels : RequestRemove(p, t)
  <2>1. UNCHANGED <<sub, links, rows, portal>>
    BY <1>7 DEF EnforceAll, Tick, Outside, Judge, List, Fails, Request,
                RequestRemove, Begin
  <2>2. QED  BY <1>1, <2>1
<1>8. CASE UNCHANGED vars
  BY <1>1, <1>8 DEF vars
<1>9. QED
  BY <1>2, <1>3, <1>4, <1>5, <1>6, <1>7, <1>8 DEF Next

-----------------------------------------------------------------------------
\* Accounting, edits of the limit and resets interleave in any order, and any
\* of them may fail: the flag that EnforceEntitlement and the list rely on is
\* that of the usage and the limit stored beside it.
THEOREM OverFlagIsCurrent == Spec => []OverIsCurrent
<1>1. IInv => OverIsCurrent
  BY DEF IInv, SubOK, OverIsCurrent
<1>2. QED  BY <1>1, InitIInv, NextIInv, PTL DEF Spec

\* However counters restart and links come and go, a link that stays loses
\* nothing it has accounted, except in a reset of the subscription.
THEOREM AccountMonotone == Spec => AccountNeverShrinks
<1>1. IInv /\ [Next]_vars =>
        [\A t \in Tunnels :
            links[t] # Nil /\ links'[t] # Nil
            => \/ links'[t].accounted >= links[t].accounted
               \/ sub'.used = 0 /\ links'[t] = NewLink(t)]_vars
  BY NextIInv DEF Accounts
<1>2. QED  BY <1>1, InitIInv, NextIInv, PTL DEF Spec, AccountNeverShrinks

-----------------------------------------------------------------------------
(* Types.  The counters of links and rows stay below MaxInt64 because each *)
(* is a copy of a counter that does.                                       *)

ClocksOK == now \in 0 .. MaxTime /\ shown \in 0 .. MaxShown

Process == [plan : Seq(Phases), todo : SUBSET Tunnels,
            stopped : Tunnels \cup {Nil}, tunnel : Tunnels \cup {Nil}]
ProcOK == proc \in [Goroutines -> Process]

LEMMA TypeOKParts == IInv /\ ClocksOK /\ ProcOK => TypeOK
BY DEF IInv, SubOK, TablesOK, ClocksOK, ProcOK, Process, TypeOK, SubRow, Link,
       Row, Expiries

LEMMA PlansAreSequences ==
    ASSUME NEW op \in Ops
    PROVE  Plan(op) \in Seq(Phases)
<1>1. CASE op = "look"
  BY <1>1 DEF Plan, Phases
<1>2. CASE op = "create"
  BY <1>2 DEF Plan, Phases
<1>3. CASE op = "update"
  BY <1>3 DEF Plan, Phases
<1>4. CASE op = "reset"
  BY <1>4 DEF Plan, Phases
<1>5. CASE op = "delete"
  BY <1>5 DEF Plan, Phases
<1>6. QED  BY <1>1, <1>2, <1>3, <1>4, <1>5 DEF Ops

LEMMA NextProcess ==
    ASSUME ProcOK, NEW p \in Goroutines,
           \/ proc' = proc
           \/ \E r \in Process : proc' = [proc EXCEPT ![p] = r]
    PROVE  ProcOK'
BY DEF ProcOK

LEMMA IdleIsProcess == Idle \in Process
BY DEF Idle, Process

LEMMA AdvanceKeeps ==
    ASSUME ProcOK, NEW p \in Goroutines, proc[p].plan # << >>, Advance(p)
    PROVE  ProcOK'
<1>1. proc[p] \in Process /\ proc[p].plan \in Seq(Phases)
  BY DEF ProcOK, Process
<1>2. Tail(proc[p].plan) \in Seq(Phases)
  BY <1>1, HeadTailProperties
<1>3. [proc[p] EXCEPT !.plan = Tail(proc[p].plan), !.todo = {},
                      !.stopped = Nil] \in Process
  BY <1>1, <1>2 DEF Process
<1>4. \E r \in Process : proc' = [proc EXCEPT ![p] = r]
  BY <1>3, IdleIsProcess DEF Advance
<1>5. QED  BY <1>4, NextProcess

LEMMA BecomeKeeps ==
    ASSUME ProcOK, NEW p \in Goroutines, proc[p].plan # << >>,
           NEW phase \in Phases, NEW todo \in SUBSET Tunnels,
           Become(p, phase, todo)
    PROVE  ProcOK'
<1>1. proc[p] \in Process /\ proc[p].plan \in Seq(Phases)
  BY DEF ProcOK, Process
<1>2. Tail(proc[p].plan) \in Seq(Phases)
  BY <1>1, HeadTailProperties
<1> DEFINE plan == <<phase>> \o Tail(proc[p].plan)
<1>3. plan \in Seq(Phases)
  BY <1>2
<1>4. proc' = [proc EXCEPT ![p].plan = plan, ![p].todo = todo,
                           ![p].stopped = Nil]
  BY DEF Become
<1> HIDE DEF plan
<1>5. [proc[p] EXCEPT !.plan = plan, !.todo = todo, !.stopped = Nil] \in Process
  BY <1>1, <1>3 DEF Process
<1>6. proc' = [proc EXCEPT ![p] = [proc[p] EXCEPT !.plan = plan, !.todo = todo,
                                                  !.stopped = Nil]]
  BY <1>4 DEF ProcOK
<1>7. QED  BY <1>5, <1>6, NextProcess

LEMMA DoneKeeps ==
    ASSUME ProcOK, NEW p \in Goroutines, proc[p].plan # << >>, NEW t, Done(p, t)
    PROVE  ProcOK'
<1>1. proc[p] \in Process
  BY DEF ProcOK
<1>2. [proc[p] EXCEPT !.todo = proc[p].todo \ {t}, !.stopped = Nil] \in Process
  BY <1>1 DEF Process
<1>3. \/ Advance(p)
      \/ proc' = [proc EXCEPT ![p] = [proc[p] EXCEPT
                                         !.todo = proc[p].todo \ {t},
                                         !.stopped = Nil]]
  BY DEF Done, ProcOK
<1>4. QED  BY <1>2, <1>3, NextProcess, AdvanceKeeps

LEMMA BeginKeeps ==
    ASSUME ProcOK, NEW p \in Goroutines, NEW plan \in Seq(Phases),
           NEW t \in Tunnels \cup {Nil}, Begin(p, plan, t)
    PROVE  ProcOK'
<1>1. [Idle EXCEPT !.plan = plan, !.tunnel = t] \in Process
  BY DEF Idle, Process
<1>2. QED  BY <1>1, NextProcess DEF Begin

LEMMA ProcTyped ==
    ASSUME ProcOK, [Next]_vars
    PROVE  ProcOK'
<1>1. CASE EnforceAll
  BY <1>1, PlansAreSequences, BeginKeeps DEF EnforceAll, Goroutines, Ops
<1>2. ASSUME NEW p \in Goroutines, NEW op \in Ops, Request(p, op) PROVE ProcOK'
  BY <1>2, PlansAreSequences, BeginKeeps DEF Request
<1>3. ASSUME NEW p \in Goroutines, NEW t \in Tunnels, RequestRemove(p, t)
      PROVE  ProcOK'
  <2>1. <<"remove">> \in Seq(Phases) /\ <<"account", "remove">> \in Seq(Phases)
    BY DEF Phases
  <2>2. QED  BY <1>3, <2>1, BeginKeeps DEF RequestRemove
<1>4. ASSUME NEW p \in Goroutines, Account(p) \/ Change(p) \/ Fails(p)
      PROVE  ProcOK'
  <2>1. proc[p].plan # << >> /\ (Advance(p) \/ Abort(p))
    BY <1>4 DEF Account, Change, Create, Update, Reset, Delete, Remove, At,
                Fails
  <2>2. QED  BY <2>1, AdvanceKeeps, NextProcess, IdleIsProcess DEF Abort
<1>5. ASSUME NEW p \in Goroutines, Judge(p) \/ List(p)
      PROVE  ProcOK'
  <2>1. /\ proc[p].plan # << >>
        /\ \/ Advance(p) \/ Become(p, "list", {})
           \/ Become(p, "stop", {t \in Linked : rows[t].running})
    BY <1>5 DEF Judge, List, At
  <2>2. /\ {t \in Linked : rows[t].running} \in SUBSET Tunnels
        /\ {} \in SUBSET Tunnels /\ "list" \in Phases /\ "stop" \in Phases
    BY DEF Linked, Phases
  <2>3. QED  BY <2>1, <2>2, AdvanceKeeps, BecomeKeeps
<1>6. ASSUME NEW p \in Goroutines, NEW t \in Tunnels,
             StopInstance(p, t) \/ StopFails(p, t)
      PROVE  ProcOK'
  <2>1. CASE StopInstance(p, t)
    <3>1. proc[p] \in Process
      BY DEF ProcOK
    <3>2. [proc[p] EXCEPT !.stopped = t] \in Process
      BY <3>1 DEF Process
    <3>3. proc' = [proc EXCEPT ![p] = [proc[p] EXCEPT !.stopped = t]]
      BY <2>1 DEF StopInstance, ProcOK
    <3>4. QED  BY <3>2, <3>3, NextProcess
  <2>2. CASE StopFails(p, t)
    BY <2>2, DoneKeeps DEF StopFails, At
  <2>3. QED  BY <1>6, <2>1, <2>2
<1>7. ASSUME NEW p \in Goroutines, MarkStopped(p) PROVE ProcOK'
  BY <1>7, DoneKeeps DEF MarkStopped, At
<1>8. CASE UNCHANGED proc
  BY <1>8 DEF ProcOK
<1>9. CASE Tick \/ \E t \in Tunnels : \/ Appear(t) \/ Carry(t)
                                      \/ InstanceRestarts(t)
                                      \/ InstanceStarts(t) \/ Told(t)
  BY <1>8, <1>9 DEF Tick, Appear, Carry, InstanceRestarts, InstanceStarts,
                    Told, Outside
<1>10. CASE UNCHANGED vars
  BY <1>8, <1>10 DEF vars
<1>11. QED
  BY <1>1, <1>2, <1>3, <1>4, <1>5, <1>6, <1>7, <1>9, <1>10 DEF Next

LEMMA ClocksTyped ==
    ASSUME ClocksOK, [Next]_vars
    PROVE  ClocksOK'
<1>1. 0 \in 0 .. MaxShown /\ MaxShown \in Nat /\ MaxTime \in Nat
  BY SubscriptionAssumption
<1>2. CASE Tick
  BY <1>1, <1>2 DEF Tick, ClocksOK
<1>3. CASE UNCHANGED <<now, shown>>
  BY <1>3 DEF ClocksOK
<1>4. CASE \E p \in Goroutines : Create(p) \/ Reset(p) \/ Delete(p)
  BY <1>1, <1>4 DEF Create, Reset, Delete, ClocksOK
<1>5. CASE \E t \in Tunnels : Carry(t)
  BY <1>1, <1>5 DEF Carry, ClocksOK
<1>6. CASE EnforceAll \/ \E p \in Goroutines :
                            \/ Account(p) \/ Judge(p) \/ List(p)
                            \/ MarkStopped(p) \/ Fails(p)
  BY <1>3, <1>6 DEF EnforceAll, Begin, Account, Judge, List, MarkStopped, Fails
<1>7. CASE \E p \in Goroutines :
              \/ Update(p) \/ Remove(p)
              \/ \E op \in Ops : Request(p, op)
              \/ \E t \in Tunnels :
                    RequestRemove(p, t) \/ StopInstance(p, t) \/ StopFails(p, t)
  BY <1>3, <1>7 DEF Update, Remove, Request, RequestRemove, Begin, StopInstance,
                    StopFails
<1>8. CASE \E t \in Tunnels : \/ Appear(t) \/ InstanceRestarts(t)
                              \/ InstanceStarts(t) \/ Told(t)
  BY <1>3, <1>8 DEF Appear, InstanceRestarts, InstanceStarts, Told
<1>9. CASE UNCHANGED vars
  BY <1>3, <1>9 DEF vars
<1>10. QED
  BY <1>2, <1>4, <1>5, <1>6, <1>7, <1>8, <1>9 DEF Next, Change

LEMMA InitTyped == Init => ClocksOK /\ ProcOK
BY SubscriptionAssumption, IdleIsProcess DEF Init, ClocksOK, ProcOK

\* Every variable has its type: counters and usage stay below MaxInt64, and a
\* request never stops or removes what is no tunnel.
THEOREM TypeCorrect == Spec => []TypeOK
<1>1. Init => IInv /\ ClocksOK /\ ProcOK
  BY InitIInv, InitTyped
<1>2. IInv /\ ClocksOK /\ ProcOK /\ [Next]_vars
      => (IInv /\ ClocksOK /\ ProcOK)'
  BY NextIInv, ClocksTyped, ProcTyped
<1>3. QED  BY <1>1, <1>2, TypeOKParts, PTL DEF Spec

-----------------------------------------------------------------------------
(* What users are charged. *)

\* Links go with their subscription.
NoLinkAlone == sub = Nil => \A t \in Tunnels : links[t] = Nil

\* What is still unseen will not overcharge either.
Charged == sub # Nil => sub.used + Total(Unseen, Tunnels) <= shown

Covered == sub # Nil => sub.used >= Cap \/ sub.used >= Total(Accounted, Tunnels)

SumInv == IInv /\ ClocksOK /\ NoLinkAlone /\ Charged /\ Covered

LEMMA SumFacts ==
    ASSUME SumInv
    PROVE  /\ Unseen \in [Tunnels -> Nat] /\ Accounted \in [Tunnels -> Nat]
           /\ Total(Unseen, Tunnels) \in Nat
           /\ Total(Accounted, Tunnels) \in Nat
           /\ Cap \in Nat /\ shown \in Nat /\ IsFiniteSet(Tunnels)
           /\ sub # Nil => sub.used \in Nat /\ sub.used <= Cap
BY SummandsAreNat, TotalsAreNat, SubscriptionAssumption
   DEF SumInv, IInv, SubOK, SubRow, Bytes, ClocksOK

LEMMA SumProperties == SumInv => NeverOvercharged /\ UsedCoversLinks
<1> SUFFICES ASSUME SumInv PROVE NeverOvercharged /\ UsedCoversLinks
  OBVIOUS
<1>1. NeverOvercharged
  BY SumFacts DEF SumInv, Charged, NeverOvercharged
<1>2. ASSUME NEW a \in Nat, NEW u \in Nat, u >= Cap \/ u >= a
      PROVE  u >= Min({Cap, a})
  <2>1. Cap \in Nat
    BY SubscriptionAssumption
  <2>2. \E m \in {Cap, a} : \A n \in {Cap, a} : m <= n
    BY <2>1
  <2>3. Min({Cap, a}) \in {Cap, a} /\ \A n \in {Cap, a} : Min({Cap, a}) <= n
    BY <2>2 DEF Min
  <2>4. QED  BY <1>2, <2>1, <2>3
<1>3. UsedCoversLinks
  BY <1>2, SumFacts, LinksAreAccounted DEF SumInv, Covered, UsedCoversLinks
<1>4. QED  BY <1>1, <1>3

-----------------------------------------------------------------------------
(* What the steps do to the sums. *)

SumsDefined ==
    /\ Unseen \in [Tunnels -> Nat] /\ Accounted \in [Tunnels -> Nat]
    /\ Total(Unseen, Tunnels) \in Nat /\ Total(Accounted, Tunnels) \in Nat

LEMMA SumsAreDefined == IInv => SumsDefined
BY SummandsAreNat, TotalsAreNat DEF SumsDefined

LEMMA SumsStayDefined == IInv' => SumsDefined'
BY SumsAreDefined, PTL

\* The summands after a step.
LEMMA NextSummands ==
    ASSUME IInv'
    PROVE  /\ Unseen' \in [Tunnels -> Nat] /\ Accounted' \in [Tunnels -> Nat]
           /\ Total(Unseen', Tunnels) \in Nat
           /\ Total(Accounted', Tunnels) \in Nat
           /\ \A t \in Tunnels :
                 /\ links'[t] = Nil => Unseen'[t] = 0 /\ Accounted'[t] = 0
                 /\ links'[t] # Nil =>
                       /\ Unseen'[t] = IF rows'[t].count > links'[t].last
                                       THEN rows'[t].count - links'[t].last
                                       ELSE 0
                       /\ Accounted'[t] = links'[t].accounted
BY SumsStayDefined DEF SumsDefined, Unseen, Accounted, Delta

LEMMA Summands ==
    ASSUME NEW t \in Tunnels
    PROVE  /\ links[t] = Nil => Unseen[t] = 0 /\ Accounted[t] = 0
           /\ links[t] # Nil =>
                 /\ Unseen[t] = IF rows[t].count > links[t].last
                                THEN rows[t].count - links[t].last ELSE 0
                 /\ Unseen[t] = Delta(t)
                 /\ Accounted[t] = links[t].accounted
BY DEF Unseen, Accounted, Delta

\* Steps that leave the usage alone and no more to be observed.
LEMMA SumsStay ==
    ASSUME SumInv, IInv', ClocksOK', NoLinkAlone', shown' = shown,
           \/ sub' = Nil
           \/ sub # Nil /\ sub'.used = sub.used,
           \A t \in Tunnels : /\ Unseen'[t] <= Unseen[t]
                              /\ Accounted'[t] <= Accounted[t]
    PROVE  SumInv'
<1>1. /\ Total(Unseen', Tunnels) <= Total(Unseen, Tunnels)
      /\ Total(Accounted', Tunnels) <= Total(Accounted, Tunnels)
  BY SumFacts, NextSummands, TotalMonotone
<1>2. Charged'
  BY <1>1, SumFacts, NextSummands DEF SumInv, Charged
<1>3. Covered'
  BY <1>1, SumFacts, NextSummands DEF SumInv, Covered
<1>4. QED  BY <1>2, <1>3 DEF SumInv

\* Steps after which nothing is accounted and nothing is unseen.
LEMMA SumsVanish ==
    ASSUME SumInv, IInv', ClocksOK', NoLinkAlone',
           sub' # Nil => sub'.used = 0,
           \A t \in Tunnels : Unseen'[t] = 0 /\ Accounted'[t] = 0
    PROVE  SumInv'
<1>1. Total(Unseen', Tunnels) = 0 /\ Total(Accounted', Tunnels) = 0
  BY SumFacts, NextSummands, TotalOfZeros
<1>2. shown' \in Nat
  BY SubscriptionAssumption DEF ClocksOK
<1>3. Charged' /\ Covered'
  BY <1>1, <1>2 DEF Charged, Covered
<1>4. QED  BY <1>3 DEF SumInv
-----------------------------------------------------------------------------
(* Action by action. *)

\* A subscription row is there.
LEMMA SubRowIsThere == Nil \notin SubRow
BY SubscriptionAssumption DEF SubRow, Bytes, Expiries

\* What was unseen is accounted and charged.
LEMMA AccountCharges ==
    ASSUME SumInv, IInv', ClocksOK', NEW p, Account(p), sub # Nil
    PROVE  SumInv'
<1> DEFINE used == Add(sub.used, MapThenSumSet(Delta, Linked))
<1>1. /\ sub' = [sub EXCEPT !.used = used, !.over = IsOver(used, sub.limit)]
      /\ links' = [t \in Tunnels |-> IF t \in Linked THEN Observe(t) ELSE Nil]
      /\ rows' = rows /\ shown' = shown
  BY DEF Account
<1>2. sub \in SubRow /\ sub.used \in Bytes
  BY DEF SumInv, IInv, SubOK, SubRow
<1>3. sub'.used = used /\ sub' # Nil
  <2>1. Total(Unseen, Tunnels) \in Nat
    BY SumFacts
  <2>2. used \in Bytes
    BY <1>2, <2>1, DeltasAreUnseen, AddFacts DEF SumInv
  <2> HIDE DEF used
  <2>3. sub' \in SubRow /\ sub'.used = used
    BY <1>1, <1>2, <2>2 DEF SubRow, IsOver
  <2>4. QED  BY <2>3, SubRowIsThere
<1>4. used = IF sub.used + Total(Unseen, Tunnels) <= Cap
             THEN sub.used + Total(Unseen, Tunnels) ELSE Cap
  BY <1>2, DeltasAreUnseen, SumFacts, AddIs DEF SumInv
<1> HIDE DEF used
<1>5. \A t \in Tunnels : /\ Unseen'[t] = 0
                         /\ Accounted'[t] <= Accounted[t] + Unseen[t]
  <2> SUFFICES ASSUME NEW t \in Tunnels
               PROVE  /\ Unseen'[t] = 0
                      /\ Accounted'[t] <= Accounted[t] + Unseen[t]
    OBVIOUS
  <2>1. Unseen[t] \in Nat /\ Accounted[t] \in Nat
    BY SumFacts
  <2>2. CASE links'[t] = Nil
    BY <2>1, <2>2, NextSummands
  <2>3. CASE links'[t] # Nil
    <3>1. links'[t] = Observe(t) /\ links[t] # Nil
      BY <1>1, <2>3 DEF Linked
    <3>2. rows[t] \in Row /\ links[t] \in Link
      BY <3>1 DEF SumInv, IInv, LinkedExists, TablesOK
    <3>3. /\ rows[t].count \in Nat /\ links[t].accounted \in Bytes
          /\ Delta(t) \in Nat
      BY <3>1, <3>2, SummandsAreNat, SubscriptionAssumption
         DEF SumInv, Row, Link, Bytes
    <3>4. Add(links[t].accounted, Delta(t)) <= links[t].accounted + Delta(t)
      BY <3>3, AddIs, SubscriptionAssumption DEF Bytes
    <3>5. /\ links'[t].last = rows[t].count
          /\ links'[t].accounted = Add(links[t].accounted, Delta(t))
      BY <3>1 DEF Observe
    <3>6. QED  BY <1>1, <2>3, <3>1, <3>3, <3>4, <3>5, NextSummands, Summands
  <2>4. QED  BY <2>2, <2>3
<1>6. /\ Total(Unseen', Tunnels) = 0
      /\ Total(Accounted', Tunnels)
         <= Total(Accounted, Tunnels) + Total(Unseen, Tunnels)
  BY <1>5, SumFacts, NextSummands, TotalOfZeros, TotalOfSum
<1>7. Charged'
  BY <1>1, <1>3, <1>4, <1>6, SumFacts DEF SumInv, Charged
<1>8. Covered'
  BY <1>3, <1>4, <1>6, SumFacts, NextSummands DEF SumInv, Covered
<1>9. QED  BY <1>3, <1>7, <1>8 DEF SumInv, NoLinkAlone

\* Counters in the hands of others: only Carry shows more.
LEMMA CountersFall ==
    ASSUME SumInv, IInv', ClocksOK', UNCHANGED <<sub, links, shown>>,
           \A t \in Tunnels : links[t] # Nil =>
               rows'[t].count \in Nat /\ rows'[t].count <= rows[t].count
    PROVE  SumInv'
<1>1. NoLinkAlone'
  BY DEF SumInv, NoLinkAlone
<1>2. \A t \in Tunnels : /\ Unseen'[t] <= Unseen[t]
                         /\ Accounted'[t] <= Accounted[t]
  <2> SUFFICES ASSUME NEW t \in Tunnels
               PROVE  /\ Unseen'[t] <= Unseen[t]
                      /\ Accounted'[t] <= Accounted[t]
    OBVIOUS
  <2>1. Unseen[t] \in Nat /\ Accounted[t] \in Nat
    BY SumFacts
  <2>2. CASE links[t] = Nil
    BY <2>1, <2>2, NextSummands
  <2>3. CASE links[t] # Nil
    <3>1. rows[t].count \in Nat /\ links[t].last \in Nat
      BY <2>3, SubscriptionAssumption
         DEF SumInv, IInv, LinkedExists, TablesOK, Row, Link, Bytes
    <3>2. QED  BY <2>1, <2>3, <3>1, NextSummands, Summands
  <2>4. QED  BY <2>2, <2>3
<1>3. sub' = Nil \/ (sub # Nil /\ sub'.used = sub.used)
  OBVIOUS
<1>4. QED  BY <1>1, <1>2, <1>3, SumsStay

LEMMA CarryCharges ==
    ASSUME SumInv, IInv', ClocksOK', NEW t \in Tunnels, Carry(t)
    PROVE  SumInv'
<1>1. /\ rows' = [rows EXCEPT ![t].count = rows[t].count + 1] /\ rows[t] # Nil
      /\ shown' = IF t \in Linked THEN shown + 1 ELSE shown
      /\ UNCHANGED <<sub, links>>
  BY DEF Carry, Outside
<1>2. /\ rows \in [Tunnels -> Row \cup {Nil}] /\ rows[t] \in Row
      /\ rows[t].count \in Nat
      /\ \A u \in Tunnels : links[u] # Nil => rows[u].count \in Nat
                                              /\ links[u].last \in Nat
  BY <1>1, SubscriptionAssumption
     DEF SumInv, IInv, TablesOK, LinkedExists, Row, Link, Bytes
<1>3. /\ \A u \in Tunnels \ {t} : rows'[u] = rows[u]
      /\ rows'[t].count = rows[t].count + 1
  BY <1>1, <1>2 DEF Row
<1>4. CASE links[t] = Nil
  <2>1. shown' = shown
    BY <1>1, <1>4 DEF Linked
  <2>2. \A u \in Tunnels : links[u] # Nil =>
           rows'[u].count \in Nat /\ rows'[u].count <= rows[u].count
    BY <1>2, <1>3, <1>4
  <2>3. QED  BY <1>1, <2>1, <2>2, CountersFall
<1>5. CASE links[t] # Nil
  <2>1. shown' = shown + 1
    BY <1>1, <1>5 DEF Linked
  <2>2. /\ Unseen'[t] <= Unseen[t] + 1
        /\ \A u \in Tunnels \ {t} : Unseen'[u] <= Unseen[u]
    BY <1>1, <1>2, <1>3, <1>5, NextSummands, Summands
  <2>3. \A u \in Tunnels : Accounted'[u] <= Accounted[u]
    <3> SUFFICES ASSUME NEW u \in Tunnels PROVE Accounted'[u] <= Accounted[u]
      OBVIOUS
    <3>1. Accounted[u] \in Nat
      BY SumFacts
    <3>2. Accounted'[u] = Accounted[u]
      BY <1>1, NextSummands, Summands
    <3>3. QED  BY <3>1, <3>2
  <2>4. Total(Accounted', Tunnels) <= Total(Accounted, Tunnels)
    BY <2>3, SumFacts, NextSummands, TotalMonotone
  <2>5. Total(Unseen', Tunnels) <= Total(Unseen, Tunnels) + 1
    BY <2>2, SumFacts, NextSummands, TotalOfOneMore
  <2>6. Charged'
    BY <1>1, <2>1, <2>5, SumFacts, NextSummands DEF SumInv, Charged
  <2>7. Covered'
    BY <1>1, <2>4, SumFacts, NextSummands DEF SumInv, Covered
  <2>8. NoLinkAlone'
    BY <1>1 DEF SumInv, NoLinkAlone
  <2>9. QED  BY <2>6, <2>7, <2>8 DEF SumInv
<1>6. QED  BY <1>4, <1>5

\* Links come at the counter they find, and go with their account.
LEMMA ReplaceCharges ==
    ASSUME SumInv, IInv', NEW wanted \in SUBSET Existing, Replace(wanted),
           rows' = rows
    PROVE  \A t \in Tunnels :
              /\ Unseen'[t] <= Unseen[t] /\ Accounted'[t] <= Accounted[t]
              /\ links[t] = Nil => Unseen'[t] = 0 /\ Accounted'[t] = 0
<1> SUFFICES ASSUME NEW t \in Tunnels
             PROVE  /\ Unseen'[t] <= Unseen[t] /\ Accounted'[t] <= Accounted[t]
                    /\ links[t] = Nil => Unseen'[t] = 0 /\ Accounted'[t] = 0
  OBVIOUS
<1>1. Unseen[t] \in Nat /\ Accounted[t] \in Nat
  BY SumFacts
<1>2. CASE links'[t] = Nil
  BY <1>1, <1>2, NextSummands
<1>3. CASE links'[t] # Nil /\ links[t] # Nil
  <2>1. links'[t] = links[t]
    BY <1>3, ReplacedLinks DEF SumInv
  <2>2. Unseen'[t] = Unseen[t] /\ Accounted'[t] = Accounted[t]
    BY <1>3, <2>1, NextSummands, Summands
  <2>3. QED  BY <1>1, <1>3, <2>2
<1>4. CASE links'[t] # Nil /\ links[t] = Nil
  <2>1. links'[t] = NewLink(t) /\ rows[t] \in Row
    BY <1>4, ReplacedLinks DEF SumInv, Replace, Linked
  <2>2. rows[t].count \in Nat
    BY <2>1, SubscriptionAssumption DEF Row, Bytes
  <2>3. Unseen'[t] = 0 /\ Accounted'[t] = 0
    BY <1>4, <2>1, <2>2, NextSummands DEF NewLink
  <2>4. QED  BY <1>1, <2>3
<1>5. QED  BY <1>2, <1>3, <1>4

LEMMA CreateCharges ==
    ASSUME SumInv, IInv', ClocksOK', NEW p, Create(p)
    PROVE  SumInv'
<1>1. PICK limit \in Limits, expires \in Expiries, ids \in SUBSET Existing :
         /\ sub' = [used |-> 0, limit |-> limit, over |-> FALSE,
                    expires |-> expires]
         /\ Replace(ids)
  BY DEF Create
<1>2. sub' \in SubRow /\ sub'.used = 0
  BY <1>1, ZeroIsBytes DEF SubRow
<1>3. NoLinkAlone'
  BY <1>2, SubRowIsThere DEF NoLinkAlone
<1>4. \A t \in Tunnels : Unseen'[t] = 0 /\ Accounted'[t] = 0
  BY <1>1, ReplaceCharges DEF Create, SumInv, NoLinkAlone
<1>5. QED  BY <1>2, <1>3, <1>4, SumsVanish

LEMMA UpdateCharges ==
    ASSUME SumInv, IInv', ClocksOK', NEW p, Update(p)
    PROVE  SumInv'
<1>1. PICK limit \in Limits, expires \in Expiries, ids \in SUBSET Existing :
         /\ sub' = [sub EXCEPT !.limit = limit, !.expires = expires,
                               !.over = IsOver(sub.used, limit)]
         /\ Replace(ids)
  BY DEF Update
<1>2. sub \in SubRow /\ sub # Nil /\ rows' = rows /\ shown' = shown
  BY DEF Update, SumInv, IInv, SubOK
<1>3. sub' \in SubRow /\ sub'.used = sub.used
  BY <1>1, <1>2 DEF SubRow, IsOver
<1>4. NoLinkAlone'
  BY <1>3, SubRowIsThere DEF NoLinkAlone
<1>5. QED  BY <1>1, <1>2, <1>3, <1>4, ReplaceCharges, SumsStay

LEMMA ResetCharges ==
    ASSUME SumInv, IInv', ClocksOK', NEW p, Reset(p)
    PROVE  SumInv'
<1>1. /\ sub' = [sub EXCEPT !.used = 0, !.over = FALSE] /\ sub \in SubRow
      /\ links' = [t \in Tunnels |-> IF t \in Linked THEN NewLink(t) ELSE Nil]
      /\ rows' = rows
  BY DEF Reset, SumInv, IInv, SubOK
<1>2. sub' \in SubRow /\ sub'.used = 0
  BY <1>1, ZeroIsBytes DEF SubRow
<1>3. NoLinkAlone'
  BY <1>2, SubRowIsThere DEF NoLinkAlone
<1>4. \A t \in Tunnels : Unseen'[t] = 0 /\ Accounted'[t] = 0
  <2> SUFFICES ASSUME NEW t \in Tunnels, links'[t] # Nil
               PROVE  Unseen'[t] = 0 /\ Accounted'[t] = 0
    BY NextSummands
  <2>1. links'[t] = NewLink(t) /\ links[t] # Nil
    BY <1>1 DEF Linked
  <2>2. rows[t].count \in Nat
    BY <2>1, SubscriptionAssumption
       DEF SumInv, IInv, LinkedExists, Row, Bytes
  <2>3. QED  BY <1>1, <2>1, <2>2, NextSummands DEF NewLink
<1>5. QED  BY <1>2, <1>3, <1>4, SumsVanish

LEMMA DeleteCharges ==
    ASSUME SumInv, IInv', ClocksOK', NEW p, Delete(p)
    PROVE  SumInv'
<1>1. sub' = Nil /\ \A t \in Tunnels : links'[t] = Nil
  BY DEF Delete
<1>2. NoLinkAlone'
  BY <1>1 DEF NoLinkAlone
<1>3. QED  BY <1>1, <1>2, NextSummands, SumsVanish

LEMMA RemoveCharges ==
    ASSUME SumInv, IInv', ClocksOK', NEW p, Remove(p)
    PROVE  SumInv'
<1> DEFINE t == proc[p].tunnel
<1>1. /\ rows' = [rows EXCEPT ![t] = Nil] /\ links' = [links EXCEPT ![t] = Nil]
      /\ sub' = sub /\ shown' = shown
  BY DEF Remove
<1> HIDE DEF t
<1>2. \A u \in Tunnels :
         links'[u] # Nil => links'[u] = links[u] /\ rows'[u] = rows[u]
  BY <1>1 DEF SumInv, IInv, TablesOK
<1>3. NoLinkAlone'
  BY <1>1, <1>2 DEF SumInv, NoLinkAlone
<1>4. \A u \in Tunnels : /\ Unseen'[u] <= Unseen[u]
                         /\ Accounted'[u] <= Accounted[u]
  <2> SUFFICES ASSUME NEW u \in Tunnels
               PROVE  /\ Unseen'[u] <= Unseen[u]
                      /\ Accounted'[u] <= Accounted[u]
    OBVIOUS
  <2>1. Unseen[u] \in Nat /\ Accounted[u] \in Nat
    BY SumFacts
  <2>2. CASE links'[u] = Nil
    BY <2>1, <2>2, NextSummands
  <2>3. CASE links'[u] # Nil
    <3>1. Unseen'[u] = Unseen[u] /\ Accounted'[u] = Accounted[u]
      BY <1>2, <2>3, NextSummands, Summands
    <3>2. QED  BY <2>1, <3>1
  <2>4. QED  BY <2>2, <2>3
<1>5. sub' = Nil \/ (sub # Nil /\ sub'.used = sub.used)
  BY <1>1
<1>6. QED  BY <1>1, <1>3, <1>4, <1>5, SumsStay

LEMMA OthersCharge ==
    ASSUME SumInv, IInv', ClocksOK', NEW t \in Tunnels,
           \/ Appear(t) \/ InstanceRestarts(t) \/ InstanceStarts(t) \/ Told(t)
    PROVE  SumInv'
<1>1. UNCHANGED <<sub, links, shown>>
  BY DEF Appear, InstanceRestarts, InstanceStarts, Told, Outside
<1>2. /\ rows \in [Tunnels -> Row \cup {Nil}]
      /\ \A u \in Tunnels : links[u] # Nil =>
            rows[u] \in Row /\ rows[u] # Nil /\ rows[u].count \in Nat
  <2>1. Nil \notin Row
    BY SubscriptionAssumption DEF Row, Bytes
  <2>2. QED
    BY <2>1, SubscriptionAssumption
       DEF SumInv, IInv, TablesOK, LinkedExists, Row, Bytes
<1>3. \A u \in Tunnels : links[u] # Nil =>
         rows'[u].count \in Nat /\ rows'[u].count <= rows[u].count
  <2> SUFFICES ASSUME NEW u \in Tunnels, links[u] # Nil
               PROVE  rows'[u].count \in Nat /\ rows'[u].count <= rows[u].count
    OBVIOUS
  <2>1. rows[u] \in Row /\ rows[u] # Nil /\ rows[u].count \in Nat
    BY <1>2
  <2>2. CASE Appear(t) /\ u # t
    BY <1>2, <2>1, <2>2 DEF Appear
  <2>3. CASE Appear(t) /\ u = t
    BY <2>1, <2>3 DEF Appear
  <2>4. CASE InstanceRestarts(t)
    <3>1. rows'[u] = IF u = t THEN [rows[u] EXCEPT !.count = 0] ELSE rows[u]
      BY <1>2, <2>4 DEF InstanceRestarts
    <3>2. QED  BY <2>1, <3>1 DEF Row
  <2>5. CASE InstanceStarts(t)
    BY <2>1, <2>5 DEF InstanceStarts
  <2>6. CASE Told(t)
    <3>1. rows'[u] = IF u = t THEN [rows[u] EXCEPT !.running = portal[t]]
                     ELSE rows[u]
      BY <1>2, <2>6 DEF Told
    <3>2. rows'[u].count = rows[u].count
      BY <2>1, <3>1 DEF Row
    <3>3. QED  BY <2>1, <3>2
  <2>7. QED  BY <2>2, <2>3, <2>4, <2>5, <2>6
<1>4. QED  BY <1>1, <1>3, CountersFall

LEMMA MarkCharges ==
    ASSUME SumInv, IInv', ClocksOK', NEW p, MarkStopped(p)
    PROVE  SumInv'
<1> DEFINE t == proc[p].stopped
<1>1. /\ UNCHANGED <<sub, links, shown>>
      /\ rows' = rows \/ rows' = [rows EXCEPT ![t].running = FALSE]
  BY DEF MarkStopped
<1> HIDE DEF t
<1>2. \A u \in Tunnels : links[u] # Nil =>
         rows'[u].count \in Nat /\ rows'[u].count <= rows[u].count
  <2> SUFFICES ASSUME NEW u \in Tunnels, links[u] # Nil
               PROVE  rows'[u].count \in Nat /\ rows'[u].count <= rows[u].count
    OBVIOUS
  <2>1. /\ rows \in [Tunnels -> Row \cup {Nil}]
        /\ rows[u] \in Row /\ rows[u].count \in Nat
    BY SubscriptionAssumption
       DEF SumInv, IInv, TablesOK, LinkedExists, Row, Bytes
  <2>2. \/ rows'[u] = rows[u]
        \/ rows'[u] = [rows[u] EXCEPT !.running = FALSE]
    BY <1>1, <2>1
  <2>3. rows'[u].count = rows[u].count
    BY <2>1, <2>2 DEF Row
  <2>4. QED  BY <2>1, <2>3
<1>3. QED  BY <1>1, <1>2, CountersFall

LEMMA NextSumInv ==
    ASSUME SumInv, [Next]_vars
    PROVE  SumInv'
<1>1. IInv' /\ ClocksOK'
  BY NextIInv, ClocksTyped DEF SumInv
<1>2. CASE UNCHANGED <<sub, links, rows, shown>>
  <2>1. \A t \in Tunnels : links[t] # Nil => rows[t].count \in Nat
    BY SubscriptionAssumption DEF SumInv, IInv, LinkedExists, Row, Bytes
  <2>2. \A t \in Tunnels : links[t] # Nil =>
           rows'[t].count \in Nat /\ rows'[t].count <= rows[t].count
    BY <1>2, <2>1
  <2>3. QED  BY <1>1, <1>2, <2>2, CountersFall
<1>3. ASSUME NEW p \in Goroutines, Account(p) PROVE SumInv'
  <2>1. CASE sub # Nil
    BY <1>1, <1>3, <2>1, AccountCharges
  <2>2. CASE sub = Nil
    BY <1>2, <1>3, <2>2 DEF Account
  <2>3. QED  BY <2>1, <2>2
<1>4. CASE \E p \in Goroutines : Change(p)
  BY <1>1, <1>4, CreateCharges, UpdateCharges, ResetCharges, DeleteCharges,
     RemoveCharges DEF Change
<1>5. CASE \E p \in Goroutines : MarkStopped(p)
  BY <1>1, <1>5, MarkCharges
<1>6. CASE \E t \in Tunnels : \/ Appear(t) \/ Carry(t) \/ InstanceRestarts(t)
                              \/ InstanceStarts(t) \/ Told(t)
  BY <1>1, <1>6, OthersCharge, CarryCharges
<1>7. CASE \/ EnforceAll \/ Tick
           \/ \E p \in Goroutines :
                 \/ Judge(p) \/ List(p) \/ Fails(p)
                 \/ \E op \in Ops : Request(p, op)
                 \/ \E t \in Tunnels : \/ RequestRemove(p, t)
                                       \/ StopInstance(p, t) \/ StopFails(p, t)
  <2>1. UNCHANGED <<sub, links, rows, shown>>
    BY <1>7 DEF EnforceAll, Tick, Outside, Judge, List, Fails, Request,
                RequestRemove, Begin, StopInstance, StopFails
  <2>2. QED  BY <1>2, <2>1
<1>8. CASE UNCHANGED vars
  BY <1>2, <1>8 DEF vars
<1>9. QED
  BY <1>3, <1>4, <1>5, <1>6, <1>7, <1>8 DEF Next

LEMMA InitSumInv == Init => SumInv
BY InitIInv, InitTyped DEF Init, SumInv, NoLinkAlone, Charged, Covered

-----------------------------------------------------------------------------
\* Nobody is charged twice, nor for what a Portal carried before it was
\* selected or the usage was reset: for any number of Portals and requests.
THEOREM Overcharge == Spec => []NeverOvercharged
<1>1. SumInv /\ [Next]_vars => SumInv'
  BY NextSumInv
<1>2. QED  BY <1>1, InitSumInv, SumProperties, PTL DEF Spec

\* The usage of a subscription covers what its links have accounted, whatever
\* links were added, kept and taken away.
THEOREM UsageCoversLinks == Spec => []UsedCoversLinks
<1>1. SumInv /\ [Next]_vars => SumInv'
  BY NextSumInv
<1>2. QED  BY <1>1, InitSumInv, SumProperties, PTL DEF Spec
=============================================================================
