----------------------------- MODULE SumTheorems -----------------------------
(***************************************************************************)
(* Induction over the natural numbers and over finite sets, stated for the *)
(* set of the numbers or sets that have a property, and what it shows of   *)
(* SumFunctionOnSet, the sum of the values of a function over a finite     *)
(* set.                                                                    *)
(***************************************************************************)
EXTENDS Integers, Functions, FiniteSets, FiniteSetTheorems, TLAPS

Below == {p \in Nat \X Nat : p[1] < p[2]}

LEMMA BelowWellFounded == IsWellFoundedOn(Below, Nat)
<1>1. OpToRel(<, Nat) = Below
    BY DEF OpToRel, Below
<1> QED
    BY <1>1, NatLessThanWellFounded

\* A nonempty set of natural numbers has a least one.
LEMMA LeastNumber ==
    ASSUME NEW T, T \subseteq Nat, T # {}
    PROVE  \E x \in T : \A y \in T : x <= y
<1>1. PICK x \in T : \A y \in T : ~ (<<y, x>> \in Below)
    BY BelowWellFounded, WFMin
<1>2. ASSUME NEW y \in T, y < x PROVE <<y, x>> \in Below
    BY <1>2 DEF Below
<1>3. \A y \in T : ~ (y < x)
    BY <1>1, <1>2
<1>4. QED
    BY <1>1, <1>3

\* Induction over the natural numbers, for the set S of those that have the
\* property.
LEMMA NumberInduction ==
    ASSUME NEW S, 0 \in S, \A n \in Nat : n \in S => n + 1 \in S
    PROVE  Nat \subseteq S
<1>1. SUFFICES ASSUME Nat \ S # {} PROVE FALSE
    OBVIOUS
<1>2. PICK x \in Nat \ S : \A y \in Nat \ S : x <= y
    BY <1>1, LeastNumber
<1>3. x # 0 /\ x - 1 \in Nat /\ ~ (x <= x - 1)
    BY <1>2
<1>4. x - 1 \in S
    BY <1>2, <1>3
<1>5. QED
    BY <1>2, <1>3, <1>4

\* Induction over the subsets of a finite set, for the set P of those that
\* have the property.
LEMMA SubsetInduction ==
    ASSUME NEW S, IsFiniteSet(S), NEW P,
           \A T \in SUBSET S : (\A U \in SUBSET T : U # T => U \in P) => T \in P
    PROVE  SUBSET S \subseteq P
<1>1. SUFFICES ASSUME (SUBSET S) \ P # {} PROVE FALSE
    OBVIOUS
<1>2. IsWellFoundedOn(StrictSubsetOrdering(S), SUBSET S)
    BY FS_StrictSubsetOrderingWellFounded, FS_FiniteSubsetsOfFinite
<1>3. PICK T \in (SUBSET S) \ P : \A U \in (SUBSET S) \ P : ~ (<<U, T>> \in StrictSubsetOrdering(S))
  <2> DEFINE B == (SUBSET S) \ P
  <2>1. B \subseteq SUBSET S /\ B # {}
      BY <1>1
  <2>2. SUFFICES \E T \in B : \A U \in B : ~ (<<U, T>> \in StrictSubsetOrdering(S))
      OBVIOUS
  <2> HIDE DEF B
  <2>3. QED
      BY <1>2, <2>1, WFMin
<1>4. ASSUME NEW U \in SUBSET T, U # T PROVE U \in P
  <2>1. <<U, T>> \in StrictSubsetOrdering(S) /\ U \in SUBSET S
      BY <1>3, <1>4 DEF StrictSubsetOrdering
  <2>2. QED
      BY <1>3, <2>1
<1>5. QED
    BY <1>3, <1>4

-----------------------------------------------------------------------------
\* The recursive function whose value at S is SumFunctionOnSet(f, S).
Some(s) == CHOOSE x \in s : TRUE
Term(f, g, s) == IF s = {} THEN 0 ELSE f[Some(s)] + g[s \ {Some(s)}]
Sums(f, S) == CHOOSE g : g = [s \in SUBSET S |-> Term(f, g, s)]

LEMMA SumIsSums ==
    ASSUME NEW f, NEW S
    PROVE  SumFunctionOnSet(f, S) = Sums(f, S)[S]
BY DEF SumFunctionOnSet, FoldFunctionOnSet, MapThenFoldSet, Sums, Term, Some

\* The subsets of S of up to n elements.
Small(S, n) == {s \in SUBSET S : Cardinality(s) <= n}

LEMMA SomeRemoved ==
    ASSUME NEW S, IsFiniteSet(S), NEW n \in Nat, NEW s \in Small(S, n + 1), s # {}
    PROVE  Some(s) \in s /\ s \ {Some(s)} \in Small(S, n)
<1>1. Some(s) \in s
    BY DEF Some
<1>2. IsFiniteSet(s) /\ Cardinality(s) \in Nat /\ Cardinality(s) <= n + 1
    BY FS_Subset, FS_CardinalityType DEF Small
<1>3. Cardinality(s \ {Some(s)}) = Cardinality(s) - 1
    BY <1>1, <1>2, FS_RemoveElement
<1>4. QED
    BY <1>1, <1>2, <1>3 DEF Small

LEMMA SmallGrows ==
    ASSUME NEW S, IsFiniteSet(S), NEW n \in Nat, NEW s \in Small(S, n)
    PROVE  s \in Small(S, n + 1)
<1>1. Cardinality(s) \in Nat
    BY FS_Subset, FS_CardinalityType DEF Small
<1>2. QED
    BY <1>1 DEF Small

\* The function exists, first for the subsets of no elements, then for those
\* of one more.
LEMMA SumsExist ==
    ASSUME NEW f, NEW S, IsFiniteSet(S)
    PROVE  \E g : g = [s \in SUBSET S |-> Term(f, g, s)]
<1> DEFINE Has(n) == \E g : g = [s \in Small(S, n) |-> Term(f, g, s)]
<1> DEFINE N == {n \in Nat : Has(n)}
<1>1. Has(0)
  <2> DEFINE g == [s \in Small(S, 0) |-> 0]
  <2>1. \A s \in Small(S, 0) : s = {}
    <3>1. TAKE s \in Small(S, 0)
    <3>2. IsFiniteSet(s) /\ Cardinality(s) \in Nat /\ Cardinality(s) <= 0
        BY FS_Subset, FS_CardinalityType DEF Small
    <3>3. QED
        BY <3>2, FS_EmptySet
  <2>2. \A s \in Small(S, 0) : Term(f, g, s) = 0
      BY <2>1 DEF Term
  <2>3. g = [s \in Small(S, 0) |-> Term(f, g, s)]
      BY <2>2
  <2>4. QED
      BY <2>3
<1>2. ASSUME NEW n \in Nat, Has(n) PROVE Has(n + 1)
  <2>1. PICK g : g = [s \in Small(S, n) |-> Term(f, g, s)]
      BY <1>2
  <2> DEFINE h == [s \in Small(S, n + 1) |-> Term(f, g, s)]
  <2>2. ASSUME NEW s \in Small(S, n) PROVE h[s] = g[s]
    <3>1. g[s] = Term(f, g, s)
        BY <2>1
    <3>2. s \in Small(S, n + 1)
        BY SmallGrows
    <3>3. QED
        BY <3>1, <3>2
  <2>3. ASSUME NEW s \in Small(S, n + 1) PROVE Term(f, g, s) = Term(f, h, s)
    <3>1. CASE s = {}
        BY <3>1 DEF Term
    <3>2. CASE s # {}
      <4>1. g[s \ {Some(s)}] = h[s \ {Some(s)}]
          BY <3>2, <2>2, SomeRemoved
      <4>2. QED
          BY <3>2, <4>1 DEF Term
    <3>3. QED
        BY <3>1, <3>2
  <2>4. h = [s \in Small(S, n + 1) |-> Term(f, h, s)]
      BY <2>3
  <2>5. QED
      BY <2>4
<1>3. Nat \subseteq N
  <2>1. 0 \in N
      BY <1>1
  <2>2. \A n \in Nat : n \in N => n + 1 \in N
      BY <1>2
  <2> HIDE DEF N
  <2>3. QED
      BY <2>1, <2>2, NumberInduction
<1>4. Cardinality(S) \in Nat /\ SUBSET S = Small(S, Cardinality(S))
    BY FS_Subset, FS_CardinalityType DEF Small
<1>5. Has(Cardinality(S))
    BY <1>3, <1>4
<1>6. QED
    BY <1>4, <1>5

LEMMA SumsEquation ==
    ASSUME NEW f, NEW S, IsFiniteSet(S), NEW s \in SUBSET S
    PROVE  Sums(f, S)[s] = Term(f, Sums(f, S), s)
<1>1. Sums(f, S) = [t \in SUBSET S |-> Term(f, Sums(f, S), t)]
    BY SumsExist DEF Sums
<1>2. QED
    BY <1>1

LEMMA SomeIn ==
    ASSUME NEW s, s # {}
    PROVE  Some(s) \in s /\ s \ {Some(s)} \in SUBSET s /\ s \ {Some(s)} # s
<1>1. Some(s) \in s
    BY DEF Some
<1>2. QED
    BY <1>1

\* The sum over a set depends on the values of the function in it alone.
LEMMA SumsAgree ==
    ASSUME NEW f, NEW g, NEW S, IsFiniteSet(S), NEW T \in SUBSET S,
           \A x \in T : f[x] = g[x]
    PROVE  Sums(f, S)[T] = SumFunctionOnSet(g, T)
<1> DEFINE P == {s \in SUBSET T : Sums(f, S)[s] = Sums(g, T)[s]}
<1>1. IsFiniteSet(T)
    BY FS_Subset
<1>2. ASSUME NEW s \in SUBSET T, \A u \in SUBSET s : u # s => u \in P
      PROVE  s \in P
  <2>1. Sums(f, S)[s] = Term(f, Sums(f, S), s) /\ Sums(g, T)[s] = Term(g, Sums(g, T), s)
      BY <1>1, SumsEquation
  <2>2. CASE s = {}
      BY <2>1, <2>2 DEF Term
  <2>3. CASE s # {}
    <3>1. Some(s) \in T /\ s \ {Some(s)} \in P
        BY <1>2, <2>3, SomeIn
    <3>2. QED
        BY <2>1, <2>3, <3>1 DEF Term
  <2>4. QED
      BY <2>2, <2>3
<1>3. SUBSET T \subseteq P
  <2> HIDE DEF P
  <2>1. QED
      BY <1>1, <1>2, SubsetInduction
<1>4. QED
    BY <1>3, SumIsSums

THEOREM SumSame ==
    ASSUME NEW f, NEW g, NEW S, IsFiniteSet(S), \A x \in S : f[x] = g[x]
    PROVE  SumFunctionOnSet(f, S) = SumFunctionOnSet(g, S)
BY SumsAgree, SumIsSums

THEOREM SumEmpty == \A f : SumFunctionOnSet(f, {}) = 0
<1>1. TAKE f
<1>2. IsFiniteSet({})
    BY FS_EmptySet
<1>3. QED
    BY <1>2, SumIsSums, SumsEquation DEF Term

LEMMA SumSome ==
    ASSUME NEW f, NEW S, IsFiniteSet(S), S # {}
    PROVE  SumFunctionOnSet(f, S) = f[Some(S)] + SumFunctionOnSet(f, S \ {Some(S)})
<1>1. Sums(f, S)[S] = f[Some(S)] + Sums(f, S)[S \ {Some(S)}]
    BY SumsEquation DEF Term
<1>2. Sums(f, S)[S \ {Some(S)}] = SumFunctionOnSet(f, S \ {Some(S)})
    BY SumsAgree
<1>3. QED
    BY <1>1, <1>2, SumIsSums

THEOREM SumInt ==
    ASSUME NEW f, NEW S, IsFiniteSet(S), \A x \in S : f[x] \in Int
    PROVE  SumFunctionOnSet(f, S) \in Int
<1> DEFINE P == {T \in SUBSET S : SumFunctionOnSet(f, T) \in Int}
<1>1. ASSUME NEW T \in SUBSET S, \A U \in SUBSET T : U # T => U \in P
      PROVE  T \in P
  <2>1. CASE T = {}
      BY <2>1, SumEmpty
  <2>2. CASE T # {}
    <3>1. IsFiniteSet(T)
        BY FS_Subset
    <3>2. Some(T) \in S /\ T \ {Some(T)} \in P
        BY <1>1, <2>2, SomeIn
    <3>3. QED
        BY <2>2, <3>1, <3>2, SumSome
  <2>3. QED
      BY <2>1, <2>2
<1>2. SUBSET S \subseteq P
  <2> HIDE DEF P
  <2>1. QED
      BY <1>1, SubsetInduction
<1>3. QED
    BY <1>2

\* Any element may be added last.
THEOREM SumRemove ==
    ASSUME NEW f, NEW S, IsFiniteSet(S), \A x \in S : f[x] \in Int, NEW y \in S
    PROVE  SumFunctionOnSet(f, S) = f[y] + SumFunctionOnSet(f, S \ {y})
<1> DEFINE P == {T \in SUBSET S :
              \A x \in T : SumFunctionOnSet(f, T) = f[x] + SumFunctionOnSet(f, T \ {x})}
<1>1. ASSUME NEW T \in SUBSET S, \A U \in SUBSET T : U # T => U \in P
      PROVE  T \in P
  <2>1. SUFFICES ASSUME NEW x \in T
                 PROVE  SumFunctionOnSet(f, T) = f[x] + SumFunctionOnSet(f, T \ {x})
      OBVIOUS
  <2>2. IsFiniteSet(T) /\ \A U \in SUBSET T : IsFiniteSet(U)
      BY FS_Subset
  <2>3. SumFunctionOnSet(f, T) = f[Some(T)] + SumFunctionOnSet(f, T \ {Some(T)})
      BY <2>2, SumSome
  <2>4. CASE x = Some(T)
      BY <2>3, <2>4
  <2>5. CASE x # Some(T)
    <3> DEFINE z == Some(T)
    <3>1. z \in T
        BY SomeIn
    <3>2. T \ {z} \in P /\ T \ {x} \in P
        BY <1>1, <3>1
    <3>3. x \in T \ {z} /\ z \in T \ {x} /\ (T \ {z}) \ {x} = (T \ {x}) \ {z}
        BY <2>5, <3>1
    <3>4. /\ SumFunctionOnSet(f, T \ {z}) = f[x] + SumFunctionOnSet(f, (T \ {z}) \ {x})
          /\ SumFunctionOnSet(f, T \ {x}) = f[z] + SumFunctionOnSet(f, (T \ {x}) \ {z})
        BY <3>2, <3>3
    <3>5. f[x] \in Int /\ f[z] \in Int /\ SumFunctionOnSet(f, (T \ {z}) \ {x}) \in Int
      <4>1. (T \ {z}) \ {x} \in SUBSET T
          OBVIOUS
      <4>2. QED
          BY <2>2, <3>1, <4>1, SumInt
    <3> HIDE DEF z
    <3>6. SumFunctionOnSet(f, T) = f[z] + SumFunctionOnSet(f, T \ {z})
        BY <2>3 DEF z
    <3>7. SumFunctionOnSet(f, T \ {x}) = f[z] + SumFunctionOnSet(f, (T \ {z}) \ {x})
        BY <3>3, <3>4
    <3>8. QED
        BY <3>4, <3>5, <3>6, <3>7
  <2>6. QED
      BY <2>4, <2>5
<1>2. SUBSET S \subseteq P
  <2> HIDE DEF P
  <2>1. QED
      BY <1>1, SubsetInduction
<1>3. QED
    BY <1>2

THEOREM SumAdd ==
    ASSUME NEW f, NEW S, IsFiniteSet(S), \A x \in S : f[x] \in Int,
           NEW y, y \notin S, f[y] \in Int
    PROVE  SumFunctionOnSet(f, S \cup {y}) = SumFunctionOnSet(f, S) + f[y]
<1>1. IsFiniteSet(S \cup {y}) /\ (S \cup {y}) \ {y} = S
    BY FS_AddElement
<1>2. SumFunctionOnSet(f, S \cup {y}) = f[y] + SumFunctionOnSet(f, (S \cup {y}) \ {y})
    BY <1>1, SumRemove
<1>3. SumFunctionOnSet(f, S) \in Int
    BY SumInt
<1>4. SumFunctionOnSet(f, S \cup {y}) = f[y] + SumFunctionOnSet(f, S)
    BY <1>1, <1>2
<1>5. QED
    BY <1>3, <1>4

\* One value changes.
THEOREM SumUpdate ==
    ASSUME NEW f, NEW g, NEW S, IsFiniteSet(S), NEW y \in S,
           \A x \in S : f[x] \in Int, g[y] \in Int, \A x \in S \ {y} : g[x] = f[x]
    PROVE  SumFunctionOnSet(g, S) = SumFunctionOnSet(f, S) - f[y] + g[y]
<1>1. IsFiniteSet(S \ {y}) /\ \A x \in S : g[x] \in Int
    BY FS_RemoveElement
<1>2. SumFunctionOnSet(f, S) = f[y] + SumFunctionOnSet(f, S \ {y})
    BY SumRemove
<1>3. SumFunctionOnSet(g, S) = g[y] + SumFunctionOnSet(g, S \ {y})
    BY <1>1, SumRemove
<1>4. SumFunctionOnSet(g, S \ {y}) = SumFunctionOnSet(f, S \ {y})
    BY <1>1, SumSame
<1>5. SumFunctionOnSet(f, S \ {y}) \in Int /\ f[y] \in Int
    BY <1>1, SumInt
<1>6. QED
    BY <1>2, <1>3, <1>4, <1>5

\* The sum of the sums.
THEOREM SumPlus ==
    ASSUME NEW f, NEW g, NEW h, NEW S, IsFiniteSet(S),
           \A x \in S : f[x] \in Int /\ g[x] \in Int /\ h[x] = f[x] + g[x]
    PROVE  SumFunctionOnSet(h, S) = SumFunctionOnSet(f, S) + SumFunctionOnSet(g, S)
<1> DEFINE P == {T \in SUBSET S : SumFunctionOnSet(h, T)
                          = SumFunctionOnSet(f, T) + SumFunctionOnSet(g, T)}
<1>1. ASSUME NEW T \in SUBSET S, \A U \in SUBSET T : U # T => U \in P
      PROVE  T \in P
  <2>1. CASE T = {}
      BY <2>1, SumEmpty
  <2>2. CASE T # {}
    <3>1. PICK x \in T : TRUE
        BY <2>2
    <3>2. IsFiniteSet(T) /\ IsFiniteSet(T \ {x}) /\ T \ {x} \in P
        BY <1>1, <3>1, FS_Subset, FS_RemoveElement
    <3>3. f[x] \in Int /\ g[x] \in Int /\ h[x] = f[x] + g[x] /\ \A z \in S : h[z] \in Int
        BY <3>1
    <3>4. /\ SumFunctionOnSet(f, T) = f[x] + SumFunctionOnSet(f, T \ {x})
          /\ SumFunctionOnSet(g, T) = g[x] + SumFunctionOnSet(g, T \ {x})
          /\ SumFunctionOnSet(h, T) = h[x] + SumFunctionOnSet(h, T \ {x})
        BY <3>2, <3>3, SumRemove
    <3>5. SumFunctionOnSet(f, T \ {x}) \in Int /\ SumFunctionOnSet(g, T \ {x}) \in Int
        BY <3>2, SumInt
    <3>6. SumFunctionOnSet(h, T \ {x})
             = SumFunctionOnSet(f, T \ {x}) + SumFunctionOnSet(g, T \ {x})
        BY <3>2
    <3>7. QED
        BY <3>3, <3>4, <3>5, <3>6
  <2>3. QED
      BY <2>1, <2>2
<1>2. SUBSET S \subseteq P
  <2> HIDE DEF P
  <2>1. QED
      BY <1>1, SubsetInduction
<1>3. QED
    BY <1>2

THEOREM SumAtMost ==
    ASSUME NEW f, NEW g, NEW S, IsFiniteSet(S),
           \A x \in S : f[x] \in Int /\ g[x] \in Int /\ f[x] <= g[x]
    PROVE  SumFunctionOnSet(f, S) <= SumFunctionOnSet(g, S)
<1> DEFINE P == {T \in SUBSET S : SumFunctionOnSet(f, T) <= SumFunctionOnSet(g, T)}
<1>1. ASSUME NEW T \in SUBSET S, \A U \in SUBSET T : U # T => U \in P
      PROVE  T \in P
  <2>1. CASE T = {}
      BY <2>1, SumEmpty
  <2>2. CASE T # {}
    <3>1. PICK x \in T : TRUE
        BY <2>2
    <3>2. IsFiniteSet(T) /\ IsFiniteSet(T \ {x}) /\ T \ {x} \in P
        BY <1>1, <3>1, FS_Subset, FS_RemoveElement
    <3>3. f[x] \in Int /\ g[x] \in Int /\ f[x] <= g[x]
        BY <3>1
    <3>4. /\ SumFunctionOnSet(f, T) = f[x] + SumFunctionOnSet(f, T \ {x})
          /\ SumFunctionOnSet(g, T) = g[x] + SumFunctionOnSet(g, T \ {x})
        BY <3>2, SumRemove
    <3>5. SumFunctionOnSet(f, T \ {x}) \in Int /\ SumFunctionOnSet(g, T \ {x}) \in Int
        BY <3>2, SumInt
    <3>6. SumFunctionOnSet(f, T \ {x}) <= SumFunctionOnSet(g, T \ {x})
        BY <3>2
    <3>7. QED
        BY <3>3, <3>4, <3>5, <3>6
  <2>3. QED
      BY <2>1, <2>2
<1>2. SUBSET S \subseteq P
  <2> HIDE DEF P
  <2>1. QED
      BY <1>1, SubsetInduction
<1>3. QED
    BY <1>2

THEOREM SumZero ==
    ASSUME NEW f, NEW S, IsFiniteSet(S), \A x \in S : f[x] = 0
    PROVE  SumFunctionOnSet(f, S) = 0
<1>1. SumFunctionOnSet(f, S) \in Int
    BY SumInt
<1>2. SumFunctionOnSet(f, S) = SumFunctionOnSet(f, S) + SumFunctionOnSet(f, S)
    BY SumPlus
<1>3. \A n \in Int : n = n + n => n = 0
    OBVIOUS
<1>4. QED
    BY <1>1, <1>2, <1>3

\* A common factor, taken out of the sum.
THEOREM SumScale ==
    ASSUME NEW f, NEW g, NEW c \in Int, NEW S, IsFiniteSet(S),
           \A x \in S : f[x] \in Int /\ g[x] = c * f[x]
    PROVE  SumFunctionOnSet(g, S) = c * SumFunctionOnSet(f, S)
<1> DEFINE P == {T \in SUBSET S : SumFunctionOnSet(g, T) = c * SumFunctionOnSet(f, T)}
<1>1. ASSUME NEW T \in SUBSET S, \A U \in SUBSET T : U # T => U \in P
      PROVE  T \in P
  <2>1. CASE T = {}
      BY <2>1, SumEmpty
  <2>2. CASE T # {}
    <3>1. PICK x \in T : TRUE
        BY <2>2
    <3>2. IsFiniteSet(T) /\ IsFiniteSet(T \ {x}) /\ T \ {x} \in P
        BY <1>1, <3>1, FS_Subset, FS_RemoveElement
    <3>3. f[x] \in Int /\ g[x] = c * f[x] /\ \A z \in S : g[z] \in Int
        BY <3>1
    <3>4. /\ SumFunctionOnSet(f, T) = f[x] + SumFunctionOnSet(f, T \ {x})
          /\ SumFunctionOnSet(g, T) = g[x] + SumFunctionOnSet(g, T \ {x})
        BY <3>2, <3>3, SumRemove
    <3>5. SumFunctionOnSet(f, T \ {x}) \in Int
        BY <3>2, SumInt
    <3>6. SumFunctionOnSet(g, T \ {x}) = c * SumFunctionOnSet(f, T \ {x})
        BY <3>2
    <3>7. QED
        BY <3>3, <3>4, <3>5, <3>6
  <2>3. QED
      BY <2>1, <2>2
<1>2. SUBSET S \subseteq P
  <2> HIDE DEF P
  <2>1. QED
      BY <1>1, SubsetInduction
<1>3. QED
    BY <1>2

\* The sum of the differences.
THEOREM SumMinus ==
    ASSUME NEW f, NEW g, NEW h, NEW S, IsFiniteSet(S),
           \A x \in S : f[x] \in Int /\ g[x] \in Int /\ h[x] = f[x] - g[x]
    PROVE  SumFunctionOnSet(h, S) = SumFunctionOnSet(f, S) - SumFunctionOnSet(g, S)
<1>1. \A x \in S : h[x] \in Int /\ f[x] = h[x] + g[x]
    OBVIOUS
<1>2. SumFunctionOnSet(f, S) = SumFunctionOnSet(h, S) + SumFunctionOnSet(g, S)
    BY <1>1, SumPlus
<1>3. SumFunctionOnSet(h, S) \in Int /\ SumFunctionOnSet(g, S) \in Int
    BY <1>1, SumInt
<1>4. QED
    BY <1>2, <1>3

\* Terms that are nowhere negative.
THEOREM SumNat ==
    ASSUME NEW f, NEW S, IsFiniteSet(S), \A x \in S : f[x] \in Nat
    PROVE  SumFunctionOnSet(f, S) \in Nat
<1> DEFINE zero == [x \in S |-> 0]
<1>1. \A x \in S : zero[x] = 0 /\ zero[x] \in Int /\ f[x] \in Int /\ zero[x] <= f[x]
    OBVIOUS
<1> HIDE DEF zero
<1>2. SumFunctionOnSet(zero, S) = 0
    BY <1>1, SumZero
<1>3. SumFunctionOnSet(zero, S) <= SumFunctionOnSet(f, S)
    BY <1>1, SumAtMost
<1>4. SumFunctionOnSet(f, S) \in Int
    BY <1>1, SumInt
<1>5. QED
    BY <1>2, <1>3, <1>4

\* The elements of a set that are in T, counted.
THEOREM SumCount ==
    ASSUME NEW f, NEW S, IsFiniteSet(S), NEW T,
           \A x \in S : f[x] = IF x \in T THEN 1 ELSE 0
    PROVE  SumFunctionOnSet(f, S) = Cardinality(S \cap T)
<1> DEFINE P == {R \in SUBSET S : SumFunctionOnSet(f, R) = Cardinality(R \cap T)}
<1>1. ASSUME NEW R \in SUBSET S, \A U \in SUBSET R : U # R => U \in P
      PROVE  R \in P
  <2>1. CASE R = {}
      BY <2>1, SumEmpty, FS_EmptySet
  <2>2. CASE R # {}
    <3>1. PICK x \in R : TRUE
        BY <2>2
    <3>2. IsFiniteSet(R) /\ IsFiniteSet(R \cap T) /\ R \ {x} \in P
        BY <1>1, <3>1, FS_Subset, FS_RemoveElement
    <3>3. \A z \in S : f[z] \in Int
        OBVIOUS
    <3>4. SumFunctionOnSet(f, R) = f[x] + SumFunctionOnSet(f, R \ {x})
        BY <3>2, <3>3, SumRemove
    <3>5. SumFunctionOnSet(f, R \ {x}) = Cardinality((R \ {x}) \cap T)
        BY <3>2
    <3>6. CASE x \in T
      <4>1. x \in R \cap T /\ (R \cap T) \ {x} = (R \ {x}) \cap T /\ f[x] = 1
          BY <3>6
      <4>2. Cardinality((R \ {x}) \cap T) = Cardinality(R \cap T) - 1
          BY <4>1, <3>2, FS_RemoveElement
      <4>3. Cardinality(R \cap T) \in Nat
          BY <3>2, FS_CardinalityType
      <4>4. QED
          BY <3>4, <3>5, <4>1, <4>2, <4>3
    <3>7. CASE x \notin T
      <4>1. R \cap T = (R \ {x}) \cap T /\ f[x] = 0
          BY <3>7
      <4>2. Cardinality((R \ {x}) \cap T) = Cardinality(R \cap T)
          BY <4>1
      <4>3. Cardinality(R \cap T) \in Nat
          BY <3>2, FS_CardinalityType
      <4>4. SumFunctionOnSet(f, R) = Cardinality(R \cap T)
          BY <3>4, <3>5, <4>1, <4>2, <4>3
      <4>5. QED
          BY <4>4
    <3>8. QED
        BY <3>6, <3>7
  <2>3. QED
      BY <2>1, <2>2
<1>2. SUBSET S \subseteq P
  <2> HIDE DEF P
  <2>1. QED
      BY <1>1, SubsetInduction
<1>3. QED
    BY <1>2

\* A sum by groups: the elements of S that have each key, and then the keys.
Group(S, key, k) == {x \in S : key[x] = k}
ByGroup(f, S, key, K) == [k \in K |-> SumFunctionOnSet(f, Group(S, key, k))]

THEOREM SumByGroup ==
    ASSUME NEW f, NEW key, NEW S, IsFiniteSet(S), NEW K, IsFiniteSet(K),
           \A x \in S : f[x] \in Int /\ key[x] \in K
    PROVE  SumFunctionOnSet(ByGroup(f, S, key, K), K) = SumFunctionOnSet(f, S)
<1> DEFINE P == {T \in SUBSET S :
                    SumFunctionOnSet(ByGroup(f, T, key, K), K) = SumFunctionOnSet(f, T)}
<1>1. ASSUME NEW T \in SUBSET S, \A U \in SUBSET T : U # T => U \in P
      PROVE  T \in P
  <2>0. ASSUME NEW U \in SUBSET S, NEW k \in K
        PROVE  ByGroup(f, U, key, K)[k] = SumFunctionOnSet(f, Group(U, key, k))
      BY DEF ByGroup
  <2>1. CASE T = {}
    <3>1. \A k \in K : Group({}, key, k) = {}
        BY DEF Group
    <3>2. \A k \in K : ByGroup(f, {}, key, K)[k] = 0
        BY <2>0, <3>1, SumEmpty
    <3>3. QED
        BY <2>1, <3>2, SumZero, SumEmpty
  <2>2. CASE T # {}
    <3>1. PICK x \in T : TRUE
        BY <2>2
    <3>2. IsFiniteSet(T) /\ IsFiniteSet(T \ {x}) /\ T \ {x} \in P /\ T \ {x} \in SUBSET S
        BY <1>1, <3>1, FS_Subset, FS_RemoveElement
    <3>3. SumFunctionOnSet(f, T) = f[x] + SumFunctionOnSet(f, T \ {x})
        BY <3>2, SumRemove
    <3> DEFINE U == T \ {x}
               g == ByGroup(f, T, key, K)
               h == ByGroup(f, U, key, K)
    <3>4. SumFunctionOnSet(h, K) = SumFunctionOnSet(f, U)
        BY <3>2
    <3>5. ASSUME NEW k \in K PROVE h[k] \in Int
      <4>1. /\ IsFiniteSet(Group(U, key, k))
            /\ \A z \in Group(U, key, k) : f[z] \in Int
          BY <3>2, FS_Subset DEF Group
      <4>2. SumFunctionOnSet(f, Group(U, key, k)) \in Int
          BY <4>1, SumInt
      <4>3. QED
          BY <2>0, <3>2, <4>2
    <3>6. ASSUME NEW k \in K \ {key[x]} PROVE g[k] = h[k]
      <4>1. Group(T, key, k) = Group(U, key, k)
          BY DEF Group
      <4>2. QED
          BY <2>0, <3>2, <4>1
    <3>7. g[key[x]] = f[x] + h[key[x]]
      <4>1. /\ key[x] \in K /\ x \in Group(T, key, key[x])
            /\ Group(T, key, key[x]) \ {x} = Group(U, key, key[x])
            /\ Group(T, key, key[x]) \in SUBSET S /\ IsFiniteSet(Group(T, key, key[x]))
          BY <3>1, <3>2, FS_Subset DEF Group
      <4>2. SumFunctionOnSet(f, Group(T, key, key[x]))
               = f[x] + SumFunctionOnSet(f, Group(U, key, key[x]))
        <5>1. SumFunctionOnSet(f, Group(T, key, key[x]))
               = f[x] + SumFunctionOnSet(f, Group(T, key, key[x]) \ {x})
            BY <4>1, SumRemove
        <5>2. QED
            BY <4>1, <5>1
      <4>3. QED
          BY <2>0, <3>2, <4>1, <4>2
    <3>8. key[x] \in K /\ f[x] \in Int
        BY <3>1
    <3> HIDE DEF g, h, U
    <3>9. SumFunctionOnSet(g, K) = SumFunctionOnSet(h, K) - h[key[x]] + g[key[x]]
      <4>1. g[key[x]] \in Int /\ h[key[x]] \in Int
          BY <3>5, <3>7, <3>8
      <4>2. QED
          BY <3>5, <3>6, <3>8, <4>1, SumUpdate
    <3>10. SumFunctionOnSet(h, K) \in Int /\ h[key[x]] \in Int
        BY <3>5, <3>8, SumInt
    <3>11. SumFunctionOnSet(g, K) = SumFunctionOnSet(f, T)
        BY <3>3, <3>4, <3>7, <3>8, <3>9, <3>10 DEF U
    <3>12. QED
        BY <3>11 DEF g
  <2>3. QED
      BY <2>1, <2>2
<1>2. SUBSET S \subseteq P
  <2> HIDE DEF P
  <2>1. QED
      BY <1>1, SubsetInduction
<1>3. QED
    BY <1>2

\* A sum of sums, over the one and then the other.
THEOREM SumExchange ==
    ASSUME NEW f, NEW S, IsFiniteSet(S), NEW R, IsFiniteSet(R),
           \A x \in S, y \in R : f[x][y] \in Int
    PROVE  SumFunctionOnSet([x \in S |-> SumFunctionOnSet(f[x], R)], S)
             = SumFunctionOnSet([y \in R |-> SumFunctionOnSet([x \in S |-> f[x][y]], S)], R)
<1> DEFINE row(T) == [x \in T |-> SumFunctionOnSet(f[x], R)]
           col(T) == [y \in R |-> SumFunctionOnSet([x \in T |-> f[x][y]], T)]
           P == {T \in SUBSET S : SumFunctionOnSet(row(T), T) = SumFunctionOnSet(col(T), R)}
<1>1. ASSUME NEW T \in SUBSET S, \A U \in SUBSET T : U # T => U \in P
      PROVE  T \in P
  <2>1. CASE T = {}
    <3>1. \A y \in R : col(T)[y] = 0
        BY <2>1, SumEmpty
    <3> HIDE DEF row, col
    <3>2. QED
        BY <2>1, <3>1, SumZero, SumEmpty
  <2>2. CASE T # {}
    <3>1. PICK x \in T : TRUE
        BY <2>2
    <3> DEFINE U == T \ {x}
    <3>2. IsFiniteSet(T) /\ IsFiniteSet(U) /\ U \in P /\ U \in SUBSET S /\ x \notin U
        BY <1>1, <3>1, FS_Subset, FS_RemoveElement
    <3>3. \A z \in T : row(T)[z] = SumFunctionOnSet(f[z], R) /\ row(T)[z] \in Int
        BY SumInt
    <3>4. \A z \in U : row(U)[z] = row(T)[z]
        OBVIOUS
    <3>5. SumFunctionOnSet(row(T), T) = SumFunctionOnSet(f[x], R) + SumFunctionOnSet(row(U), U)
      <4> DEFINE g == row(T)
                 h == row(U)
      <4>1. /\ \A z \in T : g[z] \in Int
            /\ \A z \in U : h[z] = g[z]
            /\ g[x] = SumFunctionOnSet(f[x], R)
          BY <3>1, <3>3, <3>4
      <4> HIDE DEF g, h
      <4>2. SumFunctionOnSet(g, T) = g[x] + SumFunctionOnSet(g, U)
          BY <3>1, <3>2, <4>1, SumRemove
      <4>3. SumFunctionOnSet(g, U) = SumFunctionOnSet(h, U)
          BY <3>2, <4>1, SumSame
      <4>4. SumFunctionOnSet(g, T) = SumFunctionOnSet(f[x], R) + SumFunctionOnSet(h, U)
          BY <4>1, <4>2, <4>3
      <4>5. QED
          BY <4>4 DEF g, h
    <3>6. ASSUME NEW y \in R
          PROVE  /\ f[x][y] \in Int /\ col(U)[y] \in Int
                 /\ col(T)[y] = f[x][y] + col(U)[y]
      <4> DEFINE a == [z \in T |-> f[z][y]]
                 b == [z \in U |-> f[z][y]]
      <4>1. /\ \A z \in T : a[z] \in Int /\ a[z] = f[z][y]
            /\ \A z \in U : b[z] \in Int /\ b[z] = a[z]
          OBVIOUS
      <4>2. col(T)[y] = SumFunctionOnSet(a, T) /\ col(U)[y] = SumFunctionOnSet(b, U)
          OBVIOUS
      <4> HIDE DEF a, b, row, col
      <4>3. SumFunctionOnSet(a, T) = a[x] + SumFunctionOnSet(a, U)
          BY <3>1, <3>2, <4>1, SumRemove
      <4>4. SumFunctionOnSet(a, U) = SumFunctionOnSet(b, U)
          BY <3>2, <4>1, SumSame
      <4>5. SumFunctionOnSet(b, U) \in Int
          BY <3>2, <4>1, SumInt
      <4>6. QED
          BY <3>1, <4>1, <4>2, <4>3, <4>4, <4>5
    <3>7. SumFunctionOnSet(col(T), R) = SumFunctionOnSet(f[x], R) + SumFunctionOnSet(col(U), R)
      <4> DEFINE fx == f[x]
                 g == col(T)
                 h == col(U)
      <4>1. \A y \in R : fx[y] \in Int /\ h[y] \in Int /\ g[y] = fx[y] + h[y]
          BY <3>6
      <4> HIDE DEF fx, g, h
      <4>2. SumFunctionOnSet(g, R) = SumFunctionOnSet(fx, R) + SumFunctionOnSet(h, R)
          BY <4>1, SumPlus
      <4>3. QED
          BY <4>2 DEF fx, g, h
    <3>8. SumFunctionOnSet(row(U), U) = SumFunctionOnSet(col(U), R)
        BY <3>2
    <3>9. QED
      <4> HIDE DEF row, col, U
      <4>1. QED
          BY <3>5, <3>7, <3>8
  <2>3. QED
      BY <2>1, <2>2
<1>2. SUBSET S \subseteq P
  <2> HIDE DEF P
  <2>1. QED
      BY <1>1, SubsetInduction
<1>3. SumFunctionOnSet(row(S), S) = SumFunctionOnSet(col(S), R)
    BY <1>2
<1>4. QED
    BY <1>3

\* A sum over two sets apart.
THEOREM SumUnion ==
    ASSUME NEW f, NEW S, NEW T, IsFiniteSet(S), IsFiniteSet(T), S \cap T = {},
           \A x \in S \cup T : f[x] \in Int
    PROVE  SumFunctionOnSet(f, S \cup T) = SumFunctionOnSet(f, S) + SumFunctionOnSet(f, T)
<1> DEFINE P == {R \in SUBSET T : SumFunctionOnSet(f, S \cup R)
                                     = SumFunctionOnSet(f, S) + SumFunctionOnSet(f, R)}
<1>0. SumFunctionOnSet(f, S) \in Int
    BY SumInt
<1>1. ASSUME NEW R \in SUBSET T, \A U \in SUBSET R : U # R => U \in P
      PROVE  R \in P
  <2>1. CASE R = {}
    <3>1. SumFunctionOnSet(f, S \cup R) = SumFunctionOnSet(f, S)
      <4>1. S \cup R = S
          BY <2>1
      <4>2. QED
          BY <4>1
    <3>2. SumFunctionOnSet(f, R) = 0
        BY <2>1, SumEmpty
    <3>3. SumFunctionOnSet(f, S \cup R) = SumFunctionOnSet(f, S) + SumFunctionOnSet(f, R)
        BY <1>0, <3>1, <3>2
    <3>4. QED
        BY <3>3
  <2>2. CASE R # {}
    <3>1. PICK x \in R : TRUE
        BY <2>2
    <3> DEFINE U == R \ {x}
    <3>2. IsFiniteSet(R) /\ IsFiniteSet(U) /\ U \in P
        BY <1>1, <3>1, FS_Subset, FS_RemoveElement
    <3>3. /\ x \in S \cup R /\ (S \cup R) \ {x} = S \cup U
          /\ IsFiniteSet(S \cup R) /\ \A z \in S \cup R : f[z] \in Int
      <4>1. IsFiniteSet(S \cup R)
          BY <3>2, FS_Union
      <4>2. QED
          BY <3>1, <4>1
    <3>4. SumFunctionOnSet(f, S \cup R) = f[x] + SumFunctionOnSet(f, S \cup U)
      <4>1. SumFunctionOnSet(f, S \cup R) = f[x] + SumFunctionOnSet(f, (S \cup R) \ {x})
          BY <3>3, SumRemove
      <4>2. QED
          BY <3>3, <4>1
    <3>5. SumFunctionOnSet(f, R) = f[x] + SumFunctionOnSet(f, U)
        BY <3>1, <3>2, SumRemove
    <3>6. SumFunctionOnSet(f, U) \in Int /\ f[x] \in Int
        BY <3>1, <3>2, SumInt
    <3>7. SumFunctionOnSet(f, S \cup U) = SumFunctionOnSet(f, S) + SumFunctionOnSet(f, U)
        BY <3>2
    <3> HIDE DEF U
    <3>8. SumFunctionOnSet(f, S \cup R) = SumFunctionOnSet(f, S) + SumFunctionOnSet(f, R)
        BY <1>0, <3>4, <3>5, <3>6, <3>7
    <3>9. QED
        BY <3>8
  <2>3. QED
      BY <2>1, <2>2
<1>2. SUBSET T \subseteq P
  <2> HIDE DEF P
  <2>1. QED
      BY <1>1, SubsetInduction
<1>3. QED
    BY <1>2

\* A sum over a part, the rest of which is not negative.
THEOREM SumWithin ==
    ASSUME NEW f, NEW S, NEW T, IsFiniteSet(T), S \subseteq T,
           \A x \in T : f[x] \in Int, \A x \in T \ S : f[x] >= 0
    PROVE  SumFunctionOnSet(f, S) <= SumFunctionOnSet(f, T)
<1>1. IsFiniteSet(S) /\ IsFiniteSet(T \ S)
    BY FS_Subset
<1>2. S \cup (T \ S) = T /\ S \cap (T \ S) = {}
    OBVIOUS
<1>3. SumFunctionOnSet(f, S \cup (T \ S)) = SumFunctionOnSet(f, S) + SumFunctionOnSet(f, T \ S)
    BY <1>1, SumUnion
<1>4. SumFunctionOnSet(f, T \ S) \in Nat
    BY <1>1, SumNat
<1>5. SumFunctionOnSet(f, S) \in Int
    BY <1>1, SumInt
<1>6. SumFunctionOnSet(f, S \cup (T \ S)) = SumFunctionOnSet(f, T)
    BY <1>2
<1>7. QED
    BY <1>3, <1>4, <1>5, <1>6

\* Terms that are zero may be left out.
THEOREM SumPadded ==
    ASSUME NEW f, NEW S, NEW T, IsFiniteSet(T), S \subseteq T,
           \A x \in S : f[x] \in Int, \A x \in T \ S : f[x] = 0
    PROVE  SumFunctionOnSet(f, T) = SumFunctionOnSet(f, S)
<1>1. IsFiniteSet(S) /\ IsFiniteSet(T \ S)
    BY FS_Subset
<1>2. S \cup (T \ S) = T /\ S \cap (T \ S) = {}
    OBVIOUS
<1>3. SumFunctionOnSet(f, S \cup (T \ S)) = SumFunctionOnSet(f, S) + SumFunctionOnSet(f, T \ S)
    BY <1>1, SumUnion
<1>4. SumFunctionOnSet(f, T \ S) = 0
    BY <1>1, SumZero
<1>5. SumFunctionOnSet(f, S) \in Int
    BY <1>1, SumInt
<1>6. SumFunctionOnSet(f, S \cup (T \ S)) = SumFunctionOnSet(f, T)
    BY <1>2
<1>7. QED
    BY <1>3, <1>4, <1>5, <1>6

\* A positive sum has a positive term.
THEOREM SumPositive ==
    ASSUME NEW f, NEW S, IsFiniteSet(S), \A x \in S : f[x] \in Int,
           SumFunctionOnSet(f, S) > 0
    PROVE  \E x \in S : f[x] > 0
<1> SUFFICES ASSUME \A x \in S : f[x] <= 0 PROVE FALSE
    OBVIOUS
<1> DEFINE zero == [x \in S |-> 0]
<1>1. \A x \in S : zero[x] = 0 /\ zero[x] \in Int /\ f[x] <= zero[x]
    OBVIOUS
<1> HIDE DEF zero
<1>2. SumFunctionOnSet(f, S) <= SumFunctionOnSet(zero, S)
    BY <1>1, SumAtMost
<1>3. SumFunctionOnSet(zero, S) = 0 /\ SumFunctionOnSet(f, S) \in Int
    BY <1>1, SumZero, SumInt
<1>4. QED
    BY <1>2, <1>3

\* A sum of equal terms.
THEOREM SumConstant ==
    ASSUME NEW f, NEW c \in Int, NEW S, IsFiniteSet(S), \A x \in S : f[x] = c
    PROVE  SumFunctionOnSet(f, S) = c * Cardinality(S)
<1> DEFINE one == [x \in S |-> 1]
<1>1. \A x \in S : one[x] = IF x \in S THEN 1 ELSE 0
    OBVIOUS
<1>2. \A x \in S : one[x] \in Int /\ f[x] = c * one[x]
    OBVIOUS
<1> HIDE DEF one
<1>3. SumFunctionOnSet(one, S) = Cardinality(S)
  <2>1. S \cap S = S
      OBVIOUS
  <2>2. SumFunctionOnSet(one, S) = Cardinality(S \cap S)
      BY <1>1, SumCount
  <2>3. QED
      BY <2>1, <2>2
<1>4. SumFunctionOnSet(f, S) = c * SumFunctionOnSet(one, S)
    BY <1>2, SumScale
<1>5. QED
    BY <1>3, <1>4
=============================================================================
