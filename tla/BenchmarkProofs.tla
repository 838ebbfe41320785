--------------------------- MODULE BenchmarkProofs ---------------------------
(***************************************************************************)
(* What the report of the benchmark is worth, for any topology, any        *)
(* results and any faults: of two nodes exactly one is taken to have       *)
(* tested their connection, every test counts once and as much for the     *)
(* receiver as for the sender, round-trip times stay in order, and of a    *)
(* pod whose client has not died only a finished run is reported.          *)
(***************************************************************************)
EXTENDS NetworkBenchmark, FiniteSetTheorems, WellFoundedInduction, TLAPS

-----------------------------------------------------------------------------
(* Induction over finite sets. *)

\* Natural numbers have a smallest one.
LEMMA LeastNatural ==
  ASSUME NEW S, S \subseteq Nat, S # {}
  PROVE  \E x \in S : \A y \in S : x =< y
<1> DEFINE R == OpToRel(<, Nat)
<1>1. IsWellFoundedOn(R, Nat)
  BY NatLessThanWellFounded
<1>2. \A y, x \in Nat : y < x => <<y, x>> \in R
  BY DEF OpToRel
<1> HIDE DEF R
<1>3. \E x \in S : \A y \in S : ~(<<y, x>> \in R)
  BY <1>1, WFMin, Zenon
<1>4. PICK x \in S : \A y \in S : ~(<<y, x>> \in R)
  BY <1>3
<1>5. ASSUME NEW y \in S PROVE x =< y
  <2>1. x \in Nat /\ y \in Nat
    OBVIOUS
  <2>2. ~(y < x)
    BY <1>2, <1>4, <2>1
  <2> QED BY <2>1, <2>2
<1> QED BY <1>5

\* Of sets that are parts of a finite one, there is one without any smaller by
\* an element: what every induction over finite sets rests on here.
LEMMA SmallestPart ==
  ASSUME NEW S, IsFiniteSet(S), NEW B, B \subseteq SUBSET S, B # {}
  PROVE  \E T \in B : /\ IsFiniteSet(T)
                      /\ \A x \in T : T \ {x} \notin B
<1> DEFINE Sizes == {Cardinality(T) : T \in B}
<1>1. \A T \in B : IsFiniteSet(T) /\ Cardinality(T) \in Nat
  BY FS_Subset, FS_CardinalityType
<1>2. Sizes \subseteq Nat /\ Sizes # {}
  BY <1>1
<1>3. PICK n \in Sizes : \A m \in Sizes : n =< m
  BY <1>2, LeastNatural
<1>4. PICK T \in B : Cardinality(T) = n
  OBVIOUS
<1>5. ASSUME NEW x \in T, T \ {x} \in B PROVE FALSE
  <2>1. Cardinality(T \ {x}) = Cardinality(T) - 1
    BY <1>1, FS_RemoveElement
  <2>2. Cardinality(T \ {x}) \in Sizes
    BY <1>5
  <2>3. n =< Cardinality(T \ {x})
    BY <1>3, <2>2
  <2>4. Cardinality(T) \in Nat
    BY <1>1
  <2> HIDE DEF Sizes
  <2> QED BY <1>4, <2>1, <2>3, <2>4
<1> QED BY <1>1, <1>5

-----------------------------------------------------------------------------
(* Sums: SumOver is a fold, which is taken apart element by element. *)

First(s) == CHOOSE x \in s : TRUE

\* g gives the sum of f over each part of S, element by element.
IsSum(f, S, g) ==
  g = [s \in SUBSET S |-> IF s = {} THEN 0 ELSE f[First(s)] + g[s \ {First(s)}]]

Integral(f, S) == \A x \in S : f[x] \in Int

LEMMA SumExists ==
  ASSUME NEW S, IsFiniteSet(S), NEW f, Integral(f, S)
  PROVE  \E g : IsSum(f, S, g) /\ g \in [SUBSET S -> Int]
<1> DEFINE Upto(n) == {s \in SUBSET S : Cardinality(s) <= n}
           Step(g, s) == IF s = {} THEN 0 ELSE f[First(s)] + g[s \ {First(s)}]
           Good(n) == \E g \in [Upto(n) -> Int] : \A s \in Upto(n) : g[s] = Step(g, s)
           Bad == {n \in Nat : ~Good(n)}
<1>1. \A s \in SUBSET S : IsFiniteSet(s) /\ Cardinality(s) \in Nat /\ Cardinality(s) <= Cardinality(S)
  BY FS_Subset, FS_CardinalityType
<1>2. \A s \in SUBSET S : s # {} => /\ First(s) \in s
                                    /\ Cardinality(s \ {First(s)}) = Cardinality(s) - 1
                                    /\ s \ {First(s)} \in SUBSET S
  BY <1>1, FS_RemoveElement DEF First
<1>3. Good(0)
  <2>1. \A s \in Upto(0) : s = {}
    BY <1>1, FS_EmptySet
  <2> DEFINE g == [s \in Upto(0) |-> 0]
  <2>2. g \in [Upto(0) -> Int] /\ \A s \in Upto(0) : g[s] = Step(g, s)
    BY <2>1
  <2> QED BY <2>2
<1>4. ASSUME NEW n \in Nat, Good(n) PROVE Good(n + 1)
  <2>1. PICK g \in [Upto(n) -> Int] : \A s \in Upto(n) : g[s] = Step(g, s)
    BY <1>4
  <2> DEFINE h == [s \in Upto(n + 1) |-> Step(g, s)]
  <2>2. \A s \in Upto(n + 1) : s # {} => s \ {First(s)} \in Upto(n) /\ f[First(s)] \in Int
    BY <1>1, <1>2 DEF Integral
  <2>3. h \in [Upto(n + 1) -> Int]
    BY <2>1, <2>2
  <2>4. Upto(n) \subseteq Upto(n + 1)
    BY <1>1
  <2>5. \A s \in Upto(n) : h[s] = g[s]
    BY <2>1, <2>4
  <2>6. \A s \in Upto(n + 1) : h[s] = Step(h, s)
    BY <2>2, <2>5
  <2> QED BY <2>3, <2>6
<1>5. Bad = {}
  <2> SUFFICES ASSUME Bad # {} PROVE FALSE
    OBVIOUS
  <2> HIDE DEF Good
  <2>1. PICK n \in Bad : \A m \in Bad : n =< m
    BY LeastNatural
  <2>2. n # 0
    BY <1>3
  <2>3. n - 1 \in Nat /\ Good(n - 1)
    BY <2>1, <2>2
  <2>4. Good((n - 1) + 1)
    BY <1>4, <2>3
  <2> QED BY <2>4
<1>6. Good(Cardinality(S))
  BY <1>1, <1>5
<1>7. Upto(Cardinality(S)) = SUBSET S
  BY <1>1
<1>8. PICK g \in [SUBSET S -> Int] : \A s \in SUBSET S : g[s] = Step(g, s)
  BY <1>6, <1>7
<1>9. IsSum(f, S, g)
  BY <1>8 DEF IsSum
<1> QED BY <1>9

LEMMA SumUnique ==
  ASSUME NEW S, IsFiniteSet(S), NEW f, NEW T \in SUBSET S, NEW g, IsSum(f, S, g), NEW h, IsSum(f, T, h)
  PROVE  g[T] = h[T]
<1> DEFINE B == {s \in SUBSET T : g[s] # h[s]}
<1> SUFFICES ASSUME B # {} PROVE FALSE
  OBVIOUS
<1>1. IsFiniteSet(T) /\ B \subseteq SUBSET T
  BY FS_Subset
<1>2. PICK s \in B : \A x \in s : s \ {x} \notin B
  BY <1>1, SmallestPart
<1>3. g[s] = IF s = {} THEN 0 ELSE f[First(s)] + g[s \ {First(s)}]
  <2>1. s \in SUBSET S
    OBVIOUS
  <2> QED BY <2>1 DEF IsSum
<1>4. h[s] = IF s = {} THEN 0 ELSE f[First(s)] + h[s \ {First(s)}]
  BY DEF IsSum
<1>5. s # {} => First(s) \in s
  BY DEF First
<1>6. s # {} => g[s \ {First(s)}] = h[s \ {First(s)}]
  BY <1>2, <1>5
<1> QED BY <1>3, <1>4, <1>6

\* The fold of the library is such a sum.
LEMMA SumUnfolds ==
  ASSUME NEW S, IsFiniteSet(S), NEW f, Integral(f, S)
  PROVE  /\ SumOver(f, S) \in Int
         /\ S = {} => SumOver(f, S) = 0
         /\ S # {} => SumOver(f, S) = f[First(S)] + SumOver(f, S \ {First(S)})
<1>1. ASSUME NEW T \in SUBSET S
      PROVE  \E g : IsSum(f, T, g) /\ g \in [SUBSET T -> Int] /\ SumOver(f, T) = g[T]
  <2>1. IsFiniteSet(T) /\ Integral(f, T)
    BY FS_Subset DEF Integral
  <2>2. PICK g : IsSum(f, T, g) /\ g \in [SUBSET T -> Int]
    BY <2>1, SumExists
  <2>3. SumOver(f, T) = (CHOOSE h : IsSum(f, T, h))[T]
    BY DEF SumOver, FoldFunctionOnSet, MapThenFoldSet, IsSum, First
  <2>4. IsSum(f, T, CHOOSE h : IsSum(f, T, h))
    BY <2>2
  <2>5. SumOver(f, T) = g[T]
    BY <2>1, <2>2, <2>3, <2>4, SumUnique
  <2> QED BY <2>2, <2>5
<1>2. PICK g : IsSum(f, S, g) /\ g \in [SUBSET S -> Int] /\ SumOver(f, S) = g[S]
  BY <1>1
<1>3. g[S] = IF S = {} THEN 0 ELSE f[First(S)] + g[S \ {First(S)}]
  BY <1>2 DEF IsSum
<1>4. PICK h : IsSum(f, S \ {First(S)}, h) /\ SumOver(f, S \ {First(S)}) = h[S \ {First(S)}]
  BY <1>1
<1>5. g[S \ {First(S)}] = h[S \ {First(S)}]
  BY <1>2, <1>4, SumUnique
<1> QED BY <1>2, <1>3, <1>4, <1>5

\* A sum may be taken apart at any element.
LEMMA SumRemove ==
  ASSUME NEW S, IsFiniteSet(S), NEW f, Integral(f, S), NEW x \in S
  PROVE  SumOver(f, S) = f[x] + SumOver(f, S \ {x})
<1> DEFINE B == {T \in SUBSET S : \E y \in T : SumOver(f, T) # f[y] + SumOver(f, T \ {y})}
<1> SUFFICES ASSUME B # {} PROVE FALSE
  OBVIOUS
<1>1. PICK T \in B : IsFiniteSet(T) /\ \A y \in T : T \ {y} \notin B
  BY SmallestPart
<1>2. PICK y \in T : SumOver(f, T) # f[y] + SumOver(f, T \ {y})
  BY <1>1
<1>3. \A U \in SUBSET T : IsFiniteSet(U) /\ Integral(f, U)
  BY <1>1, FS_Subset DEF Integral
<1>4. PICK z \in T : SumOver(f, T) = f[z] + SumOver(f, T \ {z})
  <2>1. First(T) \in T
    BY <1>2 DEF First
  <2> QED BY <1>2, <1>3, <2>1, SumUnfolds
<1>5. z # y
  BY <1>2, <1>4
<1>6. SumOver(f, T \ {z}) = f[y] + SumOver(f, (T \ {z}) \ {y})
  BY <1>1, <1>2, <1>4, <1>5
<1>7. SumOver(f, T \ {y}) = f[z] + SumOver(f, (T \ {y}) \ {z})
  BY <1>1, <1>2, <1>4, <1>5
<1>8. (T \ {y}) \ {z} = (T \ {z}) \ {y}
  OBVIOUS
<1>9. f[y] \in Int /\ f[z] \in Int /\ SumOver(f, (T \ {z}) \ {y}) \in Int
  BY <1>3, <1>4, SumUnfolds DEF Integral
<1>10. f[y] + (f[z] + SumOver(f, (T \ {z}) \ {y})) = f[z] + (f[y] + SumOver(f, (T \ {z}) \ {y}))
  BY <1>9
<1> QED BY <1>2, <1>4, <1>6, <1>7, <1>8, <1>10

\* The sum over a part is a number as well.
LEMMA SumPart ==
  ASSUME NEW S, IsFiniteSet(S), NEW f, Integral(f, S), NEW T \in SUBSET S
  PROVE  IsFiniteSet(T) /\ Integral(f, T) /\ SumOver(f, T) \in Int
<1>1. IsFiniteSet(T) /\ Integral(f, T)
  BY FS_Subset DEF Integral
<1> QED BY <1>1, SumUnfolds

LEMMA SumSame ==
  ASSUME NEW S, IsFiniteSet(S), NEW f, Integral(f, S), NEW g, \A x \in S : f[x] = g[x]
  PROVE  SumOver(f, S) = SumOver(g, S)
<1> DEFINE B == {T \in SUBSET S : SumOver(f, T) # SumOver(g, T)}
<1> SUFFICES ASSUME B # {} PROVE FALSE
  OBVIOUS
<1>1. PICK T \in B : IsFiniteSet(T) /\ \A x \in T : T \ {x} \notin B
  BY SmallestPart
<1>2. IsFiniteSet(T) /\ Integral(f, T) /\ Integral(g, T)
  BY <1>1, SumPart DEF Integral
<1>3. CASE T = {}
  BY <1>2, <1>3, SumUnfolds
<1>4. CASE T # {}
  <2>1. PICK x \in T : TRUE
    BY <1>4
  <2>2. SumOver(f, T \ {x}) = SumOver(g, T \ {x})
    BY <1>1
  <2>3. SumOver(f, T) = f[x] + SumOver(f, T \ {x}) /\ SumOver(g, T) = g[x] + SumOver(g, T \ {x})
    BY <1>2, SumRemove
  <2>4. f[x] = g[x]
    OBVIOUS
  <2>5. SumOver(f, T) # SumOver(g, T)
    OBVIOUS
  <2> HIDE DEF B
  <2> QED BY <2>2, <2>3, <2>4, <2>5
<1> QED BY <1>3, <1>4

LEMMA SumAdd ==
  ASSUME NEW S, IsFiniteSet(S), NEW f, Integral(f, S), NEW g, Integral(g, S),
         NEW h, \A x \in S : h[x] = f[x] + g[x]
  PROVE  SumOver(h, S) = SumOver(f, S) + SumOver(g, S)
<1> DEFINE B == {T \in SUBSET S : SumOver(h, T) # SumOver(f, T) + SumOver(g, T)}
<1> SUFFICES ASSUME B # {} PROVE FALSE
  OBVIOUS
<1>1. PICK T \in B : IsFiniteSet(T) /\ \A x \in T : T \ {x} \notin B
  BY SmallestPart
<1>2. IsFiniteSet(T) /\ Integral(f, T) /\ Integral(g, T) /\ Integral(h, T)
  BY <1>1, SumPart DEF Integral
<1>3. CASE T = {}
  BY <1>2, <1>3, SumUnfolds
<1>4. CASE T # {}
  <2>1. PICK x \in T : TRUE
    BY <1>4
  <2>2. SumOver(h, T \ {x}) = SumOver(f, T \ {x}) + SumOver(g, T \ {x})
    BY <1>1
  <2>3. /\ SumOver(f, T) = f[x] + SumOver(f, T \ {x})
        /\ SumOver(g, T) = g[x] + SumOver(g, T \ {x})
        /\ SumOver(h, T) = h[x] + SumOver(h, T \ {x})
    BY <1>2, SumRemove
  <2>4. /\ h[x] = f[x] + g[x] /\ f[x] \in Int /\ g[x] \in Int
        /\ SumOver(f, T \ {x}) \in Int /\ SumOver(g, T \ {x}) \in Int
    BY <1>2, SumPart DEF Integral
  <2>5. SumOver(h, T) # SumOver(f, T) + SumOver(g, T)
    OBVIOUS
  <2> HIDE DEF B
  <2> QED BY <2>2, <2>3, <2>4, <2>5
<1> QED BY <1>3, <1>4

LEMMA SumDisjoint ==
  ASSUME NEW S, IsFiniteSet(S), NEW f, Integral(f, S),
         NEW A \in SUBSET S, NEW C \in SUBSET S, A \cap C = {}
  PROVE  SumOver(f, A \cup C) = SumOver(f, A) + SumOver(f, C)
<1> DEFINE B == {T \in SUBSET C : SumOver(f, A \cup T) # SumOver(f, A) + SumOver(f, T)}
<1> SUFFICES ASSUME B # {} PROVE FALSE
  OBVIOUS
<1>1. IsFiniteSet(C) /\ SumOver(f, A) \in Int
  BY SumPart
<1>2. PICK T \in B : IsFiniteSet(T) /\ \A x \in T : T \ {x} \notin B
  BY <1>1, SmallestPart
<1>3. /\ IsFiniteSet(T) /\ Integral(f, T) /\ IsFiniteSet(A \cup T) /\ Integral(f, A \cup T)
  <2>1. T \in SUBSET S /\ A \cup T \in SUBSET S
    OBVIOUS
  <2> QED BY <2>1, SumPart
<1>4. CASE T = {}
  <2>1. A \cup T = A /\ SumOver(f, T) = 0
    BY <1>3, <1>4, SumUnfolds
  <2>2. SumOver(f, A \cup T) # SumOver(f, A) + SumOver(f, T)
    OBVIOUS
  <2> HIDE DEF B
  <2> QED BY <1>1, <2>1, <2>2
<1>5. CASE T # {}
  <2>1. PICK x \in T : TRUE
    BY <1>5
  <2>2. SumOver(f, A \cup (T \ {x})) = SumOver(f, A) + SumOver(f, T \ {x})
    BY <1>2
  <2>3. /\ SumOver(f, T) = f[x] + SumOver(f, T \ {x})
        /\ SumOver(f, A \cup T) = f[x] + SumOver(f, (A \cup T) \ {x})
    BY <1>3, SumRemove
  <2>4. (A \cup T) \ {x} = A \cup (T \ {x})
    OBVIOUS
  <2>5. f[x] \in Int /\ SumOver(f, T \ {x}) \in Int
    BY <1>3, SumPart DEF Integral
  <2>6. SumOver(f, A \cup T) # SumOver(f, A) + SumOver(f, T)
    OBVIOUS
  <2> HIDE DEF B
  <2>7. f[x] + (SumOver(f, A) + SumOver(f, T \ {x})) = SumOver(f, A) + (f[x] + SumOver(f, T \ {x}))
    BY <1>1, <2>5
  <2> QED BY <2>2, <2>3, <2>4, <2>6, <2>7
<1> QED BY <1>4, <1>5

\* The elements of S with a key of D.
Keyed(S, key, D) == {c \in S : key[c] \in D}

\* g has for each key of D the sum of f over the elements of S with that key.
SumsByKey(g, S, f, key, D) == \A n \in D : g[n] = SumOver(f, Keyed(S, key, {n}))

\* Adding up by keys first makes no difference.
LEMMA SumByKey ==
  ASSUME NEW S, IsFiniteSet(S), NEW f, Integral(f, S), NEW D, IsFiniteSet(D), NEW key,
         NEW g, SumsByKey(g, S, f, key, D)
  PROVE  SumOver(g, D) = SumOver(f, Keyed(S, key, D)) /\ Integral(g, D)
<1> USE DEF Keyed, SumsByKey
<1> DEFINE Of(T) == {c \in S : key[c] \in T}
           B == {T \in SUBSET D : SumOver(g, T) # SumOver(f, Of(T))}
<1>1. Integral(g, D)
  <2> SUFFICES ASSUME NEW n \in D PROVE g[n] \in Int
    BY DEF Integral
  <2>1. Keyed(S, key, {n}) \in SUBSET S
    OBVIOUS
  <2> HIDE DEF Keyed
  <2>2. SumOver(f, Keyed(S, key, {n})) \in Int
    BY <2>1, SumPart
  <2> QED BY <2>2
<1> SUFFICES ASSUME B # {} PROVE FALSE
  BY <1>1
<1>2. PICK T \in B : IsFiniteSet(T) /\ \A x \in T : T \ {x} \notin B
  BY SmallestPart
<1>3. IsFiniteSet(T) /\ Integral(g, T)
  BY <1>1, <1>2, SumPart
<1>4. CASE T = {}
  <2>1. Of(T) = {}
    BY <1>4
  <2>2. SumOver(f, {}) = 0 /\ SumOver(g, {}) = 0
    <3>1. IsFiniteSet({}) /\ Integral(f, {}) /\ Integral(g, {})
      BY FS_EmptySet DEF Integral
    <3> QED BY <3>1, SumUnfolds
  <2> QED BY <1>4, <2>1, <2>2
<1>5. CASE T # {}
  <2>1. PICK x \in T : TRUE
    BY <1>5
  <2>2. SumOver(g, T \ {x}) = SumOver(f, Of(T \ {x}))
    BY <1>2
  <2>3. SumOver(g, T) = g[x] + SumOver(g, T \ {x})
    BY <1>3, SumRemove
  <2>4. g[x] = SumOver(f, Of({x}))
    <3>1. Of({x}) = Keyed(S, key, {x})
      OBVIOUS
    <3> HIDE DEF Keyed, Of
    <3> QED BY <3>1
  <2>5. Of(T) = Of({x}) \cup Of(T \ {x}) /\ Of({x}) \cap Of(T \ {x}) = {}
    OBVIOUS
  <2>6. Of({x}) \in SUBSET S /\ Of(T \ {x}) \in SUBSET S
    OBVIOUS
  <2>7. SumOver(g, T) # SumOver(f, Of(T))
    OBVIOUS
  <2> HIDE DEF B, Of
  <2>8. SumOver(f, Of({x}) \cup Of(T \ {x})) = SumOver(f, Of({x})) + SumOver(f, Of(T \ {x}))
    <3>1. \A A, C \in SUBSET S :
            A \cap C = {} => SumOver(f, A \cup C) = SumOver(f, A) + SumOver(f, C)
      BY SumDisjoint
    <3> QED BY <2>5, <2>6, <3>1, Zenon
  <2> QED BY <2>2, <2>3, <2>4, <2>5, <2>7, <2>8
<1> QED BY <1>4, <1>5

LEMMA SumBounds ==
  ASSUME NEW S, IsFiniteSet(S), NEW f, NEW lo \in Int, NEW hi \in Int,
         \A x \in S : f[x] \in Int /\ lo <= f[x] /\ f[x] <= hi
  PROVE  /\ Cardinality(S) * lo <= SumOver(f, S)
         /\ SumOver(f, S) <= Cardinality(S) * hi
         /\ Integral(f, S)
<1>1. Integral(f, S)
  BY DEF Integral
<1> DEFINE Fine(T) == Cardinality(T) * lo <= SumOver(f, T) /\ SumOver(f, T) <= Cardinality(T) * hi
           B == {T \in SUBSET S : ~Fine(T)}
<1> SUFFICES ASSUME B # {} PROVE FALSE
  BY <1>1
<1>2. PICK T \in B : IsFiniteSet(T) /\ \A x \in T : T \ {x} \notin B
  BY SmallestPart
<1>3. IsFiniteSet(T) /\ Integral(f, T) /\ Cardinality(T) \in Nat
  BY <1>1, <1>2, SumPart, FS_CardinalityType
<1>4. CASE T = {}
  <2>1. SumOver(f, T) = 0 /\ Cardinality(T) = 0
    BY <1>3, <1>4, SumUnfolds, FS_EmptySet
  <2>2. Fine(T)
    BY <2>1
  <2> QED BY <2>2
<1>5. CASE T # {}
  <2>1. PICK x \in T : TRUE
    BY <1>5
  <2>2. Fine(T \ {x})
    BY <1>2
  <2>3. SumOver(f, T) = f[x] + SumOver(f, T \ {x})
    BY <1>3, SumRemove
  <2>4. Cardinality(T \ {x}) = Cardinality(T) - 1
    BY <1>3, FS_RemoveElement
  <2>5. f[x] \in Int /\ SumOver(f, T \ {x}) \in Int /\ lo <= f[x] /\ f[x] <= hi
    BY <1>3, SumPart
  <2>6. /\ (Cardinality(T) - 1) * lo + lo = Cardinality(T) * lo
        /\ (Cardinality(T) - 1) * hi + hi = Cardinality(T) * hi
    BY <1>3
  <2>7. Fine(T)
    BY <1>3, <2>2, <2>3, <2>4, <2>5, <2>6
  <2> QED BY <2>7
<1> QED BY <1>4, <1>5

\* A mean is between the smallest and the largest value.
LEMMA MeanBetween ==
  ASSUME NEW f, IsFiniteSet(DOMAIN f), DOMAIN f # {}, NEW lo \in Nat, NEW hi \in Nat,
         \A x \in DOMAIN f : f[x] \in Int /\ lo <= f[x] /\ f[x] <= hi
  PROVE  MeanOf(f) \in Nat /\ lo <= MeanOf(f) /\ MeanOf(f) <= hi
<1> DEFINE s == SumOver(f, DOMAIN f)
           n == Cardinality(DOMAIN f)
           q == s \div n
<1>0. Integral(f, DOMAIN f)
  BY DEF Integral
<1>1. n * lo <= s /\ s <= n * hi /\ s \in Int
  <2>1. n * lo <= s /\ s <= n * hi
    BY SumBounds
  <2>2. s \in Int
    BY <1>0, SumUnfolds
  <2> QED BY <2>1, <2>2
<1>2. n \in Nat /\ n # 0
  BY FS_CardinalityType, FS_EmptySet
<1>3. MeanOf(f) = q
  BY DEF MeanOf
<1> HIDE DEF s, n
<1>4. q \in Int /\ n * q <= s /\ s < n * q + n
  BY <1>1, <1>2
<1> HIDE DEF q
<1>5. lo <= q
  <2> SUFFICES ASSUME q + 1 <= lo PROVE FALSE
    BY <1>4
  <2>1. n * (q + 1) <= n * lo
    BY <1>2, <1>4
  <2>2. n * (q + 1) = n * q + n
    BY <1>2, <1>4
  <2> QED BY <1>1, <1>2, <1>4, <2>1, <2>2
<1>6. q <= hi
  <2> SUFFICES ASSUME hi + 1 <= q PROVE FALSE
    BY <1>4
  <2>1. n * (hi + 1) <= n * q
    BY <1>2, <1>4
  <2>2. n * (hi + 1) = n * hi + n
    BY <1>2
  <2> QED BY <1>1, <1>2, <1>4, <2>1, <2>2
<1> QED BY <1>3, <1>4, <1>5, <1>6

-----------------------------------------------------------------------------
(* Lists. *)

LEMMA MinNat ==
  ASSUME NEW S, S \subseteq Nat, S # {}
  PROVE  Min(S) \in S /\ \A y \in S : Min(S) <= y
<1>1. \E x \in S : \A y \in S : x =< y
  BY LeastNatural
<1> QED BY <1>1 DEF Min

LEMMA MaxNat ==
  ASSUME NEW S, S \subseteq Nat, IsFiniteSet(S), S # {}
  PROVE  Max(S) \in S /\ \A y \in S : y <= Max(S)
<1> DEFINE HasMax(T) == \E x \in T : \A y \in T : x >= y
           B == {T \in SUBSET S : T # {} /\ ~HasMax(T)}
<1>1. B = {}
  <2> SUFFICES ASSUME B # {} PROVE FALSE
    OBVIOUS
  <2>1. PICK T \in B : IsFiniteSet(T) /\ \A x \in T : T \ {x} \notin B
    BY SmallestPart
  <2>2. PICK x \in T : TRUE
    OBVIOUS
  <2>3. T \subseteq Nat
    OBVIOUS
  <2>4. CASE T = {x}
    BY <2>3, <2>4
  <2>5. CASE T # {x}
    <3>1. HasMax(T \ {x})
      BY <2>1, <2>5
    <3>2. PICK y \in T \ {x} : \A z \in T \ {x} : y >= z
      BY <3>1
    <3>3. CASE x >= y
      <4>1. \A z \in T : x >= z
        BY <2>3, <3>2, <3>3
      <4> QED BY <4>1
    <3>4. CASE ~(x >= y)
      <4>1. \A z \in T : y >= z
        BY <2>3, <3>2, <3>4
      <4> QED BY <3>2, <4>1
    <3> QED BY <3>3, <3>4
  <2> QED BY <2>4, <2>5
<1>2. HasMax(S)
  BY <1>1
<1>3. Max(S) \in S /\ \A y \in S : Max(S) >= y
  BY <1>2 DEF Max
<1> QED BY <1>3

\* A set of numbers can be listed in ascending order.
LEMMA AscendingExists ==
  ASSUME NEW S, S \subseteq Nat, IsFiniteSet(S)
  PROVE  \E s \in [1..Cardinality(S) -> S] :
           \A i, j \in 1..Cardinality(S) : i < j => s[i] < s[j]
<1> DEFINE Lists(T) == \E s \in [1..Cardinality(T) -> T] :
                         \A i, j \in 1..Cardinality(T) : i < j => s[i] < s[j]
           B == {T \in SUBSET S : ~Lists(T)}
<1> SUFFICES ASSUME B # {} PROVE FALSE
  OBVIOUS
<1>1. PICK T \in B : IsFiniteSet(T) /\ \A x \in T : T \ {x} \notin B
  BY SmallestPart
<1>2. CASE T = {}
  <2>1. Cardinality(T) = 0
    BY <1>2, FS_EmptySet
  <2>2. 1..Cardinality(T) = {}
    BY <2>1
  <2>3. [x \in {} |-> x] \in [1..Cardinality(T) -> T]
    BY <2>2
  <2>4. Lists(T)
    BY <2>2, <2>3
  <2> QED BY <2>4
<1>3. CASE T # {}
  <2> DEFINE x == Max(T)
             n == Cardinality(T)
  <2>1. x \in T /\ \A y \in T : y <= x
    BY <1>1, <1>3, MaxNat
  <2>2. n \in Nat /\ Cardinality(T \ {x}) = n - 1 /\ Cardinality(T \ {x}) \in Nat
    BY <1>1, <2>1, FS_CardinalityType, FS_RemoveElement
  <2>3. Lists(T \ {x})
    BY <1>1, <2>1
  <2>4. PICK s \in [1..(n - 1) -> T \ {x}] : \A i, j \in 1..(n - 1) : i < j => s[i] < s[j]
    <3>1. 1..Cardinality(T \ {x}) = 1..(n - 1)
      BY <2>2
    <3> QED BY <2>3, <3>1
  <2> HIDE DEF x, n
  <2> DEFINE t == [i \in 1..n |-> IF i = n THEN x ELSE s[i]]
  <2>5. \A i \in 1..n : i # n => i \in 1..(n - 1)
    BY <2>2
  <2>6. t \in [1..n -> T]
    BY <2>1, <2>4, <2>5
  <2>7. ASSUME NEW i \in 1..n, NEW j \in 1..n, i < j PROVE t[i] < t[j]
    <3>1. i # n /\ i \in 1..(n - 1)
      BY <2>2, <2>7
    <3>2. t[i] = s[i] /\ s[i] \in T \ {x}
      BY <2>4, <3>1
    <3>3. CASE j = n
      <4>1. t[j] = x /\ s[i] <= x /\ s[i] # x /\ s[i] \in Nat /\ x \in Nat
        BY <2>1, <3>2, <3>3
      <4> QED BY <3>2, <4>1
    <3>4. CASE j # n
      <4>1. j \in 1..(n - 1) /\ t[j] = s[j]
        BY <2>5, <3>4
      <4> QED BY <2>4, <2>7, <3>1, <3>2, <4>1
    <3> QED BY <3>3, <3>4
  <2>8. Lists(T)
    BY <2>6, <2>7 DEF n
  <2> QED BY <2>8
<1> QED BY <1>2, <1>3

\* Ascending lists every number once, in order.
LEMMA AscendingLists ==
  ASSUME NEW S, S \subseteq Nat, IsFiniteSet(S)
  PROVE  /\ Cardinality(S) \in Nat
         /\ Ascending(S) \in [1..Cardinality(S) -> S]
         /\ \A i, j \in 1..Cardinality(S) : i < j => Ascending(S)[i] < Ascending(S)[j]
         /\ \A x \in S : \E i \in 1..Cardinality(S) : Ascending(S)[i] = x
<1> DEFINE n == Cardinality(S)
           Sorted(s) == \A i, j \in DOMAIN s : i < j => s[i] < s[j]
<1>1. n \in Nat /\ IsFiniteSet(1..n) /\ Cardinality(1..n) = n
  BY FS_CardinalityType, FS_Interval
<1>2. PICK s \in [1..n -> S] : \A i, j \in 1..n : i < j => s[i] < s[j]
  BY AscendingExists
<1>3. s \in SetToSeqs(S) /\ Sorted(s)
  <2>1. \A i, j \in 1..n : i # j => s[i] # s[j]
    <3> SUFFICES ASSUME NEW i \in 1..n, NEW j \in 1..n, i # j PROVE s[i] # s[j]
      OBVIOUS
    <3>1. i < j \/ j < i
      BY <1>1
    <3>2. s[i] \in Nat /\ s[j] \in Nat
      BY <1>2
    <3> QED BY <1>2, <3>1, <3>2
  <2> QED BY <1>2, <2>1 DEF SetToSeqs, IsInjective
<1>4. Ascending(S) \in SetToSeqs(S) /\ Sorted(Ascending(S))
  BY <1>3 DEF Ascending
<1> DEFINE a == Ascending(S)
<1>5. a \in [1..n -> S] /\ \A i, j \in 1..n : i # j => a[i] # a[j]
  BY <1>4 DEF SetToSeqs, IsInjective
<1>6. \A i, j \in 1..n : i < j => a[i] < a[j]
  BY <1>4, <1>5
<1> HIDE DEF a
<1>7. a \in Injection(1..n, S)
  BY <1>5 DEF Injection, IsInjective
<1>8. a \in Surjection(1..n, S)
  BY <1>1, <1>7, FS_Injection
<1>9. \A x \in S : \E i \in 1..n : a[i] = x
  BY <1>8 DEF Surjection
<1> QED BY <1>1, <1>5, <1>6, <1>9 DEF a

\* What a function takes finitely many points to is finite.
LEMMA FiniteImage ==
  ASSUME NEW f, IsFiniteSet(DOMAIN f)
  PROVE  IsFiniteSet({f[x] : x \in DOMAIN f})
<1> DEFINE T == {f[x] : x \in DOMAIN f}
           g == [x \in DOMAIN f |-> f[x]]
<1>1. g \in Surjection(DOMAIN f, T)
  BY DEF Surjection
<1> QED BY <1>1, FS_Surjection

-----------------------------------------------------------------------------
(* Round-trip times. *)

LEMMA RttFields ==
  ASSUME NEW t \in Rtts
  PROVE  /\ t.min \in Nat /\ t.mean \in Nat /\ t.max \in Nat
         /\ t.min <= t.mean /\ t.mean <= t.max
BY DEF Rtts

LEMMA RttMade ==
  ASSUME NEW a \in Nat, NEW b \in Nat, NEW c \in Nat, a <= b, b <= c
  PROVE  [min |-> a, mean |-> b, max |-> c] \in Rtts
BY DEF Rtts

\* Statistics of statistics are in order, if these are.
LEMMA RttOfStatsTyped ==
  ASSUME NEW stats, IsFiniteSet(DOMAIN stats), \A i \in DOMAIN stats : stats[i] \in Rtts
  PROVE  RttOfStats(stats) \in SUBSET Rtts
<1> DEFINE mins  == {stats[i].min : i \in DOMAIN stats}
           maxs  == {stats[i].max : i \in DOMAIN stats}
           means == [i \in DOMAIN stats |-> stats[i].mean]
<1>1. CASE DOMAIN stats = {}
  BY <1>1 DEF RttOfStats
<1>2. CASE DOMAIN stats # {}
  <2>1. mins \subseteq Nat /\ mins # {} /\ maxs \subseteq Nat /\ maxs # {}
    BY <1>2, RttFields
  <2>2. IsFiniteSet(maxs)
    <3> DEFINE f == [i \in DOMAIN stats |-> stats[i].max]
    <3>1. IsFiniteSet({f[i] : i \in DOMAIN f})
      BY FiniteImage
    <3>2. {f[i] : i \in DOMAIN f} = maxs
      OBVIOUS
    <3> QED BY <3>1, <3>2
  <2>3. Min(mins) \in Nat /\ \A i \in DOMAIN stats : Min(mins) <= stats[i].min
    BY <2>1, MinNat
  <2>4. Max(maxs) \in Nat /\ \A i \in DOMAIN stats : stats[i].max <= Max(maxs)
    BY <2>1, <2>2, MaxNat
  <2>5. \A i \in DOMAIN means :
          means[i] \in Int /\ Min(mins) <= means[i] /\ means[i] <= Max(maxs)
    <3> SUFFICES ASSUME NEW i \in DOMAIN stats
                 PROVE  /\ stats[i].mean \in Int
                        /\ Min(mins) <= stats[i].mean /\ stats[i].mean <= Max(maxs)
      OBVIOUS
    <3> HIDE DEF mins, maxs
    <3> QED BY <2>3, <2>4, RttFields
  <2>6. DOMAIN means = DOMAIN stats
    OBVIOUS
  <2> HIDE DEF means
  <2>7. MeanOf(means) \in Nat /\ Min(mins) <= MeanOf(means) /\ MeanOf(means) <= Max(maxs)
    BY <1>2, <2>3, <2>4, <2>5, <2>6, MeanBetween
  <2>8. RttOfStats(stats) = {[min |-> Min(mins), mean |-> MeanOf(means), max |-> Max(maxs)]}
    BY <1>2 DEF RttOfStats, means
  <2> HIDE DEF mins, maxs
  <2>9. [min |-> Min(mins), mean |-> MeanOf(means), max |-> Max(maxs)] \in Rtts
    BY <2>3, <2>4, <2>7, RttMade
  <2> QED BY <2>8, <2>9
<1> QED BY <1>1, <1>2

LEMMA RttOfSamplesTyped ==
  ASSUME NEW samples, IsFiniteSet(DOMAIN samples), \A i \in DOMAIN samples : samples[i] \in Nat
  PROVE  RttOfSamples(samples) \in SUBSET Rtts
<1> DEFINE values == Range(samples)
<1>1. CASE DOMAIN samples = {}
  BY <1>1 DEF RttOfSamples
<1>2. CASE DOMAIN samples # {}
  <2>1. values \subseteq Nat /\ values # {} /\ IsFiniteSet(values)
    BY <1>2, FiniteImage DEF Range
  <2>2. Min(values) \in Nat /\ \A i \in DOMAIN samples : Min(values) <= samples[i]
    BY <2>1, MinNat DEF Range
  <2>3. Max(values) \in Nat /\ \A i \in DOMAIN samples : samples[i] <= Max(values)
    BY <2>1, MaxNat DEF Range
  <2> HIDE DEF values
  <2>4. /\ MeanOf(samples) \in Nat
        /\ Min(values) <= MeanOf(samples) /\ MeanOf(samples) <= Max(values)
    BY <1>2, <2>2, <2>3, MeanBetween
  <2>5. RttOfSamples(samples)
          = {[min |-> Min(values), mean |-> MeanOf(samples), max |-> Max(values)]}
    BY <1>2 DEF RttOfSamples, values
  <2>6. [min |-> Min(values), mean |-> MeanOf(samples), max |-> Max(values)] \in Rtts
    BY <2>2, <2>3, <2>4, RttMade
  <2> QED BY <2>5, <2>6
<1> QED BY <1>1, <1>2

\* The fields that are there keep their values.
LEMMA PresentKeeps ==
  ASSUME NEW fields
  PROVE  /\ DOMAIN Present(fields) \subseteq DOMAIN fields
         /\ \A i \in DOMAIN Present(fields) : Present(fields)[i] \in fields[i]
BY DEF Present, Get

LEMMA RttOfPresent ==
  ASSUME NEW fields, IsFiniteSet(DOMAIN fields), \A i \in DOMAIN fields : fields[i] \in SUBSET Rtts
  PROVE  RttOfStats(Present(fields)) \in SUBSET Rtts
<1> DEFINE stats == Present(fields)
<1>1. IsFiniteSet(DOMAIN stats)
  BY PresentKeeps, FS_Subset
<1>2. \A i \in DOMAIN stats : stats[i] \in Rtts
  BY PresentKeeps
<1> HIDE DEF stats
<1>3. RttOfStats(stats) \in SUBSET Rtts
  BY <1>1, <1>2, RttOfStatsTyped
<1> QED BY <1>3 DEF stats

-----------------------------------------------------------------------------
(* One iperf3 result. *)

Documents == [valid : BOOLEAN, error : BOOLEAN, intervals : TestIntervals, end : TestEnd]

TestResults == [send : Nat, reverse_send : Nat, reverse_recv : Nat, rtt : SUBSET Rtts]

LEMMA SeqElements ==
  ASSUME NEW S, NEW s \in Seq(S)
  PROVE  /\ DOMAIN s = 1..Len(s) /\ Len(s) \in Nat
         /\ IsFiniteSet(DOMAIN s)
         /\ \A i \in DOMAIN s : s[i] \in S
<1>1. DOMAIN s = 1..Len(s) /\ Len(s) \in Nat
  OBVIOUS
<1> QED BY <1>1, FS_Interval

Samples == [rtt : Nat, sender : BOOLEAN]

LEMMA IntervalFields ==
  ASSUME NEW intervals \in TestIntervals
  PROVE  /\ DOMAIN intervals \subseteq Nat /\ IsFiniteSet(DOMAIN intervals)
         /\ \A i \in DOMAIN intervals : /\ intervals[i].streams \in Seq(Samples)
                                        /\ intervals[i].sum \in SUBSET Nat
                                        /\ intervals[i].reverse \in SUBSET Nat
<1> DEFINE Interval == [streams : Seq(Samples), sum : SUBSET Nat, reverse : SUBSET Nat]
<1>1. intervals \in Seq(Interval)
  BY DEF TestIntervals, Samples
<1>2. \A r \in Interval : /\ r.streams \in Seq(Samples)
                          /\ r.sum \in SUBSET Nat /\ r.reverse \in SUBSET Nat
  OBVIOUS
<1> HIDE DEF Interval
<1> QED BY <1>1, <1>2, SeqElements

LEMMA StreamsTyped ==
  ASSUME NEW streams \in Seq(SUBSET Rtts)
  PROVE  extract_rtt_from_streams(streams) \in SUBSET Rtts
<1>1. DOMAIN streams = 1..Len(streams) /\ Len(streams) \in Nat
  OBVIOUS
<1>2. IsFiniteSet(DOMAIN streams)
  BY <1>1, FS_Interval
<1>3. \A i \in DOMAIN streams : streams[i] \in SUBSET Rtts
  OBVIOUS
<1> QED BY <1>2, <1>3, RttOfPresent DEF extract_rtt_from_streams

LEMMA SamplesTyped ==
  ASSUME NEW intervals \in TestIntervals
  PROVE  /\ IsFiniteSet(DOMAIN IntervalSamples(intervals))
         /\ \A p \in DOMAIN IntervalSamples(intervals) : IntervalSamples(intervals)[p] \in Nat
<1> DEFINE Streams(i) == {i} \X DOMAIN intervals[i].streams
           f == [i \in DOMAIN intervals |-> Streams(i)]
           all == UNION {Streams(i) : i \in DOMAIN intervals}
<1>1. \A i \in DOMAIN intervals : intervals[i].streams \in Seq(Samples)
  BY IntervalFields
<1>2. IsFiniteSet(DOMAIN intervals)
  BY IntervalFields
<1>3. ASSUME NEW i \in DOMAIN intervals PROVE IsFiniteSet(Streams(i))
  <2>1. intervals[i].streams \in Seq(Samples)
    BY <1>1
  <2>2. IsFiniteSet(DOMAIN intervals[i].streams) /\ IsFiniteSet({i})
    BY <2>1, SeqElements, FS_Singleton
  <2> QED BY <2>2, FS_Product
<1>4. IsFiniteSet(all)
  <2>1. DOMAIN f = DOMAIN intervals /\ \A i \in DOMAIN f : f[i] = Streams(i)
    OBVIOUS
  <2>2. {f[i] : i \in DOMAIN f} = {Streams(i) : i \in DOMAIN intervals}
    OBVIOUS
  <2> HIDE DEF f
  <2>3. IsFiniteSet({f[i] : i \in DOMAIN f})
    BY <1>2, <2>1, FiniteImage
  <2>4. IsFiniteSet({Streams(i) : i \in DOMAIN intervals})
    BY <2>2, <2>3
  <2>5. \A T \in {Streams(i) : i \in DOMAIN intervals} : IsFiniteSet(T)
    BY <1>3
  <2> HIDE DEF Streams
  <2> QED BY <2>4, <2>5, FS_UNION
<1>5. DOMAIN IntervalSamples(intervals) \in SUBSET all
  BY DEF IntervalSamples
<1>6. IsFiniteSet(DOMAIN IntervalSamples(intervals))
  BY <1>4, <1>5, FS_Subset
<1>7. ASSUME NEW p \in DOMAIN IntervalSamples(intervals)
      PROVE  IntervalSamples(intervals)[p] \in Nat
  <2>1. PICK i \in DOMAIN intervals : p \in Streams(i)
    BY <1>5
  <2>2. p[1] = i /\ p[2] \in DOMAIN intervals[i].streams
    BY <2>1
  <2>3. intervals[i].streams[p[2]] \in Samples
    <3>1. intervals[i].streams \in Seq(Samples)
      BY <1>1
    <3> QED BY <2>2, <3>1, SeqElements
  <2>4. IntervalSamples(intervals)[p] = intervals[p[1]].streams[p[2]].rtt
    BY DEF IntervalSamples
  <2> QED BY <2>2, <2>3, <2>4 DEF Samples
<1> QED BY <1>6, <1>7

LEMMA PartialTyped ==
  ASSUME NEW intervals \in TestIntervals
  PROVE  PartialResult(intervals) \in TestResults
<1> DEFINE summed == {i \in DOMAIN intervals : intervals[i].sum # {}}
           last   == IF summed = {} THEN [sum |-> {}, reverse |-> {}]
                     ELSE intervals[Max(summed)]
<1>1. \A i \in DOMAIN intervals :
        intervals[i].sum \in SUBSET Nat /\ intervals[i].reverse \in SUBSET Nat
  BY IntervalFields
<1>2. summed \subseteq Nat /\ summed \in SUBSET DOMAIN intervals
  BY IntervalFields
<1>3. IsFiniteSet(summed)
  BY <1>2, IntervalFields, FS_Subset
<1>4. summed # {} => Max(summed) \in summed
  BY <1>2, <1>3, MaxNat
<1>5. last.sum \in SUBSET Nat /\ last.reverse \in SUBSET Nat
  <2>1. CASE summed = {}
    BY <2>1
  <2>2. CASE summed # {}
    <3>1. Max(summed) \in DOMAIN intervals
      BY <1>4, <2>2
    <3> HIDE DEF summed
    <3> QED BY <1>1, <2>2, <3>1
  <2> QED BY <2>1, <2>2
<1>6. RttOfSamples(IntervalSamples(intervals)) \in SUBSET Rtts
  BY SamplesTyped, RttOfSamplesTyped
<1>7. PartialResult(intervals) =
        [send |-> Get(last.sum, 0), reverse_send |-> 0, reverse_recv |-> Get(last.reverse, 0),
         rtt |-> RttOfSamples(IntervalSamples(intervals))]
  BY DEF PartialResult
<1> HIDE DEF last
<1>8. Get(last.sum, 0) \in Nat /\ Get(last.reverse, 0) \in Nat
  BY <1>5 DEF Get
<1> QED BY <1>6, <1>7, <1>8 DEF TestResults

\* Whatever a test wrote, its result is in order.
LEMMA ParsedTyped ==
  ASSUME NEW json \in Documents
  PROVE  parse_iperf3_json(json) \in TestResults
<1> DEFINE start == IF json.error THEN PartialResult(json.intervals) ELSE NoResult
<1>1. NoResult \in TestResults
  BY DEF NoResult, TestResults
<1>2. json.intervals \in TestIntervals /\ json.end \in TestEnd
  BY DEF Documents
<1>3. start \in TestResults
  BY <1>1, <1>2, PartialTyped
<1>4. extract_rtt_from_streams(json.end.streams) \in SUBSET Rtts
  BY <1>2, StreamsTyped DEF TestEnd
<1> DEFINE merged ==
      [send         |-> Get(json.end.sum_sent, start.send),
       reverse_send |-> Get(json.end.sum_sent_bidir_reverse, 0),
       reverse_recv |-> Get(json.end.sum_received_bidir_reverse, start.reverse_recv),
       rtt          |-> IF start.rtt # {} THEN start.rtt
                        ELSE extract_rtt_from_streams(json.end.streams)]
<1>5. parse_iperf3_json(json) \in {NoResult, start, merged}
  BY DEF parse_iperf3_json
<1> HIDE DEF start
<1>6. /\ json.end.sum_sent \in SUBSET Nat /\ json.end.sum_sent_bidir_reverse \in SUBSET Nat
      /\ json.end.sum_received_bidir_reverse \in SUBSET Nat
      /\ start.send \in Nat /\ start.reverse_recv \in Nat /\ start.rtt \in SUBSET Rtts
  BY <1>2, <1>3 DEF TestEnd, TestResults
<1>7. merged \in TestResults
  BY <1>4, <1>6 DEF Get, TestResults
<1> QED BY <1>1, <1>3, <1>5, <1>7

\* A test that ended well is counted with what its end section says.
LEMMA GoodCounts ==
  ASSUME NEW json \in Documents, json.valid, ~json.error,
         json.end.sum_sent # {}, 0 \notin json.end.sum_sent
  PROVE  parse_iperf3_json(json).send > 0
<1>1. parse_iperf3_json(json).send = Get(json.end.sum_sent, 0)
  BY DEF parse_iperf3_json, NoResult
<1>2. json.end.sum_sent \subseteq Nat
  BY DEF Documents, TestEnd
<1>3. Get(json.end.sum_sent, 0) \in json.end.sum_sent
  BY DEF Get
<1> QED BY <1>1, <1>2, <1>3

-----------------------------------------------------------------------------
(* Aggregation. *)

\* The peers a node is taken to have tested are those for which it initiates,
\* each of them once.
LEMMA TestedPeers ==
  ASSUME NEW n \in Nodes
  PROVE  /\ IsFiniteSet(DOMAIN tested_peers(n))
         /\ \E k \in Nat : k <= Cardinality(ToSet(Peers[n])) /\ DOMAIN tested_peers(n) = 1..k
         /\ \A i \in DOMAIN tested_peers(n) :
              /\ tested_peers(n)[i] \in ToSet(Peers[n]) /\ tested_peers(n)[i] \in Nodes
              /\ should_node_initiate_test(n, tested_peers(n)[i])
         /\ \A p \in ToSet(Peers[n]) :
              should_node_initiate_test(n, p) => \E i \in DOMAIN tested_peers(n) : tested_peers(n)[i] = p
         /\ \A i, j \in DOMAIN tested_peers(n) : tested_peers(n)[i] = tested_peers(n)[j] => i = j
<1> DEFINE s == Peers[n]
           own == {i \in DOMAIN s : should_node_initiate_test(n, s[i])}
           t == tested_peers(n)
           a == Ascending(own)
           k == Cardinality(own)
<1>1. /\ s \in Seq(Nodes) /\ IsInjective(s)
      /\ DOMAIN s \subseteq Nat /\ IsFiniteSet(DOMAIN s) /\ \A i \in DOMAIN s : s[i] \in Nodes
  <2>1. s \in Seq(Nodes) /\ IsInjective(s)
    BY PeersAssumption
  <2> HIDE DEF s
  <2> QED BY <2>1, SeqElements
<1> HIDE DEF s
<1>2. own \subseteq Nat /\ IsFiniteSet(own) /\ own \in SUBSET DOMAIN s /\ k <= Cardinality(DOMAIN s)
  <2>1. own \in SUBSET DOMAIN s
    OBVIOUS
  <2> HIDE DEF own
  <2> QED BY <1>1, <2>1, FS_Subset
<1>3. t = [i \in DOMAIN a |-> s[a[i]]]
  BY DEF tested_peers, Entries, s
<1>4. /\ k \in Nat /\ a \in [1..k -> own]
      /\ \A i, j \in 1..k : i < j => a[i] < a[j]
      /\ \A x \in own : \E i \in 1..k : a[i] = x
  <2> HIDE DEF own
  <2> QED BY <1>2, AscendingLists
<1>5. \A i \in own : s[i] \in ToSet(s) /\ s[i] \in Nodes /\ should_node_initiate_test(n, s[i])
  BY <1>1 DEF ToSet
<1>6. ASSUME NEW p \in ToSet(s), should_node_initiate_test(n, p)
      PROVE  \E i \in own : s[i] = p
  BY <1>6 DEF ToSet
<1>7. Cardinality(DOMAIN s) = Cardinality(ToSet(s))
  <2>1. s \in Surjection(DOMAIN s, ToSet(s)) /\ s \in Injection(DOMAIN s, ToSet(s))
    BY <1>1 DEF Surjection, Injection, ToSet, IsInjective
  <2> QED BY <1>1, <2>1, FS_Surjection
<1> HIDE DEF a, k, t
<1>8. DOMAIN t = 1..k
  BY <1>3, <1>4
<1>9. \A i \in 1..k : t[i] = s[a[i]] /\ a[i] \in own
  BY <1>3, <1>4
<1>10. ASSUME NEW i \in 1..k, NEW j \in 1..k, t[i] = t[j] PROVE i = j
  <2>1. a[i] = a[j]
    BY <1>1, <1>2, <1>9, <1>10 DEF IsInjective
  <2>2. a[i] \in Nat /\ a[j] \in Nat
    BY <1>2, <1>9
  <2>3. ~(i < j) /\ ~(j < i)
    BY <1>4, <2>1, <2>2
  <2> QED BY <1>4, <2>3
<1>11. IsFiniteSet(1..k)
  BY <1>4, FS_Interval
<1>12. \A p \in ToSet(s) : should_node_initiate_test(n, p) => \E i \in 1..k : t[i] = p
  BY <1>4, <1>6, <1>9
<1>13. \A i \in 1..k : t[i] \in ToSet(s) /\ t[i] \in Nodes /\ should_node_initiate_test(n, t[i])
  <2> HIDE DEF own
  <2> QED BY <1>5, <1>9
<1>14. k <= Cardinality(ToSet(s))
  BY <1>2, <1>7 DEF k
<1> QED BY <1>4, <1>8, <1>10, <1>11, <1>12, <1>13, <1>14 DEF t, s

\* What a pod's output may be.
Outputs == Seq([peer : Nodes, json : Documents])

LEMMA OutputFields ==
  ASSUME NEW output \in Outputs
  PROVE  /\ DOMAIN output = 1..Len(output) /\ Len(output) \in Nat
         /\ DOMAIN output \subseteq Nat /\ IsFiniteSet(DOMAIN output)
         /\ \A i \in DOMAIN output : output[i].peer \in Nodes /\ output[i].json \in Documents
<1> DEFINE Test == [peer : Nodes, json : Documents]
<1>1. output \in Seq(Test)
  BY DEF Outputs
<1>2. \A r \in Test : r.peer \in Nodes /\ r.json \in Documents
  OBVIOUS
<1> HIDE DEF Test
<1> QED BY <1>1, <1>2, SeqElements

Measured(output) ==
  {i \in DOMAIN output : LET r == JsonResult(output, i)
                         IN  r.send > 0 \/ r.reverse_recv > 0 \/ r.rtt # {}}

LEMMA ResultsTyped ==
  ASSUME NEW output \in Outputs
  PROVE  /\ DOMAIN test_results(output) = 1..Cardinality(Measured(output))
         /\ Cardinality(Measured(output)) \in Nat
         /\ \A i \in DOMAIN test_results(output) : test_results(output)[i].result \in TestResults
<1> DEFINE M == Measured(output)
           results == [i \in DOMAIN output |->
                         [tested |-> output[i].peer, result |-> JsonResult(output, i)]]
           a == Ascending(M)
<1>1. M \subseteq Nat /\ M \in SUBSET DOMAIN output /\ IsFiniteSet(M)
  <2>1. M \in SUBSET DOMAIN output
    BY DEF Measured
  <2> HIDE DEF M
  <2> QED BY <2>1, OutputFields, FS_Subset
<1>2. M = {i \in DOMAIN output : LET r == results[i].result
                                IN  r.send > 0 \/ r.reverse_recv > 0 \/ r.rtt # {}}
  BY DEF Measured
<1>3. test_results(output) = Entries(results, M)
  BY <1>2 DEF test_results
<1>4. \A i \in DOMAIN output : JsonResult(output, i) \in TestResults
  BY ParsedTyped, OutputFields DEF JsonResult, NoResult, TestResults
<1>5. \A i \in DOMAIN output : results[i].result \in TestResults
  BY <1>4
<1> HIDE DEF M, results
<1>6. a \in [1..Cardinality(M) -> M] /\ Cardinality(M) \in Nat
  BY <1>1, AscendingLists
<1>7. Entries(results, M) = [i \in DOMAIN a |-> results[a[i]]]
  BY DEF Entries
<1> HIDE DEF a
<1> QED BY <1>1, <1>3, <1>5, <1>6, <1>7 DEF M

\* A test is among the results once.
LEMMA ResultsDistinct ==
  ASSUME NEW output \in Outputs,
         \A i, j \in DOMAIN output : output[i].peer = output[j].peer => i = j
  PROVE  \A i, j \in DOMAIN test_results(output) :
           test_results(output)[i].tested = test_results(output)[j].tested => i = j
<1> DEFINE M == Measured(output)
           results == [i \in DOMAIN output |->
                         [tested |-> output[i].peer, result |-> JsonResult(output, i)]]
           a == Ascending(M)
           k == Cardinality(M)
<1>1. M \subseteq Nat /\ M \in SUBSET DOMAIN output /\ IsFiniteSet(M)
  <2>1. M \in SUBSET DOMAIN output
    BY DEF Measured
  <2> HIDE DEF M
  <2> QED BY <2>1, OutputFields, FS_Subset
<1>2. M = {i \in DOMAIN output : LET r == results[i].result
                                IN  r.send > 0 \/ r.reverse_recv > 0 \/ r.rtt # {}}
  BY DEF Measured
<1>3. test_results(output) = Entries(results, M)
  BY <1>2 DEF test_results
<1>4. \A i \in DOMAIN output : results[i].tested = output[i].peer
  OBVIOUS
<1> HIDE DEF M, results
<1>5. /\ a \in [1..k -> M] /\ k \in Nat
      /\ \A i, j \in 1..k : i < j => a[i] < a[j]
  BY <1>1, AscendingLists
<1>6. Entries(results, M) = [i \in DOMAIN a |-> results[a[i]]]
  BY DEF Entries
<1> HIDE DEF a, k
<1> SUFFICES ASSUME NEW i \in 1..k, NEW j \in 1..k, results[a[i]].tested = results[a[j]].tested
             PROVE  i = j
  BY <1>3, <1>5, <1>6
<1>7. a[i] = a[j] /\ a[i] \in Nat
  BY <1>1, <1>4, <1>5
<1>8. ~(i < j) /\ ~(j < i)
  BY <1>5, <1>7
<1> QED BY <1>5, <1>8

\* An output all of whose tests ended well is credited entirely.
LEMMA GoodResults ==
  ASSUME NEW output \in Outputs,
         \A i \in DOMAIN output : /\ output[i].json.valid /\ ~output[i].json.error
                                  /\ output[i].json.end.sum_sent # {}
                                  /\ 0 \notin output[i].json.end.sum_sent
  PROVE  DOMAIN test_results(output) = DOMAIN output
<1>1. ASSUME NEW i \in DOMAIN output PROVE i \in Measured(output)
  <2>1. output[i].json \in Documents /\ DOMAIN output = 1..Len(output) /\ Len(output) \in Nat
    BY OutputFields
  <2>2. i > 1 => i - 1 \in DOMAIN output
    BY <2>1
  <2>3. JsonResult(output, i) = parse_iperf3_json(output[i].json)
    BY <2>2 DEF JsonResult
  <2>4. JsonResult(output, i).send > 0
    BY <2>1, <2>3, GoodCounts
  <2> QED BY <2>4 DEF Measured
<1>2. Measured(output) = DOMAIN output
  BY <1>1 DEF Measured
<1>3. DOMAIN output = 1..Len(output) /\ Len(output) \in Nat
  BY OutputFields
<1>4. Cardinality(DOMAIN output) = Len(output)
  <2>1. Cardinality(1..Len(output)) = IF 1 > Len(output) THEN 0 ELSE Len(output) - 1 + 1
    BY <1>3, FS_Interval
  <2> QED BY <1>3, <2>1
<1> QED BY <1>2, <1>3, <1>4, ResultsTyped

\* What the driver may have collected.
PodsTyped(ps) ==
  DOMAIN ps \subseteq Nodes /\ \A n \in DOMAIN ps : ps[n].output \in Outputs

\* The credits of one node.
CreditsOf(ps, n) ==
  {[from |-> n, to |-> tested_peers(n)[i], tested |-> test_results(ps[n].output)[i].tested,
    result |-> test_results(ps[n].output)[i].result]
   : i \in DOMAIN tested_peers(n) \cap DOMAIN test_results(ps[n].output)}

LEMMA CreditsTyped ==
  ASSUME NEW ps, PodsTyped(ps)
  PROVE  /\ Credits(ps) = UNION {CreditsOf(ps, n) : n \in Named(ps)}
         /\ IsFiniteSet(Credits(ps))
         /\ \A c \in Credits(ps) : /\ c.from \in Named(ps) /\ c.to \in Nodes
                                     /\ c.result \in TestResults
<1>1. Credits(ps) = UNION {CreditsOf(ps, n) : n \in Named(ps)}
  BY DEF Credits, CreditsOf
<1>2. Named(ps) \in SUBSET Nodes /\ \A n \in Named(ps) : ps[n].output \in Outputs
  BY DEF Named, PodsTyped
<1>3. ASSUME NEW n \in Named(ps)
      PROVE  /\ IsFiniteSet(CreditsOf(ps, n))
             /\ \A c \in CreditsOf(ps, n) : c.from = n /\ c.to \in Nodes /\ c.result \in TestResults
  <2> DEFINE D == DOMAIN tested_peers(n) \cap DOMAIN test_results(ps[n].output)
             f == [i \in D |-> [from |-> n, to |-> tested_peers(n)[i],
                                tested |-> test_results(ps[n].output)[i].tested,
                                result |-> test_results(ps[n].output)[i].result]]
  <2>1. n \in Nodes /\ ps[n].output \in Outputs
    BY <1>2
  <2>2. IsFiniteSet(D)
    <3>1. IsFiniteSet(DOMAIN tested_peers(n)) /\ D \in SUBSET DOMAIN tested_peers(n)
      BY <2>1, TestedPeers
    <3> HIDE DEF D
    <3> QED BY <3>1, FS_Subset
  <2>3. CreditsOf(ps, n) = {f[i] : i \in DOMAIN f}
    BY DEF CreditsOf
  <2>4. \A i \in D : f[i].from = n /\ f[i].to \in Nodes /\ f[i].result \in TestResults
    BY <2>1, TestedPeers, ResultsTyped
  <2>5. DOMAIN f = D
    OBVIOUS
  <2> HIDE DEF f, D
  <2> QED BY <2>2, <2>3, <2>4, <2>5, FiniteImage
<1>4. IsFiniteSet(Credits(ps))
  <2> DEFINE f == [n \in Named(ps) |-> CreditsOf(ps, n)]
  <2>1. IsFiniteSet(Named(ps))
    BY <1>2, NodesAssumption, FS_Subset
  <2>2. {f[n] : n \in DOMAIN f} = {CreditsOf(ps, n) : n \in Named(ps)} /\ DOMAIN f = Named(ps)
    OBVIOUS
  <2> HIDE DEF f
  <2>3. IsFiniteSet({CreditsOf(ps, n) : n \in Named(ps)})
    BY <2>1, <2>2, FiniteImage
  <2>4. \A T \in {CreditsOf(ps, n) : n \in Named(ps)} : IsFiniteSet(T)
    BY <1>3
  <2> QED BY <1>1, <2>3, <2>4, FS_UNION
<1> QED BY <1>1, <1>3, <1>4

LEMMA SumZeroRest ==
  ASSUME NEW D, IsFiniteSet(D), NEW K \in SUBSET D, NEW g, Integral(g, K),
         \A n \in D \ K : g[n] = 0
  PROVE  SumOver(g, D) = SumOver(g, K) /\ Integral(g, D)
<1> DEFINE R == D \ K
<1>1. Integral(g, D)
  BY DEF Integral
<1>2. IsFiniteSet(R)
  BY FS_Subset
<1>3. \A n \in R : g[n] \in Int /\ 0 <= g[n] /\ g[n] <= 0
  OBVIOUS
<1>4. R \in SUBSET D /\ K \cup R = D /\ K \cap R = {}
  OBVIOUS
<1> HIDE DEF R
<1>5. Cardinality(R) * 0 <= SumOver(g, R) /\ SumOver(g, R) <= Cardinality(R) * 0
  BY <1>2, <1>3, SumBounds
<1>6. SumOver(g, R) \in Int /\ SumOver(g, K) \in Int
  BY <1>1, <1>4, SumPart
<1>7. Cardinality(R) \in Nat
  BY <1>2, FS_CardinalityType
<1>8. SumOver(g, R) = 0
  BY <1>5, <1>6, <1>7
<1>9. SumOver(g, K \cup R) = SumOver(g, K) + SumOver(g, R)
  BY <1>1, <1>4, SumDisjoint
<1>10. SumOver(g, K \cup R) = SumOver(g, D)
  BY <1>4
<1> QED BY <1>1, <1>6, <1>8, <1>9, <1>10

\* If every credited peer has metrics, what is sent is what is received.
LEMMA TotalsAgree ==
  ASSUME NEW ps, PodsTyped(ps),
         \A c \in Credits(ps) : c.to \in Named(ps)
  PROVE  LET m == aggregate_bidirectional_results(ps, Credits(ps))
         IN  TotalSend(m) = TotalRecv(m) /\ TotalSend(m) \in Int
<1> DEFINE cs == Credits(ps)
           K == Named(ps)
           D == DOMAIN ps
           m == aggregate_bidirectional_results(ps, cs)
           f == [c \in cs |-> c.result.send]
           b == [c \in cs |-> reverse_throughput(c.result)]
           from == [c \in cs |-> c.from]
           to == [c \in cs |-> c.to]
           s == [n \in D |-> m[n].send]
           r == [n \in D |-> m[n].recv]
           fs == [n \in K |-> SumOver(f, Keyed(cs, from, {n}))]
           bs == [n \in K |-> SumOver(b, Keyed(cs, to, {n}))]
           fr == [n \in K |-> SumOver(f, Keyed(cs, to, {n}))]
           br == [n \in K |-> SumOver(b, Keyed(cs, from, {n}))]
<1>1. IsFiniteSet(D) /\ K \in SUBSET D /\ IsFiniteSet(K)
  <2>1. D \in SUBSET Nodes /\ K \in SUBSET D
    BY DEF PodsTyped, Named
  <2> HIDE DEF D, K
  <2> QED BY <2>1, NodesAssumption, FS_Subset
<1>2. /\ IsFiniteSet(cs)
      /\ \A c \in cs : c.from \in K /\ c.to \in K /\ c.result \in TestResults
  BY CreditsTyped
<1>3. Integral(f, cs) /\ Integral(b, cs)
  <2>1. \A c \in cs : c.result.send \in Int /\ reverse_throughput(c.result) \in Int
    BY <1>2 DEF TestResults, reverse_throughput
  <2> HIDE DEF cs
  <2> QED BY <2>1 DEF Integral
<1>4. ASSUME NEW T \in SUBSET cs PROVE Forward(T) = SumOver(f, T) /\ Backward(T) = SumOver(b, T)
  <2>1. IsFiniteSet(T) /\ Integral(f, T) /\ Integral(b, T)
    <3> HIDE DEF f, b, cs
    <3> QED BY <1>2, <1>3, SumPart
  <2> DEFINE ft == [c \in T |-> c.result.send]
             bt == [c \in T |-> reverse_throughput(c.result)]
  <2>2. \A c \in T : f[c] = ft[c] /\ b[c] = bt[c]
    OBVIOUS
  <2>3. Forward(T) = SumOver(ft, T) /\ Backward(T) = SumOver(bt, T)
    BY DEF Forward, Backward
  <2> HIDE DEF f, b, ft, bt, cs
  <2> QED BY <2>1, <2>2, <2>3, SumSame
<1>5. /\ \A n \in K : s[n] = fs[n] + bs[n] /\ r[n] = fr[n] + br[n]
      /\ \A n \in D \ K : s[n] = 0 /\ r[n] = 0
  <2>1. ASSUME NEW n \in K PROVE s[n] = fs[n] + bs[n] /\ r[n] = fr[n] + br[n]
    <3>1. m[n] = finalize_node_metrics(cs, K, n) /\ n \in D
      BY <1>1 DEF aggregate_bidirectional_results, Named
    <3>2. m[n].send = total_send(cs, n) /\ m[n].recv = total_recv(cs, K, n)
      BY <3>1 DEF finalize_node_metrics
    <3>3. /\ {c \in cs : c.from = n} = Keyed(cs, from, {n})
          /\ {c \in cs : c.to = n} = Keyed(cs, to, {n})
      BY DEF Keyed
    <3>4. {c \in cs : c.from = n /\ c.to \in K} = {c \in cs : c.from = n}
      BY <1>2
    <3>5. /\ total_send(cs, n) = Forward(Keyed(cs, from, {n})) + Backward(Keyed(cs, to, {n}))
          /\ total_recv(cs, K, n) = Forward(Keyed(cs, to, {n})) + Backward(Keyed(cs, from, {n}))
      BY <3>3, <3>4 DEF total_send, total_recv
    <3>6. Keyed(cs, from, {n}) \in SUBSET cs /\ Keyed(cs, to, {n}) \in SUBSET cs
      BY DEF Keyed
    <3>7. s[n] = m[n].send /\ r[n] = m[n].recv
      BY <3>1
    <3>8. /\ Forward(Keyed(cs, from, {n})) = fs[n] /\ Backward(Keyed(cs, to, {n})) = bs[n]
          /\ Forward(Keyed(cs, to, {n})) = fr[n] /\ Backward(Keyed(cs, from, {n})) = br[n]
      BY <1>4, <3>6
    <3> HIDE DEF m, s, r, fs, bs, fr, br, cs, K
    <3> QED BY <3>2, <3>5, <3>7, <3>8
  <2>2. ASSUME NEW n \in D \ K PROVE s[n] = 0 /\ r[n] = 0
    BY <2>2 DEF aggregate_bidirectional_results, Named, NoMetrics
  <2> QED BY <2>1, <2>2
<1>6. /\ SumsByKey(fs, cs, f, from, K) /\ SumsByKey(bs, cs, b, to, K)
      /\ SumsByKey(fr, cs, f, to, K)   /\ SumsByKey(br, cs, b, from, K)
  BY DEF SumsByKey
<1>7. Keyed(cs, from, K) = cs /\ Keyed(cs, to, K) = cs
  BY <1>2 DEF Keyed
<1>8. TotalSend(m) = SumOver(s, D) /\ TotalRecv(m) = SumOver(r, D)
  <2>1. DOMAIN m = D
    BY DEF aggregate_bidirectional_results
  <2> QED BY <2>1 DEF TotalSend, TotalRecv
<1> HIDE DEF cs, K, D, m, f, b, from, to, s, r, fs, bs, fr, br
<1>9. /\ SumOver(fs, K) = SumOver(f, cs) /\ Integral(fs, K)
      /\ SumOver(fr, K) = SumOver(f, cs) /\ Integral(fr, K)
  <2>1. SumOver(fs, K) = SumOver(f, Keyed(cs, from, K)) /\ Integral(fs, K)
    BY <1>1, <1>2, <1>3, <1>6, SumByKey
  <2>2. SumOver(fr, K) = SumOver(f, Keyed(cs, to, K)) /\ Integral(fr, K)
    BY <1>1, <1>2, <1>3, <1>6, SumByKey
  <2> QED BY <1>7, <2>1, <2>2
<1>10. /\ SumOver(bs, K) = SumOver(b, cs) /\ Integral(bs, K)
       /\ SumOver(br, K) = SumOver(b, cs) /\ Integral(br, K)
  <2>1. SumOver(bs, K) = SumOver(b, Keyed(cs, to, K)) /\ Integral(bs, K)
    BY <1>1, <1>2, <1>3, <1>6, SumByKey
  <2>2. SumOver(br, K) = SumOver(b, Keyed(cs, from, K)) /\ Integral(br, K)
    BY <1>1, <1>2, <1>3, <1>6, SumByKey
  <2> QED BY <1>7, <2>1, <2>2
<1>11. /\ SumOver(s, K) = SumOver(f, cs) + SumOver(b, cs) /\ Integral(s, K)
       /\ SumOver(r, K) = SumOver(f, cs) + SumOver(b, cs) /\ Integral(r, K)
  <2>1. SumOver(s, K) = SumOver(fs, K) + SumOver(bs, K)
    BY <1>1, <1>5, <1>9, <1>10, SumAdd
  <2>2. SumOver(r, K) = SumOver(fr, K) + SumOver(br, K)
    BY <1>1, <1>5, <1>9, <1>10, SumAdd
  <2>3. Integral(s, K) /\ Integral(r, K)
    BY <1>5, <1>9, <1>10 DEF Integral
  <2> QED BY <1>9, <1>10, <2>1, <2>2, <2>3
<1>12. SumOver(f, cs) \in Int /\ SumOver(b, cs) \in Int
  BY <1>2, <1>3, SumUnfolds
<1>13. SumOver(s, D) = SumOver(s, K) /\ SumOver(r, D) = SumOver(r, K)
  BY <1>1, <1>5, <1>11, SumZeroRest
<1>14. TotalSend(m) = TotalRecv(m) /\ TotalSend(m) \in Int
  BY <1>8, <1>11, <1>12, <1>13
<1> QED BY <1>14 DEF m, cs

-----------------------------------------------------------------------------
(* Who tests. *)

\* The sum of two hashes, whose parity decides, is the same from both sides.
LEMMA HashSum ==
  ASSUME NEW a \in Nodes, NEW b \in Nodes
  PROVE  /\ Hash[a] \in Nat /\ Hash[b] \in Nat
         /\ Hash[a] + Hash[b] = Hash[b] + Hash[a]
         /\ a \in Nat /\ b \in Nat
BY NodesAssumption, HashAssumption

\* The two nodes of a connection agree on who tests it: of two different nodes
\* exactly one initiates, also when their hashes are equal
\* (should_node_initiate_test).
THEOREM OneInitiator ==
  ASSUME NEW a \in Nodes, NEW b \in Nodes, a # b
  PROVE  should_node_initiate_test(a, b) <=> ~should_node_initiate_test(b, a)
<1>1. CASE Hash[a] = Hash[b]
  <2>1. should_node_initiate_test(a, b) <=> a < b
    BY <1>1 DEF should_node_initiate_test
  <2>2. should_node_initiate_test(b, a) <=> b < a
    BY <1>1 DEF should_node_initiate_test
  <2> QED
    BY <2>1, <2>2, HashSum
<1>2. CASE Hash[a] # Hash[b] /\ (Hash[a] + Hash[b]) % 2 = 0
  <2>1. (Hash[b] + Hash[a]) % 2 = 0
    BY <1>2, HashSum
  <2>2. should_node_initiate_test(a, b) <=> Hash[a] < Hash[b]
    BY <1>2 DEF should_node_initiate_test
  <2>3. should_node_initiate_test(b, a) <=> Hash[b] < Hash[a]
    BY <1>2, <2>1 DEF should_node_initiate_test
  <2> QED
    BY <1>2, <2>2, <2>3, HashSum
<1>3. CASE Hash[a] # Hash[b] /\ (Hash[a] + Hash[b]) % 2 # 0
  <2>1. (Hash[b] + Hash[a]) % 2 # 0
    BY <1>3, HashSum
  <2>2. should_node_initiate_test(a, b) <=> Hash[a] > Hash[b]
    BY <1>3 DEF should_node_initiate_test
  <2>3. should_node_initiate_test(b, a) <=> Hash[b] > Hash[a]
    BY <1>3, <2>1 DEF should_node_initiate_test
  <2> QED
    BY <1>3, <2>2, <2>3, HashSum
<1> QED
  BY <1>1, <1>2, <1>3

-----------------------------------------------------------------------------
(* The driver's loops. *)

\* A set of nodes that is not empty has a first one.
LEMMA FirstNode ==
  ASSUME NEW S, S \subseteq Nodes, S # {}
  PROVE  Min(S) \in S
<1>1. S \subseteq Nat
  BY NodesAssumption
<1> QED BY <1>1, MinNat

Loops == {"sets", "ready", "logs", "exit_code", "results", "delete"}

\* A loop has a node to visit, and the polls of a pod stay below their limit.
LoopsOn ==
  /\ pc \in Loops => todo # {}
  /\ pc \in {"ready", "sleep", "list", "logs", "exit_code", "results", "parse"} => sets # {}
  /\ attempts < MaxAttempts

\* What the deletions have passed by is paid for.
LeftIsPaid ==
  /\ pc = "delete" => todo \subseteq sets /\ Cardinality(sets \ todo) <= faults
  /\ pc = "unservice" => Cardinality(sets) <= faults
  /\ LeftoversAreFaults

BenchInv == BenchTypeOK /\ LoopsOn /\ LeftIsPaid

LEMMA PodKeeps ==
  ASSUME BenchInv, PodNext
  PROVE  BenchTypeOK' /\ UNCHANGED driverVars /\ faults <= faults'
<1> PICK n \in Nodes :
      \/ PodStarts(n)
      \/ PodStep(n)
      \/ \E p \in PeerSet(n), kind \in {"partial", "refused", "garbled"} : TestFails(n, p, kind)
      \/ ContainerDies(n)
      \/ BackOff(n)
      \/ ContainerRestarts(n)
  BY DEF PodNext
<1> USE DEF BenchInv, BenchTypeOK, ClientStates, FileKinds
<1>1. UNCHANGED driverVars /\ faults <= faults' /\ faults' \in 0..MaxFaults
  BY BenchAssumption DEF PodStarts, PodStep, ClientAnnounces, TestsStart, TestSucceeds, TestFails, Tested,
      ClientFinishes, ContainerDies, BackOff, ContainerRestarts, Fault
<1>2. client' \in [Nodes -> ClientStates]
  BY DEF PodStarts, PodStep, ClientAnnounces, TestsStart, TestSucceeds, TestFails, Tested,
      ClientFinishes, ContainerDies, BackOff, ContainerRestarts
<1>3. exitCode' \in [Nodes -> {"none", "0", "1"}]
  BY DEF PodStarts, PodStep, ClientAnnounces, TestsStart, TestSucceeds, TestFails, Tested,
      ClientFinishes, ContainerDies, BackOff, ContainerRestarts
<1>4. files' \in [Nodes -> [Nodes -> FileKinds]]
  BY DEF PodStarts, PodStep, ClientAnnounces, TestsStart, TestSucceeds, TestFails, Tested,
      ClientFinishes, ContainerDies, BackOff, ContainerRestarts
<1>5. restarted' \subseteq Nodes
  BY DEF PodStarts, PodStep, ClientAnnounces, TestsStart, TestSucceeds, TestFails, Tested,
      ClientFinishes, ContainerDies, BackOff, ContainerRestarts
<1> QED BY <1>1, <1>2, <1>3, <1>4, <1>5 DEF driverVars

\* Taking the current node off the list leaves sets \ todo as it is, or adds one.
LEMMA VisitCurrent ==
  ASSUME NEW S, NEW T, NEW c, IsFiniteSet(S), T \subseteq S, c \in T
  PROVE  /\ (S \ {c}) \ (T \ {c}) = S \ T
         /\ Cardinality(S \ (T \ {c})) <= Cardinality(S \ T) + 1
         /\ Cardinality(S \ (T \ {c})) \in Nat /\ Cardinality(S \ T) \in Nat
<1>1. IsFiniteSet(S \ T) /\ Cardinality(S \ T) \in Nat /\ Cardinality(S) \in Nat
  BY FS_Subset, FS_CardinalityType
<1>2. S \ (T \ {c}) = (S \ T) \cup {c}
  OBVIOUS
<1>3. Cardinality((S \ T) \cup {c}) = Cardinality(S \ T) + 1
  BY <1>1, FS_AddElement
<1>4. Cardinality(S \ (T \ {c})) = Cardinality(S \ T) + 1
  BY <1>2, <1>3, Zenon
<1>5. (S \ {c}) \ (T \ {c}) = S \ T
  OBVIOUS
<1> QED BY <1>1, <1>4, <1>5

\* What the driver does before it deletes keeps its types and its loops.
LEMMA DriverWorks ==
  ASSUME BenchInv,
         \/ CreateService \/ CreateStatefulSet \/ PodReady \/ PodNotReady \/ Slept \/ ListPods
         \/ ReadLogs \/ ReadExitCode \/ ReadResults \/ CallFails \/ ReadPodFails \/ NoScript
  PROVE  BenchInv'
<1> USE DEF BenchInv, BenchTypeOK, LoopsOn, LeftIsPaid, LeftoversAreFaults, Loops, podVars
<1>1. todo # {} => Current \in todo /\ Current \in Nodes
  BY FirstNode DEF Current
<1>2. CASE CreateService
  BY <1>2, BenchAssumption DEF CreateService
<1>3. CASE CreateStatefulSet
  BY <1>1, <1>3, BenchAssumption DEF CreateStatefulSet
<1>4. CASE PodReady
  BY <1>1, <1>4, BenchAssumption DEF PodReady, NextReady
<1>5. CASE PodNotReady
  BY <1>1, <1>5, BenchAssumption DEF PodNotReady, NotReady, NextReady
<1>6. CASE Slept
  BY <1>6 DEF Slept
<1>7. CASE ListPods
  BY <1>7 DEF ListPods, Abort
<1>8. CASE ReadLogs
  BY <1>8 DEF ReadLogs
<1>9. CASE ReadExitCode
  BY <1>9 DEF ReadExitCode, Abort
<1>10. CASE ReadResults
  <2>1. CASE Abort
    BY <1>10, <2>1 DEF ReadResults, Abort
  <2>2. CASE ~Abort
    <3>1. /\ pc = "results" /\ todo' = todo \ {Current} /\ named' = FALSE
          /\ pc' = IF todo' = {} THEN "parse" ELSE "logs"
          /\ DOMAIN pods' = DOMAIN pods \cup {Current}
          /\ UNCHANGED <<attempts, service, sets, report, podVars, faults>>
      BY <1>10, <2>2 DEF ReadResults
    <3> QED BY <1>1, <3>1
  <2> QED BY <2>1, <2>2
<1>11. CASE CallFails
  BY <1>11, BenchAssumption DEF CallFails, Abort, Fault
<1>12. CASE ReadPodFails
  BY <1>1, <1>12, BenchAssumption DEF ReadPodFails, NotReady, NextReady, Fault
<1>13. CASE NoScript
  BY <1>13, BenchAssumption DEF NoScript, Abort, Fault
<1> QED BY <1>2, <1>3, <1>4, <1>5, <1>6, <1>7, <1>8, <1>9, <1>10, <1>11, <1>12, <1>13

\* The end of a run: everything is visited, and what stays has cost a fault.
LEMMA DriverDeletes ==
  ASSUME BenchInv,
         \/ ProcessResults \/ ScriptFails \/ DeleteStatefulSet \/ DeleteStatefulSetFails
         \/ DeleteService \/ DeleteServiceFails
  PROVE  BenchInv'
<1> USE DEF BenchInv, BenchTypeOK, LoopsOn, LeftIsPaid, LeftoversAreFaults, Loops, podVars, ClientStates
<1>1. IsFiniteSet(sets) /\ Cardinality(sets) \in Nat
  BY NodesAssumption, FS_Subset, FS_CardinalityType
<1>2. CASE pc = "delete"
  <2>1. Current \in todo /\ Current \in Nodes
    BY <1>2, FirstNode DEF Current
  <2>2. /\ (sets \ {Current}) \ (todo \ {Current}) = sets \ todo
        /\ Cardinality(sets \ (todo \ {Current})) <= Cardinality(sets \ todo) + 1
        /\ Cardinality(sets \ (todo \ {Current})) \in Nat /\ Cardinality(sets \ todo) \in Nat
    BY <1>1, <1>2, <2>1, VisitCurrent
  <2>3. CASE DeleteStatefulSet
    <3>1. /\ sets' = sets \ {Current} /\ todo' = todo \ {Current}
          /\ pc' = IF todo' = {} THEN "unservice" ELSE "delete"
          /\ client' \in [Nodes -> ClientStates]
          /\ UNCHANGED <<attempts, service, named, pods, report, files, exitCode, restarted, faults>>
      BY <1>2, <2>3 DEF DeleteStatefulSet
    <3>2. Cardinality(sets' \ todo') = Cardinality(sets \ todo)
      BY <2>2, <3>1, Zenon
    <3>3. todo' = {} => Cardinality(sets') = Cardinality(sets \ todo)
      <4>1. todo' = {} => sets' = sets \ todo
        BY <2>2, <3>1
      <4> QED BY <4>1, Zenon
    <3>4. todo' \subseteq sets'
      BY <1>2, <3>1
    <3> QED BY <1>2, <2>2, <3>1, <3>2, <3>3, <3>4
  <2>4. CASE DeleteStatefulSetFails
    <3>1. /\ todo' = todo \ {Current} /\ faults' = faults + 1 /\ faults' \in 0..MaxFaults
          /\ pc' = IF todo' = {} THEN "unservice" ELSE "delete"
          /\ UNCHANGED <<attempts, service, sets, named, pods, report, podVars>>
      BY <1>2, <2>4, BenchAssumption DEF DeleteStatefulSetFails, Fault
    <3>2. Cardinality(sets' \ todo') <= faults'
      <4>1. sets' \ todo' = sets \ (todo \ {Current})
        BY <3>1
      <4>2. Cardinality(sets' \ todo') = Cardinality(sets \ (todo \ {Current}))
        BY <4>1, Zenon
      <4> QED BY <1>2, <2>2, <3>1, <4>2
    <3>3. todo' = {} => Cardinality(sets') = Cardinality(sets' \ todo')
      <4>1. todo' = {} => sets' = sets' \ todo'
        OBVIOUS
      <4> QED BY <4>1, Zenon
    <3> QED BY <1>2, <3>1, <3>2, <3>3
  <2> QED BY <1>2, <2>3, <2>4 DEF ProcessResults, ScriptFails, DeleteService, DeleteServiceFails
<1>3. CASE pc = "parse"
  <2>1. /\ pc' = "delete" /\ todo' = sets /\ faults <= faults' /\ faults' \in 0..MaxFaults
        /\ UNCHANGED <<attempts, service, sets, named, pods, podVars>>
    BY <1>3, BenchAssumption
    DEF ProcessResults, ScriptFails, Fault, DeleteStatefulSet, DeleteStatefulSetFails, DeleteService, DeleteServiceFails
  <2>2. Cardinality(report') <= 1
    <3>1. UNCHANGED report \/ \E r : report' = {r}
      BY <1>3 DEF ProcessResults, Parse, ScriptFails, DeleteStatefulSet, DeleteStatefulSetFails, DeleteService, DeleteServiceFails
    <3>2. \A r : Cardinality({r}) = 1
      BY FS_Singleton
    <3>3. CASE UNCHANGED report
      BY <3>3
    <3>4. ASSUME NEW r, report' = {r} PROVE Cardinality(report') <= 1
      <4>1. Cardinality(report') = 1
        BY <3>2, <3>4, Zenon
      <4> QED BY <4>1
    <3> QED BY <3>1, <3>3, <3>4
  <2>3. Cardinality(sets' \ todo') = 0
    <3>1. sets' \ todo' = {}
      BY <2>1
    <3> QED BY <3>1, FS_EmptySet, Zenon
  <2> QED BY <1>3, <2>1, <2>2, <2>3
<1>4. CASE pc = "unservice"
  <2>1. /\ pc' = "complete" /\ faults' \in 0..MaxFaults
        /\ \/ service' = FALSE /\ faults' = faults
           \/ service' = service /\ faults' = faults + 1
        /\ UNCHANGED <<todo, attempts, sets, named, pods, report, podVars>>
    BY <1>4, BenchAssumption
    DEF ProcessResults, ScriptFails, Fault, DeleteStatefulSet, DeleteStatefulSetFails, DeleteService, DeleteServiceFails
  <2>2. Cardinality(sets') = Cardinality(sets)
    BY <2>1
  <2>3. Cardinality(sets') + (IF service' THEN 1 ELSE 0) <= faults'
    BY <1>1, <1>4, <2>1, <2>2
  <2> QED BY <1>4, <2>1, <2>3
<1> QED BY <1>2, <1>3, <1>4
    DEF ProcessResults, ScriptFails, DeleteStatefulSet, DeleteStatefulSetFails, DeleteService, DeleteServiceFails

LEMMA BenchInvHolds == BenchSpec => []BenchInv
<1>1. ASSUME BenchInit PROVE BenchInv
  <2>1. Cardinality(report) <= 1
    BY <1>1, FS_EmptySet DEF BenchInit
  <2>2. DOMAIN pods \subseteq Nodes
    <3>1. pods \in Seq(Nodes) /\ Len(pods) = 0
      BY <1>1 DEF BenchInit
    <3> QED BY <3>1
  <2>3. BenchTypeOK
    <3>1. files \in [Nodes -> [Nodes -> FileKinds]]
      BY <1>1 DEF BenchInit, FileKinds
    <3>2. client \in [Nodes -> ClientStates] /\ exitCode \in [Nodes -> {"none", "0", "1"}]
      BY <1>1 DEF BenchInit, ClientStates
    <3>3. service \in BOOLEAN /\ named \in BOOLEAN
      BY <1>1 DEF BenchInit
    <3>4. todo \subseteq Nodes /\ sets \subseteq Nodes /\ restarted \subseteq Nodes
      BY <1>1 DEF BenchInit
    <3>5. attempts \in 0..MaxAttempts /\ faults \in 0..MaxFaults
      BY <1>1, BenchAssumption DEF BenchInit
    <3>6. pc = "service"
      BY <1>1 DEF BenchInit
    <3> QED BY <2>1, <2>2, <3>1, <3>2, <3>3, <3>4, <3>5, <3>6 DEF BenchTypeOK
  <2>4. LoopsOn /\ LeftIsPaid
    BY <1>1, BenchAssumption DEF BenchInit, LoopsOn, LeftIsPaid, LeftoversAreFaults, Loops
  <2> QED BY <2>3, <2>4 DEF BenchInv
<1>2. ASSUME BenchInv, [BenchNext]_benchVars PROVE BenchInv'
  <2>1. CASE PodNext
    <3>1. BenchTypeOK' /\ UNCHANGED driverVars /\ faults <= faults'
      BY <1>2, <2>1, PodKeeps
    <3>2. IsFiniteSet(sets) /\ Cardinality(sets) \in Nat /\ Cardinality(sets \ todo) \in Nat
      BY <1>2, NodesAssumption, FS_Subset, FS_CardinalityType DEF BenchInv, BenchTypeOK
    <3>3. faults \in Nat /\ faults' \in Nat
      BY <1>2, <3>1 DEF BenchInv, BenchTypeOK
    <3> QED BY <1>2, <3>1, <3>2, <3>3 DEF BenchInv, LoopsOn, LeftIsPaid, LeftoversAreFaults, driverVars
  <2>2. CASE UNCHANGED benchVars
    BY <1>2, <2>2
    DEF benchVars, driverVars, podVars, BenchInv, BenchTypeOK, LoopsOn, LeftIsPaid, LeftoversAreFaults
  <2> QED BY <1>2, <2>1, <2>2, DriverWorks, DriverDeletes DEF BenchNext, DriverStep, DriverFault
<1> QED BY <1>1, <1>2, PTL DEF BenchSpec

(* The types of the benchmark's state. *)
THEOREM BenchTypesHold == BenchSpec => []BenchTypeOK
<1>1. BenchInv => BenchTypeOK
  BY DEF BenchInv
<1> QED BY <1>1, BenchInvHolds, PTL

(* A run that completes leaves at most one resource for every call that      *)
(* failed, for any number of nodes: the loop of the deletions visits the      *)
(* StatefulSets of the pods it skipped as well, and goes on after a failure.  *)
THEOREM LeftoversArePaidFor == BenchSpec => []LeftoversAreFaults
<1>1. BenchInv => LeftoversAreFaults
  BY DEF BenchInv, LeftIsPaid
<1> QED BY <1>1, BenchInvHolds, PTL

-----------------------------------------------------------------------------
(* What the driver has read. *)

\* An exit_code of a client that has not died is its last word: the client is
\* done, and a 0 says that every test is good.
ExitCodeFinal ==
  \A n \in Nodes \ restarted :
    /\ exitCode[n] # "none" /\ ~Collected /\ ~BenchOver => client[n] = "done"
    /\ exitCode[n] = "0" => \A p \in PeerSet(n) : files[n][p] = "good"

\* The output is read after an exit_code of 0, and stays what the files hold.
ReadAfterExit ==
  /\ pc = "results" /\ Current \notin restarted => exitCode[Current] = "0"
  /\ \A n \in DOMAIN pods \ restarted : exitCode[n] = "0" /\ pods[n].output = Output(n)

ReadInv == BenchInv /\ ExitCodeFinal /\ ReadAfterExit

\* What has been read of a pod whose client has not died is what all its tests,
\* each of them good, have written.
ReadIsFinal ==
  \A n \in DOMAIN pods \ restarted :
    pods[n].output = Output(n) /\ \A p \in PeerSet(n) : files[n][p] = "good"

\* A pod changes nothing of a client that is done and lives on.
LEMMA PodKeepsRead ==
  ASSUME ReadInv, PodNext, ~Collected, ~BenchOver
  PROVE  ExitCodeFinal' /\ ReadAfterExit'
<1> PICK n \in Nodes :
      \/ PodStarts(n)
      \/ PodStep(n)
      \/ \E p \in PeerSet(n), kind \in {"partial", "refused", "garbled"} : TestFails(n, p, kind)
      \/ ContainerDies(n)
      \/ BackOff(n)
      \/ ContainerRestarts(n)
  BY DEF PodNext
<1> USE DEF PodStarts, PodStep, ClientAnnounces, TestsStart, TestSucceeds, TestFails, Tested,
      ClientFinishes, ContainerDies, BackOff, ContainerRestarts
<1>1. /\ client \in [Nodes -> ClientStates] /\ exitCode \in [Nodes -> {"none", "0", "1"}]
      /\ files \in [Nodes -> [Nodes -> FileKinds]] /\ DOMAIN pods \subseteq Nodes
  BY DEF ReadInv, BenchInv, BenchTypeOK
<1>2. UNCHANGED driverVars /\ Current' = Current /\ (Collected' = Collected) /\ (BenchOver' = BenchOver)
  BY DEF driverVars, Current, Collected, BenchOver
<1>3. restarted \subseteq restarted'
  OBVIOUS
<1>4. ASSUME NEW m \in Nodes, m \notin restarted', exitCode[m] # "none"
      PROVE  client'[m] = "done" /\ exitCode'[m] = exitCode[m] /\ files'[m] = files[m]
  <2>1. client[m] = "done"
    BY <1>3, <1>4 DEF ReadInv, ExitCodeFinal
  <2>2. CASE m = n
    BY <1>1, <1>4, <2>1, <2>2 DEF RunningClient
  <2>3. CASE m # n
    BY <1>1, <2>1, <2>3
  <2> QED BY <2>2, <2>3
<1>5. ASSUME NEW m \in Nodes, m \notin restarted', exitCode'[m] # "none", exitCode[m] = "none"
      PROVE  /\ client'[m] = "done"
             /\ exitCode'[m] = "0" => \A p \in PeerSet(m) : files'[m][p] = "good"
  BY <1>1, <1>5
<1>6. ExitCodeFinal'
  BY <1>2, <1>3, <1>4, <1>5 DEF ReadInv, ExitCodeFinal, PeerSet
<1>7. ReadAfterExit'
  <2>1. pc' = "results" /\ Current' \notin restarted' => exitCode'[Current'] = "0"
    <3>1. pc = "results" => Current \in Nodes
      BY FirstNode DEF Current, ReadInv, BenchInv, BenchTypeOK, LoopsOn, Loops
    <3> QED BY <1>2, <1>3, <1>4, <3>1 DEF ReadInv, ReadAfterExit, driverVars
  <2>2. ASSUME NEW m \in DOMAIN pods', m \notin restarted'
        PROVE  exitCode'[m] = "0" /\ pods'[m].output = Output(m)'
    <3>1. pods' = pods /\ exitCode[m] = "0" /\ pods[m].output = Output(m) /\ m \in Nodes
      BY <1>1, <1>2, <1>3, <2>2 DEF ReadInv, ReadAfterExit, driverVars
    <3>2. exitCode'[m] = "0" /\ files'[m] = files[m]
      BY <1>4, <2>2, <3>1
    <3> QED BY <3>1, <3>2 DEF Output
  <2> QED BY <2>1, <2>2 DEF ReadAfterExit
<1> QED BY <1>6, <1>7

LEMMA DriverKeepsRead ==
  ASSUME ReadInv, DriverStep \/ DriverFault
  PROVE  ExitCodeFinal' /\ ReadAfterExit'
<1> USE DEF DriverStep, DriverFault, podVars
<1>1. UNCHANGED <<files, exitCode, restarted>>
  BY DEF CreateService, CreateStatefulSet, PodReady, PodNotReady, Slept, ListPods, ReadLogs,
      ReadExitCode, ReadResults, ProcessResults, DeleteStatefulSet, DeleteService, CallFails,
      ReadPodFails, ScriptFails, NoScript, DeleteStatefulSetFails, DeleteServiceFails,
      NextReady, NotReady, Abort
<1>2. ~Collected' /\ ~BenchOver' => ~Collected /\ ~BenchOver /\ client' = client
  BY DEF CreateService, CreateStatefulSet, PodReady, PodNotReady, Slept, ListPods, ReadLogs,
      ReadExitCode, ReadResults, ProcessResults, DeleteStatefulSet, DeleteService, CallFails,
      ReadPodFails, ScriptFails, NoScript, DeleteStatefulSetFails, DeleteServiceFails,
      NextReady, NotReady, Abort, Collected, BenchOver
<1>3. ExitCodeFinal'
  BY <1>1, <1>2 DEF ReadInv, ExitCodeFinal, PeerSet
<1>4. ASSUME NEW n PROVE Output(n)' = Output(n)
  BY <1>1 DEF Output
<1>5. CASE ReadResults
  <2>1. CASE Abort
    <3>1. pc' # "results" /\ pods' = pods
      BY <2>1 DEF Abort
    <3>2. ASSUME NEW n \in DOMAIN pods', n \notin restarted'
          PROVE  exitCode'[n] = "0" /\ pods'[n].output = Output(n)'
      BY <1>1, <1>4, <3>1, <3>2 DEF ReadInv, ReadAfterExit
    <3> QED BY <1>3, <3>1, <3>2 DEF ReadAfterExit
  <2>2. CASE ~Abort
    <3>1. /\ pods' = [n \in DOMAIN pods \cup {Current} |->
                        IF n = Current THEN [named |-> named, output |-> Output(n)] ELSE pods[n]]
          /\ pc = "results" /\ pc' # "results"
      BY <1>5, <2>2 DEF ReadResults
    <3>2. ASSUME NEW n \in DOMAIN pods', n \notin restarted'
          PROVE  exitCode'[n] = "0" /\ pods'[n].output = Output(n)'
      <4>1. CASE n = Current
        BY <1>1, <1>4, <3>1, <3>2, <4>1 DEF ReadInv, ReadAfterExit
      <4>2. CASE n # Current
        BY <1>1, <1>4, <3>1, <3>2, <4>2 DEF ReadInv, ReadAfterExit
      <4> QED BY <4>1, <4>2
    <3>3. pc' # "results"
      BY <3>1
    <3> QED BY <1>3, <3>2, <3>3 DEF ReadAfterExit
  <2> QED BY <2>1, <2>2
<1>6. CASE ~ReadResults
  <2>1. pods' = pods
    BY <1>6 DEF CreateService, CreateStatefulSet, PodReady, PodNotReady, Slept, ListPods, ReadLogs,
      ReadExitCode, ProcessResults, DeleteStatefulSet, DeleteService, CallFails,
      ReadPodFails, ScriptFails, NoScript, DeleteStatefulSetFails, DeleteServiceFails,
      NextReady, NotReady, Abort
  <2>2. pc' = "results" => exitCode[Current] = "0" /\ todo' = todo
    BY <1>6 DEF CreateService, CreateStatefulSet, PodReady, PodNotReady, Slept, ListPods, ReadLogs,
      ReadExitCode, ProcessResults, DeleteStatefulSet, DeleteService, CallFails,
      ReadPodFails, ScriptFails, NoScript, DeleteStatefulSetFails, DeleteServiceFails,
      NextReady, NotReady, Abort
  <2>3. pc' = "results" => exitCode'[Current'] = "0"
    BY <1>1, <2>2 DEF Current
  <2>4. ASSUME NEW n \in DOMAIN pods', n \notin restarted'
        PROVE  exitCode'[n] = "0" /\ pods'[n].output = Output(n)'
    BY <1>1, <1>4, <2>1, <2>4 DEF ReadInv, ReadAfterExit
  <2> QED BY <1>3, <2>3, <2>4 DEF ReadAfterExit
<1> QED BY <1>3, <1>5, <1>6

(* What is collected is never half a run of a client: of a pod whose client   *)
(* has not died the driver has the output of all its tests, each of them      *)
(* good, although it waits for a time and not for the clients, and although   *)
(* it reads log, exit_code and results one after the other.                   *)
THEOREM ReadsAreFinal == BenchSpec => []ReadIsFinal
<1>1. BenchInit => ExitCodeFinal /\ ReadAfterExit
  <2>1. ASSUME BenchInit PROVE DOMAIN pods = {}
    <3>1. pods \in Seq(Nodes) /\ Len(pods) = 0
      BY <2>1 DEF BenchInit
    <3> QED BY <3>1
  <2> QED BY <2>1 DEF BenchInit, ExitCodeFinal, ReadAfterExit
<1>2. ReadInv /\ [BenchNext]_benchVars => ExitCodeFinal' /\ ReadAfterExit'
  <2> SUFFICES ASSUME ReadInv, [BenchNext]_benchVars PROVE ExitCodeFinal' /\ ReadAfterExit'
    OBVIOUS
  <2>1. CASE UNCHANGED benchVars
    BY <2>1 DEF benchVars, driverVars, podVars, ReadInv, ExitCodeFinal, ReadAfterExit, Collected,
      BenchOver, Current, Output, PeerSet
  <2> QED BY <2>1, PodKeepsRead, DriverKeepsRead DEF BenchNext
<1>3. ReadInv => ReadIsFinal
  <2> SUFFICES ASSUME ReadInv, NEW n \in DOMAIN pods \ restarted
               PROVE  pods[n].output = Output(n) /\ \A p \in PeerSet(n) : files[n][p] = "good"
    BY DEF ReadIsFinal
  <2>1. n \in Nodes \ restarted
    BY DEF ReadInv, BenchInv, BenchTypeOK
  <2> QED BY <2>1 DEF ReadInv, ExitCodeFinal, ReadAfterExit
<1>4. BenchInv /\ ExitCodeFinal /\ ReadAfterExit <=> ReadInv
  BY DEF ReadInv
<1> QED BY <1>1, <1>2, <1>3, <1>4, BenchInvHolds, PTL DEF BenchSpec

-----------------------------------------------------------------------------
(* What a report is made of. *)

\* A client writes files for the peers of its node only.
OnlyPeersTested == \A n \in Nodes : \A p \in Nodes \ PeerSet(n) : files[n][p] = "absent"

Written(results) == {p \in Nodes : results[p] \notin {"absent", "empty"}}

\* The output of a pod is what its files held at some time.
WrittenBy(n, output) ==
  \E results \in [Nodes -> FileKinds] :
    /\ \A p \in Nodes \ PeerSet(n) : results[p] = "absent"
    /\ output = Concatenated(n, results)

ReadAsWritten == \A n \in DOMAIN pods : WrittenBy(n, pods[n].output)

ReportOf(ps) ==
  LET metrics == aggregate_bidirectional_results(ps, Credits(ps))
  IN  main(Credits(ps), metrics, Results(metrics))

\* A report is made of everything that was read, and nothing is read after it.
ReportOfRead ==
  report # {} => report = {ReportOf(pods)} /\ pc \in {"delete", "unservice", "complete"}

ReportInv == BenchInv /\ OnlyPeersTested /\ ReadAsWritten /\ ReportOfRead

LEMMA JsonTyped ==
  ASSUME NEW n \in Nodes, NEW p \in Nodes, NEW kind \in FileKinds
  PROVE  Json(n, p, kind) \in Documents
<1>1. GoodEnd[n, p] \in TestEnd
  BY EndAssumption
<1>2. NoEnd \in TestEnd
  BY DEF NoEnd, TestEnd
<1>3. BadIntervals \in TestIntervals /\ <<>> \in TestIntervals
  BY IntervalsAssumption DEF TestIntervals
<1>4. (IF kind = "partial" THEN BadIntervals ELSE <<>>) \in TestIntervals
  BY <1>3
<1>5. (IF kind = "good" THEN GoodEnd[n, p] ELSE NoEnd) \in TestEnd
  BY <1>1, <1>2
<1> QED BY <1>4, <1>5 DEF Json, Documents

\* The documents of an output, in the order of the peers.
LEMMA OutputOf ==
  ASSUME NEW n \in Nodes, NEW results \in [Nodes -> FileKinds]
  PROVE  /\ Concatenated(n, results) \in Outputs
         /\ DOMAIN Concatenated(n, results) = 1..Cardinality(Written(results))
         /\ Len(Concatenated(n, results)) = Cardinality(Written(results))
         /\ \A i \in DOMAIN Concatenated(n, results) :
              \E p \in Written(results) :
                Concatenated(n, results)[i] = [peer |-> p, json |-> Json(n, p, results[p])]
         /\ \A i, j \in DOMAIN Concatenated(n, results) :
              Concatenated(n, results)[i].peer = Concatenated(n, results)[j].peer => i = j
<1> DEFINE W == Written(results)
           a == Ascending(W)
           out == Concatenated(n, results)
           k == Cardinality(W)
<1>1. W \subseteq Nat /\ IsFiniteSet(W) /\ W \subseteq Nodes
  <2>1. W \in SUBSET Nodes
    BY DEF Written
  <2> HIDE DEF W
  <2> QED BY <2>1, NodesAssumption, FS_Subset
<1>2. out = [i \in DOMAIN a |-> [peer |-> a[i], json |-> Json(n, a[i], results[a[i]])]]
  BY DEF Concatenated, Written
<1> HIDE DEF W
<1>3. /\ a \in [1..k -> W] /\ k \in Nat
      /\ \A i, j \in 1..k : i < j => a[i] < a[j]
  BY <1>1, AscendingLists
<1> HIDE DEF a, out, k
<1>4. DOMAIN out = 1..k
  BY <1>2, <1>3
<1>5. \A i \in 1..k : a[i] \in W /\ out[i] = [peer |-> a[i], json |-> Json(n, a[i], results[a[i]])]
  BY <1>2, <1>3
<1>6. \A p \in W : [peer |-> p, json |-> Json(n, p, results[p])] \in [peer : Nodes, json : Documents]
  <2> SUFFICES ASSUME NEW p \in W
               PROVE  [peer |-> p, json |-> Json(n, p, results[p])] \in [peer : Nodes, json : Documents]
    OBVIOUS
  <2>1. p \in Nodes /\ results[p] \in FileKinds
    BY <1>1
  <2>2. Json(n, p, results[p]) \in Documents
    BY <2>1, JsonTyped
  <2> QED BY <2>1, <2>2
<1>7. out \in Outputs /\ Len(out) = k
  <2> DEFINE T == [peer : Nodes, json : Documents]
  <2>1. \A i \in 1..k : out[i] \in T
    BY <1>5, <1>6
  <2>2. out = [i \in 1..k |-> out[i]]
    BY <1>2, <1>4
  <2> HIDE DEF T
  <2>3. out \in [1..k -> T]
    BY <2>1, <2>2
  <2>4. out \in Seq(T) /\ Len(out) = k
    BY <1>3, <2>3
  <2> QED BY <2>4 DEF Outputs, T
<1>8. ASSUME NEW i \in 1..k, NEW j \in 1..k, out[i].peer = out[j].peer PROVE i = j
  <2>1. out[i].peer = a[i] /\ out[j].peer = a[j]
    <3>1. PICK c, d : out[i] = [peer |-> a[i], json |-> c] /\ out[j] = [peer |-> a[j], json |-> d]
      BY <1>5, <1>8
    <3> QED BY <3>1
  <2>2. a[i] = a[j] /\ a[i] \in Nat
    BY <1>1, <1>3, <1>8, <2>1
  <2>3. ~(i < j) /\ ~(j < i)
    BY <1>3, <2>2
  <2> QED BY <1>3, <2>3
<1> QED BY <1>4, <1>5, <1>7, <1>8 DEF out, k, W

LEMMA PodsReadTyped ==
  ASSUME BenchTypeOK, ReadAsWritten
  PROVE  PodsTyped(pods)
<1> SUFFICES ASSUME NEW n \in DOMAIN pods PROVE pods[n].output \in Outputs
  BY DEF PodsTyped, BenchTypeOK
<1>1. n \in Nodes
  BY DEF BenchTypeOK
<1> QED BY <1>1, OutputOf DEF ReadAsWritten, WrittenBy

LEMMA PodKeepsReport ==
  ASSUME ReportInv, PodNext
  PROVE  OnlyPeersTested' /\ ReadAsWritten' /\ ReportOfRead'
<1> PICK n \in Nodes :
      \/ PodStarts(n)
      \/ PodStep(n)
      \/ \E p \in PeerSet(n), kind \in {"partial", "refused", "garbled"} : TestFails(n, p, kind)
      \/ ContainerDies(n)
      \/ BackOff(n)
      \/ ContainerRestarts(n)
  BY DEF PodNext
<1>1. UNCHANGED driverVars
  BY BenchAssumption DEF PodStarts, PodStep, ClientAnnounces, TestsStart, TestSucceeds, TestFails, Tested,
      ClientFinishes, ContainerDies, BackOff, ContainerRestarts
<1>2. \/ UNCHANGED files
      \/ TestsStart(n)
      \/ \E p \in PeerSet(n), kind \in FileKinds : files' = [files EXCEPT ![n][p] = kind]
  BY DEF PodStarts, PodStep, ClientAnnounces, TestSucceeds, TestFails, Tested,
      ClientFinishes, ContainerDies, BackOff, ContainerRestarts, FileKinds
<1>3. files \in [Nodes -> [Nodes -> FileKinds]]
  BY DEF ReportInv, BenchInv, BenchTypeOK
<1>4. OnlyPeersTested'
  BY <1>2, <1>3 DEF OnlyPeersTested, ReportInv, TestsStart, PeerSet
<1> QED BY <1>1, <1>4 DEF ReportInv, ReadAsWritten, ReportOfRead, driverVars

LEMMA DriverKeepsReport ==
  ASSUME ReportInv, DriverStep \/ DriverFault
  PROVE  OnlyPeersTested' /\ ReadAsWritten' /\ ReportOfRead'
<1> USE DEF DriverStep, DriverFault, podVars
<1>1. UNCHANGED files
  BY DEF CreateService, CreateStatefulSet, PodReady, PodNotReady, Slept, ListPods, ReadLogs,
      ReadExitCode, ReadResults, ProcessResults, DeleteStatefulSet, DeleteService, CallFails,
      ReadPodFails, ScriptFails, NoScript, DeleteStatefulSetFails, DeleteServiceFails,
      NextReady, NotReady, Abort
<1>2. OnlyPeersTested'
  BY <1>1 DEF ReportInv, OnlyPeersTested, PeerSet
<1>3. CASE ReadResults
  <2>1. pc = "results" /\ report = {} /\ UNCHANGED report
    BY <1>3 DEF ReadResults, Abort, ReportInv, ReportOfRead
  <2>2. CASE Abort
    BY <1>2, <2>1, <2>2 DEF Abort, ReportInv, ReadAsWritten, ReportOfRead
  <2>3. CASE ~Abort
    <3>1. pods' = [n \in DOMAIN pods \cup {Current} |->
                     IF n = Current THEN [named |-> named, output |-> Output(n)] ELSE pods[n]]
      BY <1>3, <2>3 DEF ReadResults
    <3>2. Current \in Nodes
      BY <2>1, FirstNode DEF Current, ReportInv, BenchInv, BenchTypeOK, LoopsOn, Loops
    <3>3. WrittenBy(Current, Output(Current))
      <4>1. files[Current] \in [Nodes -> FileKinds]
        BY <3>2 DEF ReportInv, BenchInv, BenchTypeOK
      <4>2. \A p \in Nodes \ PeerSet(Current) : files[Current][p] = "absent"
        BY <3>2 DEF ReportInv, OnlyPeersTested
      <4> QED BY <4>1, <4>2 DEF WrittenBy, Output
    <3>4. ASSUME NEW n \in DOMAIN pods' PROVE WrittenBy(n, pods'[n].output)
      <4>1. CASE n = Current
        BY <3>1, <3>3, <4>1
      <4>2. CASE n # Current
        <5>1. n \in DOMAIN pods /\ pods'[n] = pods[n]
          BY <3>1, <3>4, <4>2
        <5> QED BY <5>1 DEF ReportInv, ReadAsWritten
      <4> QED BY <4>1, <4>2
    <3>5. ReadAsWritten'
      BY <3>4 DEF ReadAsWritten, WrittenBy, Concatenated, Json, PeerSet
    <3> QED BY <1>2, <2>1, <3>5 DEF ReportOfRead
  <2> QED BY <2>2, <2>3
<1>4. CASE ProcessResults
  <2>1. pods' = pods /\ pc' = "delete" /\ report' = {ReportOf(pods)}
    BY <1>4 DEF ProcessResults, Parse, ReportOf
  <2> QED BY <1>2, <2>1 DEF ReportInv, ReadAsWritten, ReportOfRead
<1>5. CASE ~ReadResults /\ ~ProcessResults
  <2>1. /\ UNCHANGED <<pods, report>>
        /\ pc \in {"delete", "unservice", "complete"} => pc' \in {"delete", "unservice", "complete"}
    BY <1>5 DEF CreateService, CreateStatefulSet, PodReady, PodNotReady, Slept, ListPods, ReadLogs,
      ReadExitCode, DeleteStatefulSet, DeleteService, CallFails,
      ReadPodFails, ScriptFails, NoScript, DeleteStatefulSetFails, DeleteServiceFails,
      NextReady, NotReady, Abort
  <2> QED BY <1>2, <2>1 DEF ReportInv, ReadAsWritten, ReportOfRead
<1> QED BY <1>3, <1>4, <1>5

LEMMA ReportInvHolds == BenchSpec => []ReportInv
<1>1. BenchInit => OnlyPeersTested /\ ReadAsWritten /\ ReportOfRead
  <2> SUFFICES ASSUME BenchInit PROVE OnlyPeersTested /\ ReadAsWritten /\ ReportOfRead
    OBVIOUS
  <2>1. DOMAIN pods = {}
    <3>1. pods \in Seq(Nodes) /\ Len(pods) = 0
      BY DEF BenchInit
    <3> QED BY <3>1
  <2> QED BY <2>1 DEF BenchInit, OnlyPeersTested, ReadAsWritten, ReportOfRead
<1>2. ReportInv /\ [BenchNext]_benchVars => OnlyPeersTested' /\ ReadAsWritten' /\ ReportOfRead'
  <2> SUFFICES ASSUME ReportInv, [BenchNext]_benchVars
               PROVE  OnlyPeersTested' /\ ReadAsWritten' /\ ReportOfRead'
    OBVIOUS
  <2>1. CASE UNCHANGED benchVars
    BY <2>1 DEF benchVars, driverVars, podVars, ReportInv, OnlyPeersTested, ReadAsWritten, ReportOfRead
  <2> QED BY <2>1, PodKeepsReport, DriverKeepsReport DEF BenchNext
<1>3. BenchInv /\ OnlyPeersTested /\ ReadAsWritten /\ ReportOfRead <=> ReportInv
  BY DEF ReportInv
<1> QED BY <1>1, <1>2, <1>3, BenchInvHolds, PTL DEF BenchSpec

(* What is sent is what is received, in every report in which every credited *)
(* peer has metrics.                                                          *)
THEOREM ImbalanceIsMissingPeer == BenchSpec => []ImbalanceMeansMissingPeer
<1>1. ReportInv => ImbalanceMeansMissingPeer
  <2> SUFFICES ASSUME ReportInv, NEW r \in report, \A c \in r.credits : c.to \in Named(pods)
               PROVE  ~r.warning /\ TotalSend(r.metrics) = TotalRecv(r.metrics)
    BY DEF ImbalanceMeansMissingPeer
  <2>1. r = ReportOf(pods) /\ PodsTyped(pods)
    BY PodsReadTyped DEF ReportInv, BenchInv, ReportOfRead
  <2> DEFINE m == aggregate_bidirectional_results(pods, Credits(pods))
  <2>2. r.credits = Credits(pods) /\ r.metrics = m /\ r.warning = validate_network_balance(m)
    BY <2>1 DEF ReportOf, main
  <2>3. TotalSend(m) = TotalRecv(m) /\ TotalSend(m) \in Int
    BY <2>1, <2>2, TotalsAgree
  <2> HIDE DEF m
  <2>4. ~validate_network_balance(m)
    BY <2>3 DEF validate_network_balance
  <2> QED BY <2>2, <2>3, <2>4
<1> QED BY <1>1, ReportInvHolds, PTL

(* Round-trip times are in order for every node and for the network. *)
THEOREM RttsAreOrdered == BenchSpec => []RttOrdered
<1>1. ReportInv => RttOrdered
  <2> SUFFICES ASSUME ReportInv, NEW r \in report PROVE Ordered(r.summary.rtt)
                                                    /\ \A n \in DOMAIN r.results : Ordered(r.results[n].rtt)
    BY DEF RttOrdered
  <2>1. r = ReportOf(pods) /\ PodsTyped(pods)
    BY PodsReadTyped DEF ReportInv, BenchInv, ReportOfRead
  <2> DEFINE cs == Credits(pods)
             m == aggregate_bidirectional_results(pods, cs)
             res == Results(m)
             valid == {n \in DOMAIN res : res[n].send > 0 \/ res[n].recv > 0}
             family == [n \in valid |-> res[n].rtt]
  <2>2. IsFiniteSet(cs) /\ \A c \in cs : c.result \in TestResults
    BY <2>1, CreditsTyped
  <2>3. ASSUME NEW n PROVE node_rtt(cs, n) \in SUBSET Rtts
    <3> DEFINE mine == {c \in cs : n \in {c.from, c.to}}
               f == [c \in mine |-> c.result.rtt]
    <3>1. IsFiniteSet(mine)
      <4>1. mine \in SUBSET cs
        OBVIOUS
      <4> HIDE DEF mine, cs
      <4> QED BY <2>2, <4>1, FS_Subset
    <3>2. \A c \in mine : c.result.rtt \in SUBSET Rtts
      BY <2>2 DEF TestResults
    <3>3. node_rtt(cs, n) = RttOfStats(Present(f))
      BY DEF node_rtt
    <3>4. DOMAIN f = mine /\ \A c \in DOMAIN f : f[c] = c.result.rtt
      OBVIOUS
    <3> HIDE DEF f, mine, cs
    <3>5. IsFiniteSet(DOMAIN f) /\ \A c \in DOMAIN f : f[c] \in SUBSET Rtts
      BY <3>1, <3>2, <3>4
    <3> QED BY <3>3, <3>5, RttOfPresent
  <2>4. DOMAIN res = DOMAIN pods /\ IsFiniteSet(DOMAIN pods)
    <3>1. DOMAIN res = DOMAIN pods
      BY DEF Results, aggregate_bidirectional_results
    <3>2. DOMAIN pods \in SUBSET Nodes
      BY <2>1 DEF PodsTyped
    <3> QED BY <3>1, <3>2, NodesAssumption, FS_Subset
  <2>5. ASSUME NEW n \in DOMAIN pods PROVE res[n].rtt \in SUBSET Rtts
    <3>1. m[n] = IF pods[n].named THEN finalize_node_metrics(cs, Named(pods), n) ELSE NoMetrics
      BY DEF aggregate_bidirectional_results
    <3>2. finalize_node_metrics(cs, Named(pods), n).rtt = node_rtt(cs, n) /\ NoMetrics.rtt = {}
      BY DEF finalize_node_metrics, NoMetrics
    <3>3. m[n].rtt \in SUBSET Rtts
      BY <2>3, <3>1, <3>2
    <3>4. res[n].rtt = m[n].rtt
      <4>1. n \in DOMAIN m
        BY DEF aggregate_bidirectional_results
      <4>2. m[n] = finalize_node_metrics(cs, Named(pods), n) \/ m[n] = NoMetrics
        BY <3>1
      <4> QED BY <4>1, <4>2 DEF Results, finalize_node_metrics, NoMetrics
    <3> QED BY <3>3, <3>4
  <2>6. r.results = res /\ r.summary.rtt = RttOfStats(Present(family))
    BY <2>1 DEF ReportOf, main, format_benchmark_results
  <2>7. IsFiniteSet(valid) /\ valid \in SUBSET DOMAIN pods
    <3>1. valid \in SUBSET DOMAIN pods
      BY <2>4
    <3> HIDE DEF valid
    <3> QED BY <2>4, <3>1, FS_Subset
  <2>8. DOMAIN family = valid /\ \A n \in valid : family[n] = res[n].rtt
    OBVIOUS
  <2> HIDE DEF family, valid, res
  <2>9. RttOfStats(Present(family)) \in SUBSET Rtts
    BY <2>5, <2>7, <2>8, RttOfPresent
  <2>10. \A t \in SUBSET Rtts : Ordered(t)
    BY DEF Ordered, Rtts
  <2> QED BY <2>4, <2>5, <2>6, <2>9, <2>10
<1> QED BY <1>1, ReportInvHolds, PTL

\* The tests written are all of them once they are all good.
LEMMA GoodIsComplete ==
  ASSUME NEW n \in Nodes, NEW results \in [Nodes -> FileKinds],
         \A p \in PeerSet(n) : results[p] = "good",
         \A p \in Nodes \ PeerSet(n) : results[p] = "absent"
  PROVE  /\ Len(Concatenated(n, results)) = Cardinality(PeerSet(n))
         /\ \A i \in DOMAIN Concatenated(n, results) : ~Concatenated(n, results)[i].json.error
<1>1. PeerSet(n) \subseteq Nodes
  <2>1. Peers[n] \in Seq(Nodes)
    BY PeersAssumption
  <2> QED BY <2>1, SeqElements DEF PeerSet, ToSet
<1>2. Written(results) = PeerSet(n)
  BY <1>1 DEF Written
<1>3. \A p \in Written(results) : ~Json(n, p, results[p]).error
  BY <1>2 DEF Json
<1> QED BY <1>2, <1>3, OutputOf

(* A report has every test, each of them complete, of every pod whose client  *)
(* has not died.                                                              *)
THEOREM FinishedTestsOnly == BenchSpec => []OnlyFinishedTests
<1>1. ReportInv /\ ReadIsFinal => OnlyFinishedTests
  <2> SUFFICES ASSUME ReportInv, ReadIsFinal, NEW n \in DOMAIN pods \ restarted
               PROVE  CompleteOutput(n)
    BY DEF OnlyFinishedTests
  <2>1. n \in Nodes /\ files[n] \in [Nodes -> FileKinds]
    BY DEF ReportInv, BenchInv, BenchTypeOK
  <2>2. pods[n].output = Concatenated(n, files[n]) /\ \A p \in PeerSet(n) : files[n][p] = "good"
    BY DEF ReadIsFinal, Output
  <2>3. \A p \in Nodes \ PeerSet(n) : files[n][p] = "absent"
    BY <2>1 DEF ReportInv, OnlyPeersTested
  <2> QED BY <2>1, <2>2, <2>3, GoodIsComplete DEF CompleteOutput
<1> QED BY <1>1, ReportInvHolds, ReadsAreFinal, PTL

\* A complete output has a result for every peer its node is to test.
LEMMA CompleteIsCredited ==
  ASSUME ReportInv, NEW n \in DOMAIN pods, CompleteOutput(n)
  PROVE  DOMAIN tested_peers(n) \subseteq DOMAIN test_results(pods[n].output)
<1> DEFINE out == pods[n].output
<1>1. n \in Nodes
  BY DEF ReportInv, BenchInv, BenchTypeOK
<1>2. PICK results \in [Nodes -> FileKinds] : out = Concatenated(n, results)
  BY DEF ReportInv, ReadAsWritten, WrittenBy
<1>3. out \in Outputs /\ Len(out) = Cardinality(PeerSet(n)) /\ \A i \in DOMAIN out : ~out[i].json.error
  BY <1>1, <1>2, OutputOf DEF CompleteOutput
<1>4. ASSUME NEW i \in DOMAIN out
      PROVE  out[i].json.valid /\ out[i].json.end.sum_sent # {} /\ 0 \notin out[i].json.end.sum_sent
  <2>1. PICK p \in Written(results) : out[i] = [peer |-> p, json |-> Json(n, p, results[p])]
    BY <1>1, <1>2, OutputOf
  <2>2. ~Json(n, p, results[p]).error
    BY <1>3, <2>1
  <2> HIDE DEF out
  <2>3. results[p] = "good" /\ p \in Nodes
    BY <2>2 DEF Json, Written
  <2>4. PICK end : end = GoodEnd[<<n, p>>]
    OBVIOUS
  <2>5. end.sum_sent # {} /\ 0 \notin end.sum_sent
    BY <1>1, <2>3, <2>4, EndAssumption
  <2>6. Json(n, p, results[p]).valid /\ Json(n, p, results[p]).end = end
    BY <2>3, <2>4 DEF Json
  <2>7. out[i].json = Json(n, p, results[p])
    BY <2>1
  <2> QED BY <2>5, <2>6, <2>7
<1>5. DOMAIN test_results(out) = DOMAIN out
  <2> HIDE DEF out
  <2> QED BY <1>3, <1>4, GoodResults
<1>6. DOMAIN out = 1..Len(out) /\ Len(out) \in Nat
  BY <1>3, OutputFields
<1>7. PICK k \in Nat : k <= Cardinality(PeerSet(n)) /\ DOMAIN tested_peers(n) = 1..k
  BY <1>1, TestedPeers DEF PeerSet
<1> HIDE DEF out
<1>8. DOMAIN tested_peers(n) \subseteq DOMAIN out
  BY <1>3, <1>6, <1>7
<1> QED BY <1>5, <1>8 DEF out

\* Of two neighbours whose tests are complete, the one that initiates is
\* credited once, and the other not at all.
LEMMA InitiatorCounts ==
  ASSUME ReportInv, NEW a \in Named(pods), NEW b \in Named(pods), a # b, b \in PeerSet(a),
         CompleteOutput(a), should_node_initiate_test(a, b)
  PROVE  Cardinality({c \in Credits(pods) : {c.from, c.to} = {a, b}}) = 1
<1> DEFINE t == tested_peers(a)
           res == test_results(pods[a].output)
           Credit(i) == [from |-> a, to |-> t[i], tested |-> res[i].tested, result |-> res[i].result]
           both == {c \in Credits(pods) : {c.from, c.to} = {a, b}}
<1>1. a \in Nodes /\ b \in Nodes /\ a \in DOMAIN pods /\ PodsTyped(pods)
  BY PodsReadTyped DEF Named, ReportInv, BenchInv, BenchTypeOK
<1>2. PICK i \in DOMAIN t : t[i] = b
  BY <1>1, TestedPeers DEF PeerSet
<1>3. i \in DOMAIN res
  BY <1>1, <1>2, CompleteIsCredited
<1>4. Credits(pods) = UNION {CreditsOf(pods, n) : n \in Named(pods)}
  BY <1>1, CreditsTyped
<1>5. Credit(i) \in both
  <2>1. Credit(i) \in CreditsOf(pods, a)
    BY <1>2, <1>3 DEF CreditsOf
  <2>2. Credit(i) \in Credits(pods)
    BY <1>4, <2>1
  <2> QED BY <1>2, <2>2
<1>6. ASSUME NEW c \in both PROVE c = Credit(i)
  <2>1. PICK n \in Named(pods) : c \in CreditsOf(pods, n)
    BY <1>4
  <2>2. PICK j \in DOMAIN tested_peers(n) \cap DOMAIN test_results(pods[n].output) :
          c = [from |-> n, to |-> tested_peers(n)[j], tested |-> test_results(pods[n].output)[j].tested,
               result |-> test_results(pods[n].output)[j].result]
    BY <2>1 DEF CreditsOf
  <2>3. {n, tested_peers(n)[j]} = {a, b} /\ n \in Nodes
    BY <1>1, <2>2 DEF Named, PodsTyped
  <2>4. should_node_initiate_test(n, tested_peers(n)[j])
    BY <2>2, <2>3, TestedPeers
  <2>5. ~should_node_initiate_test(b, a)
    BY <1>1, OneInitiator
  <2>6. n = a /\ tested_peers(n)[j] = b
    BY <2>3, <2>4, <2>5
  <2>7. j = i
    BY <1>1, <1>2, <2>2, <2>6, TestedPeers
  <2> QED BY <2>2, <2>6, <2>7
<1> HIDE DEF Credit
<1>7. both = {Credit(i)}
  <2> HIDE DEF both
  <2> QED BY <1>5, <1>6
<1>8. Cardinality({Credit(i)}) = 1
  BY FS_Singleton
<1> QED BY <1>7, <1>8

\* A test of a node is credited to one peer.
LEMMA CreditedOnce ==
  ASSUME ReportInv, NEW c \in Credits(pods), NEW d \in Credits(pods),
         c.from = d.from, c.tested = d.tested
  PROVE  c = d
<1> DEFINE n == c.from
           t == tested_peers(n)
           res == test_results(pods[n].output)
           Credit(i) == [from |-> n, to |-> t[i], tested |-> res[i].tested, result |-> res[i].result]
<1>1. PodsTyped(pods)
  BY PodsReadTyped DEF ReportInv, BenchInv
<1>2. ASSUME NEW e \in Credits(pods)
      PROVE  \E m \in Named(pods) : e \in CreditsOf(pods, m) /\ e.from = m
  <2>1. PICK m \in Named(pods) : e \in CreditsOf(pods, m)
    BY <1>1, CreditsTyped
  <2> QED BY <2>1 DEF CreditsOf
<1>3. n \in Named(pods) /\ c \in CreditsOf(pods, n) /\ d \in CreditsOf(pods, n)
  BY <1>2
<1>4. n \in DOMAIN pods /\ n \in Nodes
  BY <1>1, <1>3 DEF Named, PodsTyped
<1>5. PICK results \in [Nodes -> FileKinds] : pods[n].output = Concatenated(n, results)
  BY <1>4 DEF ReportInv, ReadAsWritten, WrittenBy
<1>6. \A i, j \in DOMAIN res : res[i].tested = res[j].tested => i = j
  <2> DEFINE out == pods[n].output
  <2>1. out \in Outputs /\ \A i, j \in DOMAIN out : out[i].peer = out[j].peer => i = j
    BY <1>4, <1>5, OutputOf
  <2> HIDE DEF out
  <2>2. \A i, j \in DOMAIN test_results(out) :
          test_results(out)[i].tested = test_results(out)[j].tested => i = j
    BY <2>1, ResultsDistinct
  <2> QED BY <2>2 DEF out
<1>7. PICK i \in DOMAIN res : c = Credit(i)
  BY <1>3 DEF CreditsOf
<1>8. PICK j \in DOMAIN res : d = Credit(j)
  BY <1>3 DEF CreditsOf
<1>9. c.tested = res[i].tested /\ d.tested = res[j].tested
  BY <1>7, <1>8
<1> HIDE DEF res
<1> QED BY <1>6, <1>7, <1>8, <1>9

(* Each connected pair with complete outputs is credited exactly one result,  *)
(* and no node's result is credited twice, whatever the topology and the      *)
(* hashes.                                                                    *)
THEOREM EachPairCreditedOnce == BenchSpec => []PairCreditedOnce
<1>1. ReportInv => PairCreditedOnce
  <2> SUFFICES ASSUME ReportInv, NEW r \in report
               PROVE  /\ \A a, b \in Named(pods) :
                           a # b /\ Neighbours(a, b) /\ CompleteOutput(a) /\ CompleteOutput(b) =>
                             Cardinality({c \in r.credits : {c.from, c.to} = {a, b}}) = 1
                      /\ \A c, d \in r.credits : c.from = d.from /\ c.tested = d.tested => c = d
    BY DEF PairCreditedOnce
  <2>1. r.credits = Credits(pods)
    BY DEF ReportInv, ReportOfRead, ReportOf, main
  <2>2. ASSUME NEW a \in Named(pods), NEW b \in Named(pods),
               a # b, Neighbours(a, b), CompleteOutput(a), CompleteOutput(b)
        PROVE  Cardinality({c \in r.credits : {c.from, c.to} = {a, b}}) = 1
    <3>1. a \in Nodes /\ b \in Nodes
      BY DEF Named, ReportInv, BenchInv, BenchTypeOK
    <3>2. CASE should_node_initiate_test(a, b)
      BY <2>1, <2>2, <3>2, InitiatorCounts DEF Neighbours
    <3>3. CASE ~should_node_initiate_test(a, b)
      <4>1. should_node_initiate_test(b, a)
        BY <2>2, <3>1, <3>3, OneInitiator
      <4>2. Cardinality({c \in Credits(pods) : {c.from, c.to} = {b, a}}) = 1
        BY <2>2, <4>1, InitiatorCounts DEF Neighbours
      <4>3. {c \in Credits(pods) : {c.from, c.to} = {b, a}}
              = {c \in Credits(pods) : {c.from, c.to} = {a, b}}
        OBVIOUS
      <4> QED BY <2>1, <4>2, <4>3
    <3> QED BY <3>2, <3>3
  <2>3. \A c, d \in r.credits : c.from = d.from /\ c.tested = d.tested => c = d
    BY <2>1, CreditedOnce
  <2> QED BY <2>2, <2>3
<1> QED BY <1>1, ReportInvHolds, PTL
=============================================================================
