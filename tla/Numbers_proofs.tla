--------------------------- MODULE Numbers_proofs ----------------------------
(***************************************************************************)
(* Facts about numbers that the proofs of several components need: the     *)
(* largest element of a finite set, which the provers cannot find from the *)
(* definition of Max, and the products and quotients they do not see.      *)
(***************************************************************************)
EXTENDS Integers, FiniteSetsExt, Functions, FiniteSetTheorems, SequenceTheorems, TLAPS

\* A finite set of integers that is not empty has a largest element.
LEMMA LargestOf ==
    ASSUME NEW S \in SUBSET Int, IsFiniteSet(S), S # {}
    PROVE  Max(S) \in S /\ \A x \in S : x <= Max(S)
<1> DEFINE Tops(T) == {m \in T : \A x \in T : x <= m}
           Bad == {T \in SUBSET S : T # {} /\ Tops(T) = {}}
<1>1. Bad = {}
    <2> SUFFICES ASSUME Bad # {} PROVE FALSE
        OBVIOUS
    <2>1. Bad \in SUBSET FiniteSubsetsOf(S)
        BY FS_Subset DEF FiniteSubsetsOf
    <2>2. PICK T \in Bad : \A U \in Bad : ~(<<U, T>> \in StrictSubsetOrdering(S))
        BY <2>1, FS_StrictSubsetOrderingWellFounded, WFMin
    <2>3. PICK x \in T : TRUE
        BY <2>2
    <2> DEFINE U == T \ {x}
    <2>4. T \in SUBSET S /\ x \in Int /\ Tops(T) = {}
        BY <2>2, <2>3
    <2>5. U # {}
        <3>1. U = {} => x \in Tops(T)
            BY <2>3, <2>4
        <3> QED BY <3>1, <2>4
    <2>6. <<U, T>> \in StrictSubsetOrdering(S)
        BY <2>3, <2>4 DEF StrictSubsetOrdering
    <2>7. U \notin Bad
        BY <2>2, <2>6
    <2>8. PICK m \in U : \A y \in U : y <= m
        BY <2>4, <2>5, <2>7
    <2>9. m \in Int /\ m \in T
        BY <2>4, <2>8
    <2>10. CASE x <= m
        BY <2>4, <2>8, <2>9, <2>10
    <2>11. CASE m <= x
        BY <2>3, <2>4, <2>8, <2>9, <2>11
    <2> QED BY <2>4, <2>9, <2>10, <2>11
<1>2. PICK m \in S : \A x \in S : x <= m
    BY <1>1
<1>3. \E m_1 \in S : \A y \in S : m_1 >= y
    BY <1>2
<1>4. Max(S) \in S /\ \A y \in S : Max(S) >= y
    BY <1>3 DEF Max
<1> QED BY <1>4

LEMMA TwoMax ==
    ASSUME NEW a \in Int, NEW b \in Int
    PROVE  /\ Max({a, b}) = IF a >= b THEN a ELSE b
           /\ Min({a, b}) = IF a <= b THEN a ELSE b
<1>1. \E x \in {a, b} : \A y \in {a, b} : x >= y
    OBVIOUS
<1>2. \E x \in {a, b} : \A y \in {a, b} : x =< y
    OBVIOUS
<1>3. Max({a, b}) \in {a, b} /\ \A y \in {a, b} : Max({a, b}) >= y
    BY <1>1 DEF Max
<1>4. Min({a, b}) \in {a, b} /\ \A y \in {a, b} : Min({a, b}) =< y
    BY <1>2 DEF Min
<1> QED BY <1>3, <1>4

LEMMA DivBelow ==
    ASSUME NEW a \in Nat, NEW b \in Nat \ {0}
    PROVE  a \div b \in Nat /\ b * (a \div b) <= a
OBVIOUS

LEMMA TimesMore ==
    ASSUME NEW a \in Int, NEW b \in Int, NEW c \in Nat, a <= b
    PROVE  a * c <= b * c /\ c * a <= c * b
OBVIOUS

LEMMA TimesType ==
    ASSUME NEW a \in Int, NEW b \in Int
    PROVE  a * b \in Int /\ (a \in Nat /\ b \in Nat => a * b \in Nat) /\ (a # 0 /\ b # 0 => a * b # 0)
OBVIOUS

-----------------------------------------------------------------------------
(* Sums over finite sets.  SumFunction is defined by recursion over subsets; the *)
(* provers take no induction from a library, but they do take a smallest         *)
(* counterexample, since the subsets of a finite set are well-founded.           *)

Chosen(T) == CHOOSE x \in T : TRUE
PartSums(f, S) == CHOOSE g : g = [T \in SUBSET S |-> IF T = {} THEN 0 ELSE f[Chosen(T)] + g[T \ {Chosen(T)}]]

LEMMA SumUnfold == \A f : SumFunction(f) = PartSums(f, DOMAIN f)[DOMAIN f]
  BY DEF SumFunction, SumFunctionOnSet, FoldFunctionOnSet, MapThenFoldSet, PartSums, Chosen

LEMMA ChosenIn == ASSUME NEW T, T # {} PROVE Chosen(T) \in T
  BY DEF Chosen

\* Among subsets of a finite set there is one that holds no other of them.
LEMMA SmallestOf ==
    ASSUME NEW S, IsFiniteSet(S), NEW B \in SUBSET (SUBSET S), B # {}
    PROVE  \E T \in B : \A U \in B : U \subseteq T => U = T
<1>1. B \in SUBSET FiniteSubsetsOf(S)
    BY FS_Subset DEF FiniteSubsetsOf
<1>2. PICK T \in B : \A U \in B : ~(<<U, T>> \in StrictSubsetOrdering(S))
    BY <1>1, FS_StrictSubsetOrderingWellFounded, WFMin
<1>3. \A U \in B : U \subseteq T => U = T
    BY <1>2 DEF StrictSubsetOrdering
<1> QED BY <1>3

Sums(f, T, g) ==
    \A U \in SUBSET T : g[U] = IF U = {} THEN 0 ELSE f[Chosen(U)] + g[U \ {Chosen(U)}]

\* Two functions that sum f over the subsets of T agree on them.
LEMMA SumsUnique ==
    ASSUME NEW S, IsFiniteSet(S), NEW f, NEW g, NEW h, Sums(f, S, g), Sums(f, S, h)
    PROVE  \A U \in SUBSET S : g[U] = h[U]
<1> DEFINE B == {U \in SUBSET S : g[U] # h[U]}
<1> SUFFICES ASSUME B # {} PROVE FALSE
    OBVIOUS
<1>0. B \in SUBSET (SUBSET S)
    OBVIOUS
<1> HIDE DEF B
<1>1. PICK T \in B : \A U \in B : U \subseteq T => U = T
    BY <1>0, SmallestOf
<1> USE DEF B
<1>2. T \in SUBSET S /\ g[T] # h[T]
    BY <1>1
<1>3. T # {}
    BY <1>2 DEF Sums
<1> DEFINE c == Chosen(T)
           U == T \ {c}
<1>4. c \in T
    BY <1>3, ChosenIn
<1>5. U \in SUBSET S /\ U \subseteq T /\ U # T
    BY <1>2, <1>4
<1>6. g[U] = h[U]
    BY <1>1, <1>5
<1>7. g[T] = f[c] + g[U] /\ h[T] = f[c] + h[U]
    BY <1>2, <1>3 DEF Sums
<1> QED BY <1>2, <1>6, <1>7

LEMMA SumsShrink ==
    ASSUME NEW S, NEW T \in SUBSET S, NEW f, NEW g, Sums(f, S, g)
    PROVE  Sums(f, T, g)
  BY DEF Sums

\* There is such a function.
LEMMA SumsExist ==
    ASSUME NEW S, IsFiniteSet(S), NEW f \in [S -> Int]
    PROVE  \E g \in [SUBSET S -> Int] : Sums(f, S, g)
<1> DEFINE Have(T) == \E g \in [SUBSET S -> Int] : Sums(f, T, g)
           The(T) == CHOOSE g \in [SUBSET S -> Int] : Sums(f, T, g)
           B == {T \in SUBSET S : ~Have(T)}
<1> SUFFICES ASSUME B # {} PROVE FALSE
    OBVIOUS
<1>0. B \in SUBSET (SUBSET S)
    OBVIOUS
<1> HIDE DEF B
<1>1. PICK T \in B : \A U \in B : U \subseteq T => U = T
    BY <1>0, SmallestOf
<1> USE DEF B
<1>2. T \in SUBSET S /\ ~Have(T)
    BY <1>1
<1>3. ASSUME NEW U \in SUBSET T, U # T
      PROVE  The(U) \in [SUBSET S -> Int] /\ Sums(f, U, The(U))
  <2>1. Have(U)
      BY <1>1, <1>2, <1>3
  <2> QED BY <2>1
<1> HIDE DEF The
<1> DEFINE c == Chosen(T)
           g == [U \in SUBSET S |->
                   IF U \subseteq T /\ U # T THEN The(U)[U]
                   ELSE IF U = T /\ T # {} THEN f[c] + The(T \ {c})[T \ {c}] ELSE 0]
<1>4. T # {} => c \in T /\ T \ {c} \in SUBSET T /\ T \ {c} # T /\ f[c] \in Int
  <2>1. T # {} => c \in T
      BY ChosenIn
  <2> QED BY <1>2, <2>1
<1>5. g \in [SUBSET S -> Int]
  <2> SUFFICES ASSUME NEW U \in SUBSET S PROVE g[U] \in Int
      OBVIOUS
  <2>1. CASE U \subseteq T /\ U # T
      BY <1>3, <2>1
  <2>2. CASE U = T /\ T # {}
    <3>1. The(T \ {c}) \in [SUBSET S -> Int]
        BY <1>3, <1>4, <2>2
    <3>2. The(T \ {c})[T \ {c}] \in Int
        BY <1>2, <3>1
    <3> QED BY <1>4, <2>2, <3>2
  <2> QED BY <2>1, <2>2
<1>6. Sums(f, T, g)
  <2> SUFFICES ASSUME NEW U \in SUBSET T
               PROVE  g[U] = IF U = {} THEN 0 ELSE f[Chosen(U)] + g[U \ {Chosen(U)}]
      BY DEF Sums
  <2> DEFINE d == Chosen(U)
             V == U \ {d}
  <2>0. U \in SUBSET S
      BY <1>2
  <2>1. CASE U = {}
    <3>1. U # T => The(U)[U] = 0
        BY <1>3, <2>1 DEF Sums
    <3> QED BY <2>0, <2>1, <3>1
  <2>2. CASE U # {}
    <3>1. d \in U /\ V \in SUBSET U /\ V # U /\ V \in SUBSET T /\ V # T /\ V \in SUBSET S
        BY <2>0, <2>2, ChosenIn
    <3>2. g[V] = The(V)[V]
        BY <3>1
    <3>3. CASE U # T
      <4>1. Sums(f, U, The(U)) /\ Sums(f, V, The(V))
          BY <1>3, <3>1, <3>3
      <4>2. Sums(f, V, The(U))
          BY <3>1, <4>1, SumsShrink
      <4>3. IsFiniteSet(V) 
          BY <3>1, FS_Subset
      <4>4. The(U)[V] = The(V)[V]
          BY <4>1, <4>2, <4>3, SumsUnique
      <4>5. The(U)[U] = f[d] + The(U)[V]
          BY <2>2, <4>1 DEF Sums
      <4>6. g[U] = The(U)[U]
          BY <2>0, <3>3
      <4> QED BY <2>2, <3>2, <4>4, <4>5, <4>6
    <3>4. CASE U = T
      <4>1. g[T] = f[c] + The(T \ {c})[T \ {c}]
          BY <1>2, <2>2, <3>4
      <4> QED BY <2>2, <3>2, <3>4, <4>1
    <3> QED BY <3>3, <3>4
  <2> QED BY <2>1, <2>2
<1> QED BY <1>2, <1>5, <1>6

LEMMA UptoSums ==
    ASSUME NEW S, IsFiniteSet(S), NEW f \in [S -> Int]
    PROVE  PartSums(f, S) \in [SUBSET S -> Int] /\ Sums(f, S, PartSums(f, S))
<1>1. PICK g \in [SUBSET S -> Int] : Sums(f, S, g)
    BY SumsExist
<1>2. g = [T \in SUBSET S |-> IF T = {} THEN 0 ELSE f[Chosen(T)] + g[T \ {Chosen(T)}]]
    BY <1>1 DEF Sums
<1> DEFINE h == PartSums(f, S)
<1>3. h = [T \in SUBSET S |-> IF T = {} THEN 0 ELSE f[Chosen(T)] + h[T \ {Chosen(T)}]]
    BY <1>2 DEF PartSums
<1> HIDE DEF h
<1>4. Sums(f, S, h)
    BY <1>3 DEF Sums
<1>5. \A U \in SUBSET S : h[U] = g[U]
    BY <1>1, <1>4, SumsUnique
<1>6. h \in [SUBSET S -> Int]
    BY <1>1, <1>3, <1>5
<1> QED BY <1>4, <1>6 DEF h

Peels(f, S, g) == \A T \in SUBSET S : \A x \in T : g[T] = f[x] + g[T \ {x}]

\* The order does not matter: any element may be taken out first.
LEMMA SumsPeel ==
    ASSUME NEW S, IsFiniteSet(S), NEW f \in [S -> Int],
           NEW g \in [SUBSET S -> Int], Sums(f, S, g)
    PROVE  Peels(f, S, g)
<1> DEFINE Splits(T) == \A x \in T : g[T] = f[x] + g[T \ {x}]
           B == {T \in SUBSET S : ~Splits(T)}
<1> SUFFICES ASSUME B # {} PROVE FALSE
    BY DEF Peels
<1>0. B \in SUBSET (SUBSET S)
    OBVIOUS
<1> HIDE DEF B
<1>1. PICK T \in B : \A U \in B : U \subseteq T => U = T
    BY <1>0, SmallestOf
<1> USE DEF B
<1>2. T \in SUBSET S
    BY <1>1
<1>3. PICK x \in T : ~(g[T] = f[x] + g[T \ {x}])
    BY <1>1
<1> DEFINE c == Chosen(T)
<1>4. c \in T
    BY <1>3, ChosenIn
<1> HIDE DEF c
<1>5. g[T] = f[c] + g[T \ {c}]
    BY <1>2, <1>3 DEF Sums, c
<1>6. x # c
    BY <1>3, <1>5
<1>7. T \ {c} \in SUBSET S /\ T \ {c} \subseteq T /\ T \ {c} # T /\ x \in T \ {c}
    BY <1>2, <1>4, <1>6
<1>8. T \ {x} \in SUBSET S /\ T \ {x} \subseteq T /\ T \ {x} # T /\ c \in T \ {x}
    BY <1>2, <1>3, <1>4, <1>6
<1>9. T \ {c} \notin B /\ T \ {x} \notin B
    BY <1>1, <1>7, <1>8
<1>10. g[T \ {c}] = f[x] + g[(T \ {c}) \ {x}]
    BY <1>7, <1>9
<1>11. g[T \ {x}] = f[c] + g[(T \ {x}) \ {c}]
    BY <1>8, <1>9
<1>12. (T \ {c}) \ {x} = (T \ {x}) \ {c} /\ (T \ {c}) \ {x} \in SUBSET S
    BY <1>2
<1>13. f[x] \in Int /\ f[c] \in Int /\ g[(T \ {c}) \ {x}] \in Int
    BY <1>2, <1>3, <1>4, <1>12
<1>14. PICK w \in Int : g[T \ {c}] = f[x] + w /\ g[T \ {x}] = f[c] + w
    BY <1>10, <1>11, <1>12, <1>13
<1> HIDE DEF B
<1>15. f[c] + (f[x] + w) = f[x] + (f[c] + w)
    BY <1>13, <1>14
<1> QED BY <1>3, <1>5, <1>14, <1>15

LEMMA SumType ==
    ASSUME NEW S, IsFiniteSet(S), NEW f \in [S -> Int]
    PROVE  SumFunction(f) \in Int
<1>1. PartSums(f, S) \in [SUBSET S -> Int]
    BY UptoSums
<1> QED BY <1>1, SumUnfold

\* The sum of no terms, and of one term more.
LEMMA SumEmpty ==
    ASSUME NEW f \in [{} -> Int]
    PROVE  SumFunction(f) = 0
<1>1. IsFiniteSet({})
    BY FS_EmptySet
<1>2. Sums(f, {}, PartSums(f, {}))
    BY <1>1, UptoSums
<1> QED BY <1>2, SumUnfold DEF Sums

Extends(g, f, S, x) ==
    /\ x \notin S
    /\ f \in [S -> Int] /\ g \in [S \cup {x} -> Int]
    /\ \A y \in S : g[y] = f[y]

LEMMA SumOneMore ==
    ASSUME NEW S, IsFiniteSet(S), NEW x, NEW f, NEW g, Extends(g, f, S, x)
    PROVE  SumFunction(g) = SumFunction(f) + g[x] /\ g[x] \in Int
<1> USE DEF Extends
<1> DEFINE R == S \cup {x}
<1>1. IsFiniteSet(R)
    BY FS_AddElement
<1>2. S \in SUBSET R /\ R \in SUBSET R /\ x \in R /\ R \ {x} = S /\ g \in [R -> Int]
    OBVIOUS
<1> HIDE DEF R
<1>3. PartSums(g, R) \in [SUBSET R -> Int] /\ Sums(g, R, PartSums(g, R))
    BY <1>1, <1>2, UptoSums
<1>4. PartSums(f, S) \in [SUBSET S -> Int] /\ Sums(f, S, PartSums(f, S))
    BY UptoSums
<1>5. Sums(f, S, PartSums(g, R))
  <2>1. Sums(g, S, PartSums(g, R))
      BY <1>2, <1>3, SumsShrink
  <2>2. \A U \in SUBSET S : U # {} => g[Chosen(U)] = f[Chosen(U)]
      BY ChosenIn
  <2> QED BY <2>1, <2>2 DEF Sums
<1>6. PartSums(g, R)[S] = PartSums(f, S)[S]
    BY <1>4, <1>5, SumsUnique
<1>7. PartSums(g, R)[R] = g[x] + PartSums(g, R)[S]
  <2>2. Peels(g, R, PartSums(g, R))
      BY <1>1, <1>2, <1>3, SumsPeel
  <2> QED BY <1>2, <2>2 DEF Peels
<1>8. g[x] \in Int /\ PartSums(f, S)[S] \in Int
    BY <1>2, <1>4
<1> QED BY <1>2, <1>6, <1>7, <1>8, SumUnfold

\* A term that changes changes the sum by as much.
LEMMA SumChanged ==
    ASSUME NEW S, IsFiniteSet(S), NEW x \in S, NEW f \in [S -> Int], NEW g \in [S -> Int],
           \A y \in S : y # x => g[y] = f[y]
    PROVE  SumFunction(g) = SumFunction(f) - f[x] + g[x]
<1> DEFINE R == S \ {x}
           h == [y \in R |-> f[y]]
<1>1. IsFiniteSet(R)
    BY FS_Subset
<1>2. h \in [R -> Int] /\ x \notin R /\ R \cup {x} = S
    OBVIOUS
<1>3. \A y \in R : h[y] = f[y] /\ h[y] = g[y]
    OBVIOUS
<1> HIDE DEF R, h
<1>0. Extends(f, h, R, x) /\ Extends(g, h, R, x)
    BY <1>2, <1>3 DEF Extends
<1>4. SumFunction(f) = SumFunction(h) + f[x]
    BY <1>0, <1>1, SumOneMore
<1>5. SumFunction(g) = SumFunction(h) + g[x]
    BY <1>0, <1>1, SumOneMore
<1>6. SumFunction(h) \in Int
    BY <1>1, <1>2, SumType
<1> QED BY <1>4, <1>5, <1>6

\* Nor do the names of the terms matter.
Renames(g, f, b, R, S) ==
    /\ f \in [S -> Int] /\ g \in [R -> Int] /\ b \in [R -> S]
    /\ \A x, y \in R : b[x] = b[y] => x = y
    /\ \A s \in S : \E x \in R : b[x] = s
    /\ \A x \in R : g[x] = f[b[x]]

LEMMA SumRenamed ==
    ASSUME NEW S, IsFiniteSet(S), NEW R, IsFiniteSet(R), NEW f, NEW g, NEW b, Renames(g, f, b, R, S)
    PROVE  SumFunction(g) = SumFunction(f)
<1> USE DEF Renames
<1> DEFINE G == PartSums(g, R)
           F == PartSums(f, S)
           Img(T) == {b[x] : x \in T}
           B == {T \in SUBSET R : G[T] # F[Img(T)]}
<1>1. G \in [SUBSET R -> Int] /\ Sums(g, R, G)
    BY UptoSums
<1>2. F \in [SUBSET S -> Int] /\ Sums(f, S, F)
    BY UptoSums
<1> HIDE DEF G, F
<1>3. B = {}
  <2> SUFFICES ASSUME B # {} PROVE FALSE
      OBVIOUS
  <2>0. B \in SUBSET (SUBSET R)
      OBVIOUS
  <2> HIDE DEF B
  <2>1. PICK T \in B : \A U \in B : U \subseteq T => U = T
      BY <2>0, SmallestOf
  <2> USE DEF B
  <2>2. T \in SUBSET R /\ G[T] # F[Img(T)]
      BY <2>1
  <2>3. T # {}
    <3>1. SUFFICES ASSUME T = {} PROVE FALSE
        OBVIOUS
    <3>2. Img(T) = {}
        BY <3>1
    <3>3. G[{}] = 0 /\ F[{}] = 0
        BY <1>1, <1>2 DEF Sums
    <3> QED BY <2>2, <3>1, <3>2, <3>3
  <2> DEFINE c == Chosen(T)
             U == T \ {c}
  <2>4. c \in T /\ U \in SUBSET R /\ U \subseteq T /\ U # T
      BY <2>2, <2>3, ChosenIn
  <2>5. G[T] = g[c] + G[U]
      BY <2>2, <2>3, <1>1 DEF Sums
  <2>6. U \notin B
      BY <2>1, <2>4
  <2> HIDE DEF c
  <2>7. G[U] = F[Img(U)]
      BY <2>4, <2>6
  <2>8. Img(T) \in SUBSET S /\ b[c] \in Img(T)
      BY <2>2, <2>4
  <2>9. Img(T) \ {b[c]} = Img(U)
      BY <2>2, <2>4
  <2>10. F[Img(T)] = f[b[c]] + F[Img(T) \ {b[c]}]
    <3>2. Peels(f, S, F)
        BY <1>2, SumsPeel
    <3> HIDE DEF Img
    <3> QED BY <2>8, <3>2 DEF Peels
  <2>11. g[c] = f[b[c]]
      BY <2>2, <2>4
  <2> QED BY <2>2, <2>5, <2>7, <2>9, <2>10, <2>11
<1>4. Img(R) = S
    OBVIOUS
<1>5. G[R] = F[S]
    BY <1>3, <1>4
<1> QED BY <1>5, SumUnfold DEF G, F

\* The sum of a sequence grows by what is appended, and its head is a term of it.
LEMMA SumAppend ==
    ASSUME NEW s \in Seq(Int), NEW n \in Int
    PROVE  SumFunction(Append(s, n)) = SumFunction(s) + n
<1> DEFINE S == 1 .. Len(s)
           x == Len(s) + 1
           g == Append(s, n)
<1>1. Len(s) \in Nat /\ x \notin S /\ S \cup {x} = 1 .. x
    OBVIOUS
<1>2. IsFiniteSet(S)
    BY <1>1, FS_Interval
<1>3. s \in [S -> Int]
    OBVIOUS
<1>4. g \in Seq(Int) /\ Len(g) = x /\ (\A i \in S : g[i] = s[i]) /\ g[x] = n
    BY AppendProperties
<1>5. g \in [S \cup {x} -> Int]
  <2> HIDE DEF g
  <2>1. g \in [1 .. Len(g) -> Int]
      BY <1>4, LenProperties
  <2> QED BY <1>1, <1>4, <2>1
<1> DEFINE f == s
<1>8. x \notin S
    BY <1>1
<1>6. f \in [S -> Int] /\ \A i \in S : g[i] = f[i]
    BY <1>3, <1>4
<1> HIDE DEF S, x, g, f
<1>9. Extends(g, f, S, x)
    BY <1>5, <1>6, <1>8 DEF Extends
<1>7. SumFunction(g) = SumFunction(f) + g[x]
    BY <1>2, <1>9, SumOneMore
<1> QED BY <1>4, <1>7 DEF f, g

LEMMA SumTail ==
    ASSUME NEW s \in Seq(Int), s # <<>>
    PROVE  SumFunction(s) = Head(s) + SumFunction(Tail(s))
<1> DEFINE n == Len(s)
           S == 2 .. n
           R == 1 .. n - 1
           f == [i \in S |-> s[i]]
           g == Tail(s)
           b == [i \in R |-> i + 1]
<1>1. n \in Nat \ {0}
    BY EmptySeq
<1>2. g \in Seq(Int) /\ Len(g) = n - 1 /\ \A i \in 1 .. Len(g) : g[i] = s[i + 1]
    BY HeadTailProperties
<1>3. f \in [S -> Int] /\ s \in [1 .. n -> Int] /\ g \in [R -> Int]
  <2>1. s \in [1 .. n -> Int]
      OBVIOUS
  <2> HIDE DEF g
  <2>2. g \in [1 .. Len(g) -> Int]
      BY <1>2, LenProperties
  <2> QED BY <1>1, <1>2, <2>1, <2>2
<1>4. IsFiniteSet(S) /\ IsFiniteSet(R)
  <2>1. 1 \in Int /\ 2 \in Int /\ n \in Int /\ n - 1 \in Int
      BY <1>1
  <2> QED BY <2>1, FS_Interval
<1>5. b \in [R -> S] /\ (\A i, j \in R : b[i] = b[j] => i = j) /\ \A i \in R : b[i] = i + 1
    BY <1>1
<1>6. \A j \in S : j - 1 \in R /\ b[j - 1] = j
    BY <1>1
<1>7. \A i \in R : g[i] = f[b[i]]
    BY <1>1, <1>2
<1>8. 1 \notin S /\ S \cup {1} = 1 .. n /\ (\A i \in S : s[i] = f[i]) /\ s[1] = Head(s)
    BY <1>1
<1> DEFINE h == s
           x == 1
<1>0. h \in [1 .. n -> Int] /\ (\A i \in S : h[i] = f[i]) /\ h[x] = Head(s)
    BY <1>3, <1>8
<1> HIDE DEF n, S, R, f, g, b, h, x
<1>9. \A j \in S : \E i \in R : b[i] = j
    BY <1>6
<1>10. SumFunction(g) = SumFunction(f)
  <2>1. b \in [R -> S] /\ \A i, j \in R : b[i] = b[j] => i = j
      BY <1>5
  <2>2. f \in [S -> Int] /\ g \in [R -> Int]
      BY <1>3
  <2>3. Renames(g, f, b, R, S)
      BY <1>7, <1>9, <2>1, <2>2 DEF Renames
  <2> QED BY <1>4, <2>3, SumRenamed
<1>11. h \in [S \cup {x} -> Int] /\ x \notin S
    BY <1>0, <1>8 DEF x
<1>14. (\A i \in S : h[i] = f[i]) /\ f \in [S -> Int] /\ IsFiniteSet(S)
    BY <1>0, <1>3, <1>4
<1>12. SumFunction(h) = SumFunction(f) + h[x]
  <2>1. Extends(h, f, S, x)
      BY <1>11, <1>14 DEF Extends
  <2> QED BY <1>14, <2>1, SumOneMore
<1>13. SumFunction(f) \in Int /\ h[x] \in Int
  <2>1. x \in S \cup {x}
      OBVIOUS
  <2> QED BY <1>3, <1>4, <1>11, <2>1, SumType
<1> QED BY <1>0, <1>10, <1>12, <1>13 DEF g, h

LEMMA SumNothing == SumFunction(<<>>) = 0
<1>1. <<>> \in [{} -> Int]
    OBVIOUS
<1> QED BY <1>1, SumEmpty

LEMMA SumZero ==
    ASSUME NEW S, IsFiniteSet(S)
    PROVE  SumFunction([x \in S |-> 0]) = 0
<1> DEFINE f == [x \in S |-> 0]
           G == PartSums(f, S)
           B == {T \in SUBSET S : G[T] # 0}
<1>1. f \in [S -> Int] /\ DOMAIN f = S /\ \A x \in S : f[x] = 0
    OBVIOUS
<1> HIDE DEF f
<1>2. G \in [SUBSET S -> Int] /\ Sums(f, S, G)
    BY <1>1, UptoSums
<1> HIDE DEF G
<1>3. B = {}
  <2> SUFFICES ASSUME B # {} PROVE FALSE
      OBVIOUS
  <2>0. B \in SUBSET (SUBSET S)
      OBVIOUS
  <2> HIDE DEF B
  <2>1. PICK T \in B : \A U \in B : U \subseteq T => U = T
      BY <2>0, SmallestOf
  <2> USE DEF B
  <2>2. T \in SUBSET S /\ G[T] # 0
      BY <2>1
  <2>3. T # {}
      BY <1>2, <2>2 DEF Sums
  <2> DEFINE c == Chosen(T)
  <2>4. c \in T /\ T \ {c} \in SUBSET S /\ T \ {c} \subseteq T /\ T \ {c} # T
      BY <2>2, <2>3, ChosenIn
  <2>5. G[T] = f[c] + G[T \ {c}]
      BY <1>2, <2>2, <2>3 DEF Sums
  <2> HIDE DEF c
  <2>6. G[T \ {c}] = 0
      BY <2>1, <2>4
  <2>7. f[c] = 0
      BY <1>1, <2>2, <2>4
  <2> QED BY <2>2, <2>5, <2>6, <2>7
<1>4. G[S] = 0
    BY <1>3
<1> QED BY <1>1, <1>4, SumUnfold DEF G, f

\* Terms that are nowhere larger add up to a sum that is no larger.
Dominated(f, g, S) == f \in [S -> Int] /\ g \in [S -> Int] /\ \A x \in S : f[x] <= g[x]

LEMMA SumDominated ==
    ASSUME NEW S, IsFiniteSet(S), NEW f, NEW g, Dominated(f, g, S)
    PROVE  /\ SumFunction(f) \in Int /\ SumFunction(g) \in Int
           /\ SumFunction(f) <= SumFunction(g)
<1> DEFINE F == PartSums(f, S)
           G == PartSums(g, S)
           B == {T \in SUBSET S : ~(F[T] <= G[T])}
<1>1. f \in [S -> Int] /\ g \in [S -> Int] /\ DOMAIN f = S /\ DOMAIN g = S /\ \A x \in S : f[x] <= g[x]
    BY DEF Dominated
<1>2. F \in [SUBSET S -> Int] /\ Sums(f, S, F)
    BY <1>1, UptoSums
<1>3. G \in [SUBSET S -> Int] /\ Sums(g, S, G)
    BY <1>1, UptoSums
<1> HIDE DEF F, G
<1>4. B = {}
  <2> SUFFICES ASSUME B # {} PROVE FALSE
      OBVIOUS
  <2>0. B \in SUBSET (SUBSET S)
      OBVIOUS
  <2> HIDE DEF B
  <2>1. PICK T \in B : \A U \in B : U \subseteq T => U = T
      BY <2>0, SmallestOf
  <2> USE DEF B
  <2>2. T \in SUBSET S /\ ~(F[T] <= G[T])
      BY <2>1
  <2>3. T # {}
    <3>1. {} \in SUBSET S
        OBVIOUS
    <3>2. F[{}] = 0 /\ G[{}] = 0
        BY <1>2, <1>3, <3>1 DEF Sums
    <3>3. F[{}] <= G[{}]
        BY <3>2
    <3> QED BY <2>2, <3>3
  <2> DEFINE c == Chosen(T)
             R == T \ {c}
  <2>4. c \in T /\ c \in S /\ R \in SUBSET S /\ R \subseteq T /\ R # T
      BY <2>2, <2>3, ChosenIn
  <2>5. F[T] = f[c] + F[R]
      BY <1>2, <2>2, <2>3 DEF Sums
  <2>6. G[T] = g[c] + G[R]
      BY <1>3, <2>2, <2>3 DEF Sums
  <2> HIDE DEF c
  <2>7. F[R] <= G[R]
      BY <2>1, <2>4
  <2> HIDE DEF B, R
  <2>8. f[c] \in Int /\ g[c] \in Int /\ F[R] \in Int /\ G[R] \in Int /\ f[c] <= g[c]
      BY <1>1, <1>2, <1>3, <2>4
  <2> QED BY <2>2, <2>5, <2>6, <2>7, <2>8
<1>5. S \in SUBSET S
    OBVIOUS
<1>6. F[S] <= G[S]
    BY <1>4, <1>5
<1>7. SumFunction(f) = F[S] /\ SumFunction(g) = G[S]
    BY <1>1, SumUnfold DEF F, G
<1> QED BY <1>2, <1>3, <1>5, <1>6, <1>7

\* A sum of natural numbers is one.
LEMMA SumNatural ==
    ASSUME NEW S, IsFiniteSet(S), NEW f \in [S -> Nat]
    PROVE  SumFunction(f) \in Nat
<1> DEFINE z == [x \in S |-> 0]
<1>1. Dominated(z, f, S)
    BY DEF Dominated
<1>2. SumFunction(z) = 0
    BY SumZero
<1> HIDE DEF z
<1> QED BY <1>1, <1>2, SumDominated

\* The sum of a function that is zero but at one place.
LEMMA SumOne ==
    ASSUME NEW S, IsFiniteSet(S), NEW x \in S, NEW f \in [S -> Int],
           \A y \in S : y # x => f[y] = 0
    PROVE  SumFunction(f) = f[x] /\ f[x] \in Int
<1> DEFINE z == [y \in S |-> 0]
<1>1. z \in [S -> Int] /\ z[x] = 0 /\ \A y \in S : y # x => f[y] = z[y]
    OBVIOUS
<1>2. SumFunction(z) = 0
    BY SumZero
<1> HIDE DEF z
<1>3. SumFunction(f) = SumFunction(z) - z[x] + f[x]
    BY <1>1, SumChanged
<1>4. f[x] \in Int
    OBVIOUS
<1> QED BY <1>1, <1>2, <1>3, <1>4

\* One term taken out of a sum of natural numbers.
LEMMA SumZeroed ==
    ASSUME NEW S, IsFiniteSet(S), NEW x \in S, NEW f \in [S -> Nat]
    PROVE  /\ [f EXCEPT ![x] = 0] \in [S -> Nat]
           /\ SumFunction(f) = f[x] + SumFunction([f EXCEPT ![x] = 0])
           /\ f[x] \in Nat /\ SumFunction([f EXCEPT ![x] = 0]) \in Nat
<1> DEFINE g == [f EXCEPT ![x] = 0]
<1>1. g \in [S -> Nat] /\ g[x] = 0 /\ (\A y \in S : y # x => g[y] = f[y]) /\ f[x] \in Nat
    OBVIOUS
<1> HIDE DEF g
<1>2. g \in [S -> Int] /\ f \in [S -> Int]
    BY <1>1
<1>3. SumFunction(g) \in Nat /\ SumFunction(f) \in Nat
    BY <1>1, SumNatural
<1>4. SumFunction(g) = SumFunction(f) - f[x] + g[x]
    BY <1>1, <1>2, SumChanged
<1>5. SumFunction(f) = f[x] + SumFunction(g)
    BY <1>1, <1>3, <1>4
<1> QED BY <1>1, <1>3, <1>5 DEF g

=============================================================================
