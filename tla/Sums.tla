-------------------------------- MODULE Sums --------------------------------
(***************************************************************************)
(* Sums of natural numbers over finite sets.  SumFunctionOnSet folds a     *)
(* function over a set in the order in which CHOOSE picks its elements;    *)
(* these lemmas say that the order is immaterial and how the sum changes   *)
(* with the set and with the function.                                     *)
(*                                                                         *)
(* A fold is a recursive function, and nothing here is by induction on     *)
(* it.  The sum is instead shown to be the cardinality of a set: f[x]      *)
(* tokens for each x in S.  The number of tokens satisfies the recurrence  *)
(* of the fold, no two functions do (they would differ on a smallest set), *)
(* and cardinalities have the lemmas of FiniteSetTheorems.                 *)
(***************************************************************************)
EXTENDS Integers, FiniteSetsExt, Functions, FiniteSetTheorems, WellFoundedInduction, TLAPS

\* S is finite and f gives each of its elements a number.
Summable(f, S) == IsFiniteSet(S) /\ \A x \in S : f[x] \in Nat

\* f[x] tokens for each x in S.
Tokens(f, S) == UNION {{x} \X (1..f[x]) : x \in S}

\* The recurrence that the fold solves.
Recurs(iter, f, S) ==
  iter = [s \in SUBSET S |->
            IF s = {} THEN 0
            ELSE LET x == CHOOSE x \in s : TRUE IN f[x] + iter[s \ {x}]]

\* It is the one that SumFunctionOnSet is defined by.
LEMMA SumUnfolds ==
  ASSUME NEW f, NEW S
  PROVE  SumFunctionOnSet(f, S) = (CHOOSE iter : Recurs(iter, f, S))[S]
  BY DEF SumFunctionOnSet, FoldFunctionOnSet, MapThenFoldSet, Recurs

-----------------------------------------------------------------------------
(* The tokens.                                                              *)

\* A token names its element and carries a number.
LEMMA TokensAre ==
  ASSUME NEW f, NEW S
  PROVE  \A t : t \in Tokens(f, S) <=> \E x \in S : \E n \in 1..f[x] : t = <<x, n>>
  BY DEF Tokens

\* One element has as many tokens as its number says.
LEMMA TokensOfOne ==
  ASSUME NEW x, NEW n \in Nat
  PROVE  IsFiniteSet({x} \X (1..n)) /\ Cardinality({x} \X (1..n)) = n
<1>1. IsFiniteSet(1..n) /\ Cardinality(1..n) = n
  BY FS_Interval
<1>2. IsFiniteSet({x}) /\ Cardinality({x}) = 1
  BY FS_Singleton
<1>3. QED
  BY <1>1, <1>2, FS_Product

\* Finitely many elements have finitely many tokens.
LEMMA TokensFinite ==
  ASSUME NEW f, NEW S, Summable(f, S)
  PROVE  IsFiniteSet(Tokens(f, S))
<1> DEFINE T == {{x} \X (1..f[x]) : x \in S}
           m == [x \in S |-> {x} \X (1..f[x])]
<1>1. m \in Surjection(S, T)
  BY DEF Surjection
<1>2. IsFiniteSet(T)
  BY <1>1, FS_Surjection DEF Summable
<1>3. \A U \in T : IsFiniteSet(U)
  <2> SUFFICES ASSUME NEW x \in S PROVE IsFiniteSet({x} \X (1..f[x]))
    OBVIOUS
  <2>1. f[x] \in Nat
    BY DEF Summable
  <2> QED
    BY <2>1, TokensOfOne
<1> QED
  BY <1>2, <1>3, FS_UNION DEF Tokens

\* The tokens of a set are those of one element and those of the others.
LEMMA TokensSplit ==
  ASSUME NEW f, NEW S, Summable(f, S), NEW x \in S
  PROVE  Cardinality(Tokens(f, S)) = f[x] + Cardinality(Tokens(f, S \ {x}))
<1> DEFINE R == S \ {x}
           One == {x} \X (1..f[x])
<1>1. Summable(f, R)
  BY FS_RemoveElement DEF Summable
<1>2. IsFiniteSet(Tokens(f, R))
  BY <1>1, TokensFinite
<1>3. IsFiniteSet(One) /\ Cardinality(One) = f[x]
  BY TokensOfOne DEF Summable
<1>4. Tokens(f, S) = One \cup Tokens(f, R)
  BY DEF Tokens
<1>5. One \cap Tokens(f, R) = {}
  BY TokensAre
<1> HIDE DEF R, One
<1>6. Cardinality(One \cup Tokens(f, R)) = Cardinality(One) + Cardinality(Tokens(f, R))
                                              - Cardinality(One \cap Tokens(f, R))
  BY <1>2, <1>3, FS_Union
<1>7. Cardinality(Tokens(f, R)) \in Nat /\ f[x] \in Nat
  BY <1>2, FS_CardinalityType DEF Summable
<1>8. Cardinality({}) = 0
  BY FS_EmptySet
<1>9. Cardinality(Tokens(f, S)) = Cardinality(One) + Cardinality(Tokens(f, R)) - 0
  BY <1>4, <1>5, <1>6, <1>8
<1>10. \A m, n \in Nat : m + n - 0 = m + n
  OBVIOUS
<1> QED
  BY <1>3, <1>7, <1>9, <1>10 DEF R

\* So the number of tokens solves the recurrence of the fold.
LEMMA TokensRecur ==
  ASSUME NEW f, NEW S, Summable(f, S)
  PROVE  Recurs([s \in SUBSET S |-> Cardinality(Tokens(f, s))], f, S)
<1> DEFINE g == [s \in SUBSET S |-> Cardinality(Tokens(f, s))]
<1> SUFFICES ASSUME NEW s \in SUBSET S
             PROVE  g[s] = IF s = {} THEN 0
                           ELSE LET x == CHOOSE x \in s : TRUE IN f[x] + g[s \ {x}]
  BY DEF Recurs
<1>1. CASE s = {}
  <2>1. Tokens(f, s) = {}
    BY <1>1 DEF Tokens
  <2> QED
    BY <1>1, <2>1, FS_EmptySet
<1>2. CASE s # {}
  <2> DEFINE x == CHOOSE x \in s : TRUE
  <2>1. x \in s
    BY <1>2
  <2>2. Summable(f, s)
    BY FS_Subset DEF Summable
  <2>3. s \ {x} \in SUBSET S
    OBVIOUS
  <2> HIDE DEF x
  <2>4. Cardinality(Tokens(f, s)) = f[x] + Cardinality(Tokens(f, s \ {x}))
    BY <2>1, <2>2, TokensSplit
  <2>5. g[s] = f[x] + g[s \ {x}]
    BY <2>3, <2>4
  <2> QED
    BY <1>2, <2>5 DEF x
<1> QED
  BY <1>1, <1>2

\* Nothing else does: two solutions would differ on a smallest set, whose other elements
\* they sum alike.
LEMMA RecursOnce ==
  ASSUME NEW f, NEW S, IsFiniteSet(S), NEW g, NEW h, Recurs(g, f, S), Recurs(h, f, S)
  PROVE  g = h
<1> DEFINE D == {s \in SUBSET S : g[s] # h[s]}
<1>1. SUFFICES D = {}
  BY DEF Recurs
<1>2. SUFFICES ASSUME D # {} PROVE FALSE
  OBVIOUS
<1>3. IsWellFoundedOn(StrictSubsetOrdering(S), SUBSET S)
  BY FS_StrictSubsetOrderingWellFounded, FS_FiniteSubsetsOfFinite
<1>4. PICK s \in D : \A t \in D : ~ (<<t, s>> \in StrictSubsetOrdering(S))
  <2>1. D \subseteq SUBSET S
    OBVIOUS
  <2> HIDE DEF D
  <2> QED
    BY <1>2, <1>3, <2>1, WFMin
<1>5. s # {}
  BY DEF Recurs
<1> DEFINE x == CHOOSE x \in s : TRUE
<1>6. x \in s
  BY <1>5
<1>7. g[s] = f[x] + g[s \ {x}] /\ h[s] = f[x] + h[s \ {x}]
  BY <1>5 DEF Recurs
<1>8. <<s \ {x}, s>> \in StrictSubsetOrdering(S)
  BY <1>6 DEF StrictSubsetOrdering
<1>9. g[s \ {x}] = h[s \ {x}]
  BY <1>4, <1>8
<1> QED
  BY <1>7, <1>9

\* The sum is the number of tokens: it does not depend on the order of the fold.
LEMMA SumCountsTokens ==
  ASSUME NEW f, NEW S, Summable(f, S)
  PROVE  SumFunctionOnSet(f, S) = Cardinality(Tokens(f, S))
<1> DEFINE g == [s \in SUBSET S |-> Cardinality(Tokens(f, s))]
           h == CHOOSE iter : Recurs(iter, f, S)
<1>1. Recurs(g, f, S)
  BY TokensRecur
<1> HIDE DEF g
<1>2. Recurs(h, f, S)
  BY <1>1
<1> HIDE DEF h
<1>3. g = h
  BY <1>1, <1>2, RecursOnce DEF Summable
<1> QED
  BY <1>3, SumUnfolds DEF g, h

-----------------------------------------------------------------------------
(* What a sum is, and how it changes.                                       *)

\* A sum of natural numbers is one.
LEMMA SumType ==
  ASSUME NEW f, NEW S, Summable(f, S)
  PROVE  SumFunctionOnSet(f, S) \in Nat
  BY SumCountsTokens, TokensFinite, FS_CardinalityType

\* Nothing sums to zero.
LEMMA SumEmpty ==
  ASSUME NEW f
  PROVE  SumFunctionOnSet(f, {}) = 0
<1>1. Summable(f, {})
  BY FS_EmptySet DEF Summable
<1>2. Tokens(f, {}) = {}
  BY DEF Tokens
<1> QED
  BY <1>1, <1>2, SumCountsTokens, FS_EmptySet

\* One element is taken out of the sum.
LEMMA SumRemove ==
  ASSUME NEW f, NEW S, Summable(f, S), NEW x \in S
  PROVE  SumFunctionOnSet(f, S) = f[x] + SumFunctionOnSet(f, S \ {x})
<1>1. Summable(f, S \ {x})
  BY FS_RemoveElement DEF Summable
<1> QED
  BY <1>1, SumCountsTokens, TokensSplit

\* One element is added to the sum.
LEMMA SumAdd ==
  ASSUME NEW f, NEW S, NEW x, Summable(f, S), f[x] \in Nat, x \notin S
  PROVE  SumFunctionOnSet(f, S \cup {x}) = SumFunctionOnSet(f, S) + f[x]
<1>1. Summable(f, S \cup {x})
  BY FS_AddElement DEF Summable
<1>2. (S \cup {x}) \ {x} = S
  OBVIOUS
<1>3. SumFunctionOnSet(f, S) \in Nat
  BY SumType
<1>4. SumFunctionOnSet(f, S \cup {x}) = f[x] + SumFunctionOnSet(f, S)
  BY <1>1, <1>2, SumRemove
<1> QED
  BY <1>3, <1>4

\* The sum depends on the values that are summed only.
LEMMA SumSame ==
  ASSUME NEW f, NEW g, NEW S, Summable(f, S), \A x \in S : f[x] = g[x]
  PROVE  SumFunctionOnSet(f, S) = SumFunctionOnSet(g, S)
<1>1. Summable(g, S)
  BY DEF Summable
<1>2. Tokens(f, S) = Tokens(g, S)
  BY DEF Tokens
<1> QED
  BY <1>1, <1>2, SumCountsTokens

\* More elements, and larger ones, sum to no less.
LEMMA SumLeq ==
  ASSUME NEW f, NEW S, NEW g, NEW T, Summable(f, S), Summable(g, T),
         S \subseteq T, \A x \in S : f[x] <= g[x]
  PROVE  SumFunctionOnSet(f, S) <= SumFunctionOnSet(g, T)
<1>1. Tokens(f, S) \subseteq Tokens(g, T)
  <2> SUFFICES ASSUME NEW t, NEW x \in S, NEW n \in 1..f[x], t = <<x, n>>
               PROVE  t \in Tokens(g, T)
    BY TokensAre
  <2>1. n \in 1..g[x]
    BY DEF Summable
  <2> QED
    BY <2>1, TokensAre
<1>2. Cardinality(Tokens(f, S)) <= Cardinality(Tokens(g, T))
  BY <1>1, TokensFinite, FS_Subset
<1> QED
  BY <1>2, SumCountsTokens

\* Disjoint sets are summed apart.
LEMMA SumUnion ==
  ASSUME NEW f, NEW S, NEW T, Summable(f, S), Summable(f, T), S \cap T = {}
  PROVE  SumFunctionOnSet(f, S \cup T) = SumFunctionOnSet(f, S) + SumFunctionOnSet(f, T)
<1>1. Summable(f, S \cup T)
  BY FS_Union DEF Summable
<1>2. Tokens(f, S \cup T) = Tokens(f, S) \cup Tokens(f, T)
  BY DEF Tokens
<1>3. Tokens(f, S) \cap Tokens(f, T) = {}
  BY TokensAre
<1>4. Cardinality(Tokens(f, S) \cup Tokens(f, T))
        = Cardinality(Tokens(f, S)) + Cardinality(Tokens(f, T)) - Cardinality({})
  BY <1>3, TokensFinite, FS_Union
<1>5. Cardinality({}) = 0
  BY FS_EmptySet
<1>6. /\ Cardinality(Tokens(f, S)) \in Nat
      /\ Cardinality(Tokens(f, T)) \in Nat
  BY TokensFinite, FS_CardinalityType
<1>7. \A m, n \in Nat : m + n - 0 = m + n
  OBVIOUS
<1>8. Cardinality(Tokens(f, S \cup T)) = Cardinality(Tokens(f, S)) + Cardinality(Tokens(f, T))
  BY <1>2, <1>4, <1>5, <1>6, <1>7
<1> QED
  BY <1>1, <1>8, SumCountsTokens

\* Zeros sum to zero.
LEMMA SumZero ==
  ASSUME NEW f, NEW S, IsFiniteSet(S), \A x \in S : f[x] = 0
  PROVE  SumFunctionOnSet(f, S) = 0
<1>1. Summable(f, S)
  BY DEF Summable
<1>2. Tokens(f, S) = {}
  BY DEF Tokens
<1> QED
  BY <1>1, <1>2, SumCountsTokens, FS_EmptySet

\* A function that agrees on S, over one element more.
LEMMA SumExtend ==
  ASSUME NEW f, NEW g, NEW S, NEW x, NEW n \in Nat, Summable(f, S),
         \A y \in S : g[y] = f[y], x \notin S, g[x] = n
  PROVE  SumFunctionOnSet(g, S \cup {x}) = SumFunctionOnSet(f, S) + n
<1>1. Summable(g, S) /\ SumFunctionOnSet(f, S) = SumFunctionOnSet(g, S)
  BY SumSame DEF Summable
<1>2. SumFunctionOnSet(g, S \cup {x}) = SumFunctionOnSet(g, S) + g[x]
  BY <1>1, SumAdd
<1> QED
  BY <1>1, <1>2

\* A sum over the same numbers under other names.
LEMMA SumRenamed ==
  ASSUME NEW f, NEW S, NEW g, NEW T, NEW h \in Bijection(S, T), Summable(f, S), Summable(g, T),
         \A x \in S : f[x] = g[h[x]]
  PROVE  SumFunctionOnSet(f, S) = SumFunctionOnSet(g, T)
<1> DEFINE A == Tokens(f, S)
           B == Tokens(g, T)
           H == [t \in A |-> <<h[t[1]], t[2]>>]
<1>1. /\ \A x \in S : h[x] \in T
      /\ \A x, y \in S : h[x] = h[y] => x = y
      /\ \A y \in T : \E x \in S : h[x] = y
  BY DEF Bijection, Injection, Surjection, IsInjective
<1>2. /\ \A t : t \in A <=> \E x \in S : \E n \in 1..f[x] : t = <<x, n>>
      /\ \A t : t \in B <=> \E x \in T : \E n \in 1..g[x] : t = <<x, n>>
  BY TokensAre
<1>3. \A t \in A : H[t] \in B
  BY <1>1, <1>2
<1>4. \A t, u \in A : H[t] = H[u] => t = u
  BY <1>1, <1>2
<1>5. \A u \in B : \E t \in A : H[t] = u
  <2> SUFFICES ASSUME NEW u \in B PROVE \E t \in A : H[t] = u
    OBVIOUS
  <2>1. PICK y \in T : \E n \in 1..g[y] : u = <<y, n>>
    BY <1>2
  <2>2. PICK n \in 1..g[y] : u = <<y, n>>
    BY <2>1
  <2>3. PICK x \in S : h[x] = y
    BY <1>1
  <2>4. <<x, n>> \in A
    <3>1. n \in 1..f[x]
      BY <2>3
    <3> QED
      BY <1>2, <3>1
  <2> QED
    BY <2>2, <2>3, <2>4
<1>6. IsFiniteSet(A)
  BY TokensFinite
<1> HIDE DEF A, B
<1>7. H \in Bijection(A, B)
  BY <1>3, <1>4, <1>5 DEF Bijection, Injection, Surjection, IsInjective
<1>8. Cardinality(A) = Cardinality(B)
  BY <1>6, <1>7, FS_Bijection DEF ExistsBijection
<1> QED
  BY <1>8, SumCountsTokens DEF A, B

\* What adds nothing can be left out.
LEMMA SumPart ==
  ASSUME NEW f, NEW S, NEW T, Summable(f, S), T \subseteq S, \A x \in S \ T : f[x] = 0
  PROVE  SumFunctionOnSet(f, S) = SumFunctionOnSet(f, T)
<1> DEFINE R == S \ T
<1>1. Summable(f, T) /\ Summable(f, R) /\ T \cap R = {} /\ S = T \cup R
  BY FS_Subset DEF Summable
<1>2. SumFunctionOnSet(f, R) = 0
  BY <1>1, SumZero DEF Summable
<1>3. SumFunctionOnSet(f, T) \in Nat
  BY <1>1, SumType
<1> HIDE DEF R
<1>4. SumFunctionOnSet(f, T \cup R) = SumFunctionOnSet(f, T) + SumFunctionOnSet(f, R)
  BY <1>1, SumUnion
<1> QED
  BY <1>1, <1>2, <1>3, <1>4

\* The sum over a single element.
LEMMA SumOfOne ==
  ASSUME NEW f, NEW x, f[x] \in Nat
  PROVE  SumFunctionOnSet(f, {x}) = f[x]
<1>1. Summable(f, {}) /\ {} \cup {x} = {x}
  BY FS_EmptySet DEF Summable
<1>2. SumFunctionOnSet(f, {} \cup {x}) = SumFunctionOnSet(f, {}) + f[x]
  BY <1>1, SumAdd
<1> QED
  BY <1>1, <1>2, SumEmpty

\* Sums add up pointwise: on a smallest set they would not, what an element adds would differ.
LEMMA SumPlus ==
  ASSUME NEW f, NEW g, NEW h, NEW S, Summable(f, S), Summable(g, S),
         \A x \in S : h[x] = f[x] + g[x]
  PROVE  /\ Summable(h, S)
         /\ SumFunctionOnSet(h, S) = SumFunctionOnSet(f, S) + SumFunctionOnSet(g, S)
<1>1. Summable(h, S)
  BY DEF Summable
<1> DEFINE Adds(s) == SumFunctionOnSet(h, s) = SumFunctionOnSet(f, s) + SumFunctionOnSet(g, s)
           D == {s \in SUBSET S : ~Adds(s)}
<1>2. SUFFICES ASSUME D # {} PROVE FALSE
  BY <1>1
<1>3. IsWellFoundedOn(StrictSubsetOrdering(S), SUBSET S)
  BY FS_StrictSubsetOrderingWellFounded, FS_FiniteSubsetsOfFinite DEF Summable
<1>4. PICK s \in D : \A t \in D : ~ (<<t, s>> \in StrictSubsetOrdering(S))
  <2>1. D \subseteq SUBSET S
    OBVIOUS
  <2> HIDE DEF D
  <2> QED
    BY <1>2, <1>3, <2>1, WFMin
<1>5. s # {}
  BY SumEmpty
<1>6. PICK x : x \in s
  BY <1>5
<1> DEFINE t == s \ {x}
<1>7. Adds(t)
  <2>1. <<t, s>> \in StrictSubsetOrdering(S) /\ t \in SUBSET S
    BY <1>6 DEF StrictSubsetOrdering
  <2> HIDE DEF t, Adds
  <2> QED
    BY <1>4, <2>1
<1>8. /\ Summable(f, s) /\ Summable(g, s) /\ Summable(h, s)
      /\ Summable(f, t) /\ Summable(g, t) /\ Summable(h, t)
  BY <1>1, FS_Subset DEF Summable
<1>9. /\ SumFunctionOnSet(f, s) = f[x] + SumFunctionOnSet(f, t)
      /\ SumFunctionOnSet(g, s) = g[x] + SumFunctionOnSet(g, t)
      /\ SumFunctionOnSet(h, s) = h[x] + SumFunctionOnSet(h, t)
  BY <1>6, <1>8, SumRemove
<1>10. /\ SumFunctionOnSet(f, t) \in Nat /\ SumFunctionOnSet(g, t) \in Nat
       /\ f[x] \in Nat /\ g[x] \in Nat /\ h[x] = f[x] + g[x]
  BY <1>6, <1>8, SumType DEF Summable
<1>11. Adds(s)
  <2> HIDE DEF t
  <2> QED
    BY <1>7, <1>9, <1>10
<1> QED
  BY <1>4, <1>11

\* So do the sums over any part of the set.
LEMMA SumsPlus ==
  ASSUME NEW f, NEW g, NEW h, NEW S, Summable(f, S), Summable(g, S),
         \A x \in S : h[x] = f[x] + g[x], NEW T \in SUBSET S
  PROVE  SumFunctionOnSet(h, T) = SumFunctionOnSet(f, T) + SumFunctionOnSet(g, T)
<1>1. Summable(f, T) /\ Summable(g, T) /\ \A x \in T : h[x] = f[x] + g[x]
  BY FS_Subset DEF Summable
<1> QED
  BY ONLY <1>1, SumPlus

\* A sum can be taken part by part: on a smallest set of parts it could not, what a part adds
\* would differ.
LEMMA SumByParts ==
  ASSUME NEW f, NEW A, Summable(f, A), NEW S, IsFiniteSet(S), NEW part,
         \A x \in A : part[x] \in S,
         NEW g, \A s \in S : g[s] = SumFunctionOnSet(f, {x \in A : part[x] = s})
  PROVE  Summable(g, S) /\ SumFunctionOnSet(f, A) = SumFunctionOnSet(g, S)
<1> DEFINE In(s) == {x \in A : part[x] \in s}
           Adds(s) == SumFunctionOnSet(f, In(s)) = SumFunctionOnSet(g, s)
           D == {s \in SUBSET S : ~Adds(s)}
<1>1. \A B \in SUBSET A : Summable(f, B) /\ SumFunctionOnSet(f, B) \in Nat
  BY FS_Subset, SumType DEF Summable
<1>2. Summable(g, S)
  <2>1. \A s \in S : {x \in A : part[x] = s} \in SUBSET A
    OBVIOUS
  <2> QED
    BY <1>1, <2>1 DEF Summable
<1>3. SUFFICES ASSUME D # {} PROVE FALSE
  <2>1. In(S) = A /\ S \in SUBSET S
    OBVIOUS
  <2>2. Adds(S) => SumFunctionOnSet(f, A) = SumFunctionOnSet(g, S)
    BY <2>1
  <2> QED
    BY <1>2, <2>1, <2>2
<1>4. IsWellFoundedOn(StrictSubsetOrdering(S), SUBSET S)
  BY FS_StrictSubsetOrderingWellFounded, FS_FiniteSubsetsOfFinite
<1>5. PICK s \in D : \A t \in D : ~ (<<t, s>> \in StrictSubsetOrdering(S))
  <2>1. D \subseteq SUBSET S
    OBVIOUS
  <2> HIDE DEF D
  <2> QED
    BY <1>3, <1>4, <2>1, WFMin
<1>6. s # {}
  <2>1. In({}) = {}
    OBVIOUS
  <2> QED
    BY <1>5, <2>1, SumEmpty
<1>7. PICK z : z \in s
  BY <1>6
<1> DEFINE t == s \ {z}
<1>8. Adds(t)
  <2>1. <<t, s>> \in StrictSubsetOrdering(S) /\ t \in SUBSET S
    BY <1>7 DEF StrictSubsetOrdering
  <2> HIDE DEF t, Adds
  <2> QED
    BY <1>5, <2>1
<1>9. SumFunctionOnSet(g, s) = g[z] + SumFunctionOnSet(g, t)
  <2>1. Summable(g, s)
    BY <1>2, FS_Subset DEF Summable
  <2> QED
    BY <1>7, <2>1, SumRemove
<1>10. SumFunctionOnSet(f, In(s)) = SumFunctionOnSet(f, In(t)) + g[z]
  <2> DEFINE Z == {x \in A : part[x] = z}
  <2>1. /\ In(s) = In(t) \cup Z /\ In(t) \cap Z = {}
        /\ In(t) \in SUBSET A /\ Z \in SUBSET A
    BY <1>7
  <2>2. g[z] = SumFunctionOnSet(f, Z)
    BY <1>7
  <2> HIDE DEF Z, In, t
  <2>3. SumFunctionOnSet(f, In(t) \cup Z) = SumFunctionOnSet(f, In(t)) + SumFunctionOnSet(f, Z)
    BY <1>1, <2>1, SumUnion
  <2> QED
    BY <2>1, <2>2, <2>3
<1>11. g[z] \in Nat /\ SumFunctionOnSet(f, In(t)) \in Nat
  <2>1. In(t) \in SUBSET A
    OBVIOUS
  <2> HIDE DEF In, t
  <2> QED
    BY <1>1, <1>2, <1>7, <2>1 DEF Summable
<1>12. Adds(s)
  <2> HIDE DEF t, In
  <2> QED
    BY <1>8, <1>9, <1>10, <1>11
<1> QED
  BY <1>5, <1>12

-----------------------------------------------------------------------------
(* Numbers.                                                                 *)

LEMMA MinOfTwo ==
  ASSUME NEW m \in Int, NEW n \in Int
  PROVE  Min({m, n}) = IF m <= n THEN m ELSE n
<1>1. \E x \in {m, n} : \A y \in {m, n} : x <= y
  BY m <= n \/ n <= m
<1> QED
  BY <1>1 DEF Min

LEMMA MaxOfTwo ==
  ASSUME NEW m \in Int, NEW n \in Int
  PROVE  Max({m, n}) = IF m >= n THEN m ELSE n
<1>1. \E x \in {m, n} : \A y \in {m, n} : x >= y
  BY m >= n \/ n >= m
<1> QED
  BY <1>1 DEF Max

\* Some numbers have a smallest one.
LEMMA Smallest ==
  ASSUME NEW D, D \subseteq Nat, D # {}
  PROVE  \E n \in D : \A m \in D : n <= m
<1>1. PICK n \in D : \A m \in D : ~ (<<m, n>> \in OpToRel(<, Nat))
  <2> DEFINE R == OpToRel(<, Nat)
  <2>1. IsWellFoundedOn(R, Nat)
    BY NatLessThanWellFounded
  <2> HIDE DEF R
  <2>2. \E n \in D : \A m \in D : ~ (<<m, n>> \in R)
    BY <2>1, WFMin
  <2> QED
    BY <2>2 DEF R
<1>2. ASSUME NEW m \in D PROVE n <= m
  <2>1. m \in Nat /\ n \in Nat
    OBVIOUS
  <2>2. ~ (<<m, n>> \in {ss \in Nat \X Nat : ss[1] < ss[2]})
    BY <1>1 DEF OpToRel
  <2>3. ~ (m < n)
    BY <2>1, <2>2
  <2> QED
    BY <2>1, <2>3
<1> QED
  BY <1>2
=============================================================================
