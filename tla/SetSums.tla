------------------------------ MODULE SetSums ------------------------------
(***************************************************************************)
(* Facts about SumFunctionOnSet, the sum of f[x] over a finite set, for    *)
(* the proofs that add up rows of a table: the sum is an integer, any      *)
(* element can be taken out of it or added to it, and it looks at nothing  *)
(* but the elements.  Induction over finite sets is had without a          *)
(* predicate parameter: the set of counterexamples has a smallest member   *)
(* (Least), and the induction step contradicts it.                         *)
(***************************************************************************)
EXTENDS Integers, Functions, FiniteSets, FiniteSetTheorems, WellFoundedInduction, TLAPS

\* A family of finite sets has a member that contains no other member.
LEMMA Least ==
  ASSUME NEW F, F # {}, \A s \in F : IsFiniteSet(s)
  PROVE  \E s \in F : \A t \in F : t \subseteq s => t = s
  <1> DEFINE U == UNION F
  <1>1. F \subseteq FiniteSubsetsOf(U)
    BY DEF FiniteSubsetsOf
  <1>2. IsWellFoundedOn(StrictSubsetOrdering(U), FiniteSubsetsOf(U))
    BY FS_StrictSubsetOrderingWellFounded
  <1> HIDE DEF U
  <1>3. \E s \in F : \A t \in F : ~(<<t, s>> \in StrictSubsetOrdering(U))
    BY <1>1, <1>2, WFMin
  <1>4. F \subseteq SUBSET U
    BY DEF U
  <1> QED
    BY <1>3, <1>4 DEF StrictSubsetOrdering

\* h is the table of partial sums by which SumFunctionOnSet adds f up over S.
Adds(h, f, S) ==
   h = [s \in SUBSET S |-> IF s = {} THEN 0
        ELSE LET x == CHOOSE x \in s : TRUE IN f[x] + h[s \ {x}]]

\* The sum is read off such a table.
LEMMA SumIs ==
  ASSUME NEW f, NEW S
  PROVE  SumFunctionOnSet(f, S) = (CHOOSE h : Adds(h, f, S))[S]
  BY DEF SumFunctionOnSet, FoldFunctionOnSet, MapThenFoldSet, Adds

\* One line of the table.
LEMMA AddsAt ==
  ASSUME NEW f, NEW S, NEW h, Adds(h, f, S), NEW s \in SUBSET S
  PROVE  /\ s = {} => h[s] = 0
         /\ s # {} => LET x == CHOOSE x \in s : TRUE IN x \in s /\ h[s] = f[x] + h[s \ {x}]
  BY DEF Adds

\* Two tables agree on the sets both have: each line follows from smaller ones.
LEMMA AddsAgree ==
  ASSUME NEW f, NEW S, NEW T, IsFiniteSet(S), IsFiniteSet(T),
         NEW g, Adds(g, f, S), NEW h, Adds(h, f, T)
  PROVE  \A s \in SUBSET (S \cap T) : g[s] = h[s]
  <1> DEFINE F == {s \in SUBSET (S \cap T) : g[s] # h[s]}
  <1>1. SUFFICES ASSUME F # {} PROVE FALSE
    OBVIOUS
  <1>2. \A s \in F : IsFiniteSet(s)
    BY FS_Subset
  <1> HIDE DEF F
  <1>3. \E s \in F : \A t \in F : t \subseteq s => t = s
    BY <1>1, <1>2, Least
  <1> USE DEF F
  <1>4. PICK s \in F : \A t \in F : t \subseteq s => t = s
    BY <1>3
  <1>5. CASE s = {}
    BY <1>4, <1>5, AddsAt
  <1>6. CASE s # {}
    <2> DEFINE x == CHOOSE x \in s : TRUE
    <2>1. s \in SUBSET S /\ s \in SUBSET T
      BY <1>4
    <2>2. x \in s /\ g[s] = f[x] + g[s \ {x}] /\ h[s] = f[x] + h[s \ {x}]
      BY <1>6, <2>1, AddsAt
    <2> HIDE DEF x
    <2>3. g[s \ {x}] = h[s \ {x}]
      BY <1>4, <2>1, <2>2
    <2> QED
      BY <1>4, <2>2, <2>3
  <1> QED
    BY <1>5, <1>6

\* Every finite set has a table, put together from those of its subsets.
LEMMA AddsExists ==
  ASSUME NEW f, NEW S, IsFiniteSet(S)
  PROVE  \E h : Adds(h, f, S)
  <1> DEFINE F == {s \in SUBSET S : ~ \E h : Adds(h, f, s)}
  <1>1. SUFFICES ASSUME F # {} PROVE FALSE
    OBVIOUS
  <1>2. \A s \in F : IsFiniteSet(s)
    BY FS_Subset
  <1> HIDE DEF F
  <1>3. \E s \in F : \A t \in F : t \subseteq s => t = s
    BY <1>1, <1>2, Least
  <1> USE DEF F
  <1>4. PICK s \in F : \A t \in F : t \subseteq s => t = s
    BY <1>3
  <1> DEFINE best(t) == CHOOSE h : Adds(h, f, t)
             h == [t \in SUBSET s |-> IF t = {} THEN 0
                    ELSE LET x == CHOOSE x \in t : TRUE IN f[x] + best(t \ {x})[t \ {x}]]
  <1>5. \A t \in SUBSET s : t # s => Adds(best(t), f, t)
    <2> TAKE t \in SUBSET s
    <2> HAVE t # s
    <2>1. \E g : Adds(g, f, t)
      BY <1>4
    <2> QED
      BY <2>1
  <1> HIDE DEF best
  <1>6. ASSUME NEW t \in SUBSET s, t # s PROVE h[t] = best(t)[t]
    <2>1. Adds(best(t), f, t)
      BY <1>5, <1>6
    <2>2. CASE t = {}
      BY <2>1, <2>2, AddsAt
    <2>3. CASE t # {}
      <3> DEFINE x == CHOOSE x \in t : TRUE
      <3>1. x \in t /\ best(t)[t] = f[x] + best(t)[t \ {x}]
        BY <2>1, <2>3, AddsAt
      <3>2. h[t] = f[x] + best(t \ {x})[t \ {x}]
        BY <2>3
      <3> HIDE DEF x
      <3>3. t \ {x} # s /\ t \ {x} \in SUBSET s
        BY <3>1, <1>6
      <3>4. Adds(best(t \ {x}), f, t \ {x})
        BY <1>5, <3>3
      <3>5. IsFiniteSet(t) /\ IsFiniteSet(t \ {x})
        BY <1>2, <3>3, FS_Subset
      <3>6. best(t)[t \ {x}] = best(t \ {x})[t \ {x}]
        BY <2>1, <3>4, <3>5, AddsAgree
      <3> QED
        BY <3>1, <3>2, <3>6
    <2> QED
      BY <2>2, <2>3
  <1>7. Adds(h, f, s)
    <2>1. h = [t \in SUBSET s |-> h[t]]
      OBVIOUS
    <2>2. ASSUME NEW t \in SUBSET s
          PROVE  h[t] = IF t = {} THEN 0
                        ELSE LET x == CHOOSE x \in t : TRUE IN f[x] + h[t \ {x}]
      <3>1. CASE t = {}
        BY <3>1
      <3>2. CASE t # {}
        <4> DEFINE x == CHOOSE x \in t : TRUE
        <4>1. h[t] = f[x] + best(t \ {x})[t \ {x}] /\ x \in t
          BY <3>2
        <4>2. h[t \ {x}] = best(t \ {x})[t \ {x}]
          <5> HIDE DEF x, h
          <5>1. t \ {x} \in SUBSET s /\ t \ {x} # s
            BY <4>1
          <5> QED
            BY <1>6, <5>1
        <4> QED
          BY <3>2, <4>1, <4>2
      <3> QED
        BY <3>1, <3>2
    <2> HIDE DEF h
    <2> QED
      BY <2>1, <2>2 DEF Adds
  <1> QED
    BY <1>4, <1>7

\* The recursive equation of the sum.
LEMMA SumUnfold ==
  ASSUME NEW f, NEW S, IsFiniteSet(S)
  PROVE  /\ S = {} => SumFunctionOnSet(f, S) = 0
         /\ S # {} => LET x == CHOOSE x \in S : TRUE IN
              x \in S /\ SumFunctionOnSet(f, S) = f[x] + SumFunctionOnSet(f, S \ {x})
  <1> DEFINE g(T) == CHOOSE h : Adds(h, f, T)
             x == CHOOSE x \in S : TRUE
  <1>1. \A T : SumFunctionOnSet(f, T) = g(T)[T]
    BY SumIs
  <1>2. \A T : IsFiniteSet(T) => Adds(g(T), f, T)
    BY AddsExists
  <1> HIDE DEF g
  <1>3. IsFiniteSet(S \ {x})
    BY FS_Subset
  <1>4. g(S)[S \ {x}] = g(S \ {x})[S \ {x}]
    <2> HIDE DEF x
    <2>1. PICK R, a, b : R = S \ {x} /\ a = g(S) /\ b = g(R)
      OBVIOUS
    <2>2. IsFiniteSet(R) /\ Adds(a, f, S) /\ Adds(b, f, R)
      BY <1>2, <1>3, <2>1
    <2>5. R \subseteq S
      BY <2>1
    <2>6. a[R] = b[R]
      BY <2>2, <2>5, AddsAgree
    <2> QED
      BY <2>1, <2>6
  <1> QED
    BY <1>1, <1>2, <1>4, AddsAt

\* Nothing adds up to zero.
LEMMA SumEmpty == \A f : SumFunctionOnSet(f, {}) = 0
  BY SumUnfold, FS_EmptySet

\* A sum of integers is an integer.
LEMMA SumType ==
  ASSUME NEW f, NEW S, IsFiniteSet(S), \A x \in S : f[x] \in Int
  PROVE  SumFunctionOnSet(f, S) \in Int
  <1> DEFINE F == {s \in SUBSET S : SumFunctionOnSet(f, s) \notin Int}
  <1>1. SUFFICES ASSUME F # {} PROVE FALSE
    OBVIOUS
  <1>2. \A s \in F : IsFiniteSet(s)
    BY FS_Subset
  <1> HIDE DEF F
  <1>3. \E s \in F : \A t \in F : t \subseteq s => t = s
    BY <1>1, <1>2, Least
  <1> USE DEF F
  <1>4. PICK s \in F : \A t \in F : t \subseteq s => t = s
    BY <1>3
  <1>5. SumFunctionOnSet(f, {}) \in Int
    BY SumEmpty
  <1>6. SumFunctionOnSet(f, s) \notin Int
    BY <1>4
  <1>7. s # {}
    BY <1>5, <1>6
  <1>8. PICK x \in s : SumFunctionOnSet(f, s) = f[x] + SumFunctionOnSet(f, s \ {x})
    BY <1>2, <1>7, SumUnfold
  <1>9. SumFunctionOnSet(f, s \ {x}) \in Int
    BY <1>4
  <1> QED
    BY <1>4, <1>8, <1>9

\* Any element can be taken out of the sum, not only the one CHOOSE picks.
LEMMA SumRemove ==
  ASSUME NEW f, NEW S, IsFiniteSet(S), \A x \in S : f[x] \in Int, NEW x \in S
  PROVE  SumFunctionOnSet(f, S) = f[x] + SumFunctionOnSet(f, S \ {x})
  <1> DEFINE F == {s \in SUBSET S :
                     \E z \in s : SumFunctionOnSet(f, s) # f[z] + SumFunctionOnSet(f, s \ {z})}
  <1>1. SUFFICES ASSUME F # {} PROVE FALSE
    OBVIOUS
  <1>2. \A s \in F : IsFiniteSet(s)
    BY FS_Subset
  <1> HIDE DEF F
  <1>3. \E s \in F : \A t \in F : t \subseteq s => t = s
    BY <1>1, <1>2, Least
  <1> USE DEF F
  <1>4. PICK s \in F : \A t \in F : t \subseteq s => t = s
    BY <1>3
  <1>5. PICK z \in s : SumFunctionOnSet(f, s) # f[z] + SumFunctionOnSet(f, s \ {z})
    BY <1>4
  <1>6. PICK y \in s : SumFunctionOnSet(f, s) = f[y] + SumFunctionOnSet(f, s \ {y})
    BY <1>2, <1>5, SumUnfold
  <1>7. y # z
    BY <1>5, <1>6
  <1>8. s \ {y} \notin F /\ s \ {z} \notin F
    BY <1>4
  <1> DEFINE r == (s \ {y}) \ {z}
  <1>9. SumFunctionOnSet(f, s \ {y}) = f[z] + SumFunctionOnSet(f, r)
    BY <1>7, <1>8
  <1>10. r = (s \ {z}) \ {y}
    OBVIOUS
  <1>11. SumFunctionOnSet(f, s \ {z}) = f[y] + SumFunctionOnSet(f, r)
    BY <1>7, <1>8, <1>10
  <1>12. SumFunctionOnSet(f, r) \in Int
    <2>1. IsFiniteSet(r) /\ \A w \in r : f[w] \in Int
      BY <1>2, FS_Subset
    <2> QED
      BY <2>1, SumType
  <1>13. f[y] \in Int /\ f[z] \in Int
    OBVIOUS
  <1> QED
    BY <1>5, <1>6, <1>9, <1>11, <1>12, <1>13

\* A new element adds its value.
LEMMA SumAdd ==
  ASSUME NEW f, NEW S, IsFiniteSet(S), \A x \in S : f[x] \in Int,
         NEW x, x \notin S, f[x] \in Int
  PROVE  SumFunctionOnSet(f, S \cup {x}) = SumFunctionOnSet(f, S) + f[x]
  <1>1. IsFiniteSet(S \cup {x})
    BY FS_AddElement
  <1>2. SumFunctionOnSet(f, S \cup {x}) = f[x] + SumFunctionOnSet(f, (S \cup {x}) \ {x})
    BY <1>1, SumRemove
  <1>3. (S \cup {x}) \ {x} = S
    OBVIOUS
  <1>4. SumFunctionOnSet(f, S) \in Int
    BY SumType
  <1>5. SumFunctionOnSet(f, S \cup {x}) = f[x] + SumFunctionOnSet(f, S)
    BY <1>2, <1>3, Zenon
  <1> QED
    BY <1>4, <1>5

\* The sum looks at nothing but the elements.
LEMMA SumSame ==
  ASSUME NEW f, NEW g, NEW S, IsFiniteSet(S), \A x \in S : f[x] = g[x]
  PROVE  SumFunctionOnSet(f, S) = SumFunctionOnSet(g, S)
  <1> DEFINE F == {s \in SUBSET S : SumFunctionOnSet(f, s) # SumFunctionOnSet(g, s)}
  <1>1. SUFFICES ASSUME F # {} PROVE FALSE
    OBVIOUS
  <1>2. \A s \in F : IsFiniteSet(s)
    BY FS_Subset
  <1> HIDE DEF F
  <1>3. \E s \in F : \A t \in F : t \subseteq s => t = s
    BY <1>1, <1>2, Least
  <1> USE DEF F
  <1>4. PICK s \in F : \A t \in F : t \subseteq s => t = s
    BY <1>3
  <1>5. SumFunctionOnSet(f, {}) = 0 /\ SumFunctionOnSet(g, {}) = 0
    BY SumEmpty
  <1>6. s # {}
    BY <1>4, <1>5
  <1> DEFINE x == CHOOSE x \in s : TRUE
  <1>7. /\ x \in s
        /\ SumFunctionOnSet(f, s) = f[x] + SumFunctionOnSet(f, s \ {x})
        /\ SumFunctionOnSet(g, s) = g[x] + SumFunctionOnSet(g, s \ {x})
    BY <1>2, <1>6, SumUnfold
  <1> HIDE DEF x
  <1>8. SumFunctionOnSet(f, s \ {x}) = SumFunctionOnSet(g, s \ {x})
    BY <1>4, <1>7
  <1> QED
    BY <1>4, <1>7, <1>8

\* One more element, the others keep their value: what a step that adds one
\* row to a table does to a sum over the table.
LEMMA SumGrows ==
  ASSUME NEW f, NEW g, NEW S, IsFiniteSet(S), NEW x, x \notin S,
         \A y \in S : f[y] \in Int /\ g[y] = f[y], g[x] \in Int
  PROVE  /\ IsFiniteSet(S \cup {x})
         /\ SumFunctionOnSet(f, S) \in Int
         /\ SumFunctionOnSet(g, S \cup {x}) = SumFunctionOnSet(f, S) + g[x]
  <1>1. IsFiniteSet(S \cup {x})
    BY FS_AddElement
  <1>2. SumFunctionOnSet(f, S) \in Int
    BY SumType
  <1>3. SumFunctionOnSet(g, S) = SumFunctionOnSet(f, S)
    BY SumSame
  <1>4. SumFunctionOnSet(g, S \cup {x}) = SumFunctionOnSet(g, S) + g[x]
    BY SumAdd
  <1> QED
    BY <1>1, <1>2, <1>3, <1>4
=============================================================================
