---------------------------- MODULE Sums_proofs -----------------------------
(***************************************************************************)
(* Sums over finite sets (SumFunctionOnSet of the community modules) and   *)
(* the two forms of induction their proofs use, on the least number and on *)
(* a smallest set.                                                         *)
(***************************************************************************)
EXTENDS Integers, Functions, FiniteSetTheorems, TLAPS

-----------------------------------------------------------------------------
(* Induction by a least counterexample. *)

LEMMA LeastElement == ASSUME NEW T \in SUBSET Nat, T # {} PROVE \E n \in T : \A m \in T : n <= m
<1> DEFINE R == {p \in Nat \X Nat : p[1] < p[2]}
<1>1. IsWellFoundedOn(R, Nat)
  BY NatLessThanWellFounded, Zenon DEF OpToRel
<1>2. PICK n \in T : \A m \in T : ~(<<m, n>> \in R)
  BY <1>1, WFMin, Zenon
<1>3. \A m \in T : <<m, n>> \in Nat \X Nat
  BY <1>2, Zenon
<1>4. \A m \in T : ~(m < n)
  BY <1>2, <1>3, Zenon
<1> QED
  BY <1>2, <1>4

\* Of the bad subsets of a finite set there is one with no bad one just below.
LEMMA SmallestSubset ==
  ASSUME NEW S, IsFiniteSet(S), NEW Bad \in SUBSET SUBSET S, Bad # {}
  PROVE  \E s \in Bad : \A x \in s : s \ {x} \notin Bad
<1> DEFINE T == {n \in Nat : \E s \in Bad : Cardinality(s) = n}
<1>0. \A s \in Bad : IsFiniteSet(s) /\ Cardinality(s) \in Nat
  BY FS_Subset, FS_CardinalityType, Zenon
<1>1. T \in SUBSET Nat /\ T # {}
  BY <1>0, Zenon
<1>2. PICK n \in T : \A m \in T : n <= m
  BY <1>1, LeastElement, Zenon
<1>3. PICK s \in Bad : Cardinality(s) = n
  BY <1>2, Zenon
<1>4. ASSUME NEW x \in s, s \ {x} \in Bad PROVE FALSE
  <2>1. Cardinality(s \ {x}) = n - 1
    BY <1>0, <1>3, FS_RemoveElement, Zenon
  <2>2. n - 1 \in T
    BY <1>0, <1>4, <2>1, Zenon
  <2>. QED BY <1>2, <2>2
<1>. QED BY <1>3, <1>4, Zenon

-----------------------------------------------------------------------------
(* The recursion behind a sum. *)

One(s) == CHOOSE x \in s : TRUE

\* it sums f over the subsets of S.
Sums(it, f, S) ==
  it = [s \in SUBSET S |-> IF s = {} THEN 0 ELSE f[One(s)] + it[s \ {One(s)}]]

LEMMA SumUnfold ==
  ASSUME NEW f, NEW S
  PROVE  SumFunctionOnSet(f, S) = (CHOOSE it : Sums(it, f, S))[S]
BY Zenon DEF SumFunctionOnSet, FoldFunctionOnSet, MapThenFoldSet, Sums, One

LEMMA OneIn == ASSUME NEW s, s # {} PROVE One(s) \in s
BY Zenon DEF One

LEMMA SumsExist ==
  ASSUME NEW f, NEW S, IsFiniteSet(S)
  PROVE  \E it : Sums(it, f, S)
<1> DEFINE Low(n) == {s \in SUBSET S : Cardinality(s) <= n}
           Rec(it, n) == \A s \in Low(n) : it[s] = IF s = {} THEN 0 ELSE f[One(s)] + it[s \ {One(s)}]
           T == {n \in Nat : ~\E it : Rec(it, n)}
<1>0. \A s \in SUBSET S : IsFiniteSet(s) /\ Cardinality(s) \in Nat
  BY FS_Subset, FS_CardinalityType, Zenon
<1>1. ASSUME NEW n \in Nat, NEW s \in Low(n), s # {} 
      PROVE  n # 0 /\ s \ {One(s)} \in Low(n - 1)
  <2>1. One(s) \in s
    BY <1>1, OneIn, Zenon
  <2>2. Cardinality(s \ {One(s)}) = Cardinality(s) - 1
    BY <1>0, <2>1, FS_RemoveElement, Zenon
  <2>3. s \ {One(s)} \in SUBSET S /\ Cardinality(s \ {One(s)}) \in Nat /\ Cardinality(s) <= n
    BY <1>0, Zenon
  <2>. QED BY <1>0, <2>2, <2>3
<1>2. T = {}
  <2>. SUFFICES ASSUME T # {} PROVE FALSE
    BY Zenon 
  <2>1. PICK n \in T : \A m \in T : n <= m
    BY LeastElement, Zenon
  <2>2. \E g : n # 0 => Rec(g, n - 1)
    <3>1. CASE n = 0
      BY <3>1, Zenon
    <3>2. CASE n # 0
      <4>1. n - 1 \in Nat /\ ~(n <= n - 1)
        BY <3>2
      <4>. QED BY <2>1, <4>1
    <3>. QED BY <3>1, <3>2, Zenon
  <2>3. PICK g : n # 0 => Rec(g, n - 1)
    BY <2>2, Zenon
  <2>. DEFINE h == [s \in Low(n) |-> IF s = {} THEN 0 ELSE f[One(s)] + g[s \ {One(s)}]]
  <2>4. ASSUME NEW s \in Low(n), s # {} PROVE h[s \ {One(s)}] = g[s \ {One(s)}]
    <3>. DEFINE t == s \ {One(s)}
    <3>1. n # 0 /\ t \in Low(n - 1)
      BY <1>1, <2>4, Zenon
    <3>2. t \in Low(n)
      BY <1>0, <3>1
    <3>3. h[t] = IF t = {} THEN 0 ELSE f[One(t)] + g[t \ {One(t)}]
      BY <3>2, Zenon
    <3>. QED BY <2>3, <3>1, <3>3, Zenon
  <2>5. Rec(h, n)
    BY <2>4, Zenon
  <2>. QED BY <2>5, Zenon
<1>3. Cardinality(S) \in Nat
  BY FS_CardinalityType, Zenon
<1>4. PICK g : Rec(g, Cardinality(S))
  BY <1>2, <1>3, Zenon
<1>5. Low(Cardinality(S)) = SUBSET S
  BY FS_Subset, Zenon
<1>. DEFINE h == [s \in SUBSET S |-> g[s]]
<1>6. \A s \in SUBSET S : h[s] = g[s] /\ g[s] = IF s = {} THEN 0 ELSE f[One(s)] + g[s \ {One(s)}]
  BY <1>4, <1>5, Zenon
<1>7. \A s \in SUBSET S : h[s] = IF s = {} THEN 0 ELSE f[One(s)] + h[s \ {One(s)}]
  BY <1>6, Zenon
<1>8. h = [s \in SUBSET S |-> h[s]]
  BY Zenon 
<1>. HIDE DEF h
<1>9. Sums(h, f, S)
  BY <1>7, <1>8, Zenon DEF Sums
<1>. QED BY <1>9, Zenon

LEMMA SumsAgree ==
  ASSUME NEW S, IsFiniteSet(S), NEW T \in SUBSET S, NEW f, NEW g, \A x \in T : f[x] = g[x],
         NEW it, Sums(it, f, S), NEW jt, Sums(jt, g, T)
  PROVE  it[T] = jt[T]
<1> DEFINE Bad == {s \in SUBSET T : it[s] # jt[s]}
<1>1. SUFFICES ASSUME Bad # {} PROVE FALSE
  BY Zenon 
<1>2. IsFiniteSet(T)
  BY FS_Subset, Zenon
<1>3. PICK s \in Bad : \A x \in s : s \ {x} \notin Bad
  BY <1>1, <1>2, SmallestSubset, Zenon
<1>4. /\ it[s] = IF s = {} THEN 0 ELSE f[One(s)] + it[s \ {One(s)}]
      /\ jt[s] = IF s = {} THEN 0 ELSE g[One(s)] + jt[s \ {One(s)}]
  BY Zenon DEF Sums
<1>5. s # {}
  BY <1>4, Zenon
<1>6. One(s) \in s /\ s \ {One(s)} \in SUBSET T
  BY <1>5, OneIn, Zenon
<1>7. it[s \ {One(s)}] = jt[s \ {One(s)}] /\ f[One(s)] = g[One(s)]
  BY <1>3, <1>6, Zenon
<1>. QED BY <1>3, <1>4, <1>7, Zenon

-----------------------------------------------------------------------------
(* What a sum is. *)

LEMMA SumEmpty == ASSUME NEW f PROVE SumFunctionOnSet(f, {}) = 0
<1>1. IsFiniteSet({})
  BY FS_EmptySet, Zenon
<1>2. PICK it : it = CHOOSE jt : Sums(jt, f, {})
  BY Zenon 
<1>3. Sums(it, f, {})
  BY <1>1, <1>2, SumsExist, Zenon
<1>4. it[{}] = 0
  BY <1>3, Zenon DEF Sums
<1>. QED BY <1>2, <1>4, SumUnfold, Zenon

LEMMA SumCongruent ==
  ASSUME NEW S, IsFiniteSet(S), NEW f, NEW g, \A x \in S : f[x] = g[x]
  PROVE  SumFunctionOnSet(f, S) = SumFunctionOnSet(g, S)
<1>1. PICK it, jt : it = (CHOOSE kt : Sums(kt, f, S)) /\ jt = (CHOOSE kt : Sums(kt, g, S))
  BY Zenon 
<1>2. Sums(it, f, S) /\ Sums(jt, g, S)
  BY <1>1, SumsExist, Zenon
<1>3. it[S] = jt[S]
  BY <1>2, SumsAgree
<1>. QED BY <1>1, <1>3, SumUnfold, Zenon

LEMMA SumStep ==
  ASSUME NEW S, IsFiniteSet(S), S # {}, NEW f
  PROVE  SumFunctionOnSet(f, S) = f[One(S)] + SumFunctionOnSet(f, S \ {One(S)})
<1>. DEFINE T == S \ {One(S)}
<1>1. IsFiniteSet(T) /\ T \in SUBSET S
  BY FS_Subset, Zenon
<1>. HIDE DEF T
<1>2. PICK it, jt : it = (CHOOSE kt : Sums(kt, f, S)) /\ jt = (CHOOSE kt : Sums(kt, f, T))
  BY Zenon 
<1>3. Sums(it, f, S) /\ Sums(jt, f, T)
  BY <1>1, <1>2, SumsExist, Zenon
<1>4. it[S] = f[One(S)] + it[T]
  BY <1>3, Zenon DEF Sums, T
<1>5. it[T] = jt[T]
  BY <1>1, <1>3, SumsAgree
<1>6. SumFunctionOnSet(f, S) = it[S] /\ SumFunctionOnSet(f, T) = jt[T]
  BY <1>2, SumUnfold, Zenon
<1>. QED BY <1>4, <1>5, <1>6, Zenon DEF T

LEMMA SumInt ==
  ASSUME NEW S, IsFiniteSet(S), NEW f, \A x \in S : f[x] \in Int
  PROVE  SumFunctionOnSet(f, S) \in Int
<1>. DEFINE Bad == {s \in SUBSET S : SumFunctionOnSet(f, s) \notin Int}
<1>1. SUFFICES ASSUME Bad # {} PROVE FALSE
  BY Zenon 
<1>2. PICK s \in Bad : \A x \in s : s \ {x} \notin Bad
  BY <1>1, SmallestSubset, Zenon
<1>3. s # {}
  BY SumEmpty
<1>4. IsFiniteSet(s) /\ One(s) \in s
  BY <1>3, FS_Subset, OneIn, Zenon
<1>5. SumFunctionOnSet(f, s \ {One(s)}) \in Int /\ f[One(s)] \in Int
  BY <1>2, <1>4, Zenon
<1>6. SumFunctionOnSet(f, s) = f[One(s)] + SumFunctionOnSet(f, s \ {One(s)})
  BY <1>3, <1>4, SumStep, Zenon
<1>. QED BY <1>5, <1>6

\* The order of the elements does not matter.
LEMMA SumRemove ==
  ASSUME NEW S, IsFiniteSet(S), NEW f, \A x \in S : f[x] \in Int, NEW x \in S
  PROVE  SumFunctionOnSet(f, S) = f[x] + SumFunctionOnSet(f, S \ {x})
<1>. DEFINE Bad == {s \in SUBSET S : \E z \in s : SumFunctionOnSet(f, s) # f[z] + SumFunctionOnSet(f, s \ {z})}
<1>1. SUFFICES ASSUME Bad # {} PROVE FALSE
  BY Zenon 
<1>2. PICK s \in Bad : \A z \in s : s \ {z} \notin Bad
  BY <1>1, SmallestSubset, Zenon
<1>3. PICK z \in s : SumFunctionOnSet(f, s) # f[z] + SumFunctionOnSet(f, s \ {z})
  BY <1>2, Zenon
<1>4. PICK y \in s : y = One(s)
  BY <1>3, OneIn, Zenon
<1>5. IsFiniteSet(s)
  BY FS_Subset, Zenon
<1>6. SumFunctionOnSet(f, s) = f[y] + SumFunctionOnSet(f, s \ {y})
  BY <1>3, <1>4, <1>5, SumStep, Zenon
<1>7. y # z
  BY <1>3, <1>6, Zenon
<1>8. SumFunctionOnSet(f, s \ {y}) = f[z] + SumFunctionOnSet(f, (s \ {y}) \ {z})
  BY <1>2, <1>7, Zenon
<1>9. SumFunctionOnSet(f, s \ {z}) = f[y] + SumFunctionOnSet(f, (s \ {z}) \ {y})
  BY <1>2, <1>7, Zenon
<1>10. (s \ {y}) \ {z} = (s \ {z}) \ {y}
  BY Zenon 
<1>11. PICK rest \in Int : rest = SumFunctionOnSet(f, (s \ {y}) \ {z})
  <2>1. IsFiniteSet((s \ {y}) \ {z}) /\ \A w \in (s \ {y}) \ {z} : f[w] \in Int
    BY <1>5, FS_Subset, Zenon
  <2>. QED BY <2>1, SumInt, Zenon
<1>12. f[y] \in Int /\ f[z] \in Int
  BY Zenon 
<1>. QED BY <1>3, <1>6, <1>8, <1>9, <1>10, <1>11, <1>12

LEMMA SumChangeOne ==
  ASSUME NEW S, IsFiniteSet(S), NEW x \in S, NEW f, NEW g, \A y \in S : f[y] \in Int /\ g[y] \in Int,
         \A y \in S \ {x} : g[y] = f[y]
  PROVE  SumFunctionOnSet(g, S) = SumFunctionOnSet(f, S) - f[x] + g[x]
<1>1. IsFiniteSet(S \ {x})
  BY FS_Subset, Zenon
<1>2. SumFunctionOnSet(g, S \ {x}) = SumFunctionOnSet(f, S \ {x})
  BY <1>1, SumCongruent, Zenon
<1>3. SumFunctionOnSet(f, S \ {x}) \in Int
  BY <1>1, SumInt, Zenon
<1>4. /\ SumFunctionOnSet(g, S) = g[x] + SumFunctionOnSet(g, S \ {x})
      /\ SumFunctionOnSet(f, S) = f[x] + SumFunctionOnSet(f, S \ {x})
  BY SumRemove, Zenon
<1>5. f[x] \in Int /\ g[x] \in Int
  BY Zenon 
<1>. QED BY <1>2, <1>3, <1>4, <1>5

LEMMA SumMonotone ==
  ASSUME NEW S, IsFiniteSet(S), NEW f, NEW g, \A x \in S : f[x] \in Int /\ g[x] \in Int /\ f[x] <= g[x]
  PROVE  SumFunctionOnSet(f, S) <= SumFunctionOnSet(g, S)
<1>. DEFINE Bad == {s \in SUBSET S : ~(SumFunctionOnSet(f, s) <= SumFunctionOnSet(g, s))}
<1>1. SUFFICES ASSUME Bad # {} PROVE FALSE
  BY Zenon 
<1>2. PICK s \in Bad : \A x \in s : s \ {x} \notin Bad
  BY <1>1, SmallestSubset, Zenon
<1>3. s # {}
  BY SumEmpty
<1>4. IsFiniteSet(s)
  BY FS_Subset, Zenon
<1>5. PICK y \in s : y = One(s)
  BY <1>3, OneIn, Zenon
<1>6. /\ SumFunctionOnSet(f, s) = f[y] + SumFunctionOnSet(f, s \ {y})
      /\ SumFunctionOnSet(g, s) = g[y] + SumFunctionOnSet(g, s \ {y})
  BY <1>3, <1>4, <1>5, SumStep, Zenon
<1>7. SumFunctionOnSet(f, s \ {y}) <= SumFunctionOnSet(g, s \ {y})
  BY <1>2, Zenon
<1>8. SumFunctionOnSet(f, s \ {y}) \in Int /\ SumFunctionOnSet(g, s \ {y}) \in Int
  <2>1. IsFiniteSet(s \ {y})
    BY <1>4, FS_Subset, Zenon
  <2>. QED BY <2>1, SumInt, Zenon
<1>9. f[y] \in Int /\ g[y] \in Int /\ f[y] <= g[y]
  BY Zenon 
<1>10. ~(SumFunctionOnSet(f, s) <= SumFunctionOnSet(g, s))
  BY <1>2, Zenon
<1>. QED BY <1>6, <1>7, <1>8, <1>9, <1>10

\* A sum over a set, of a function that is zero outside a part of it.
LEMMA SumPart ==
  ASSUME NEW S, IsFiniteSet(S), NEW T \in SUBSET S, NEW f, NEW g,
         \A x \in T : f[x] = g[x] /\ g[x] \in Int, \A x \in S \ T : f[x] = 0
  PROVE  SumFunctionOnSet(f, S) = SumFunctionOnSet(g, T)
<1>. DEFINE Bad == {s \in SUBSET S : SumFunctionOnSet(f, s) # SumFunctionOnSet(g, s \cap T)}
<1>0. S \cap T = T
  BY Zenon 
<1>1. SUFFICES ASSUME Bad # {} PROVE FALSE
  BY <1>0, Zenon
<1>2. PICK s \in Bad : \A x \in s : s \ {x} \notin Bad
  BY <1>1, SmallestSubset, Zenon
<1>3. s # {}
  <2>1. {} \cap T = {}
    BY Zenon 
  <2>. QED BY <2>1, SumEmpty, Zenon
<1>4. IsFiniteSet(s) /\ IsFiniteSet(s \cap T)
  BY FS_Subset, Zenon
<1>5. PICK y \in s : y = One(s)
  BY <1>3, OneIn, Zenon
<1>6. SumFunctionOnSet(f, s) = f[y] + SumFunctionOnSet(f, s \ {y})
  BY <1>3, <1>4, <1>5, SumStep, Zenon
<1>7. SumFunctionOnSet(f, s \ {y}) = SumFunctionOnSet(g, (s \ {y}) \cap T)
  BY <1>2, Zenon
<1>8. IsFiniteSet((s \ {y}) \cap T) /\ SumFunctionOnSet(g, (s \ {y}) \cap T) \in Int
  <2>1. IsFiniteSet((s \ {y}) \cap T)
    BY <1>4, FS_Subset, Zenon
  <2>2. \A x \in (s \ {y}) \cap T : g[x] \in Int
    BY Zenon 
  <2>. QED BY <2>1, <2>2, SumInt, Zenon
<1>9. CASE y \in T
  <2>1. (s \ {y}) \cap T = (s \cap T) \ {y} /\ y \in s \cap T /\ \A x \in s \cap T : g[x] \in Int
    BY <1>9, Zenon
  <2>2. SumFunctionOnSet(g, s \cap T) = g[y] + SumFunctionOnSet(g, (s \cap T) \ {y})
    BY <1>4, <2>1, SumRemove, ZenonT(40)
  <2>. QED BY <1>2, <1>6, <1>7, <1>9, <2>1, <2>2, Zenon
<1>10. CASE y \notin T
  <2>1. (s \ {y}) \cap T = s \cap T /\ f[y] = 0
    BY <1>10, Zenon
  <2>. QED BY <1>2, <1>6, <1>7, <1>8, <2>1
<1>. QED BY <1>9, <1>10, Zenon

\* Nothing adds up to nothing.
LEMMA SumZero ==
  ASSUME NEW S, IsFiniteSet(S), NEW f, \A x \in S : f[x] = 0
  PROVE  SumFunctionOnSet(f, S) = 0
<1>1. PICK T \in SUBSET S : T = {}
  BY Zenon
<1>2. SumFunctionOnSet(f, S) = SumFunctionOnSet(f, T)
  BY <1>1, SumPart
<1>. QED BY <1>1, <1>2, SumEmpty, Zenon

LEMMA SumAdd ==
  ASSUME NEW S, IsFiniteSet(S), NEW f, NEW g, NEW h,
         \A x \in S : f[x] \in Int /\ g[x] \in Int /\ h[x] = f[x] + g[x]
  PROVE  SumFunctionOnSet(h, S) = SumFunctionOnSet(f, S) + SumFunctionOnSet(g, S)
<1>. DEFINE Bad == {s \in SUBSET S : SumFunctionOnSet(h, s) # SumFunctionOnSet(f, s) + SumFunctionOnSet(g, s)}
<1>1. SUFFICES ASSUME Bad # {} PROVE FALSE
  BY Zenon 
<1>2. PICK s \in Bad : \A x \in s : s \ {x} \notin Bad
  BY <1>1, SmallestSubset, Zenon
<1>3. s # {}
  <2>1. SumFunctionOnSet(h, {}) = 0 /\ SumFunctionOnSet(f, {}) = 0 /\ SumFunctionOnSet(g, {}) = 0
    BY SumEmpty, Zenon
  <2>2. SumFunctionOnSet(h, {}) = SumFunctionOnSet(f, {}) + SumFunctionOnSet(g, {})
    BY <2>1
  <2>. QED BY <1>2, <2>2, Zenon
<1>4. IsFiniteSet(s)
  BY FS_Subset, Zenon
<1>5. PICK y \in s : y = One(s)
  BY <1>3, OneIn, Zenon
<1>6. /\ SumFunctionOnSet(f, s) = f[y] + SumFunctionOnSet(f, s \ {y})
      /\ SumFunctionOnSet(g, s) = g[y] + SumFunctionOnSet(g, s \ {y})
      /\ SumFunctionOnSet(h, s) = h[y] + SumFunctionOnSet(h, s \ {y})
  BY <1>3, <1>4, <1>5, SumStep, Zenon
<1>7. SumFunctionOnSet(h, s \ {y}) = SumFunctionOnSet(f, s \ {y}) + SumFunctionOnSet(g, s \ {y})
  BY <1>2, Zenon
<1>8. SumFunctionOnSet(f, s \ {y}) \in Int /\ SumFunctionOnSet(g, s \ {y}) \in Int
  <2>1. IsFiniteSet(s \ {y})
    BY <1>4, FS_Subset, Zenon
  <2>. QED BY <2>1, SumInt, Zenon
<1>9. f[y] \in Int /\ g[y] \in Int /\ h[y] = f[y] + g[y]
  BY Zenon 
<1>10. SumFunctionOnSet(h, s) # SumFunctionOnSet(f, s) + SumFunctionOnSet(g, s)
  BY <1>2, Zenon
<1>. QED BY <1>6, <1>7, <1>8, <1>9, <1>10

\* A part of some naturals sums to no more than all of them.
LEMMA SumWithin ==
  ASSUME NEW S, IsFiniteSet(S), NEW T \in SUBSET S, NEW f, \A x \in S : f[x] \in Nat
  PROVE  SumFunctionOnSet(f, T) <= SumFunctionOnSet(f, S)
<1>1. PICK g : g = [x \in S |-> IF x \in T THEN f[x] ELSE 0]
  BY Zenon 
<1>2. (\A x \in T : g[x] = f[x] /\ f[x] \in Int) /\ \A x \in S \ T : g[x] = 0
  BY <1>1
<1>3. SumFunctionOnSet(g, S) = SumFunctionOnSet(f, T)
  BY <1>2, SumPart
<1>4. \A x \in S : g[x] \in Int /\ f[x] \in Int /\ g[x] <= f[x]
  BY <1>1
<1>. QED BY <1>3, <1>4, SumMonotone, Zenon

\* Shares of r in proportion to the weights c of a total w, rounded down.
LEMMA SumShares ==
  ASSUME NEW S, IsFiniteSet(S), NEW r \in Nat, NEW w \in Nat \ {0}, NEW c, NEW f,
         \A x \in S : c[x] \in Nat /\ f[x] = (r * c[x]) \div w
  PROVE  w * SumFunctionOnSet(f, S) <= r * SumFunctionOnSet(c, S)
<1>. DEFINE Bad == {s \in SUBSET S : ~(w * SumFunctionOnSet(f, s) <= r * SumFunctionOnSet(c, s))}
<1>1. SUFFICES ASSUME Bad # {} PROVE FALSE
  BY Zenon 
<1>2. PICK s \in Bad : \A x \in s : s \ {x} \notin Bad
  BY <1>1, SmallestSubset, Zenon
<1>3. s # {}
  <2>1. SumFunctionOnSet(f, {}) = 0 /\ SumFunctionOnSet(c, {}) = 0
    BY SumEmpty, Zenon
  <2>2. w * 0 <= r * 0
    OBVIOUS
  <2>. QED BY <1>2, <2>1, <2>2, Zenon
<1>4. IsFiniteSet(s)
  BY FS_Subset, Zenon
<1>5. PICK y \in s : y = One(s)
  BY <1>3, OneIn, Zenon
<1>6. /\ SumFunctionOnSet(f, s) = f[y] + SumFunctionOnSet(f, s \ {y})
      /\ SumFunctionOnSet(c, s) = c[y] + SumFunctionOnSet(c, s \ {y})
  BY <1>3, <1>4, <1>5, SumStep, Zenon
<1>7. \A x \in S : f[x] \in Int /\ w * f[x] <= r * c[x]
  <2>1. ASSUME NEW a \in Nat PROVE a \div w \in Int /\ w * (a \div w) <= a
    OBVIOUS
  <2>2. \A x \in S : r * c[x] \in Nat
    OBVIOUS
  <2>. QED BY <2>1, <2>2, Zenon
<1>8. PICK p \in Int, q \in Int : p = SumFunctionOnSet(f, s \ {y}) /\ q = SumFunctionOnSet(c, s \ {y})
  <2>1. IsFiniteSet(s \ {y}) /\ \A x \in s \ {y} : f[x] \in Int /\ c[x] \in Int
    BY <1>4, <1>7, FS_Subset
  <2>. QED BY <2>1, SumInt, Zenon
<1>9. w * p <= r * q
  BY <1>2, <1>8, Zenon
<1>10. ASSUME NEW a \in Int, NEW b \in Int, w * a <= r * b, w * p <= r * q
       PROVE  w * (a + p) <= r * (b + q)
  BY <1>10
<1>11. w * (f[y] + p) <= r * (c[y] + q)
  BY <1>7, <1>9, <1>10
<1>. QED BY <1>2, <1>6, <1>8, <1>11, Zenon

\* A share is a natural number.
LEMMA ShareNat ==
  ASSUME NEW r \in Nat, NEW c \in Nat, NEW w \in Nat \ {0}
  PROVE  (r * c) \div w \in Nat
<1>1. PICK n \in Nat : n = r * c
  OBVIOUS
<1>2. n \div w \in Nat
  OBVIOUS
<1>. QED BY <1>1, <1>2, Zenon

\* Such shares never exceed what they share out.
SharesOut(f, r, c, w, T) == \A x \in T : f[x] \in Int /\ f[x] = (r * c[x]) \div w

LEMMA SharesWithin ==
  ASSUME NEW S, IsFiniteSet(S), NEW r \in Nat, NEW w \in Nat \ {0}, NEW c, NEW f,
         \A x \in S : c[x] \in Nat, SharesOut(f, r, c, w, S), SumFunctionOnSet(c, S) <= w
  PROVE  SumFunctionOnSet(f, S) <= r
<1>1. w * SumFunctionOnSet(f, S) <= r * SumFunctionOnSet(c, S)
  BY SumShares, Zenon DEF SharesOut
<1>2. \A x \in S : f[x] \in Int /\ c[x] \in Int
  BY DEF SharesOut
<1>3. PICK p \in Int, q \in Int : p = SumFunctionOnSet(f, S) /\ q = SumFunctionOnSet(c, S)
  BY <1>2, SumInt, Zenon
<1>4. r * q <= r * w
  BY <1>3
<1>5. ASSUME p > r PROVE FALSE
  <2>1. w * p >= w * (r + 1)
    BY <1>5
  <2>2. w * (r + 1) = r * w + w
    OBVIOUS
  <2>3. w * p <= r * w /\ w * p \in Int /\ r * w \in Int /\ w > 0 /\ r * q \in Int
    BY <1>1, <1>3, <1>4
  <2>. QED BY <2>1, <2>2, <2>3
<1>. QED BY <1>3, <1>5
\* The same when the weights are a part of all the weights.
LEMMA PartSharesWithin ==
  ASSUME NEW S, IsFiniteSet(S), NEW T \in SUBSET S, NEW r \in Nat, NEW w \in Nat \ {0}, NEW c, NEW f,
         \A x \in S : c[x] \in Nat, w = SumFunctionOnSet(c, S), SharesOut(f, r, c, w, T)
  PROVE  SumFunctionOnSet(f, T) \in Int /\ SumFunctionOnSet(f, T) <= r
<1>1. IsFiniteSet(T)
  BY FS_Subset, Zenon
<1>2. SumFunctionOnSet(c, T) <= w
  BY SumWithin, Zenon
<1>3. SumFunctionOnSet(f, T) <= r
  BY <1>1, <1>2, SharesWithin, Zenon
<1>. QED BY <1>1, <1>3, SumInt, Zenon DEF SharesOut

\* A table with one entry, and one that takes back the entries of a part.
LEMMA SumSingle ==
  ASSUME NEW S, IsFiniteSet(S), NEW x \in S, NEW d, d[x] \in Int, \A y \in S \ {x} : d[y] = 0
  PROVE  SumFunctionOnSet(d, S) = d[x]
<1>1. \A y \in S : d[y] \in Int
  OBVIOUS
<1>2. SumFunctionOnSet(d, S) = d[x] + SumFunctionOnSet(d, S \ {x})
  BY <1>1, SumRemove, Zenon
<1>3. SumFunctionOnSet(d, S \ {x}) = 0
  <2>1. IsFiniteSet(S \ {x})
    BY FS_RemoveElement, Zenon
  <2>. QED BY <2>1, SumZero, Zenon
<1>. QED BY <1>2, <1>3

LEMMA SumNegated ==
  ASSUME NEW S, IsFiniteSet(S), NEW T \in SUBSET S, NEW f, NEW d,
         \A x \in T : f[x] \in Int /\ d[x] = 0 - f[x], \A x \in S \ T : d[x] = 0
  PROVE  SumFunctionOnSet(d, S) = 0 - SumFunctionOnSet(f, T)
<1>1. PICK q, z : q = [x \in S |-> IF x \in T THEN f[x] ELSE 0] /\ z = [x \in S |-> 0]
  BY Zenon 
<1>2. (\A x \in T : q[x] = f[x] /\ f[x] \in Int) /\ \A x \in S \ T : q[x] = 0
  BY <1>1, Zenon
<1>3. \A x \in S : z[x] = 0 /\ d[x] \in Int /\ q[x] \in Int /\ z[x] = d[x] + q[x]
  BY <1>1, <1>2
<1>4. SumFunctionOnSet(q, S) = SumFunctionOnSet(f, T)
  BY <1>2, SumPart
<1>5. SumFunctionOnSet(z, S) = 0 /\ SumFunctionOnSet(z, S) = SumFunctionOnSet(d, S) + SumFunctionOnSet(q, S)
  BY <1>3, SumZero, SumAdd
<1>6. SumFunctionOnSet(d, S) \in Int /\ SumFunctionOnSet(q, S) \in Int
  BY <1>3, SumInt, Zenon
<1>. QED BY <1>4, <1>5, <1>6

\* A pool that covers the debts o covers the debts n after it received as much
\* as the debts may have grown by.
LEMMA PoolCovers ==
  ASSUME NEW S, IsFiniteSet(S), NEW o, NEW n, NEW d,
         \A x \in S : o[x] \in Int /\ n[x] \in Int /\ d[x] \in Int /\ n[x] <= o[x] + d[x],
         NEW pool \in Int, SumFunctionOnSet(o, S) <= pool
  PROVE  /\ pool + SumFunctionOnSet(d, S) \in Int
         /\ SumFunctionOnSet(n, S) <= pool + SumFunctionOnSet(d, S)
<1>1. PICK h : h = [x \in S |-> o[x] + d[x]]
  BY Zenon 
<1>2. \A x \in S : h[x] = o[x] + d[x] /\ h[x] \in Int /\ n[x] <= h[x]
  BY <1>1
<1>3. SumFunctionOnSet(h, S) = SumFunctionOnSet(o, S) + SumFunctionOnSet(d, S)
  BY <1>2, SumAdd, Zenon
<1>4. SumFunctionOnSet(n, S) <= SumFunctionOnSet(h, S)
  BY <1>2, SumMonotone, Zenon
<1>5. SumFunctionOnSet(o, S) \in Int /\ SumFunctionOnSet(d, S) \in Int /\ SumFunctionOnSet(n, S) \in Int
  BY SumInt, Zenon
<1>. QED BY <1>3, <1>4, <1>5
=============================================================================
