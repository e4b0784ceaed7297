--------------------------- MODULE CloseChaseProofs ---------------------------
(***************************************************************************)
(* Theorems about the two halves of a close: about CloseChase for every    *)
(* position, quote, tick size and number of rungs, and about ExitRules for *)
(* every set of positions and quotes, cycle length and stretch of the day. *)
(*                                                                         *)
(* What a partial close places is a sum over the legs of a position.  The  *)
(* library's operator folds along an arbitrary enumeration; what its       *)
(* result does not depend on is shown first, over functions.               *)
(***************************************************************************)
EXTENDS MCCloseChase, FiniteSetTheorems, WellFoundedInduction, SequenceTheorems, TLAPS

-----------------------------------------------------------------------------
(* Sums over finite sets. *)

Pick(s) == CHOOSE x \in s : TRUE

\* g gives each subset of S the sum of e over it.
IsSum(g, e, S) ==
  g = [s \in SUBSET S |-> IF s = {} THEN 0 ELSE e[Pick(s)] + g[s \ {Pick(s)}]]

SumOf(e, S) == (CHOOSE g : IsSum(g, e, S))[S]

-----------------------------------------------------------------------------
\* What passes from the proper subsets of each finite set to the set itself
\* holds of every finite set.
LEMMA SetInduction ==
  ASSUME NEW S, IsFiniteSet(S), NEW D,
         \A T \in SUBSET S : (\A U \in SUBSET T : U # T => U \in D) => T \in D
  PROVE  S \in D
<1> DEFINE Bad == {T \in SUBSET S : T \notin D}
<1> SUFFICES ASSUME S \notin D PROVE FALSE
  OBVIOUS
<1>1. IsWellFoundedOn(StrictSubsetOrdering(S), FiniteSubsetsOf(S))
  BY FS_StrictSubsetOrderingWellFounded
<1>2. Bad \subseteq FiniteSubsetsOf(S) /\ Bad # {}
  BY FS_Subset DEF FiniteSubsetsOf
<1>3. PICK T \in Bad : \A U \in Bad : <<U, T>> \notin StrictSubsetOrdering(S)
  <2> HIDE DEF Bad
  <2> QED BY <1>1, <1>2, WFMin
<1>4. \A U \in SUBSET T : U # T => U \in D
  BY <1>3 DEF StrictSubsetOrdering
<1> QED BY <1>3, <1>4

LEMMA PickIsMember == \A s : s # {} => Pick(s) \in s
BY DEF Pick

\* Two sums of one function agree on what both are defined for.
LEMMA SumUnique ==
  ASSUME NEW S, NEW T, NEW U, IsFiniteSet(U), U \subseteq S, U \subseteq T,
         NEW e, NEW g, NEW h, IsSum(g, e, S), IsSum(h, e, T)
  PROVE  g[U] = h[U]
<1> DEFINE D == {s \in SUBSET U : g[s] = h[s]}
<1>1. ASSUME NEW s \in SUBSET U, \A t \in SUBSET s : t # s => t \in D
      PROVE  s \in D
  <2>1. CASE s = {}
    BY <2>1 DEF IsSum
  <2>2. CASE s # {}
    <3>1. s \ {Pick(s)} \in SUBSET s /\ s \ {Pick(s)} # s
      BY <2>2, PickIsMember
    <3>2. g[s \ {Pick(s)}] = h[s \ {Pick(s)}]
      BY <3>1, <1>1
    <3> QED BY <2>2, <3>2 DEF IsSum
  <2> QED BY <2>1, <2>2
<1>2. U \in D
  <2> HIDE DEF D
  <2> QED BY <1>1, SetInduction
<1> QED BY <1>2

\* Every function on a finite set has sums.
LEMMA SumExists ==
  ASSUME NEW S, IsFiniteSet(S), NEW e
  PROVE  \E g : IsSum(g, e, S)
<1> DEFINE D == {T \in SUBSET S : \E g : IsSum(g, e, T)}
<1>1. ASSUME NEW T \in SUBSET S, \A U \in SUBSET T : U # T => U \in D
      PROVE  T \in D
  <2> DEFINE h == [s \in SUBSET T |->
                     IF s = {} THEN 0 ELSE e[Pick(s)] + SumOf(e, s \ {Pick(s)})]
  <2>1. ASSUME NEW t \in SUBSET T, t # T
        PROVE  /\ IsFiniteSet(t)
               /\ IsSum(CHOOSE g : IsSum(g, e, t), e, t)
    <3>1. \E g : IsSum(g, e, t)
      BY <1>1, <2>1
    <3> QED BY <3>1, FS_Subset
  <2>2. ASSUME NEW t \in SUBSET T, t # T
        PROVE  h[t] = SumOf(e, t)
    <3> DEFINE g == CHOOSE g : IsSum(g, e, t)
    <3>1. IsSum(g, e, t) /\ IsFiniteSet(t)
      BY <2>1, <2>2
    <3>2. CASE t = {}
      BY <3>1, <3>2 DEF SumOf, IsSum
    <3>3. CASE t # {}
      <4> DEFINE u == t \ {Pick(t)}
      <4>1. u \in SUBSET T /\ u # T /\ u \in SUBSET t
        BY <2>2, <3>3, PickIsMember
      <4>2. IsSum(CHOOSE g2 : IsSum(g2, e, u), e, u) /\ IsFiniteSet(u)
        BY <2>1, <4>1
      <4>3. g[u] = SumOf(e, u)
        <5> HIDE DEF g, u
        <5> QED BY <3>1, <4>1, <4>2, SumUnique DEF SumOf
      <4>4. g[t] = e[Pick(t)] + g[u]
        <5> HIDE DEF g
        <5> QED BY <3>1, <3>3 DEF IsSum
      <4>5. h[t] = e[Pick(t)] + SumOf(e, u)
        BY <3>3
      <4> QED BY <4>3, <4>4, <4>5 DEF SumOf
    <3> QED BY <3>2, <3>3
  <2>3. \A s \in SUBSET T : s # {} => h[s \ {Pick(s)}] = SumOf(e, s \ {Pick(s)})
    <3> SUFFICES ASSUME NEW s \in SUBSET T, s # {}
                 PROVE  h[s \ {Pick(s)}] = SumOf(e, s \ {Pick(s)})
      OBVIOUS
    <3>1. s \ {Pick(s)} \in SUBSET T /\ s \ {Pick(s)} # T
      BY PickIsMember
    <3> HIDE DEF h
    <3> QED BY <2>2, <3>1
  <2>4. IsSum(h, e, T)
    BY <2>3 DEF IsSum
  <2> QED BY <2>4
<1>2. S \in D
  <2> HIDE DEF D
  <2> QED BY <1>1, SetInduction
<1> QED BY <1>2

LEMMA SumIsSum ==
  ASSUME NEW S, IsFiniteSet(S), NEW e, NEW g, IsSum(g, e, S)
  PROVE  \A s \in SUBSET S : g[s] = SumOf(e, s)
<1> SUFFICES ASSUME NEW s \in SUBSET S
             PROVE  g[s] = SumOf(e, s)
  OBVIOUS
<1>1. IsFiniteSet(s)
  BY FS_Subset
<1>2. IsSum(CHOOSE h : IsSum(h, e, s), e, s)
  BY <1>1, SumExists
<1> QED BY <1>1, <1>2, SumUnique DEF SumOf

\* Over nothing the sum is zero; over more it is one element's value and the rest.
LEMMA SumStep ==
  ASSUME NEW S, IsFiniteSet(S), NEW e
  PROVE  SumOf(e, S) = IF S = {} THEN 0 ELSE e[Pick(S)] + SumOf(e, S \ {Pick(S)})
<1>1. PICK g : IsSum(g, e, S)
  BY SumExists
<1>2. \A s \in SUBSET S : g[s] = SumOf(e, s)
  BY <1>1, SumIsSum
<1>3. g[S] = IF S = {} THEN 0 ELSE e[Pick(S)] + g[S \ {Pick(S)}]
  BY <1>1 DEF IsSum
<1> QED BY <1>2, <1>3

LEMMA SumEmpty == ASSUME NEW e PROVE SumOf(e, {}) = 0
BY SumStep, FS_EmptySet

\* A sum of integers is one, and any element may be the one taken out.
LEMMA SumRemove ==
  ASSUME NEW S, IsFiniteSet(S), NEW e, \A x \in S : e[x] \in Int
  PROVE  /\ SumOf(e, S) \in Int
         /\ \A y \in S : SumOf(e, S) = e[y] + SumOf(e, S \ {y})
<1> DEFINE D == {T \in SUBSET S : /\ SumOf(e, T) \in Int
                                  /\ \A y \in T : SumOf(e, T) = e[y] + SumOf(e, T \ {y})}
<1>1. ASSUME NEW T \in SUBSET S, \A U \in SUBSET T : U # T => U \in D
      PROVE  T \in D
  <2>0. IsFiniteSet(T)
    BY FS_Subset
  <2>1. CASE T = {}
    BY <2>1, SumEmpty
  <2>2. CASE T # {}
    <3> DEFINE x == Pick(T)
    <3>1. x \in T /\ T \ {x} \in D
      BY <1>1, <2>2, PickIsMember
    <3>2. SumOf(e, T) = e[x] + SumOf(e, T \ {x})
      BY <2>0, <2>2, SumStep
    <3>3. SumOf(e, T) \in Int
      BY <3>1, <3>2
    <3>4. ASSUME NEW y \in T, y # x
          PROVE  SumOf(e, T) = e[y] + SumOf(e, T \ {y})
      <4> HIDE DEF x
      <4>1. T \ {y} \in D
        BY <1>1, <3>4
      <4>2. SumOf(e, T \ {y}) = e[x] + SumOf(e, (T \ {y}) \ {x})
        BY <3>1, <3>4, <4>1
      <4>3. SumOf(e, T \ {x}) = e[y] + SumOf(e, (T \ {x}) \ {y})
        BY <3>1, <3>4
      <4>4. (T \ {x}) \ {y} = (T \ {y}) \ {x} /\ (T \ {x}) \ {y} \in D
        BY <1>1, <3>1
      <4>5. SumOf(e, (T \ {y}) \ {x}) \in Int /\ e[x] \in Int /\ e[y] \in Int
        BY <3>1, <4>4
      <4>6. SumOf(e, T) = e[x] + (e[y] + SumOf(e, (T \ {y}) \ {x}))
        BY <3>2, <4>3, <4>4
      <4> HIDE DEF D
      <4> QED BY <4>2, <4>5, <4>6
    <3> QED BY <3>2, <3>3, <3>4
  <2> QED BY <2>1, <2>2
<1>2. S \in D
  <2> HIDE DEF D
  <2> QED BY <1>1, SetInduction
<1> QED BY <1>2

\* Sums of functions that agree on the set are equal.
LEMMA SumEqual ==
  ASSUME NEW S, IsFiniteSet(S), NEW e, NEW f, \A x \in S : e[x] = f[x]
  PROVE  SumOf(e, S) = SumOf(f, S)
<1> DEFINE D == {T \in SUBSET S : SumOf(e, T) = SumOf(f, T)}
<1>1. ASSUME NEW T \in SUBSET S, \A U \in SUBSET T : U # T => U \in D
      PROVE  T \in D
  <2>0. IsFiniteSet(T)
    BY FS_Subset
  <2>1. CASE T = {}
    BY <2>1, SumEmpty
  <2>2. CASE T # {}
    <3>1. Pick(T) \in T /\ T \ {Pick(T)} \in D
      BY <1>1, <2>2, PickIsMember
    <3> QED BY <2>0, <2>2, <3>1, SumStep
  <2> QED BY <2>1, <2>2
<1>2. S \in D
  <2> HIDE DEF D
  <2> QED BY <1>1, SetInduction
<1> QED BY <1>2

\* Larger values have a larger sum.
LEMMA SumMonotone ==
  ASSUME NEW S, IsFiniteSet(S), NEW e, NEW f,
         \A x \in S : e[x] \in Int /\ f[x] \in Int /\ e[x] <= f[x]
  PROVE  SumOf(e, S) <= SumOf(f, S)
<1> DEFINE D == {T \in SUBSET S : SumOf(e, T) <= SumOf(f, T)}
<1>1. ASSUME NEW T \in SUBSET S, \A U \in SUBSET T : U # T => U \in D
      PROVE  T \in D
  <2>0. IsFiniteSet(T)
    BY FS_Subset
  <2>1. CASE T = {}
    BY <2>1, SumEmpty
  <2>2. CASE T # {}
    <3> DEFINE x == Pick(T)
               R == T \ {x}
    <3>1. x \in T /\ R \in D /\ IsFiniteSet(R)
      BY <1>1, <2>0, <2>2, PickIsMember, FS_Subset
    <3>2. SumOf(e, T) = e[x] + SumOf(e, R) /\ SumOf(f, T) = f[x] + SumOf(f, R)
      BY <2>0, <2>2, SumStep
    <3>3. SumOf(e, R) \in Int /\ SumOf(f, R) \in Int
      <4>1. \A y \in R : e[y] \in Int /\ f[y] \in Int
        OBVIOUS
      <4> HIDE DEF R
      <4> QED BY <3>1, <4>1, SumRemove
    <3>4. e[x] \in Int /\ f[x] \in Int /\ e[x] <= f[x] /\ SumOf(e, R) <= SumOf(f, R)
      BY <3>1
    <3>5. SumOf(e, T) <= SumOf(f, T)
      <4> HIDE DEF x, R
      <4> QED BY <3>2, <3>3, <3>4
    <3> QED BY <3>5
  <2> QED BY <2>1, <2>2
<1>2. S \in D
  <2> HIDE DEF D
  <2> QED BY <1>1, SetInduction
<1> QED BY <1>2

\* The sum of what is nowhere negative is not negative, nor less than a part.
LEMMA SumNat ==
  ASSUME NEW S, IsFiniteSet(S), NEW e, \A x \in S : e[x] \in Nat
  PROVE  SumOf(e, S) \in Nat /\ \A y \in S : e[y] <= SumOf(e, S)
<1> DEFINE D == {T \in SUBSET S : SumOf(e, T) \in Nat}
<1>1. ASSUME NEW T \in SUBSET S, \A U \in SUBSET T : U # T => U \in D
      PROVE  T \in D
  <2>0. IsFiniteSet(T)
    BY FS_Subset
  <2>1. CASE T = {}
    BY <2>1, SumEmpty
  <2>2. CASE T # {}
    <3>1. Pick(T) \in T /\ T \ {Pick(T)} \in D
      BY <1>1, <2>2, PickIsMember
    <3>2. SumOf(e, T) = e[Pick(T)] + SumOf(e, T \ {Pick(T)})
      BY <2>0, <2>2, SumStep
    <3> QED BY <3>1, <3>2
  <2> QED BY <2>1, <2>2
<1>2. \A T \in SUBSET S : T \in D
  <2> SUFFICES ASSUME NEW T \in SUBSET S PROVE T \in D
    OBVIOUS
  <2>1. IsFiniteSet(T) /\ \A V \in SUBSET T : V \in SUBSET S
    BY FS_Subset
  <2> HIDE DEF D
  <2> QED BY <1>1, <2>1, SetInduction
<1>3. ASSUME NEW y \in S
      PROVE  e[y] <= SumOf(e, S)
  <2>1. SumOf(e, S) = e[y] + SumOf(e, S \ {y})
    BY SumRemove
  <2>2. SumOf(e, S \ {y}) \in Nat
    BY <1>2
  <2> QED BY <2>1, <2>2
<1> QED BY <1>2, <1>3

\* A sum changes by what one element changes.
LEMMA SumChange ==
  ASSUME NEW S, IsFiniteSet(S), NEW e, NEW f, NEW y \in S,
         \A x \in S : e[x] \in Int /\ f[x] \in Int, \A x \in S \ {y} : f[x] = e[x]
  PROVE  SumOf(f, S) = SumOf(e, S) - e[y] + f[y]
<1> DEFINE R == S \ {y}
<1>0. IsFiniteSet(R) /\ \A x \in R : e[x] \in Int
  BY FS_Subset
<1>1. SumOf(f, R) = SumOf(e, R)
  BY <1>0, SumEqual
<1>2. SumOf(e, R) \in Int
  <2> HIDE DEF R
  <2> QED BY <1>0, SumRemove
<1>3. SumOf(e, S) = e[y] + SumOf(e, R) /\ SumOf(f, S) = f[y] + SumOf(f, R)
  BY SumRemove
<1> HIDE DEF R
<1> QED BY <1>1, <1>2, <1>3

\* The sum over one more element.
LEMMA SumAdd ==
  ASSUME NEW S, IsFiniteSet(S), NEW y, y \notin S,
         NEW e, \A x \in S \cup {y} : e[x] \in Int
  PROVE  SumOf(e, S \cup {y}) = SumOf(e, S) + e[y]
<1>1. IsFiniteSet(S \cup {y}) /\ (S \cup {y}) \ {y} = S
  BY FS_AddElement
<1>2. SumOf(e, S) \in Int
  BY SumRemove
<1>3. SumOf(e, S \cup {y}) = e[y] + SumOf(e, (S \cup {y}) \ {y})
  BY <1>1, SumRemove
<1>4. SumOf(e, S \cup {y}) = e[y] + SumOf(e, S) /\ e[y] \in Int
  BY <1>1, <1>3
<1> QED BY <1>2, <1>4

\* The sum over two disjoint sets is the sum of their sums.
LEMMA SumUnion ==
  ASSUME NEW S, IsFiniteSet(S), NEW T, IsFiniteSet(T), S \cap T = {},
         NEW e, \A x \in S \cup T : e[x] \in Int
  PROVE  SumOf(e, S \cup T) = SumOf(e, S) + SumOf(e, T)
<1> DEFINE D == {U \in SUBSET T : SumOf(e, S \cup U) = SumOf(e, S) + SumOf(e, U)}
<1>0. SumOf(e, S) \in Int
  BY SumRemove
<1>1. ASSUME NEW U \in SUBSET T, \A V \in SUBSET U : V # U => V \in D
      PROVE  U \in D
  <2>0. IsFiniteSet(U)
    BY FS_Subset
  <2>1. CASE U = {}
    BY <1>0, <2>1, SumEmpty
  <2>2. CASE U # {}
    <3> DEFINE x == Pick(U)
               V == U \ {x}
    <3>1. x \in U /\ V \in D /\ x \notin S /\ U = V \cup {x} /\ x \notin V
      BY <1>1, <2>2, PickIsMember
    <3>2. IsFiniteSet(V) /\ IsFiniteSet(S \cup V)
      BY <2>0, FS_Subset, FS_Union
    <3>3. (\A y \in V \cup {x} : e[y] \in Int) /\ \A y \in (S \cup V) \cup {x} : e[y] \in Int
      BY <3>1
    <3> HIDE DEF x, V
    <3>4. SumOf(e, V \cup {x}) = SumOf(e, V) + e[x]
      BY <3>1, <3>2, <3>3, SumAdd
    <3>5. SumOf(e, (S \cup V) \cup {x}) = SumOf(e, S \cup V) + e[x]
      <4>1. x \notin S \cup V
        BY <3>1
      <4> QED BY <3>2, <3>3, <4>1, SumAdd
    <3>6. (S \cup V) \cup {x} = S \cup U
      BY <3>1
    <3>7. SumOf(e, V) \in Int /\ e[x] \in Int
      BY <3>2, <3>3, SumRemove
    <3>8. SumOf(e, S \cup V) = SumOf(e, S) + SumOf(e, V)
      BY <3>1
    <3>9. SumOf(e, U) = SumOf(e, V) + e[x] /\ SumOf(e, S \cup U) = SumOf(e, S \cup V) + e[x]
      BY <3>1, <3>4, <3>5, <3>6
    <3>10. SumOf(e, S \cup U) = SumOf(e, S) + SumOf(e, U)
      BY <1>0, <3>7, <3>8, <3>9
    <3> QED BY <3>10
  <2> QED BY <2>1, <2>2
<1>2. T \in D
  <2> HIDE DEF D
  <2> QED BY <1>1, SetInduction
<1> QED BY <1>2

\* A sum to which one element at most contributes is that element's value.
LEMMA SumSingle ==
  ASSUME NEW S, IsFiniteSet(S), NEW e, \A x \in S : e[x] \in Nat,
         NEW m \in Nat, \A x \in S : e[x] <= m,
         \A x, y \in S : e[x] > 0 /\ e[y] > 0 => x = y
  PROVE  SumOf(e, S) <= m
<1>0. \A T \in SUBSET S : IsFiniteSet(T)
  BY FS_Subset
<1>1. ASSUME NEW T \in SUBSET S, \A x \in T : e[x] = 0
      PROVE  SumOf(e, T) = 0
  <2> DEFINE D == {U \in SUBSET T : SumOf(e, U) = 0}
  <2>1. ASSUME NEW U \in SUBSET T, \A V \in SUBSET U : V # U => V \in D
        PROVE  U \in D
    <3>1. CASE U = {}
      BY <3>1, SumEmpty
    <3>2. CASE U # {}
      <4>1. Pick(U) \in U /\ U \ {Pick(U)} \in D
        BY <2>1, <3>2, PickIsMember
      <4>2. SumOf(e, U) = e[Pick(U)] + SumOf(e, U \ {Pick(U)})
        BY <1>0, <3>2, SumStep
      <4> QED BY <1>1, <4>1, <4>2
    <3> QED BY <3>1, <3>2
  <2>2. T \in D
    <3> HIDE DEF D
    <3> QED BY <1>0, <2>1, SetInduction
  <2> QED BY <2>2
<1>2. CASE \E y \in S : e[y] > 0
  <2>1. PICK y \in S : e[y] > 0
    BY <1>2
  <2>2. SumOf(e, S) = e[y] + SumOf(e, S \ {y})
    BY SumRemove
  <2>3. \A x \in S \ {y} : e[x] = 0
    BY <2>1
  <2>4. SumOf(e, S \ {y}) = 0
    <3>1. S \ {y} \in SUBSET S
      OBVIOUS
    <3> QED BY <1>1, <2>3, <3>1
  <2> QED BY <2>2, <2>4
<1>3. CASE \A y \in S : ~(e[y] > 0)
  <2>1. \A y \in S : e[y] = 0
    BY <1>3
  <2>2. SumOf(e, S) = 0
    BY <1>1, <2>1
  <2> QED BY <2>2
<1> QED BY <1>2, <1>3

-----------------------------------------------------------------------------
(* The rungs of a leg, and how the call's place in the code tells them.    *)

InChase == pc \notin {"leg", "done"}

BookOK ==
  /\ orders \in [Legs -> Seq(Order)]
  /\ \A l \in Legs : \A i \in DOMAIN orders[l] :
       /\ orders[l][i].filled <= orders[l][i].quantity
       /\ orders[l][i].quantity <= Held[l]

CallOK ==
  /\ results \in [Legs -> {"pending", "skipped", "rejected", "placed"}]
  /\ pc \in {"leg", "cancel", "place", "poll", "requote", "report", "done"}
  /\ leg \in 1..(Len(Held) + 1) /\ remaining \in 0..MaxToClose
  /\ moves \in 0..MaxTickMoves /\ price \in Nat /\ edge \in Nat
  /\ refreshed \in BOOLEAN /\ active \in Nat /\ response \in BOOLEAN
  /\ InChase => HasLeg

\* One order at most is placed at each rung, and the active one is among them.
RungsInStep ==
  /\ \A l \in Legs : l > leg \/ (l = leg /\ ~InChase) => orders[l] = << >>
  /\ InChase => active <= Len(orders[leg])
  /\ pc \in {"cancel", "place"} => Len(orders[leg]) <= moves
  /\ pc \in {"poll", "requote"} => Len(orders[leg]) <= moves + 1 /\ moves < MaxTickMoves
  /\ pc = "report" => Len(orders[leg]) <= moves + 1
FewRungs == \A l \in Legs : Len(orders[l]) <= MaxTickMoves + 1

CallInv == BookOK /\ CallOK /\ RungsInStep /\ FewRungs

-----------------------------------------------------------------------------
(* Prices. *)

LEMMA MinOfTwo ==
  ASSUME NEW a \in Int, NEW b \in Int
  PROVE  Min({a, b}) = IF a <= b THEN a ELSE b
<1> DEFINE m == IF a <= b THEN a ELSE b
<1>1. m \in {a, b} /\ \A y \in {a, b} : m <= y
  OBVIOUS
<1>2. \A x \in {a, b} : (\A y \in {a, b} : x <= y) => x = m
  OBVIOUS
<1> QED BY <1>1, <1>2 DEF Min

LEMMA MaxOfTwo ==
  ASSUME NEW a \in Int, NEW b \in Int
  PROVE  Max({a, b}) = IF a >= b THEN a ELSE b
<1> DEFINE m == IF a >= b THEN a ELSE b
<1>1. m \in {a, b} /\ \A y \in {a, b} : m >= y
  OBVIOUS
<1>2. \A x \in {a, b} : (\A y \in {a, b} : x >= y) => x = m
  OBVIOUS
<1> QED BY <1>1, <1>2 DEF Max

LEMMA Sizes ==
  /\ MaxToClose \in Nat /\ MaxToClose > 0 /\ MaxTickMoves \in Nat
  /\ Grid \in Nat /\ Grid > 0
BY CloseAssumption

LEMMA PricesAreNat ==
  /\ Midpoint \in Nat /\ getCloseStartPrice \in Nat /\ getEdgePrice \in Nat
  /\ Bid <= Midpoint /\ getEdgePrice <= getCloseStartPrice
<1>1. /\ Bid \in Nat /\ Ask \in Nat /\ MinTick \in Nat /\ MinTick > 0 /\ Bid < Ask
      /\ Urgent \in BOOLEAN /\ MidFloor \in BOOLEAN
  BY CloseAssumption
<1>2. Midpoint \in Nat /\ Bid <= Midpoint /\ Midpoint <= Ask
  BY <1>1 DEF Midpoint
<1>3. Min({Ask, Midpoint + 2 * MinTick}) =
        IF Ask <= Midpoint + 2 * MinTick THEN Ask ELSE Midpoint + 2 * MinTick
  BY <1>1, <1>2, MinOfTwo
<1> QED BY <1>1, <1>2, <1>3 DEF getCloseStartPrice, getEdgePrice, EdgeOf

LEMMA TickIsNat == getCloseTickSize \in Nat /\ MinTick <= getCloseTickSize
<1>1. MaxTickMoves \in Nat /\ MinTick \in Nat
  BY CloseAssumption
<1>2. Max({1, MaxTickMoves}) \in Nat \ {0}
  BY <1>1, MaxOfTwo
<1> DEFINE d == (getCloseStartPrice - getEdgePrice) \div Max({1, MaxTickMoves})
<1>3. d \in Int
  BY <1>2, PricesAreNat
<1>4. Max({d, MinTick}) = IF d >= MinTick THEN d ELSE MinTick
  <2> HIDE DEF d
  <2> QED BY <1>1, <1>3, MaxOfTwo
<1>5. getCloseTickSize = Max({d, MinTick})
  BY DEF getCloseTickSize
<1> HIDE DEF d
<1> QED BY <1>1, <1>3, <1>4, <1>5

\* The next rung is a price, and asks no more than this one.
LEMMA NextRung ==
  ASSUME NEW p \in Nat, NEW e \in Nat, NEW final \in BOOLEAN
  PROVE  /\ advanceClosePrice(p, e, final) \in Nat
         /\ Urgent /\ final => advanceClosePrice(p, e, final) = e
         /\ e <= p => advanceClosePrice(p, e, final) <= p
<1>1. Max({e, p - getCloseTickSize}) =
        IF e >= p - getCloseTickSize THEN e ELSE p - getCloseTickSize
  BY TickIsNat, MaxOfTwo
<1> QED BY <1>1, TickIsNat DEF advanceClosePrice, steppedPrice

\* A live quote may only lower the edge.
LEMMA FreshEdge ==
  ASSUME NEW old \in Nat, NEW e \in refreshEdgePriceFromQuote(old)
  PROVE  e \in Nat /\ e <= old
<1>1. CASE e = old
  BY <1>1
<1>2. ASSUME NEW b \in FreshBids, e = Min({old, EdgeOf(b, b + (Ask - Bid) \div 2)})
      PROVE  e \in Nat /\ e <= old
  <2>1. EdgeOf(b, b + (Ask - Bid) \div 2) \in Nat
    BY CloseAssumption DEF EdgeOf
  <2> QED BY <1>2, <2>1, MinOfTwo
<1> QED BY <1>1, <1>2 DEF refreshEdgePriceFromQuote

-----------------------------------------------------------------------------
(* The legs and the broker's book. *)

LEMMA LegFacts ==
  /\ Legs = 1..Len(Held) /\ Len(Held) \in Nat /\ IsFiniteSet(Legs)
  /\ \A l \in Legs : Held[l] \in Nat \ {0}
<1>1. Held \in Seq(Nat \ {0})
  BY CloseAssumption
<1>2. Legs = 1..Len(Held) /\ Len(Held) \in Nat
  BY <1>1 DEF Legs
<1> QED BY SMTT(30), <1>1, <1>2, FS_Interval

\* What is asked for at a rung is some of the leg, and no more than is left.
LEMMA QtyFacts ==
  ASSUME HasLeg, CallOK
  PROVE  /\ qtyToClose \in Nat \ {0}
         /\ qtyToClose <= Held[leg] /\ qtyToClose <= remaining
<1>1. Held[leg] \in Nat \ {0} /\ remaining \in Nat /\ remaining > 0
  BY LegFacts, CloseAssumption DEF HasLeg, CallOK
<1> QED BY <1>1, MinOfTwo DEF qtyToClose

\* o takes the place of one order in the book, and what that leaves alone.
Replaces(l, i, o) == orders' = [orders EXCEPT ![l][i] = o]

OthersStay(l, i, o) ==
  /\ \A k \in Legs : /\ Len(orders'[k]) = Len(orders[k])
                     /\ DOMAIN orders'[k] = DOMAIN orders[k]
                     /\ orders[k] = << >> => orders'[k] = << >>
  /\ \A k \in Legs : \A j \in DOMAIN orders[k] :
       k # l \/ j # i => orders'[k][j] = orders[k][j]
  /\ orders'[l][i] = o

LEMMA OneOrderChanges ==
  ASSUME BookOK, NEW l \in Legs, NEW i \in DOMAIN orders[l], NEW o \in Order,
         Replaces(l, i, o), o.quantity = orders[l][i].quantity, o.filled <= o.quantity
  PROVE  BookOK' /\ OthersStay(l, i, o)
<1>1. orders[l] \in Seq(Order) /\ orders' = [orders EXCEPT ![l] = [orders[l] EXCEPT ![i] = o]]
  BY DEF BookOK, Replaces
<1> DEFINE s == [orders[l] EXCEPT ![i] = o]
<1>2. /\ s \in Seq(Order) /\ Len(s) = Len(orders[l]) /\ DOMAIN s = DOMAIN orders[l]
      /\ s[i] = o /\ \A j \in DOMAIN orders[l] : j # i => s[j] = orders[l][j]
  <2>1. DOMAIN s = DOMAIN orders[l]
    OBVIOUS
  <2>2. DOMAIN orders[l] = 1..Len(orders[l]) /\ Len(orders[l]) \in Nat
    BY <1>1
  <2>3. s \in [1..Len(orders[l]) -> Order]
    BY <1>1, <2>2
  <2>4. Len(s) = Len(orders[l])
    BY <2>2, <2>3
  <2>5. s[i] = o /\ \A j \in DOMAIN orders[l] : j # i => s[j] = orders[l][j]
    OBVIOUS
  <2>6. s \in Seq(Order)
    <3> HIDE DEF s
    <3> QED BY <2>2, <2>3
  <2> HIDE DEF s
  <2> QED BY <2>1, <2>4, <2>5, <2>6
<1>3. orders' \in [Legs -> Seq(Order)] /\ orders'[l] = s
      /\ \A k \in Legs : k # l => orders'[k] = orders[k]
  <2> HIDE DEF s
  <2> QED BY <1>1, <1>2 DEF BookOK
<1>4. orders[l] # << >>
  BY <1>1
<1>5. BookOK'
  <2> HIDE DEF s
  <2> SUFFICES ASSUME NEW k \in Legs, NEW j \in DOMAIN orders'[k]
               PROVE  /\ orders'[k][j].filled <= orders'[k][j].quantity
                      /\ orders'[k][j].quantity <= Held[k]
    BY <1>3 DEF BookOK
  <2> QED BY <1>2, <1>3 DEF BookOK
<1> HIDE DEF s
<1> QED BY <1>2, <1>3, <1>4, <1>5 DEF OthersStay

\* A placement puts one order behind the leg's others.
LEMMA OneOrderMore ==
  ASSUME BookOK, CallOK, HasLeg, NEW answer \in {"id", "none", "lost"},
         orders' = [orders EXCEPT ![leg] = Append(@, NewOrder(answer))]
  PROVE  /\ BookOK'
         /\ NewOrder(answer) \in Order /\ NewOrder(answer).quantity = qtyToClose
         /\ \A k \in Legs : k # leg => orders'[k] = orders[k]
         /\ Len(orders'[leg]) = Len(orders[leg]) + 1
         /\ \A j \in DOMAIN orders[leg] : orders'[leg][j] = orders[leg][j]
         /\ orders'[leg][Len(orders[leg]) + 1] = NewOrder(answer)
<1>1. leg \in Legs /\ orders[leg] \in Seq(Order)
  BY DEF HasLeg, BookOK
<1>2. roundOrderPrice(price) \in Nat
  <2>1. price \in Nat /\ Grid \in Nat \ {0}
    BY CloseAssumption DEF CallOK
  <2> DEFINE q == (2 * price + Grid) \div (2 * Grid)
  <2>2. q \in Nat
    BY <2>1
  <2>3. q * Grid \in Nat
    <3> HIDE DEF q
    <3> QED BY <2>1, <2>2
  <2> QED BY <2>3 DEF roundOrderPrice
<1>3. NewOrder(answer) \in Order /\ NewOrder(answer).quantity = qtyToClose
      /\ NewOrder(answer).filled = 0
  BY <1>2, QtyFacts DEF NewOrder, Order
<1>4. /\ Append(orders[leg], NewOrder(answer)) \in Seq(Order)
      /\ Len(Append(orders[leg], NewOrder(answer))) = Len(orders[leg]) + 1
      /\ \A j \in 1..Len(orders[leg]) : Append(orders[leg], NewOrder(answer))[j] = orders[leg][j]
      /\ Append(orders[leg], NewOrder(answer))[Len(orders[leg]) + 1] = NewOrder(answer)
  BY <1>1, <1>3, AppendProperties
<1>5. orders' \in [Legs -> Seq(Order)] /\ orders'[leg] = Append(orders[leg], NewOrder(answer))
      /\ \A k \in Legs : k # leg => orders'[k] = orders[k]
  BY <1>1, <1>4 DEF BookOK
<1>6. DOMAIN orders[leg] = 1..Len(orders[leg]) /\ Len(orders[leg]) \in Nat
      /\ DOMAIN orders'[leg] = 1..(Len(orders[leg]) + 1)
  BY <1>1, <1>4, <1>5
<1>7. BookOK'
  <2> SUFFICES ASSUME NEW k \in Legs, NEW j \in DOMAIN orders'[k]
               PROVE  /\ orders'[k][j].filled <= orders'[k][j].quantity
                      /\ orders'[k][j].quantity <= Held[k]
    BY <1>5 DEF BookOK
  <2>1. CASE k # leg
    BY <1>5, <2>1 DEF BookOK
  <2>2. CASE k = leg /\ j \in DOMAIN orders[leg]
    BY <1>4, <1>5, <1>6, <2>2 DEF BookOK
  <2>3. CASE k = leg /\ j = Len(orders[leg]) + 1
    <3>1. qtyToClose \in Nat /\ qtyToClose <= Held[leg]
      BY QtyFacts
    <3>2. orders'[k][j] = NewOrder(answer)
      BY <1>4, <1>5, <2>3
    <3> QED BY <1>3, <2>3, <3>1, <3>2
  <2> QED BY <1>6, <2>1, <2>2, <2>3
<1> QED BY <1>3, <1>4, <1>5, <1>6, <1>7

-----------------------------------------------------------------------------
(* Every step keeps the call and the book in step. *)

LEMMA InitCallInv == Init => CallInv
<1> SUFFICES ASSUME Init PROVE CallInv
  OBVIOUS
<1>1. BookOK
  BY DEF Init, BookOK
<1>2. CallOK
  <2>1. leg \in 1..(Len(Held) + 1)
        /\ results \in [Legs -> {"pending", "skipped", "rejected", "placed"}]
    BY LegFacts DEF Init
  <2>2. remaining \in 0..MaxToClose /\ moves \in 0..MaxTickMoves
    BY Sizes DEF Init
  <2> QED BY <2>1, <2>2, PricesAreNat DEF Init, CallOK, InChase
<1>3. RungsInStep
  BY DEF Init, RungsInStep, InChase
<1>4. FewRungs
  BY CloseAssumption DEF Init, FewRungs
<1> QED BY <1>1, <1>2, <1>3, <1>4 DEF CallInv

\* What the broker does leaves the caller where it is.
LEMMA BrokerKeepsCallInv ==
  ASSUME CallInv, NEW l \in Legs, NEW i \in DOMAIN orders[l],
         FillOrder(l, i) \/ EndOrder(l, i)
  PROVE  CallInv'
<1>1. UNCHANGED chase /\ UNCHANGED results
  BY DEF FillOrder, EndOrder
<1>2. CallOK'
  BY <1>1 DEF CallInv, CallOK, chase, inHand, InChase, HasLeg, Legs
<1>3. \E o \in Order : /\ Replaces(l, i, o)
                       /\ o.quantity = orders[l][i].quantity /\ o.filled <= o.quantity
  <2>1. orders[l] \in Seq(Order) /\ orders[l][i] \in Order
        /\ orders[l][i].filled <= orders[l][i].quantity
    BY DEF CallInv, BookOK
  <2>2. CASE FillOrder(l, i)
    <3> DEFINE f == IF PartialFills THEN orders[l][i].filled + 1 ELSE orders[l][i].quantity
               o == [orders[l][i] EXCEPT !.filled = f]
    <3>1. f \in Nat /\ f <= orders[l][i].quantity
      BY SMTT(30), <2>1, <2>2 DEF FillOrder, Working, Order
    <3>2. o \in Order /\ o.quantity = orders[l][i].quantity /\ o.filled = f
      <4> HIDE DEF f
      <4> QED BY <2>1, <3>1 DEF Order
    <3>3. Replaces(l, i, o)
      BY <2>2 DEF FillOrder, CallInv, BookOK, Replaces
    <3> HIDE DEF f, o
    <3> QED BY <3>1, <3>2, <3>3
  <2>3. CASE EndOrder(l, i)
    <3> DEFINE o == [orders[l][i] EXCEPT !.status = "dead"]
    <3>1. o \in Order /\ o.quantity = orders[l][i].quantity /\ o.filled = orders[l][i].filled
      BY <2>1 DEF Order
    <3>2. Replaces(l, i, o)
      BY <2>3 DEF EndOrder, CallInv, BookOK, Replaces
    <3> HIDE DEF o
    <3> QED BY <2>1, <3>1, <3>2
  <2> QED BY <2>2, <2>3
<1>4. BookOK' /\ \A k \in Legs : /\ Len(orders'[k]) = Len(orders[k])
                                 /\ orders[k] = << >> => orders'[k] = << >>
  <2>1. PICK o \in Order : /\ Replaces(l, i, o)
                           /\ o.quantity = orders[l][i].quantity /\ o.filled <= o.quantity
    BY <1>3
  <2>2. BookOK
    BY DEF CallInv
  <2> QED BY <2>1, <2>2, OneOrderChanges DEF OthersStay
<1>5. RungsInStep'
  BY <1>1, <1>4 DEF CallInv, CallOK, RungsInStep, chase, inHand, InChase, HasLeg
<1>6. FewRungs'
  BY <1>4 DEF CallInv, FewRungs
<1> QED BY <1>2, <1>4, <1>5, <1>6 DEF CallInv

LEMMA CancelKeepsCallInv ==
  ASSUME CallInv, CancelAccepted
  PROVE  CallInv'
<1>1. HasLeg /\ leg \in Legs /\ orders[leg] \in Seq(Order) /\ active <= Len(orders[leg])
      /\ active > 0 /\ active \in Nat
  BY DEF CallInv, CallOK, InChase, HasLeg, BookOK, RungsInStep, CancelAccepted,
    mustCancelPrevious
<1>2. active \in DOMAIN orders[leg] /\ orders[leg][active] \in Order
      /\ orders[leg][active].filled <= orders[leg][active].quantity
  BY <1>1 DEF CallInv, BookOK
<1> DEFINE o == [orders[leg][active] EXCEPT !.status =
                   IF CancelIsFinal THEN "dead" ELSE "cancelling"]
<1>3. o \in Order /\ o.quantity = orders[leg][active].quantity
      /\ o.filled = orders[leg][active].filled
  BY <1>2 DEF Order
<1>4. Replaces(leg, active, o)
  BY DEF CancelAccepted, Replaces
<1>5. BookOK' /\ \A k \in Legs : /\ Len(orders'[k]) = Len(orders[k])
                                 /\ orders[k] = << >> => orders'[k] = << >>
  <2>1. BookOK /\ o.filled <= o.quantity
    BY <1>2, <1>3 DEF CallInv
  <2> HIDE DEF o
  <2> QED BY <1>1, <1>2, <1>3, <1>4, <2>1, OneOrderChanges DEF OthersStay
<1>6. pc' = "place" /\ pc = "cancel"
      /\ UNCHANGED <<active, response, results, leg, remaining, moves, price, edge, refreshed>>
  BY DEF CancelAccepted, goto, inHand
<1>7. CallOK'
  BY <1>6 DEF CallInv, CallOK, InChase, HasLeg, Legs
<1>8. RungsInStep'
  BY <1>1, <1>5, <1>6 DEF CallInv, CallOK, RungsInStep, InChase
<1>9. FewRungs'
  BY <1>5 DEF CallInv, FewRungs
<1> QED BY <1>5, <1>7, <1>8, <1>9 DEF CallInv

LEMMA PlacingKeepsCallInv ==
  ASSUME CallInv, NEW answer \in {"id", "none", "lost"}, pc = "place",
         orders' = [orders EXCEPT ![leg] = Append(@, NewOrder(answer))],
         active' \in {0, active, Len(orders[leg]) + 1}, response' \in BOOLEAN,
         OrWait \/ goto("report")
  PROVE  CallInv'
<1>1. HasLeg /\ leg \in Legs /\ orders[leg] \in Seq(Order) /\ moves \in 0..MaxTickMoves
      /\ Len(orders[leg]) <= moves /\ Len(orders[leg]) \in Nat
      /\ active <= Len(orders[leg]) /\ active \in Nat
  BY DEF CallInv, CallOK, InChase, HasLeg, BookOK, RungsInStep
<1>2. UNCHANGED <<results, leg, remaining, moves, price, edge, refreshed>>
  BY DEF OrWait, goto
<1>3. /\ BookOK' /\ Len(orders'[leg]) = Len(orders[leg]) + 1
      /\ \A k \in Legs : k # leg => orders'[k] = orders[k]
  BY <1>1, OneOrderMore DEF CallInv
<1>4. pc' = "report" \/ (pc' = "poll" /\ moves < MaxTickMoves)
  BY <1>1, CloseAssumption DEF OrWait, goto
<1>5. CallOK'
  BY <1>1, <1>2, <1>4 DEF CallInv, CallOK, InChase, HasLeg, Legs
<1>6. RungsInStep'
  BY <1>1, <1>2, <1>3, <1>4, LegFacts DEF CallInv, CallOK, RungsInStep, InChase
<1>7. FewRungs'
  BY <1>1, <1>3, CloseAssumption DEF CallInv, FewRungs
<1> QED BY <1>3, <1>5, <1>6, <1>7 DEF CallInv

LEMMA PlacementsKeepCallInv ==
  ASSUME CallInv, PlaceAccepted \/ PlaceUnnamed \/ PlaceReplyLost
  PROVE  CallInv'
<1>1. CASE PlaceAccepted
  BY <1>1, PlacingKeepsCallInv DEF PlaceAccepted
<1>2. CASE PlaceReplyLost
  BY <1>2, PlacingKeepsCallInv DEF PlaceReplyLost, inHand, CallInv, CallOK
<1>3. CASE PlaceUnnamed
  <2>1. CASE orders' = [orders EXCEPT ![leg] = Append(@, NewOrder("none"))]
    BY <1>3, <2>1, PlacingKeepsCallInv DEF PlaceUnnamed
  <2>2. CASE orders' = orders
    <3>1. HasLeg /\ leg \in Legs /\ moves \in 0..MaxTickMoves /\ pc = "place"
          /\ Len(orders[leg]) <= moves /\ Len(orders[leg]) \in Nat
      BY <1>3 DEF CallInv, CallOK, InChase, HasLeg, RungsInStep, PlaceUnnamed, BookOK
    <3>2. active' = 0 /\ response' = TRUE
          /\ UNCHANGED <<results, leg, remaining, moves, price, edge, refreshed>>
      BY <1>3 DEF PlaceUnnamed, OrWait, goto
    <3>3. pc' = "report" \/ (pc' = "poll" /\ moves < MaxTickMoves)
      BY <1>3, <3>1, CloseAssumption DEF PlaceUnnamed, OrWait, goto
    <3>4. BookOK' /\ FewRungs'
      BY <2>2 DEF CallInv, BookOK, FewRungs
    <3>5. CallOK'
      BY <3>1, <3>2, <3>3 DEF CallInv, CallOK, InChase, HasLeg, Legs
    <3>6. RungsInStep'
      BY <2>2, <3>1, <3>2, <3>3, LegFacts DEF CallInv, CallOK, RungsInStep, InChase
    <3> QED BY <3>4, <3>5, <3>6 DEF CallInv
  <2> QED BY <1>3, <2>1, <2>2 DEF PlaceUnnamed
<1> QED BY <1>1, <1>2, <1>3

\* The steps to a lower price.
LEMMA AdvanceKeepsCallInv ==
  ASSUME CallInv, pc \in {"poll", "requote"}, NEW e \in Nat, Advance(e),
         refreshed' \in BOOLEAN
  PROVE  CallInv'
<1>1. HasLeg /\ leg \in Legs /\ Len(orders[leg]) <= moves + 1
      /\ moves < MaxTickMoves /\ moves \in Nat /\ MaxTickMoves \in Nat
  BY CloseAssumption DEF CallInv, CallOK, InChase, HasLeg, RungsInStep
<1>2. price' \in Nat
  <2>1. price \in Nat /\ isFinalTickMove \in BOOLEAN
    BY DEF CallInv, CallOK, isFinalTickMove
  <2>2. price' = advanceClosePrice(price, e, isFinalTickMove)
    BY DEF Advance
  <2> QED BY <2>1, <2>2, NextRung
<1>3. pc' = "cancel" /\ edge' = e /\ moves' = moves + 1
      /\ UNCHANGED <<orders, results, leg, remaining, active, response>>
  BY DEF Advance, inHand
<1>4. BookOK'
  BY <1>3 DEF CallInv, BookOK
<1>5. CallOK'
  BY <1>1, <1>2, <1>3 DEF CallInv, CallOK, InChase, HasLeg, Legs
<1>6. RungsInStep'
  BY <1>1, <1>3 DEF CallInv, CallOK, RungsInStep, InChase
<1>7. FewRungs'
  BY <1>3 DEF CallInv, FewRungs
<1> QED BY <1>4, <1>5, <1>6, <1>7 DEF CallInv

\* What leaves the book alone and does not advance.
LEMMA WaitingKeepsCallInv ==
  ASSUME CallInv,
         \/ SkipLeg \/ BeginChase \/ Return \/ NothingToCancel \/ CancelRefused
         \/ PlaceRejected \/ FillSeen \/ UNCHANGED vars
         \/ pc = "poll" /\ goto("requote") /\ UNCHANGED <<orders, inHand>>
  PROVE  CallInv'
<1>0. UNCHANGED orders
  BY DEF SkipLeg, BeginChase, Return, NothingToCancel, CancelRefused, PlaceRejected, FillSeen,
    vars
<1>1. BookOK' /\ FewRungs'
  BY <1>0 DEF CallInv, BookOK, FewRungs
<1>2. CASE SkipLeg
  <2>1. leg \in Legs /\ leg' = leg + 1 /\ pc' = "leg" /\ pc = "leg"
        /\ results' = [results EXCEPT ![leg] = "skipped"]
        /\ UNCHANGED <<orders, remaining, moves, price, edge, refreshed, active, response>>
    BY <1>2 DEF SkipLeg, HasLeg, inHand
  <2>2. CallOK'
    BY <2>1, LegFacts DEF CallInv, CallOK, InChase
  <2>3. RungsInStep'
    BY <2>1, LegFacts DEF CallInv, CallOK, RungsInStep, InChase
  <2> QED BY <1>1, <2>2, <2>3 DEF CallInv
<1>3. CASE BeginChase
  <2>1. CallOK'
    <3>1. moves' \in 0..MaxTickMoves /\ price' \in Nat /\ edge' \in Nat
      BY <1>3, PricesAreNat, Sizes DEF BeginChase
    <3>2. HasLeg /\ HasLeg' /\ pc' = "cancel" /\ active' = 0 /\ refreshed' = FALSE
          /\ response' = FALSE
          /\ UNCHANGED <<results, leg, remaining>>
      BY <1>3 DEF BeginChase, HasLeg, Legs
    <3> QED BY <3>1, <3>2 DEF CallInv, CallOK
  <2>2. RungsInStep'
    BY <1>3, LegFacts DEF BeginChase, CallInv, CallOK, RungsInStep, InChase, HasLeg, BookOK
  <2> QED BY <1>1, <2>1, <2>2 DEF CallInv
<1>4. CASE Return
  <2>1. CallOK'
    BY <1>4 DEF Return, CallInv, CallOK, InChase, inHand
  <2>2. RungsInStep'
    BY <1>4 DEF Return, CallInv, CallOK, RungsInStep, InChase
  <2> QED BY <1>1, <2>1, <2>2 DEF CallInv
<1>5. CASE NothingToCancel \/ CancelRefused \/ PlaceRejected \/ FillSeen
           \/ (pc = "poll" /\ goto("requote") /\ UNCHANGED <<orders, inHand>>)
  <2>1. UNCHANGED <<orders, active, response, results, leg, remaining, moves, price, edge,
                    refreshed>>
        /\ \/ pc = "cancel" /\ pc' \in {"place", "report"}
           \/ pc = "place" /\ pc' = "report"
           \/ pc = "poll" /\ pc' \in {"report", "requote"}
    BY <1>5 DEF NothingToCancel, CancelRefused, PlaceRejected, FillSeen, goto, inHand
  <2>2. CallOK'
    BY <2>1 DEF CallInv, CallOK, InChase, HasLeg, Legs
  <2>3. RungsInStep'
    BY <2>1 DEF CallInv, CallOK, RungsInStep, InChase
  <2> QED BY <1>1, <2>2, <2>3 DEF CallInv
<1>6. CASE UNCHANGED vars
  BY <1>6 DEF vars, chase, inHand, CallInv, BookOK, CallOK, RungsInStep, FewRungs, InChase,
    HasLeg, Legs
<1> QED BY <1>2, <1>3, <1>4, <1>5, <1>6

LEMMA ReportKeepsCallInv ==
  ASSUME CallInv, ReportLeg
  PROVE  CallInv'
<1>1. HasLeg /\ leg \in Legs /\ pc = "report"
  BY DEF CallInv, CallOK, InChase, HasLeg, ReportLeg
<1>2. qtyToClose \in Nat /\ qtyToClose <= remaining
  BY <1>1, QtyFacts DEF CallInv
<1>3. /\ results' = [results EXCEPT ![leg] = IF response THEN "placed" ELSE "rejected"]
      /\ remaining' \in {remaining, remaining - qtyToClose}
      /\ leg' = leg + 1 /\ pc' = "leg"
      /\ UNCHANGED <<orders, moves, price, edge, refreshed, active, response>>
  BY DEF ReportLeg, inHand
<1>4. BookOK' /\ FewRungs'
  BY <1>3 DEF CallInv, BookOK, FewRungs
<1>5. remaining' \in 0..MaxToClose
  BY <1>2, <1>3, CloseAssumption DEF CallInv, CallOK
<1>6. CallOK'
  BY <1>1, <1>3, <1>5, LegFacts DEF CallInv, CallOK, InChase
<1>7. RungsInStep'
  BY <1>1, <1>3, LegFacts DEF CallInv, CallOK, RungsInStep, InChase
<1> QED BY <1>4, <1>6, <1>7 DEF CallInv

LEMMA NextCallInv == CallInv /\ [Next]_vars => CallInv'
<1> SUFFICES ASSUME CallInv, [Next]_vars PROVE CallInv'
  OBVIOUS
<1>1. CASE NoFillSeen
  <2>1. CASE AskForQuote
    BY <1>1, <2>1, WaitingKeepsCallInv DEF NoFillSeen
  <2>2. CASE ~AskForQuote
    <3>1. pc \in {"poll", "requote"} /\ Advance(edge) /\ edge \in Nat /\ refreshed' \in BOOLEAN
      BY <1>1, <2>2 DEF NoFillSeen, CallInv, CallOK
    <3> QED BY <3>1, AdvanceKeepsCallInv
  <2> QED BY <2>1, <2>2
<1>2. CASE RequoteAnswered
  <2>1. PICK e \in refreshEdgePriceFromQuote(edge) : Advance(e)
    BY <1>2 DEF RequoteAnswered
  <2>2. e \in Nat /\ pc \in {"poll", "requote"} /\ refreshed' \in BOOLEAN
    BY <1>2, <2>1, FreshEdge DEF RequoteAnswered, CallInv, CallOK
  <2> QED BY <2>1, <2>2, AdvanceKeepsCallInv
<1>3. CASE \E l \in Legs : \E i \in DOMAIN orders[l] : FillOrder(l, i) \/ EndOrder(l, i)
  BY <1>3, BrokerKeepsCallInv
<1>4. CASE Returned
  BY <1>4, WaitingKeepsCallInv DEF Returned
<1> QED BY <1>1, <1>2, <1>3, <1>4, WaitingKeepsCallInv, ReportKeepsCallInv,
           CancelKeepsCallInv, PlacementsKeepCallInv DEF Next

\* The state of a close is well formed, for every position, quote and ramp.
THEOREM TypeCorrect == Spec => []TypeOK
<1>1. CallInv => TypeOK
  <2> SUFFICES ASSUME CallInv PROVE TypeOK
    OBVIOUS
  <2> QED BY DEF CallInv, BookOK, CallOK, RungsInStep, FewRungs, TypeOK, InChase, HasLeg
<1> QED BY <1>1, InitCallInv, NextCallInv, PTL DEF Spec

-----------------------------------------------------------------------------
(* What a step does to the book.                                            *)

\* An order that works fills, ends, or is asked to be cancelled.
Became(o, n) ==
  /\ Working(o)
  /\ n.quantity = o.quantity /\ n.answer = o.answer /\ n.price = o.price
  /\ \/ n.status = o.status /\ n.filled = IF PartialFills THEN o.filled + 1 ELSE o.quantity
     \/ n.filled = o.filled /\ n.status = "dead"
     \/ n.filled = o.filled /\ n.status = "cancelling" /\ ~CancelIsFinal

\* No order is placed.
SameOrders ==
  \A k \in Legs :
    /\ DOMAIN orders'[k] = DOMAIN orders[k]
    /\ \A i \in DOMAIN orders[k] :
         orders'[k][i] = orders[k][i] \/ Became(orders[k][i], orders'[k][i])

\* One is, behind the others of its leg.
OneMore(answer) ==
  /\ pc = "place" /\ HasLeg
  /\ \A k \in Legs : k # leg => orders'[k] = orders[k]
  /\ DOMAIN orders[leg] = 1..Len(orders[leg]) /\ Len(orders[leg]) \in Nat
  /\ DOMAIN orders'[leg] = 1..(Len(orders[leg]) + 1)
  /\ \A i \in DOMAIN orders[leg] : orders'[leg][i] = orders[leg][i]
  /\ orders'[leg][Len(orders[leg]) + 1] = NewOrder(answer)

LEMMA SameBook ==
  ASSUME UNCHANGED orders
  PROVE  SameOrders
BY DEF SameOrders

LEMMA ReplacedOrder ==
  ASSUME BookOK, NEW l \in Legs, NEW i \in DOMAIN orders[l], NEW o,
         Replaces(l, i, o), Became(orders[l][i], o)
  PROVE  SameOrders
<1>1. orders \in [Legs -> Seq(Order)]
  BY DEF BookOK
<1>2. orders' = [orders EXCEPT ![l] = [orders[l] EXCEPT ![i] = o]]
  BY <1>1 DEF Replaces
<1>3. orders'[l] = [orders[l] EXCEPT ![i] = o] /\ \A k \in Legs : k # l => orders'[k] = orders[k]
  BY <1>1, <1>2
<1>4. DOMAIN orders'[l] = DOMAIN orders[l] /\ orders'[l][i] = o
      /\ \A j \in DOMAIN orders[l] : j # i => orders'[l][j] = orders[l][j]
  BY <1>3
<1> QED BY <1>3, <1>4 DEF SameOrders

LEMMA BrokersBook ==
  ASSUME CallInv, NEW l \in Legs, NEW i \in DOMAIN orders[l],
         FillOrder(l, i) \/ EndOrder(l, i)
  PROVE  SameOrders
<1>1. BookOK /\ orders \in [Legs -> Seq(Order)] /\ orders[l][i] \in Order
      /\ Working(orders[l][i])
  BY DEF CallInv, BookOK, FillOrder, EndOrder
<1>2. CASE FillOrder(l, i)
  <2> DEFINE f == IF PartialFills THEN orders[l][i].filled + 1 ELSE orders[l][i].quantity
             o == [orders[l][i] EXCEPT !.filled = f]
  <2>1. Became(orders[l][i], o)
    <3> HIDE DEF f
    <3>1. o.quantity = orders[l][i].quantity /\ o.answer = orders[l][i].answer
          /\ o.price = orders[l][i].price /\ o.filled = f /\ o.status = orders[l][i].status
      BY <1>1 DEF Order
    <3> HIDE DEF o
    <3> QED BY <1>1, <3>1 DEF Became, f
  <2>2. Replaces(l, i, o)
    BY <1>1, <1>2 DEF FillOrder, Replaces
  <2> HIDE DEF f, o
  <2> QED BY <1>1, <2>1, <2>2, ReplacedOrder
<1>3. CASE EndOrder(l, i)
  <2> DEFINE o == [orders[l][i] EXCEPT !.status = "dead"]
  <2>1. Became(orders[l][i], o)
    BY <1>1 DEF Became, Order
  <2>2. Replaces(l, i, o)
    BY <1>1, <1>3 DEF EndOrder, Replaces
  <2> HIDE DEF o
  <2> QED BY <1>1, <2>1, <2>2, ReplacedOrder
<1> QED BY <1>2, <1>3

LEMMA CancelsBook ==
  ASSUME CallInv, CancelAccepted
  PROVE  /\ SameOrders
         /\ leg \in Legs /\ active \in DOMAIN orders[leg] /\ orders[leg][active] \in Order
         /\ orders'[leg][active].status = IF CancelIsFinal THEN "dead" ELSE "cancelling"
         /\ orders'[leg][active].quantity = orders[leg][active].quantity
         /\ orders'[leg][active].filled = orders[leg][active].filled
<1>1. BookOK /\ leg \in Legs /\ active \in DOMAIN orders[leg]
      /\ orders \in [Legs -> Seq(Order)] /\ Working(orders[leg][active])
  BY DEF CallInv, CallOK, InChase, HasLeg, BookOK, RungsInStep, CancelAccepted,
         mustCancelPrevious
<1> DEFINE o == [orders[leg][active] EXCEPT !.status =
                   IF CancelIsFinal THEN "dead" ELSE "cancelling"]
<1>2. orders[leg][active] \in Order
  BY <1>1
<1>3. Became(orders[leg][active], o)
      /\ o.status = (IF CancelIsFinal THEN "dead" ELSE "cancelling")
      /\ o.quantity = orders[leg][active].quantity /\ o.filled = orders[leg][active].filled
  BY <1>1, <1>2 DEF Became, Order
<1>4. Replaces(leg, active, o)
  BY <1>1 DEF CancelAccepted, Replaces
<1> HIDE DEF o
<1>5. SameOrders
  BY <1>1, <1>3, <1>4, ReplacedOrder
<1>6. orders'[leg][active] = o
  BY <1>1, <1>4 DEF Replaces
<1> QED BY <1>1, <1>2, <1>3, <1>5, <1>6

LEMMA PlacementsBook ==
  ASSUME CallInv, pc = "place", NEW answer \in {"id", "none", "lost"},
         orders' = [orders EXCEPT ![leg] = Append(@, NewOrder(answer))]
  PROVE  /\ OneMore(answer) /\ NewOrder(answer) \in Order
         /\ NewOrder(answer).quantity = qtyToClose
<1>1. HasLeg /\ BookOK /\ CallOK /\ leg \in Legs
  BY DEF CallInv, CallOK, InChase, HasLeg
<1>2. /\ BookOK'
      /\ NewOrder(answer) \in Order /\ NewOrder(answer).quantity = qtyToClose
      /\ \A k \in Legs : k # leg => orders'[k] = orders[k]
      /\ Len(orders'[leg]) = Len(orders[leg]) + 1
      /\ \A j \in DOMAIN orders[leg] : orders'[leg][j] = orders[leg][j]
      /\ orders'[leg][Len(orders[leg]) + 1] = NewOrder(answer)
  BY <1>1, OneOrderMore
<1>3. orders[leg] \in Seq(Order) /\ orders'[leg] \in Seq(Order)
  BY <1>1, <1>2 DEF BookOK
<1> QED BY <1>1, <1>2, <1>3 DEF OneMore

LEMMA StepsOfTheBook ==
  ASSUME CallInv, [Next]_vars
  PROVE  \/ SameOrders
         \/ PlaceAccepted /\ OneMore("id")
         \/ PlaceUnnamed /\ OneMore("none")
         \/ PlaceReplyLost /\ OneMore("lost")
<1>1. CASE PlaceAccepted
  BY <1>1, PlacementsBook DEF PlaceAccepted
<1>2. CASE PlaceUnnamed
  BY <1>2, PlacementsBook, SameBook DEF PlaceUnnamed
<1>3. CASE PlaceReplyLost
  BY <1>3, PlacementsBook DEF PlaceReplyLost
<1>4. CASE \E l \in Legs : \E i \in DOMAIN orders[l] : FillOrder(l, i) \/ EndOrder(l, i)
  BY <1>4, BrokersBook
<1>5. CASE \/ SkipLeg \/ BeginChase \/ ReportLeg \/ Return \/ Returned
           \/ NothingToCancel \/ CancelRefused \/ PlaceRejected
           \/ FillSeen \/ NoFillSeen \/ RequoteAnswered \/ UNCHANGED vars
  <2>1. UNCHANGED orders
    BY <1>5 DEF SkipLeg, BeginChase, ReportLeg, Return, Returned, NothingToCancel,
                CancelRefused, PlaceRejected, FillSeen, NoFillSeen, RequoteAnswered,
                Advance, goto, vars
  <2> QED BY <2>1, SameBook
<1> QED BY <1>1, <1>2, <1>3, <1>4, <1>5, CancelsBook DEF Next

-----------------------------------------------------------------------------
(* One order at a time.  A is a set of orders of each leg, which a chase at *)
(* at, on the leg l, with a active, may go on from.                         *)

OneAtMost(A, at, l, a) ==
  /\ \A k \in Legs : \A i, j \in A[k] : i = j
  /\ at = "place" => A[l] = {}
  /\ at \in {"cancel", "poll", "requote"} => A[l] \subseteq {a}

\* Orders only leave the set, but for one placed; a cancel takes the active one out.
LEMMA OneAtMostKept ==
  ASSUME CallInv, [Next]_vars, NEW A, NEW B,
         \A k \in Legs : A[k] \subseteq DOMAIN orders[k],
         OneAtMost(A, pc, leg, active),
         \/ \A k \in Legs : B[k] \subseteq A[k]
         \/ /\ PlaceAccepted \/ PlaceReplyLost
            /\ \A k \in Legs : k # leg => B[k] \subseteq A[k]
            /\ B[leg] \subseteq A[leg] \cup {Len(orders[leg]) + 1},
         CancelAccepted => active \notin B[leg]
  PROVE  OneAtMost(B, pc', leg', active')
<1>1. InChase => leg \in Legs /\ orders[leg] \in Seq(Order) /\ active \in Nat
  BY DEF CallInv, CallOK, HasLeg, BookOK
<1>2. CASE PlaceAccepted
  BY <1>1, <1>2 DEF OneAtMost, PlaceAccepted, OrWait, goto, InChase
<1>3. CASE PlaceReplyLost
  BY <1>1, <1>3 DEF OneAtMost, PlaceReplyLost, goto, InChase
<1> SUFFICES ASSUME ~PlaceAccepted, ~PlaceReplyLost
             PROVE  OneAtMost(B, pc', leg', active')
  BY <1>2, <1>3
<1>4. (\A k \in Legs : B[k] \subseteq A[k]) /\ \A k \in Legs : \A i, j \in B[k] : i = j
  BY DEF OneAtMost
<1>5. CASE PlaceUnnamed
  BY <1>1, <1>4, <1>5 DEF OneAtMost, PlaceUnnamed, OrWait, goto, InChase
<1>6. CASE NothingToCancel
  <2>1. leg \in Legs /\ orders[leg] \in Seq(Order) /\ Len(orders[leg]) <= moves /\ pc = "cancel"
        /\ moves \in Nat /\ pc' = "place"
    BY <1>1, <1>6 DEF NothingToCancel, CallInv, CallOK, RungsInStep, InChase, goto
  <2>2. active = 0 \/ Len(orders[leg]) = 0
    BY <1>6, <2>1 DEF NothingToCancel, mustCancelPrevious
  <2>3. active \notin DOMAIN orders[leg] \/ DOMAIN orders[leg] = {}
    BY <2>1, <2>2
  <2>4. A[leg] = {}
    BY <2>1, <2>3 DEF OneAtMost
  <2>5. leg' = leg
    BY <1>6 DEF NothingToCancel, goto
  <2> QED BY <1>4, <2>1, <2>4, <2>5 DEF OneAtMost
<1>7. CASE CancelAccepted
  BY <1>1, <1>4, <1>7 DEF OneAtMost, CancelAccepted, goto, InChase
<1>8. CASE BeginChase
  <2>1. leg \in Legs /\ orders[leg] = << >> /\ leg' = leg
    BY <1>8 DEF BeginChase, HasLeg, CallInv, RungsInStep, InChase
  <2> QED BY <1>4, <1>8, <2>1 DEF OneAtMost, BeginChase
<1>9. CASE NoFillSeen \/ RequoteAnswered
  BY <1>1, <1>4, <1>9 DEF OneAtMost, NoFillSeen, RequoteAnswered, Advance, goto, InChase, inHand
<1>10. CASE \/ SkipLeg \/ ReportLeg \/ Return \/ CancelRefused \/ PlaceRejected \/ FillSeen
  BY <1>4, <1>10 DEF OneAtMost, SkipLeg, ReportLeg, Return, CancelRefused, PlaceRejected,
    FillSeen, goto
<1>11. CASE UNCHANGED <<pc, leg, active>>
  BY <1>1, <1>4, <1>11 DEF OneAtMost, InChase
<1>12. CASE \/ \E l \in Legs : \E i \in DOMAIN orders[l] : FillOrder(l, i) \/ EndOrder(l, i)
            \/ Returned \/ UNCHANGED vars
  BY <1>11, <1>12 DEF FillOrder, EndOrder, Returned, vars, chase, inHand
<1> QED BY <1>5, <1>6, <1>7, <1>8, <1>9, <1>10, <1>12 DEF Next

-----------------------------------------------------------------------------
(* One rung works.  All it takes is a broker that has carried out a cancel  *)
(* when it accepts it.                                                      *)

Works(o) == Counted(o) /\ Working(o)

AtWork == [l \in Legs |-> {i \in DOMAIN orders[l] : Works(orders[l][i])}]

RungInv == CallInv /\ OneAtMost(AtWork, pc, leg, active)

LEMMA InitRungInv == Init => RungInv
<1> SUFFICES ASSUME Init PROVE RungInv
  OBVIOUS
<1>1. \A l \in Legs : AtWork[l] = {}
  BY DEF Init, AtWork
<1> QED BY <1>1, InitCallInv DEF RungInv, OneAtMost, Init

LEMMA NextRungInv ==
  ASSUME CancelIsFinal
  PROVE  RungInv /\ [Next]_vars => RungInv'
<1> SUFFICES ASSUME RungInv, [Next]_vars PROVE RungInv'
  OBVIOUS
<1>1. CallInv /\ CallInv'
  BY NextCallInv DEF RungInv
<1>2. \A k \in Legs : AtWork[k] \subseteq DOMAIN orders[k]
  BY DEF AtWork
<1>3. \/ \A k \in Legs : AtWork'[k] \subseteq AtWork[k]
      \/ /\ PlaceAccepted \/ PlaceReplyLost
         /\ \A k \in Legs : k # leg => AtWork'[k] \subseteq AtWork[k]
         /\ AtWork'[leg] \subseteq AtWork[leg] \cup {Len(orders[leg]) + 1}
  <2>1. CASE SameOrders
    BY <2>1 DEF SameOrders, AtWork, Works, Became, Counted
  <2>2. ASSUME NEW answer \in {"id", "lost"}, OneMore(answer)
        PROVE  /\ \A k \in Legs : k # leg => AtWork'[k] \subseteq AtWork[k]
               /\ AtWork'[leg] \subseteq AtWork[leg] \cup {Len(orders[leg]) + 1}
    BY <2>2 DEF OneMore, AtWork, HasLeg
  <2>3. CASE OneMore("none")
    <3>1. ~Works(NewOrder("none"))
      BY DEF Works, Counted, NewOrder
    <3> QED BY <2>3, <3>1 DEF OneMore, AtWork, HasLeg
  <2> QED BY <1>1, <2>1, <2>2, <2>3, StepsOfTheBook
<1>4. CancelAccepted => active \notin AtWork'[leg]
  BY <1>1, CancelsBook DEF AtWork, Works, Working
<1>5. OneAtMost(AtWork', pc', leg', active')
  BY <1>1, <1>2, <1>3, <1>4, OneAtMostKept DEF RungInv
<1> QED BY <1>1, <1>5 DEF RungInv, OneAtMost

\* Of the orders of a leg that were not answered without an id no two work at the
\* same time, although fills may be partial, replies lost and cancels and status
\* reads fail: a rung is placed only when the previous one is off the book
\* (runCloseTickChase's mustCancelPrevious).
THEOREM OneRungWorks ==
  ASSUME CancelIsFinal
  PROVE  Spec => []SingleWorkingClose
<1>1. RungInv /\ [Next]_vars => RungInv'
  BY NextRungInv
<1>2. RungInv => SingleWorkingClose
  <2> SUFFICES ASSUME RungInv, NEW l \in Legs,
                      NEW i \in DOMAIN orders[l], NEW j \in DOMAIN orders[l],
                      Works(orders[l][i]), Works(orders[l][j])
               PROVE  i = j
    BY DEF SingleWorkingClose, Works
  <2> QED BY DEF RungInv, OneAtMost, AtWork
<1> QED BY <1>1, <1>2, InitRungInv, PTL DEF Spec

-----------------------------------------------------------------------------
(* No double sell.  It takes fills of whole orders besides: a part that was *)
(* filled before the cancel is sold beside the next rung.                   *)

\* The order has sold, or still may.
Sells(o) == Counted(o) /\ (Working(o) \/ o.filled > 0)

Selling == [l \in Legs |-> {i \in DOMAIN orders[l] : Sells(orders[l][i])}]

WholeOrders ==
  \A l \in Legs : \A i \in DOMAIN orders[l] : orders[l][i].filled \in {0, orders[l][i].quantity}

\* One order of a leg sells, and while the chase goes on it is the active one;
\* when the chase places, none does.
OneSale == OneAtMost(Selling, pc, leg, active)

SellInv == CallInv /\ WholeOrders /\ OneSale

LEMMA InitSellInv == Init => SellInv
<1> SUFFICES ASSUME Init PROVE SellInv
  OBVIOUS
<1>1. \A l \in Legs : Selling[l] = {}
  BY DEF Init, Selling
<1> QED BY <1>1, InitCallInv DEF SellInv, WholeOrders, OneSale, OneAtMost, Init

LEMMA NextWholeOrders ==
  ASSUME ~PartialFills, CallInv, WholeOrders, [Next]_vars
  PROVE  WholeOrders'
<1>1. \A answer : NewOrder(answer).filled = 0
  BY DEF NewOrder
<1>2. CASE SameOrders
  BY <1>2 DEF SameOrders, WholeOrders, Became
<1>3. ASSUME NEW answer, OneMore(answer) PROVE WholeOrders'
  BY <1>1, <1>3 DEF OneMore, WholeOrders, HasLeg
<1> QED BY <1>2, <1>3, StepsOfTheBook

LEMMA NextSellInv ==
  ASSUME CancelIsFinal, ~PartialFills
  PROVE  SellInv /\ [Next]_vars => SellInv'
<1> SUFFICES ASSUME SellInv, [Next]_vars PROVE SellInv'
  OBVIOUS
<1>1. CallInv /\ CallInv' /\ WholeOrders /\ WholeOrders'
  BY NextCallInv, NextWholeOrders DEF SellInv
<1>2. \A k \in Legs : Selling[k] \subseteq DOMAIN orders[k]
  BY DEF Selling
<1>3. \/ \A k \in Legs : Selling'[k] \subseteq Selling[k]
      \/ /\ PlaceAccepted \/ PlaceReplyLost
         /\ \A k \in Legs : k # leg => Selling'[k] \subseteq Selling[k]
         /\ Selling'[leg] \subseteq Selling[leg] \cup {Len(orders[leg]) + 1}
  <2>1. CASE SameOrders
    BY <2>1 DEF SameOrders, Selling, Sells, Became, Counted
  <2>2. ASSUME NEW answer \in {"id", "lost"}, OneMore(answer)
        PROVE  /\ \A k \in Legs : k # leg => Selling'[k] \subseteq Selling[k]
               /\ Selling'[leg] \subseteq Selling[leg] \cup {Len(orders[leg]) + 1}
    BY <2>2 DEF OneMore, Selling, HasLeg
  <2>3. CASE OneMore("none")
    <3>1. ~Sells(NewOrder("none"))
      BY DEF Sells, Counted, NewOrder
    <3> QED BY <2>3, <3>1 DEF OneMore, Selling, HasLeg
  <2> QED BY <1>1, <2>1, <2>2, <2>3, StepsOfTheBook
<1>4. CancelAccepted => active \notin Selling'[leg]
  <2> SUFFICES ASSUME CancelAccepted PROVE active \notin Selling'[leg]
    OBVIOUS
  <2>1. /\ leg \in Legs /\ active \in DOMAIN orders[leg] /\ orders[leg][active] \in Order
        /\ orders'[leg][active].status = "dead"
        /\ orders'[leg][active].filled = orders[leg][active].filled
    BY <1>1, CancelsBook
  <2>2. orders[leg][active].filled = 0
    BY <1>1, <2>1 DEF WholeOrders, CancelAccepted, Working, Order
  <2> QED BY <2>1, <2>2 DEF Selling, Sells, Working
<1>5. OneAtMost(Selling', pc', leg', active')
  BY <1>1, <1>2, <1>3, <1>4, OneAtMostKept DEF SellInv, OneSale
<1> QED BY <1>1, <1>5 DEF SellInv, OneSale, OneAtMost

-----------------------------------------------------------------------------
(* The budget.  Here every placement must be answered too: what is left of  *)
(* it when a leg was sold by an order whose answer was lost is too much.    *)

Answered == CancelIsFinal /\ ~PartialFills /\ ~LostReplies

\* What a leg was asked for, the same at each of its rungs.
Asked == [l \in Legs |-> IF orders[l] = << >> THEN 0 ELSE orders[l][1].quantity]

SameSize ==
  /\ \A l \in Legs : \A i \in DOMAIN orders[l] : orders[l][i].quantity = Asked[l]
  /\ InChase /\ orders[leg] # << >> => Asked[leg] = qtyToClose
  /\ InChase /\ ~response => orders[leg] = << >>

\* remainingToClose is what the legs before left of the budget.
WithinBudget == SumOf(Asked, 1..(leg - 1)) + remaining <= MaxToClose

SaleInv == SellInv /\ SameSize /\ WithinBudget

LEMMA AskedIsNat ==
  ASSUME BookOK
  PROVE  Asked \in [Legs -> Nat]
<1> SUFFICES ASSUME NEW l \in Legs, orders[l] # << >>
             PROVE  orders[l][1].quantity \in Nat
  BY DEF Asked
<1>1. orders[l] \in Seq(Order) /\ 1 \in DOMAIN orders[l]
  BY DEF BookOK
<1>2. orders[l][1] \in Order
  BY <1>1
<1> QED BY <1>2 DEF Order

\* The legs before the current one.
LEMMA LegsBefore ==
  ASSUME CallOK
  PROVE  /\ IsFiniteSet(1..(leg - 1)) /\ 1..(leg - 1) \subseteq Legs
         /\ leg \in Nat /\ leg \notin 1..(leg - 1)
         /\ (1..(leg - 1)) \cup {leg} = 1..leg /\ 1..((leg + 1) - 1) = 1..leg
<1>1. leg \in Nat /\ leg >= 1 /\ leg <= Len(Held) + 1 /\ Len(Held) \in Nat
  BY LegFacts DEF CallOK
<1>2. IsFiniteSet(1..(leg - 1))
  BY <1>1, FS_Interval
<1>3. 1..(leg - 1) \subseteq Legs
  BY <1>1, LegFacts
<1> QED BY <1>1, <1>2, <1>3

LEMMA InitSaleInv == Init => SaleInv
<1> SUFFICES ASSUME Init PROVE SaleInv
  OBVIOUS
<1>1. SameSize
  BY DEF Init, SameSize, InChase
<1>2. SumOf(Asked, 1..(leg - 1)) = 0
  <2>1. 1..(leg - 1) = {}
    BY DEF Init
  <2> QED BY <2>1, SumEmpty
<1>3. WithinBudget
  BY <1>2, Sizes DEF Init, WithinBudget
<1> QED BY <1>1, <1>3, InitSellInv DEF SaleInv

\* An order that changes asks for what it did.
LEMMA AskedStays ==
  ASSUME CallInv, CallInv', SameOrders
  PROVE  /\ Asked' = Asked
         /\ \A k \in Legs : orders'[k] = << >> <=> orders[k] = << >>
         /\ \A k \in Legs : \A i \in DOMAIN orders'[k] :
              i \in DOMAIN orders[k] /\ orders'[k][i].quantity = orders[k][i].quantity
<1>1. \A k \in Legs : orders[k] \in Seq(Order) /\ orders'[k] \in Seq(Order)
                      /\ DOMAIN orders'[k] = DOMAIN orders[k]
  BY DEF CallInv, BookOK, SameOrders
<1>2. \A k \in Legs : /\ orders'[k] = << >> <=> orders[k] = << >>
                      /\ orders[k] # << >> => 1 \in DOMAIN orders[k]
  BY <1>1
<1>3. \A k \in Legs : \A i \in DOMAIN orders[k] :
        orders'[k][i].quantity = orders[k][i].quantity
  BY DEF SameOrders, Became
<1> QED BY <1>1, <1>2, <1>3 DEF Asked

LEMMA PlacingKeepsSize ==
  ASSUME SameSize, CallInv, CallInv', NEW answer \in {"id", "none", "lost"}, OneMore(answer),
         response', UNCHANGED <<leg, remaining>>
  PROVE  /\ SameSize'
         /\ leg \in Legs /\ \A k \in Legs : k # leg => Asked'[k] = Asked[k]
<1>1. leg \in Legs /\ InChase /\ HasLeg /\ orders[leg] \in Seq(Order)
      /\ orders'[leg] \in Seq(Order) /\ orders'[leg] # << >> /\ CallOK
  BY DEF OneMore, HasLeg, InChase, CallInv, BookOK
<1>2. NewOrder(answer).quantity = qtyToClose /\ qtyToClose' = qtyToClose
  BY DEF NewOrder, qtyToClose
<1>3. \A k \in Legs : k # leg => Asked'[k] = Asked[k]
  BY DEF OneMore, Asked
<1>4. Asked'[leg] = qtyToClose
  <2>1. CASE orders[leg] = << >>
    BY <1>1, <1>2, <2>1 DEF OneMore, Asked
  <2>2. CASE orders[leg] # << >>
    <3>1. 1 \in DOMAIN orders[leg] /\ Asked[leg] = qtyToClose
      BY <1>1, <2>2 DEF SameSize
    <3> QED BY <1>1, <2>2, <3>1 DEF OneMore, Asked
  <2> QED BY <2>1, <2>2
<1>5. \A i \in DOMAIN orders'[leg] : orders'[leg][i].quantity = qtyToClose
  <2>1. \A i \in DOMAIN orders[leg] : orders[leg][i].quantity = qtyToClose
    BY <1>1 DEF SameSize
  <2>2. \A i \in DOMAIN orders'[leg] : i \in DOMAIN orders[leg] \/ i = Len(orders[leg]) + 1
    BY DEF OneMore
  <2> QED BY <1>2, <2>1, <2>2 DEF OneMore
<1>6. \A l \in Legs : \A i \in DOMAIN orders'[l] : orders'[l][i].quantity = Asked'[l]
  <2>1. ASSUME NEW l \in Legs, l # leg, NEW i \in DOMAIN orders'[l]
        PROVE  orders'[l][i].quantity = Asked'[l]
    BY <1>3, <2>1 DEF OneMore, SameSize
  <2> QED BY <1>4, <1>5, <2>1
<1> QED BY <1>1, <1>2, <1>3, <1>4, <1>6 DEF SameSize

LEMMA NextSameSize ==
  ASSUME ~LostReplies, SameSize, CallInv, CallInv', [Next]_vars
  PROVE  SameSize'
<1>1. CASE PlaceAccepted \/ PlaceUnnamed
  <2>1. response' /\ UNCHANGED <<leg, remaining>> /\ pc = "place" /\ pc' \in {"poll", "report"}
    BY <1>1 DEF PlaceAccepted, PlaceUnnamed, OrWait, goto
  <2>2. CASE \E answer \in {"id", "none", "lost"} : OneMore(answer)
    BY <2>1, <2>2, PlacingKeepsSize
  <2>3. CASE SameOrders
    <3>1. qtyToClose' = qtyToClose
      BY <2>1 DEF qtyToClose
    <3>2. leg \in Legs
      BY <2>1 DEF CallInv, CallOK, InChase, HasLeg
    <3> QED BY <2>1, <2>3, <3>1, <3>2, AskedStays DEF SameSize, InChase
  <2> QED BY <2>2, <2>3, StepsOfTheBook
<1> SUFFICES ASSUME ~PlaceAccepted, ~PlaceUnnamed PROVE SameSize'
  BY <1>1
<1>2. SameOrders
  BY StepsOfTheBook DEF PlaceReplyLost
<1>3. \A l \in Legs : \A i \in DOMAIN orders'[l] : orders'[l][i].quantity = Asked'[l]
  BY <1>2, AskedStays DEF SameSize
<1>4. CASE ~InChase'
  BY <1>3, <1>4 DEF SameSize
<1>5. CASE BeginChase
  <2>1. leg' = leg /\ leg \in Legs /\ orders[leg] = << >>
    BY <1>5 DEF BeginChase, HasLeg, CallInv, RungsInStep, InChase
  <2>2. orders'[leg] = << >>
    BY <1>2, <2>1, AskedStays
  <2> QED BY <1>3, <2>1, <2>2 DEF SameSize
<1>6. CASE InChase /\ InChase' /\ UNCHANGED <<leg, remaining, response>>
  <2>1. qtyToClose' = qtyToClose
    BY <1>6 DEF qtyToClose
  <2>2. leg \in Legs
    BY <1>6 DEF CallInv, CallOK, HasLeg
  <2> QED BY <1>2, <1>3, <1>6, <2>1, <2>2, AskedStays DEF SameSize
<1>7. CASE SkipLeg \/ ReportLeg \/ Return
  BY <1>4, <1>7 DEF SkipLeg, ReportLeg, Return, InChase
<1>8. CASE \/ NothingToCancel \/ CancelAccepted \/ CancelRefused \/ PlaceRejected
           \/ FillSeen \/ NoFillSeen \/ RequoteAnswered
  BY <1>6, <1>8 DEF NothingToCancel, CancelAccepted, CancelRefused, PlaceRejected, FillSeen,
    NoFillSeen, RequoteAnswered, Advance, goto, InChase, inHand
<1>9. CASE \/ \E l \in Legs : \E i \in DOMAIN orders[l] : FillOrder(l, i) \/ EndOrder(l, i)
           \/ Returned \/ UNCHANGED vars
  <2>1. UNCHANGED <<pc, leg, remaining, response>>
    BY <1>9 DEF FillOrder, EndOrder, Returned, vars, chase, inHand
  <2> QED BY <1>4, <1>6, <2>1 DEF InChase
<1> QED BY <1>5, <1>7, <1>8, <1>9 DEF Next, PlaceReplyLost

\* The budget after a leg: what was asked of it is no more than what it used up.
LEMMA LegKeepsBudget ==
  ASSUME WithinBudget, CallInv, SameOrders, CallInv', leg' = leg + 1, leg \in Legs,
         remaining' \in Nat, remaining' + Asked[leg] <= remaining
  PROVE  WithinBudget'
<1>1. Asked \in [Legs -> Nat] /\ CallOK /\ remaining \in Nat /\ Asked' = Asked
  BY AskedIsNat, AskedStays DEF CallInv, CallOK
<1>2. SumOf(Asked, 1..leg) = SumOf(Asked, 1..(leg - 1)) + Asked[leg]
  <2>1. \A k \in (1..(leg - 1)) \cup {leg} : Asked[k] \in Int
    BY <1>1, LegsBefore
  <2> QED BY <1>1, <2>1, LegsBefore, SumAdd
<1>3. SumOf(Asked, 1..(leg - 1)) \in Int /\ Asked[leg] \in Int
  <2>1. IsFiniteSet(1..(leg - 1)) /\ \A k \in 1..(leg - 1) : Asked[k] \in Int
    <3>1. IsFiniteSet(1..(leg - 1)) /\ 1..(leg - 1) \subseteq Legs
      BY <1>1, LegsBefore
    <3>2. \A k \in Legs : Asked[k] \in Int
      BY <1>1
    <3> QED BY <3>1, <3>2
  <2>2. SumOf(Asked, 1..(leg - 1)) \in Int
    BY <2>1, SumRemove
  <2> QED BY <1>1, <2>2
<1>4. 1..(leg' - 1) = 1..leg
  BY <1>1, LegsBefore
<1>5. SumOf(Asked', 1..(leg' - 1)) = SumOf(Asked, 1..(leg - 1)) + Asked[leg]
  BY <1>1, <1>2, <1>4
<1>6. SumOf(Asked, 1..(leg - 1)) + remaining <= MaxToClose
  BY DEF WithinBudget
<1>7. SumOf(Asked', 1..(leg' - 1)) + remaining' <= MaxToClose
  BY <1>1, <1>3, <1>5, <1>6, Sizes
<1> QED BY <1>7 DEF WithinBudget

LEMMA NextWithinBudget ==
  ASSUME Answered, SaleInv, CallInv', SameSize', [Next]_vars
  PROVE  WithinBudget'
<1>1. CallInv /\ CallOK /\ BookOK /\ WithinBudget /\ SameSize
  BY DEF SaleInv, SellInv, CallInv
<1>2. CASE SkipLeg
  <2>1. leg \in Legs /\ leg' = leg + 1 /\ remaining' = remaining /\ SameOrders /\ remaining \in Nat
    BY <1>1, <1>2, SameBook DEF SkipLeg, HasLeg, CallOK
  <2>2. Asked[leg] = 0
    BY <1>1, <1>2, <2>1 DEF SkipLeg, CallInv, RungsInStep, InChase, Asked
  <2> QED BY <1>1, <2>1, <2>2, LegKeepsBudget
<1>3. CASE ReportLeg
  <2>1. leg \in Legs /\ HasLeg /\ InChase /\ leg' = leg + 1 /\ SameOrders
        /\ remaining' = IF response THEN remaining - qtyToClose ELSE remaining
    BY <1>1, <1>3, SameBook DEF ReportLeg, CallOK, HasLeg, InChase
  <2>2. qtyToClose \in Nat /\ qtyToClose <= remaining /\ remaining \in Nat
    BY <1>1, <2>1, QtyFacts DEF CallOK
  <2>3. Asked[leg] <= IF response THEN qtyToClose ELSE 0
    <3>1. CASE orders[leg] = << >>
      BY <2>1, <2>2, <3>1 DEF Asked
    <3>2. CASE orders[leg] # << >>
      BY <1>1, <2>1, <2>2, <3>2 DEF SameSize
    <3> QED BY <3>1, <3>2
  <2>4. Asked[leg] \in Nat
    BY <1>1, <2>1, AskedIsNat
  <2>5. remaining' \in Nat /\ remaining' + Asked[leg] <= remaining
    BY <2>1, <2>2, <2>3, <2>4
  <2> QED BY <1>1, <2>1, <2>5, LegKeepsBudget
<1> SUFFICES ASSUME ~SkipLeg, ~ReportLeg PROVE WithinBudget'
  BY <1>2, <1>3
<1>4. UNCHANGED <<leg, remaining>>
  BY DEF Next, BeginChase, Return, Returned, NothingToCancel, CancelAccepted, CancelRefused,
    PlaceAccepted, PlaceUnnamed, PlaceRejected, PlaceReplyLost, FillSeen, NoFillSeen,
    RequoteAnswered, FillOrder, EndOrder, OrWait, goto, Advance, vars, chase
<1>5. \A k \in 1..(leg - 1) : Asked'[k] = Asked[k]
  <2>1. CASE SameOrders
    BY <1>1, <2>1, AskedStays
  <2>2. ASSUME NEW answer, OneMore(answer)
        PROVE  \A k \in Legs : k # leg => Asked'[k] = Asked[k]
    BY <2>2 DEF OneMore, Asked
  <2> QED BY <1>1, <2>1, <2>2, StepsOfTheBook, LegsBefore
<1>6. SumOf(Asked', 1..(leg - 1)) = SumOf(Asked, 1..(leg - 1))
  BY <1>1, <1>5, LegsBefore, SumEqual
<1> QED BY <1>1, <1>4, <1>6 DEF WithinBudget

LEMMA NextSaleInv ==
  ASSUME Answered
  PROVE  SaleInv /\ [Next]_vars => SaleInv'
<1> SUFFICES ASSUME SaleInv, [Next]_vars PROVE SaleInv'
  OBVIOUS
<1>1. SellInv /\ SellInv' /\ CallInv /\ CallInv'
  BY NextSellInv, NextCallInv DEF SaleInv, SellInv, Answered
<1>2. SameSize'
  BY <1>1, NextSameSize DEF SaleInv, Answered
<1> QED BY <1>1, <1>2, NextWithinBudget DEF SaleInv

-----------------------------------------------------------------------------
(* What is exposed of a leg is the sum over its orders. *)

Offered(o) ==
  IF ~Counted(o) THEN 0 ELSE IF Working(o) THEN o.quantity ELSE o.filled

Offers(l) == [i \in DOMAIN orders[l] |-> Offered(orders[l][i])]

LEMMA ExposedIsSum ==
  ASSUME NEW l, IsFiniteSet(DOMAIN orders[l])
  PROVE  Exposed(l) = SumOf(Offers(l), DOMAIN orders[l])
<1> DEFINE S == DOMAIN orders[l]
           P(g) == g = [s \in SUBSET S |->
                         IF s = {} THEN 0
                         ELSE (LET x == CHOOSE x \in s : TRUE
                               IN  (IF ~Counted(orders[l][x]) THEN 0
                                    ELSE IF Working(orders[l][x])
                                         THEN orders[l][x].quantity
                                         ELSE orders[l][x].filled) + g[s \ {x}])]
<1>1. \A s \in SUBSET S : s # {} =>
        Offers(l)[Pick(s)] = IF ~Counted(orders[l][Pick(s)]) THEN 0
                             ELSE IF Working(orders[l][Pick(s)])
                                  THEN orders[l][Pick(s)].quantity
                                  ELSE orders[l][Pick(s)].filled
  BY PickIsMember DEF Offers, Offered
<1>2. \A g : P(g) <=> IsSum(g, Offers(l), S)
  BY <1>1 DEF IsSum, Pick
<1>3. \E g : IsSum(g, Offers(l), S)
  BY SumExists
<1>4. IsSum(CHOOSE h : P(h), Offers(l), S)
  <2> HIDE DEF P
  <2>1. P(CHOOSE h : P(h))
    BY <1>2, <1>3
  <2> QED BY <1>2, <2>1
<1>5. (CHOOSE h : P(h))[S] = SumOf(Offers(l), S)
  <2> HIDE DEF P
  <2> QED BY <1>4, SumIsSum
<1> QED BY <1>5 DEF Exposed, Count, MapThenSumSet, MapThenFoldSet

LEMMA TotalIsSum ==
  MapThenSumSet(Exposed, Legs) = SumOf([l \in Legs |-> Exposed(l)], Legs)
<1> DEFINE e == [l \in Legs |-> Exposed(l)]
           P(g) == g = [s \in SUBSET Legs |->
                         IF s = {} THEN 0
                         ELSE (LET x == CHOOSE x \in s : TRUE
                               IN  Exposed(x) + g[s \ {x}])]
<1>1. \A s \in SUBSET Legs : s # {} => e[Pick(s)] = Exposed(Pick(s))
  BY PickIsMember
<1>2. \A g : P(g) <=> IsSum(g, e, Legs)
  <2> HIDE DEF e
  <2> QED BY <1>1 DEF IsSum, Pick
<1>3. \E g : IsSum(g, e, Legs)
  BY SumExists, LegFacts
<1>4. IsSum(CHOOSE h : P(h), e, Legs)
  <2> HIDE DEF P, e
  <2>1. P(CHOOSE h : P(h))
    BY <1>2, <1>3
  <2> QED BY <1>2, <2>1
<1>5. (CHOOSE h : P(h))[Legs] = SumOf(e, Legs)
  <2> HIDE DEF P, e
  <2> QED BY <1>4, SumIsSum, LegFacts
<1> QED BY <1>5 DEF MapThenSumSet, MapThenFoldSet

\* One order at most sells, so what is exposed is no more than any bound of each.
LEMMA ExposedIsBounded ==
  ASSUME SellInv, NEW l \in Legs, NEW bound \in Nat,
         \A i \in DOMAIN orders[l] : orders[l][i].quantity <= bound
  PROVE  Exposed(l) \in Nat /\ Exposed(l) <= bound
<1>1. orders[l] \in Seq(Order)
      /\ \A i \in DOMAIN orders[l] : /\ orders[l][i] \in Order
                                     /\ orders[l][i].filled <= orders[l][i].quantity
  BY DEF SellInv, CallInv, BookOK
<1> DEFINE S == DOMAIN orders[l]
<1>2. IsFiniteSet(S)
  <2>1. S = 1..Len(orders[l]) /\ Len(orders[l]) \in Nat
    BY <1>1
  <2> QED BY <2>1, FS_Interval
<1>3. \A i \in S : Offers(l)[i] \in Nat /\ Offers(l)[i] <= bound
  BY <1>1 DEF Offers, Offered, Order
<1>4. \A i \in S : Offers(l)[i] > 0 => Sells(orders[l][i])
  BY <1>1 DEF Offers, Offered, Sells
<1>5. \A i, j \in S : Offers(l)[i] > 0 /\ Offers(l)[j] > 0 => i = j
  BY <1>4 DEF SellInv, OneSale, OneAtMost, Selling
<1>6. SumOf(Offers(l), S) \in Nat /\ SumOf(Offers(l), S) <= bound
  <2> HIDE DEF S
  <2>1. SumOf(Offers(l), S) \in Nat
    BY <1>2, <1>3, SumNat
  <2>2. SumOf(Offers(l), S) <= bound
    BY <1>1, <1>2, <1>3, <1>5, SumSingle
  <2> QED BY <2>1, <2>2
<1> QED BY <1>2, <1>6, ExposedIsSum

LEMMA ExposedIsAsked ==
  ASSUME SaleInv, NEW l \in Legs
  PROVE  Exposed(l) \in Nat /\ Exposed(l) <= Asked[l] /\ Asked[l] \in Nat
<1>1. Asked[l] \in Nat /\ \A i \in DOMAIN orders[l] : orders[l][i].quantity = Asked[l]
  BY AskedIsNat DEF SaleInv, SellInv, CallInv, SameSize
<1>2. \A i \in DOMAIN orders[l] : orders[l][i].quantity <= Asked[l]
  BY <1>1
<1> QED BY <1>1, <1>2, ExposedIsBounded DEF SaleInv

\* The legs before the current one, and what that one asks for, are within the
\* budget; the legs after it have not been asked for anything.
LEMMA AskedWithinBudget ==
  ASSUME SaleInv
  PROVE  Asked \in [Legs -> Nat] /\ SumOf(Asked, Legs) \in Int
           /\ SumOf(Asked, Legs) <= MaxToClose
<1> DEFINE Before == 1..(leg - 1)
<1>2. BookOK /\ CallOK /\ Asked \in [Legs -> Nat]
  BY AskedIsNat DEF SaleInv, SellInv, CallInv
<1>4. SumOf(Asked, Legs) <= SumOf(Asked, Before) + remaining
  <2> DEFINE cut == [l \in Legs |-> IF l \in Before THEN Asked[l] ELSE 0]
             R == Legs \ Before
  <2>1. /\ Legs = Before \cup R /\ Before \cap R = {} /\ IsFiniteSet(Before)
    BY <1>2, LegsBefore
  <2>2. \A l \in R : Asked[l] <= remaining /\ (Asked[l] > 0 => l = leg)
    <3> SUFFICES ASSUME NEW l \in R
                 PROVE  Asked[l] <= remaining /\ (Asked[l] > 0 => l = leg)
      OBVIOUS
    <3>1. l \in Legs /\ l >= leg /\ remaining \in Nat
      BY <1>2, LegFacts, LegsBefore DEF CallOK
    <3>2. Asked[l] = IF orders[l] = << >> THEN 0 ELSE orders[l][1].quantity
      BY <3>1 DEF Asked
    <3>3. leg \in Nat
      BY <1>2, LegFacts DEF CallOK
    <3>4. l \in Nat
      BY LegFacts
    <3>5. CASE l > leg \/ ~InChase
      <4>1. l > leg \/ (l = leg /\ ~InChase)
        BY <3>1, <3>3, <3>4, <3>5
      <4>2. orders[l] = << >>
        BY <3>1, <4>1 DEF SaleInv, SellInv, CallInv, RungsInStep
      <4> QED BY <3>1, <3>2, <4>2
    <3>6. CASE l = leg /\ InChase
      <4>1. HasLeg
        BY <1>2, <3>6 DEF CallOK
      <4>2. qtyToClose <= remaining /\ qtyToClose \in Nat
        BY <1>2, <4>1, QtyFacts
      <4>3. orders[l] # << >> => Asked[l] = qtyToClose
        BY <3>1, <3>6 DEF SaleInv, SameSize
      <4>4. Asked[l] <= remaining
        BY <3>1, <3>2, <4>2, <4>3
      <4> QED BY <3>6, <4>4
    <3> QED BY <3>1, <3>3, <3>4, <3>5, <3>6
  <2>3. SumOf(Asked, R) <= remaining
    <3>1. IsFiniteSet(R) /\ \A l \in R : Asked[l] \in Nat
      BY <1>2, LegFacts, FS_Subset
    <3>2. remaining \in Nat
      BY <1>2 DEF CallOK
    <3> HIDE DEF R
    <3> QED BY <2>2, <3>1, <3>2, SumSingle
  <2>4. SumOf(Asked, Legs) = SumOf(Asked, Before) + SumOf(Asked, R)
    <3>1. \A l \in Before \cup R : Asked[l] \in Int
      BY <1>2, <2>1
    <3>2. IsFiniteSet(R)
      BY LegFacts, FS_Subset
    <3> HIDE DEF Before, R
    <3> QED BY <2>1, <3>1, <3>2, SumUnion
  <2>5. SumOf(Asked, Before) \in Int /\ SumOf(Asked, R) \in Int /\ remaining \in Int
    <3>1. /\ IsFiniteSet(R) /\ \A l \in R : Asked[l] \in Int
          /\ \A l \in Before : Asked[l] \in Int
      BY <1>2, <2>1, LegFacts, FS_Subset
    <3>2. remaining \in Int
      BY <1>2 DEF CallOK
    <3> HIDE DEF Before, R
    <3> QED BY <2>1, <3>1, <3>2, SumRemove
  <2> HIDE DEF Before, R
  <2> QED BY <2>3, <2>4, <2>5
<1>5. SumOf(Asked, Legs) \in Int /\ SumOf(Asked, Before) \in Int /\ remaining \in Int
  <2>1. (\A l \in Legs : Asked[l] \in Int) /\ IsFiniteSet(Before)
        /\ (\A l \in Before : Asked[l] \in Int) /\ remaining \in Int
    BY <1>2, LegsBefore DEF CallOK
  <2> HIDE DEF Before
  <2> QED BY <2>1, LegFacts, SumRemove
<1>6. SumOf(Asked, Before) + remaining <= MaxToClose
  BY DEF SaleInv, WithinBudget
<1> HIDE DEF Before
<1> QED BY <1>2, <1>4, <1>5, <1>6, Sizes

LEMMA SellInvProtects == SellInv => NeverDoubleSells
<1> SUFFICES ASSUME SellInv, NEW l \in Legs PROVE Exposed(l) <= Held[l]
  BY DEF NeverDoubleSells
<1>1. Held[l] \in Nat /\ \A i \in DOMAIN orders[l] : orders[l][i].quantity <= Held[l]
  BY LegFacts DEF SellInv, CallInv, BookOK
<1> QED BY <1>1, ExposedIsBounded

LEMMA SaleInvProtects == SaleInv => BudgetKept
<1> SUFFICES ASSUME SaleInv PROVE BudgetKept
  OBVIOUS
<1> DEFINE e == [l \in Legs |-> Exposed(l)]
<1>1. Asked \in [Legs -> Nat] /\ \A l \in Legs : e[l] \in Nat /\ e[l] <= Asked[l]
  BY ExposedIsAsked, AskedIsNat DEF SaleInv, SellInv, CallInv
<1>2. SumOf(e, Legs) <= SumOf(Asked, Legs) /\ SumOf(e, Legs) \in Int
  <2>1. \A l \in Legs : e[l] \in Int /\ Asked[l] \in Int /\ e[l] <= Asked[l]
    BY <1>1
  <2> HIDE DEF e
  <2> QED BY <2>1, LegFacts, SumMonotone, SumRemove
<1>3. SumOf(e, Legs) <= MaxToClose
  <2> HIDE DEF e
  <2> QED BY <1>2, AskedWithinBudget, Sizes
<1> QED BY <1>3, TotalIsSum DEF BudgetKept

\* Where an accepted cancel has taken the order off the book and fills are whole,
\* what a leg has sold and what its orders still offer is never more than the
\* account holds of it, in all the orders that were not answered without an id:
\* however fills, refused cancels, lost replies, expiries, failing status reads and
\* answers without an id interleave with the chase (runCloseTickChase).
THEOREM NothingIsSoldTwice ==
  ASSUME CancelIsFinal, ~PartialFills
  PROVE  Spec => []NeverDoubleSells
<1>1. SellInv /\ [Next]_vars => SellInv'
  BY NextSellInv
<1> QED BY <1>1, InitSellInv, SellInvProtects, PTL DEF Spec

\* If no reply is lost either, the legs together never sell and offer more than
\* maxQuantityToClose in those orders, whichever legs are skipped or refused and
\* although a leg whose last answer named no order counts as closed (closePosition).
THEOREM CloseStaysPartial ==
  ASSUME CancelIsFinal, ~PartialFills, ~LostReplies
  PROVE  Spec => []BudgetKept
<1>1. Answered
  BY DEF Answered
<1>2. SaleInv /\ [Next]_vars => SaleInv'
  BY <1>1, NextSaleInv
<1> QED BY <1>2, InitSaleInv, SaleInvProtects, PTL DEF Spec

-----------------------------------------------------------------------------
(* The close implements the abstract sale.  What a leg offers and what it   *)
(* has sold are sums over its orders, to which one order at most adds.      *)

StillOffers(book) ==
  [i \in DOMAIN book |->
     IF Counted(book[i]) /\ Working(book[i]) THEN book[i].quantity - book[i].filled ELSE 0]
Taken(book) == [i \in DOMAIN book |-> IF Counted(book[i]) THEN book[i].filled ELSE 0]

LEMMA OnOfferIsSum ==
  ASSUME NEW book, IsFiniteSet(DOMAIN book)
  PROVE  OnOffer(book) = SumOf(StillOffers(book), DOMAIN book)
<1> DEFINE S == DOMAIN book
           P(g) == g = [s \in SUBSET S |->
                         IF s = {} THEN 0
                         ELSE (LET x == CHOOSE x \in s : TRUE
                               IN  (IF Counted(book[x]) /\ Working(book[x])
                                    THEN book[x].quantity - book[x].filled
                                    ELSE 0) + g[s \ {x}])]
<1>1. \A s \in SUBSET S : s # {} =>
        StillOffers(book)[Pick(s)] = IF Counted(book[Pick(s)]) /\ Working(book[Pick(s)])
                              THEN book[Pick(s)].quantity - book[Pick(s)].filled ELSE 0
  BY PickIsMember DEF StillOffers
<1>2. \A g : P(g) <=> IsSum(g, StillOffers(book), S)
  BY <1>1 DEF IsSum, Pick
<1>3. \E g : IsSum(g, StillOffers(book), S)
  BY SumExists
<1>4. IsSum(CHOOSE h : P(h), StillOffers(book), S)
  <2> HIDE DEF P
  <2>1. P(CHOOSE h : P(h))
    BY <1>2, <1>3
  <2> QED BY <1>2, <2>1
<1>5. (CHOOSE h : P(h))[S] = SumOf(StillOffers(book), S)
  <2> HIDE DEF P
  <2> QED BY <1>4, SumIsSum
<1> QED BY <1>5 DEF OnOffer, MapThenSumSet, MapThenFoldSet

LEMMA SoldByIsSum ==
  ASSUME NEW book, IsFiniteSet(DOMAIN book)
  PROVE  SoldBy(book) = SumOf(Taken(book), DOMAIN book)
<1> DEFINE S == DOMAIN book
           P(g) == g = [s \in SUBSET S |->
                         IF s = {} THEN 0
                         ELSE (LET x == CHOOSE x \in s : TRUE
                               IN  (IF Counted(book[x]) THEN book[x].filled ELSE 0)
                                     + g[s \ {x}])]
<1>1. \A s \in SUBSET S : s # {} => 
        Taken(book)[Pick(s)] = IF Counted(book[Pick(s)]) THEN book[Pick(s)].filled ELSE 0
  BY PickIsMember DEF Taken
<1>2. \A g : P(g) <=> IsSum(g, Taken(book), S)
  BY <1>1 DEF IsSum, Pick
<1>3. \E g : IsSum(g, Taken(book), S)
  BY SumExists
<1>4. IsSum(CHOOSE h : P(h), Taken(book), S)
  <2> HIDE DEF P
  <2>1. P(CHOOSE h : P(h))
    BY <1>2, <1>3
  <2> QED BY <1>2, <2>1
<1>5. (CHOOSE h : P(h))[S] = SumOf(Taken(book), S)
  <2> HIDE DEF P
  <2> QED BY <1>4, SumIsSum
<1> QED BY <1>5 DEF SoldBy, MapThenSumSet, MapThenFoldSet

\* A sum to which only one element contributes, or none.
LEMMA SumAlone ==
  ASSUME NEW S, IsFiniteSet(S), NEW e, \A x \in S : e[x] \in Nat
  PROVE  /\ (\A x \in S : e[x] = 0) => SumOf(e, S) = 0
         /\ \A y \in S : (\A x \in S : x # y => e[x] = 0) => SumOf(e, S) = e[y]
<1>1. ASSUME NEW T \in SUBSET S, \A x \in T : e[x] = 0
      PROVE  SumOf(e, T) = 0
  <2>1. IsFiniteSet(T) /\ \A x \in T : e[x] \in Nat /\ e[x] <= 0
    BY <1>1, FS_Subset
  <2>2. \A x, y \in T : e[x] > 0 /\ e[y] > 0 => x = y
    BY <1>1
  <2>3. SumOf(e, T) \in Nat
    BY <2>1, SumNat
  <2>4. SumOf(e, T) <= 0
    BY <2>1, <2>2, SumSingle
  <2> QED BY <2>3, <2>4
<1>2. ASSUME NEW y \in S, \A x \in S : x # y => e[x] = 0
      PROVE  SumOf(e, S) = e[y]
  <2>1. SumOf(e, S) = e[y] + SumOf(e, S \ {y})
    BY SumRemove
  <2>2. SumOf(e, S \ {y}) = 0
    <3>1. S \ {y} \in SUBSET S /\ \A x \in S \ {y} : e[x] = 0
      BY <1>2
    <3> QED BY <1>1, <3>1
  <2> QED BY <2>1, <2>2
<1> QED BY <1>1, <1>2

\* A book with one sale at most, filled whole: the quantity of its order is on
\* offer or sold, and both are zero where none counts.
OnceSold(book) ==
  /\ book \in Seq(Order)
  /\ \A i \in DOMAIN book : book[i].filled \in {0, book[i].quantity}
  /\ \A i, j \in DOMAIN book : Sells(book[i]) /\ Sells(book[j]) => i = j

LEMMA OnceSoldCounts ==
  ASSUME NEW book, OnceSold(book)
  PROVE  /\ \A i \in DOMAIN book : Works(book[i]) =>
              OnOffer(book) = book[i].quantity /\ SoldBy(book) = 0
         /\ \A i \in DOMAIN book : Counted(book[i]) /\ book[i].filled > 0 =>
              OnOffer(book) = 0 /\ SoldBy(book) = book[i].quantity
         /\ (\A i \in DOMAIN book : ~Sells(book[i])) => OnOffer(book) = 0 /\ SoldBy(book) = 0
<1> DEFINE S == DOMAIN book
           L == StillOffers(book)
           T == Taken(book)
<1>1. /\ S = 1..Len(book) /\ Len(book) \in Nat
      /\ \A i \in S : /\ book[i].quantity \in Nat \ {0} /\ book[i].filled \in Nat
                      /\ book[i].filled \in {0, book[i].quantity}
  <2>1. \A i \in S : book[i] \in Order
    BY DEF OnceSold
  <2> QED BY <2>1 DEF OnceSold, Order
<1>2. IsFiniteSet(S)
  BY <1>1, FS_Interval
<1>3. \A i \in S : /\ L[i] = IF Works(book[i]) THEN book[i].quantity ELSE 0
                   /\ T[i] = IF Counted(book[i]) THEN book[i].filled ELSE 0
                   /\ L[i] \in Nat /\ T[i] \in Nat
                   /\ ~Sells(book[i]) => L[i] = 0 /\ T[i] = 0
                   /\ Works(book[i]) => T[i] = 0 /\ Sells(book[i])
                   /\ Counted(book[i]) /\ book[i].filled > 0 =>
                        L[i] = 0 /\ T[i] = book[i].quantity /\ Sells(book[i])
  BY <1>1 DEF StillOffers, Taken, Working, Sells, Works
<1>4. OnOffer(book) = SumOf(L, S) /\ SoldBy(book) = SumOf(T, S)
  BY <1>2, OnOfferIsSum, SoldByIsSum
<1>5. ASSUME NEW i \in S, Sells(book[i])
      PROVE  OnOffer(book) = L[i] /\ SoldBy(book) = T[i]
  <2>1. \A j \in S : j # i => ~Sells(book[j])
    BY <1>5 DEF OnceSold
  <2>2. \A j \in S : j # i => L[j] = 0 /\ T[j] = 0
    BY <1>3, <2>1
  <2>3. \A j \in S : L[j] \in Nat /\ T[j] \in Nat
    BY <1>3
  <2> HIDE DEF S, L, T
  <2> QED BY <1>2, <1>4, <2>2, <2>3, SumAlone
<1>6. ASSUME \A i \in S : ~Sells(book[i])
      PROVE  OnOffer(book) = 0 /\ SoldBy(book) = 0
  <2>1. \A j \in S : L[j] = 0 /\ T[j] = 0 /\ L[j] \in Nat /\ T[j] \in Nat
    BY <1>3, <1>6
  <2> HIDE DEF S, L, T
  <2> QED BY <1>2, <1>4, <2>1, SumAlone
<1> HIDE DEF L, T
<1> QED BY <1>3, <1>5, <1>6

\* Two books whose selling orders are the same.
LEMMA SameSales ==
  ASSUME NEW b, OnceSold(b), NEW c, OnceSold(c), DOMAIN b \subseteq DOMAIN c,
         \A i \in DOMAIN b : Sells(b[i]) \/ Sells(c[i]) => c[i] = b[i],
         \A i \in DOMAIN c : i \in DOMAIN b \/ ~Sells(c[i])
  PROVE  OnOffer(c) = OnOffer(b) /\ SoldBy(c) = SoldBy(b)
<1>1. CASE \A i \in DOMAIN b : ~Sells(b[i])
  <2>1. \A i \in DOMAIN c : ~Sells(c[i])
    BY <1>1
  <2> QED BY <1>1, <2>1, OnceSoldCounts
<1>2. CASE \E i \in DOMAIN b : Sells(b[i])
  <2>1. PICK i \in DOMAIN b : Sells(b[i])
    BY <1>2
  <2>2. i \in DOMAIN c /\ c[i] = b[i]
    BY <2>1
  <2>3. CASE Works(b[i])
    BY <2>2, <2>3, OnceSoldCounts
  <2>4. CASE Counted(b[i]) /\ b[i].filled > 0
    BY <2>2, <2>4, OnceSoldCounts
  <2> QED BY <2>1, <2>3, <2>4 DEF Sells, Works
<1> QED BY <1>1, <1>2

LEMMA BooksSellOnce == SaleInv => \A l \in Legs : OnceSold(orders[l])
BY DEF SaleInv, SellInv, CallInv, BookOK, WholeOrders, OneSale, OneAtMost, Selling, OnceSold

LEMMA BooksSellOnceAfter == SaleInv' => \A l \in Legs : OnceSold(orders'[l])
BY DEF SaleInv, SellInv, CallInv, BookOK, WholeOrders, OneSale, OneAtMost, Selling, OnceSold

\* What each leg sells and offers, over a book as a whole.
Commits(books) == [l \in Legs |-> OnOffer(books[l]) + SoldBy(books[l])]

LEMMA CommittedIsSum == Promise!Committed = SumOf(Commits(orders), Legs)
<1> DEFINE e == Commits(orders)
           P(g) == g = [s \in SUBSET Legs |->
                         IF s = {} THEN 0
                         ELSE (LET x == CHOOSE x \in s : TRUE
                               IN  Promise!Commitment(x) + g[s \ {x}])]
<1>1. \A s \in SUBSET Legs : s # {} => e[Pick(s)] = Promise!Commitment(Pick(s))
  BY PickIsMember DEF Commits, Promise!Commitment
<1>2. \A g : P(g) <=> IsSum(g, e, Legs)
  <2> HIDE DEF e
  <2> QED BY <1>1 DEF IsSum, Pick
<1>3. \E g : IsSum(g, e, Legs)
  BY SumExists, LegFacts
<1>4. IsSum(CHOOSE h : P(h), e, Legs)
  <2> HIDE DEF P, e
  <2>1. P(CHOOSE h : P(h))
    BY <1>2, <1>3
  <2> QED BY <1>2, <2>1
<1>5. (CHOOSE h : P(h))[Legs] = SumOf(e, Legs)
  <2> HIDE DEF P, e
  <2> QED BY <1>4, SumIsSum, LegFacts
<1> QED BY <1>5 DEF Promise!Committed, Promise!MapThenSumSet, Promise!MapThenFoldSet

\* A leg commits at most what it was asked for, and all together the budget.
CommitsInBudget ==
  /\ \A l \in Legs : Commits(orders)[l] \in Nat
  /\ SumOf(Commits(orders), Legs) <= MaxToClose

LEMMA CommitsAreWithinBudget == SaleInv => CommitsInBudget
<1> SUFFICES ASSUME SaleInv
             PROVE  /\ \A l \in Legs : Commits(orders)[l] \in Nat
                    /\ SumOf(Commits(orders), Legs) <= MaxToClose
  BY DEF CommitsInBudget
<1> DEFINE e == Commits(orders)
<1>1. ASSUME NEW l \in Legs
      PROVE  e[l] \in Nat /\ e[l] <= Asked[l] /\ Asked[l] \in Nat
  <2>1. OnceSold(orders[l]) /\ Asked[l] \in Nat
        /\ e[l] = OnOffer(orders[l]) + SoldBy(orders[l])
    BY BooksSellOnce, AskedWithinBudget DEF Commits
  <2>2. CASE \A i \in DOMAIN orders[l] : ~Sells(orders[l][i])
    BY <2>1, <2>2, OnceSoldCounts
  <2>3. CASE \E i \in DOMAIN orders[l] : Sells(orders[l][i])
    <3>1. PICK i \in DOMAIN orders[l] : Sells(orders[l][i])
      BY <2>3
    <3>2. orders[l][i].quantity = Asked[l]
      BY DEF SaleInv, SameSize
    <3>3. OnOffer(orders[l]) + SoldBy(orders[l]) = Asked[l]
      BY <2>1, <3>1, <3>2, OnceSoldCounts DEF Sells, Works
    <3> QED BY <2>1, <3>3
  <2> QED BY <2>2, <2>3
<1>2. SumOf(e, Legs) <= SumOf(Asked, Legs) /\ SumOf(e, Legs) \in Int
  <2>1. \A l \in Legs : e[l] \in Int /\ Asked[l] \in Int /\ e[l] <= Asked[l]
    BY <1>1
  <2> HIDE DEF e
  <2> QED BY <2>1, LegFacts, SumMonotone, SumRemove
<1>3. SumOf(e, Legs) <= MaxToClose
  <2> HIDE DEF e
  <2> QED BY <1>2, AskedWithinBudget, Sizes
<1> QED BY <1>1, <1>3

LEMMA CommitsStayWithinBudget == SaleInv' => CommitsInBudget'
BY CommitsAreWithinBudget, PTL

LEMMA CallStartsAsSale == Init => Promise!Init
<1> SUFFICES ASSUME Init, NEW l \in Legs
             PROVE  OnOffer(orders[l]) = 0 /\ SoldBy(orders[l]) = 0
  BY DEF Promise!Init
<1>1. SaleInv /\ orders[l] = << >>
  BY InitSaleInv DEF Init
<1> QED BY <1>1, BooksSellOnce, OnceSoldCounts

\* The sale a step of the broker or a cancel is: the one order of the leg that
\* works fills or ends.
LEMMA OrderLeavesAsSale ==
  ASSUME SaleInv, SaleInv', NEW l \in Legs, NEW i \in DOMAIN orders[l], NEW o,
         Replaces(l, i, o), Works(orders[l][i]), o.answer = orders[l][i].answer,
         o.quantity = orders[l][i].quantity, o.filled \in {0, o.quantity}, ~Working(o)
  PROVE  Promise!Sell(l) \/ Promise!Withdraw(l)
<1>1. OnceSold(orders[l]) /\ OnceSold(orders'[l]) /\ BookOK /\ orders[l] \in Seq(Order)
  <2>1. (\A k \in Legs : OnceSold(orders[k])) /\ \A k \in Legs : OnceSold(orders'[k])
    BY BooksSellOnce, BooksSellOnceAfter
  <2> QED BY <2>1 DEF SaleInv, SellInv, CallInv, BookOK
<1>2. /\ DOMAIN orders'[l] = DOMAIN orders[l] /\ orders'[l][i] = o
      /\ \A k \in Legs : k # l => orders'[k] = orders[k]
      /\ \A j \in DOMAIN orders[l] : j # i => orders'[l][j] = orders[l][j]
  BY <1>1 DEF Replaces, BookOK
<1>3. /\ orders[l][i].quantity \in Nat \ {0} /\ orders[l][i].filled = 0
      /\ \A j \in DOMAIN orders[l] : Sells(orders[l][j]) => j = i
  <2>1. orders[l][i] \in Order
    BY <1>1
  <2> QED BY <1>1, <2>1 DEF Working, Works, OnceSold, Order, Sells
<1>4. OnOffer(orders[l]) = orders[l][i].quantity /\ SoldBy(orders[l]) = 0
  BY <1>1, OnceSoldCounts
<1>5. OnOffer(orders'[l]) = 0 /\ SoldBy(orders'[l]) = o.filled
  <2>1. CASE o.filled > 0
    <3>1. i \in DOMAIN orders'[l] /\ Counted(orders'[l][i]) /\ o.quantity = o.filled
      BY <1>2, <1>3, <2>1 DEF Works, Counted
    <3> QED BY <1>1, <1>2, <2>1, <3>1, OnceSoldCounts
  <2>2. CASE o.filled = 0
    <3>1. \A j \in DOMAIN orders'[l] : ~Sells(orders'[l][j])
      BY <1>2, <1>3, <2>2 DEF Sells
    <3> QED BY <1>1, <2>2, <3>1, OnceSoldCounts
  <2> QED BY <1>3, <2>1, <2>2
<1> DEFINE off == [k \in Legs |-> OnOffer(orders[k])]
           off2 == [k \in Legs |-> OnOffer(orders'[k])]
           out == [k \in Legs |-> SoldBy(orders[k])]
           out2 == [k \in Legs |-> SoldBy(orders'[k])]
<1>6. off[l] > 0 /\ off2 = [off EXCEPT ![l] = 0] /\ out2 = [out EXCEPT ![l] = o.filled]
      /\ off[l] = o.quantity /\ out[l] = 0
  <2>1. \A k \in Legs : k # l => OnOffer(orders'[k]) = OnOffer(orders[k])
                                  /\ SoldBy(orders'[k]) = SoldBy(orders[k])
    BY <1>2
  <2>2. off2 = [off EXCEPT ![l] = 0] /\ out2 = [out EXCEPT ![l] = o.filled]
    BY <1>5, <2>1
  <2>3. off[l] > 0 /\ off[l] = o.quantity /\ out[l] = 0
    BY <1>3, <1>4
  <2> QED BY <2>2, <2>3
<1>7. CASE o.filled = 0
  BY <1>6, <1>7 DEF Promise!Withdraw
<1>8. CASE o.filled = o.quantity
  BY <1>6, <1>8 DEF Promise!Sell
<1> QED BY <1>7, <1>8

LEMMA PlacingIsAnOffer ==
  ASSUME SaleInv, SaleInv', PlaceAccepted
  PROVE  leg \in Legs /\ Promise!Offer(leg)
<1>1. HasLeg /\ leg \in Legs /\ BookOK /\ CallOK /\ pc = "place"
      /\ orders' = [orders EXCEPT ![leg] = Append(@, NewOrder("id"))]
      /\ orders[leg] \in Seq(Order)
  BY DEF SaleInv, SellInv, CallInv, CallOK, InChase, HasLeg, BookOK, PlaceAccepted
<1> DEFINE n == Len(orders[leg]) + 1
<1>2. /\ \A k \in Legs : k # leg => orders'[k] = orders[k]
      /\ orders'[leg][n] = NewOrder("id")
      /\ NewOrder("id").quantity = qtyToClose
      /\ Len(orders'[leg]) = n
  BY <1>1, OneOrderMore
<1>3. (\A k \in Legs : OnceSold(orders[k])) /\ \A k \in Legs : OnceSold(orders'[k])
  BY BooksSellOnce, BooksSellOnceAfter
<1>4. qtyToClose \in 1 .. Held[leg]
  BY <1>1, QtyFacts, LegFacts
<1>5. OnOffer(orders[leg]) = 0 /\ SoldBy(orders[leg]) = 0
  BY <1>1, <1>3, OnceSoldCounts DEF SaleInv, SellInv, OneSale, OneAtMost, Selling
<1>6. OnOffer(orders'[leg]) = qtyToClose /\ SoldBy(orders'[leg]) = 0
  <2>1. orders'[leg] \in Seq(Order) /\ n \in DOMAIN orders'[leg]
    BY <1>1, <1>2, <1>3 DEF OnceSold
  <2>2. Works(orders'[leg][n]) /\ orders'[leg][n].quantity = qtyToClose
    BY <1>2, <1>4 DEF NewOrder, Working, Works, Counted
  <2>3. OnceSold(orders'[leg])
    BY <1>1, <1>3
  <2> HIDE DEF n
  <2> QED BY <2>1, <2>2, <2>3, OnceSoldCounts
<1> DEFINE off == [k \in Legs |-> OnOffer(orders[k])]
           off2 == [k \in Legs |-> OnOffer(orders'[k])]
           out == [k \in Legs |-> SoldBy(orders[k])]
           out2 == [k \in Legs |-> SoldBy(orders'[k])]
<1>7. off2 = [off EXCEPT ![leg] = qtyToClose] /\ out2 = out
      /\ off[leg] = 0 /\ out[leg] = 0
  <2>1. \A k \in Legs : k # leg => OnOffer(orders'[k]) = OnOffer(orders[k])
                                    /\ SoldBy(orders'[k]) = SoldBy(orders[k])
    BY <1>2
  <2>2. off2 = [off EXCEPT ![leg] = qtyToClose] /\ out2 = out
    BY <1>5, <1>6, <2>1
  <2> QED BY <1>1, <1>5, <2>2
<1>8. Promise!Committed + qtyToClose <= MaxToClose
  <2> DEFINE e == Commits(orders)
             f == Commits(orders')
  <2>1. /\ \A l \in Legs : e[l] \in Nat /\ f[l] \in Nat
        /\ SumOf(f, Legs) <= MaxToClose
    BY CommitsAreWithinBudget, CommitsStayWithinBudget DEF CommitsInBudget
  <2>2. e[leg] = 0 /\ f[leg] = qtyToClose /\ \A l \in Legs \ {leg} : f[l] = e[l]
    BY <1>1, <1>2, <1>4, <1>5, <1>6 DEF Commits
  <2>3. \A l \in Legs : e[l] \in Int /\ f[l] \in Int
    BY <2>1
  <2>4. Promise!Committed = SumOf(e, Legs)
    BY CommittedIsSum
  <2> HIDE DEF e, f
  <2>5. SumOf(f, Legs) = SumOf(e, Legs) - e[leg] + f[leg]
    <3>1. leg \in Legs /\ IsFiniteSet(Legs)
      BY <1>1, LegFacts
    <3> QED BY <2>2, <2>3, <3>1, SumChange
  <2>6. SumOf(e, Legs) \in Int
    BY <2>3, LegFacts, SumRemove
  <2> QED BY <1>4, <2>1, <2>2, <2>4, <2>5, <2>6
<1> HIDE DEF n
<1> QED BY <1>1, <1>4, <1>7, <1>8 DEF Promise!Offer

\* A step that leaves the orders that sell alone is no step of the sale.
LEMMA SalesStay ==
  ASSUME SaleInv, SaleInv',
         \A k \in Legs : DOMAIN orders[k] \subseteq DOMAIN orders'[k],
         \A k \in Legs : \A j \in DOMAIN orders[k] :
           Sells(orders[k][j]) \/ Sells(orders'[k][j]) => orders'[k][j] = orders[k][j],
         \A k \in Legs : \A j \in DOMAIN orders'[k] :
           j \in DOMAIN orders[k] \/ ~Sells(orders'[k][j])
  PROVE  UNCHANGED Promise!vars
<1>1. (\A k \in Legs : OnceSold(orders[k])) /\ \A k \in Legs : OnceSold(orders'[k])
  BY BooksSellOnce, BooksSellOnceAfter
<1>2. \A k \in Legs : OnOffer(orders'[k]) = OnOffer(orders[k])
                      /\ SoldBy(orders'[k]) = SoldBy(orders[k])
  BY <1>1, SameSales
<1> QED BY <1>2 DEF Promise!vars

LEMMA StepsOfTheSale ==
  ASSUME Answered, SaleInv, [Next]_vars
  PROVE  Promise!Next \/ UNCHANGED Promise!vars
<1>1. SaleInv'
  BY NextSaleInv
<1>2. ASSUME UNCHANGED orders
      PROVE  UNCHANGED Promise!vars
  BY <1>2 DEF Promise!vars
<1>3. ASSUME NEW l \in Legs, NEW i \in DOMAIN orders[l], FillOrder(l, i) \/ EndOrder(l, i)
      PROVE  Promise!Next \/ UNCHANGED Promise!vars
  <2>0. CASE ~Counted(orders[l][i])
    <3>1. CallInv /\ Working(orders[l][i])
      BY <1>3 DEF SaleInv, SellInv, FillOrder, EndOrder
    <3>2. SameOrders
      BY <1>3, <3>1, BrokersBook
    <3>3. \A k \in Legs : \A j \in DOMAIN orders[k] :
            orders'[k][j] = orders[k][j] \/ (k = l /\ j = i)
      BY <1>3 DEF FillOrder, EndOrder, SaleInv, SellInv, CallInv, BookOK
    <3>4. ~Sells(orders[l][i]) /\ ~Sells(orders'[l][i])
      BY <2>0, <3>2 DEF SameOrders, Became, Sells, Counted
    <3>5. \A k \in Legs : \A j \in DOMAIN orders[k] :
            Sells(orders[k][j]) \/ Sells(orders'[k][j]) => orders'[k][j] = orders[k][j]
      BY <3>3, <3>4
    <3> QED BY <1>1, <3>2, <3>5, SalesStay DEF SameOrders
  <2> SUFFICES ASSUME Counted(orders[l][i]) PROVE Promise!Next
    BY <2>0
  <2>1. orders[l][i] \in Order /\ orders \in [Legs -> Seq(Order)]
        /\ orders[l][i].filled \in {0, orders[l][i].quantity}
    BY DEF SaleInv, SellInv, CallInv, BookOK, WholeOrders
  <2>2. Works(orders[l][i])
    BY <1>3 DEF FillOrder, EndOrder, Works
  <2>3. CASE FillOrder(l, i)
    <3> DEFINE o == [orders[l][i] EXCEPT !.filled = orders[l][i].quantity]
    <3>1. o.quantity = orders[l][i].quantity /\ o.filled = o.quantity /\ ~Working(o)
          /\ o.answer = orders[l][i].answer
      BY <2>1 DEF Order, Working
    <3>2. Replaces(l, i, o)
      BY <2>1, <2>3 DEF FillOrder, Answered, Replaces
    <3> HIDE DEF o
    <3> QED BY <1>1, <2>2, <3>1, <3>2, OrderLeavesAsSale DEF Promise!Next
  <2>4. CASE EndOrder(l, i)
    <3> DEFINE o == [orders[l][i] EXCEPT !.status = "dead"]
    <3>1. o.quantity = orders[l][i].quantity /\ o.filled = orders[l][i].filled /\ ~Working(o)
          /\ o.answer = orders[l][i].answer
      BY <2>1 DEF Order, Working
    <3>2. Replaces(l, i, o)
      BY <2>1, <2>4 DEF EndOrder, Replaces
    <3> HIDE DEF o
    <3> QED BY <1>1, <2>1, <2>2, <3>1, <3>2, OrderLeavesAsSale DEF Promise!Next
  <2> QED BY <1>3, <2>3, <2>4
<1>4. CASE CancelAccepted
  <2>0. CASE ~Counted(orders[leg][active])
    <3>1. CallInv /\ leg \in Legs /\ active \in DOMAIN orders[leg] /\ SameOrders
      BY <1>4, CancelsBook DEF SaleInv, SellInv
    <3>2. \A k \in Legs : \A j \in DOMAIN orders[k] :
            orders'[k][j] = orders[k][j] \/ (k = leg /\ j = active)
      BY <1>4, <3>1 DEF CancelAccepted, CallInv, BookOK
    <3>3. ~Sells(orders[leg][active]) /\ ~Sells(orders'[leg][active])
      BY <2>0, <3>1 DEF SameOrders, Became, Sells, Counted
    <3>4. \A k \in Legs : \A j \in DOMAIN orders[k] :
            Sells(orders[k][j]) \/ Sells(orders'[k][j]) => orders'[k][j] = orders[k][j]
      BY <3>2, <3>3
    <3> QED BY <1>1, <3>1, <3>4, SalesStay DEF SameOrders
  <2> SUFFICES ASSUME Counted(orders[leg][active]) PROVE Promise!Next
    BY <2>0
  <2>1. leg \in Legs /\ active \in DOMAIN orders[leg] /\ Works(orders[leg][active])
    BY <1>4 DEF Works, SaleInv, SellInv, CallInv, CallOK, InChase, HasLeg, BookOK, RungsInStep,
                CancelAccepted, mustCancelPrevious
  <2>2. orders[leg][active] \in Order /\ orders \in [Legs -> Seq(Order)]
        /\ orders[leg][active].filled \in {0, orders[leg][active].quantity}
    BY <2>1 DEF SaleInv, SellInv, CallInv, BookOK, WholeOrders
  <2> DEFINE o == [orders[leg][active] EXCEPT !.status = "dead"]
  <2>3. o.quantity = orders[leg][active].quantity /\ o.filled = orders[leg][active].filled
        /\ ~Working(o) /\ o.answer = orders[leg][active].answer
    BY <2>2 DEF Order, Working
  <2>4. Replaces(leg, active, o)
    BY <1>4, <2>2 DEF CancelAccepted, Answered, Replaces
  <2> HIDE DEF o
  <2> QED BY <1>1, <2>1, <2>2, <2>3, <2>4, OrderLeavesAsSale DEF Promise!Next
<1>5. CASE PlaceAccepted
  BY <1>1, <1>5, PlacingIsAnOffer DEF Promise!Next
<1>6. CASE PlaceReplyLost
  BY <1>6 DEF PlaceReplyLost, Answered
<1>7. CASE PlaceUnnamed
  <2>1. CASE OneMore("none")
    <3>1. ~Sells(NewOrder("none")) /\ leg \in Legs
      BY <2>1 DEF OneMore, HasLeg, NewOrder, Sells, Counted
    <3>2. /\ \A k \in Legs : DOMAIN orders[k] \subseteq DOMAIN orders'[k]
          /\ \A k \in Legs : \A j \in DOMAIN orders[k] : orders'[k][j] = orders[k][j]
          /\ \A k \in Legs : \A j \in DOMAIN orders'[k] :
               j \in DOMAIN orders[k] \/ ~Sells(orders'[k][j])
      BY <2>1, <3>1 DEF OneMore
    <3> QED BY <1>1, <3>2, SalesStay
  <2>2. CASE orders' = orders
    BY <1>2, <2>2
  <2> QED BY <1>7, <2>1, <2>2, PlacementsBook DEF PlaceUnnamed, SaleInv, SellInv
<1>8. CASE \/ SkipLeg \/ BeginChase \/ ReportLeg \/ Return \/ Returned
           \/ NothingToCancel \/ CancelRefused \/ PlaceRejected
           \/ FillSeen \/ NoFillSeen \/ RequoteAnswered \/ UNCHANGED vars
  <2>1. UNCHANGED orders
    BY <1>8 DEF SkipLeg, BeginChase, ReportLeg, Return, Returned, NothingToCancel,
                CancelRefused, PlaceRejected, FillSeen, NoFillSeen, RequoteAnswered,
                Advance, goto, vars
  <2> QED BY <1>2, <2>1
<1> QED BY <1>3, <1>4, <1>5, <1>6, <1>7, <1>8 DEF Next

\* Where a cancel that was accepted has happened, fills are whole and no reply to
\* a placement is lost, the tick-chase of closePosition is a sale by the orders that
\* were not answered without an id: every step of it, of the market and of the
\* broker puts one quantity of one leg on offer, sells it, withdraws it, or leaves
\* offers and sales alone, also when the chase goes on beside an order without one.
THEOREM CloseImplementsSale ==
  ASSUME CancelIsFinal, ~PartialFills, ~LostReplies
  PROVE  Spec => ImplementsSale
<1>1. Answered
  BY DEF Answered
<1>2. SaleInv /\ [Next]_vars => SaleInv'
  BY <1>1, NextSaleInv
<1>3. SaleInv /\ [Next]_vars => [Promise!Next]_(Promise!vars)
  BY <1>1, StepsOfTheSale
<1> QED BY <1>2, <1>3, InitSaleInv, CallStartsAsSale, PTL
        DEF Spec, ImplementsSale, Promise!Spec

-----------------------------------------------------------------------------
(* The end of an urgent close.  Here the broker may be slow, lose replies,  *)
(* leave out ids and end orders; what it needs is a cancel that fails only  *)
(* when the order works no longer, and fills that take the whole order.     *)

\* The orders of a leg that rest and that the close was given the id of.
Rests(o) == o.answer = "id" /\ o.status = "live" /\ o.filled < o.quantity

Resting == [l \in Legs |-> {i \in DOMAIN orders[l] : Rests(orders[l][i])}]

\* The last rung of an urgent walk is the edge.
LastRungCrosses ==
  Urgent /\ InChase /\ moves >= MaxTickMoves => price = edge

\* Before another rung goes out, the previous order was cancelled.
PreviousIsCancelled == OneAtMost(Resting, pc, leg, active)

EdgeInv ==
  CallInv /\ WholeOrders /\ LastRungCrosses /\ PreviousIsCancelled /\ UrgentEndsAtEdge

Whole == ~PartialFills /\ ~CancelErrors /\ MaxTickMoves > 0

LEMMA InitEdgeInv == Whole /\ Init => EdgeInv
<1> SUFFICES ASSUME Whole, Init PROVE EdgeInv
  OBVIOUS
<1>1. \A l \in Legs : Resting[l] = {}
  BY DEF Init, Resting
<1> QED BY <1>1, InitSellInv DEF SellInv, Init, EdgeInv, LastRungCrosses, InChase,
   PreviousIsCancelled, OneAtMost, UrgentEndsAtEdge

\* No order of another leg, and no earlier one, begins to rest.
LEMMA RestingOrders ==
  ASSUME CallInv, [Next]_vars
  PROVE  /\ \/ \A k \in Legs : Resting'[k] \subseteq Resting[k]
            \/ /\ PlaceAccepted
               /\ \A k \in Legs : k # leg => Resting'[k] \subseteq Resting[k]
               /\ Resting'[leg] \subseteq Resting[leg] \cup {Len(orders[leg]) + 1}
               /\ orders'[leg][Len(orders[leg]) + 1].price = roundOrderPrice(price)
         /\ \A k \in Legs : \A i \in DOMAIN orders[k] :
              orders'[k][i].price = orders[k][i].price
<1>1. CASE SameOrders
  BY <1>1 DEF SameOrders, Resting, Rests, Became, Working
<1>2. CASE PlaceAccepted /\ OneMore("id")
  <2>1. NewOrder("id").price = roundOrderPrice(price)
    BY DEF NewOrder
  <2> QED BY <1>2, <2>1 DEF OneMore, Resting, HasLeg
<1>3. ASSUME NEW answer \in {"none", "lost"}, OneMore(answer)
      PROVE  /\ \A k \in Legs : Resting'[k] \subseteq Resting[k]
             /\ \A k \in Legs : \A i \in DOMAIN orders[k] :
                  orders'[k][i].price = orders[k][i].price
  <2>1. ~Rests(NewOrder(answer))
    BY <1>3 DEF Rests, NewOrder
  <2> QED BY <1>3, <2>1 DEF OneMore, Resting, HasLeg
<1> QED BY <1>1, <1>2, <1>3, StepsOfTheBook

LEMMA NextPreviousIsCancelled ==
  ASSUME Whole, EdgeInv, [Next]_vars
  PROVE  PreviousIsCancelled'
<1>1. CallInv
  BY DEF EdgeInv
<1>2. \A k \in Legs : Resting[k] \subseteq DOMAIN orders[k]
  BY DEF Resting
<1>3. CancelAccepted => active \notin Resting'[leg]
  BY <1>1, CancelsBook DEF Resting, Rests
<1>4. OneAtMost(Resting', pc', leg', active')
  BY <1>1, <1>2, <1>3, RestingOrders, OneAtMostKept DEF EdgeInv, PreviousIsCancelled
<1> QED BY <1>4 DEF PreviousIsCancelled, OneAtMost

LEMMA NextLastRungCrosses ==
  ASSUME Whole, EdgeInv, [Next]_vars
  PROVE  LastRungCrosses'
<1>1. CallInv /\ CallOK /\ LastRungCrosses /\ edge \in Nat /\ price \in Nat
  BY DEF EdgeInv, CallInv, CallOK
<1>2. ASSUME NEW e \in Nat, Advance(e) PROVE LastRungCrosses'
  <2>1. moves' = moves + 1 /\ edge' = e /\ isFinalTickMove \in BOOLEAN
        /\ price' = advanceClosePrice(price, e, isFinalTickMove)
    BY <1>2 DEF Advance, isFinalTickMove
  <2>2. Urgent /\ moves' >= MaxTickMoves => price' = edge'
    BY <1>1, <2>1, NextRung DEF isFinalTickMove
  <2> QED BY <2>2 DEF LastRungCrosses
<1>3. CASE NoFillSeen
  BY <1>1, <1>2, <1>3 DEF NoFillSeen, goto, LastRungCrosses, InChase
<1>4. CASE RequoteAnswered
  <2>1. PICK e \in refreshEdgePriceFromQuote(edge) : Advance(e)
    BY <1>4 DEF RequoteAnswered
  <2> QED BY <1>1, <1>2, <2>1, FreshEdge
<1>5. CASE BeginChase
  BY <1>5, Sizes DEF BeginChase, LastRungCrosses, Whole
<1>6. CASE SkipLeg \/ ReportLeg \/ Return
  BY <1>6 DEF SkipLeg, ReportLeg, Return, LastRungCrosses, InChase
<1>7. CASE UNCHANGED <<moves, price, edge>> /\ (InChase' => InChase)
  BY <1>1, <1>7 DEF LastRungCrosses
<1>8. CASE \/ NothingToCancel \/ CancelAccepted \/ CancelRefused \/ PlaceAccepted
           \/ PlaceUnnamed \/ PlaceRejected \/ PlaceReplyLost \/ FillSeen
  BY <1>7, <1>8 DEF NothingToCancel, CancelAccepted, CancelRefused, PlaceAccepted, PlaceUnnamed,
    PlaceRejected, PlaceReplyLost, FillSeen, OrWait, goto, InChase
<1>9. CASE \/ \E l \in Legs : \E i \in DOMAIN orders[l] : FillOrder(l, i) \/ EndOrder(l, i)
           \/ Returned \/ UNCHANGED vars
  BY <1>7, <1>9 DEF FillOrder, EndOrder, Returned, vars, chase, InChase
<1> QED BY <1>3, <1>4, <1>5, <1>6, <1>8, <1>9 DEF Next

LEMMA NextUrgentEndsAtEdge ==
  ASSUME Whole, EdgeInv, CallInv', [Next]_vars
  PROVE  UrgentEndsAtEdge'
<1>1. CallInv /\ CallOK /\ WholeOrders /\ PreviousIsCancelled /\ LastRungCrosses
      /\ UrgentEndsAtEdge
  BY DEF EdgeInv, CallInv
<1>2. SUFFICES ASSUME Urgent, pc' = "report", NEW i \in Resting'[leg']
               PROVE  orders'[leg'][i].price = roundOrderPrice(edge')
  <2>1. pc' = "report" => leg' \in Legs
    BY DEF CallInv, CallOK, InChase, HasLeg, Legs
  <2> QED BY <2>1 DEF UrgentEndsAtEdge, Resting, Rests, roundOrderPrice
<1>3. CASE PlaceAccepted
  <2>1. pc = "place" /\ leg' = leg /\ edge' = edge /\ leg \in Legs
        /\ (moves >= MaxTickMoves \/ price = edge)
    BY <1>1, <1>2, <1>3 DEF PlaceAccepted, OrWait, goto, CallOK, InChase, HasLeg
  <2>2. price = edge
    BY <1>1, <1>2, <2>1 DEF LastRungCrosses, InChase
  <2>3. Resting[leg] = {}
    BY <1>1, <2>1 DEF PreviousIsCancelled, OneAtMost
  <2>4. i = Len(orders[leg]) + 1
        /\ orders'[leg][Len(orders[leg]) + 1].price = roundOrderPrice(price)
    BY <1>1, <1>2, <2>1, <2>3, RestingOrders
  <2> QED BY <2>1, <2>2, <2>4
<1> SUFFICES ASSUME ~PlaceAccepted
             PROVE  orders'[leg'][i].price = roundOrderPrice(edge')
  BY <1>3
<1>4. \A k \in Legs : Resting'[k] \subseteq Resting[k]
  BY <1>1, RestingOrders
<1>5. CASE PlaceUnnamed \/ PlaceRejected \/ PlaceReplyLost
  <2>1. pc = "place" /\ leg' = leg /\ leg \in Legs
    BY <1>1, <1>5 DEF PlaceUnnamed, PlaceRejected, PlaceReplyLost, OrWait, goto, CallOK, InChase,
      HasLeg
  <2>2. Resting[leg] = {}
    BY <1>1, <2>1 DEF PreviousIsCancelled, OneAtMost
  <2> QED BY <1>2, <1>4, <2>1, <2>2
<1>6. CASE CancelRefused \/ FillSeen
  <2>1. pc \in {"cancel", "poll"} /\ leg' = leg /\ leg \in Legs
    BY <1>1, <1>6 DEF CancelRefused, FillSeen, goto, CallOK, InChase, HasLeg
  <2>2. i = active /\ i \in DOMAIN orders[leg] /\ Rests(orders[leg][i])
    BY <1>1, <1>2, <1>4, <2>1 DEF PreviousIsCancelled, OneAtMost, Resting
  <2>3. Working(orders[leg][i])
    BY <2>2 DEF Rests, Working
  <2>4. orders[leg][i].filled = 0
    <3>1. orders[leg] \in Seq(Order)
      BY <1>1, <2>1 DEF CallInv, BookOK
    <3>2. orders[leg][i] \in Order
      BY <2>2, <3>1
    <3>3. orders[leg][i].filled \in {0, orders[leg][i].quantity}
      BY <1>1, <2>1, <2>2 DEF WholeOrders
    <3> QED BY <2>2, <3>2, <3>3 DEF Rests, Order
  <2>5. CASE CancelRefused
    BY <2>2, <2>3, <2>5 DEF CancelRefused, Whole
  <2>6. CASE FillSeen
    BY <2>2, <2>4, <2>6 DEF FillSeen, isFilled, HasFill
  <2> QED BY <1>6, <2>5, <2>6
<1>7. CASE pc = "report" /\ UNCHANGED <<leg, edge>>
  <2>1. leg \in Legs
    BY <1>1, <1>7 DEF CallOK, InChase, HasLeg
  <2>2. i \in Resting[leg] /\ i \in DOMAIN orders[leg] /\ Rests(orders[leg][i])
    BY <1>2, <1>4, <1>7, <2>1 DEF Resting
  <2>3. orders[leg][i].price = roundOrderPrice(edge)
    BY <1>1, <1>2, <1>7, <2>2 DEF UrgentEndsAtEdge, Rests
  <2>4. orders'[leg][i].price = orders[leg][i].price
    BY <1>1, <2>1, <2>2, RestingOrders
  <2> QED BY <1>7, <2>3, <2>4
<1>8. CASE \/ \E l \in Legs : \E n \in DOMAIN orders[l] : FillOrder(l, n) \/ EndOrder(l, n)
           \/ Returned \/ UNCHANGED vars
  BY <1>2, <1>7, <1>8 DEF FillOrder, EndOrder, Returned, vars, chase
<1>9. CASE \/ SkipLeg \/ BeginChase \/ ReportLeg \/ Return \/ NothingToCancel \/ CancelAccepted
           \/ NoFillSeen \/ RequoteAnswered
  BY <1>2, <1>9 DEF SkipLeg, BeginChase, ReportLeg, Return, NothingToCancel, CancelAccepted,
    NoFillSeen, RequoteAnswered, Advance, goto
<1> QED BY <1>5, <1>6, <1>8, <1>9 DEF Next

LEMMA NextEdgeInv == Whole /\ EdgeInv /\ [Next]_vars => EdgeInv'
<1> SUFFICES ASSUME Whole, EdgeInv, [Next]_vars PROVE EdgeInv'
  OBVIOUS
<1>1. CallInv' /\ WholeOrders'
  BY NextCallInv, NextWholeOrders DEF EdgeInv, Whole
<1> QED BY <1>1, NextPreviousIsCancelled, NextLastRungCrosses, NextUrgentEndsAtEdge DEF EdgeInv

\* When an urgent close ends, every order it was given the id of and that rests is
\* at the edge, although accepted cancels may be late, replies lost or without an
\* id, and status reads fail throughout (advanceClosePrice's final crossing, and
\* CancelRefused's early end).
THEOREM UrgentCloseCrosses ==
  ASSUME ~PartialFills, ~CancelErrors, MaxTickMoves > 0
  PROVE  Spec => []UrgentEndsAtEdge
<1>1. Whole
  BY DEF Whole
<1>2. Init => EdgeInv
  BY <1>1, InitEdgeInv
<1>3. EdgeInv /\ [Next]_vars => EdgeInv'
  BY <1>1, NextEdgeInv
<1>4. EdgeInv => UrgentEndsAtEdge
  BY DEF EdgeInv
<1> QED BY <1>2, <1>3, <1>4, PTL DEF Spec


-----------------------------------------------------------------------------
(* ExitRules: what the cycle's locals hold.                                *)

LEMMA DecisionIsReason ==
  \A m, minute, acted, runner, observed :
    Exit!evaluateTradingStrategy(m, minute, acted, runner, observed) \in Exit!Reasons
BY DEF Exit!evaluateTradingStrategy, Exit!evaluateScaledRunner, Exit!resolveIntradayStop,
  Exit!Reasons, Exit!Closes, Exit!SuppressesAdds

LEMMA OverriddenIsReason ==
  \A reason \in Exit!Reasons : \A minute : Exit!Overridden(reason, minute) \in Exit!Reasons
BY DEF Exit!Overridden, Exit!Reasons, Exit!Closes

Locals ==
  [pc : {"idle", "gate", "legs", "manage"}, at : Int, reason : Exit!Reasons,
   adds : BOOLEAN, acted : Int, runner : BOOLEAN, quote : [Exit!Legs -> Quote],
   seen : [Exit!Legs -> Nat], left : Nat, leg : Nat \ {0}, sent : SUBSET Exit!Legs]

LEMMA IdleIsLocals == ASSUME position \in Positions PROVE Exit!Idle \in Locals
BY DEF Exit!Idle, Locals, Exit!Reasons, Exit!NotYet, Exit!NoQuote, Quote

LEMMA SumOverIsSum ==
  ASSUME NEW S, IsFiniteSet(S), NEW f
  PROVE  Exit!SumOver(S, f) = SumOf(f, S)
<1> DEFINE P(g) == g = [s \in SUBSET S |->
                         IF s = {} THEN 0
                         ELSE (LET x == CHOOSE x \in s : TRUE
                               IN  f[x] + g[s \ {x}])]
<1>2. \A g : P(g) <=> IsSum(g, f, S)
  BY DEF IsSum, Pick
<1>3. \E g : P(g)
  <2> HIDE DEF P
  <2> QED BY <1>2, SumExists
<1>4. IsSum(CHOOSE h : P(h), f, S)
  <2> HIDE DEF P
  <2>1. P(CHOOSE h : P(h))
    BY <1>3
  <2> QED BY <1>2, <2>1
<1>5. (CHOOSE h : P(h))[S] = SumOf(f, S)
  <2> HIDE DEF P
  <2> QED BY <1>4, SumIsSum
<1> QED BY <1>5 DEF Exit!SumOver, Exit!MapThenSumSet, Exit!MapThenFoldSet

LEMMA SumOverInt ==
  ASSUME NEW S, IsFiniteSet(S), NEW f, \A x \in S : f[x] \in Int
  PROVE  Exit!SumOver(S, f) \in Int
BY SumOverIsSum, SumRemove

LEMMA SumOverNone == \A f : Exit!SumOver({}, f) = 0
BY SumOverIsSum, SumEmpty, FS_EmptySet

LEMMA SumOverOne ==
  ASSUME NEW y, NEW f, f[y] \in Int
  PROVE  Exit!SumOver({y}, f) = f[y]
<1>1. SumOf(f, {y}) = f[y] + SumOf(f, {y} \ {y})
  BY SumRemove, FS_Singleton
<1>2. {y} \ {y} = {} /\ IsFiniteSet({y})
  BY FS_Singleton
<1>3. SumOf(f, {}) = 0
  BY SumEmpty
<1>4. Exit!SumOver({y}, f) = SumOf(f, {y})
  BY <1>2, SumOverIsSum
<1> QED BY <1>1, <1>2, <1>3, <1>4

LEMMA SumOverTwo ==
  ASSUME NEW f, f[1] \in Int, f[2] \in Int
  PROVE  Exit!SumOver({1, 2}, f) = f[1] + f[2]
<1> DEFINE S == {1, 2}
<1>1. IsFiniteSet(S) /\ 2 \in S /\ S \ {2} = {1}
  <2>1. \A x : x \in 1 .. 2 <=> x \in S
    OBVIOUS
  <2>2. IsFiniteSet(1 .. 2)
    <3>1. 1 \in Int /\ 2 \in Int
      OBVIOUS
    <3> HIDE DEF S
    <3> QED BY <3>1, FS_Interval, Zenon
  <2>4. 1 .. 2 = S
    BY <2>1
  <2>3. S \ {2} = {1}
    OBVIOUS
  <2> QED BY <2>4, <2>2, <2>3
<1>2. \A x \in S : f[x] \in Int
  OBVIOUS
<1>3. SumOf(f, S) = f[2] + SumOf(f, S \ {2})
  <2> HIDE DEF S
  <2> QED BY <1>1, <1>2, SumRemove
<1>4. Exit!SumOver(S, f) = SumOf(f, S) /\ Exit!SumOver({1}, f) = SumOf(f, {1})
  BY <1>1, FS_Singleton, SumOverIsSum
<1>5. Exit!SumOver({1}, f) = f[1]
  BY SumOverOne
<1>6. SumOf(f, S) = f[2] + f[1]
  BY <1>1, <1>3, <1>4, <1>5
<1> QED BY <1>4, <1>6

\* The position's legs are finitely many.
LEMMA LegsFinite ==
  ASSUME position \in Positions
  PROVE  /\ Exit!Legs = 1 .. position.legs /\ position.legs \in Nat \ {0}
         /\ IsFiniteSet(Exit!Legs)
<1>1. position.legs \in Nat \ {0}
  BY PositionsAssumption
<1> QED BY <1>1, FS_Interval DEF Exit!Legs

LEMMA MetricsAreInt ==
  ASSUME position \in Positions,
         NEW quote \in [Exit!Legs -> Quote], NEW h \in [Exit!Legs -> Nat]
  PROVE  /\ Exit!buildAggregateMetrics(quote, h).bid \in Int
         /\ Exit!buildAggregateMetrics(quote, h).ask \in Int
         /\ Exit!buildAggregateMetrics(quote, h).n \in Nat
<1> DEFINE b == [l \in Exit!Legs |-> h[l] * quote[l].bid]
           a == [l \in Exit!Legs |-> h[l] * quote[l].ask]
<1>1. \A l \in Exit!Legs : b[l] \in Int /\ a[l] \in Int /\ h[l] \in Nat
  BY DEF Quote
<1>2. Exit!SumOver(Exit!Legs, b) \in Int /\ Exit!SumOver(Exit!Legs, a) \in Int
      /\ Exit!SumOver(Exit!Legs, h) \in Nat
  <2> HIDE DEF a, b
  <2>1. Exit!SumOver(Exit!Legs, b) \in Int /\ Exit!SumOver(Exit!Legs, a) \in Int
    BY <1>1, SumOverInt, LegsFinite
  <2>2. SumOf(h, Exit!Legs) \in Nat
    BY <1>1, SumNat, LegsFinite
  <2>3. Exit!SumOver(Exit!Legs, h) = SumOf(h, Exit!Legs)
    BY SumOverIsSum, LegsFinite
  <2> QED BY <2>1, <2>2, <2>3
<1> QED BY <1>2 DEF Exit!buildAggregateMetrics

LEMMA ExitMax ==
  ASSUME NEW a \in Int, NEW b \in Int
  PROVE  Exit!Max({a, b}) = IF a >= b THEN a ELSE b
BY DEF Exit!Max

LEMMA ExitMin ==
  ASSUME NEW a \in Int, NEW b \in Int
  PROVE  Exit!Min({a, b}) = IF a <= b THEN a ELSE b
BY DEF Exit!Min

LEMMA MaxQuantityIsNat ==
  ASSUME position \in Positions, NEW c \in Locals
  PROVE  Exit!MaxQuantity(c) \in Nat
<1>1. Exit!Group(c).n \in Nat
  BY MetricsAreInt DEF Exit!Group, Locals
<1> QED BY <1>1, ExitMax DEF Exit!MaxQuantity

ExitTypes ==
  /\ position \in Positions
  /\ clock \in position.minutes /\ lastAction \in Int
  /\ held \in [Exit!Legs -> 0 .. position.lots]
  /\ scaled \in BOOLEAN /\ streak \in 0 .. Exit!PersistCycles /\ under \in Nat
  /\ cycle \in Locals
  /\ cycle.quote \in [Exit!Legs -> position.quotes \cup {Exit!NoQuote}]
  /\ cycle.seen \in [Exit!Legs -> 0 .. position.lots]
  /\ cycle.at <= clock
  /\ cycle.pc # "idle" => clock <= cycle.at + CycleMinutes
  /\ cycle.pc \in {"gate", "legs"} =>
       \A l \in Exit!Legs : l >= cycle.leg => held[l] = cycle.seen[l]

-----------------------------------------------------------------------------
(* A slide is cut short.                                                   *)

LEMMA InitExitTypes == ASSUME Exit!Init PROVE ExitTypes
<1> USE DEF Exit!Init
<1>1. position \in Positions /\ position.lots \in Nat /\ position.minutes \subseteq Nat
  BY PositionsAssumption
<1>2. cycle \in Locals
  BY IdleIsLocals
<1>3. cycle.at = -1 /\ cycle.pc = "idle" /\ cycle.quote = [l \in Exit!Legs |-> Exit!NoQuote]
      /\ cycle.seen = [l \in Exit!Legs |-> 0]
  BY DEF Exit!Idle, Exit!NotYet
<1>4. clock \in position.minutes /\ clock \in Nat /\ lastAction \in Int
  BY <1>1 DEF Exit!CooldownMinutes
<1>5. held \in [Exit!Legs -> 0 .. position.lots]
      /\ cycle.seen \in [Exit!Legs -> 0 .. position.lots]
      /\ cycle.quote \in [Exit!Legs -> position.quotes \cup {Exit!NoQuote}]
  BY <1>1, <1>3
<1>6. scaled \in BOOLEAN /\ streak \in 0 .. Exit!PersistCycles /\ under \in Nat
  <2>1. scaled \in BOOLEAN
    OBVIOUS
  <2>2. streak \in 0 .. Exit!PersistCycles /\ under \in Nat
    BY DEF Exit!PersistCycles
  <2> QED BY <2>1, <2>2
<1>7. cycle.at <= clock /\ cycle.pc = "idle"
  BY <1>3, <1>4
<1> HIDE DEF Exit!Init
<1> QED BY <1>1, <1>2, <1>4, <1>5, <1>6, <1>7 DEF ExitTypes

\* What an evaluation leaves in the cycle's locals.
Evaluated(quote) == Exit!evaluateTradingStrategy(Exit!buildAggregateMetrics(quote, held), clock,
                  lastAction, Exit!ScaleOutEnabled /\ scaled, streak + 1)

Snapshot(quote, c) ==
  /\ c.pc = "gate" /\ c.at = clock /\ c.acted = lastAction
  /\ c.runner = (Exit!ScaleOutEnabled /\ scaled) /\ c.quote = quote /\ c.seen = held
  /\ c.reason = Exit!Overridden(Evaluated(quote), clock)
  /\ c.left = Exit!MaxQuantity(c) /\ c.leg = 1 /\ c.sent = {}

LEMMA EvaluateStep ==
  ASSUME ExitTypes, Exit!Evaluate
  PROVE  /\ Exit!LegsHeld(held) # {} /\ cycle.pc = "idle" /\ clock > cycle.at
         /\ UNCHANGED <<clock, lastAction, held, scaled>>
         /\ cycle' \in Locals
         /\ \E quote \in [Exit!Legs -> position.quotes] :
              /\ Snapshot(quote, cycle')
              /\ streak' = IF Evaluated(quote) \in Exit!StopTriggerHeld
                           THEN Exit!Min({Exit!PersistCycles, streak + 1}) ELSE 0
              /\ under' = IF /\ Exit!UnderIntradayFloor(
                                  Exit!buildAggregateMetrics(quote, held), clock)
                             /\ ~Exit!MidConfirmDefers(Exit!buildAggregateMetrics(quote, held))
                             /\ Evaluated(quote) \notin Exit!Closes
                             /\ ~(Exit!ScaleOutEnabled /\ scaled)
                          THEN under + 1 ELSE 0
<1> DEFINE m(quote) == Exit!buildAggregateMetrics(quote, held)
           adds(quote) == /\ Exit!IsCash \/ ~position.isOvernight
                          /\ Evaluated(quote) \notin Exit!Closes \cup Exit!SuppressesAdds
           runner == Exit!ScaleOutEnabled /\ scaled
           reason(quote) == Exit!Overridden(Evaluated(quote), clock)
           c(quote) == [Exit!Idle EXCEPT !.pc = "gate", !.at = clock, !.acted = lastAction,
             !.runner = runner, !.quote = quote, !.seen = held,
             !.reason = reason(quote), !.adds = adds(quote)]
           d(quote) == [c(quote) EXCEPT !.left = Exit!MaxQuantity(c(quote))]
<1>1. PICK quote \in [Exit!Legs -> position.quotes] :
        /\ cycle' = d(quote)
        /\ streak' = IF Evaluated(quote) \in Exit!StopTriggerHeld
                     THEN Exit!Min({Exit!PersistCycles, streak + 1}) ELSE 0
        /\ under' = IF /\ Exit!UnderIntradayFloor(m(quote), clock)
                       /\ ~Exit!MidConfirmDefers(m(quote))
                       /\ Evaluated(quote) \notin Exit!Closes
                       /\ ~(Exit!ScaleOutEnabled /\ scaled)
                    THEN under + 1 ELSE 0
  BY DEF Exit!Evaluate, Evaluated
<1>2. position.quotes \subseteq Quote /\ position.lots \in Nat /\ position.minutes \subseteq Nat
  BY PositionsAssumption DEF ExitTypes
<1>3. quote \in [Exit!Legs -> Quote] /\ held \in [Exit!Legs -> Nat] /\ clock \in Nat
  BY <1>2 DEF ExitTypes
<1>4. Exit!Overridden(Evaluated(quote), clock) \in Exit!Reasons
  BY DecisionIsReason, OverriddenIsReason DEF Evaluated
<1>5. Exit!Idle \in Locals
  BY IdleIsLocals DEF ExitTypes
<1>6. c(quote) \in Locals
  <2>2. adds(quote) \in BOOLEAN /\ runner \in BOOLEAN /\ lastAction \in Int
    BY DEF ExitTypes
  <2>3. reason(quote) \in Exit!Reasons
    BY <1>4
  <2> HIDE DEF adds, runner, reason
  <2>4. clock \in Int /\ held \in [Exit!Legs -> Nat] /\ quote \in [Exit!Legs -> Quote]
    BY <1>3
  <2>5. "gate" \in {"idle", "gate", "legs", "manage"}
    OBVIOUS
  <2> QED BY <1>5, <2>2, <2>3, <2>4, <2>5 DEF Locals
<1>7. Exit!MaxQuantity(c(quote)) \in Nat
  <2> HIDE DEF c
  <2> QED BY <1>6, MaxQuantityIsNat DEF ExitTypes
<1>8. d(quote) \in Locals
  <2> HIDE DEF c
  <2> QED BY <1>6, <1>7 DEF Locals
<1>9. Snapshot(quote, cycle')
  <2>1. Exit!MaxQuantity(d(quote)) = Exit!MaxQuantity(c(quote))
    BY DEF Exit!MaxQuantity, Exit!IsPartial, Exit!Group, Exit!Idle
  <2> QED BY <1>1, <2>1 DEF Snapshot, Exit!Idle
<1> HIDE DEF d, c
<1> QED BY <1>1, <1>8, <1>9 DEF Exit!Evaluate, Exit!At

LEMMA EvaluateTypes == ASSUME ExitTypes, Exit!Evaluate, UNCHANGED position PROVE ExitTypes'
<1>1. PICK quote \in [Exit!Legs -> position.quotes] : Snapshot(quote, cycle')
  BY EvaluateStep
<1>2. cycle'.quote = quote /\ cycle'.seen = held /\ cycle'.at = clock /\ cycle'.pc = "gate"
  BY <1>1 DEF Snapshot
<1>3. streak' \in 0 .. Exit!PersistCycles /\ under' \in Nat
  <2>1. streak + 1 \in Int /\ Exit!PersistCycles = 2 /\ streak \in 0 .. 2 /\ under \in Nat
    BY DEF ExitTypes, Exit!PersistCycles
  <2> QED BY EvaluateStep, <2>1, ExitMin
<1>4. clock \in Nat /\ CycleMinutes \in Nat
  BY PositionsAssumption DEF ExitTypes
<1>5. Exit!Legs' = Exit!Legs
  BY DEF Exit!Legs
<1>6. /\ cycle' \in Locals' /\ position' \in Positions /\ clock' \in position'.minutes
      /\ lastAction' \in Int /\ held' \in [Exit!Legs' -> 0 .. position'.lots]
      /\ scaled' \in BOOLEAN
  BY EvaluateStep, <1>5 DEF ExitTypes, Locals
<1>7. /\ cycle'.quote \in [Exit!Legs' -> position'.quotes \cup {Exit!NoQuote}]
      /\ cycle'.seen \in [Exit!Legs' -> 0 .. position'.lots]
  BY <1>2, <1>5 DEF ExitTypes
<1>8. cycle'.at <= clock' /\ clock' <= cycle'.at + CycleMinutes
  BY <1>2, <1>4, EvaluateStep
<1>9. \A l \in Exit!Legs' : held'[l] = cycle'.seen[l]
  BY <1>2, <1>5, EvaluateStep
<1> QED BY <1>3, <1>6, <1>7, <1>8, <1>9 DEF ExitTypes

LEMMA GateTypes == ASSUME ExitTypes, Exit!Gate, UNCHANGED position PROVE ExitTypes'
<1>1. PICK step \in {"legs", "manage"} : cycle' = [cycle EXCEPT !.pc = step]
  BY DEF Exit!Gate
<1>2. cycle' \in Locals
  BY <1>1 DEF ExitTypes, Locals
<1>3. /\ cycle'.quote = cycle.quote /\ cycle'.seen = cycle.seen /\ cycle'.at = cycle.at
      /\ cycle'.leg = cycle.leg /\ cycle.pc = "gate"
  BY <1>1 DEF ExitTypes, Locals, Exit!Gate, Exit!At
<1>4. Exit!Legs' = Exit!Legs /\ Locals' = Locals
  BY DEF Exit!Legs, Locals
<1> QED BY <1>2, <1>3, <1>4 DEF ExitTypes, Exit!Gate

LEMMA SellTypes == ASSUME ExitTypes, Exit!SellLeg, UNCHANGED position PROVE ExitTypes'
<1> DEFINE l == cycle.leg
           quantity == Exit!Min({cycle.seen[l], cycle.left})
<1>1. cycle \in Locals /\ cycle.pc = "legs" /\ l \in Exit!Legs
  <2>1. Exit!At("legs") /\ ~Exit!LegsDone(cycle)
    BY DEF Exit!SellLeg
  <2>2. cycle.pc = "legs" /\ ~(l > position.legs)
    BY <2>1 DEF Exit!At, Exit!LegsDone
  <2> QED BY <2>2, LegsFinite DEF ExitTypes, Locals
<1>2. /\ cycle.seen[l] \in Nat /\ cycle.left \in Nat
      /\ quantity \in Nat /\ quantity <= cycle.seen[l] /\ quantity <= cycle.left
  <2>1. cycle.seen[l] \in Nat /\ cycle.left \in Nat
    BY <1>1 DEF Locals
  <2> QED BY <2>1, ExitMin
<1>3. cycle' \in Locals /\ cycle'.leg = l + 1
      /\ cycle'.quote = cycle.quote /\ cycle'.seen = cycle.seen /\ cycle'.at = cycle.at
      /\ cycle'.pc = "legs"
  <2> HIDE DEF quantity
  <2>1. \/ cycle' = [cycle EXCEPT !.leg = l + 1]
        \/ cycle' = [cycle EXCEPT !.leg = l + 1, !.left = @ - quantity, !.sent = @ \cup {l}]
    BY DEF Exit!SellLeg, quantity
  <2>2. cycle.left - quantity \in Nat /\ l + 1 \in Nat \ {0}
        /\ cycle.sent \cup {l} \in SUBSET Exit!Legs
    BY <1>1, <1>2 DEF Locals
  <2> QED BY ZenonT(30), <1>1, <2>1, <2>2 DEF Locals
<1>4. held[l] = cycle.seen[l] /\ held[l] \in 0 .. position.lots /\ position.lots \in Nat
  <2>1. l \in Int /\ l >= l
    BY <1>1 DEF Locals
  <2>2. position.lots \in Nat
    BY PositionsAssumption DEF ExitTypes
  <2>3. \A k \in Exit!Legs : k >= l => held[k] = cycle.seen[k]
    BY <1>1 DEF ExitTypes
  <2> QED BY <1>1, <2>1, <2>2, <2>3 DEF ExitTypes
<1>5. \/ held' = held /\ UNCHANGED <<lastAction, under>>
      \/ /\ held' = [held EXCEPT ![l] = @ - quantity]
         /\ lastAction' = clock /\ under' = 0
  BY DEF Exit!SellLeg
<1>6. held' \in [Exit!Legs -> 0 .. position.lots]
      /\ \A k \in Exit!Legs : k >= l + 1 => held'[k] = held[k]
  <2> HIDE DEF quantity
  <2>1. held[l] - quantity \in 0 .. position.lots
    BY <1>2, <1>4
  <2>2. held \in [Exit!Legs -> 0 .. position.lots] /\ l \in Int /\ Exit!Legs \subseteq Int
    BY <1>1, LegsFinite DEF ExitTypes
  <2>3. \A k \in Exit!Legs : k >= l + 1 => k # l
    BY <2>2
  <2>4. CASE held' = [held EXCEPT ![l] = held[l] - quantity]
    BY <1>1, <2>1, <2>2, <2>3, <2>4
  <2> QED BY <1>5, <2>2, <2>4
<1>7. Exit!Legs' = Exit!Legs /\ Locals' = Locals
  BY DEF Exit!Legs, Locals
<1>8. clock \in Int /\ lastAction' \in Int /\ under' \in Nat
  BY <1>5, PositionsAssumption DEF ExitTypes
<1>9. \A k \in Exit!Legs : k >= l + 1 => held'[k] = cycle'.seen[k]
  BY SMTT(30), <1>1, <1>3, <1>6 DEF ExitTypes, Exit!Legs
<1>10. UNCHANGED <<clock, scaled, streak>>
  BY DEF Exit!SellLeg
<1> HIDE DEF quantity
<1> QED BY <1>1, <1>3, <1>6, <1>7, <1>8, <1>9, <1>10 DEF ExitTypes

LEMMA RecordTypes == ASSUME ExitTypes, Exit!RecordScaled, UNCHANGED position PROVE ExitTypes'
<1>1. cycle' = [cycle EXCEPT !.pc = "manage"]
  BY DEF Exit!RecordScaled
<1>2. cycle' \in Locals
  BY <1>1 DEF ExitTypes, Locals
<1>3. /\ cycle'.quote = cycle.quote /\ cycle'.seen = cycle.seen /\ cycle'.at = cycle.at
      /\ cycle'.pc = "manage" /\ cycle.pc = "legs"
  BY <1>1 DEF ExitTypes, Locals, Exit!RecordScaled, Exit!At
<1>4. Exit!Legs' = Exit!Legs /\ Locals' = Locals
  BY DEF Exit!Legs, Locals
<1>5. scaled' \in BOOLEAN
  <2>1. Exit!IsPartial(cycle) \in BOOLEAN
    BY DEF Exit!IsPartial
  <2> QED BY <2>1 DEF Exit!RecordScaled, ExitTypes
<1> QED BY <1>2, <1>3, <1>4, <1>5 DEF ExitTypes, Exit!RecordScaled

LEMMA ManageTypes == ASSUME ExitTypes, Exit!Manage, UNCHANGED position PROVE ExitTypes'
<1>1. cycle' = [Exit!Idle EXCEPT !.at = cycle.at]
  BY DEF Exit!Manage
<1>2. Exit!Idle \in Locals /\ Exit!Idle.pc = "idle"
      /\ Exit!Idle.quote = [l \in Exit!Legs |-> Exit!NoQuote]
      /\ Exit!Idle.seen = [l \in Exit!Legs |-> 0]
  BY IdleIsLocals DEF ExitTypes, Exit!Idle
<1>3. cycle.at \in Int /\ cycle' \in Locals
  BY <1>1, <1>2 DEF ExitTypes, Locals
<1>4. /\ cycle'.quote = [l \in Exit!Legs |-> Exit!NoQuote]
      /\ cycle'.seen = [l \in Exit!Legs |-> 0] /\ cycle'.at = cycle.at /\ cycle'.pc = "idle"
  BY <1>1, <1>2 DEF Locals
<1>5. Exit!Legs' = Exit!Legs /\ Locals' = Locals /\ position.lots \in Nat
  BY PositionsAssumption DEF Exit!Legs, Locals, ExitTypes
<1>6. lastAction' \in Int /\ under' \in Nat
  BY PositionsAssumption DEF Exit!Manage, ExitTypes
<1>7. cycle'.quote \in [Exit!Legs -> position.quotes \cup {Exit!NoQuote}]
      /\ cycle'.seen \in [Exit!Legs -> 0 .. position.lots]
  BY <1>4, <1>5
<1> QED BY <1>3, <1>4, <1>5, <1>6, <1>7 DEF ExitTypes, Exit!Manage

LEMMA TimeTypes == ASSUME ExitTypes, Exit!TimePasses, UNCHANGED position PROVE ExitTypes'
<1>1. clock \in Nat /\ clock' \in position.minutes /\ clock' = clock + Interval
      /\ Interval \in Nat /\ CycleMinutes \in Nat /\ cycle.at \in Int
  BY PositionsAssumption DEF ExitTypes, Exit!TimePasses, Locals
<1>2. lastAction' \in Int
  <2>1. clock' - Exit!CooldownMinutes \in Int
    BY <1>1 DEF Exit!CooldownMinutes
  <2> QED BY <2>1, ExitMax DEF Exit!TimePasses, ExitTypes
<1>3. cycle.at <= clock' /\ (cycle.pc # "idle" => clock' <= cycle.at + CycleMinutes)
  BY <1>1 DEF Exit!TimePasses, ExitTypes, Exit!At
<1>4. Exit!Legs' = Exit!Legs /\ Locals' = Locals
  BY DEF Exit!Legs, Locals
<1> QED BY <1>1, <1>2, <1>3, <1>4 DEF ExitTypes, Exit!TimePasses

LEMMA NextTypes ==
  ASSUME ExitTypes, Exit!Next \/ UNCHANGED exitVars PROVE ExitTypes'
<1>1. CASE UNCHANGED exitVars
  BY <1>1 DEF exitVars, ExitTypes, Exit!Legs, Locals
<1>2. CASE Exit!DayEnds
  BY <1>2 DEF Exit!DayEnds, Exit!vars, ExitTypes, Exit!Legs, Locals
<1> QED BY <1>1, <1>2, EvaluateTypes, GateTypes, SellTypes, RecordTypes, ManageTypes, TimeTypes
      DEF Exit!Next

\* Within the cooldown cycles are counted against the minutes since the last fill;
\* after it only the streak's first observation adds one.
SlideInv ==
  /\ ExitTypes
  /\ lastAction <= clock
  /\ cycle.at = -1 => under = 0
  /\ cycle.at = -1 \/ cycle.at = clock \/ cycle.at + Interval <= clock
  /\ clock < lastAction + 10 =>
       under = 0 \/ under * Interval <= cycle.at - lastAction + Interval
  /\ under <= Exit!CoolingCycles + (IF streak > 0 THEN 1 ELSE 0)

LEMMA CoolingCyclesBound ==
  /\ Exit!CoolingCycles \in Nat
  /\ \A n \in Nat : n * Interval <= 9 + Interval => n <= Exit!CoolingCycles
<1> DEFINE c == Exit!CoolingCycles
<1>1. Interval \in Nat \ {0}
  BY PositionsAssumption
<1>2. c = (9 + Interval) \div Interval
  <2>1. 10 + Interval - 1 = 9 + Interval
    BY <1>1
  <2> QED BY <2>1 DEF Exit!CoolingCycles, Exit!CooldownMinutes
<1>3. c \in Int /\ 9 + Interval < c * Interval + Interval /\ c * Interval <= 9 + Interval
  <2> HIDE DEF c
  <2> QED BY <1>1, <1>2
<1>4. c \in Nat
  <2> HIDE DEF c
  <2> QED BY <1>1, <1>3
<1>5. ASSUME NEW n \in Nat, n * Interval <= 9 + Interval PROVE n <= c
  <2> HIDE DEF c
  <2>1. SUFFICES ASSUME n >= c + 1 PROVE FALSE
    BY <1>3
  <2>2. n * Interval >= (c + 1) * Interval
    BY <1>1, <1>3, <2>1
  <2> QED BY <1>1, <1>3, <1>5, <2>2
<1> QED BY <1>4, <1>5

LEMMA EvaluateCounts ==
  ASSUME ExitTypes, Exit!Evaluate
  PROVE  \/ under' = 0
         \/ under' = under + 1 /\ clock - lastAction < 10
         \/ under' = under + 1 /\ streak = 0 /\ streak' = 1
<1>1. PICK quote \in [Exit!Legs -> position.quotes] :
        /\ streak' = IF Evaluated(quote) \in Exit!StopTriggerHeld
                     THEN Exit!Min({Exit!PersistCycles, streak + 1}) ELSE 0
        /\ under' = IF /\ Exit!UnderIntradayFloor(
                            Exit!buildAggregateMetrics(quote, held), clock)
                       /\ ~Exit!MidConfirmDefers(Exit!buildAggregateMetrics(quote, held))
                       /\ Evaluated(quote) \notin Exit!Closes
                       /\ ~(Exit!ScaleOutEnabled /\ scaled)
                    THEN under + 1 ELSE 0
  BY EvaluateStep
<1> DEFINE m == Exit!buildAggregateMetrics(quote, held)
<1>2. SUFFICES ASSUME Exit!UnderIntradayFloor(m, clock), ~Exit!MidConfirmDefers(m),
                      Evaluated(quote) \notin Exit!Closes, ~(Exit!ScaleOutEnabled /\ scaled)
      PROVE  clock - lastAction < 10 \/ (streak = 0 /\ streak' = 1)
  BY <1>1
<1>3. Evaluated(quote) \in {"cooldown", "persistence"}
      /\ (Evaluated(quote) = "cooldown" => clock - lastAction < 10)
      /\ (Evaluated(quote) = "persistence" => streak + 1 < 2)
  <2> HIDE DEF m
  <2>1. Evaluated(quote) = Exit!evaluateTradingStrategy(m, clock, lastAction, FALSE, streak + 1)
    BY <1>2, Zenon DEF Evaluated, m
  <2> QED BY <1>2, <2>1 DEF Exit!evaluateTradingStrategy, Exit!resolveIntradayStop,
    Exit!resolveStopPersistence, Exit!Closes, Exit!CooldownMinutes, Exit!PersistCycles
<1>4. CASE Evaluated(quote) = "cooldown"
  BY <1>3, <1>4
<1>5. CASE Evaluated(quote) = "persistence"
  <2>1. streak = 0
    BY <1>3, <1>5 DEF ExitTypes, Exit!PersistCycles
  <2>2. Exit!Min({2, 0 + 1}) = 1
    BY ExitMin
  <2> QED BY <1>1, <1>5, <2>1, <2>2 DEF Exit!StopTriggerHeld, Exit!PersistCycles
<1> QED BY <1>3, <1>4, <1>5

LEMMA InitSlide == ASSUME Exit!Init PROVE SlideInv
<1>1. ExitTypes
  BY InitExitTypes
<1>2. cycle.at = -1 /\ under = 0 /\ lastAction <= clock
  BY <1>1, PositionsAssumption
    DEF Exit!Init, Exit!Idle, Exit!NotYet, Exit!CooldownMinutes, ExitTypes
<1> QED BY <1>1, <1>2, CoolingCyclesBound DEF SlideInv, ExitTypes

LEMMA SlideTypes ==
  ASSUME ExitTypes
  PROVE  /\ clock \in Nat /\ lastAction \in Int /\ under \in Nat /\ streak \in 0 .. 2
         /\ Interval \in Nat \ {0} /\ cycle.at \in Int /\ Exit!CoolingCycles \in Nat
         /\ cycle.at <= clock
BY PositionsAssumption, CoolingCyclesBound DEF ExitTypes, Locals, Exit!PersistCycles

LEMMA EvaluateSlide ==
  ASSUME SlideInv, Exit!Evaluate, ExitTypes'
  PROVE  SlideInv'
<1>1. /\ clock > cycle.at /\ clock' = clock /\ lastAction' = lastAction /\ cycle'.at = clock
  BY EvaluateStep DEF SlideInv, Snapshot
<1>2. /\ clock \in Nat /\ lastAction \in Int /\ under \in Nat /\ streak \in 0 .. 2
      /\ Interval \in Nat \ {0} /\ cycle.at \in Int /\ Exit!CoolingCycles \in Nat
      /\ under' \in Nat /\ streak' \in 0 .. 2
  BY SlideTypes DEF SlideInv, ExitTypes, Exit!PersistCycles
<1>3. clock < lastAction + 10 =>
        under' = 0 \/ under' * Interval <= clock - lastAction + Interval
  <2>1. SUFFICES ASSUME clock < lastAction + 10, under' = under + 1
        PROVE  under' * Interval <= clock - lastAction + Interval
    BY EvaluateCounts DEF SlideInv
  <2>2. under' * Interval = under * Interval + Interval
    BY <1>2, <2>1
  <2>3. CASE under = 0
    BY <1>2, <2>1, <2>3 DEF SlideInv
  <2>4. CASE under # 0
    <3> DEFINE p == under * Interval
    <3>1. p \in Int /\ p <= cycle.at - lastAction + Interval /\ cycle.at + Interval <= clock
      BY <1>1, <1>2, <2>1, <2>4 DEF SlideInv
    <3> HIDE DEF p
    <3>2. p + Interval <= clock - lastAction + Interval
      BY <1>2, <3>1
    <3> QED BY <2>2, <3>2 DEF p
  <2> QED BY <2>3, <2>4
<1>4. under' <= Exit!CoolingCycles + (IF streak' > 0 THEN 1 ELSE 0)
  <2>1. CASE under' = 0
    BY <1>2, <2>1
  <2>2. CASE under' # 0 /\ clock - lastAction < 10
    <3> DEFINE p == under' * Interval
    <3>4. clock < lastAction + 10
      BY <1>2, <2>2
    <3>5. p \in Int
      BY <1>2
    <3>1. p \in Int /\ p <= clock - lastAction + Interval
      BY <1>3, <2>2, <3>4, <3>5
    <3> HIDE DEF p
    <3>2. p <= 9 + Interval
      BY <1>2, <2>2, <3>1
    <3>3. under' <= Exit!CoolingCycles
      BY <1>2, <3>2, CoolingCyclesBound DEF p
    <3> QED BY <1>2, <3>3
  <2>3. CASE under' = under + 1 /\ streak = 0 /\ streak' = 1
    BY <1>2, <2>3 DEF SlideInv
  <2> QED BY <2>1, <2>2, <2>3, EvaluateCounts DEF SlideInv
<1>5. lastAction' <= clock' /\ cycle'.at # -1 /\ cycle'.at = clock'
  BY <1>1, <1>2 DEF SlideInv
<1>6. Exit!CoolingCycles' = Exit!CoolingCycles
  BY DEF Exit!CoolingCycles, Exit!CooldownMinutes
<1> QED BY <1>1, <1>3, <1>4, <1>5, <1>6 DEF SlideInv

\* The cycle goes on, or a fill renews the position.
LEMMA FillsRenew ==
  ASSUME SlideInv, ExitTypes', UNCHANGED <<clock, streak>>, cycle'.at = cycle.at,
         UNCHANGED <<lastAction, under>> \/ (lastAction' = clock /\ under' = 0)
  PROVE  SlideInv'
<1>1. /\ clock \in Nat /\ lastAction \in Int /\ under \in Nat /\ streak \in 0 .. 2
      /\ Interval \in Nat \ {0} /\ cycle.at \in Int /\ Exit!CoolingCycles \in Nat
  BY SlideTypes DEF SlideInv
<1>2. CASE UNCHANGED <<lastAction, under>>
  BY <1>2 DEF SlideInv
<1>3. CASE lastAction' = clock /\ under' = 0
  BY <1>1, <1>3 DEF SlideInv
<1> QED BY <1>2, <1>3

LEMMA TimeSlide == ASSUME SlideInv, Exit!TimePasses, ExitTypes' PROVE SlideInv'
<1>1. /\ clock \in Nat /\ lastAction \in Int /\ under \in Nat /\ streak \in 0 .. 2
      /\ Interval \in Nat \ {0} /\ cycle.at \in Int /\ Exit!CoolingCycles \in Nat
  BY SlideTypes DEF SlideInv
<1>2. clock' = clock + Interval /\ UNCHANGED <<streak, cycle, under>>
  BY DEF Exit!TimePasses
<1>3. lastAction' = IF lastAction >= clock' - 10 THEN lastAction ELSE clock' - 10
  <2>1. lastAction' = Exit!Max({lastAction, clock' - 10}) /\ clock' - 10 \in Int
    BY <1>1, <1>2 DEF Exit!TimePasses, Exit!CooldownMinutes
  <2> QED BY <1>1, <2>1, ExitMax
<1>4. clock' < lastAction' + 10 => lastAction' = lastAction /\ clock < lastAction + 10
  BY <1>1, <1>2, <1>3
<1>5. lastAction' <= clock'
  BY <1>1, <1>2, <1>3 DEF SlideInv
<1>6. cycle.at = -1 \/ cycle.at = clock' \/ cycle.at + Interval <= clock'
  BY <1>1, <1>2 DEF SlideInv
<1> QED BY <1>2, <1>4, <1>5, <1>6 DEF SlideInv

LEMMA NextSlide ==
  ASSUME SlideInv, Exit!Next \/ UNCHANGED exitVars PROVE SlideInv'
<1>1. ExitTypes /\ ExitTypes'
  BY NextTypes DEF SlideInv
<1>2. cycle \in Locals /\ DOMAIN cycle = {"pc", "at", "reason", "adds", "acted", "runner",
        "quote", "seen", "left", "leg", "sent"}
  BY <1>1 DEF ExitTypes, Locals
<1>3. CASE Exit!Gate
  <2>1. cycle'.at = cycle.at
    BY <1>2, <1>3 DEF Exit!Gate
  <2> QED BY <1>1, <1>3, <2>1, FillsRenew DEF Exit!Gate
<1>4. CASE Exit!SellLeg
  <2>1. cycle'.at = cycle.at
    BY <1>2, <1>4 DEF Exit!SellLeg
  <2>2. UNCHANGED <<clock, streak>>
        /\ (UNCHANGED <<lastAction, under>> \/ (lastAction' = clock /\ under' = 0))
    BY <1>4 DEF Exit!SellLeg
  <2> QED BY <1>1, <2>1, <2>2, FillsRenew
<1>5. CASE Exit!RecordScaled
  <2>1. cycle'.at = cycle.at
    BY <1>2, <1>5 DEF Exit!RecordScaled
  <2> QED BY <1>1, <1>5, <2>1, FillsRenew DEF Exit!RecordScaled
<1>6. CASE Exit!Manage
  <2>1. cycle'.at = cycle.at
    BY <1>6 DEF Exit!Manage, Exit!Idle
  <2>2. UNCHANGED <<clock, streak>>
        /\ (UNCHANGED <<lastAction, under>> \/ (lastAction' = clock /\ under' = 0))
    BY <1>6 DEF Exit!Manage
  <2> QED BY <1>1, <2>1, <2>2, FillsRenew
<1>7. CASE UNCHANGED exitVars
  BY <1>1, <1>7, FillsRenew DEF exitVars
<1>8. CASE Exit!DayEnds
  BY <1>1, <1>8, FillsRenew DEF Exit!DayEnds, Exit!vars
<1> QED BY <1>1, <1>3, <1>4, <1>5, <1>6, <1>7, <1>8, EvaluateSlide, TimeSlide DEF Exit!Next

\* Whatever is quoted, a stop whose condition holds cycle after cycle closes after
\* the cooldown's cycles and one more: evaluateTradingStrategy's cooldown and
\* resolveStopPersistence's streak do not keep putting each other off.
THEOREM SlidesAreCutShort == MCSpec => []SlideIsCutShortInWorld
<1> DEFINE Inv == world = "decision" => SlideInv
<1>1. MCInit => Inv
  BY InitSlide DEF MCInit
<1>2. Inv /\ [MCNext]_<<vars, exitVars, world>> => Inv'
  <2> SUFFICES ASSUME Inv, [MCNext]_<<vars, exitVars, world>>, world' = "decision"
               PROVE  SlideInv'
    OBVIOUS
  <2>1. world = "decision" /\ (Exit!Next \/ UNCHANGED exitVars)
    BY DEF MCNext
  <2> QED BY <2>1, NextSlide
<1>3. Inv => SlideIsCutShortInWorld
  <2> SUFFICES ASSUME SlideInv PROVE under <= Exit!CoolingCycles + Exit!PersistCycles - 1
    BY DEF SlideIsCutShortInWorld, Exit!SlideIsCutShort
  <2>1. under \in Nat /\ Exit!CoolingCycles \in Nat
    BY SlideTypes DEF SlideInv
  <2> QED BY <2>1 DEF SlideInv, Exit!PersistCycles
<1> QED BY <1>1, <1>2, <1>3, PTL DEF MCSpec

-----------------------------------------------------------------------------
(* What is decided is decided again.                                       *)

Target(minute) == Exit!getDynamicTakeProfitTarget(minute)

Past(minute) == IF minute <= 390 THEN 0 ELSE IF minute <= 775 THEN minute - 390 ELSE 385
Blended(past) == (31185 - 66 * past) \div 770

LEMMA BlendedFalls ==
  \A p \in 0 .. 385 : /\ Blended(p) \in 7 .. 40
                      /\ \A q \in 0 .. 385 : p <= q => Blended(q) <= Blended(p)
BY DEF Blended

LEMMA PastGrows ==
  \A first \in Nat : /\ Past(first) \in 0 .. 385
                     /\ \A last \in Nat : first <= last => Past(first) <= Past(last)
BY DEF Past

LEMMA TargetIsBlended ==
  ASSUME NEW minute \in Nat PROVE Target(minute) = Blended(Past(minute))
<1> DEFINE k == Exit!Min({minute - 390, 775 - 390})
<1>1. k = IF minute - 390 <= 385 THEN minute - 390 ELSE 385
  BY ExitMin
<1>2. Exit!Max({0, k}) = Past(minute)
  <2> HIDE DEF k
  <2>1. k \in Int
    BY <1>1
  <2>2. Exit!Max({0, k}) = IF 0 >= k THEN 0 ELSE k
    BY <2>1, ExitMax
  <2> QED BY <1>1, <2>1, <2>2 DEF Past
<1>3. Past(minute) \in 0 .. 385
  BY PastGrows
<1> QED BY <1>2, <1>3 DEF Target, Exit!getDynamicTakeProfitTarget, Exit!calcTimeBlend,
  Exit!OPEN, Blended

\* The target falls from 40 percent to 7.
LEMMA TargetFalls ==
  /\ \A minute \in Nat : Target(minute) \in 7 .. 40
  /\ \A first, last \in Nat : first <= last => Target(last) <= Target(first)
<1>1. ASSUME NEW minute \in Nat
      PROVE  Past(minute) \in 0 .. 385 /\ Target(minute) = Blended(Past(minute))
  BY PastGrows, TargetIsBlended
<1>2. ASSUME NEW minute \in Nat PROVE Target(minute) \in 7 .. 40
  <2>1. Past(minute) \in 0 .. 385 /\ Target(minute) = Blended(Past(minute))
    BY <1>1
  <2>2. Blended(Past(minute)) \in 7 .. 40
    BY <2>1, BlendedFalls
  <2> QED BY <2>1, <2>2
<1>3. ASSUME NEW first \in Nat, NEW last \in Nat, first <= last
      PROVE  Target(last) <= Target(first)
  <2>1. Past(first) <= Past(last)
    BY <1>3, PastGrows
  <2> QED BY <1>1, <2>1, BlendedFalls
<1> QED BY <1>2, <1>3

LEMMA Scale ==
  \A s \in Nat \ {0}, x, y \in Int : (s * x <= s * y <=> x <= y) /\ (s * x < s * y <=> x < y)
OBVIOUS

\* Two metrics that no threshold tells apart.
Alike(g, o) ==
  /\ g.n \in Nat /\ o.n \in Nat
  /\ \A k \in Int : /\ g.bid <= k * g.n <=> o.bid <= k * o.n
                    /\ g.bid >= k * g.n <=> o.bid >= k * o.n
                    /\ 2 * g.bid >= 3 * k * g.n <=> 2 * o.bid >= 3 * k * o.n
                    /\ Exit!MidReaches(g, k) <=> Exit!MidReaches(o, k)
                    /\ Exit!MidIsAtMost(g, k) <=> Exit!MidIsAtMost(o, k)
  /\ g.bid >= 0 <=> o.bid >= 0
  /\ g.bid <= 0 <=> o.bid <= 0
  /\ Exit!MidConfirmDefers(g) <=> Exit!MidConfirmDefers(o)

\* A group of one kind of contract: its metrics are the contract's, times their number.
LEMMA ManyAsOne ==
  ASSUME NEW s \in Nat \ {0}, NEW b \in Int, NEW a \in Int,
         NEW g, g = [bid |-> s * b, ask |-> s * a, n |-> s],
         NEW o, o = [bid |-> b, ask |-> a, n |-> 1]
  PROVE  Alike(g, o)
<1>1. Exit!hasArguableQuote(g) <=> Exit!hasArguableQuote(o)
  <2>1. s * b > (-100) * s <=> b > -100
    BY Scale
  <2>2. s * a >= s * b <=> a >= b
    BY Scale
  <2> QED BY <2>1, <2>2 DEF Exit!hasArguableQuote
<1>2. ASSUME NEW k \in Int
      PROVE  /\ g.bid <= k * g.n <=> o.bid <= k * o.n
             /\ g.bid >= k * g.n <=> o.bid >= k * o.n
  BY Scale
<1>3. ASSUME NEW k \in Int PROVE 2 * g.bid >= 3 * k * g.n <=> 2 * o.bid >= 3 * k * o.n
  <2>1. 2 * (s * b) = s * (2 * b) /\ 3 * k * s = s * (3 * k)
    OBVIOUS
  <2>2. s * (3 * k) <= s * (2 * b) <=> 3 * k <= 2 * b
    BY Scale
  <2> QED BY <2>1, <2>2
<1>4. ASSUME NEW k \in Int
      PROVE  /\ g.bid + g.ask <= 2 * k * g.n <=> o.bid + o.ask <= 2 * k * o.n
             /\ g.bid + g.ask >= 2 * k * g.n <=> o.bid + o.ask >= 2 * k * o.n
  <2>1. s * b + s * a = s * (b + a) /\ 2 * k * s = s * (2 * k)
    OBVIOUS
  <2>2. /\ s * (b + a) <= s * (2 * k) <=> b + a <= 2 * k
        /\ s * (2 * k) <= s * (b + a) <=> 2 * k <= b + a
    BY Scale
  <2> QED BY <2>1, <2>2
<1>5. g.bid + g.ask > -2 * 20 * g.n <=> o.bid + o.ask > -2 * 20 * o.n
  <2>1. s * b + s * a = s * (b + a) /\ -2 * 20 * s = s * (-40)
    OBVIOUS
  <2>2. s * (-40) < s * (b + a) <=> -40 < b + a
    BY Scale
  <2> QED BY <2>1, <2>2
<1>6. g.bid >= 0 /\ g.bid <= 0 <=> o.bid >= 0 /\ o.bid <= 0
  OBVIOUS
<1>7. (g.bid >= 0 <=> o.bid >= 0) /\ (g.bid <= 0 <=> o.bid <= 0)
  <2>1. s * 0 = 0 /\ 0 \in Int
    OBVIOUS
  <2>2. (s * 0 <= s * b <=> 0 <= b) /\ (s * b <= s * 0 <=> b <= 0)
    BY Scale
  <2> QED BY <2>1, <2>2
<1>8. \A k \in Int : (Exit!MidReaches(g, k) <=> Exit!MidReaches(o, k))
                     /\ (Exit!MidIsAtMost(g, k) <=> Exit!MidIsAtMost(o, k))
  BY <1>1, <1>4 DEF Exit!MidReaches, Exit!MidIsAtMost
<1>9. Exit!MidConfirmDefers(g) <=> Exit!MidConfirmDefers(o)
  BY <1>1, <1>5 DEF Exit!MidConfirmDefers, Exit!MidConfirmFloor
<1> QED BY <1>2, <1>3, <1>7, <1>8, <1>9 DEF Alike

LEMMA DecidedAlike ==
  ASSUME NEW g, NEW o, Alike(g, o),
         NEW minute \in Nat, NEW acted, NEW runner, NEW observed
  PROVE  Exit!evaluateTradingStrategy(g, minute, acted, runner, observed)
           = Exit!evaluateTradingStrategy(o, minute, acted, runner, observed)
<1> DEFINE t == Exit!getDynamicTakeProfitTarget(minute)
<1>1. t \in Int /\ t + 5 \in Int
  BY TargetFalls DEF Target
<1>2. /\ (g.bid >= t * g.n <=> o.bid >= t * o.n)
      /\ (2 * g.bid >= 3 * t * g.n <=> 2 * o.bid >= 3 * t * o.n)
      /\ (Exit!MidReaches(g, t + 5) <=> Exit!MidReaches(o, t + 5))
      /\ (g.bid >= 0 <=> o.bid >= 0) /\ (g.bid <= 0 <=> o.bid <= 0)
      /\ (Exit!MidConfirmDefers(g) <=> Exit!MidConfirmDefers(o))
  <2> HIDE DEF t
  <2> QED BY <1>1 DEF Alike
<1>3. /\ (g.bid <= -30 * g.n <=> o.bid <= -30 * o.n)
      /\ (g.bid <= -45 * g.n <=> o.bid <= -45 * o.n)
      /\ (g.bid <= -10 * g.n <=> o.bid <= -10 * o.n)
      /\ (Exit!MidIsAtMost(g, -45) <=> Exit!MidIsAtMost(o, -45))
  <2>1. /\ (g.bid <= (-30) * g.n <=> o.bid <= (-30) * o.n)
        /\ (g.bid <= (-45) * g.n <=> o.bid <= (-45) * o.n)
        /\ (g.bid <= (-10) * g.n <=> o.bid <= (-10) * o.n)
        /\ (Exit!MidIsAtMost(g, -45) <=> Exit!MidIsAtMost(o, -45))
    BY DEF Alike
  <2>2. g.n \in Int /\ o.n \in Int
    BY DEF Alike
  <2>3. /\ -30 * g.n = (-30) * g.n /\ -45 * g.n = (-45) * g.n /\ -10 * g.n = (-10) * g.n
        /\ -30 * o.n = (-30) * o.n /\ -45 * o.n = (-45) * o.n /\ -10 * o.n = (-10) * o.n
    BY <2>2
  <2> QED BY <2>1, <2>3
<1>4. Exit!TakeProfit(g, minute) <=> Exit!TakeProfit(o, minute)
  BY <1>2 DEF Exit!TakeProfit, Exit!MidMargin
<1>5. Exit!UnderIntradayFloor(g, minute) <=> Exit!UnderIntradayFloor(o, minute)
  BY <1>3 DEF Exit!UnderIntradayFloor, Exit!IntradayFloor
<1>6. Exit!evaluateScaledRunner(g, minute) = Exit!evaluateScaledRunner(o, minute)
  BY <1>2 DEF Exit!evaluateScaledRunner
<1>7. Exit!resolveStopPersistence(g, observed) <=> Exit!resolveStopPersistence(o, observed)
  BY <1>3 DEF Exit!resolveStopPersistence, Exit!BypassFloor
<1>8. Exit!resolveIntradayStop(g, observed) = Exit!resolveIntradayStop(o, observed)
  BY <1>2, <1>7 DEF Exit!resolveIntradayStop
<1>9. g.bid <= -Exit!EodFloor * g.n <=> o.bid <= -Exit!EodFloor * o.n
  BY <1>3 DEF Exit!EodFloor
<1> QED BY <1>4, <1>5, <1>6, <1>8, <1>9 DEF Exit!evaluateTradingStrategy

\* The metrics of a group that is one kind of contract.
LEMMA GroupOfOne ==
  ASSUME position \in Positions, position.legs = 1,
         NEW quote \in [Exit!Legs -> Quote], NEW h \in [Exit!Legs -> Nat]
  PROVE  /\ Exit!Legs = {1} /\ quote[1].bid \in Int /\ quote[1].ask \in Int /\ h[1] \in Nat
         /\ Exit!buildAggregateMetrics(quote, h)
              = [bid |-> h[1] * quote[1].bid, ask |-> h[1] * quote[1].ask, n |-> h[1]]
<1>1. Exit!Legs = {1}
  <2>1. \A x : x \in 1 .. 1 <=> x \in {1}
    OBVIOUS
  <2>2. 1 .. 1 = {1}
    BY <2>1
  <2> QED BY <2>2 DEF Exit!Legs
<1>2. quote[1].bid \in Int /\ quote[1].ask \in Int /\ h[1] \in Nat
  BY <1>1 DEF Quote
<1> DEFINE b == [l \in Exit!Legs |-> h[l] * quote[l].bid]
           a == [l \in Exit!Legs |-> h[l] * quote[l].ask]
<1>3. b[1] = h[1] * quote[1].bid /\ b[1] \in Int /\ a[1] = h[1] * quote[1].ask /\ a[1] \in Int
  BY <1>1, <1>2
<1>4. /\ Exit!SumOver({1}, b) = b[1] /\ Exit!SumOver({1}, a) = a[1]
      /\ Exit!SumOver({1}, h) = h[1]
  <2> HIDE DEF a, b
  <2>1. Exit!SumOver({1}, b) = b[1]
    BY <1>3, SumOverOne
  <2>2. Exit!SumOver({1}, a) = a[1]
    BY <1>3, SumOverOne
  <2>3. Exit!SumOver({1}, h) = h[1]
    <3>1. h[1] \in Int
      BY <1>2
    <3> QED BY <3>1, SumOverOne
  <2> QED BY <2>1, <2>2, <2>3
<1> QED BY <1>1, <1>2, <1>3, <1>4 DEF Exit!buildAggregateMetrics

\* Evaluated again, and of the leg alone, the strategy closes at any later minute.
Certain(c) ==
  \A minute \in Nat : minute >= c.at =>
    Exit!evaluateTradingStrategy(Exit!OneLeg(c, 1), minute, c.acted, c.runner, 0)
      \in Exit!Closes

Risk == {"stop", "eod", "eod-stop", "ratchet"}

LEMMA RiskIsCertain ==
  ASSUME NEW o, o.bid \in Int, o.ask \in Int, o.n = 1,
         NEW first \in Nat, NEW last \in Nat, first <= last,
         NEW acted \in Int, NEW runner \in BOOLEAN, NEW observed,
         Exit!evaluateTradingStrategy(o, first, acted, runner, observed) \in Risk
  PROVE  Exit!evaluateTradingStrategy(o, last, acted, runner, 0) \in Exit!Closes
<1>1. last >= 770 /\ ~Exit!IsCash =>
        Exit!evaluateTradingStrategy(o, last, acted, runner, 0) = "eod"
  BY DEF Exit!evaluateTradingStrategy, Exit!EOD_ARMED_MINUTE
<1>2. SUFFICES ASSUME ~(last >= 770 /\ ~Exit!IsCash)
      PROVE  Exit!evaluateTradingStrategy(o, last, acted, runner, 0) \in Exit!Closes
  BY <1>1 DEF Exit!Closes
<1>3. ~(first >= 770 /\ ~Exit!IsCash)
  BY <1>2
<1>4. CASE runner
  <2>1. Exit!evaluateScaledRunner(o, first) \in Risk
    BY <1>3, <1>4 DEF Exit!evaluateTradingStrategy, Exit!EOD_ARMED_MINUTE
  <2>2. o.bid <= 0
    BY <2>1 DEF Exit!evaluateScaledRunner, Risk
  <2>3. Exit!evaluateScaledRunner(o, last) \in Exit!Closes
    BY <2>2 DEF Exit!evaluateScaledRunner, Exit!Closes
  <2> QED BY <1>2, <1>4, <2>3 DEF Exit!evaluateTradingStrategy, Exit!EOD_ARMED_MINUTE
<1>5. CASE ~runner
  <2>1. /\ first - acted >= 10
        /\ \/ o.bid <= -30 /\ ~Exit!MidConfirmDefers(o)
           \/ first >= Exit!getNoBuyCutoffMinute /\ o.bid <= -10
    <3>1. ~Exit!TakeProfit(o, first) /\ ~(first - acted < 10)
      BY <1>3, <1>5 DEF Exit!evaluateTradingStrategy, Exit!EOD_ARMED_MINUTE, Risk,
        Exit!CooldownMinutes
    <3>2. CASE Exit!UnderIntradayFloor(o, first)
      <4>1. Exit!resolveIntradayStop(o, observed) \in Risk
        BY <1>3, <1>5, <3>1, <3>2 DEF Exit!evaluateTradingStrategy, Exit!EOD_ARMED_MINUTE,
          Exit!CooldownMinutes
      <4>2. ~Exit!MidConfirmDefers(o)
        BY <4>1 DEF Exit!resolveIntradayStop, Risk
      <4> QED BY <3>1, <3>2, <4>2 DEF Exit!UnderIntradayFloor, Exit!IntradayFloor
    <3>3. CASE ~Exit!UnderIntradayFloor(o, first)
      <4>1. first >= Exit!getNoBuyCutoffMinute /\ o.bid <= -10 * o.n
        BY <1>3, <1>5, <3>1, <3>3 DEF Exit!evaluateTradingStrategy, Exit!EOD_ARMED_MINUTE,
          Exit!CooldownMinutes, Exit!EodFloor, Risk
      <4> QED BY <3>1, <4>1
    <3> QED BY <3>2, <3>3
  <2>2. ~(last - acted < 10) /\ Exit!getNoBuyCutoffMinute \in Int
    BY <2>1 DEF Exit!getNoBuyCutoffMinute
  <2>3. CASE Exit!UnderIntradayFloor(o, last)
    <3>1. ~Exit!MidConfirmDefers(o)
      BY <2>1, <2>2, <2>3 DEF Exit!UnderIntradayFloor
    <3>2. Exit!resolveIntradayStop(o, 0) = "stop"
      BY <3>1 DEF Exit!resolveIntradayStop, Exit!resolveStopPersistence
    <3> QED BY <1>2, <1>5, <2>2, <2>3, <3>2 DEF Exit!evaluateTradingStrategy,
      Exit!EOD_ARMED_MINUTE, Exit!CooldownMinutes, Exit!Closes
  <2>4. CASE ~Exit!UnderIntradayFloor(o, last)
    <3>1. last >= Exit!getNoBuyCutoffMinute /\ o.bid <= -10 * o.n
      BY <2>1, <2>2, <2>4 DEF Exit!UnderIntradayFloor, Exit!IntradayFloor
    <3> QED BY <1>2, <1>5, <2>2, <2>4, <3>1 DEF Exit!evaluateTradingStrategy,
      Exit!EOD_ARMED_MINUTE, Exit!CooldownMinutes, Exit!Closes, Exit!EodFloor
  <2> QED BY <2>3, <2>4
<1> QED BY <1>4, <1>5

\* A risk close under way: certain, and its leg sent when the legs are done.
RiskInv ==
  /\ ExitTypes
  /\ position.legs = 1 /\ cycle.pc # "idle" /\ cycle.reason \in Risk =>
       /\ Certain(cycle) /\ cycle.seen[1] > 0
       /\ \/ /\ cycle.pc \in {"gate", "legs"} /\ cycle.leg = 1
             /\ cycle.left = cycle.seen[1]
          \/ /\ cycle.pc \in {"legs", "manage"}
             /\ Exit!HasMidpoint(cycle.quote[1]) => 1 \in cycle.sent

LEMMA LocalsShape ==
  ASSUME ExitTypes
  PROVE  /\ cycle \in Locals
         /\ DOMAIN cycle = {"pc", "at", "reason", "adds", "acted", "runner", "quote", "seen",
                            "left", "leg", "sent"}
BY DEF ExitTypes, Locals

LEMMA SomeHeld ==
  ASSUME ExitTypes, Exit!LegsHeld(held) # {}, Exit!Legs = {1}
  PROVE  held[1] \in Nat \ {0}
BY PositionsAssumption DEF ExitTypes, Exit!LegsHeld

\* What is decided for the group is what would be decided for its only leg.
LEMMA AskedOfOne ==
  ASSUME ExitTypes, position.legs = 1, Exit!LegsHeld(held) # {},
         NEW quote \in [Exit!Legs -> position.quotes], NEW c \in Locals, Snapshot(quote, c)
  PROVE  /\ Exit!Legs = {1} /\ held[1] \in Nat \ {0}
         /\ Exit!OneLeg(c, 1) = [bid |-> quote[1].bid, ask |-> quote[1].ask, n |-> 1]
         /\ quote[1].bid \in Int /\ quote[1].ask \in Int
         /\ Exit!Group(c) = [bid |-> held[1] * quote[1].bid, ask |-> held[1] * quote[1].ask,
                             n |-> held[1]]
         /\ Evaluated(quote)
              = Exit!evaluateTradingStrategy(Exit!OneLeg(c, 1), clock, lastAction, c.runner,
                  streak + 1)
<1>1. quote \in [Exit!Legs -> Quote] /\ held \in [Exit!Legs -> Nat] /\ clock \in Nat
      /\ position \in Positions
  BY PositionsAssumption DEF ExitTypes
<1> DEFINE g == Exit!buildAggregateMetrics(quote, held)
           o == Exit!OneLeg(c, 1)
<1>2. /\ Exit!Legs = {1} /\ quote[1].bid \in Int /\ quote[1].ask \in Int
      /\ g = [bid |-> held[1] * quote[1].bid, ask |-> held[1] * quote[1].ask, n |-> held[1]]
  BY <1>1, GroupOfOne
<1>3. held[1] \in Nat \ {0}
  BY <1>2, SomeHeld
<1>4. o = [bid |-> quote[1].bid, ask |-> quote[1].ask, n |-> 1]
  BY DEF Exit!OneLeg, Snapshot
<1>5. Exit!Group(c) = g
  BY DEF Exit!Group, Snapshot
<1>6. Alike(g, o)
  <2> HIDE DEF g, o
  <2> QED BY <1>2, <1>3, <1>4, ManyAsOne
<1>7. Evaluated(quote)
        = Exit!evaluateTradingStrategy(g, clock, lastAction, c.runner, streak + 1)
  BY DEF Evaluated, Snapshot
<1> HIDE DEF g, o
<1>8. Evaluated(quote)
        = Exit!evaluateTradingStrategy(o, clock, lastAction, c.runner, streak + 1)
  BY <1>1, <1>6, <1>7, DecidedAlike
<1> QED BY <1>2, <1>3, <1>4, <1>5, <1>8 DEF o

\* What the strategy says depends on the position, which stays.
LEMMA CertainLater ==
  ASSUME UNCHANGED position PROVE Certain(cycle)' <=> Certain(cycle')
BY DEF Certain, Exit!OneLeg, Exit!evaluateTradingStrategy, Exit!evaluateScaledRunner,
  Exit!TakeProfit, Exit!UnderIntradayFloor, Exit!resolveIntradayStop,
  Exit!resolveStopPersistence, Exit!MidConfirmDefers, Exit!MidIsAtMost, Exit!MidReaches,
  Exit!hasArguableQuote, Exit!getNoBuyCutoffMinute, Exit!IsCash, Exit!Closes,
  Exit!getDynamicTakeProfitTarget, Exit!calcTimeBlend

LEMMA EvaluateRisk ==
  ASSUME RiskInv, Exit!Evaluate, UNCHANGED position, ExitTypes'
  PROVE  RiskInv'
<1>1. PICK quote \in [Exit!Legs -> position.quotes] : Snapshot(quote, cycle')
  BY EvaluateStep DEF RiskInv
<1>2. SUFFICES ASSUME position.legs = 1, cycle'.reason \in Risk
      PROVE  /\ Certain(cycle') /\ cycle'.seen[1] > 0
             /\ cycle'.pc \in {"gate", "legs"} /\ cycle'.leg = 1
             /\ cycle'.left = cycle'.seen[1]
  BY CertainLater DEF RiskInv
<1> DEFINE o == Exit!OneLeg(cycle', 1)
<1>3. cycle' \in Locals /\ Exit!LegsHeld(held) # {} /\ ExitTypes
  BY EvaluateStep DEF RiskInv
<1>4. /\ Exit!Legs = {1} /\ held[1] \in Nat \ {0}
      /\ o = [bid |-> quote[1].bid, ask |-> quote[1].ask, n |-> 1]
      /\ quote[1].bid \in Int /\ quote[1].ask \in Int
      /\ Exit!Group(cycle').n = held[1]
      /\ Evaluated(quote) = Exit!evaluateTradingStrategy(o, clock, lastAction, cycle'.runner,
                          streak + 1)
  BY <1>1, <1>2, <1>3, AskedOfOne
<1>5. Evaluated(quote) \in Risk
  BY <1>1, <1>2 DEF Snapshot, Exit!Overridden, Risk
<1>6. clock \in Nat /\ lastAction \in Int /\ cycle'.runner \in BOOLEAN
  BY <1>3, PositionsAssumption DEF ExitTypes, Locals
<1>7. o.bid \in Int /\ o.ask \in Int /\ o.n = 1
  BY <1>4
<1>8. ASSUME NEW minute \in Nat, minute >= clock
      PROVE  Exit!evaluateTradingStrategy(o, minute, lastAction, cycle'.runner, 0)
               \in Exit!Closes
  <2> HIDE DEF o
  <2>1. clock <= minute
    BY <1>6, <1>8
  <2> QED BY <1>4, <1>5, <1>6, <1>7, <2>1, RiskIsCertain
<1>9. Certain(cycle')
  BY <1>1, <1>8 DEF Certain, Snapshot
<1>10. cycle'.left = held[1]
  BY <1>1, <1>2, <1>4 DEF Snapshot, Exit!MaxQuantity, Exit!IsPartial, Risk
<1> QED BY <1>1, <1>4, <1>9, <1>10 DEF Snapshot

\* Every other step keeps what the decision was made of.
LEMMA DecisionKept ==
  ASSUME cycle'.quote = cycle.quote, cycle'.at = cycle.at, cycle'.acted = cycle.acted,
         cycle'.runner = cycle.runner, UNCHANGED position
  PROVE  Certain(cycle)' <=> Certain(cycle)
BY CertainLater DEF Certain, Exit!OneLeg

LEMMA GateRisk ==
  ASSUME RiskInv, Exit!Gate, UNCHANGED position, ExitTypes'
  PROVE  RiskInv'
<1>1. PICK step \in {"legs", "manage"} :
        /\ cycle' = [cycle EXCEPT !.pc = step] /\ cycle.pc = "gate"
        /\ cycle.reason \in Risk => step = "legs"
  BY DEF Exit!Gate, Exit!At, Risk, Exit!Closes, Exit!UrgentReasons,
    Exit!shouldSkipClosePositionForMorningSpread
<1>2. /\ cycle'.quote = cycle.quote /\ cycle'.at = cycle.at /\ cycle'.acted = cycle.acted
      /\ cycle'.runner = cycle.runner /\ cycle'.seen = cycle.seen /\ cycle'.left = cycle.left
      /\ cycle'.leg = cycle.leg /\ cycle'.reason = cycle.reason /\ cycle'.pc = step
  BY <1>1, LocalsShape DEF RiskInv
<1>3. Certain(cycle)' <=> Certain(cycle)
  BY <1>2, DecisionKept
<1> QED BY <1>1, <1>2, <1>3 DEF RiskInv, Exit!HasMidpoint

LEMMA SellRisk ==
  ASSUME RiskInv, Exit!SellLeg, UNCHANGED position, ExitTypes'
  PROVE  RiskInv'
<1> DEFINE l == cycle.leg
           quantity == Exit!Min({cycle.seen[l], cycle.left})
<1>1. /\ cycle.pc = "legs"
      /\ \/ Exit!Skipped(cycle, l, clock) /\ cycle' = [cycle EXCEPT !.leg = l + 1]
         \/ cycle' = [cycle EXCEPT !.leg = l + 1, !.left = @ - quantity, !.sent = @ \cup {l}]
  BY DEF Exit!SellLeg, Exit!At
<1> HIDE DEF quantity
<1>2. /\ cycle'.quote = cycle.quote /\ cycle'.at = cycle.at /\ cycle'.acted = cycle.acted
      /\ cycle'.runner = cycle.runner /\ cycle'.seen = cycle.seen
      /\ cycle'.reason = cycle.reason /\ cycle'.pc = "legs" /\ cycle.sent \subseteq cycle'.sent
      /\ Exit!Skipped(cycle, l, clock) \/ l \in cycle'.sent
  BY ZenonT(30), <1>1, LocalsShape DEF RiskInv
<1>3. Certain(cycle)' <=> Certain(cycle)
  BY <1>2, DecisionKept
<1>4. SUFFICES ASSUME position.legs = 1, cycle.reason \in Risk,
                      Exit!HasMidpoint(cycle.quote[1])
      PROVE  1 \in cycle'.sent
  BY <1>1, <1>2, <1>3 DEF RiskInv, Exit!HasMidpoint
<1>5. CASE l = 1
  <2>1. cycle.seen[1] # 0 /\ Certain(cycle) /\ clock \in Nat /\ clock >= cycle.at
    <3>1. position.legs = 1 /\ cycle.pc # "idle" /\ cycle.reason \in Risk
      BY <1>1, <1>4
    <3>2. Certain(cycle) /\ cycle.seen[1] > 0
      BY <3>1 DEF RiskInv
    <3> QED BY <3>2, PositionsAssumption DEF RiskInv, ExitTypes, Locals
  <2>2. ~Exit!hasStrategyRecoveredAtExecution(cycle, 1, clock)
    BY <2>1 DEF Certain, Exit!hasStrategyRecoveredAtExecution
  <2> QED BY <1>2, <1>4, <1>5, <2>1, <2>2 DEF Exit!Skipped
<1>6. CASE l # 1
  BY <1>1, <1>2, <1>4, <1>6 DEF RiskInv
<1> QED BY <1>5, <1>6

LEMMA RecordRisk ==
  ASSUME RiskInv, Exit!RecordScaled, UNCHANGED position, ExitTypes'
  PROVE  RiskInv'
<1>1. cycle.pc = "legs" /\ Exit!LegsDone(cycle) /\ cycle' = [cycle EXCEPT !.pc = "manage"]
  BY DEF Exit!RecordScaled, Exit!At
<1>2. /\ cycle'.quote = cycle.quote /\ cycle'.at = cycle.at /\ cycle'.acted = cycle.acted
      /\ cycle'.runner = cycle.runner /\ cycle'.seen = cycle.seen /\ cycle'.sent = cycle.sent
      /\ cycle'.reason = cycle.reason /\ cycle'.pc = "manage"
  BY <1>1, LocalsShape DEF RiskInv
<1>3. Certain(cycle)' <=> Certain(cycle)
  BY <1>2, DecisionKept
<1>4. SUFFICES ASSUME position.legs = 1, cycle.reason \in Risk,
                      Exit!HasMidpoint(cycle.quote[1])
      PROVE  1 \in cycle.sent
  BY <1>1, <1>2, <1>3 DEF RiskInv, Exit!HasMidpoint
<1>5. cycle.leg > 1 \/ cycle.left = 0
  BY <1>1, <1>4 DEF Exit!LegsDone
<1> QED BY <1>1, <1>4, <1>5 DEF RiskInv

LEMMA NextRisk ==
  ASSUME RiskInv, Exit!Next \/ UNCHANGED exitVars PROVE RiskInv'
<1>1. ExitTypes'
  BY NextTypes DEF RiskInv
<1>2. CASE Exit!Manage
  <2>1. cycle'.pc = "idle"
    BY <1>2 DEF Exit!Manage, Exit!Idle
  <2> QED BY <1>1, <2>1 DEF RiskInv
<1>3. CASE UNCHANGED <<position, cycle>>
  <2>1. Certain(cycle)' <=> Certain(cycle)
    BY <1>3, DecisionKept
  <2> QED BY <1>1, <1>3, <2>1 DEF RiskInv, Exit!HasMidpoint
<1>4. Exit!TimePasses \/ Exit!DayEnds => UNCHANGED cycle
  BY DEF Exit!TimePasses, Exit!DayEnds, Exit!vars
<1>5. UNCHANGED exitVars => UNCHANGED <<position, cycle>>
  BY DEF exitVars
<1> QED BY <1>1, <1>2, <1>3, <1>4, <1>5, EvaluateRisk, GateRisk, SellRisk, RecordRisk
  DEF Exit!Next

\* A stop, ratchet, end-of-day stop or forced close of a group of one contract is
\* sent in its cycle, however long closePosition takes to reach the leg: its
\* second asking (hasStrategyRecoveredAtExecution) agrees with the first.
THEOREM RiskClosesAreCarriedOut == MCSpec => []RiskCloseIsCarriedOutIfOne
<1> DEFINE Inv == world = "decision" => RiskInv
<1>1. MCInit => Inv
  <2>1. Exit!Init => cycle.pc = "idle"
    BY DEF Exit!Init, Exit!Idle
  <2> QED BY <2>1, InitExitTypes DEF MCInit, RiskInv
<1>2. Inv /\ [MCNext]_<<vars, exitVars, world>> => Inv'
  <2> SUFFICES ASSUME Inv, [MCNext]_<<vars, exitVars, world>>, world' = "decision"
               PROVE  RiskInv'
    OBVIOUS
  <2>1. world = "decision" /\ (Exit!Next \/ UNCHANGED exitVars)
    BY DEF MCNext
  <2> QED BY <2>1, NextRisk
<1>3. Inv => RiskCloseIsCarriedOutIfOne
  <2> SUFFICES ASSUME RiskInv, position.legs = 1, cycle.pc = "manage", cycle.reason \in Risk
               PROVE  \A l \in Exit!Legs : Exit!HasMidpoint(cycle.quote[l]) => l \in cycle.sent
    BY DEF RiskCloseIsCarriedOutIfOne, Exit!RiskCloseIsCarriedOut, Exit!At, Risk
  <2>1. \A l \in Exit!Legs : l = 1
    BY DEF Exit!Legs
  <2> QED BY <2>1 DEF RiskInv
<1> QED BY <1>1, <1>2, <1>3, PTL DEF MCSpec

-----------------------------------------------------------------------------
(* A profit is not booked as a loss.                                       *)

Profit == {"take-profit", "runner-target"}

\* The group's metrics at the minute it was decided reach its target.
Decided(g, minute, runner) ==
  IF runner THEN 2 * g.bid >= 3 * Target(minute) * g.n ELSE Exit!TakeProfit(g, minute)

\* Of two contracts of which one is sent and the other kept back, the one that is
\* sent is not a loser.
LEMMA KeptBackIsNoWinner ==
  ASSUME Exit!IsCash, NEW o, NEW u, NEW g,
         o.bid \in Int, o.ask \in Int, o.n = 1, u.bid \in Int, u.ask \in Int, u.n = 1,
         g.bid = o.bid + u.bid, g.ask = o.ask + u.ask, g.n = 2,
         NEW at \in Nat, NEW first \in Nat, NEW second \in Nat, at <= first, at <= second,
         first <= second + 40,
         NEW acted \in Int, NEW runner \in BOOLEAN, Decided(g, at, runner), g.bid >= 0,
         Exit!evaluateTradingStrategy(o, first, acted, runner, 0) \in Exit!Closes,
         Exit!evaluateTradingStrategy(u, second, acted, runner, 0) \notin Exit!Closes
  PROVE  o.bid >= 0
<1> SUFFICES ASSUME o.bid < 0 PROVE FALSE
  OBVIOUS
<1> DEFINE t == Target(at)
           v == Target(second)
<1>1. t \in 7 .. 40 /\ v \in 7 .. 40 /\ v <= t /\ u.bid > 0
  BY TargetFalls
<1> HIDE DEF t, v
<1>2. CASE runner
  <2>1. 2 * g.bid >= 3 * t * g.n
    BY <1>2 DEF Decided, t
  <2>2. Exit!evaluateScaledRunner(u, second) \notin Exit!Closes
    BY <1>2 DEF Exit!evaluateTradingStrategy
  <2>3. ~(2 * u.bid >= 3 * v * u.n)
    BY <2>2 DEF Exit!evaluateScaledRunner, Exit!Closes, v, Target
  <2>4. 2 * u.bid < 3 * v /\ 2 * (o.bid + u.bid) >= 6 * t
    BY <1>1, <2>1, <2>3
  <2> QED BY <1>1, <2>4
<1>3. CASE ~runner
  <2>1. ~Exit!TakeProfit(u, second)
    BY <1>3 DEF Exit!evaluateTradingStrategy, Exit!Closes
  <2>2. u.bid < v /\ ~Exit!MidReaches(u, v + 5)
    BY <1>1, <2>1 DEF Exit!TakeProfit, v, Target, Exit!MidMargin
  <2>3. u.bid + u.ask < 2 * (t + 5)
    <3>1. CASE ~Exit!hasArguableQuote(u)
      <4>1. u.ask < u.bid
        BY <1>1, <3>1 DEF Exit!hasArguableQuote
      <4> QED BY <1>1, <2>2, <4>1
    <3>2. CASE Exit!hasArguableQuote(u)
      <4>1. ~(u.bid + u.ask >= 2 * (v + 5) * u.n)
        BY <2>2, <3>2 DEF Exit!MidReaches
      <4> QED BY <1>1, <4>1
    <3> QED BY <3>1, <3>2
  <2>4. ~(g.bid >= t * g.n)
    BY <1>1, <2>2
  <2>5. Exit!MidReaches(g, t + 5)
    BY <1>3, <2>4 DEF Decided, Exit!TakeProfit, t, Target, Exit!MidMargin
  <2>6. o.bid + u.bid + o.ask + u.ask >= 4 * (t + 5)
    <3>1. g.bid + g.ask >= 2 * (t + 5) * g.n
      BY <2>5 DEF Exit!MidReaches
    <3> QED BY <1>1, <3>1
  <2>7. o.bid + o.ask > 24 /\ o.bid > -40 /\ o.ask >= o.bid
    BY <1>1, <2>2, <2>3, <2>6
  <2>8. Exit!MidConfirmDefers(o)
    BY <2>7 DEF Exit!MidConfirmDefers, Exit!hasArguableQuote, Exit!MidConfirmFloor
  <2>9. ~Exit!TakeProfit(o, first)
    <3>1. Target(first) \in 7 .. 40
      BY TargetFalls
    <3> QED BY <3>1 DEF Exit!TakeProfit, Target
  <2>10. ~Exit!UnderIntradayFloor(o, first)
    <3>1. Exit!resolveIntradayStop(o, 0) \notin Exit!Closes
      BY <2>8 DEF Exit!resolveIntradayStop, Exit!Closes
    <3> QED BY <1>3, <2>9, <3>1 DEF Exit!evaluateTradingStrategy, Exit!Closes
  <2>11. first >= 780 /\ o.bid <= -10
    <3>1. first >= Exit!getNoBuyCutoffMinute /\ o.bid <= -Exit!EodFloor * o.n
      BY <1>3, <2>9, <2>10 DEF Exit!evaluateTradingStrategy, Exit!Closes
    <3> QED BY <3>1 DEF Exit!getNoBuyCutoffMinute, Exit!EodFloor
  <2>12. v <= 10
    <3>1. 740 <= second /\ 740 \in Nat
      BY <2>11
    <3>2. Target(740) = Blended(350)
      <4>1. Past(740) = 350
        BY DEF Past
      <4> QED BY <3>1, <4>1, TargetIsBlended
    <3>3. Blended(350) = 10
      BY DEF Blended
    <3> QED BY <3>1, <3>2, <3>3, TargetFalls DEF v
  <2> QED BY <1>1, <2>2, <2>11, <2>12
<1> QED BY <1>2, <1>3

\* The same of what is asked: a group that is decided a profit has one.
LEMMA ProfitIsDecided ==
  ASSUME NEW g, g.bid \in Int, g.ask \in Int, g.n \in Nat, NEW minute \in Nat,
         NEW acted \in Int,
         NEW runner \in BOOLEAN, NEW observed,
         Exit!evaluateTradingStrategy(g, minute, acted, runner, observed) \in Profit
  PROVE  Decided(g, minute, runner) /\ g.bid >= 0
<1> DEFINE t == Target(minute)
<1>1. t \in 7 .. 40
  BY TargetFalls
<1>2. Decided(g, minute, runner)
  <2>1. CASE runner
    <3>1. Exit!evaluateScaledRunner(g, minute) \in Profit
      BY <2>1 DEF Exit!evaluateTradingStrategy, Profit
    <3> QED BY <2>1, <3>1 DEF Exit!evaluateScaledRunner, Profit, Decided, Target
  <2>2. CASE ~runner
    <3>1. Exit!resolveIntradayStop(g, observed) \notin Profit
      BY DEF Exit!resolveIntradayStop, Profit
    <3> QED BY <2>2, <3>1 DEF Exit!evaluateTradingStrategy, Profit, Decided
  <2> QED BY <2>1, <2>2
<1>3. ASSUME NEW k \in Nat, g.bid >= k PROVE g.bid >= 0
  BY <1>3
<1>4. CASE runner
  <2>1. 2 * g.bid >= 3 * t * g.n
    BY <1>2, <1>4 DEF Decided
  <2>2. 3 * t * g.n >= 0
    <3> HIDE DEF t
    <3> QED BY <1>1
  <2>3. 3 * t * g.n \in Int
    BY <1>1
  <2> HIDE DEF t
  <2> DEFINE k == 3 * t * g.n
  <2> HIDE DEF k
  <2>4. k \in Int /\ k >= 0 /\ 2 * g.bid >= k
    BY <2>1, <2>2, <2>3 DEF k
  <2> QED BY <1>2, <2>4
<1>5. CASE ~runner
  <2>1. g.bid >= t * g.n \/ g.bid >= 0
    BY <1>2, <1>5 DEF Decided, Exit!TakeProfit, Target
  <2>2. t * g.n \in Nat
    BY <1>1
  <2> HIDE DEF t
  <2> QED BY <1>2, <1>3, <2>1, <2>2
<1> QED BY <1>4, <1>5

\* One contract, or two of the cash account that are held alike, and a cycle that
\* acts within forty minutes of its evaluation.
FewContracts ==
  /\ \A p \in Positions :
       p.legs = 1 \/ (p.legs = 2 /\ p.lots = 1 /\ p.accountType = "cash")
  /\ CycleMinutes <= 40

LEMMA GroupOfTwo ==
  ASSUME position \in Positions, position.legs = 2,
         NEW quote \in [Exit!Legs -> Quote], NEW h \in [Exit!Legs -> Nat]
  PROVE  /\ Exit!Legs = {1, 2} /\ h[1] \in Nat /\ h[2] \in Nat
         /\ quote[1].bid \in Int /\ quote[1].ask \in Int
         /\ quote[2].bid \in Int /\ quote[2].ask \in Int
         /\ Exit!buildAggregateMetrics(quote, h)
              = [bid |-> h[1] * quote[1].bid + h[2] * quote[2].bid,
                 ask |-> h[1] * quote[1].ask + h[2] * quote[2].ask, n |-> h[1] + h[2]]
<1>1. Exit!Legs = {1, 2}
  <2>1. \A x : x \in 1 .. 2 <=> x \in {1, 2}
    OBVIOUS
  <2>2. 1 .. 2 = {1, 2}
    BY <2>1
  <2> QED BY <2>2 DEF Exit!Legs
<1>2. \A l \in {1, 2} : quote[l].bid \in Int /\ quote[l].ask \in Int /\ h[l] \in Nat
  BY <1>1 DEF Quote
<1> DEFINE b == [l \in Exit!Legs |-> h[l] * quote[l].bid]
           a == [l \in Exit!Legs |-> h[l] * quote[l].ask]
<1>3. \A l \in {1, 2} : /\ b[l] = h[l] * quote[l].bid /\ b[l] \in Int
                        /\ a[l] = h[l] * quote[l].ask /\ a[l] \in Int
                        /\ h[l] \in Int
  BY <1>1, <1>2
<1>4. /\ Exit!SumOver({1, 2}, b) = b[1] + b[2]
      /\ Exit!SumOver({1, 2}, a) = a[1] + a[2]
      /\ Exit!SumOver({1, 2}, h) = h[1] + h[2]
  <2> HIDE DEF a, b
  <2>1. Exit!SumOver({1, 2}, b) = b[1] + b[2]
    BY <1>3, SumOverTwo
  <2>2. Exit!SumOver({1, 2}, a) = a[1] + a[2]
    BY <1>3, SumOverTwo
  <2>3. Exit!SumOver({1, 2}, h) = h[1] + h[2]
    BY <1>3, SumOverTwo
  <2> QED BY <2>1, <2>2, <2>3
<1> QED BY <1>1, <1>2, <1>3, <1>4 DEF Exit!buildAggregateMetrics

Unsent(c, l) == IF l \in c.sent THEN 0 ELSE c.seen[l]
Left(c) == IF position.legs = 1 THEN Unsent(c, 1) ELSE Unsent(c, 1) + Unsent(c, 2)

WasSkipped(c, l) ==
  \E minute \in c.at .. c.at + CycleMinutes : Exit!Skipped(c, l, minute)
WasSent(c, l) ==
  \E minute \in c.at .. c.at + CycleMinutes : ~Exit!Skipped(c, l, minute)

DecidedProfit(c) ==
  /\ c.at \in Nat /\ c.acted \in Int
  /\ Decided(Exit!Group(c), c.at, c.runner) /\ Exit!Group(c).bid >= 0

\* A profit under way: which legs were sent and which kept back, each at some
\* minute of the cycle, and what is left.
ProfitInv ==
  /\ ExitTypes
  /\ cycle.pc # "idle" /\ cycle.reason \in Profit /\ ~Exit!IsPartial(cycle) =>
       /\ DecidedProfit(cycle)
       /\ \A l \in Exit!Legs : l \in cycle.sent => l < cycle.leg /\ WasSent(cycle, l)
       /\ \A l \in Exit!Legs : l < cycle.leg /\ l \notin cycle.sent => WasSkipped(cycle, l)
       /\ cycle.pc = "gate" => cycle.sent = {}
       /\ cycle.pc \in {"gate", "legs"} => cycle.left = Left(cycle)
       /\ cycle.pc = "manage" =>
            \/ cycle.sent = {}
            \/ \A l \in Exit!Legs : l \notin cycle.sent => WasSkipped(cycle, l)

\* What the strategy says depends on the position, which stays.
LEMMA SkippedLater ==
  ASSUME UNCHANGED position
  PROVE  \A l, minute : Exit!Skipped(cycle, l, minute)' <=> Exit!Skipped(cycle', l, minute)
BY DEF Exit!Skipped, Exit!hasStrategyRecoveredAtExecution, Exit!HasMidpoint, Exit!OneLeg,
  Exit!evaluateTradingStrategy, Exit!evaluateScaledRunner,
  Exit!TakeProfit, Exit!UnderIntradayFloor, Exit!resolveIntradayStop,
  Exit!resolveStopPersistence, Exit!MidConfirmDefers, Exit!MidIsAtMost, Exit!MidReaches,
  Exit!hasArguableQuote, Exit!getNoBuyCutoffMinute, Exit!IsCash, Exit!Closes,
  Exit!getDynamicTakeProfitTarget, Exit!calcTimeBlend

LEMMA GroupLater ==
  ASSUME UNCHANGED position PROVE Exit!Group(cycle)' = Exit!Group(cycle')
BY DEF Exit!Group, Exit!buildAggregateMetrics, Exit!Legs, Exit!SumOver,
  Exit!MapThenSumSet, Exit!MapThenFoldSet

LEMMA ProfitKept ==
  ASSUME cycle'.quote = cycle.quote, cycle'.at = cycle.at, cycle'.acted = cycle.acted,
         cycle'.runner = cycle.runner, cycle'.seen = cycle.seen,
         cycle'.reason = cycle.reason, UNCHANGED position
  PROVE  /\ DecidedProfit(cycle)' <=> DecidedProfit(cycle)
         /\ Exit!IsPartial(cycle)' <=> Exit!IsPartial(cycle)
         /\ \A l : /\ WasSkipped(cycle, l)' <=> WasSkipped(cycle, l)
                   /\ WasSent(cycle, l)' <=> WasSent(cycle, l)
<1>1. Exit!Group(cycle') = Exit!Group(cycle)
  BY DEF Exit!Group
<1>2. Exit!Group(cycle)' = Exit!Group(cycle)
  BY <1>1, GroupLater
<1>3. \A l, minute : Exit!Skipped(cycle', l, minute) <=> Exit!Skipped(cycle, l, minute)
  BY DEF Exit!Skipped, Exit!hasStrategyRecoveredAtExecution, Exit!OneLeg
<1>4. \A l, minute : Exit!Skipped(cycle, l, minute)' <=> Exit!Skipped(cycle, l, minute)
  BY <1>3, SkippedLater
<1>5. Exit!IsPartial(cycle)' <=> Exit!IsPartial(cycle)
  BY <1>2 DEF Exit!IsPartial, Exit!ScaleOutEnabled, Exit!IsCash
<1>6. DecidedProfit(cycle)' <=> DecidedProfit(cycle)
  BY <1>2 DEF DecidedProfit, Decided, Target, Exit!TakeProfit, Exit!MidReaches
<1>7. \A l : /\ WasSkipped(cycle, l)' <=> WasSkipped(cycle, l)
             /\ WasSent(cycle, l)' <=> WasSent(cycle, l)
  BY <1>4 DEF WasSkipped, WasSent
<1> QED BY <1>5, <1>6, <1>7

\* What every step but the evaluation leaves as it was.
SameDecision ==
  /\ cycle'.quote = cycle.quote /\ cycle'.at = cycle.at /\ cycle'.acted = cycle.acted
  /\ cycle'.runner = cycle.runner /\ cycle'.seen = cycle.seen
  /\ cycle'.reason = cycle.reason /\ UNCHANGED position

\* What is left, in the two cases.
LEMMA LeftOfLegs ==
  ASSUME ExitTypes, FewContracts
  PROVE  /\ (Exit!Legs = {1} /\ position.legs = 1) \/ (Exit!Legs = {1, 2} /\ position.legs = 2)
         /\ \A l \in Exit!Legs : cycle.seen[l] \in Nat
         /\ Left(cycle) \in Nat
         /\ \A l \in Exit!Legs \ cycle.sent : cycle.seen[l] <= Left(cycle)
<1>1. (Exit!Legs = {1} /\ position.legs = 1) \/ (Exit!Legs = {1, 2} /\ position.legs = 2)
  <2>1. position.legs = 1 \/ position.legs = 2
    BY DEF ExitTypes, FewContracts
  <2>2. CASE position.legs = 1
    <3>1. \A x : x \in 1 .. 1 <=> x \in {1}
      OBVIOUS
    <3>2. 1 .. 1 = {1}
      BY <3>1
    <3> QED BY <2>2, <3>2 DEF Exit!Legs
  <2>3. CASE position.legs = 2
    <3>1. \A x : x \in 1 .. 2 <=> x \in {1, 2}
      OBVIOUS
    <3>2. 1 .. 2 = {1, 2}
      BY <3>1
    <3> QED BY <2>3, <3>2 DEF Exit!Legs
  <2> QED BY <2>1, <2>2, <2>3
<1>2. \A l \in Exit!Legs : cycle.seen[l] \in Nat
  BY LocalsShape DEF Locals
<1>3. Left(cycle) \in Nat /\ \A l \in Exit!Legs \ cycle.sent : cycle.seen[l] <= Left(cycle)
  BY <1>1, <1>2 DEF Left, Unsent
<1> QED BY <1>1, <1>2, <1>3

LEMMA EvaluateProfit ==
  ASSUME FewContracts, ProfitInv, Exit!Evaluate, UNCHANGED position, ExitTypes'
  PROVE  ProfitInv'
<1>1. PICK quote \in [Exit!Legs -> position.quotes] : Snapshot(quote, cycle')
  BY EvaluateStep DEF ProfitInv
<1>2. cycle' \in Locals /\ ExitTypes /\ clock \in Nat /\ lastAction \in Int
      /\ streak + 1 \in Int /\ position \in Positions
  BY EvaluateStep, PositionsAssumption DEF ProfitInv, ExitTypes, Exit!PersistCycles
<1> DEFINE g == Exit!buildAggregateMetrics(quote, held)
<1>3. quote \in [Exit!Legs -> Quote] /\ held \in [Exit!Legs -> Nat]
  BY <1>2, PositionsAssumption DEF ExitTypes
<1>4. g.bid \in Int /\ g.ask \in Int /\ g.n \in Nat
  <2> HIDE DEF g
  <2> QED BY <1>2, <1>3, MetricsAreInt DEF g
<1>5. Exit!Group(cycle') = g
  BY <1>1 DEF Exit!Group, Snapshot
<1>6. Exit!Group(cycle)' = g
  BY <1>5, GroupLater
<1>7. SUFFICES ASSUME cycle'.reason \in Profit, ~Exit!IsPartial(cycle)'
      PROVE  DecidedProfit(cycle)' /\ cycle'.left = Left(cycle)'
  <2>1. \A l \in Exit!Legs' : ~(l < 1)
    BY DEF Exit!Legs
  <2>2. cycle'.sent = {} /\ cycle'.leg = 1 /\ cycle'.pc = "gate"
    BY <1>1 DEF Snapshot
  <2> QED BY <2>1, <2>2 DEF ProfitInv
<1>8. Evaluated(quote) \in Profit
  BY <1>1, <1>7 DEF Snapshot, Exit!Overridden, Profit
<1>9. Evaluated(quote)
        = Exit!evaluateTradingStrategy(g, clock, lastAction, cycle'.runner, streak + 1)
  BY <1>1 DEF Evaluated, Snapshot
<1>10. Decided(g, clock, cycle'.runner) /\ g.bid >= 0
  <2> HIDE DEF g
  <2>1. cycle'.runner \in BOOLEAN
    BY <1>2 DEF Locals
  <2> QED BY <1>2, <1>4, <1>8, <1>9, <2>1, ProfitIsDecided
<1>11. DecidedProfit(cycle)'
  <2> HIDE DEF g
  <2> QED BY <1>1, <1>2, <1>6, <1>10
    DEF DecidedProfit, Snapshot, Decided, Target, Exit!TakeProfit, Exit!MidReaches
<1>12. cycle'.left = g.n
  <2>1. Exit!IsPartial(cycle)' <=> Exit!IsPartial(cycle')
    BY <1>5, <1>6 DEF Exit!IsPartial, Exit!ScaleOutEnabled, Exit!IsCash
  <2> HIDE DEF g
  <2> QED BY <1>1, <1>5, <1>7, <2>1 DEF Snapshot, Exit!MaxQuantity
<1>13. Left(cycle)' = g.n
  <2>1. cycle'.sent = {} /\ cycle'.seen = held
    BY <1>1 DEF Snapshot
  <2>2. CASE position.legs = 1
    <3>1. g.n = held[1]
      BY <1>2, <1>3, <2>2, GroupOfOne
    <3> HIDE DEF g
    <3> QED BY <2>1, <2>2, <3>1 DEF Left, Unsent
  <2>3. CASE position.legs = 2
    <3>1. g.n = held[1] + held[2]
      BY <1>2, <1>3, <2>3, GroupOfTwo
    <3> HIDE DEF g
    <3> QED BY <2>1, <2>3, <3>1 DEF Left, Unsent
  <2> QED BY <1>2, <2>2, <2>3 DEF FewContracts
<1> QED BY <1>11, <1>12, <1>13

LEMMA GateProfit ==
  ASSUME FewContracts, ProfitInv, Exit!Gate, UNCHANGED position, ExitTypes'
  PROVE  ProfitInv'
<1>1. PICK step \in {"legs", "manage"} :
        cycle' = [cycle EXCEPT !.pc = step] /\ cycle.pc = "gate"
  BY DEF Exit!Gate, Exit!At
<1>2. /\ SameDecision /\ cycle'.left = cycle.left /\ cycle'.sent = cycle.sent
      /\ cycle'.leg = cycle.leg /\ cycle'.pc = step
  BY <1>1, LocalsShape DEF ProfitInv, SameDecision
<1>3. Left(cycle)' = Left(cycle) /\ Exit!Legs' = Exit!Legs
  BY <1>2 DEF Left, Unsent, SameDecision, Exit!Legs
<1> QED BY <1>1, <1>2, <1>3, ProfitKept DEF ProfitInv, SameDecision

LEMMA SellProfit ==
  ASSUME FewContracts, ProfitInv, Exit!SellLeg, UNCHANGED position, ExitTypes'
  PROVE  ProfitInv'
<1> DEFINE l == cycle.leg
           quantity == Exit!Min({cycle.seen[l], cycle.left})
<1>1. /\ cycle.pc = "legs" /\ ~Exit!LegsDone(cycle)
      /\ \/ Exit!Skipped(cycle, l, clock) /\ cycle' = [cycle EXCEPT !.leg = l + 1]
         \/ /\ ~Exit!Skipped(cycle, l, clock)
            /\ cycle' = [cycle EXCEPT !.leg = l + 1, !.left = @ - quantity,
                                      !.sent = @ \cup {l}]
  BY DEF Exit!SellLeg, Exit!At
<1> HIDE DEF quantity
<1>2. /\ SameDecision /\ cycle'.leg = l + 1 /\ cycle'.pc = "legs"
      /\ \/ /\ Exit!Skipped(cycle, l, clock)
            /\ cycle'.sent = cycle.sent /\ cycle'.left = cycle.left
         \/ /\ ~Exit!Skipped(cycle, l, clock)
            /\ cycle'.sent = cycle.sent \cup {l} /\ cycle'.left = cycle.left - quantity
  BY <1>1, LocalsShape DEF ProfitInv, SameDecision
<1>3. Exit!Legs' = Exit!Legs
  BY DEF Exit!Legs
<1>4. SUFFICES ASSUME cycle.reason \in Profit, ~Exit!IsPartial(cycle)
      PROVE  /\ DecidedProfit(cycle)
             /\ \A k \in Exit!Legs : k \in cycle'.sent => k < cycle'.leg /\ WasSent(cycle, k)
             /\ \A k \in Exit!Legs : k < cycle'.leg /\ k \notin cycle'.sent
                                       => WasSkipped(cycle, k)
             /\ cycle'.left = Left(cycle)'
  BY <1>1, <1>2, <1>3, ProfitKept DEF ProfitInv, SameDecision
<1>5. /\ DecidedProfit(cycle)
      /\ \A k \in Exit!Legs : k \in cycle.sent => k < l /\ WasSent(cycle, k)
      /\ \A k \in Exit!Legs : k < l /\ k \notin cycle.sent => WasSkipped(cycle, k)
      /\ cycle.left = Left(cycle)
  BY <1>1, <1>4 DEF ProfitInv
<1>6. /\ l \in Exit!Legs /\ l \in Int /\ Exit!Legs \subseteq Int
      /\ clock \in cycle.at .. cycle.at + CycleMinutes
  <2>1. cycle \in Locals /\ position.legs \in Nat /\ ExitTypes /\ clock \in Int
        /\ CycleMinutes \in Int
    BY PositionsAssumption DEF ProfitInv, ExitTypes
  <2>2. l \in Nat \ {0} /\ cycle.at \in Int /\ l <= position.legs
    BY <1>1, <2>1 DEF Locals, Exit!LegsDone
  <2>3. cycle.at <= clock /\ clock <= cycle.at + CycleMinutes
    BY <1>1, <2>1 DEF ExitTypes
  <2> QED BY <2>1, <2>2, <2>3 DEF Exit!Legs
<1>7. Exit!Skipped(cycle, l, clock) => WasSkipped(cycle, l)
  BY <1>6 DEF WasSkipped
<1>8. ~Exit!Skipped(cycle, l, clock) => WasSent(cycle, l)
  BY <1>6 DEF WasSent
<1>9. l \notin cycle.sent
  BY <1>5, <1>6
<1>10. \A k \in Exit!Legs : k < l + 1 <=> k < l \/ k = l
  BY <1>6
<1>11. cycle'.left = Left(cycle)'
  <2>1. /\ (Exit!Legs = {1} /\ position.legs = 1) \/ (Exit!Legs = {1, 2} /\ position.legs = 2)
        /\ \A k \in Exit!Legs : cycle.seen[k] \in Nat
        /\ Left(cycle) \in Nat /\ cycle.seen[l] <= Left(cycle)
    BY <1>6, <1>9, LeftOfLegs DEF ProfitInv
  <2>2. quantity = cycle.seen[l]
    BY <1>5, <1>6, <2>1, ExitMin DEF quantity
  <2>3. Left(cycle)' = IF position.legs = 1 THEN Unsent(cycle', 1)
                       ELSE Unsent(cycle', 1) + Unsent(cycle', 2)
    BY DEF Left, Unsent
  <2>4. CASE cycle'.sent = cycle.sent /\ cycle'.left = cycle.left
    BY <1>2, <1>5, <2>3, <2>4 DEF Left, Unsent, SameDecision
  <2>5. CASE cycle'.sent = cycle.sent \cup {l} /\ cycle'.left = cycle.left - quantity
    <3>1. \A k \in Exit!Legs : Unsent(cycle', k) = IF k = l THEN 0 ELSE Unsent(cycle, k)
      BY <1>2, <2>5 DEF Unsent, SameDecision
    <3>2. Unsent(cycle, l) = cycle.seen[l]
      BY <1>9 DEF Unsent
    <3>3. \A k \in Exit!Legs : Unsent(cycle, k) \in Nat
      BY <2>1 DEF Unsent
    <3> QED BY <1>5, <1>6, <2>1, <2>2, <2>3, <2>5, <3>1, <3>2, <3>3 DEF Left
  <2> QED BY <1>2, <2>4, <2>5
<1> QED BY <1>2, <1>5, <1>6, <1>7, <1>8, <1>10, <1>11

LEMMA RecordProfit ==
  ASSUME FewContracts, ProfitInv, Exit!RecordScaled, UNCHANGED position, ExitTypes'
  PROVE  ProfitInv'
<1>1. cycle.pc = "legs" /\ Exit!LegsDone(cycle) /\ cycle' = [cycle EXCEPT !.pc = "manage"]
  BY DEF Exit!RecordScaled, Exit!At
<1>2. /\ SameDecision /\ cycle'.left = cycle.left /\ cycle'.sent = cycle.sent
      /\ cycle'.leg = cycle.leg /\ cycle'.pc = "manage"
  BY <1>1, LocalsShape DEF ProfitInv, SameDecision
<1>3. Exit!Legs' = Exit!Legs
  BY DEF Exit!Legs
<1>4. SUFFICES ASSUME cycle.reason \in Profit, ~Exit!IsPartial(cycle),
                      NEW l \in Exit!Legs, l \notin cycle.sent
      PROVE  WasSkipped(cycle, l)
  BY <1>1, <1>2, <1>3, ProfitKept DEF ProfitInv, SameDecision
<1>5. cycle.left = Left(cycle)
      /\ (l < cycle.leg => WasSkipped(cycle, l))
  BY <1>1, <1>4 DEF ProfitInv
<1>6. CASE cycle.leg > position.legs
  <2>1. l < cycle.leg
    BY SMTT(30), <1>6, LegsFinite, LocalsShape DEF ProfitInv, ExitTypes, Locals
  <2> QED BY <1>5, <2>1
<1>7. CASE cycle.left = 0
  <2>1. cycle.seen[l] = 0
    BY <1>4, <1>5, <1>7, LeftOfLegs DEF ProfitInv
  <2>2. cycle.at \in cycle.at .. cycle.at + CycleMinutes
    BY LocalsShape, PositionsAssumption DEF ProfitInv, Locals
  <2> QED BY <2>1, <2>2 DEF WasSkipped, Exit!Skipped
<1> QED BY <1>1, <1>6, <1>7 DEF Exit!LegsDone

LEMMA NextProfit ==
  ASSUME FewContracts, ProfitInv, Exit!Next \/ UNCHANGED exitVars PROVE ProfitInv'
<1>1. ExitTypes'
  BY NextTypes DEF ProfitInv
<1>2. CASE Exit!Manage
  <2>1. cycle'.pc = "idle"
    BY <1>2 DEF Exit!Manage, Exit!Idle
  <2> QED BY <1>1, <2>1 DEF ProfitInv
<1>3. CASE UNCHANGED <<position, cycle>>
  <2>1. Left(cycle)' = Left(cycle) /\ Exit!Legs' = Exit!Legs
    BY <1>3 DEF Left, Unsent, Exit!Legs
  <2> QED BY <1>1, <1>3, <2>1, ProfitKept DEF ProfitInv
<1>4. Exit!TimePasses \/ Exit!DayEnds => UNCHANGED cycle
  BY DEF Exit!TimePasses, Exit!DayEnds, Exit!vars
<1>5. UNCHANGED exitVars => UNCHANGED <<position, cycle>>
  BY DEF exitVars
<1> QED BY <1>1, <1>2, <1>3, <1>4, <1>5, EvaluateProfit, GateProfit, SellProfit, RecordProfit
  DEF Exit!Next

\* A leg kept back is worth something: without prices it would have been no profit.
LEMMA SentIsNoLoser ==
  ASSUME FewContracts, ExitTypes, position.legs = 2, DecidedProfit(cycle),
         NEW l \in {1, 2}, NEW k \in {1, 2}, l # k,
         cycle.seen[l] = 1, cycle.seen[k] = 1, WasSent(cycle, l), WasSkipped(cycle, k)
  PROVE  cycle.quote[l].bid >= 0
<1> DEFINE o == Exit!OneLeg(cycle, l)
           u == Exit!OneLeg(cycle, k)
           g == Exit!Group(cycle)
<1>1. /\ cycle.quote \in [Exit!Legs -> Quote] /\ cycle.seen \in [Exit!Legs -> Nat]
      /\ cycle.runner \in BOOLEAN /\ cycle.acted \in Int /\ cycle.at \in Nat
      /\ position \in Positions /\ CycleMinutes \in Nat
  BY LocalsShape, PositionsAssumption DEF ExitTypes, Locals, DecidedProfit
<1>2. /\ cycle.quote[l].bid \in Int /\ cycle.quote[l].ask \in Int
      /\ cycle.quote[k].bid \in Int /\ cycle.quote[k].ask \in Int
      /\ g.bid = cycle.quote[l].bid + cycle.quote[k].bid
      /\ g.ask = cycle.quote[l].ask + cycle.quote[k].ask /\ g.n = 2
  <2>1. /\ cycle.seen[1] = 1 /\ cycle.seen[2] = 1
        /\ cycle.quote[1].bid \in Int /\ cycle.quote[1].ask \in Int
        /\ cycle.quote[2].bid \in Int /\ cycle.quote[2].ask \in Int
    BY <1>1, GroupOfTwo
  <2>2. g = [bid |-> cycle.seen[1] * cycle.quote[1].bid + cycle.seen[2] * cycle.quote[2].bid,
             ask |-> cycle.seen[1] * cycle.quote[1].ask + cycle.seen[2] * cycle.quote[2].ask,
             n |-> cycle.seen[1] + cycle.seen[2]]
    BY <1>1, GroupOfTwo DEF Exit!Group
  <2> HIDE DEF g
  <2>3. /\ g.bid = cycle.quote[1].bid + cycle.quote[2].bid
        /\ g.ask = cycle.quote[1].ask + cycle.quote[2].ask /\ g.n = 2
    BY <2>1, <2>2
  <2> QED BY <2>1, <2>3
<1>3. Exit!IsCash
  BY <1>1 DEF FewContracts, Exit!IsCash
<1>4. /\ o.bid = cycle.quote[l].bid /\ o.ask = cycle.quote[l].ask /\ o.n = 1
      /\ u.bid = cycle.quote[k].bid /\ u.ask = cycle.quote[k].ask /\ u.n = 1
  BY DEF Exit!OneLeg
<1>5. PICK first \in cycle.at .. cycle.at + CycleMinutes : ~Exit!Skipped(cycle, l, first)
  BY DEF WasSent
<1>6. PICK second \in cycle.at .. cycle.at + CycleMinutes : Exit!Skipped(cycle, k, second)
  BY DEF WasSkipped
<1> HIDE DEF o, u, g
<1>7. SUFFICES ASSUME cycle.quote[l].bid < 0 PROVE FALSE
  BY <1>2
<1>8. g.bid >= 0 /\ Decided(g, cycle.at, cycle.runner)
  BY DEF DecidedProfit, g
<1>9. Exit!hasStrategyRecoveredAtExecution(cycle, k, second)
  <2>1. Exit!HasMidpoint(cycle.quote[k])
    BY <1>2, <1>7, <1>8 DEF Exit!HasMidpoint
  <2> QED BY <1>6, <2>1 DEF Exit!Skipped
<1>10. ~Exit!hasStrategyRecoveredAtExecution(cycle, l, first)
  BY <1>5 DEF Exit!Skipped
<1>11. /\ Exit!evaluateTradingStrategy(o, first, cycle.acted, cycle.runner, 0) \in Exit!Closes
       /\ Exit!evaluateTradingStrategy(u, second, cycle.acted, cycle.runner, 0)
            \notin Exit!Closes
  BY <1>9, <1>10 DEF Exit!hasStrategyRecoveredAtExecution, o, u
<1>12. /\ first \in Nat /\ second \in Nat /\ cycle.at <= first /\ cycle.at <= second
       /\ first <= second + 40
  BY <1>1, <1>5, <1>6 DEF FewContracts
<1>13. o.bid >= 0
  BY SMTT(30), <1>1, <1>2, <1>3, <1>4, <1>8, <1>11, <1>12, KeptBackIsNoWinner
<1> QED BY <1>2, <1>4, <1>7, <1>13

LEMMA ProfitInvSuffices ==
  ASSUME FewContracts, ProfitInv PROVE Exit!ProfitBooksNoLoss
<1> DEFINE f == [l \in Exit!Legs |-> cycle.seen[l] * cycle.quote[l].bid]
<1> SUFFICES ASSUME cycle.pc = "manage", cycle.reason \in Profit, ~Exit!IsPartial(cycle)
             PROVE  Exit!SumOver(cycle.sent, f) >= 0
  BY DEF Exit!ProfitBooksNoLoss, Exit!At, Profit
<1>1. /\ DecidedProfit(cycle)
      /\ \A l \in Exit!Legs : l \in cycle.sent => WasSent(cycle, l)
      /\ \/ cycle.sent = {}
         \/ \A l \in Exit!Legs : l \notin cycle.sent => WasSkipped(cycle, l)
  BY DEF ProfitInv
<1>2. CASE cycle.sent = {}
  <2>1. Exit!SumOver({}, f) = 0
    BY SumOverNone
  <2> HIDE DEF f
  <2> QED BY <1>2, <2>1
<1>3. /\ ExitTypes /\ cycle \in Locals /\ position \in Positions
      /\ cycle.quote \in [Exit!Legs -> Quote] /\ cycle.seen \in [Exit!Legs -> Nat]
      /\ cycle.sent \subseteq Exit!Legs /\ Exit!Group(cycle).bid >= 0
  BY <1>1, LocalsShape DEF ProfitInv, ExitTypes, Locals, DecidedProfit
<1>4. CASE position.legs = 1
  <2>1. Exit!Legs = {1} /\ f[1] = Exit!Group(cycle).bid /\ f[1] \in Int
    BY <1>3, <1>4, GroupOfOne DEF Exit!Group
  <2> HIDE DEF f
  <2>2. Exit!SumOver({1}, f) = f[1]
    BY <2>1, SumOverOne
  <2>3. cycle.sent = {} \/ cycle.sent = {1}
    BY <1>3, <2>1
  <2> QED BY <1>2, <1>3, <2>1, <2>2, <2>3
<1>5. CASE position.legs = 2
  <2>1. /\ Exit!Legs = {1, 2} /\ f[1] \in Int /\ f[2] \in Int
        /\ Exit!Group(cycle).bid = f[1] + f[2]
        /\ f[1] = cycle.seen[1] * cycle.quote[1].bid
        /\ f[2] = cycle.seen[2] * cycle.quote[2].bid
        /\ cycle.quote[1].bid \in Int /\ cycle.quote[2].bid \in Int
    BY <1>3, <1>5, GroupOfTwo DEF Exit!Group
  <2>2. cycle.seen[1] \in {0, 1} /\ cycle.seen[2] \in {0, 1}
    BY <1>3, <1>5, <2>1 DEF FewContracts, ExitTypes
  <2>3. ASSUME NEW l \in {1, 2}, NEW k \in {1, 2}, l # k, l \in cycle.sent,
               k \notin cycle.sent, cycle.sent # {}
        PROVE  f[l] >= 0
    <3>1. CASE cycle.seen[l] = 0
      BY <2>1, <2>3, <3>1
    <3>2. CASE cycle.seen[k] = 0
      <4>1. f[k] = 0
        BY <2>1, <2>3, <3>2
      <4>2. Exit!Group(cycle).bid = f[l] + f[k]
        <5> HIDE DEF f
        <5>1. f[1] + f[2] = f[2] + f[1]
          BY <2>1
        <5> QED BY <2>1, <2>3, <5>1
      <4> HIDE DEF f
      <4> QED BY <1>3, <2>1, <4>1, <4>2
    <3>3. CASE cycle.seen[l] = 1 /\ cycle.seen[k] = 1
      <4>1. WasSent(cycle, l) /\ WasSkipped(cycle, k)
        BY <1>1, <2>1, <2>3
      <4>2. cycle.quote[l].bid >= 0
        BY <1>1, <1>3, <1>5, <2>3, <3>3, <4>1, SentIsNoLoser
      <4> QED BY <2>1, <2>3, <3>3, <4>2
    <3> QED BY <2>2, <2>3, <3>1, <3>2, <3>3
  <2> HIDE DEF f
  <2>4. /\ Exit!SumOver({1}, f) = f[1] /\ Exit!SumOver({2}, f) = f[2]
        /\ Exit!SumOver({1, 2}, f) = f[1] + f[2]
    BY <2>1, SumOverOne, SumOverTwo
  <2>5. cycle.sent = {} \/ cycle.sent = {1} \/ cycle.sent = {2} \/ cycle.sent = {1, 2}
    BY <1>3, <2>1
  <2> QED BY <1>2, <1>3, <2>1, <2>3, <2>4, <2>5
<1> QED BY <1>3, <1>4, <1>5 DEF FewContracts

\* A take-profit or a runner's target books no loss by what the re-check keeps
\* back, when the group is one contract, or two held alike in the cash account,
\* and the cycle is no longer than forty minutes (resolveTakeProfit).
THEOREM ProfitsAreNoLosses ==
  ASSUME FewContracts
  PROVE  MCSpec => []ProfitBooksNoLossInWorld
<1> DEFINE Inv == world = "decision" => ProfitInv
<1>1. MCInit => Inv
  <2>1. Exit!Init => cycle.pc = "idle"
    BY DEF Exit!Init, Exit!Idle
  <2> QED BY <2>1, InitExitTypes DEF MCInit, ProfitInv
<1>2. Inv /\ [MCNext]_<<vars, exitVars, world>> => Inv'
  <2> SUFFICES ASSUME Inv, [MCNext]_<<vars, exitVars, world>>, world' = "decision"
               PROVE  ProfitInv'
    OBVIOUS
  <2>1. world = "decision" /\ (Exit!Next \/ UNCHANGED exitVars)
    BY DEF MCNext
  <2> QED BY <2>1, NextProfit
<1>3. Inv => ProfitBooksNoLossInWorld
  BY ProfitInvSuffices DEF ProfitBooksNoLossInWorld
<1> QED BY <1>1, <1>2, <1>3, PTL DEF MCSpec

\* The decision's variables keep their types.
THEOREM DecisionsAreTyped == MCSpec => [](world = "decision" => Exit!TypeOK)
<1> DEFINE Inv == world = "decision" => ExitTypes
<1>1. MCInit => Inv
  BY InitExitTypes DEF MCInit
<1>2. Inv /\ [MCNext]_<<vars, exitVars, world>> => Inv'
  <2> SUFFICES ASSUME Inv, [MCNext]_<<vars, exitVars, world>>, world' = "decision"
               PROVE  ExitTypes'
    OBVIOUS
  <2>1. world = "decision" /\ (Exit!Next \/ UNCHANGED exitVars)
    BY DEF MCNext
  <2> QED BY <2>1, NextTypes
<1>3. Inv => (world = "decision" => Exit!TypeOK)
  BY DEF ExitTypes, Exit!TypeOK, Locals
<1> QED BY <1>1, <1>2, <1>3, PTL DEF MCSpec

===============================================================================
