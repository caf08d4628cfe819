----------------------------- MODULE PlanGateProofs ----------------------------
(***************************************************************************)
(* Theorems about PlanGate, for any actions, dependencies, rules and       *)
(* advice.                                                                 *)
(*                                                                         *)
(* The sort: what is sorted needs nothing that is not, and from any set of *)
(* finished actions some sorted one can go on.  The budgets: the path that *)
(* the recursion computes for an action is the time of the longest chain   *)
(* that ends in it.  The policy: the decision of an action is at every     *)
(* moment that of the strictest rule applied so far, whichever order the   *)
(* rules come in.                                                          *)
(***************************************************************************)
EXTENDS PlanGate, FiniteSetTheorems, TLAPS

--------------------------------------------------------------------------------
(* Sums and largest numbers                                                   *)

\* Of sets of elements of a finite set some one contains no other: induction over
\* a finite set is the search for its smallest counterexample.
LEMMA SmallestSubset ==
    ASSUME NEW S, IsFiniteSet(S), NEW T, T \subseteq SUBSET S, T # {}
    PROVE  \E x \in T : \A y \in T : y \subseteq x => y = x
<1>1. PICK x \in T : \A y \in T : ~ (<<y, x>> \in StrictSubsetOrdering(S))
  BY FS_StrictSubsetOrderingWellFounded, FS_FiniteSubsetsOfFinite, WFMin, Zenon
<1>2. \A y \in T : <<y, x>> \in (SUBSET S) \X (SUBSET S)
  OBVIOUS
<1>. QED
  BY <1>1, <1>2 DEF StrictSubsetOrdering

\* The element that a fold takes next.
Pick(s) == CHOOSE x \in s : TRUE

LEMMA PickIn ==
    ASSUME NEW s, s # {}
    PROVE  Pick(s) \in s
BY DEF Pick

\* The recursion by which SumFunction adds up f over the subsets of S.
IsSum(it, f, S) ==
    it = [s \in SUBSET S |-> IF s = {} THEN 0 ELSE f[Pick(s)] + it[s \ {Pick(s)}]]

LEMMA SumAt ==
    ASSUME NEW it, NEW f, NEW S, IsSum(it, f, S), NEW s \in SUBSET S
    PROVE  /\ s = {} => it[s] = 0
           /\ s # {} => it[s] = f[Pick(s)] + it[s \ {Pick(s)}]
BY DEF IsSum

\* Functions that agree on a set have the same sum over it.
LEMMA SumUnique ==
    ASSUME NEW it, NEW jt, NEW f, NEW g, NEW S, NEW T, IsFiniteSet(S), IsFiniteSet(T),
           IsSum(it, f, S), IsSum(jt, g, T),
           NEW U, U \subseteq S, U \subseteq T, \A x \in U : f[x] = g[x]
    PROVE  it[U] = jt[U]
<1> DEFINE bad == {s \in SUBSET U : it[s] # jt[s]}
<1>1. SUFFICES ASSUME bad # {} PROVE FALSE
  OBVIOUS
<1>2. IsFiniteSet(U) /\ bad \subseteq SUBSET U
  BY FS_Subset
<1> HIDE DEF bad
<1>3. PICK s \in bad : \A y \in bad : y \subseteq s => y = s
  BY <1>1, <1>2, SmallestSubset
<1>4. s \in SUBSET U /\ it[s] # jt[s] /\ s \in SUBSET S /\ s \in SUBSET T
  BY <1>3 DEF bad
<1>5. s # {}
  BY <1>4, SumAt
<1>6. Pick(s) \in s /\ s \ {Pick(s)} \in SUBSET U
  BY <1>4, <1>5, PickIn
<1>7. it[s \ {Pick(s)}] = jt[s \ {Pick(s)}]
  BY <1>3, <1>6 DEF bad
<1>8. f[Pick(s)] = g[Pick(s)]
  BY <1>4, <1>6
<1>9. it[s] = f[Pick(s)] + it[s \ {Pick(s)}] /\ jt[s] = g[Pick(s)] + jt[s \ {Pick(s)}]
  <2>1. it[s] = f[Pick(s)] + it[s \ {Pick(s)}]
    BY <1>4, <1>5, SumAt
  <2>2. jt[s] = g[Pick(s)] + jt[s \ {Pick(s)}]
    BY <1>4, <1>5, SumAt
  <2>. QED
    BY <2>1, <2>2
<1>. QED
  BY <1>4, <1>7, <1>8, <1>9

\* That recursion defines a function.
LEMMA SumExists ==
    ASSUME NEW f, NEW S, IsFiniteSet(S)
    PROVE  \E it : IsSum(it, f, S)
<1> DEFINE bad == {s \in SUBSET S : ~ \E it : IsSum(it, f, s)}
<1>1. SUFFICES ASSUME bad # {} PROVE FALSE
  OBVIOUS
<1>2. bad \subseteq SUBSET S
  OBVIOUS
<1> HIDE DEF bad
<1>3. PICK s \in bad : \A y \in bad : y \subseteq s => y = s
  BY <1>1, <1>2, SmallestSubset
<1>4. s \in SUBSET S /\ ~ \E it : IsSum(it, f, s)
  BY <1>3 DEF bad
<1> DEFINE sum(u) == CHOOSE it : IsSum(it, f, u)
           step(u) == IF u = {} THEN 0 ELSE f[Pick(u)] + sum(u \ {Pick(u)})[u \ {Pick(u)}]
           it == [u \in SUBSET s |-> step(u)]
<1>5. ASSUME NEW u \in SUBSET s, u # s
      PROVE  IsSum(sum(u), f, u) /\ IsFiniteSet(u)
  <2>1. u \in SUBSET S /\ u \notin bad
    BY <1>3, <1>4, <1>5
  <2>2. \E jt : IsSum(jt, f, u)
    BY <2>1 DEF bad
  <2>. QED
    BY <2>1, <2>2, FS_Subset
<1>6. ASSUME NEW u \in SUBSET s, u # s
      PROVE  sum(u)[u] = step(u)
  <2>1. CASE u = {}
    BY <1>5, <1>6, <2>1, SumAt
  <2>2. CASE u # {}
    <3> DEFINE v == u \ {Pick(u)}
    <3>1. v \in SUBSET s /\ v # s /\ v \subseteq u
      BY <1>6
    <3>2. sum(u)[u] = f[Pick(u)] + sum(u)[v]
      BY <1>5, <1>6, <2>2, SumAt
    <3>3. IsSum(sum(u), f, u) /\ IsSum(sum(v), f, v) /\ IsFiniteSet(u) /\ IsFiniteSet(v)
      BY <1>5, <1>6, <3>1
    <3> HIDE DEF sum
    <3>4. sum(u)[v] = sum(v)[v]
      BY <3>1, <3>3, SumUnique
    <3>. QED
      BY <2>2, <3>2, <3>4
  <2>. QED
    BY <2>1, <2>2
<1>7. ASSUME NEW u \in SUBSET s, u # {}
      PROVE  it[u \ {Pick(u)}] = sum(u \ {Pick(u)})[u \ {Pick(u)}]
  <2>1. u \ {Pick(u)} \in SUBSET s /\ u \ {Pick(u)} # s
    BY <1>7, PickIn
  <2>. QED
    BY <1>6, <2>1
<1>8. it = [u \in SUBSET s |-> IF u = {} THEN 0 ELSE f[Pick(u)] + it[u \ {Pick(u)}]]
  <2> HIDE DEF sum
  <2>. QED
    BY <1>7
<1>9. IsSum(it, f, s)
  BY <1>8 DEF IsSum
<1>. QED
  BY <1>4, <1>9

LEMMA SumChosen ==
    ASSUME NEW f, NEW S, IsFiniteSet(S)
    PROVE  \E it : IsSum(it, f, S) /\ SumFunctionOnSet(f, S) = it[S]
<1> DEFINE it == CHOOSE iter :
                    iter = [s \in SUBSET S |-> IF s = {} THEN 0
                                               ELSE f[Pick(s)] + iter[s \ {Pick(s)}]]
<1>1. IsSum(it, f, S)
  <2>1. PICK jt : IsSum(jt, f, S)
    BY SumExists
  <2>. QED
    BY <2>1, Zenon DEF IsSum
<1>2. SumFunctionOnSet(f, S) = it[S]
  BY DEF SumFunctionOnSet, FoldFunctionOnSet, MapThenFoldSet, Pick
<1>. QED
  BY <1>1, <1>2

LEMMA SumOfSubset ==
    ASSUME NEW it, NEW f, NEW S, IsFiniteSet(S), IsSum(it, f, S), NEW T \in SUBSET S
    PROVE  SumFunctionOnSet(f, T) = it[T]
<1>1. IsFiniteSet(T)
  BY FS_Subset
<1>2. PICK jt : IsSum(jt, f, T) /\ SumFunctionOnSet(f, T) = jt[T]
  BY <1>1, SumChosen
<1>3. it[T] = jt[T]
  BY <1>1, <1>2, SumUnique
<1>. QED
  BY <1>2, <1>3

\* The sum of a function over the empty set, and over a set as that of one of its
\* elements and the rest.
LEMMA SumOfPick ==
    ASSUME NEW f, NEW S, IsFiniteSet(S)
    PROVE  /\ S = {} => SumFunctionOnSet(f, S) = 0
           /\ S # {} => SumFunctionOnSet(f, S) =
                           f[Pick(S)] + SumFunctionOnSet(f, S \ {Pick(S)})
<1>1. PICK it : IsSum(it, f, S)
  BY SumExists
<1>2. S \in SUBSET S /\ S \ {Pick(S)} \in SUBSET S
  OBVIOUS
<1>3. SumFunctionOnSet(f, S) = it[S] /\ SumFunctionOnSet(f, S \ {Pick(S)}) = it[S \ {Pick(S)}]
  BY <1>1, <1>2, SumOfSubset
<1>. QED
  BY <1>1, <1>2, <1>3, SumAt

LEMMA SumAgrees ==
    ASSUME NEW f, NEW g, NEW S, IsFiniteSet(S), \A x \in S : f[x] = g[x]
    PROVE  SumFunctionOnSet(f, S) = SumFunctionOnSet(g, S)
<1>1. PICK it : IsSum(it, f, S) /\ SumFunctionOnSet(f, S) = it[S]
  BY SumChosen
<1>2. PICK jt : IsSum(jt, g, S) /\ SumFunctionOnSet(g, S) = jt[S]
  BY SumChosen
<1>3. it[S] = jt[S]
  BY <1>1, <1>2, SumUnique
<1>. QED
  BY <1>1, <1>2, <1>3

LEMMA SumIsNat ==
    ASSUME NEW f, NEW S, IsFiniteSet(S), \A x \in S : f[x] \in Nat
    PROVE  SumFunctionOnSet(f, S) \in Nat
<1> DEFINE bad == {s \in SUBSET S : SumFunctionOnSet(f, s) \notin Nat}
<1>1. SUFFICES ASSUME bad # {} PROVE FALSE
  OBVIOUS
<1>2. bad \subseteq SUBSET S
  OBVIOUS
<1> HIDE DEF bad
<1>3. PICK s \in bad : \A y \in bad : y \subseteq s => y = s
  BY <1>1, <1>2, SmallestSubset
<1>4. s \in SUBSET S /\ SumFunctionOnSet(f, s) \notin Nat /\ IsFiniteSet(s)
  BY <1>3, FS_Subset DEF bad
<1>5. s # {}
  <2>1. s = {} => SumFunctionOnSet(f, s) = 0
    BY <1>4, SumOfPick, Zenon
  <2>. QED
    BY <1>4, <2>1
<1>6. Pick(s) \in s /\ s \ {Pick(s)} \in SUBSET S
  BY <1>4, <1>5, PickIn
<1>7. SumFunctionOnSet(f, s \ {Pick(s)}) \in Nat
  BY <1>3, <1>6 DEF bad
<1>8. SumFunctionOnSet(f, s) = f[Pick(s)] + SumFunctionOnSet(f, s \ {Pick(s)})
  BY <1>4, <1>5, SumOfPick
<1>. QED
  BY <1>4, <1>6, <1>7, <1>8

\* Any element may be added last.
LEMMA SumTake ==
    ASSUME NEW f, NEW S, IsFiniteSet(S), \A x \in S : f[x] \in Nat, NEW e \in S
    PROVE  SumFunctionOnSet(f, S) = f[e] + SumFunctionOnSet(f, S \ {e})
<1> DEFINE bad == {s \in SUBSET S : \E d \in s : SumFunctionOnSet(f, s)
                                         # f[d] + SumFunctionOnSet(f, s \ {d})}
<1>1. SUFFICES ASSUME bad # {} PROVE FALSE
  OBVIOUS
<1>2. bad \subseteq SUBSET S
  OBVIOUS
<1> HIDE DEF bad
<1>3. PICK s \in bad : \A y \in bad : y \subseteq s => y = s
  BY <1>1, <1>2, SmallestSubset
<1>4. s \in SUBSET S /\ IsFiniteSet(s)
  BY <1>3, <1>2, FS_Subset
<1>5. PICK d \in s : SumFunctionOnSet(f, s) # f[d] + SumFunctionOnSet(f, s \ {d})
  BY <1>3 DEF bad
<1> DEFINE c == Pick(s)
           rest == s \ {c}
<1>6. c \in s /\ rest \in SUBSET S /\ IsFiniteSet(rest)
  BY <1>4, PickIn, FS_Subset
<1>7. SumFunctionOnSet(f, s) = f[c] + SumFunctionOnSet(f, rest)
  BY <1>4, SumOfPick
<1>8. c # d
  BY <1>5, <1>7
<1> DEFINE both == rest \ {d}
<1>9. SumFunctionOnSet(f, rest) = f[d] + SumFunctionOnSet(f, both)
  <2>1. rest \notin bad /\ d \in rest
    BY <1>3, <1>4, <1>6, <1>8, <1>5
  <2>. QED
    BY <1>6, <2>1 DEF bad
<1>10. SumFunctionOnSet(f, s \ {d}) = f[c] + SumFunctionOnSet(f, both)
  <2>1. c \in s \ {d} /\ s \ {d} # {} /\ IsFiniteSet(s \ {d}) /\ both = (s \ {d}) \ {c}
    BY <1>4, <1>6, <1>8, FS_Subset
  <2>2. s \ {d} \in SUBSET S /\ s \ {d} \subseteq s /\ s \ {d} # s
    BY <1>4, <1>5
  <2>3. s \ {d} \notin bad
    BY <1>3, <2>2
  <2>. QED
    BY <2>1, <2>2, <2>3 DEF bad
<1>11. f[c] \in Nat /\ f[d] \in Nat /\ SumFunctionOnSet(f, both) \in Nat
  BY <1>4, <1>6, <1>5, SumIsNat, FS_Subset
<1> HIDE DEF c, rest, both
<1>. QED
  BY <1>5, <1>7, <1>9, <1>10, <1>11

\* Induction over the numbers, as the search for the smallest counterexample.
LEMMA SmallestNumber ==
    ASSUME NEW T, T \subseteq Nat, T # {}
    PROVE  \E n \in T : \A m \in T : n <= m
<1>1. PICK n \in T : \A m \in T : ~ (<<m, n>> \in OpToRel(<, Nat))
  BY NatLessThanWellFounded, WFMin, Zenon
<1>. QED
  <2>1. ASSUME NEW m \in T
        PROVE  n <= m
    <3>1. <<m, n>> \in Nat \X Nat /\ <<m, n>>[1] = m /\ <<m, n>>[2] = n
      OBVIOUS
    <3>2. m < n => <<m, n>> \in OpToRel(<, Nat)
      BY <3>1 DEF OpToRel
    <3>3. ~ (m < n)
      BY <1>1, <3>2
    <3>. QED
      BY <3>1, <3>3
  <2>. QED
    BY <2>1

LEMMA LargestExists ==
    ASSUME NEW S, IsFiniteSet(S), S \subseteq Nat, S # {}
    PROVE  \E m \in S : \A x \in S : x <= m
<1> DEFINE bad == {s \in SUBSET S : s # {} /\ ~ \E m \in s : \A x \in s : x <= m}
<1>1. SUFFICES ASSUME bad # {} PROVE FALSE
  OBVIOUS
<1>2. bad \subseteq SUBSET S
  OBVIOUS
<1> HIDE DEF bad
<1>3. PICK s \in bad : \A y \in bad : y \subseteq s => y = s
  <2>1. IsFiniteSet(S)
    OBVIOUS
  <2>. QED
    BY ONLY <1>1, <1>2, <2>1, SmallestSubset
<1>4. s \in SUBSET S /\ s # {} /\ ~ \E m \in s : \A x \in s : x <= m
  BY <1>3 DEF bad
<1>5. PICK e \in s : TRUE
  BY <1>4
<1>6. s \ {e} \notin bad /\ e \in Nat /\ s \ {e} \in SUBSET S
  BY <1>3, <1>4, <1>5
<1>7. CASE s \ {e} = {}
  BY <1>4, <1>6, <1>7
<1>8. CASE s \ {e} # {}
  <2>1. PICK m \in s \ {e} : \A x \in s \ {e} : x <= m
    BY <1>6, <1>8 DEF bad
  <2>2. m \in Nat
    BY <1>4, <2>1
  <2>. QED
    BY <1>4, <1>6, <2>1, <2>2
<1>. QED
  BY <1>7, <1>8

LEMMA LargestNumber ==
    ASSUME NEW S, IsFiniteSet(S), S \subseteq Nat, S # {}
    PROVE  Max(S) \in S /\ \A x \in S : x <= Max(S)
<1>1. PICK m \in S : \A x \in S : m >= x
  BY LargestExists
<1>2. Max(S) \in S /\ \A x \in S : Max(S) >= x
  BY <1>1, Zenon DEF Max
<1>. QED
  BY <1>2

\* The largest of finitely many numbers, or zero.
LEMMA LargestOf ==
    ASSUME NEW p, NEW J, IsFiniteSet(J), \A j \in J : p[j] \in Nat
    PROVE  LET m == Max({0} \cup {p[j] : j \in J})
           IN  /\ m \in Nat
               /\ m = 0 \/ \E j \in J : m = p[j]
               /\ \A j \in J : p[j] <= m
<1> DEFINE f == [j \in J |-> p[j]]
           S == {p[j] : j \in J}
           V == {0} \cup S
<1>1. f \in Surjection(J, S)
  BY DEF Surjection
<1>2. IsFiniteSet(S)
  BY <1>1, FS_Surjection
<1>3. IsFiniteSet(V) /\ V \subseteq Nat /\ V # {}
  <2>1. IsFiniteSet({0})
    BY FS_Singleton
  <2>2. IsFiniteSet({0} \cup S)
    BY <1>2, <2>1, FS_Union
  <2>. QED
    BY <2>2
<1>4. Max(V) \in V /\ \A x \in V : x <= Max(V)
  BY <1>3, LargestNumber
<1>. QED
  BY <1>3, <1>4

--------------------------------------------------------------------------------
(* The sort                                                                   *)

Sorted == {"sorted", "measured", "accepted", "plan_budget_exceeded"}
Sorting == Sorted \cup {"sorting", "plan_dependency_cycle"}

PlanIsTyped ==
    /\ plan.actions \subseteq Action
    /\ plan.needs \in [plan.actions -> SUBSET Action]
    /\ plan.time \in [plan.actions -> Timeout]

\* What is sorted needs only what is sorted.
SortedIsClosed ==
    \A a \in Range(ordered) : plan.needs[a] \subseteq Range(ordered)

\* An action comes after all it needs.
DependenciesFirst ==
    \A i \in DOMAIN ordered : \A b \in plan.needs[ordered[i]] :
        \E j \in 1 .. i - 1 : ordered[j] = b

\* From any set of finished actions that leaves out something sorted, something
\* sorted can go on.
SortedGoesOn ==
    \A done \in SUBSET plan.actions : Range(ordered) \ done # {} =>
        \E a \in Range(ordered) \ done : plan.needs[a] \subseteq done

SortInv ==
    /\ PlanIsTyped
    /\ stage \in Sorting =>
         /\ DependenciesExist
         /\ ordered \in Seq(plan.actions)
         /\ incoming = [c \in plan.actions |-> plan.needs[c] \ Range(ordered)]
         /\ ready = {c \in plan.actions \ Range(ordered) : incoming[c] = {}}
         /\ SortedIsClosed
         /\ SortedGoesOn
         /\ IsInjective(ordered) /\ DependenciesFirst
    /\ stage \in Sorted => Range(ordered) = plan.actions
    /\ stage \in {"measured", "accepted"} => WithinBudgets
    /\ stage = "plan_budget_exceeded" => ~ WithinBudgets
    /\ stage = "plan_dependency_cycle" => ready = {} /\ Range(ordered) # plan.actions

LEMMA RangeOfAppend ==
    ASSUME NEW S, NEW s \in Seq(S), NEW e \in S
    PROVE  Range(Append(s, e)) = Range(s) \cup {e}
BY DEF Range

LEMMA RangeInside ==
    ASSUME NEW S, NEW s \in Seq(S)
    PROVE  Range(s) \subseteq S
BY DEF Range

LEMMA VisitStep ==
    ASSUME SortInv, NEW a \in Action, Visit(a)
    PROVE  SortInv'
<1> DEFINE R == Range(ordered)
<1>1. /\ stage = "sorting" /\ stage' = "sorting" /\ plan' = plan
      /\ DependenciesExist /\ ordered \in Seq(plan.actions)
      /\ incoming = [c \in plan.actions |-> plan.needs[c] \ R]
      /\ ready = {c \in plan.actions \ R : incoming[c] = {}}
      /\ a \in plan.actions \ R /\ plan.needs[a] \subseteq R
  BY DEF Visit, SortInv, Sorting
<1>2. ordered' \in Seq(plan.actions) /\ Range(ordered') = R \cup {a}
  BY <1>1, RangeOfAppend DEF Visit
<1>3. incoming' = [c \in plan.actions |-> plan.needs[c] \ (R \cup {a})]
  BY <1>1 DEF Visit
<1>4. ready' = {c \in plan.actions \ (R \cup {a}) : incoming'[c] = {}}
  <2>1. \A c \in plan.actions : c \in ready' <=>
            (c \in ready /\ c # a) \/ incoming[c] = {a}
    BY DEF Visit, Released
  <2>2. ready' \subseteq plan.actions
    BY <1>1 DEF Visit, Released
  <2>3. ASSUME NEW c \in plan.actions, incoming[c] = {a}
        PROVE  c \notin R \cup {a}
    BY <1>1, <2>3 DEF SortInv, Sorting, SortedIsClosed
  <2>4. ASSUME NEW c \in plan.actions
        PROVE  c \in ready' <=> c \notin R \cup {a} /\ incoming'[c] = {}
    <3>1. incoming[c] = plan.needs[c] \ R /\ incoming'[c] = incoming[c] \ {a}
      BY <1>1, <1>3
    <3>2. c \in ready <=> c \notin R /\ incoming[c] = {}
      BY <1>1
    <3>3. incoming'[c] = {} <=> incoming[c] = {} \/ incoming[c] = {a}
      BY <3>1
    <3>. QED
      BY <2>1, <2>3, <3>2, <3>3
  <2>. QED
    BY <2>2, <2>4
<1>5. SortedIsClosed'
  BY <1>1, <1>2 DEF SortInv, Sorting, SortedIsClosed
<1>6. SortedGoesOn'
  <2>1. ASSUME NEW done \in SUBSET plan.actions, (R \cup {a}) \ done # {}
        PROVE  \E b \in (R \cup {a}) \ done : plan.needs[b] \subseteq done
    <3>1. CASE R \ done # {}
      BY <1>1, <3>1 DEF SortInv, Sorting, SortedGoesOn
    <3>2. CASE R \subseteq done
      BY <1>1, <2>1, <3>2
    <3>. QED
      BY <3>1, <3>2
  <2>. QED
    BY <1>1, <1>2, <2>1 DEF SortedGoesOn
<1>7. PlanIsTyped' /\ DependenciesExist'
  BY <1>1 DEF SortInv, PlanIsTyped, DependenciesExist
<1>8. /\ Len(ordered) \in Nat /\ DOMAIN ordered = 1 .. Len(ordered)
      /\ DOMAIN ordered' = 1 .. Len(ordered) + 1
      /\ \A i \in 1 .. Len(ordered) : ordered'[i] = ordered[i] /\ ordered[i] # a
      /\ ordered'[Len(ordered) + 1] = a
  BY <1>1 DEF Visit, Range
<1>9. IsInjective(ordered')
  <2>1. IsInjective(ordered)
    BY <1>1 DEF SortInv, Sorting
  <2>. QED
    BY <1>8, <2>1 DEF IsInjective
<1>10. DependenciesFirst'
  <2>1. ASSUME NEW i \in 1 .. Len(ordered) + 1, NEW b \in plan.needs[ordered'[i]]
        PROVE  \E j \in 1 .. i - 1 : ordered'[j] = b
    <3>1. CASE i = Len(ordered) + 1
      <4>1. b \in R
        BY <1>1, <1>8, <2>1, <3>1
      <4>. QED
        BY <1>8, <3>1, <4>1 DEF Range
    <3>2. CASE i # Len(ordered) + 1
      <4>1. i \in 1 .. Len(ordered) /\ ordered'[i] = ordered[i]
        BY <1>8, <3>2
      <4>2. PICK j \in 1 .. i - 1 : ordered[j] = b
        BY <1>1, <1>8, <2>1, <4>1 DEF SortInv, Sorting, DependenciesFirst
      <4>. QED
        BY <1>8, <4>1, <4>2
    <3>. QED
      BY <3>1, <3>2
  <2>. QED
    BY <1>1, <1>8, <2>1 DEF DependenciesFirst
<1>11. QED
  BY <1>1, <1>2, <1>3, <1>4, <1>5, <1>6, <1>7, <1>9, <1>10 DEF SortInv, Sorted

LEMMA SortStep ==
    ASSUME SortInv, [Next]_vars
    PROVE  SortInv'
<1>1. CASE StartSort
  <2>1. plan' = plan /\ PlanIsTyped'
    BY <1>1 DEF StartSort, SortInv, PlanIsTyped
  <2>2. CASE DependenciesExist
    <3>1. /\ stage' = "sorting" /\ ordered' = << >> /\ incoming' = plan.needs
          /\ ready' = {a \in plan.actions : plan.needs[a] = {}}
      BY <1>1, <2>2 DEF StartSort
    <3>2. Range(ordered') = {} /\ ordered' \in Seq(plan.actions)
      BY <3>1 DEF Range
    <3>3. incoming' = [c \in plan.actions |-> plan.needs[c] \ Range(ordered')]
      BY <3>1, <3>2 DEF SortInv, PlanIsTyped
    <3>4. ready' = {c \in plan.actions \ Range(ordered') : incoming'[c] = {}}
      BY <3>1, <3>2
    <3>5. DependenciesExist' /\ SortedIsClosed' /\ SortedGoesOn'
      BY <2>1, <2>2, <3>2 DEF DependenciesExist, SortedIsClosed, SortedGoesOn
    <3>6. IsInjective(ordered') /\ DependenciesFirst'
      BY <3>1 DEF IsInjective, DependenciesFirst
    <3>. QED
      BY <2>1, <3>1, <3>2, <3>3, <3>4, <3>5, <3>6 DEF SortInv, Sorted
  <2>3. CASE ~DependenciesExist
    BY <1>1, <2>1, <2>3 DEF StartSort, SortInv, Sorting, Sorted
  <2>. QED
    BY <2>2, <2>3
<1>2. ASSUME NEW a \in Action, Visit(a)
      PROVE  SortInv'
  BY <1>2, VisitStep
<1>3. ASSUME UNCHANGED <<plan, incoming, ready, ordered>>,
             stage' \in Sorting => stage \in Sorting,
             stage' \in Sorted => Range(ordered) = plan.actions,
             stage' \in {"measured", "accepted"} => WithinBudgets,
             stage' = "plan_budget_exceeded" => ~ WithinBudgets,
             stage' = "plan_dependency_cycle" =>
                 ready = {} /\ Range(ordered) # plan.actions
      PROVE  SortInv'
  <2>1. WithinBudgets' = WithinBudgets
    BY <1>3 DEF WithinBudgets, Edges, TotalTimeout, LongestPath
  <2>. QED
    BY <1>3, <2>1 DEF SortInv, PlanIsTyped, DependenciesExist, SortedIsClosed,
                      SortedGoesOn, DependenciesFirst
<1>4. CASE EndSort
  BY <1>3, <1>4 DEF EndSort, Sorting, Sorted
<1>5. CASE Measure
  BY <1>3, <1>5 DEF Measure, Sorting, Sorted, SortInv
<1>6. CASE CheckContracts
  BY <1>3, <1>6 DEF CheckContracts, Sorting, Sorted, ContractFaults, SortInv
<1>7. CASE RefuseContext
  BY <1>3, <1>7 DEF RefuseContext, Sorting, Sorted
<1>8. CASE UNCHANGED validation
  BY <1>3, <1>8 DEF validation, SortInv
<1>9. QED
  BY <1>1, <1>2, <1>4, <1>5, <1>6, <1>7, <1>8
     DEF Next, ValidationNext, HandOver, vars, validation

LEMMA PlanTyped ==
    ASSUME plan \in Plan
    PROVE  PlanIsTyped
BY DEF Plan, PlanIsTyped

LEMMA SortAlways == Spec => []SortInv
<1>1. Init => SortInv
  BY PlanTyped DEF Init, ValidationInit, SortInv, Sorting, Sorted
<1>2. QED
  BY <1>1, SortStep, PTL DEF Spec

\* An accepted plan can always go on, and a plan refused for a cycle has one: for
\* any number of actions and any order of their ids.
THEOREM SortIsRight == Spec => []RunnableOrCyclic
<1>1. SortInv => RunnableOrCyclic
  <2>1. ASSUME SortInv, stage \in {"sorted", "measured", "accepted"},
               NEW done \in SUBSET plan.actions, done # plan.actions
        PROVE  \E a \in plan.actions \ done : plan.needs[a] \subseteq done
    <3>1. Range(ordered) = plan.actions /\ SortedGoesOn
      BY <2>1 DEF SortInv, Sorting, Sorted
    <3>2. Range(ordered) \ done # {}
      BY <2>1, <3>1
    <3>. QED
      BY <3>1, <3>2 DEF SortedGoesOn
  <2>2. ASSUME SortInv, stage = "plan_dependency_cycle"
        PROVE  \E stuck \in (SUBSET plan.actions) \ {{}} :
                  \A a \in stuck : plan.needs[a] \cap stuck # {}
    <3> DEFINE rest == plan.actions \ Range(ordered)
    <3>1. rest \in (SUBSET plan.actions) \ {{}}
      BY <2>2, RangeInside DEF SortInv, Sorting
    <3>2. \A a \in rest : plan.needs[a] \cap rest # {}
      BY <2>2 DEF SortInv, Sorting, DependenciesExist
    <3>. QED
      BY <3>1, <3>2
  <2>. QED
    BY <2>1, <2>2 DEF RunnableOrCyclic
<1>2. QED
  BY <1>1, SortAlways, PTL

--------------------------------------------------------------------------------
(* The budgets                                                                *)

\* What the sort leaves behind.
IsSorted ==
    /\ plan.needs \in [plan.actions -> SUBSET plan.actions]
    /\ plan.time \in [plan.actions -> Timeout]
    /\ ordered \in Seq(plan.actions)
    /\ Range(ordered) = plan.actions
    /\ IsInjective(ordered)
    /\ DependenciesFirst

\* The positions of the actions that the one at i needs.
Before(i) == {j \in 1 .. i - 1 : ordered[j] \in plan.needs[ordered[i]]}

\* One step of the recursion in LongestPath, and the functions on the first n
\* positions that satisfy it.
PathStep(p, i) == plan.time[ordered[i]] + Max({0} \cup {p[j] : j \in Before(i)})

IsPath(p, n) == p = [i \in 1 .. n |-> PathStep(p, i)]

LEMMA BeforeFinite ==
    ASSUME NEW i \in Nat
    PROVE  IsFiniteSet(Before(i)) /\ Before(i) \subseteq 1 .. i - 1
<1>1. IsFiniteSet(1 .. i - 1) /\ Before(i) \in SUBSET (1 .. i - 1)
  BY FS_Interval DEF Before
<1>. QED
  BY <1>1, FS_Subset

LEMMA PathExists ==
    ASSUME NEW n \in Nat
    PROVE  \E p : IsPath(p, n)
<1> DEFINE bad == {k \in Nat : ~ \E p : IsPath(p, k)}
<1>1. SUFFICES ASSUME bad # {} PROVE FALSE
  OBVIOUS
<1>2. bad \subseteq Nat
  OBVIOUS
<1> HIDE DEF bad
<1>3. PICK k \in bad : \A m \in bad : k <= m
  BY <1>1, <1>2, SmallestNumber
<1>4. k \in Nat /\ ~ \E p : IsPath(p, k)
  BY <1>3 DEF bad
<1>5. CASE k = 0
  <2> DEFINE p == [i \in 1 .. 0 |-> 0]
  <2>1. IsPath(p, k)
    BY <1>5 DEF IsPath
  <2>. QED
    BY <1>4, <2>1
<1>6. CASE k # 0
  <2>1. k - 1 \in Nat /\ k - 1 \notin bad
    BY <1>3, <1>4, <1>6
  <2>2. PICK p : IsPath(p, k - 1)
    BY <2>1 DEF bad
  <2> DEFINE q == [i \in 1 .. k |-> IF i = k THEN PathStep(p, k) ELSE p[i]]
  <2>3. ASSUME NEW i \in 1 .. k
        PROVE  PathStep(q, i) = PathStep(p, i)
    <3>1. \A j \in Before(i) : q[j] = p[j]
      BY <1>4, <2>3 DEF Before
    <3>2. {q[j] : j \in Before(i)} = {p[j] : j \in Before(i)}
      BY <3>1
    <3>. QED
      BY <3>2 DEF PathStep
  <2>4. ASSUME NEW i \in 1 .. k
        PROVE  q[i] = PathStep(q, i)
    <3>1. CASE i = k
      BY <2>3, <3>1
    <3>2. CASE i # k
      <4>1. i \in 1 .. k - 1
        BY <1>4, <3>2
      <4>2. p[i] = PathStep(p, i)
        BY <2>2, <4>1 DEF IsPath
      <4>. QED
        BY <2>3, <3>2, <4>2
    <3>. QED
      BY <3>1, <3>2
  <2>5. IsPath(q, k)
    <3>1. q = [i \in 1 .. k |-> q[i]]
      OBVIOUS
    <3> HIDE DEF q
    <3>. QED
      BY <2>4, <3>1 DEF IsPath
  <2>. QED
    BY <1>4, <2>5
<1>. QED
  BY <1>5, <1>6

LEMMA LongestPathIs ==
    ASSUME Len(ordered) \in Nat
    PROVE  \E p : /\ IsPath(p, Len(ordered))
                  /\ LongestPath = Max({0} \cup {p[i] : i \in DOMAIN ordered})
<1> DEFINE path == CHOOSE path : path = [i \in 1 .. Len(ordered) |-> PathStep(path, i)]
<1>1. IsPath(path, Len(ordered))
  <2>1. PICK p : IsPath(p, Len(ordered))
    BY PathExists
  <2>. QED
    BY <2>1, Zenon DEF IsPath
<1>2. LongestPath = Max({0} \cup {path[i] : i \in DOMAIN ordered})
  BY DEF LongestPath, PathStep, Before
<1>. QED
  BY <1>1, <1>2

LEMMA SortedFacts ==
    ASSUME IsSorted
    PROVE  /\ Len(ordered) \in Nat /\ DOMAIN ordered = 1 .. Len(ordered)
           /\ IsFiniteSet(plan.actions) /\ Cardinality(plan.actions) = Len(ordered)
           /\ \A i \in 1 .. Len(ordered) :
                /\ ordered[i] \in plan.actions
                /\ plan.time[ordered[i]] \in Nat
                /\ plan.needs[ordered[i]] \subseteq plan.actions
<1>1. Len(ordered) \in Nat /\ DOMAIN ordered = 1 .. Len(ordered)
      /\ \A i \in 1 .. Len(ordered) : ordered[i] \in plan.actions
  BY DEF IsSorted
<1>2. ordered \in Bijection(1 .. Len(ordered), plan.actions)
  <2>1. ordered \in [1 .. Len(ordered) -> plan.actions]
    BY DEF IsSorted
  <2>2. \A t \in plan.actions : \E s \in 1 .. Len(ordered) : ordered[s] = t
    BY <1>1 DEF IsSorted, Range
  <2>. QED
    BY <2>1, <2>2 DEF IsSorted, Bijection, Injection, Surjection
<1>3. ExistsBijection(1 .. Len(ordered), plan.actions)
  BY <1>2 DEF ExistsBijection
<1>4. IsFiniteSet(plan.actions) /\ Cardinality(plan.actions) = Len(ordered)
  BY <1>1, <1>3, FS_NatBijection, FS_CountingElements
<1>5. ASSUME NEW i \in 1 .. Len(ordered)
      PROVE  plan.time[ordered[i]] \in Nat /\ plan.needs[ordered[i]] \subseteq plan.actions
  BY <1>1, BudgetAssumption DEF IsSorted
<1>. QED
  BY <1>1, <1>4, <1>5

\* What the recursion of LongestPath computes: the time of the action on top of the
\* longest path of what it needs.
LEMMA PathAt ==
    ASSUME IsSorted, NEW p, IsPath(p, Len(ordered)), NEW i \in 1 .. Len(ordered)
    PROVE  /\ p[i] \in Nat
           /\ \/ p[i] = plan.time[ordered[i]]
              \/ \E j \in Before(i) : p[i] = plan.time[ordered[i]] + p[j]
           /\ p[i] >= plan.time[ordered[i]]
           /\ \A j \in Before(i) : p[i] >= plan.time[ordered[i]] + p[j]
<1> DEFINE N == Len(ordered)
<1>1. /\ N \in Nat
      /\ \A k \in 1 .. N : plan.time[ordered[k]] \in Nat /\ p[k] = PathStep(p, k)
      /\ \A k \in 1 .. N : IsFiniteSet(Before(k)) /\ Before(k) \subseteq 1 .. k - 1
  BY SortedFacts, BeforeFinite DEF IsPath
<1> HIDE DEF N
<1>2. \A k \in 1 .. N : p[k] \in Nat
  <2> DEFINE bad == {k \in 1 .. N : p[k] \notin Nat}
  <2>1. SUFFICES ASSUME bad # {} PROVE FALSE
    OBVIOUS
  <2>2. bad \subseteq Nat
    BY <1>1
  <2> HIDE DEF bad
  <2>3. PICK k \in bad : \A m \in bad : k <= m
    BY <2>1, <2>2, SmallestNumber
  <2>4. k \in 1 .. N /\ p[k] \notin Nat
    BY <2>3 DEF bad
  <2>5. \A j \in Before(k) : p[j] \in Nat
    <3>1. ASSUME NEW j \in Before(k) PROVE p[j] \in Nat
      <4>1. j \in 1 .. N /\ j < k
        BY <1>1, <2>4
      <4>. QED
        BY <2>3, <2>4, <4>1, <1>1 DEF bad
    <3>. QED
      BY <3>1
  <2>6. Max({0} \cup {p[j] : j \in Before(k)}) \in Nat
    BY <1>1, <2>4, <2>5, LargestOf
  <2>. QED
    BY <1>1, <2>4, <2>6 DEF PathStep
<1> DEFINE m == Max({0} \cup {p[j] : j \in Before(i)})
<1>3. i \in 1 .. N
  BY DEF N
<1>4. \A j \in Before(i) : j \in 1 .. N /\ p[j] \in Nat
  BY <1>1, <1>2, <1>3
<1>5. m \in Nat /\ (m = 0 \/ \E j \in Before(i) : m = p[j]) /\ \A j \in Before(i) : p[j] <= m
  BY <1>1, <1>3, <1>4, LargestOf
<1>6. p[i] = plan.time[ordered[i]] + m /\ plan.time[ordered[i]] \in Nat
  BY <1>1, <1>3 DEF PathStep
<1> HIDE DEF m
<1>. QED
  BY <1>4, <1>5, <1>6

\* The times along a sequence of actions.
Times(s) == [i \in DOMAIN s |-> plan.time[s[i]]]

\* A chain of n actions, each of which needs the one before it.
IsChain(s, n) ==
    s \in [1 .. n -> plan.actions] /\ \A i \in 1 .. n - 1 : s[i] \in plan.needs[s[i + 1]]

LEMMA IntervalWithoutLast ==
    ASSUME NEW n \in Nat \ {0}
    PROVE  n \in 1 .. n /\ (1 .. n) \ {n} = 1 .. n - 1
OBVIOUS

LEMMA TimesAre ==
    ASSUME IsSorted, NEW n \in Nat, NEW s \in [1 .. n -> plan.actions]
    PROVE  /\ DOMAIN Times(s) = 1 .. n
           /\ \A i \in 1 .. n : Times(s)[i] = plan.time[s[i]] /\ Times(s)[i] \in Nat
BY BudgetAssumption DEF Times, IsSorted

LEMMA SumOfNothing ==
    ASSUME NEW f
    PROVE  SumFunctionOnSet(f, 1 .. 0) = 0
<1> DEFINE S == 1 .. 0
<1>1. S = {} /\ IsFiniteSet(S)
  BY FS_EmptySet
<1> HIDE DEF S
<1>2. S = {} => SumFunctionOnSet(f, S) = 0
  BY <1>1, SumOfPick, Zenon
<1>. QED
  BY <1>1, <1>2 DEF S

\* The times of the first k actions of a chain.
LEMMA SumStep ==
    ASSUME IsSorted, NEW n \in Nat, NEW s \in [1 .. n -> plan.actions], NEW k \in 1 .. n
    PROVE  /\ SumFunctionOnSet(Times(s), 1 .. k - 1) \in Nat
           /\ plan.time[s[k]] \in Nat
           /\ SumFunctionOnSet(Times(s), 1 .. k)
                = plan.time[s[k]] + SumFunctionOnSet(Times(s), 1 .. k - 1)
           /\ SumFunctionOnSet(Times(s), 1 .. 0) = 0
<1>1. /\ \A i \in 1 .. n : Times(s)[i] = plan.time[s[i]] /\ Times(s)[i] \in Nat
      /\ IsFiniteSet(1 .. k) /\ IsFiniteSet(1 .. k - 1) /\ k \in Nat \ {0} /\ k <= n
  <2>1. \A i \in 1 .. n : Times(s)[i] = plan.time[s[i]] /\ Times(s)[i] \in Nat
    BY TimesAre
  <2>2. k \in Nat \ {0} /\ k <= n /\ k \in Int /\ k - 1 \in Int
    OBVIOUS
  <2>3. IsFiniteSet(1 .. k) /\ IsFiniteSet(1 .. k - 1)
    BY <2>2, FS_Interval
  <2>. QED
    BY <2>1, <2>2, <2>3
<1>2. k \in 1 .. k /\ (1 .. k) \ {k} = 1 .. k - 1
  BY <1>1, IntervalWithoutLast
<1>3. \A i \in 1 .. k : Times(s)[i] \in Nat
  BY <1>1
<1>4. \A i \in 1 .. k - 1 : Times(s)[i] \in Nat
  BY <1>1
<1>5. SumFunctionOnSet(Times(s), 1 .. k - 1) \in Nat
  BY <1>1, <1>4, SumIsNat
<1>6. SumFunctionOnSet(Times(s), 1 .. k)
        = Times(s)[k] + SumFunctionOnSet(Times(s), (1 .. k) \ {k})
  BY <1>1, <1>2, <1>3, SumTake
<1>7. SumFunctionOnSet(Times(s), 1 .. 0) = 0
  BY SumOfNothing
<1>. QED
  BY <1>1, <1>2, <1>5, <1>6, <1>7

\* No chain takes longer than the path computed for its last action.
LEMMA ChainsAreBounded ==
    ASSUME IsSorted, NEW p, IsPath(p, Len(ordered)),
           NEW n \in Nat \ {0}, NEW s, IsChain(s, n)
    PROVE  \A k \in 1 .. n : \A i \in 1 .. Len(ordered) :
              ordered[i] = s[k] => SumFunctionOnSet(Times(s), 1 .. k) <= p[i]
<1> DEFINE sum(k) == SumFunctionOnSet(Times(s), 1 .. k)
           holds(k) == \A i \in 1 .. Len(ordered) : ordered[i] = s[k] => sum(k) <= p[i]
           bad == {k \in 1 .. n : ~ holds(k)}
<1>1. SUFFICES ASSUME bad # {} PROVE FALSE
  OBVIOUS
<1>2. bad \subseteq Nat
  OBVIOUS
<1> HIDE DEF bad
<1>3. PICK k \in bad : \A m \in bad : k <= m
  BY <1>1, <1>2, SmallestNumber
<1>4. k \in 1 .. n /\ ~ holds(k)
  BY <1>3 DEF bad
<1>5. PICK i \in 1 .. Len(ordered) : ordered[i] = s[k] /\ ~ (sum(k) <= p[i])
  BY <1>4
<1>6. /\ s \in [1 .. n -> plan.actions]
      /\ \A m \in 1 .. n - 1 : s[m] \in plan.needs[s[m + 1]]
  BY DEF IsChain
<1>7. sum(k - 1) \in Nat /\ plan.time[s[k]] \in Nat /\ sum(0) = 0
      /\ sum(k) = plan.time[s[k]] + sum(k - 1)
  BY <1>4, <1>6, SumStep
<1>8. /\ p[i] \in Nat /\ p[i] >= plan.time[ordered[i]]
      /\ \A j \in Before(i) : p[i] >= plan.time[ordered[i]] + p[j]
  BY PathAt
<1> HIDE DEF sum
<1>9. CASE k = 1
  BY <1>5, <1>7, <1>8, <1>9
<1>10. CASE k # 1
  <2>1. k - 1 \in 1 .. n - 1 /\ k - 1 \in 1 .. n /\ (k - 1) + 1 = k
    BY <1>4, <1>10
  <2>2. s[k - 1] \in plan.needs[ordered[i]]
    BY <1>5, <1>6, <2>1
  <2>3. PICK j \in 1 .. i - 1 : ordered[j] = s[k - 1]
    BY <2>2, SortedFacts DEF IsSorted, DependenciesFirst
  <2>4. j \in Before(i) /\ j \in 1 .. Len(ordered)
    BY <2>2, <2>3, SortedFacts DEF Before
  <2>5. holds(k - 1)
    BY <1>3, <1>4, <2>1 DEF bad
  <2>6. sum(k - 1) <= p[j] /\ p[j] \in Nat
    BY <2>3, <2>4, <2>5, PathAt
  <2>7. p[i] >= plan.time[s[k]] + p[j]
    BY <1>5, <1>8, <2>4
  <2>. QED
    BY <1>5, <1>7, <1>8, <2>6, <2>7
<1>. QED
  BY <1>9, <1>10

\* The path computed for an action is the time of a chain that ends in it.
LEMMA PathsAreChains ==
    ASSUME IsSorted, NEW p, IsPath(p, Len(ordered))
    PROVE  \A i \in 1 .. Len(ordered) : \E n \in 1 .. i : \E s :
              /\ IsChain(s, n) /\ s[n] = ordered[i]
              /\ SumFunctionOnSet(Times(s), 1 .. n) = p[i]
<1> DEFINE fits(i, n, s) == /\ IsChain(s, n) /\ s[n] = ordered[i]
                            /\ SumFunctionOnSet(Times(s), 1 .. n) = p[i]
           bad == {i \in 1 .. Len(ordered) : ~ \E n \in 1 .. i : \E s : fits(i, n, s)}
<1>1. SUFFICES ASSUME bad # {} PROVE FALSE
  OBVIOUS
<1>2. bad \subseteq Nat
  BY SortedFacts
<1> HIDE DEF bad
<1>3. PICK i \in bad : \A m \in bad : i <= m
  BY <1>1, <1>2, SmallestNumber
<1>4. i \in 1 .. Len(ordered) /\ ~ \E n \in 1 .. i : \E s : fits(i, n, s)
  BY <1>3 DEF bad
<1>5. /\ ordered[i] \in plan.actions /\ plan.time[ordered[i]] \in Nat
      /\ Len(ordered) \in Nat
  BY <1>4, SortedFacts
<1>6. CASE p[i] = plan.time[ordered[i]]
  <2> DEFINE s == [k \in 1 .. 1 |-> ordered[i]]
  <2>1. s \in [1 .. 1 -> plan.actions] /\ s[1] = ordered[i]
    BY <1>5
  <2>2. IsChain(s, 1)
    BY <2>1 DEF IsChain
  <2> HIDE DEF s
  <2>3. 1 \in 1 .. 1 /\ 1 \in Nat /\ 1 - 1 = 0
    OBVIOUS
  <2>4. /\ SumFunctionOnSet(Times(s), 1 .. 1)
               = plan.time[s[1]] + SumFunctionOnSet(Times(s), 1 .. 1 - 1)
        /\ SumFunctionOnSet(Times(s), 1 .. 0) = 0
    BY <2>1, <2>3, SumStep, SumOfNothing
  <2>5. fits(i, 1, s)
    BY <1>5, <1>6, <2>1, <2>2, <2>3, <2>4
  <2>6. 1 \in 1 .. i
    BY <1>4, <1>5
  <2> HIDE DEF fits
  <2>. QED
    BY <1>4, <2>5, <2>6
<1>7. ASSUME NEW j \in Before(i), p[i] = plan.time[ordered[i]] + p[j]
      PROVE  FALSE
  <2>1. j \in 1 .. i - 1 /\ j \in 1 .. Len(ordered) /\ ordered[j] \in plan.needs[ordered[i]]
    BY <1>4, <1>5, <1>7 DEF Before
  <2>2. j \notin bad
    BY <1>3, <1>4, <1>5, <2>1
  <2>3. PICK n \in 1 .. j : \E t : fits(j, n, t)
    BY <2>1, <2>2 DEF bad
  <2>4. PICK t : fits(j, n, t)
    BY <2>3
  <2> DEFINE s == [k \in 1 .. n + 1 |-> IF k <= n THEN t[k] ELSE ordered[i]]
  <2>5. n \in Nat /\ n + 1 \in Nat /\ n + 1 \in 1 .. i /\ n \in 1 .. n /\ n + 1 \in 1 .. n + 1
        /\ n \in 1 .. n + 1
    BY <1>4, <1>5, <2>1
  <2>6. t \in [1 .. n -> plan.actions] /\ t[n] = ordered[j]
        /\ \A k \in 1 .. n - 1 : t[k] \in plan.needs[t[k + 1]]
    BY <2>4 DEF IsChain
  <2>7. /\ s \in [1 .. n + 1 -> plan.actions] /\ s[n + 1] = ordered[i]
        /\ \A k \in 1 .. n : s[k] = t[k]
    BY <1>5, <2>5, <2>6
  <2> HIDE DEF s
  <2>8. \A k \in 1 .. (n + 1) - 1 : s[k] \in plan.needs[s[k + 1]]
    <3>1. ASSUME NEW k \in 1 .. n
          PROVE  s[k] \in plan.needs[s[k + 1]]
      <4>1. CASE k = n
        BY <2>1, <2>5, <2>6, <2>7, <4>1
      <4>2. CASE k # n
        <5>1. k \in 1 .. n - 1 /\ k + 1 \in 1 .. n
          BY <2>5, <4>2
        <5>. QED
          BY <2>6, <2>7, <5>1
      <4>. QED
        BY <4>1, <4>2
    <3>. QED
      BY <2>5, <3>1
  <2>9. IsChain(s, n + 1)
    BY <2>7, <2>8 DEF IsChain
  <2>10. SumFunctionOnSet(Times(s), 1 .. n + 1)
          = plan.time[s[n + 1]] + SumFunctionOnSet(Times(s), 1 .. (n + 1) - 1)
    BY <2>5, <2>7, SumStep
  <2>11. SumFunctionOnSet(Times(s), 1 .. n) = SumFunctionOnSet(Times(t), 1 .. n)
    <3>1. \A k \in 1 .. n : Times(s)[k] = Times(t)[k]
      <4>1. \A k \in 1 .. n : k \in 1 .. n + 1
        BY <2>5
      <4>2. \A k \in 1 .. n : Times(s)[k] = plan.time[s[k]]
        BY <2>5, <2>7, <4>1, TimesAre
      <4>3. \A k \in 1 .. n : Times(t)[k] = plan.time[t[k]]
        BY <2>5, <2>6, TimesAre
      <4>. QED
        BY <2>7, <4>2, <4>3
    <3>2. IsFiniteSet(1 .. n)
      BY <2>5, FS_Interval
    <3>. QED
      BY <3>1, <3>2, SumAgrees
  <2>12. fits(i, n + 1, s)
    <3>1. (n + 1) - 1 = n
      BY <2>5
    <3>. QED
      BY <1>7, <2>4, <2>7, <2>9, <2>10, <2>11, <3>1
  <2>. QED
    BY <1>4, <2>5, <2>12
<1>. QED
  BY <1>4, <1>6, <1>7, PathAt

\* The edges and the timeouts of a sorted plan are numbers that can be compared.
LEMMA SumsAreNumbers ==
    ASSUME IsSorted
    PROVE  Edges \in Nat /\ TotalTimeout \in Nat
<1> DEFINE needed == [a \in plan.actions |-> Cardinality(plan.needs[a])]
<1>1. IsFiniteSet(plan.actions)
  BY SortedFacts
<1>2. ASSUME NEW a \in plan.actions
      PROVE  needed[a] \in Nat
  <2>1. plan.needs[a] \in SUBSET plan.actions
    BY DEF IsSorted
  <2>. QED
    BY <1>1, <2>1, FS_Subset, FS_CardinalityType
<1>3. \A a \in plan.actions : plan.time[a] \in Nat
  BY BudgetAssumption DEF IsSorted
<1>4. DOMAIN needed = plan.actions /\ DOMAIN plan.time = plan.actions
  BY DEF IsSorted
<1>5. SumFunctionOnSet(needed, plan.actions) \in Nat
  <2> HIDE DEF needed
  <2>. QED
    BY <1>1, <1>2, SumIsNat
<1>6. SumFunctionOnSet(plan.time, plan.actions) \in Nat
  BY <1>1, <1>3, SumIsNat
<1>. QED
  BY <1>4, <1>5, <1>6 DEF Edges, TotalTimeout, SumFunction

\* The chains the property speaks of, and their times.
LEMMA ChainsAre ==
    ASSUME IsSorted, NEW s
    PROVE  /\ s \in Chains <=> \E n \in 1 .. Len(ordered) : IsChain(s, n)
           /\ \A n \in Nat : IsChain(s, n) =>
                ChainTime(s) = SumFunctionOnSet(Times(s), 1 .. n)
<1>1. Cardinality(plan.actions) = Len(ordered) /\ Len(ordered) \in Nat
  BY SortedFacts
<1>2. ASSUME NEW n \in Nat, s \in [1 .. n -> plan.actions]
      PROVE  Len(s) = n /\ DOMAIN s = 1 .. n
  BY <1>2
<1>3. s \in Chains <=> \E n \in 1 .. Len(ordered) : IsChain(s, n)
  <2>1. s \in Chains <=> \E n \in 1 .. Len(ordered) :
                           /\ s \in [1 .. n -> plan.actions]
                           /\ \A i \in 1 .. Len(s) - 1 : s[i] \in plan.needs[s[i + 1]]
    BY <1>1 DEF Chains
  <2>2. \A n \in 1 .. Len(ordered) : n \in Nat
    BY <1>1
  <2>. QED
    BY <1>2, <2>1, <2>2 DEF IsChain
<1>4. ASSUME NEW n \in Nat, IsChain(s, n)
      PROVE  ChainTime(s) = SumFunctionOnSet(Times(s), 1 .. n)
  <2>1. DOMAIN Times(s) = 1 .. n
    BY <1>2, <1>4 DEF IsChain, Times
  <2>. QED
    BY <2>1 DEF ChainTime, Times, SumFunction
<1>. QED
  BY <1>3, <1>4

\* The recursion over the sorted actions finds the time of the longest chain.
LEMMA LongestPathIsExact ==
    ASSUME IsSorted
    PROVE  /\ \A s \in Chains : ChainTime(s) \in Nat /\ ChainTime(s) <= LongestPath
           /\ LongestPath \in Nat
           /\ LongestPath = 0 \/ \E s \in Chains : ChainTime(s) = LongestPath
<1> DEFINE N == Len(ordered)
<1>1. N \in Nat /\ DOMAIN ordered = 1 .. N /\ IsFiniteSet(1 .. N)
  BY SortedFacts, FS_Interval
<1>2. PICK p : /\ IsPath(p, N)
               /\ LongestPath = Max({0} \cup {p[i] : i \in 1 .. N})
  BY <1>1, LongestPathIs
<1>3. \A i \in 1 .. N : p[i] \in Nat
  BY <1>2, PathAt
<1>4. /\ LongestPath \in Nat
      /\ LongestPath = 0 \/ \E i \in 1 .. N : LongestPath = p[i]
      /\ \A i \in 1 .. N : p[i] <= LongestPath
  BY <1>1, <1>2, <1>3, LargestOf
<1>5. ASSUME NEW s \in Chains
      PROVE  ChainTime(s) \in Nat /\ ChainTime(s) <= LongestPath
  <2>1. PICK n \in 1 .. N : IsChain(s, n)
    BY <1>5, ChainsAre
  <2>2. n \in Nat \ {0} /\ n \in Nat /\ n \in 1 .. n
    BY <1>1
  <2>3. ChainTime(s) = SumFunctionOnSet(Times(s), 1 .. n)
    BY <2>1, <2>2, ChainsAre
  <2>4. s \in [1 .. n -> plan.actions]
    BY <2>1 DEF IsChain
  <2>5. PICK i \in 1 .. N : ordered[i] = s[n]
    <3>1. s[n] \in Range(ordered)
      BY <2>2, <2>4 DEF IsSorted
    <3>. QED
      BY <1>1, <3>1 DEF Range
  <2>6. SumFunctionOnSet(Times(s), 1 .. n) <= p[i]
    BY <1>2, <2>1, <2>2, <2>5, ChainsAreBounded
  <2>7. SumFunctionOnSet(Times(s), 1 .. n) \in Nat
    <3>1. \A k \in 1 .. n : Times(s)[k] \in Nat
      BY <2>2, <2>4, TimesAre
    <3>2. IsFiniteSet(1 .. n)
      BY <2>2, FS_Interval
    <3>. QED
      BY <3>1, <3>2, SumIsNat
  <2>. QED
    BY <1>3, <1>4, <2>3, <2>6, <2>7
<1>6. ASSUME NEW i \in 1 .. N
      PROVE  \E s \in Chains : ChainTime(s) = p[i]
  <2>1. PICK n \in 1 .. i : \E t : /\ IsChain(t, n) /\ t[n] = ordered[i]
                                  /\ SumFunctionOnSet(Times(t), 1 .. n) = p[i]
    BY <1>2, PathsAreChains
  <2>2. PICK t : IsChain(t, n) /\ SumFunctionOnSet(Times(t), 1 .. n) = p[i]
    BY <2>1
  <2>3. n \in 1 .. N /\ n \in Nat
    BY <1>1
  <2>4. t \in Chains /\ ChainTime(t) = p[i]
    BY <2>2, <2>3, ChainsAre
  <2>. QED
    BY <2>4
<1>. QED
  BY <1>4, <1>5, <1>6

\* Whatever order the sort takes, an accepted plan has no chain of actions that takes
\* longer than its budget, and a plan within the others is refused only for one that
\* does: for any actions, timeouts and budgets.
THEOREM BudgetIsExact == Spec => []CriticalPathIsExact
<1>1. SortInv /\ stage \in Sorted => IsSorted
  BY DEF SortInv, Sorting, PlanIsTyped, DependenciesExist, IsSorted
<1>2. ASSUME SortInv, stage \in {"measured", "accepted"}, NEW s \in Chains
      PROVE  ChainTime(s) <= MaxPath
  <2>1. IsSorted /\ WithinBudgets
    BY <1>1, <1>2 DEF SortInv, Sorted
  <2>2. ChainTime(s) \in Nat /\ ChainTime(s) <= LongestPath /\ LongestPath \in Nat
    BY <1>2, <2>1, LongestPathIsExact
  <2>. QED
    BY <2>1, <2>2, BudgetAssumption DEF WithinBudgets
<1>3. ASSUME SortInv, stage = "plan_budget_exceeded"
      PROVE  \/ plan.actions = {} \/ Edges > MaxEdges \/ TotalTimeout > MaxTotal
             \/ \E s \in Chains : ChainTime(s) > MaxPath
  <2>1. IsSorted /\ ~ WithinBudgets
    BY <1>1, <1>3 DEF SortInv, Sorted
  <2>2. Edges \in Nat /\ TotalTimeout \in Nat
    BY <2>1, SumsAreNumbers
  <2>3. /\ LongestPath \in Nat
        /\ LongestPath = 0 \/ \E s \in Chains : ChainTime(s) = LongestPath
    BY <2>1, LongestPathIsExact
  <2>4. {MaxEdges, MaxTotal, MaxPath} \subseteq Nat
    BY BudgetAssumption
  <2>5. \/ plan.actions = {} \/ ~ (Edges <= MaxEdges)
        \/ ~ (TotalTimeout <= MaxTotal) \/ ~ (LongestPath <= MaxPath)
    BY <2>1 DEF WithinBudgets
  <2>6. LongestPath > MaxPath => \E s \in Chains : ChainTime(s) > MaxPath
    BY <2>3, <2>4
  <2>. QED
    BY <2>2, <2>3, <2>4, <2>5, <2>6
<1>4. SortInv => CriticalPathIsExact
  BY <1>2, <1>3 DEF CriticalPathIsExact
<1>5. QED
  BY <1>4, SortAlways, PTL

--------------------------------------------------------------------------------
(* One decision                                                               *)

\* What has been said is a decision and a risk.
Voices(S) == \A r \in S : r.decision \in Decision /\ r.risk \in Risk

\* d is what the strictest of S make of an action with or without a grant.
Strictest(d, S, grant) ==
    /\ \E r \in S : r.risk = d.risk /\ \A q \in S : q.risk <= r.risk
    /\ \E r \in S : /\ \A q \in S : q.decision <= r.decision
                    /\ d.decision = Floor(r.decision, d.risk, grant)

\* The grant of an action survives while it is allowed.
KeepsGrant(d, grant) == d.grant = (grant /\ d.decision = Allow)

\* Tightening keeps the contract of decisions and loosens nothing.
LEMMA TightenSound ==
    ASSUME NEW d \in Ruled, Sound(d), NEW grant \in BOOLEAN, KeepsGrant(d, grant),
           NEW by, by.decision \in Decision, by.risk \in Risk
    PROVE  LET t == Tighten(d, by)
           IN  /\ t \in Ruled /\ Sound(t) /\ KeepsGrant(t, grant)
               /\ t.risk = Higher(d.risk, by.risk)
               /\ t.decision = Floor(Higher(d.decision, by.decision), t.risk,
                                     d.grant /\ by.decision <= d.decision)
               /\ d.decision <= t.decision /\ d.risk <= t.risk
<1> USE DEF Decision, Risk, Allow, Ask, Deny, R2, R3, R4
<1> DEFINE kept == d.grant /\ by.decision <= d.decision
           risk == Higher(d.risk, by.risk)
           high == Higher(d.decision, by.decision)
           decision == Floor(high, risk, kept)
<1>1. /\ risk \in 0 .. 4 /\ d.risk <= risk
      /\ high \in 0 .. 2 /\ d.decision <= high
      /\ kept \in BOOLEAN
  BY DEF Ruled, Higher
<1>2. decision \in 0 .. 2 /\ high <= decision
  BY <1>1 DEF Floor
<1>3. Tighten(d, by) = [decision |-> decision, risk |-> risk,
                        grant |-> kept /\ decision = 0]
  BY DEF Tighten
<1>4. Sound(Tighten(d, by))
  <2>1. /\ risk = 4 => decision = 2
        /\ risk = 3 => decision # 0
        /\ risk = 2 /\ decision = 0 => kept
    BY <1>1 DEF Floor
  <2>2. Sound([decision |-> decision, risk |-> risk, grant |-> kept /\ decision = 0])
    BY <1>1, <1>2, <2>1 DEF Sound
  <2>. QED
    BY <1>3, <2>2
<1>5. KeepsGrant(Tighten(d, by), grant)
  BY <1>1, <1>2, <1>3 DEF KeepsGrant, Higher, Ruled
<1>6. QED
  BY <1>1, <1>2, <1>3, <1>4, <1>5 DEF Ruled

\* The floor is the same for a decision and for what it was raised to before.
LEMMA FloorTwice ==
    ASSUME NEW c \in Decision, NEW b \in Decision, NEW m \in Risk, NEW n \in Risk,
           m <= n, NEW grant \in BOOLEAN, NEW d \in Ruled, KeepsGrant(d, grant),
           d.decision = Floor(c, m, grant)
    PROVE  Floor(Higher(d.decision, b), n, d.grant /\ b <= d.decision)
             = Floor(Higher(c, b), n, grant)
BY DEF Floor, Higher, KeepsGrant, Ruled, Decision, Risk, Allow, Ask, Deny, R2, R3, R4

\* What is weaker or equal leaves the strictest as it was; the rest joins it.
LEMMA StrictestTightened ==
    ASSUME NEW d \in Ruled, Sound(d), NEW grant \in BOOLEAN, KeepsGrant(d, grant),
           NEW S, Voices(S), Strictest(d, S, grant),
           NEW by, by.decision \in Decision, by.risk \in Risk
    PROVE  Strictest(Tighten(d, by), S \cup {by}, grant)
<1> DEFINE t == Tighten(d, by)
<1>1. /\ t \in Ruled /\ t.risk = Higher(d.risk, by.risk) /\ d.risk <= t.risk
      /\ t.decision = Floor(Higher(d.decision, by.decision), t.risk,
                            d.grant /\ by.decision <= d.decision)
  BY TightenSound
<1>2. PICK r \in S : r.risk = d.risk /\ \A q \in S : q.risk <= r.risk
  BY DEF Strictest
<1>3. \E s \in S \cup {by} : s.risk = t.risk /\ \A q \in S \cup {by} : q.risk <= s.risk
  BY <1>1, <1>2 DEF Higher, Voices, Ruled, Risk
<1>4. PICK c \in S : /\ \A q \in S : q.decision <= c.decision
                     /\ d.decision = Floor(c.decision, d.risk, grant)
  BY DEF Strictest
<1>5. t.decision = Floor(Higher(c.decision, by.decision), t.risk, grant)
  BY <1>1, <1>4, FloorTwice DEF Voices, Ruled
<1>6. \E s \in S \cup {by} : /\ \A q \in S \cup {by} : q.decision <= s.decision
                             /\ t.decision = Floor(s.decision, t.risk, grant)
  BY <1>4, <1>5 DEF Higher, Voices, Decision, Allow, Deny
<1>7. QED
  BY <1>3, <1>6 DEF Strictest

LEMMA StrictestIgnored ==
    ASSUME NEW d \in Ruled, Sound(d), NEW grant \in BOOLEAN, KeepsGrant(d, grant),
           NEW S, Voices(S), Strictest(d, S, grant),
           NEW by, by.decision \in Decision, by.risk \in Risk,
           by.decision <= d.decision, by.risk <= d.risk
    PROVE  Strictest(d, S \cup {by}, grant)
<1>1. PICK r \in S : r.risk = d.risk /\ \A q \in S : q.risk <= r.risk
  BY DEF Strictest
<1>2. PICK c \in S : /\ \A q \in S : q.decision <= c.decision
                     /\ d.decision = Floor(c.decision, d.risk, grant)
  BY DEF Strictest
<1>3. \E s \in S \cup {by} : s.risk = d.risk /\ \A q \in S \cup {by} : q.risk <= s.risk
  BY <1>1
<1>4. CASE by.decision <= c.decision
  BY <1>2, <1>3, <1>4 DEF Strictest
<1>5. CASE c.decision < by.decision
  <2>1. d.decision = Floor(by.decision, d.risk, grant)
    BY <1>2, <1>5 DEF Floor, Voices, Ruled, Decision, Risk, Allow, Ask, Deny, R2, R3, R4
  <2>2. \A q \in S \cup {by} : q.decision <= by.decision
    BY <1>2, <1>5 DEF Voices, Decision, Allow, Deny
  <2>. QED
    BY <1>3, <2>1, <2>2 DEF Strictest
<1>6. QED
  BY <1>2, <1>4, <1>5 DEF Voices, Decision, Allow, Deny

--------------------------------------------------------------------------------
(* The policy                                                                 *)

Shown == {"advising", "heeding", "decided"}
Active == Shown \cup {"combining"}

\* An action's decision is a sound one, and that of the strictest voice so far.
Settled(a) ==
    /\ decided[a] \in Ruled /\ Sound(decided[a])
    /\ KeepsGrant(decided[a], BaseRule(a).grant)
    /\ Strictest(decided[a], Says(a), BaseRule(a).grant)

\* What the security model was shown is sound and has not been loosened since.
NotLoosened(a) ==
    /\ baseline[a] \in Ruled /\ Sound(baseline[a])
    /\ baseline[a].decision <= decided[a].decision
    /\ baseline[a].risk <= decided[a].risk

PolicyInv ==
    /\ plan.actions \subseteq Action
    /\ rules \in [Capability -> ActionRule \cup {NoRule}]
    /\ combined \subseteq Aggregate /\ pending \subseteq combined
    /\ advice \subseteq Recommendation /\ unheeded \subseteq advice
    /\ phase \in {"off", "waiting", "combining", "advising"} => advice = {}
    /\ phase \in Active => \A a \in plan.actions : Settled(a)
    /\ phase \in Shown => \A a \in plan.actions : NotLoosened(a)
    /\ phase = "decided" => status = Status

LEMMA BaseRuleSound ==
    ASSUME PolicyInv, NEW a \in plan.actions
    PROVE  BaseRule(a) \in Ruled /\ Sound(BaseRule(a))
<1>1. Uses[a] \in Capability
  BY RuleAssumption DEF PolicyInv
<1>2. CASE rules[Uses[a]] = NoRule
  BY <1>2 DEF BaseRule, DefaultDeny, Ruled, Sound, Decision, Risk, Allow, Ask, Deny,
              R2, R3, R4
<1>3. CASE rules[Uses[a]] # NoRule
  BY <1>1, <1>3, RuleAssumption DEF BaseRule, PolicyInv
<1>4. QED
  BY <1>2, <1>3

LEMMA SaysVoices ==
    ASSUME PolicyInv, NEW a \in plan.actions
    PROVE  Voices(Says(a))
<1>1. BaseRule(a).decision \in Decision /\ BaseRule(a).risk \in Risk
  BY BaseRuleSound DEF Ruled
<1>2. \A r \in Aggregate : r.decision \in Decision /\ r.risk \in Risk
  BY RuleAssumption DEF Decision, Risk, Allow, Ask, Deny, R2, R4
<1>3. \A r \in Recommendation : r.decision \in Decision /\ r.risk \in Risk
  BY RuleAssumption
<1>4. QED
  BY <1>1, <1>2, <1>3 DEF Voices, Says, PolicyInv

\* The rules of the snapshot are the first, and so far the strictest, to speak.
LEMMA ResolveStep ==
    ASSUME PolicyInv, NEW found \in [Capability -> ActionRule \cup {NoRule}],
           NEW aggregates \in SUBSET Aggregate, Resolve(found, aggregates),
           UNCHANGED validation
    PROVE  PolicyInv'
<1>1. /\ plan' = plan /\ advice = {} /\ advice' = {} /\ unheeded' = {}
      /\ rules' = found /\ combined' = aggregates /\ pending' = aggregates
      /\ phase' = "combining"
  BY DEF Resolve, PolicyInv, validation
<1>2. ASSUME NEW a \in plan.actions
      PROVE  Settled(a)'
  <2>1. Uses[a] \in Capability
    BY RuleAssumption DEF PolicyInv
  <2>2. decided'[a] = BaseRule(a)'
    BY <1>1, <1>2 DEF Resolve, BaseRule
  <2>3. BaseRule(a)' \in Ruled /\ Sound(BaseRule(a)')
    <3>1. CASE found[Uses[a]] = NoRule
      BY <1>1, <3>1 DEF BaseRule, DefaultDeny, Ruled, Sound, Decision, Risk, Allow, Ask,
                        Deny, R2, R3, R4
    <3>2. CASE found[Uses[a]] # NoRule
      BY <1>1, <2>1, <3>2, RuleAssumption DEF BaseRule
    <3>. QED
      BY <3>1, <3>2
  <2>4. Says(a)' = {BaseRule(a)'}
    BY <1>1 DEF Says
  <2>5. /\ KeepsGrant(BaseRule(a)', BaseRule(a)'.grant)
        /\ Floor(BaseRule(a)'.decision, BaseRule(a)'.risk, BaseRule(a)'.grant)
              = BaseRule(a)'.decision
    BY <2>3 DEF KeepsGrant, Floor, Sound, Ruled, Decision, Risk, Allow, Ask, Deny,
                R2, R3, R4
  <2>6. Strictest(BaseRule(a)', {BaseRule(a)'}, BaseRule(a)'.grant)
    BY <2>3, <2>5 DEF Strictest, Ruled, Decision, Risk, Allow, Deny
  <2>. QED
    BY <2>2, <2>3, <2>4, <2>5, <2>6 DEF Settled
<1>3. QED
  BY <1>1, <1>2 DEF PolicyInv, Shown, Active

\* A voice that tightens is heard: the decision stays settled, and no looser.
LEMMA TightenSettles ==
    ASSUME PolicyInv, NEW a \in plan.actions, Settled(a),
           NEW by, by.decision \in Decision, by.risk \in Risk,
           decided'[a] = Tighten(decided[a], by),
           Says(a)' = Says(a) \cup {by}, BaseRule(a)' = BaseRule(a)
    PROVE  /\ Settled(a)'
           /\ decided[a].decision <= decided'[a].decision
           /\ decided[a].risk <= decided'[a].risk
<1>1. BaseRule(a).grant \in BOOLEAN /\ Voices(Says(a))
  BY BaseRuleSound, SaysVoices DEF Ruled
<1>2. /\ decided'[a] \in Ruled /\ Sound(decided'[a])
      /\ KeepsGrant(decided'[a], BaseRule(a).grant)
      /\ decided[a].decision <= decided'[a].decision
      /\ decided[a].risk <= decided'[a].risk
  BY <1>1, TightenSound DEF Settled
<1>3. Strictest(decided'[a], Says(a) \cup {by}, BaseRule(a).grant)
  BY <1>1, StrictestTightened DEF Settled
<1>4. QED
  BY <1>2, <1>3 DEF Settled

\* Nobody new is heard and the decision stays.
LEMMA SameSettles ==
    ASSUME NEW a, Settled(a), decided'[a] = decided[a],
           Says(a)' = Says(a), BaseRule(a)' = BaseRule(a)
    PROVE  Settled(a)'
BY DEF Settled

LEMMA CombineStep ==
    ASSUME PolicyInv, NEW rule \in Aggregate, Combine(rule), UNCHANGED validation
    PROVE  PolicyInv'
<1>1. /\ plan' = plan /\ phase = "combining" /\ phase' = phase
      /\ advice = {} /\ advice' = {} /\ unheeded' = {}
      /\ rules' = rules /\ combined' = combined
      /\ rule \in pending /\ pending' = pending \ {rule}
  BY DEF Combine, PolicyInv, validation
<1>2. combined' \ pending' = (combined \ pending) \cup {rule}
  BY <1>1 DEF PolicyInv
<1>3. rule.decision \in Decision /\ rule.risk \in Risk
  BY RuleAssumption DEF Decision, Risk, Allow, Ask, Deny, R2, R4
<1>4. ASSUME NEW a \in plan.actions
      PROVE  Settled(a)'
  <2>1. BaseRule(a)' = BaseRule(a)
    BY <1>1 DEF BaseRule
  <2>2. Settled(a)
    BY <1>1 DEF PolicyInv, Active
  <2> DEFINE heard(r) == /\ Uses[a] \in r.capabilities
                         /\ r.minimum <= Cardinality({b \in plan.actions :
                                                        Uses[b] \in r.capabilities})
  <2>3. Says(a) = {BaseRule(a)} \cup {r \in combined \ pending : heard(r)}
    BY <1>1 DEF Says
  <2>4. Says(a)' = {BaseRule(a)} \cup {r \in (combined \ pending) \cup {rule} : heard(r)}
    BY <1>1, <1>2, <2>1 DEF Says
  <2>5. Matched(rule) = {b \in plan.actions : Uses[b] \in rule.capabilities}
    BY DEF Matched
  <2>6. Applies(rule) /\ a \in Matched(rule) <=> heard(rule)
    <3>1. Cardinality(Matched(rule)) >= rule.minimum
            <=> rule.minimum <= Cardinality(Matched(rule))
      OBVIOUS
    <3>. QED
      BY <2>5, <3>1 DEF Applies
  <2>7. CASE heard(rule)
    <3>1. decided'[a] = Tighten(decided[a], rule)
      BY <2>6, <2>7 DEF Combine
    <3>2. Says(a)' = Says(a) \cup {rule}
      BY <2>3, <2>4, <2>7
    <3>. QED
      BY <1>3, <2>1, <2>2, <3>1, <3>2, TightenSettles
  <2>8. CASE ~heard(rule)
    <3>1. decided'[a] = decided[a]
      BY <2>6, <2>8 DEF Combine
    <3>2. Says(a)' = Says(a)
      BY <2>3, <2>4, <2>8
    <3>. QED
      BY <2>1, <2>2, <3>1, <3>2, SameSettles
  <2>. QED
    BY <2>7, <2>8
<1>5. QED
  BY <1>1, <1>4 DEF PolicyInv, Shown, Active

LEMMA HeedStep ==
    ASSUME PolicyInv, NEW r \in Recommendation, Heed(r), UNCHANGED validation
    PROVE  PolicyInv'
<1>1. /\ plan' = plan /\ phase = "heeding" /\ phase' = phase
      /\ advice' = advice /\ r \in unheeded /\ unheeded' = unheeded \ {r}
      /\ rules' = rules /\ combined' = combined /\ pending' = pending
      /\ baseline' = baseline
  BY DEF Heed, validation
<1>2. advice' \ unheeded' = (advice \ unheeded) \cup {r}
  BY <1>1 DEF PolicyInv
<1>3. r.decision \in Decision /\ r.risk \in Risk /\ WholePlan \notin Action
  BY RuleAssumption
<1>4. ASSUME NEW a \in plan.actions
      PROVE  Settled(a)' /\ NotLoosened(a)'
  <2>1. BaseRule(a)' = BaseRule(a) /\ a # WholePlan
    BY <1>1, <1>3 DEF BaseRule, PolicyInv
  <2>2. Settled(a) /\ NotLoosened(a)
    BY <1>1 DEF PolicyInv, Active, Shown
  <2>3. a \in Targets(r) <=> r.target \in {a, WholePlan}
    BY DEF Targets
  <2>4. r.target \in {a, WholePlan} => Says(a)' = Says(a) \cup {r}
    BY <1>1, <1>2, <2>1 DEF Says
  <2>5. r.target \notin {a, WholePlan} => Says(a)' = Says(a)
    BY <1>1, <1>2, <2>1 DEF Says
  <2>6. Settled(a)' /\ decided[a].decision <= decided'[a].decision
                   /\ decided[a].risk <= decided'[a].risk
    <3>1. CASE decided'[a] = decided[a] /\ a \notin Targets(r)
      BY <2>1, <2>2, <2>3, <2>5, <3>1, SameSettles
         DEF Settled, Ruled, Decision, Risk, Allow, Deny
    <3>2. CASE a \in Targets(r) /\ decided'[a] = Tighten(decided[a], r)
      BY <1>3, <2>1, <2>2, <2>3, <2>4, <3>2, TightenSettles
    <3>3. CASE /\ a \in Targets(r) /\ decided'[a] = decided[a]
               /\ r.decision <= decided[a].decision /\ r.risk <= decided[a].risk
      <4>1. BaseRule(a).grant \in BOOLEAN /\ Voices(Says(a))
        BY BaseRuleSound, SaysVoices DEF Ruled
      <4>2. Strictest(decided[a], Says(a) \cup {r}, BaseRule(a).grant)
        BY <1>3, <2>2, <3>3, <4>1, StrictestIgnored DEF Settled
      <4>. QED
        BY <2>1, <2>2, <2>3, <2>4, <3>3, <4>2
           DEF Settled, Ruled, Decision, Risk, Allow, Deny
    <3>. QED
      BY <1>1, <3>1, <3>2, <3>3 DEF Heed, Heeded
  <2>7. NotLoosened(a)'
    BY <1>1, <2>2, <2>6 DEF NotLoosened, Settled, Ruled, Decision, Risk, Allow, Deny
  <2>. QED
    BY <2>6, <2>7
<1>5. QED
  BY <1>1, <1>4 DEF PolicyInv, Shown, Active

\* Nothing is said and no decision changes.
LEMMA QuietStep ==
    ASSUME PolicyInv,
           UNCHANGED <<plan, rules, combined, pending, decided>>,
           advice' \subseteq Recommendation, unheeded' \subseteq advice',
           advice' \ unheeded' = advice \ unheeded,
           phase' \in {"off", "waiting", "combining", "advising"} => advice' = {},
           phase' \in Active => phase \in Active,
           phase' \in Shown => \/ phase \in Shown /\ baseline' = baseline
                               \/ baseline' = decided,
           phase' = "decided" => status' = Status
    PROVE  PolicyInv'
<1>1. \A a \in plan.actions : Settled(a) => Settled(a)'
  BY DEF Settled, Says, BaseRule
<1>2. \A a \in plan.actions : NotLoosened(a) /\ baseline' = baseline => NotLoosened(a)'
  BY DEF NotLoosened
<1>3. \A a \in plan.actions : Settled(a) /\ baseline' = decided => NotLoosened(a)'
  BY DEF NotLoosened, Settled, Ruled, Decision, Risk, Allow, Deny
<1>4. Status' = Status
  BY DEF Status
<1>5. QED
  BY <1>1, <1>2, <1>3, <1>4 DEF PolicyInv, Shown, Active

LEMMA PolicyStep ==
    ASSUME PolicyInv, [Next]_vars
    PROVE  PolicyInv'
<1>1. CASE ValidationNext /\ UNCHANGED policy
  <2>1. plan' = plan
    BY <1>1 DEF ValidationNext, StartSort, Visit, EndSort, Measure, CheckContracts,
               RefuseContext
  <2>. QED
    BY <1>1, <2>1, QuietStep DEF policy, PolicyInv, Status
<1>2. CASE HandOver
  BY <1>2, QuietStep DEF HandOver, PolicyInv, Shown, Active, validation
<1>3. ASSUME UNCHANGED validation, Project(TRUE) \/ Project(FALSE)
      PROVE  PolicyInv'
  BY <1>3, QuietStep DEF Project, PolicyInv, Shown, Active, validation
<1>4. ASSUME UNCHANGED validation, NEW s \in SUBSET Recommendation, Advise(s)
      PROVE  PolicyInv'
  BY <1>4, QuietStep DEF Advise, PolicyInv, Shown, Active, validation
<1>5. CASE UNCHANGED validation /\ Decide
  BY <1>5, QuietStep DEF Decide, PolicyInv, Shown, Active, validation
<1>6. CASE UNCHANGED validation /\ Unavailable
  BY <1>6, QuietStep DEF Unavailable, PolicyInv, Shown, Active, validation
<1>7. CASE UNCHANGED vars
  BY <1>7, QuietStep DEF vars, PolicyInv, Shown, Active, Status
<1>8. QED
  BY <1>1, <1>2, <1>3, <1>4, <1>5, <1>6, <1>7, ResolveStep, CombineStep, HeedStep
     DEF Next, PolicyNext

LEMMA PolicyAlways == Spec => []PolicyInv
<1>1. Init => PolicyInv
  BY DEF Init, ValidationInit, PolicyInit, PolicyInv, Plan, Shown, Active
<1>2. QED
  BY <1>1, PolicyStep, PTL DEF Spec

\* Whatever the order of the rules and of the advice, the strictest of them decides
\* what may become of an action.
THEOREM TheStrictestWins == Spec => []StrictestWins
<1>1. PolicyInv => StrictestWins
  BY DEF PolicyInv, StrictestWins, Settled, Strictest, Active, Shown
<1>2. QED
  BY <1>1, PolicyAlways, PTL

\* The security model can make a plan stricter and nothing else.
THEOREM AdviceTightens == Spec => []AdviceOnlyTightens
<1>1. PolicyInv => AdviceOnlyTightens
  <2>1. ASSUME PolicyInv, phase \in Shown, NEW a \in plan.actions
        PROVE  /\ Settled(a) /\ NotLoosened(a)
               /\ decided[a].decision \in 0 .. 2 /\ decided[a].risk \in 0 .. 4
               /\ baseline[a].decision \in 0 .. 2 /\ baseline[a].risk \in 0 .. 4
    BY <2>1 DEF PolicyInv, Active, Settled, NotLoosened, Ruled, Decision, Risk,
                Allow, Deny
  <2>2. ASSUME PolicyInv, phase = "decided", NEW a \in plan.actions
        PROVE  Strictness(status) >= baseline[a].decision
    <3>1. status = Status /\ baseline[a].decision <= decided[a].decision
          /\ baseline[a].decision \in 0 .. 2 /\ decided[a].decision \in 0 .. 2
      BY <2>1, <2>2 DEF PolicyInv, Shown, NotLoosened
    <3>2. CASE status = "denied"
      BY <3>1, <3>2 DEF Strictness, Deny
    <3>3. CASE status = "awaiting_approval"
      BY <2>2, <3>1, <3>3 DEF Strictness, Status, Ask, Deny
    <3>4. CASE status = "executing"
      BY <2>2, <3>1, <3>4 DEF Strictness, Status, Allow, Ask, Deny
    <3>. QED
      BY <3>1, <3>2, <3>3, <3>4 DEF Status
  <2>. QED
    BY <2>1, <2>2 DEF AdviceOnlyTightens, Shown, Settled, NotLoosened
<1>2. QED
  BY <1>1, PolicyAlways, PTL
================================================================================
