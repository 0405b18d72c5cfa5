---------------------------- MODULE CommonLemmas ----------------------------
(***************************************************************************)
(* Facts about numbers, sets and sums that the proofs of several modules   *)
(* use; nothing here is about the program.                                 *)
(***************************************************************************)
EXTENDS FiniteSetsExt, Functions, FiniteSetTheorems, SequenceTheorems, TLAPS

(* The library's well-founded induction gives a least element without an   *)
(* induction of our own; a greatest one follows in any bounded set.        *)
LEMMA LeastExists ==
  ASSUME NEW S, S \subseteq Nat, S # {}
  PROVE  \E x \in S : \A y \in S : x <= y
<1> DEFINE R == OpToRel(<, Nat)
<1>1. IsWellFoundedOn(R, Nat)
  BY NatLessThanWellFounded
<1>2. PICK x \in S : \A y \in S : ~ (<<y, x>> \in R)
  <2> HIDE DEF R
  <2> QED BY <1>1, WFMin, Zenon
<1>3. ASSUME NEW y \in S PROVE x <= y
  <2>1. ~ (<<y, x>> \in R) BY <1>2
  <2>2. ~ (y < x) BY <2>1, SMT DEF OpToRel
  <2> QED BY <2>2
<1> QED BY <1>2, <1>3

LEMMA NatInduct ==
  ASSUME NEW Good, 0 \in Good, \A k \in Nat : k \in Good => k + 1 \in Good
  PROVE  \A k \in Nat : k \in Good
<1>1. ASSUME NEW T, T = Nat \ Good, T # {} PROVE FALSE
  <2>1. PICK k \in T : \A m \in T : k <= m
    <3>1. T \subseteq Nat BY <1>1
    <3> QED BY <1>1, <3>1, LeastExists
  <2>2. k \in Nat /\ k # 0 BY <1>1, <2>1
  <2>3. k - 1 \in Nat /\ (k - 1) + 1 = k BY <2>2
  <2>4. k - 1 \notin T BY <2>1, <2>2, <2>3
  <2>5. k - 1 \in Good BY <1>1, <2>3, <2>4
  <2>6. k \in Good BY <2>3, <2>5
  <2> QED BY <1>1, <2>1, <2>6
<1> QED BY <1>1

LEMMA GreatestExists ==
  ASSUME NEW n \in Nat, NEW S, S \subseteq 0 .. n, S # {}
  PROVE  \E x \in S : \A y \in S : y <= x
<1> DEFINE T == {m \in 0 .. n : n - m \in S}
<1>1. \A s \in S : n - s \in 0 .. n /\ n - (n - s) = s OBVIOUS
<1>2. \A s \in S : n - s \in T BY <1>1
<1>3. T # {} BY <1>2
<1>4. T \subseteq Nat OBVIOUS
<1>5. PICK t \in T : \A u \in T : t <= u BY <1>3, <1>4, LeastExists
<1>6. ASSUME NEW y \in S PROVE y <= n - t
  <2>1. t <= n - y BY <1>2, <1>5
  <2>2. y \in 0 .. n /\ t \in 0 .. n OBVIOUS
  <2> HIDE DEF T
  <2> QED BY <2>1, <2>2
<1> QED BY <1>6

(* Where the parts of a concatenation are found. *)
LEMMA ConcatEnds ==
  ASSUME NEW S, NEW s \in Seq(S), NEW t \in Seq(S)
  PROVE  /\ s \o t \in Seq(S) /\ Len(s \o t) = Len(s) + Len(t)
         /\ \A k \in 1..Len(s) : (s \o t)[k] = s[k]
         /\ \A k \in 1..Len(t) : (s \o t)[Len(s) + k] = t[k]
<1> DEFINE both == s \o t
<1>1. /\ both \in Seq(S) /\ Len(both) = Len(s) + Len(t)
      /\ \A i \in 1 .. Len(s) + Len(t) :
           both[i] = IF i <= Len(s) THEN s[i] ELSE t[i - Len(s)]
  BY ConcatProperties
<1> HIDE DEF both
<1>2. Len(s) \in Nat /\ Len(t) \in Nat OBVIOUS
<1>3. ASSUME NEW k \in 1..Len(s) PROVE both[k] = s[k] BY <1>1, <1>2
<1>4. ASSUME NEW k \in 1..Len(t) PROVE both[Len(s) + k] = t[k]
  <2> DEFINE j == Len(s) + k
  <2>1. j \in 1 .. Len(s) + Len(t) /\ ~ (j <= Len(s)) /\ j - Len(s) = k BY <1>2
  <2> HIDE DEF j
  <2>2. both[j] = t[j - Len(s)] BY <1>1, <2>1
  <2> QED BY <2>1, <2>2 DEF j
<1> QED BY <1>1, <1>3, <1>4 DEF both

-----------------------------------------------------------------------------
(* Sums over finite sets.  The library's induction theorems take an         *)
(* operator; its theorem on minimal elements takes a set, and does for the  *)
(* inductions needed here.                                                  *)

LEMMA SubsetsInduct ==
  ASSUME NEW S, IsFiniteSet(S), NEW Good,
         \A s \in SUBSET S : (\A t \in SUBSET s : t # s => t \in Good) => s \in Good
  PROVE  \A s \in SUBSET S : s \in Good
<1>1. FiniteSubsetsOf(S) = SUBSET S BY FS_FiniteSubsetsOfFinite
<1>2. IsWellFoundedOn(StrictSubsetOrdering(S), FiniteSubsetsOf(S))
  BY FS_StrictSubsetOrderingWellFounded
<1>3. IsWellFoundedOn(StrictSubsetOrdering(S), SUBSET S) BY <1>1, <1>2
<1>4. ASSUME NEW T, T = (SUBSET S) \ Good, T # {} PROVE FALSE
  <2>1. T \subseteq SUBSET S BY <1>4
  <2>2. PICK s \in T : \A t \in T : ~ (<<t, s>> \in StrictSubsetOrdering(S))
    BY <1>3, <1>4, <2>1, WFMin
  <2>3. s \in SUBSET S /\ s \notin Good BY <1>4, <2>2
  <2>4. \A t \in SUBSET s : t # s => t \in Good
    BY <1>4, <2>2, <2>3 DEF StrictSubsetOrdering
  <2> QED BY <2>3, <2>4
<1>5. (SUBSET S) \ Good = {} BY <1>4
<1> QED BY <1>5

Pick(s) == CHOOSE x \in s : TRUE
SumStep(f, g, s) == IF s = {} THEN 0 ELSE f[Pick(s)] + g[s \ {Pick(s)}]
IsSumTable(f, S, g) == g = [s \in SUBSET S |-> SumStep(f, g, s)]
SumTable(f, S) == CHOOSE g : IsSumTable(f, S, g)

LEMMA SumIsTable ==
  ASSUME NEW f, NEW S PROVE SumFunctionOnSet(f, S) = SumTable(f, S)[S]
  BY DEF SumFunctionOnSet, FoldFunctionOnSet, MapThenFoldSet, SumTable, IsSumTable, SumStep,
         Pick

LEMMA TableIsUnique ==
  ASSUME NEW f, NEW S, IsFiniteSet(S), NEW g, NEW h,
         IsSumTable(f, S, g), IsSumTable(f, S, h)
  PROVE  g = h
<1>0. /\ DOMAIN g = SUBSET S /\ \A s \in SUBSET S : g[s] = SumStep(f, g, s)
      /\ DOMAIN h = SUBSET S /\ \A s \in SUBSET S : h[s] = SumStep(f, h, s)
      /\ g = [s \in SUBSET S |-> g[s]] /\ h = [s \in SUBSET S |-> h[s]]
  BY DEF IsSumTable
<1> DEFINE Good == {s \in SUBSET S : g[s] = h[s]}
<1>1. ASSUME NEW s \in SUBSET S, \A t \in SUBSET s : t # s => t \in Good PROVE s \in Good
  <2>1. CASE s = {} BY <1>0, <2>1 DEF SumStep
  <2>2. CASE s # {}
    <3>1. Pick(s) \in s BY <2>2 DEF Pick
    <3>2. s \ {Pick(s)} \in Good BY <1>1, <3>1
    <3>3. SumStep(f, g, s) = SumStep(f, h, s) BY <3>2 DEF SumStep
    <3> QED BY <1>0, <3>3
  <2> QED BY <2>1, <2>2
<1> HIDE DEF Good
<1>2. \A s \in SUBSET S : s \in Good BY <1>1, SubsetsInduct
<1>3. \A s \in SUBSET S : g[s] = h[s] BY <1>2 DEF Good
<1> QED BY <1>0, <1>3

(* The recursion of the fold defines a function, and it does not depend on  *)
(* the set the function is made for.                                        *)
LEMMA SumUnfolds ==
  ASSUME NEW f, NEW S, IsFiniteSet(S)
  PROVE  SumFunctionOnSet(f, S) =
           IF S = {} THEN 0 ELSE f[Pick(S)] + SumFunctionOnSet(f, S \ {Pick(S)})
<1> DEFINE Sum(s) == SumFunctionOnSet(f, s)
           Rhs(s) == IF s = {} THEN 0 ELSE f[Pick(s)] + Sum(s \ {Pick(s)})
           Good == {s \in SUBSET S : Sum(s) = Rhs(s)}
<1>1. ASSUME NEW s \in SUBSET S, \A t \in SUBSET s : t # s => t \in Good PROVE s \in Good
  <2> DEFINE g == [t \in SUBSET s |-> Rhs(t)]
  <2>1. \A t \in SUBSET s : t # s => g[t] = Sum(t) BY <1>1
  <2>2. ASSUME NEW t \in SUBSET s PROVE g[t] = SumStep(f, g, t)
    <3>1. CASE t = {} BY <3>1 DEF SumStep
    <3>2. CASE t # {}
      <4>1. Pick(t) \in t BY <3>2 DEF Pick
      <4>2. g[t \ {Pick(t)}] = Sum(t \ {Pick(t)}) BY <2>1, <4>1
      <4> QED BY <3>2, <4>2 DEF SumStep
    <3> QED BY <3>1, <3>2
  <2>3. DOMAIN g = SUBSET s OBVIOUS
  <2>3a. g = [t \in SUBSET s |-> g[t]] OBVIOUS
  <2> HIDE DEF g
  <2>4. IsSumTable(f, s, g) BY <2>2, <2>3, <2>3a DEF IsSumTable
  <2> DEFINE h == SumTable(f, s)
  <2>5. IsSumTable(f, s, h)
    BY <2>4 DEF SumTable
  <2>6. IsFiniteSet(s) BY FS_Subset
  <2>8. Sum(s) = h[s] BY SumIsTable
  <2> HIDE DEF h
  <2>7. h = g BY <2>4, <2>5, <2>6, TableIsUnique
  <2>9. g[s] = Rhs(s) BY DEF g
  <2> QED BY <2>7, <2>8, <2>9
<1> HIDE DEF Good
<1>2. \A s \in SUBSET S : s \in Good BY <1>1, SubsetsInduct
<1>3. S \in Good BY <1>2
<1> QED BY <1>3 DEF Good

LEMMA SumIsNat ==
  ASSUME NEW S, IsFiniteSet(S), NEW f, \A x \in S : f[x] \in Nat
  PROVE  SumFunctionOnSet(f, S) \in Nat
<1> DEFINE Good == {s \in SUBSET S : SumFunctionOnSet(f, s) \in Nat}
<1>1. ASSUME NEW s \in SUBSET S, \A t \in SUBSET s : t # s => t \in Good PROVE s \in Good
  <2>1. IsFiniteSet(s) BY FS_Subset
  <2>2. CASE s = {}
    <3>1. SumFunctionOnSet(f, s) = 0 BY <2>1, <2>2, SumUnfolds
    <3> QED BY <3>1
  <2>3. CASE s # {}
    <3>1. Pick(s) \in s BY <2>3 DEF Pick
    <3>2. SumFunctionOnSet(f, s \ {Pick(s)}) \in Nat BY <1>1, <3>1
    <3>3. f[Pick(s)] \in Nat BY <3>1
    <3> QED BY <2>1, <2>3, <3>2, <3>3, SumUnfolds
  <2> QED BY <2>2, <2>3
<1> HIDE DEF Good
<1>2. S \in Good BY <1>1, SubsetsInduct
<1> QED BY <1>2 DEF Good

(* Any element may be taken out first. *)
LEMMA SumTakes ==
  ASSUME NEW S, IsFiniteSet(S), NEW f, \A x \in S : f[x] \in Nat, NEW k \in S
  PROVE  SumFunctionOnSet(f, S) = f[k] + SumFunctionOnSet(f, S \ {k})
<1> DEFINE Sum(s) == SumFunctionOnSet(f, s)
           Good == {s \in SUBSET S : \A x \in s : Sum(s) = f[x] + Sum(s \ {x})}
<1>0. \A s \in SUBSET S : IsFiniteSet(s) BY FS_Subset
<1>1. ASSUME NEW s \in SUBSET S, \A t \in SUBSET s : t # s => t \in Good PROVE s \in Good
  <2> SUFFICES ASSUME NEW x \in s PROVE Sum(s) = f[x] + Sum(s \ {x}) OBVIOUS
  <2> DEFINE p == Pick(s)
  <2>1. p \in s BY DEF Pick
  <2>2. Sum(s) = f[p] + Sum(s \ {p}) BY <1>0, SumUnfolds
  <2> HIDE DEF p
  <2>3. CASE p = x BY <2>2, <2>3
  <2>4. CASE p # x
    <3> DEFINE rest == s \ {p, x}
    <3>1. Sum(s \ {p}) = f[x] + Sum(rest)
      <4>1. s \ {p} \in Good /\ x \in s \ {p} /\ (s \ {p}) \ {x} = rest
        BY <1>1, <2>1, <2>4
      <4> QED BY <4>1
    <3>2. Sum(s \ {x}) = f[p] + Sum(rest)
      <4>1. s \ {x} \in Good /\ p \in s \ {x} /\ (s \ {x}) \ {p} = rest
        BY <1>1, <2>1, <2>4
      <4> QED BY <4>1
    <3>3. Sum(rest) \in Nat /\ f[p] \in Nat /\ f[x] \in Nat
      <4>1. rest \in SUBSET S /\ \A y \in rest : f[y] \in Nat OBVIOUS
      <4> QED BY <1>0, <2>1, <4>1, SumIsNat
    <3> HIDE DEF rest, Sum
    <3> QED BY <2>2, <3>1, <3>2, <3>3
  <2> QED BY <2>3, <2>4
<1> HIDE DEF Good
<1>2. S \in Good BY <1>1, SubsetsInduct
<1> QED BY <1>2 DEF Good

LEMMA SumsAgree ==
  ASSUME NEW S, IsFiniteSet(S), NEW f, NEW g, \A x \in S : f[x] = g[x]
  PROVE  SumFunctionOnSet(f, S) = SumFunctionOnSet(g, S)
<1> DEFINE Good == {s \in SUBSET S : SumFunctionOnSet(f, s) = SumFunctionOnSet(g, s)}
<1>1. ASSUME NEW s \in SUBSET S, \A t \in SUBSET s : t # s => t \in Good PROVE s \in Good
  <2>1. IsFiniteSet(s) BY FS_Subset
  <2>2. CASE s = {} BY <2>1, <2>2, SumUnfolds
  <2>3. CASE s # {}
    <3>1. Pick(s) \in s BY <2>3 DEF Pick
    <3>2. SumFunctionOnSet(f, s \ {Pick(s)}) = SumFunctionOnSet(g, s \ {Pick(s)})
      BY <1>1, <3>1
    <3>3. f[Pick(s)] = g[Pick(s)] BY <3>1
    <3> QED BY <2>1, <2>3, <3>2, <3>3, SumUnfolds
  <2> QED BY <2>2, <2>3
<1> HIDE DEF Good
<1>2. S \in Good BY <1>1, SubsetsInduct
<1> QED BY <1>2 DEF Good

LEMMA SumOfNothing ==
  ASSUME NEW S, IsFiniteSet(S), NEW f, \A x \in S : f[x] = 0
  PROVE  SumFunctionOnSet(f, S) = 0
<1> DEFINE Good == {s \in SUBSET S : SumFunctionOnSet(f, s) = 0}
<1>1. ASSUME NEW s \in SUBSET S, \A t \in SUBSET s : t # s => t \in Good PROVE s \in Good
  <2>1. IsFiniteSet(s) BY FS_Subset
  <2>2. CASE s = {} BY <2>1, <2>2, SumUnfolds
  <2>3. CASE s # {}
    <3>1. Pick(s) \in s BY <2>3 DEF Pick
    <3>2. SumFunctionOnSet(f, s \ {Pick(s)}) = 0 BY <1>1, <3>1
    <3>3. f[Pick(s)] = 0 BY <3>1
    <3> QED BY <2>1, <2>3, <3>2, <3>3, SumUnfolds
  <2> QED BY <2>2, <2>3
<1> HIDE DEF Good
<1>2. S \in Good BY <1>1, SubsetsInduct
<1> QED BY <1>2 DEF Good

(* One entry more. *)
LEMMA SumAdds ==
  ASSUME NEW S, IsFiniteSet(S), NEW f, NEW g, \A x \in S : f[x] \in Nat, NEW k, NEW c \in Nat,
         \A x \in S : g[x] = IF x = k THEN f[x] + c ELSE f[x]
  PROVE  SumFunctionOnSet(g, S) = SumFunctionOnSet(f, S) + (IF k \in S THEN c ELSE 0)
<1>1. SumFunctionOnSet(f, S) \in Nat BY SumIsNat
<1>2. CASE k \notin S BY <1>1, <1>2, SumsAgree
<1>3. CASE k \in S
  <2>1. SumFunctionOnSet(f, S) = f[k] + SumFunctionOnSet(f, S \ {k}) BY <1>3, SumTakes
  <2>2. \A x \in S : g[x] \in Nat OBVIOUS
  <2>3. SumFunctionOnSet(g, S) = g[k] + SumFunctionOnSet(g, S \ {k}) BY <1>3, <2>2, SumTakes
  <2>4. IsFiniteSet(S \ {k}) BY FS_Subset
  <2>5. SumFunctionOnSet(g, S \ {k}) = SumFunctionOnSet(f, S \ {k}) BY <2>4, SumsAgree
  <2>6. SumFunctionOnSet(f, S \ {k}) \in Nat BY <2>4, SumIsNat
  <2> QED BY <1>3, <2>1, <2>3, <2>5, <2>6
<1> QED BY <1>2, <1>3

(* The entries of a list without its first are those that follow it. *)
LEMMA SumShifts ==
  ASSUME NEW m \in Nat, NEW f, \A n \in 2..m + 1 : f[n] \in Nat,
         NEW g, \A n \in 1..m : g[n] = f[n + 1]
  PROVE  SumFunctionOnSet(g, 1..m) = SumFunctionOnSet(f, 2..m + 1)
<1> DEFINE Next(s) == {x \in 2..m + 1 : x - 1 \in s}
           Good == {s \in SUBSET (1..m) :
                      SumFunctionOnSet(g, s) = SumFunctionOnSet(f, Next(s))}
<1>0. IsFiniteSet(1..m) /\ IsFiniteSet(2..m + 1) BY FS_Interval
<1>1. ASSUME NEW s \in SUBSET (1..m), \A t \in SUBSET s : t # s => t \in Good
      PROVE  s \in Good
  <2>1. IsFiniteSet(s) /\ IsFiniteSet(Next(s))
    <3>1. Next(s) \in SUBSET (2..m + 1) OBVIOUS
    <3> HIDE DEF Next
    <3> QED BY <1>0, <3>1, FS_Subset
  <2>2. CASE s = {}
    <3>1. Next(s) = {} BY <2>2
    <3>2. SumFunctionOnSet(g, s) = 0 /\ SumFunctionOnSet(f, Next(s)) = 0
      BY <2>1, <2>2, <3>1, SumUnfolds
    <3> QED BY <3>2
  <2>3. CASE s # {}
    <3> DEFINE p == Pick(s)
    <3>1. p \in s /\ p \in 1..m BY <2>3 DEF Pick
    <3>2. SumFunctionOnSet(g, s) = g[p] + SumFunctionOnSet(g, s \ {p}) BY <2>1, <2>3, SumUnfolds
    <3> HIDE DEF p
    <3>3. p + 1 \in Next(s) /\ Next(s) \ {p + 1} = Next(s \ {p}) BY <3>1
    <3>4. \A x \in Next(s) : f[x] \in Nat OBVIOUS
    <3>5. SumFunctionOnSet(f, Next(s)) = f[p + 1] + SumFunctionOnSet(f, Next(s) \ {p + 1})
      <4> HIDE DEF Next
      <4> QED BY <2>1, <3>3, <3>4, SumTakes
    <3>6. SumFunctionOnSet(g, s \ {p}) = SumFunctionOnSet(f, Next(s \ {p})) BY <1>1, <3>1
    <3> QED BY <3>1, <3>2, <3>3, <3>5, <3>6
  <2> QED BY <2>2, <2>3
<1> HIDE DEF Good
<1>2. \A s \in SUBSET (1..m) : s \in Good BY <1>0, <1>1, SubsetsInduct
<1>3. 1..m \in Good BY <1>2
<1>4. Next(1..m) = 2..m + 1 OBVIOUS
<1> QED BY <1>3, <1>4 DEF Good
=============================================================================
