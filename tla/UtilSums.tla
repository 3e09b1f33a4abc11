------------------------------ MODULE UtilSums ------------------------------
(***************************************************************************)
(* What the recursive function Load of NodeAllocationState computes: the   *)
(* sum of Util over a set of claims, whatever order CHOOSE takes them in.  *)
(*                                                                         *)
(* The prover has no induction over sets at hand.  Two detours replace it: *)
(* Load's recursion has a solution because counting units of utilisation   *)
(* is one, and the solution is unique because a smallest set on which two  *)
(* solutions differ cannot exist.                                          *)
(***************************************************************************)
EXTENDS NodeAllocationState, FiniteSetTheorems, FunctionTheorems, WellFoundedInduction, TLAPS

\* The units of utilisation of a set of claims, one per thousandth of a CPU.
Units(S) == {u \in S \X Nat : u[2] \in 1 .. Util(u[1])}

\* A claim's utilisation is a natural number.
LEMMA UtilType == \A c \in Claims : Util(c) \in Nat
<1> SUFFICES ASSUME NEW c \in Claims PROVE Util(c) \in Nat
    OBVIOUS
<1>1. Request[c].runtime \in Nat /\ Request[c].period \in Nat \ {0}
    BY RequestAssumption
<1>2. Request[c].runtime * 1000 \in Nat
    BY <1>1
<1> QED BY <1>1, <1>2 DEF Util

\* The spec of a NAS keeps its type when a claim is added or removed.
LEMMA AddClaimType ==
    ASSUME NEW s \in SpecType, NEW c \in Claims, NEW S \in SUBSET Cpus
    PROVE  AddClaim(s, c, S) \in SpecType
<1>1. Util(c) \in Nat
    BY UtilType
<1> QED BY <1>1 DEF AddClaim, SpecType

LEMMA RemoveClaimType ==
    ASSUME NEW s \in SpecType, NEW c \in Claims
    PROVE  RemoveClaim(s, c) \in SpecType
<1>1. \A a, b \in Nat : Minus(a, b) \in Nat
    BY DEF Minus
<1>2. \A x \in Cpus : Minus(s.util[x], IF x \in s.cpus[c] THEN Util(c) ELSE 0) \in Nat
    BY <1>1, UtilType DEF SpecType
<1> QED BY <1>2 DEF RemoveClaim, SpecType

LEMMA EmptySpecType == EmptySpec \in SpecType /\ NoCpus \in [Claims -> SUBSET Cpus]
BY DEF EmptySpec, SpecType, NoCpus

\* A nonempty collection of subsets of a finite set has a smallest member.
LEMMA SmallestSet ==
    ASSUME NEW F, IsFiniteSet(F), NEW B \in SUBSET (SUBSET F), B # {}
    PROVE  \E T \in B : \A U \in B : ~(U \subseteq T /\ U # T)
<1>1. IsWellFoundedOn(StrictSubsetOrdering(F), FiniteSubsetsOf(F))
    BY FS_StrictSubsetOrderingWellFounded
<1>2. FiniteSubsetsOf(F) = SUBSET F
    BY FS_FiniteSubsetsOfFinite
<1>3. \E T \in B : \A U \in B : ~(<<U, T>> \in StrictSubsetOrdering(F))
    BY <1>1, <1>2, WFMin, ZenonT(60)
<1>4. \A T, U \in B : U \subseteq T /\ U # T => <<U, T>> \in StrictSubsetOrdering(F)
    BY DEF StrictSubsetOrdering
<1> QED BY <1>3, <1>4

\* One claim has Util(c) units.
LEMMA UnitsOfOne ==
    ASSUME NEW c \in Claims
    PROVE  IsFiniteSet(Units({c})) /\ Cardinality(Units({c})) = Util(c)
<1> DEFINE f == [i \in 1 .. Util(c) |-> <<c, i>>]
<1>1. Util(c) \in Nat
    BY UtilType
<1>2. f \in Bijection(1 .. Util(c), Units({c}))
  <2>1. \A i \in 1 .. Util(c) : f[i] = <<c, i>> /\ f[i] \in Units({c})
      BY <1>1 DEF Units
  <2>2. \A u \in Units({c}) : \E i \in 1 .. Util(c) : f[i] = u
      BY <1>1 DEF Units
  <2> QED BY <2>1, <2>2, Fun_IsBij, Zenon
<1>3. ExistsBijection(1 .. Util(c), Units({c}))
    BY <1>2 DEF ExistsBijection
<1>4. IsFiniteSet(1 .. Util(c)) /\ Cardinality(1 .. Util(c)) = Util(c)
    BY <1>1, FS_Interval
<1> QED BY <1>3, <1>4, FS_Bijection

\* Taking a claim out of a set takes its units out.
LEMMA UnitsSplit ==
    ASSUME NEW S \in SUBSET Claims, NEW c \in S
    PROVE  /\ Units(S) = Units(S \ {c}) \cup Units({c})
           /\ Units(S \ {c}) \cap Units({c}) = {}
BY DEF Units

\* The claims are finitely many, and so are the units of any set of them.
LEMMA UnitsFinite == \A S \in SUBSET Claims : IsFiniteSet(Units(S))
<1> DEFINE B == {S \in SUBSET Claims : ~IsFiniteSet(Units(S))}
<1> SUFFICES ASSUME B # {} PROVE FALSE
    OBVIOUS
<1>1. PICK T \in B : \A U \in B : ~(U \subseteq T /\ U # T)
  <2> B \in SUBSET (SUBSET Claims)
      OBVIOUS
  <2> HIDE DEF B
  <2> QED BY SmallestSet, ClaimsAssumption
<1>2. T \in SUBSET Claims /\ ~IsFiniteSet(Units(T))
    BY <1>1
<1>3. T # {}
  <2>1. Units({}) = {}
      BY DEF Units
  <2> QED BY <1>2, <2>1, FS_EmptySet
<1>4. PICK c \in T : TRUE
    BY <1>3
<1>5. T \ {c} \in SUBSET Claims /\ T \ {c} \subseteq T /\ T \ {c} # T
    BY <1>2, <1>4
<1>6. IsFiniteSet(Units(T \ {c}))
    BY <1>1, <1>5
<1>7. IsFiniteSet(Units({c}))
    BY <1>2, <1>4, UnitsOfOne
<1>8. IsFiniteSet(Units(T \ {c}) \cup Units({c}))
    BY <1>6, <1>7, FS_Union
<1>9. Units(T) = Units(T \ {c}) \cup Units({c})
    BY <1>2, <1>4, UnitsSplit
<1> QED BY <1>2, <1>8, <1>9

LEMMA CountSplit ==
    ASSUME NEW S \in SUBSET Claims, NEW c \in S
    PROVE  Cardinality(Units(S)) = Util(c) + Cardinality(Units(S \ {c}))
<1>1. IsFiniteSet(Units(S \ {c})) /\ IsFiniteSet(Units({c}))
    BY UnitsFinite
<1>2. Cardinality(Units({c})) = Util(c)
    BY UnitsOfOne
<1>3. Cardinality(Units(S \ {c}) \cap Units({c})) = 0
    BY UnitsSplit, FS_EmptySet
<1>4. Cardinality(Units(S)) =
         Cardinality(Units(S \ {c})) + Cardinality(Units({c})) - 0
    BY <1>1, <1>3, UnitsSplit, FS_Union
<1>5. Cardinality(Units(S \ {c})) \in Nat /\ Util(c) \in Nat
    BY <1>1, FS_CardinalityType, UtilType
<1> QED BY <1>2, <1>4, <1>5

\* The recursion that defines Load has a solution, so Load is one.
LEMMA LoadEquation ==
    Load = [S \in SUBSET Claims |->
              IF S = {} THEN 0
              ELSE LET c == CHOOSE c \in S : TRUE IN Util(c) + Load[S \ {c}]]
<1> DEFINE Solves(g) ==
      g = [S \in SUBSET Claims |->
             IF S = {} THEN 0
             ELSE LET c == CHOOSE c \in S : TRUE IN Util(c) + g[S \ {c}]]
<1> DEFINE count == [S \in SUBSET Claims |-> Cardinality(Units(S))]
<1>1. Solves(count)
  <2>1. ASSUME NEW S \in SUBSET Claims
        PROVE  count[S] = IF S = {} THEN 0
                          ELSE LET c == CHOOSE c \in S : TRUE IN Util(c) + count[S \ {c}]
    <3>1. CASE S = {}
      <4>1. Units({}) = {}
          BY DEF Units
      <4> QED BY <3>1, <4>1, FS_EmptySet
    <3>2. CASE S # {}
      <4> DEFINE c == CHOOSE c \in S : TRUE
      <4>1. c \in S
          BY <3>2
      <4>2. S \ {c} \in SUBSET Claims
          OBVIOUS
      <4> HIDE DEF c
      <4>3. count[S] = Util(c) + count[S \ {c}]
          BY <4>1, <4>2, CountSplit
      <4> QED BY <3>2, <4>3 DEF c
    <3> QED BY <3>1, <3>2
  <2> HIDE DEF count
  <2>2. count = [S \in SUBSET Claims |-> count[S]]
      BY DEF count
  <2> QED BY <2>1, <2>2
<1>2. Load = CHOOSE g : Solves(g)
    BY DEF Load
<1> HIDE DEF Solves, count
<1>3. Solves(Load)
    BY <1>1, <1>2
<1> QED BY <1>3 DEF Solves

\* Load counts units.
THEOREM LoadCounts == \A S \in SUBSET Claims : Load[S] = Cardinality(Units(S))
<1> DEFINE B == {S \in SUBSET Claims : Load[S] # Cardinality(Units(S))}
<1> SUFFICES ASSUME B # {} PROVE FALSE
    OBVIOUS
<1>1. PICK T \in B : \A U \in B : ~(U \subseteq T /\ U # T)
  <2> B \in SUBSET (SUBSET Claims)
      OBVIOUS
  <2> HIDE DEF B
  <2> QED BY SmallestSet, ClaimsAssumption
<1>2. T \in SUBSET Claims /\ Load[T] # Cardinality(Units(T))
    BY <1>1
<1>3. CASE T = {}
  <2>1. Load[{}] = 0
      BY LoadEquation
  <2>2. Units({}) = {}
      BY DEF Units
  <2> QED BY <1>2, <1>3, <2>1, <2>2, FS_EmptySet
<1>4. CASE T # {}
  <2> DEFINE c == CHOOSE c \in T : TRUE
  <2>1. c \in T
      BY <1>4
  <2>2. Load[T] = Util(c) + Load[T \ {c}]
      BY <1>2, <1>4, LoadEquation
  <2> HIDE DEF c
  <2>3. T \ {c} \in SUBSET Claims /\ T \ {c} \subseteq T /\ T \ {c} # T
      BY <1>2, <2>1
  <2>4. Load[T \ {c}] = Cardinality(Units(T \ {c}))
      BY <1>1, <2>3
  <2> QED BY <1>2, <2>1, <2>2, <2>4, CountSplit
<1> QED BY <1>3, <1>4

----------------------------------------------------------------------------
(***************************************************************************)
(* The facts about Load that the other proofs use.                         *)
(***************************************************************************)

\* The load of any set of claims is a natural number.
THEOREM LoadType == \A S \in SUBSET Claims : Load[S] \in Nat
BY LoadCounts, UnitsFinite, FS_CardinalityType

THEOREM LoadEmpty == Load[{}] = 0
BY LoadEquation

\* A new claim adds its utilisation to the load.
THEOREM LoadAdd ==
    ASSUME NEW S \in SUBSET Claims, NEW c \in Claims, c \notin S
    PROVE  Load[S \cup {c}] = Load[S] + Util(c)
<1>1. S \cup {c} \in SUBSET Claims /\ (S \cup {c}) \ {c} = S
    OBVIOUS
<1>2. Cardinality(Units(S \cup {c})) = Util(c) + Cardinality(Units(S))
    BY <1>1, CountSplit
<1> QED BY <1>1, <1>2, LoadCounts, LoadType, UtilType

\* A claim that leaves takes its utilisation with it.
THEOREM LoadRemove ==
    ASSUME NEW S \in SUBSET Claims, NEW c \in S
    PROVE  Load[S] = Load[S \ {c}] + Util(c)
<1>1. S \ {c} \in SUBSET Claims /\ c \notin S \ {c} /\ (S \ {c}) \cup {c} = S
    OBVIOUS
<1> QED BY <1>1, LoadAdd

\* More claims, no less load.
THEOREM LoadMonotonic ==
    ASSUME NEW S \in SUBSET Claims, NEW T \in SUBSET S
    PROVE  Load[T] <= Load[S]
<1>1. Units(T) \subseteq Units(S) /\ T \in SUBSET Claims
    BY DEF Units
<1>2. Cardinality(Units(T)) <= Cardinality(Units(S))
    BY <1>1, UnitsFinite, FS_Subset
<1> QED BY <1>1, <1>2, LoadCounts

\* Two sets of claims together cost no more than each of them on its own.
THEOREM LoadUnion ==
    ASSUME NEW S \in SUBSET Claims, NEW T \in SUBSET Claims
    PROVE  Load[S \cup T] <= Load[S] + Load[T]
<1>1. S \cup T \in SUBSET Claims /\ Units(S \cup T) = Units(S) \cup Units(T)
    BY DEF Units
<1>2. IsFiniteSet(Units(S)) /\ IsFiniteSet(Units(T)) /\ IsFiniteSet(Units(S) \cap Units(T))
    BY UnitsFinite, FS_Intersection
<1>3. Cardinality(Units(S) \cup Units(T)) =
         Cardinality(Units(S)) + Cardinality(Units(T)) - Cardinality(Units(S) \cap Units(T))
    BY <1>2, FS_Union
<1>4. /\ Cardinality(Units(S)) \in Nat /\ Cardinality(Units(T)) \in Nat
      /\ Cardinality(Units(S) \cap Units(T)) \in Nat
    BY <1>2, FS_CardinalityType
<1>5. \A a, b, i \in Nat : a + b - i <= a + b
    OBVIOUS
<1>6. Cardinality(Units(S) \cup Units(T)) <= Cardinality(Units(S)) + Cardinality(Units(T))
    BY <1>3, <1>4, <1>5
<1> QED BY <1>1, <1>6, LoadCounts
=============================================================================
