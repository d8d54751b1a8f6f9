------------------------------- MODULE SumTheorems -------------------------------
(***************************************************************************)
(* Sums of the values of a function over a finite set, as the community      *)
(* module Functions defines them (SumFunctionOnSet): what the models use for  *)
(* the cost of orders and of plans.  The definition takes the elements in an  *)
(* order of its own; these lemmas say that the order does not matter, that    *)
(* sums of comparable functions compare, and how one element changes a sum.   *)
(***************************************************************************)
EXTENDS Integers, Functions, FiniteSetTheorems, TLAPS

--------------------------------------------------------------------------------
(* Induction, over sets of numbers.                                         *)

LEMMA InductionOnNat ==
    ASSUME NEW T, 0 \in T, \A n \in Nat : n \in T => n + 1 \in T
    PROVE  Nat \subseteq T
<1> DEFINE Rel == OpToRel(<, Nat)
           Missing == Nat \ T
<1> SUFFICES ASSUME Missing # {} PROVE FALSE
    OBVIOUS
<1>1. IsWellFoundedOn(Rel, Nat)
    BY NatLessThanWellFounded
<1>2. \A x, y \in Nat : y < x => <<y, x>> \in Rel
    BY DEF OpToRel
<1> HIDE DEF Rel
<1>3. PICK x \in Missing : \A y \in Missing : ~ (<<y, x>> \in Rel)
    BY <1>1, WFMin
<1>4. x # 0 /\ x - 1 \in Nat /\ x - 1 < x /\ (x - 1) + 1 = x
    BY <1>3
<1>5. x - 1 \in T
    BY <1>2, <1>3, <1>4
<1> QED BY <1>3, <1>4, <1>5

\* What holds of the sizes of all finite sets holds of all finite sets.
LEMMA SizesOfSets ==
    ASSUME NEW T, Nat \subseteq T, NEW S, IsFiniteSet(S)
    PROVE  Cardinality(S) \in T
PROOF BY FS_CardinalityType

\* Taking an element away.
LEMMA SmallerSet ==
    ASSUME NEW S, IsFiniteSet(S), NEW x \in S, NEW n \in Nat, Cardinality(S) = n + 1
    PROVE  IsFiniteSet(S \ {x}) /\ Cardinality(S \ {x}) = n
PROOF BY FS_RemoveElement

--------------------------------------------------------------------------------
(* The definition unfolds.                                                  *)

Picked(S) == CHOOSE x \in S : TRUE

LEMMA PickedIsIn == ASSUME NEW S, S # {} PROVE Picked(S) \in S
PROOF BY DEF Picked

\* A table of the sums of fun over a family of sets that is closed under taking the
\* picked element away.
IsTable(g, fun, family) ==
    g = [s \in family |-> IF s = {} THEN 0 ELSE fun[Picked(s)] + g[s \ {Picked(s)}]]

UpTo(S, n) == {s \in SUBSET S : Cardinality(s) <= n}

LEMMA SumIsOfATable ==
    ASSUME NEW fun, NEW S
    PROVE  SumFunctionOnSet(fun, S) = (CHOOSE g : IsTable(g, fun, SUBSET S))[S]
PROOF BY DEF SumFunctionOnSet, FoldFunctionOnSet, MapThenFoldSet, IsTable, Picked

\* A table for the subsets of one size more.
LEMMA LargerTable ==
    ASSUME NEW S, IsFiniteSet(S), NEW fun, NEW n \in Nat, NEW g, IsTable(g, fun, UpTo(S, n))
    PROVE  \E h : IsTable(h, fun, UpTo(S, n + 1))
<1> DEFINE Entry(s) == IF s = {} THEN 0 ELSE fun[Picked(s)] + g[s \ {Picked(s)}]
           h == [s \in UpTo(S, n + 1) |-> Entry(s)]
<1>1. \A s \in UpTo(S, n) : s \in UpTo(S, n + 1) /\ g[s] = Entry(s)
    <2>1. \A s \in SUBSET S : Cardinality(s) \in Nat
        BY FS_Subset, FS_CardinalityType
    <2>2. \A s \in UpTo(S, n) : g[s] = Entry(s)
        BY DEF IsTable
    <2>3. \A s \in UpTo(S, n) : s \in UpTo(S, n + 1)
        BY <2>1 DEF UpTo
    <2> QED BY <2>2, <2>3
<1>2. \A s \in UpTo(S, n + 1) : s # {} => s \ {Picked(s)} \in UpTo(S, n)
    <2> SUFFICES ASSUME NEW s \in UpTo(S, n + 1), s # {} PROVE s \ {Picked(s)} \in UpTo(S, n)
        OBVIOUS
    <2>1. IsFiniteSet(s) /\ Cardinality(s) \in Nat /\ Cardinality(s) <= n + 1
        BY FS_Subset, FS_CardinalityType DEF UpTo
    <2>2. Cardinality(s \ {Picked(s)}) = Cardinality(s) - 1
        BY <2>1, PickedIsIn, FS_RemoveElement
    <2> QED BY <2>1, <2>2 DEF UpTo
<1>3. \A s \in UpTo(S, n + 1) :
          h[s] = IF s = {} THEN 0 ELSE fun[Picked(s)] + h[s \ {Picked(s)}]
    BY <1>1, <1>2
<1>4. IsTable(h, fun, UpTo(S, n + 1))
    BY <1>3 DEF IsTable
<1> QED BY <1>4

LEMMA TableExists ==
    ASSUME NEW S, IsFiniteSet(S), NEW fun
    PROVE  \E g : IsTable(g, fun, SUBSET S)
<1> DEFINE T == {n \in Nat : \E g : IsTable(g, fun, UpTo(S, n))}
<1>1. 0 \in T
    <2> DEFINE g == [s \in UpTo(S, 0) |-> 0]
    <2>1. \A s \in UpTo(S, 0) : s = {}
        <3> SUFFICES ASSUME NEW s \in UpTo(S, 0) PROVE s = {}
            OBVIOUS
        <3>1. IsFiniteSet(s) /\ Cardinality(s) \in Nat /\ Cardinality(s) <= 0
            BY FS_Subset, FS_CardinalityType DEF UpTo
        <3> QED BY <3>1, FS_EmptySet
    <2>2. IsTable(g, fun, UpTo(S, 0))
        BY <2>1 DEF IsTable
    <2> QED BY <2>2
<1>2. \A n \in Nat : n \in T => n + 1 \in T
    BY LargerTable
<1>3. Cardinality(S) \in T
    <2> HIDE DEF T
    <2>1. Nat \subseteq T
        BY <1>1, <1>2, InductionOnNat
    <2> QED BY <2>1, SizesOfSets
<1>4. UpTo(S, Cardinality(S)) = SUBSET S
    BY FS_Subset, FS_CardinalityType DEF UpTo
<1> QED BY <1>3, <1>4

\* Two tables agree where both are defined.
LEMMA TablesAgree ==
    ASSUME NEW S, NEW T, NEW fun, NEW g, NEW h,
           IsTable(g, fun, SUBSET S), IsTable(h, fun, SUBSET T), IsFiniteSet(S)
    PROVE  \A s \in SUBSET (S \cap T) : g[s] = h[s]
<1> DEFINE N == {n \in Nat : \A s \in SUBSET (S \cap T) : Cardinality(s) = n => g[s] = h[s]}
<1>1. \A s \in SUBSET (S \cap T) : IsFiniteSet(s)
    BY FS_Subset
<1>2. \A s \in SUBSET (S \cap T) :
          /\ g[s] = IF s = {} THEN 0 ELSE fun[Picked(s)] + g[s \ {Picked(s)}]
          /\ h[s] = IF s = {} THEN 0 ELSE fun[Picked(s)] + h[s \ {Picked(s)}]
    BY DEF IsTable
<1>3. 0 \in N
    BY <1>1, <1>2, FS_EmptySet
<1>4. ASSUME NEW n \in Nat, n \in N PROVE n + 1 \in N
    <2> SUFFICES ASSUME NEW s \in SUBSET (S \cap T), Cardinality(s) = n + 1 PROVE g[s] = h[s]
        OBVIOUS
    <2>1. s # {}
        <3>1. Cardinality({}) = 0 /\ n + 1 # 0
            BY FS_EmptySet
        <3> QED BY <3>1
    <2>2. s \ {Picked(s)} \in SUBSET (S \cap T) /\ Cardinality(s \ {Picked(s)}) = n
        BY <1>1, <2>1, PickedIsIn, SmallerSet
    <2>3. g[s \ {Picked(s)}] = h[s \ {Picked(s)}]
        BY <1>4, <2>2
    <2> QED BY <1>2, <2>1, <2>3
<1>5. Nat \subseteq N
    <2> HIDE DEF N
    <2> QED BY <1>3, <1>4, InductionOnNat
<1> QED BY <1>1, <1>5, FS_CardinalityType

\* The sum of a set is the value of the picked element and the sum of the others.
LEMMA SumUnfolds ==
    ASSUME NEW fun, NEW S, IsFiniteSet(S)
    PROVE  /\ SumFunctionOnSet(fun, {}) = 0
           /\ S # {} => SumFunctionOnSet(fun, S) = fun[Picked(S)] + SumFunctionOnSet(fun, S \ {Picked(S)})
<1> DEFINE table(s) == CHOOSE g : IsTable(g, fun, SUBSET s)
<1>1. \A s : IsFiniteSet(s) => IsTable(table(s), fun, SUBSET s)
    BY TableExists
<1>2. \A s : SumFunctionOnSet(fun, s) = table(s)[s]
    BY SumIsOfATable
<1> HIDE DEF table
<1>3. SumFunctionOnSet(fun, {}) = 0
    <2>1. table({})[{}] = 0
        BY <1>1, FS_EmptySet DEF IsTable
    <2> QED BY <1>2, <2>1
<1>4. ASSUME S # {} PROVE SumFunctionOnSet(fun, S) = fun[Picked(S)] + SumFunctionOnSet(fun, S \ {Picked(S)})
    <2> DEFINE rest == S \ {Picked(S)}
    <2>1. IsFiniteSet(rest) /\ rest \in SUBSET S /\ rest \in SUBSET (S \cap rest)
        BY FS_Subset
    <2>2. table(S)[S] = fun[Picked(S)] + table(S)[rest]
        BY <1>1, <1>4 DEF IsTable
    <2>3. IsTable(table(S), fun, SUBSET S) /\ IsTable(table(rest), fun, SUBSET rest)
        BY <1>1, <2>1
    <2>4. table(S)[rest] = table(rest)[rest]
        <3> HIDE DEF rest
        <3> QED BY <2>1, <2>3, TablesAgree
    <2> QED BY <1>2, <2>2, <2>4
<1> QED BY <1>3, <1>4

LEMMA SumOfNothing == \A fun : SumFunctionOnSet(fun, {}) = 0
PROOF BY SumUnfolds, FS_EmptySet

--------------------------------------------------------------------------------
(* What a sum is worth.                                                     *)

\* Sums of whole numbers are whole numbers, sums of natural numbers natural ones.
LEMMA SumIsWhole ==
    ASSUME NEW S, IsFiniteSet(S), NEW fun, \A x \in S : fun[x] \in Int
    PROVE  /\ SumFunctionOnSet(fun, S) \in Int
           /\ (\A x \in S : fun[x] >= 0) => SumFunctionOnSet(fun, S) >= 0
<1> DEFINE Good(s) == /\ SumFunctionOnSet(fun, s) \in Int
                      /\ (\A x \in S : fun[x] >= 0) => SumFunctionOnSet(fun, s) >= 0
           N == {n \in Nat : \A s \in SUBSET S : Cardinality(s) = n => Good(s)}
<1>1. \A s \in SUBSET S : IsFiniteSet(s)
    BY FS_Subset
<1>2. 0 \in N
    <2>1. \A s \in SUBSET S : Cardinality(s) = 0 => s = {}
        BY <1>1, FS_EmptySet
    <2>2. Good({})
        BY SumOfNothing
    <2> HIDE DEF Good
    <2> QED BY <2>1, <2>2
<1>3. ASSUME NEW n \in Nat, n \in N PROVE n + 1 \in N
    <2> SUFFICES ASSUME NEW s \in SUBSET S, Cardinality(s) = n + 1 PROVE Good(s)
        OBVIOUS
    <2> DEFINE x == Picked(s)
    <2>1. s # {}
        <3>1. Cardinality({}) = 0 /\ n + 1 # 0
            BY FS_EmptySet
        <3> QED BY <3>1
    <2>2. x \in s /\ s \ {x} \in SUBSET S /\ Cardinality(s \ {x}) = n
        BY <1>1, <2>1, PickedIsIn, SmallerSet
    <2>3. Good(s \ {x})
        BY <1>3, <2>2
    <2>4. SumFunctionOnSet(fun, s) = fun[x] + SumFunctionOnSet(fun, s \ {x})
        BY <1>1, <2>1, SumUnfolds
    <2> QED BY <2>2, <2>3, <2>4
<1>4. Nat \subseteq N
    <2> HIDE DEF N
    <2> QED BY <1>2, <1>3, InductionOnNat
<1> QED BY <1>4, FS_CardinalityType

\* Any element may be taken first.
LEMMA SumWithout ==
    ASSUME NEW S, IsFiniteSet(S), NEW fun, \A y \in S : fun[y] \in Int, NEW x \in S
    PROVE  SumFunctionOnSet(fun, S) = fun[x] + SumFunctionOnSet(fun, S \ {x})
<1> DEFINE Sum(s) == SumFunctionOnSet(fun, s)
           N == {n \in Nat : \A s \in SUBSET S : Cardinality(s) = n =>
                    \A y \in s : Sum(s) = fun[y] + Sum(s \ {y})}
<1>1. \A s \in SUBSET S : IsFiniteSet(s) /\ Sum(s) \in Int
    BY FS_Subset, SumIsWhole
<1>2. 0 \in N
    BY <1>1, FS_EmptySet
<1>3. ASSUME NEW n \in Nat, n \in N PROVE n + 1 \in N
    <2> SUFFICES ASSUME NEW s \in SUBSET S, Cardinality(s) = n + 1, NEW y \in s
                 PROVE  Sum(s) = fun[y] + Sum(s \ {y})
        OBVIOUS
    <2> DEFINE z == Picked(s)
               r == s \ {y}
               q == s \ {z}
    <2>1. z \in s /\ Sum(s) = fun[z] + Sum(q)
        BY <1>1, SumUnfolds, PickedIsIn
    <2>2. CASE y = z
        BY <2>1, <2>2
    <2>3. CASE y # z
        <3>1. q \in SUBSET S /\ Cardinality(q) = n /\ y \in q
            BY <1>1, <2>1, <2>3, SmallerSet
        <3>2. r \in SUBSET S /\ Cardinality(r) = n /\ z \in r
            BY <1>1, <2>1, <2>3, SmallerSet
        <3>3. Sum(q) = fun[y] + Sum(q \ {y}) /\ Sum(r) = fun[z] + Sum(r \ {z})
            <4> HIDE DEF Sum, q, r, z
            <4> QED BY <1>3, <3>1, <3>2
        <3>4. q \ {y} = r \ {z} /\ r \ {z} \in SUBSET S
            OBVIOUS
        <3>5. Sum(r \ {z}) \in Int /\ fun[y] \in Int /\ fun[z] \in Int
            BY <1>1, <2>1, <3>4
        <3> HIDE DEF Sum, q, r, z
        <3>6. Sum(q) = fun[y] + Sum(r \ {z})
            BY <3>3, <3>4
        <3>7. Sum(s) = fun[y] + Sum(r)
            BY <2>1, <3>3, <3>5, <3>6
        <3> QED BY <3>7 DEF r
    <2> QED BY <2>2, <2>3
<1>4. Nat \subseteq N
    <2> HIDE DEF N
    <2> QED BY <1>2, <1>3, InductionOnNat
<1> QED BY <1>4, FS_CardinalityType

\* Smaller values, smaller sum; equal values, equal sum.
LEMMA SumCompares ==
    ASSUME NEW S, IsFiniteSet(S), NEW fun, NEW gun,
           \A x \in S : fun[x] \in Int /\ gun[x] \in Int /\ fun[x] <= gun[x]
    PROVE  SumFunctionOnSet(fun, S) <= SumFunctionOnSet(gun, S)
<1> DEFINE Good(s) == SumFunctionOnSet(fun, s) <= SumFunctionOnSet(gun, s)
           N == {n \in Nat : \A s \in SUBSET S : Cardinality(s) = n => Good(s)}
<1>1. \A s \in SUBSET S : /\ IsFiniteSet(s)
                          /\ SumFunctionOnSet(fun, s) \in Int /\ SumFunctionOnSet(gun, s) \in Int
    BY FS_Subset, SumIsWhole
<1>2. 0 \in N
    <2>1. \A s \in SUBSET S : Cardinality(s) = 0 => s = {}
        BY <1>1, FS_EmptySet
    <2>2. Good({})
        BY SumOfNothing
    <2> HIDE DEF Good
    <2> QED BY <2>1, <2>2
<1>3. ASSUME NEW n \in Nat, n \in N PROVE n + 1 \in N
    <2> SUFFICES ASSUME NEW s \in SUBSET S, Cardinality(s) = n + 1 PROVE Good(s)
        OBVIOUS
    <2> DEFINE x == Picked(s)
    <2>1. s # {}
        <3>1. Cardinality({}) = 0 /\ n + 1 # 0
            BY FS_EmptySet
        <3> QED BY <3>1
    <2>2. x \in s /\ s \ {x} \in SUBSET S /\ Cardinality(s \ {x}) = n
        BY <1>1, <2>1, PickedIsIn, SmallerSet
    <2>3. Good(s \ {x})
        BY <1>3, <2>2
    <2>4. /\ SumFunctionOnSet(fun, s) = fun[x] + SumFunctionOnSet(fun, s \ {x})
          /\ SumFunctionOnSet(gun, s) = gun[x] + SumFunctionOnSet(gun, s \ {x})
        BY <1>1, <2>1, SumUnfolds
    <2> QED BY <1>1, <2>2, <2>3, <2>4
<1>4. Nat \subseteq N
    <2> HIDE DEF N
    <2> QED BY <1>2, <1>3, InductionOnNat
<1> QED BY <1>4, FS_CardinalityType

LEMMA SumsAgree ==
    ASSUME NEW S, IsFiniteSet(S), NEW fun, NEW gun,
           \A x \in S : fun[x] \in Int /\ fun[x] = gun[x]
    PROVE  SumFunctionOnSet(fun, S) = SumFunctionOnSet(gun, S)
<1>1. SumFunctionOnSet(fun, S) <= SumFunctionOnSet(gun, S)
    BY SumCompares
<1>2. SumFunctionOnSet(gun, S) <= SumFunctionOnSet(fun, S)
    BY SumCompares
<1>3. SumFunctionOnSet(gun, S) \in Int /\ SumFunctionOnSet(fun, S) \in Int
    BY SumIsWhole
<1> QED BY <1>1, <1>2, <1>3

\* One more element.
LEMMA SumWith ==
    ASSUME NEW S, IsFiniteSet(S), NEW fun, NEW x, x \notin S, \A y \in S \cup {x} : fun[y] \in Int
    PROVE  SumFunctionOnSet(fun, S \cup {x}) = SumFunctionOnSet(fun, S) + fun[x]
<1>1. IsFiniteSet(S \cup {x}) /\ (S \cup {x}) \ {x} = S
    BY FS_AddElement
<1>2. SumFunctionOnSet(fun, S \cup {x}) = fun[x] + SumFunctionOnSet(fun, (S \cup {x}) \ {x})
    BY <1>1, SumWithout
<1> QED BY <1>1, <1>2, SumIsWhole

\* A part of a set of natural values weighs no more than the whole.
LEMMA SumOfAPart ==
    ASSUME NEW S, IsFiniteSet(S), NEW T, T \subseteq S, NEW fun, \A x \in S : fun[x] \in Nat
    PROVE  SumFunctionOnSet(fun, T) <= SumFunctionOnSet(fun, S)
<1> DEFINE N == {n \in Nat : \A s \in SUBSET S : T \subseteq s /\ Cardinality(s) = n
                                => SumFunctionOnSet(fun, T) <= SumFunctionOnSet(fun, s)}
<1>1. \A s \in SUBSET S : IsFiniteSet(s) /\ SumFunctionOnSet(fun, s) \in Int
    BY FS_Subset, SumIsWhole
<1>2. \A s \in SUBSET S : s = T => SumFunctionOnSet(fun, T) <= SumFunctionOnSet(fun, s)
    BY <1>1
<1>3. 0 \in N
    <2>1. \A s \in SUBSET S : T \subseteq s /\ Cardinality(s) = 0 => s = T
        BY <1>1, FS_EmptySet
    <2> QED BY <1>2, <2>1
<1>4. ASSUME NEW n \in Nat, n \in N PROVE n + 1 \in N
    <2> SUFFICES ASSUME NEW s \in SUBSET S, T \subseteq s, Cardinality(s) = n + 1
                 PROVE  SumFunctionOnSet(fun, T) <= SumFunctionOnSet(fun, s)
        OBVIOUS
    <2>1. CASE s = T
        BY <1>2, <2>1
    <2>2. CASE s # T
        <3>1. PICK x \in s : x \notin T
            BY <2>2
        <3>2. s \ {x} \in SUBSET S /\ T \subseteq s \ {x} /\ Cardinality(s \ {x}) = n
            BY <1>1, <3>1, SmallerSet
        <3>3. SumFunctionOnSet(fun, T) <= SumFunctionOnSet(fun, s \ {x})
            BY <1>4, <3>2
        <3>4. SumFunctionOnSet(fun, s) = fun[x] + SumFunctionOnSet(fun, s \ {x})
            BY <1>1, <3>1, SumWithout
        <3> QED BY <1>1, <3>2, <3>3, <3>4
    <2> QED BY <2>1, <2>2
<1>5. Nat \subseteq N
    <2> HIDE DEF N
    <2> QED BY <1>3, <1>4, InductionOnNat
<1> QED BY <1>5, FS_CardinalityType

\* A sum may be taken in two parts.
LEMMA SumOfTwoParts ==
    ASSUME NEW S, IsFiniteSet(S), NEW T, T \subseteq S, NEW fun, \A x \in S : fun[x] \in Int
    PROVE  SumFunctionOnSet(fun, S) = SumFunctionOnSet(fun, T) + SumFunctionOnSet(fun, S \ T)
<1> DEFINE Sum(s) == SumFunctionOnSet(fun, s)
           N == {n \in Nat : \A s \in SUBSET S : Cardinality(s) = n =>
                    \A t \in SUBSET s : Sum(s) = Sum(t) + Sum(s \ t)}
<1>1. \A s \in SUBSET S : IsFiniteSet(s) /\ Sum(s) \in Int
    BY FS_Subset, SumIsWhole
<1>2. 0 \in N
    <2>1. \A s \in SUBSET S : Cardinality(s) = 0 => s = {}
        BY <1>1, FS_EmptySet
    <2> SUFFICES ASSUME NEW s \in SUBSET S, Cardinality(s) = 0, NEW t \in SUBSET s
                 PROVE  Sum(s) = Sum(t) + Sum(s \ t)
        OBVIOUS
    <2>2. s = {} /\ t = {} /\ s \ t = {}
        BY <2>1
    <2>3. Sum({}) = 0
        BY SumOfNothing
    <2> HIDE DEF Sum
    <2> QED BY <2>2, <2>3
<1>3. ASSUME NEW n \in Nat, n \in N PROVE n + 1 \in N
    <2> SUFFICES ASSUME NEW s \in SUBSET S, Cardinality(s) = n + 1, NEW t \in SUBSET s
                 PROVE  Sum(s) = Sum(t) + Sum(s \ t)
        OBVIOUS
    <2>1. s # {}
        <3>1. Cardinality({}) = 0 /\ n + 1 # 0
            BY FS_EmptySet
        <3> QED BY <3>1
    <2>2. PICK x : x \in s
        BY <2>1
    <2> DEFINE r == s \ {x}
    <2>3. r \in SUBSET S /\ Cardinality(r) = n
        BY <1>1, <2>2, SmallerSet
    <2>4. \A q \in SUBSET r : Sum(r) = Sum(q) + Sum(r \ q)
        <3> HIDE DEF Sum, r
        <3> QED BY <1>3, <2>3
    <2>5. \A u \in SUBSET S : x \in u => Sum(u) = fun[x] + Sum(u \ {x})
        <3> SUFFICES ASSUME NEW u \in SUBSET S, x \in u PROVE Sum(u) = fun[x] + Sum(u \ {x})
            OBVIOUS
        <3>1. IsFiniteSet(u) /\ \A y \in u : fun[y] \in Int
            BY <1>1
        <3> QED BY <3>1, SumWithout
    <2>6. Sum(s) = fun[x] + Sum(r) /\ fun[x] \in Int
        BY <2>2, <2>5
    <2>7. CASE x \in t
        <3>1. t \in SUBSET S /\ t \ {x} \in SUBSET r /\ t \ {x} \in SUBSET S /\ r \ (t \ {x}) = s \ t
              /\ s \ t \in SUBSET S
            BY <2>7
        <3>2. Sum(t) = fun[x] + Sum(t \ {x})
            BY <2>5, <2>7, <3>1
        <3>3. Sum(r) = Sum(t \ {x}) + Sum(s \ t)
            <4> HIDE DEF Sum, r
            <4> QED BY <2>4, <3>1
        <3>4. Sum(t \ {x}) \in Int /\ Sum(s \ t) \in Int
            BY <1>1, <3>1
        <3> HIDE DEF Sum, r
        <3> QED BY <2>6, <3>2, <3>3, <3>4
    <2>8. CASE x \notin t
        <3>1. t \in SUBSET r /\ t \in SUBSET S /\ s \ t \in SUBSET S /\ x \in s \ t
              /\ (s \ t) \ {x} = r \ t /\ r \ t \in SUBSET S
            BY <2>2, <2>8
        <3>2. Sum(s \ t) = fun[x] + Sum(r \ t)
            <4>1. Sum(s \ t) = fun[x] + Sum((s \ t) \ {x})
                BY <2>5, <3>1
            <4> HIDE DEF Sum, r
            <4> QED BY <3>1, <4>1
        <3>3. Sum(r) = Sum(t) + Sum(r \ t)
            BY <2>4, <3>1
        <3>4. Sum(t) \in Int /\ Sum(r \ t) \in Int
            BY <1>1, <3>1
        <3> HIDE DEF Sum, r
        <3> QED BY <2>6, <3>2, <3>3, <3>4
    <2> QED BY <2>7, <2>8
<1>4. Nat \subseteq N
    <2> HIDE DEF N
    <2> QED BY <1>2, <1>3, InductionOnNat
<1> QED BY <1>4, FS_CardinalityType

================================================================================
