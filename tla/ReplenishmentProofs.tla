-------------------------- MODULE ReplenishmentProofs --------------------------
(***************************************************************************)
(* Theorems about the planning engine (Replenishment), for all series,       *)
(* articles, policies and budgets that the contracts allow.                 *)
(*                                                                         *)
(* The way: rounding and the increment as facts about multiples; the sums of *)
(* demand and receipts, and the share of the scenarios that a quantile       *)
(* reaches; what one line is made of (LineIsRight); the inductive invariant   *)
(* (Lines for what a line keeps of its plan, Money for the account of the     *)
(* budget), and from it one theorem for each invariant of the run "engine".   *)
(***************************************************************************)
EXTENDS Replenishment, SumTheorems, TLAPS

--------------------------------------------------------------------------------
(* Multiples and rounding.                                                 *)

\* x is d times a whole number.
Multiple(x, d) == \E k \in Int : x = k * d

\* Dividing a whole number: quotient and remainder.
LEMMA Division ==
    ASSUME NEW x \in Int, NEW d \in Positive
    PROVE  /\ x \div d \in Int /\ x % d \in Int
           /\ 0 <= x % d /\ x % d < d
           /\ x = (x \div d) * d + (x % d)
PROOF BY DEF Positive

\* A multiple of d between 0 and d is 0.
LEMMA SmallMultiple ==
    ASSUME NEW m \in Int, NEW d \in Positive, 0 <= m * d, m * d < d
    PROVE  m = 0
PROOF BY DEF Positive

\* Arithmetic of products, for one multiplication at a time.
LEMMA Products ==
    ASSUME NEW x \in Int, NEW y \in Int, NEW z \in Int
    PROVE  /\ x * y \in Int /\ x * y = y * x /\ (x * y) * z = x * (y * z)
           /\ (x + y) * z = x * z + y * z /\ (x - y) * z = x * z - y * z
           /\ x <= y /\ z >= 0 => x * z <= y * z
           /\ x >= 0 /\ y >= 0 => x * y >= 0
           /\ x > 0 /\ y > 0 => x * y > 0
           /\ 0 * x = 0 /\ 1 * x = x
PROOF OBVIOUS

\* No remainder means a multiple.
LEMMA NoRemainder ==
    ASSUME NEW x \in Int, NEW d \in Positive
    PROVE  x % d = 0 <=> Multiple(x, d)
<1>1. ASSUME x % d = 0 PROVE Multiple(x, d)
    <2>1. x = (x \div d) * d + (x % d) /\ x \div d \in Int
        BY Division
    <2>2. (x \div d) * d \in Int
        BY <2>1, Products DEF Positive
    <2>3. x = (x \div d) * d
        BY <1>1, <2>1, <2>2
    <2> QED BY <2>1, <2>3 DEF Multiple
<1>2. ASSUME NEW k \in Int, x = k * d PROVE x % d = 0
    <2> DEFINE q == x \div d
               r == x % d
    <2>1. x = q * d + r /\ q \in Int /\ r \in Int /\ 0 <= r /\ r < d
        BY Division
    <2> HIDE DEF q, r
    <2>2. r = (k - q) * d
        BY <1>2, <2>1, Products DEF Positive
    <2>3. k - q = 0
        BY <2>1, <2>2, SmallMultiple
    <2>4. r = 0
        BY <2>2, <2>3 DEF Positive
    <2> QED BY <2>4 DEF r
<1> QED BY <1>1, <1>2 DEF Multiple

\* Multiples of d make multiples of d.
LEMMA MultiplesClosed ==
    ASSUME NEW d \in Int, NEW x \in Int, NEW y \in Int, Multiple(x, d)
    PROVE  /\ Multiple(0, d) /\ Multiple(d, d) /\ Multiple(x * y, d)
           /\ Multiple(y, d) => Multiple(x - y, d) /\ Multiple(x + y, d)
           /\ Multiple(y, x) => Multiple(y, d)
<1>1. PICK k \in Int : x = k * d
    BY DEF Multiple
<1>2. 0 = 0 * d /\ d = 1 * d
    OBVIOUS
<1>3. x * y = (k * y) * d /\ k * y \in Int
    <2>1. (k * d) * y = (k * y) * d
        BY Products
    <2> QED BY <1>1, <2>1
<1>4. ASSUME NEW n \in Int, y = n * d PROVE x - y = (k - n) * d /\ x + y = (k + n) * d
    BY <1>1, <1>4, Products
<1>5. ASSUME NEW n \in Int, y = n * x PROVE y = (n * k) * d /\ n * k \in Int
    BY <1>1, <1>5, Products
<1>6. Multiple(0, d) /\ Multiple(d, d) /\ Multiple(x * y, d)
    BY <1>2, <1>3 DEF Multiple
<1>7. Multiple(y, d) => Multiple(x - y, d) /\ Multiple(x + y, d)
    BY <1>4 DEF Multiple
<1>8. Multiple(y, x) => Multiple(y, d)
    BY <1>5 DEF Multiple
<1> QED BY <1>6, <1>7, <1>8

\* A set of natural numbers has a least one.
LEMMA LeastNumber ==
    ASSUME NEW S, S \subseteq Nat, S # {}
    PROVE  Min(S) \in S /\ \A n \in S : Min(S) <= n
<1> DEFINE Rel == OpToRel(<, Nat)
<1>1. IsWellFoundedOn(Rel, Nat)
    BY NatLessThanWellFounded
<1>2. \A x, y \in Nat : y < x => <<y, x>> \in Rel
    BY DEF OpToRel
<1> HIDE DEF Rel
<1>3. PICK m \in S : \A n \in S : ~ (<<n, m>> \in Rel)
    BY <1>1, WFMin
<1>4. \A n \in S : m \in Nat /\ n \in Nat /\ ~ (n < m)
    BY <1>2, <1>3
<1>5. \A n \in S : m <= n
    BY <1>4
<1> QED BY <1>3, <1>5 DEF Min

\* Lcm is a common multiple, and every common multiple is a multiple of it.
LEMMA LcmDivides ==
    ASSUME NEW a \in Positive, NEW b \in Positive
    PROVE  /\ Lcm(a, b) \in Positive
           /\ Multiple(Lcm(a, b), a) /\ Multiple(Lcm(a, b), b)
           /\ \A x \in Int : Multiple(x, a) /\ Multiple(x, b) => Multiple(x, Lcm(a, b))
<1> DEFINE C == {n \in 1 .. a * b : n % a = 0 /\ n % b = 0}
           L == Lcm(a, b)
<1>1. a \in Int /\ b \in Int /\ a * b \in Positive /\ Multiple(a, a) /\ Multiple(b, b)
    <2>1. a * b \in Int /\ a * b > 0
        BY Products DEF Positive
    <2>2. a = 1 * a /\ b = 1 * b
        BY DEF Positive
    <2> QED BY <2>1, <2>2 DEF Positive, Multiple
<1>2. a * b \in C
    <2>1. Multiple(a * b, a) /\ Multiple(b * a, b) /\ a * b = b * a
        BY <1>1, MultiplesClosed, Products
    <2> QED BY <1>1, <2>1, NoRemainder DEF Positive
<1>3. L \in C /\ \A n \in C : L <= n
    <2>1. C \subseteq Nat /\ C # {}
        BY <1>1, <1>2 DEF Positive
    <2>2. L = Min(C)
        BY DEF Lcm
    <2> HIDE DEF C, L
    <2> QED BY <2>1, <2>2, LeastNumber
<1>4. L \in Positive /\ Multiple(L, a) /\ Multiple(L, b)
    <2>1. L \in Int /\ L >= 1 /\ L % a = 0 /\ L % b = 0
        BY <1>3
    <2> HIDE DEF L
    <2> QED BY <2>1, NoRemainder DEF Positive
<1>5. ASSUME NEW x \in Int, Multiple(x, a), Multiple(x, b) PROVE Multiple(x, L)
    <2> HIDE DEF L
    <2> DEFINE q == x \div L
               r == x % L
    <2>1. x = q * L + r /\ q \in Int /\ r \in Int /\ 0 <= r /\ r < L
        BY <1>4, Division
    <2> HIDE DEF q, r
    <2>2. L * q \in Int /\ r = x - L * q
        BY <1>4, <2>1, Products DEF Positive
    <2>3. Multiple(L * q, a) /\ Multiple(L * q, b)
        <3>1. L \in Int
            BY <1>4 DEF Positive
        <3> QED BY <1>1, <1>4, <2>1, <3>1, MultiplesClosed
    <2>4. Multiple(r, a) /\ Multiple(r, b)
        BY <1>1, <1>5, <2>2, <2>3, MultiplesClosed
    <2>5. r % a = 0 /\ r % b = 0
        BY <2>1, <2>4, NoRemainder
    <2>6. L <= a * b
        BY <1>3
    <2>7. r \in 1 .. a * b => r \in C
        BY <2>5
    <2>8. r = 0
        <3> HIDE DEF C
        <3> QED BY <1>1, <1>3, <1>4, <2>1, <2>6, <2>7 DEF Positive
    <2> QED BY <2>8, <1>4, NoRemainder DEF r, Positive
<1> QED BY <1>4, <1>5

\* What rounding down to a multiple gives.
LEMMA FloorIsMost ==
    ASSUME NEW v \in Nat, NEW d \in Positive
    PROVE  /\ Floor(v, d) \in Nat /\ Floor(v, d) <= v /\ Multiple(Floor(v, d), d)
           /\ \A x \in Int : Multiple(x, d) /\ x <= v => x <= Floor(v, d)
<1> DEFINE q == v \div d
           r == v % d
<1>1. v = q * d + r /\ q \in Int /\ r \in Int /\ 0 <= r /\ r < d
    BY Division
<1> HIDE DEF q, r
<1>2. Floor(v, d) = q * d
    BY DEF Floor, q
<1>3. q >= 0
    <2> SUFFICES ASSUME q <= -1 PROVE FALSE
        BY <1>1
    <2>1. q * d <= (-1) * d
        BY <1>1, Products DEF Positive
    <2> QED BY <1>1, <2>1 DEF Positive
<1>4. q * d \in Nat /\ q * d <= v /\ Multiple(q * d, d)
    <2>1. q * d \in Int /\ q * d >= 0
        BY <1>1, <1>3, Products DEF Positive
    <2> QED BY <1>1, <2>1 DEF Multiple
<1>5. ASSUME NEW k \in Int, k * d <= v PROVE k * d <= q * d
    <2> SUFFICES ASSUME k >= q + 1 PROVE FALSE
        BY <1>1, Products DEF Positive
    <2>1. (q + 1) * d <= k * d
        BY <1>1, Products DEF Positive
    <2>2. (q + 1) * d = q * d + d
        BY <1>1, Products DEF Positive
    <2>3. k * d \in Int /\ q * d \in Int
        BY <1>1, Products DEF Positive
    <2> QED BY <1>1, <1>5, <2>1, <2>2, <2>3 DEF Positive
<1> QED BY <1>2, <1>4, <1>5 DEF Multiple

\* What rounding up to a multiple gives.
LEMMA CeilIsLeast ==
    ASSUME NEW v \in Nat, NEW d \in Positive
    PROVE  /\ Ceil(v, d) \in Nat /\ Ceil(v, d) >= v /\ Multiple(Ceil(v, d), d)
           /\ \A x \in Int : Multiple(x, d) /\ x >= v => x >= Ceil(v, d)
<1> DEFINE q == (v + d - 1) \div d
           r == (v + d - 1) % d
<1>1. v + d - 1 = q * d + r /\ q \in Int /\ r \in Int /\ 0 <= r /\ r < d
    <2>1. v + d - 1 \in Int
        BY DEF Positive
    <2> QED BY <2>1, Division
<1> HIDE DEF q, r
<1>2. Ceil(v, d) = q * d
    BY DEF Ceil, q
<1>3. q * d \in Int /\ q * d >= v /\ q * d <= v + d - 1
    <2>1. q * d \in Int
        BY <1>1, Products DEF Positive
    <2> QED BY <1>1, <2>1 DEF Positive
<1>4. ASSUME NEW k \in Int, k * d >= v PROVE k * d >= q * d
    <2> SUFFICES ASSUME k <= q - 1 PROVE FALSE
        BY <1>1, Products DEF Positive
    <2>1. k * d <= (q - 1) * d
        BY <1>1, Products DEF Positive
    <2>2. (q - 1) * d = q * d - d
        BY <1>1, Products DEF Positive
    <2>3. k * d \in Int
        BY Products DEF Positive
    <2> QED BY <1>1, <1>3, <1>4, <2>1, <2>2, <2>3 DEF Positive
<1> QED BY <1>1, <1>2, <1>3, <1>4 DEF Multiple

--------------------------------------------------------------------------------
(* The increment of an article.                                            *)

\* The supplier terms of an article that can be planned.
Orders(a) ==
    /\ a.conversion \in Positive /\ a.quantum \in Positive
    /\ a.pack \in Positive /\ a.moq \in Nat

\* The increment of the code: its multiples are the whole packs that the stock
\* quantum divides, and no others.
LEMMA IncrementDivides ==
    ASSUME NEW a, Orders(a)
    PROVE  /\ a.pack * a.conversion \in Positive /\ a.moq * a.conversion \in Nat
           /\ Increment(a) \in Positive
           /\ \A x \in Int : Multiple(x, Increment(a)) <=>
                                Multiple(x, a.pack * a.conversion) /\ Multiple(x, a.quantum)
<1>1. a.pack * a.conversion \in Positive /\ a.moq * a.conversion \in Nat
    <2>1. a.pack \in Int /\ a.pack > 0 /\ a.conversion \in Int /\ a.conversion > 0 /\ a.moq \in Int /\ a.moq >= 0
        BY DEF Orders, Positive
    <2>2. a.pack * a.conversion \in Int /\ a.pack * a.conversion > 0
        BY <2>1, Products
    <2>3. a.moq * a.conversion \in Int /\ a.moq * a.conversion >= 0
        BY <2>1, Products
    <2> QED BY <2>2, <2>3 DEF Positive
<1>2. a.quantum \in Positive /\ Increment(a) = Lcm(a.pack * a.conversion, a.quantum)
    BY DEF Orders, Increment
<1>3. /\ Increment(a) \in Positive
      /\ Multiple(Increment(a), a.pack * a.conversion) /\ Multiple(Increment(a), a.quantum)
      /\ \A x \in Int : Multiple(x, a.pack * a.conversion) /\ Multiple(x, a.quantum)
                            => Multiple(x, Increment(a))
    BY <1>1, <1>2, LcmDivides
<1>4. ASSUME NEW x \in Int, Multiple(x, Increment(a))
      PROVE  Multiple(x, a.pack * a.conversion) /\ Multiple(x, a.quantum)
    <2>1. Increment(a) \in Int /\ a.pack * a.conversion \in Int /\ a.quantum \in Int
        BY <1>1, <1>2, <1>3 DEF Positive
    <2> QED BY <1>3, <1>4, <2>1, MultiplesClosed
<1> QED BY <1>1, <1>3, <1>4

\* The quantities that may be ordered, by the increment.
OnIncrement(a, base) ==
    /\ base # 0 => base >= a.moq * a.conversion
    /\ Multiple(base, Increment(a))

\* What the run asks of its own quantities is that they are on the increment.
LEMMA ValidBaseIsOnIncrement ==
    ASSUME NEW a, Orders(a), NEW base \in Nat
    PROVE  ValidBase(a, base) <=> OnIncrement(a, base)
<1>1. base % (a.pack * a.conversion) = 0 <=> Multiple(base, a.pack * a.conversion)
    BY IncrementDivides, NoRemainder
<1>2. base % a.quantum = 0 <=> Multiple(base, a.quantum)
    BY NoRemainder DEF Orders
<1> QED BY <1>1, <1>2, IncrementDivides DEF ValidBase, OnIncrement

\* revalidate_line_quantity accepts what is on the increment and nothing else.
LEMMA OrderableIsOnIncrement ==
    ASSUME NEW a, Orders(a), NEW base \in Nat
    PROVE  Orderable(a, base) <=> OnIncrement(a, base)
<1> DEFINE p == a.pack
           c == a.conversion
           m == a.moq
<1>1. p \in Int /\ p > 0 /\ c \in Int /\ c > 0 /\ m \in Int /\ m >= 0 /\ p * c \in Positive /\ p * c \in Int
    BY IncrementDivides DEF Orders, Positive
<1>2. base % a.quantum = 0 <=> Multiple(base, a.quantum)
    BY NoRemainder DEF Orders
<1>3. ASSUME NEW q \in 0 .. base, base = q * c, q # 0 => q >= m, q % p = 0
      PROVE  Multiple(base, p * c) /\ (base # 0 => base >= m * c)
    <2>1. Multiple(q, p)
        BY <1>3, NoRemainder DEF Orders
    <2>2. PICK k \in Int : q = k * p
        BY <2>1 DEF Multiple
    <2>3. base = k * (p * c)
        BY <1>1, <1>3, <2>2, Products
    <2>4. q = 0 => base = 0
        BY <1>1, <1>3, Products
    <2>5. q # 0 => m * c <= q * c
        BY <1>1, <1>3, Products
    <2> QED BY <1>3, <2>3, <2>4, <2>5 DEF Multiple
<1>4. ASSUME Multiple(base, p * c), base # 0 => base >= m * c
      PROVE  \E q \in 0 .. base : base = q * c /\ (q # 0 => q >= m) /\ q % p = 0
    <2>1. PICK k \in Int : base = k * (p * c)
        BY <1>4 DEF Multiple
    <2> DEFINE q == k * p
    <2>2. q \in Int /\ base = q * c
        BY <1>1, <2>1, Products
    <2>3. q % p = 0
        BY <2>2, NoRemainder DEF Multiple, Orders
    <2> HIDE DEF q
    <2>4. q >= 0
        <3> SUFFICES ASSUME q <= -1 PROVE FALSE
            BY <2>2
        <3>1. q * c <= (-1) * c
            BY <1>1, <2>2, Products
        <3> HIDE DEF c
        <3> QED BY <1>1, <2>2, <3>1
    <2>5. q <= base
        <3>1. 1 * q <= c * q
            BY <1>1, <2>2, <2>4, Products
        <3>2. c * q = q * c /\ 1 * q = q
            BY <1>1, <2>2, Products
        <3> QED BY <2>2, <3>1, <3>2
    <2>6. q # 0 => q >= m
        <3> SUFFICES ASSUME q # 0, q <= m - 1 PROVE FALSE
            BY <1>1, <2>2
        <3>1. q * c > 0
            BY <1>1, <2>2, <2>4, Products
        <3>2. q * c <= (m - 1) * c /\ (m - 1) * c = m * c - 1 * c
            BY <1>1, <2>2, Products
        <3>3. m * c \in Int /\ 1 * c = c /\ base >= m * c
            BY <1>1, <1>4, <2>2, <3>1, Products
        <3> HIDE DEF c, m
        <3> QED BY <1>1, <2>2, <3>1, <3>2, <3>3
    <2> QED BY <2>2, <2>3, <2>4, <2>5, <2>6
<1>5. Orderable(a, base) <=> /\ Multiple(base, p * c) /\ (base # 0 => base >= m * c)
                             /\ Multiple(base, a.quantum)
    BY <1>2, <1>3, <1>4 DEF Orderable
<1> QED BY <1>5, IncrementDivides DEF OnIncrement

\* Rounding gives the least quantity on the increment that covers the need.
LEMMA RoundedIsLeast ==
    ASSUME NEW a, Orders(a), NEW raw \in Nat
    PROVE  /\ Rounded(a, raw) \in Nat /\ OnIncrement(a, Rounded(a, raw))
           /\ raw <= Rounded(a, raw) /\ (raw = 0 => Rounded(a, raw) = 0)
           /\ raw # 0 => \A x \in Nat : OnIncrement(a, x) /\ x >= raw => x >= Rounded(a, raw)
<1>1. /\ a.pack * a.conversion \in Positive /\ a.moq * a.conversion \in Nat
      /\ Increment(a) \in Positive /\ Increment(a) \in Int
      /\ \A x \in Int : Multiple(x, Increment(a)) => Multiple(x, a.pack * a.conversion)
    BY IncrementDivides DEF Positive
<1>2. CASE raw = 0
    <2>1. Rounded(a, raw) = 0
        BY <1>2 DEF Rounded
    <2>2. Multiple(0, Increment(a))
        <3>1. 0 = 0 * Increment(a)
            BY <1>1
        <3> QED BY <3>1 DEF Multiple
    <2> QED BY <1>2, <2>1, <2>2 DEF OnIncrement
<1>3. CASE raw # 0
    <2> DEFINE least == Larger(raw, a.moq * a.conversion)
               packed == Ceil(least, a.pack * a.conversion)
    <2>1. least \in Nat /\ least >= raw /\ least >= a.moq * a.conversion
          /\ (least = raw \/ least = a.moq * a.conversion)
        BY <1>1 DEF Larger
    <2> HIDE DEF least
    <2>2. /\ packed \in Nat /\ packed >= least
          /\ \A x \in Int : Multiple(x, a.pack * a.conversion) /\ x >= least => x >= packed
        BY <1>1, <2>1, CeilIsLeast
    <2>3. Rounded(a, raw) = Ceil(packed, Increment(a))
        BY <1>3 DEF Rounded, least
    <2> HIDE DEF packed
    <2>4. /\ Rounded(a, raw) \in Nat /\ Rounded(a, raw) >= packed
          /\ Multiple(Rounded(a, raw), Increment(a))
          /\ \A x \in Int : Multiple(x, Increment(a)) /\ x >= packed => x >= Rounded(a, raw)
        BY <1>1, <2>2, <2>3, CeilIsLeast
    <2>5. ASSUME NEW x \in Nat, OnIncrement(a, x), x >= raw PROVE x >= Rounded(a, raw)
        <3>1. x >= a.moq * a.conversion /\ Multiple(x, Increment(a))
            BY <1>3, <2>5 DEF OnIncrement
        <3>2. x >= least
            BY <2>1, <2>5, <3>1
        <3> QED BY <1>1, <2>2, <2>4, <3>1, <3>2
    <2>6. Rounded(a, raw) >= a.moq * a.conversion /\ Rounded(a, raw) >= raw
        BY <1>1, <2>1, <2>2, <2>4
    <2> QED BY <1>3, <2>4, <2>5, <2>6 DEF OnIncrement
<1> QED BY <1>2, <1>3

\* Cutting a quantity on the increment down to a limit, and to nothing below the MOQ,
\* gives the largest quantity on the increment within the limit.
LEMMA CutIsMost ==
    ASSUME NEW a, Orders(a), NEW candidate \in Nat, OnIncrement(a, candidate), NEW limit \in Nat,
           NEW cut, cut = Smaller(candidate, Floor(limit, Increment(a))),
           NEW result, result = IF cut < a.moq * a.conversion THEN 0 ELSE cut
    PROVE  /\ result \in Nat /\ result <= candidate /\ result <= limit /\ OnIncrement(a, result)
           /\ \A x \in Nat : OnIncrement(a, x) /\ x <= candidate /\ x <= limit => x <= result
<1>1. a.moq * a.conversion \in Nat /\ Increment(a) \in Positive /\ Increment(a) \in Int
    BY IncrementDivides DEF Positive
<1> DEFINE floor == Floor(limit, Increment(a))
<1>2. /\ floor \in Nat /\ floor <= limit /\ Multiple(floor, Increment(a))
      /\ \A x \in Int : Multiple(x, Increment(a)) /\ x <= limit => x <= floor
    BY <1>1, FloorIsMost
<1> HIDE DEF floor
<1>3. /\ cut \in Nat /\ cut <= candidate /\ cut <= floor
      /\ cut = candidate \/ cut = floor
    BY <1>2 DEF Smaller, floor
<1>4. Multiple(cut, Increment(a)) /\ Multiple(0, Increment(a))
    <2>1. 0 = 0 * Increment(a)
        BY <1>1
    <2> QED BY <1>2, <1>3, <2>1 DEF OnIncrement, Multiple
<1>5. result \in Nat /\ result <= candidate /\ result <= limit
    BY <1>1, <1>2, <1>3
<1>6. OnIncrement(a, result)
    BY <1>1, <1>3, <1>4 DEF OnIncrement
<1>7. ASSUME NEW x \in Nat, OnIncrement(a, x), x <= candidate, x <= limit PROVE x <= result
    <2>1. x <= floor
        BY <1>2, <1>7 DEF OnIncrement
    <2>2. x <= cut
        BY <1>3, <1>7, <2>1
    <2> QED BY <1>1, <1>3, <1>7, <2>2 DEF OnIncrement
<1> QED BY <1>5, <1>6, <1>7

--------------------------------------------------------------------------------
(* Demand, receipts and the newest records.                                *)

\* What the contracts say of an article that is planned.
Planned(a) ==
    /\ Orders(a) /\ a.cost \in Nat \cup {NoCost}
    /\ a.lead \in Nat /\ a.review \in Positive /\ a.review_days \in Positive \cup {NoReview}
    /\ a.free \in Int /\ a.demand \in Seq(Nat) /\ a.receipts \in Seq(PipelineLine)
    /\ a.method \in {"scenario_paths", "iid_residual_normal"} /\ a.deviation \in Nat
    /\ a.paths \in Seq(Seq(Nat))
    /\ a.max_cover \in Positive \cup {NoCover} /\ a.delay \in Nat /\ a.target \in 0 .. 100

\* The days of a period are finitely many.
LEMMA IntervalIsFinite == \A n \in Int : IsFiniteSet(1 .. n)
PROOF BY FS_Interval

\* Sums of demand and receipts are whole.
LEMMA DemandIsWhole ==
    ASSUME NEW path \in Seq(Nat), NEW days \in Nat, days <= Len(path)
    PROVE  PathDemand(path, days) \in Nat
<1>1. \A d \in 1 .. days : path[d] \in Nat
    OBVIOUS
<1>2. \A d \in 1 .. days : path[d] \in Int /\ path[d] >= 0
    BY <1>1
<1>3. IsFiniteSet(1 .. days)
    BY IntervalIsFinite
<1>4. SumFunctionOnSet(path, 1 .. days) \in Int /\ SumFunctionOnSet(path, 1 .. days) >= 0
    BY <1>2, <1>3, SumIsWhole
<1> QED BY <1>4 DEF PathDemand

\* What some receipts bring is a natural number.
LEMMA ReceivedIsWhole ==
    ASSUME NEW a, a.receipts \in Seq(PipelineLine), NEW R, R \subseteq DOMAIN a.receipts
    PROVE  Received(a, R) \in Nat /\ IsFiniteSet(R)
<1> DEFINE q == [i \in DOMAIN a.receipts |-> a.receipts[i].quantity]
<1>1. DOMAIN a.receipts = 1 .. Len(a.receipts) /\ Len(a.receipts) \in Nat
    OBVIOUS
<1>2. \A i \in DOMAIN a.receipts : a.receipts[i] \in PipelineLine
    BY <1>1
<1>3. \A i \in R : q[i] \in Int /\ q[i] >= 0
    BY <1>2 DEF PipelineLine
<1>4. IsFiniteSet(R)
    BY <1>1, IntervalIsFinite, FS_Subset
<1> HIDE DEF q
<1>5. SumFunctionOnSet(q, R) \in Int /\ SumFunctionOnSet(q, R) >= 0
    BY <1>3, <1>4, SumIsWhole
<1> QED BY <1>4, <1>5 DEF Received, q

\* The newest of some records in force is one of them.
LEMMA LatestIsInForce ==
    ASSUME NEW T, NEW rows \in Seq(T), InForce(rows) # {}
    PROVE  \E i \in InForce(rows) : i \in DOMAIN rows /\ Latest(rows) = rows[i] /\ Latest(rows) \in T
<1>1. InForce(rows) \subseteq DOMAIN rows /\ DOMAIN rows \subseteq Nat /\ \A i \in DOMAIN rows : rows[i] \in T
    BY DEF InForce
<1>2. Min(InForce(rows)) \in InForce(rows)
    BY <1>1, LeastNumber
<1> QED BY <1>1, <1>2 DEF Latest

\* An article that nothing blocks has a count and terms in force.
LEMMA InForceIsKnown ==
    ASSUME NEW r \in Article, ~ Blocked(r)
    PROVE  /\ Latest(r.stock) \in InventorySnapshot /\ Latest(r.terms) \in SupplierTerms
           /\ \E i \in InForce(r.stock) : i \in DOMAIN r.stock /\ Latest(r.stock) = r.stock[i]
<1>1. r.stock \in Seq(InventorySnapshot) /\ r.terms \in Seq(SupplierTerms)
    BY DEF Article
<1>2. InForce(r.stock) # {} /\ InForce(r.terms) # {}
    BY DEF Blocked
<1> QED BY <1>1, <1>2, LatestIsInForce

\* The facts of an article come from its series, its newest count and its newest terms.
LEMMA FactsAreTheNewest ==
    ASSUME policy \in PlanningPolicy, article \in [Series -> Article],
           NEW s \in Series, ~ Blocked(article[s])
    PROVE  LET r == article[s]
               a == Facts(s)
               stock == Latest(r.stock)
               terms == Latest(r.terms)
           IN  /\ a.free = stock.free
               /\ a.moq = terms.moq /\ a.pack = terms.pack /\ a.lead = terms.lead
               /\ a.review = terms.review /\ a.cost = terms.cost
               /\ a.conversion = r.conversion /\ a.quantum = r.quantum /\ a.demand = r.demand
               /\ a.receipts = r.receipts /\ a.method = r.method /\ a.deviation = r.deviation
               /\ a.paths = r.paths /\ a.stock = r.stock
               /\ a.delay = policy.delay /\ a.max_cover = policy.max_cover /\ a.target = policy.target
               /\ a.review_days = policy.review_days
               /\ Planned(a)
<1> DEFINE r == article[s]
           a == Facts(s)
           stock == Latest(r.stock)
           terms == Latest(r.terms)
           pol == policy
<1>1. r \in Article /\ stock \in InventorySnapshot /\ terms \in SupplierTerms
    BY InForceIsKnown
<1>2. DOMAIN r = {"forecast", "blocked", "warned", "stock", "terms", "receipts", "conversion", "quantum",
                  "demand", "method", "deviation", "paths", "path_count"}
    BY <1>1 DEF Article
<1>3. DOMAIN stock = {"at", "free"}
    BY <1>1 DEF InventorySnapshot
<1>4. DOMAIN terms = {"at", "moq", "pack", "lead", "review", "cost"}
    BY <1>1 DEF SupplierTerms
<1>5. DOMAIN pol = {"budget", "currency", "max_cover", "review_days", "delay", "target"}
    BY DEF PlanningPolicy
<1>6. a = [x \in DOMAIN r \cup DOMAIN stock \cup DOMAIN terms \cup DOMAIN pol |->
              CASE x \in DOMAIN r -> r[x]
                [] x \in DOMAIN stock -> stock[x]
                [] x \in DOMAIN terms -> terms[x]
                [] x \in DOMAIN pol -> pol[x]]
    BY DEF Facts
<1> HIDE DEF r, a, stock, terms, pol
<1>7. \A x \in DOMAIN r : a[x] = r[x]
    BY <1>2, <1>3, <1>4, <1>5, <1>6
<1>8. a.free = stock.free
    BY <1>2, <1>3, <1>4, <1>5, <1>6
<1>9. \A x \in {"moq", "pack", "lead", "review", "cost"} : a[x] = terms[x]
    BY <1>2, <1>3, <1>4, <1>5, <1>6
<1>10. \A x \in {"delay", "max_cover", "review_days", "target"} : a[x] = pol[x]
    BY <1>2, <1>3, <1>4, <1>5, <1>6
<1>11. /\ a.free = stock.free
      /\ a.moq = terms.moq /\ a.pack = terms.pack /\ a.lead = terms.lead
      /\ a.review = terms.review /\ a.cost = terms.cost
      /\ a.conversion = r.conversion /\ a.quantum = r.quantum /\ a.demand = r.demand
      /\ a.receipts = r.receipts /\ a.method = r.method /\ a.deviation = r.deviation
      /\ a.paths = r.paths /\ a.stock = r.stock
      /\ a.delay = pol.delay /\ a.max_cover = pol.max_cover /\ a.target = pol.target
      /\ a.review_days = pol.review_days
    BY <1>2, <1>7, <1>8, <1>9, <1>10
<1>12. /\ stock.free \in Int
      /\ terms.moq \in Nat /\ terms.pack \in Positive /\ terms.lead \in Nat
      /\ terms.review \in Positive /\ terms.cost \in Nat \cup {NoCost}
    BY <1>1 DEF InventorySnapshot, SupplierTerms
<1>13. /\ r.conversion \in Positive /\ r.quantum \in Positive /\ r.demand \in Seq(Nat)
      /\ r.receipts \in Seq(PipelineLine) /\ r.deviation \in Nat /\ r.paths \in Seq(Seq(Nat))
      /\ r.method \in {"scenario_paths", "iid_residual_normal"}
    BY <1>1 DEF Article
<1>14. pol.max_cover \in Positive \cup {NoCover} /\ pol.delay \in Nat /\ pol.target \in 0 .. 100
       /\ pol.review_days \in Positive \cup {NoReview}
    BY DEF pol, PlanningPolicy
<1>15. Planned(a)
    BY <1>11, <1>12, <1>13, <1>14 DEF Planned, Orders
<1> QED BY <1>11, <1>15 DEF r, a, stock, terms, pol

--------------------------------------------------------------------------------
(* Sorted values.                                                          *)

AtMost(values, v) == {i \in DOMAIN values : values[i] <= v}
Below(values, v) == {i \in DOMAIN values : values[i] < v}

\* Counting the values up to and below a value.
LEMMA CountsAreNatural ==
    ASSUME NEW n \in Nat, NEW values \in [1 .. n -> Int], NEW v
    PROVE  /\ IsFiniteSet(AtMost(values, v)) /\ Cardinality(AtMost(values, v)) \in Nat
           /\ IsFiniteSet(Below(values, v)) /\ Cardinality(Below(values, v)) \in Nat
<1>1. IsFiniteSet(1 .. n) /\ AtMost(values, v) \in SUBSET (1 .. n) /\ Below(values, v) \in SUBSET (1 .. n)
    BY IntervalIsFinite DEF AtMost, Below
<1>2. IsFiniteSet(AtMost(values, v)) /\ IsFiniteSet(Below(values, v))
    BY <1>1, FS_Subset
<1> QED BY <1>2, FS_CardinalityType

\* Some index of a nonempty set of them carries the largest value.
LEMMA LargestValue ==
    ASSUME NEW n \in Nat, NEW values \in [1 .. n -> Int], NEW B, B \subseteq 1 .. n, B # {}
    PROVE  \E i \in B : \A j \in B : values[j] <= values[i]
<1> DEFINE Sizes == {n - Cardinality(AtMost(values, values[i])) : i \in B}
           C(i) == Cardinality(AtMost(values, values[i]))
<1>1. \A i \in B : IsFiniteSet(AtMost(values, values[i])) /\ C(i) \in Nat
    BY CountsAreNatural
<1>2. \A i \in B : C(i) <= n
    <2>1. IsFiniteSet(1 .. n) /\ Cardinality(1 .. n) = n
        BY FS_Interval
    <2>2. \A i \in B : AtMost(values, values[i]) \in SUBSET (1 .. n)
        BY DEF AtMost
    <2> QED BY <2>1, <2>2, FS_Subset
<1>3. PICK i \in B : \A j \in B : C(j) <= C(i)
    <2>1. Sizes \subseteq Nat /\ Sizes # {}
        <3>1. \A i \in B : n - C(i) \in Nat
            <4> HIDE DEF C
            <4> QED BY <1>1, <1>2
        <3>2. Sizes = {n - C(i) : i \in B}
            OBVIOUS
        <3> HIDE DEF C, Sizes
        <3> QED BY <3>1, <3>2
    <2>2. PICK least \in Sizes : \A m \in Sizes : least <= m
        <3> HIDE DEF Sizes
        <3> QED BY <2>1, LeastNumber
    <2>3. PICK i \in B : least = n - C(i)
        BY <2>2
    <2>4. \A j \in B : n - C(i) <= n - C(j)
        BY <2>2, <2>3
    <2> HIDE DEF C
    <2>5. \A j \in B : C(j) <= C(i)
        BY <1>1, <2>4
    <2> QED BY <2>5
<1>4. ASSUME NEW j \in B, values[j] > values[i] PROVE FALSE
    <2>1. values[i] \in Int /\ values[j] \in Int /\ i \in 1 .. n /\ j \in 1 .. n
        OBVIOUS
    <2>2. j \in AtMost(values, values[j]) /\ j \notin AtMost(values, values[i])
        BY <1>4, <2>1 DEF AtMost
    <2>3. AtMost(values, values[i]) \in SUBSET AtMost(values, values[j])
        BY <1>4, <2>1 DEF AtMost
    <2>4. C(i) <= C(j) /\ C(i) # C(j)
        BY <1>1, <2>2, <2>3, FS_Subset
    <2> HIDE DEF C
    <2> QED BY <1>1, <1>3, <2>4
<1>5. \A j \in B : values[j] \in Int
    OBVIOUS
<1> QED BY <1>4, <1>5

\* The k-th value has k values up to it, and fewer than k below it.
LEMMA SortedIsThere ==
    ASSUME NEW n \in Nat, NEW values \in [1 .. n -> Int], NEW k \in 1 .. n
    PROVE  /\ Sorted(values, k) \in Range(values) /\ Sorted(values, k) \in Int
           /\ Cardinality(Below(values, Sorted(values, k))) < k
           /\ Cardinality(AtMost(values, Sorted(values, k))) >= k
<1> DEFINE C(v) == Cardinality(AtMost(values, v))
           Good == {v \in Range(values) : C(v) >= k}
<1>1. Range(values) \subseteq Int /\ \A v \in Range(values) : \E i \in 1 .. n : values[i] = v
    BY DEF Range
<1>2. \A i \in 1 .. n : values[i] \in Range(values) /\ values[i] \in Int
    BY DEF Range
<1>3. \A v : C(v) \in Nat /\ Cardinality(Below(values, v)) \in Nat
    BY CountsAreNatural
<1>4. Good # {}
    <2>1. PICK i \in 1 .. n : \A j \in 1 .. n : values[j] <= values[i]
        BY LargestValue
    <2>2. AtMost(values, values[i]) = 1 .. n
        BY <2>1 DEF AtMost
    <2>3. Cardinality(1 .. n) = n
        BY FS_Interval
    <2> QED BY <1>2, <2>2, <2>3
<1>5. PICK v \in Good : \A w \in Good : C(v) <= C(w)
    <2> DEFINE Sizes == {C(w) : w \in Good}
    <2>1. Sizes \subseteq Nat /\ Sizes # {}
        BY <1>3, <1>4
    <2>2. Min(Sizes) \in Sizes /\ \A m \in Sizes : Min(Sizes) <= m
        <3> HIDE DEF Sizes
        <3> QED BY <2>1, LeastNumber
    <2> QED BY <2>2
<1>6. Cardinality(Below(values, v)) < k
    <2> SUFFICES ASSUME Cardinality(Below(values, v)) >= k PROVE FALSE
        BY <1>3
    <2>1. Below(values, v) # {}
        <3>1. Cardinality({}) = 0
            BY FS_EmptySet
        <3>2. ~ (0 >= k)
            OBVIOUS
        <3> QED BY <3>1, <3>2
    <2>2. Below(values, v) \subseteq 1 .. n
        BY DEF Below
    <2>3. PICK i \in Below(values, v) : \A j \in Below(values, v) : values[j] <= values[i]
        BY <2>1, <2>2, LargestValue
    <2>4. values[i] \in Int /\ v \in Int /\ values[i] < v /\ values[i] \in Range(values)
        BY <1>1, <1>2, <2>2 DEF Below
    <2>5. AtMost(values, values[i]) = Below(values, v)
        BY <1>2, <2>3, <2>4 DEF AtMost, Below
    <2>6. values[i] \in Good
        BY <2>4, <2>5
    <2>7. Below(values, v) \in SUBSET AtMost(values, v) /\ Below(values, v) # AtMost(values, v)
        <3>1. PICK l \in 1 .. n : values[l] = v
            BY <1>1
        <3>2. l \in AtMost(values, v) /\ l \notin Below(values, v)
            BY <2>4, <3>1 DEF AtMost, Below
        <3>3. Below(values, v) \in SUBSET AtMost(values, v)
            BY <1>2, <2>4 DEF AtMost, Below
        <3> QED BY <3>2, <3>3
    <2>8. Cardinality(Below(values, v)) <= C(v) /\ Cardinality(Below(values, v)) # C(v)
        BY <2>7, CountsAreNatural, FS_Subset
    <2>9. C(v) <= C(values[i])
        <3> HIDE DEF Good, C
        <3> QED BY <1>5, <2>6
    <2> QED BY <1>3, <2>5, <2>8, <2>9
<1>7. Sorted(values, k) \in Range(values) /\ Cardinality(Below(values, Sorted(values, k))) < k
      /\ C(Sorted(values, k)) >= k
    BY <1>5, <1>6 DEF Sorted, AtMost, Below
<1> QED BY <1>1, <1>7

\* Later values are no smaller.
LEMMA SortedAscends ==
    ASSUME NEW n \in Nat, NEW values \in [1 .. n -> Int], NEW k \in 1 .. n, k + 1 \in 1 .. n
    PROVE  Sorted(values, k) <= Sorted(values, k + 1)
<1> DEFINE u == Sorted(values, k)
           v == Sorted(values, k + 1)
<1>1. /\ u \in Int /\ Cardinality(Below(values, u)) < k
      /\ v \in Int /\ Cardinality(AtMost(values, v)) >= k + 1
    BY SortedIsThere
<1> HIDE DEF u, v
<1>2. ASSUME v < u PROVE FALSE
    <2>1. \A i \in 1 .. n : values[i] \in Int
        OBVIOUS
    <2>2. AtMost(values, v) \in SUBSET Below(values, u)
        BY <1>1, <1>2, <2>1 DEF AtMost, Below
    <2>3. Cardinality(AtMost(values, v)) <= Cardinality(Below(values, u))
        BY <2>2, CountsAreNatural, FS_Subset
    <2> QED BY <1>1, <2>3, CountsAreNatural
<1> QED BY <1>1, <1>2 DEF u, v

\* The share of the values that the quantile reaches is larger than the share asked for.
LEMMA QuantileReachesShare ==
    ASSUME NEW n \in Nat, n # 0, NEW values \in [1 .. n -> Int], Len(values) = n, NEW share \in 0 .. 100
    PROVE  /\ Quantile(values, share) \in Int
           /\ 100 * Cardinality(AtMost(values, Quantile(values, share))) > share * (n - 1)
<1> DEFINE rank == share * (n - 1)
           lower == rank \div 100 + 1
           step == Sorted(values, lower + 1) - Sorted(values, lower)
           Q == Quantile(values, share)
<1>1. rank \in Int /\ rank >= 0 /\ rank <= 100 * (n - 1)
    BY Products
<1>2. Q = IF lower = n THEN Sorted(values, lower)
          ELSE Sorted(values, lower) + ((rank % 100) * step) \div 100
    BY DEF Quantile
<1> HIDE DEF rank, Q
<1>3. lower \in 1 .. n /\ 100 * lower > rank /\ (rank % 100) \in Int /\ rank % 100 >= 0
    BY <1>1
<1>4. Sorted(values, lower) \in Int /\ Cardinality(AtMost(values, Sorted(values, lower))) >= lower
    BY <1>3, SortedIsThere
<1>5. Q \in Int /\ Q >= Sorted(values, lower)
    <2>1. CASE lower = n
        BY <1>2, <1>4, <2>1
    <2>2. CASE lower # n
        <3>1. lower + 1 \in 1 .. n
            BY <1>3, <2>2
        <3>2. Sorted(values, lower + 1) \in Int
            BY <3>1, SortedIsThere
        <3>3. Sorted(values, lower) <= Sorted(values, lower + 1)
            BY <1>3, <3>1, SortedAscends
        <3>4. step \in Int /\ step >= 0
            BY <1>4, <3>2, <3>3
        <3> HIDE DEF step, lower
        <3>5. (rank % 100) * step \in Int /\ (rank % 100) * step >= 0
            BY <1>3, <3>4, Products
        <3>6. \A x \in Int : x >= 0 => x \div 100 \in Int /\ x \div 100 >= 0
            OBVIOUS
        <3> QED BY <1>2, <1>4, <2>2, <3>5, <3>6
    <2> QED BY <2>1, <2>2
<1> HIDE DEF lower
<1>6. AtMost(values, Sorted(values, lower)) \in SUBSET AtMost(values, Q)
    <2>1. \A i \in 1 .. n : values[i] \in Int
        OBVIOUS
    <2> QED BY <1>4, <1>5, <2>1 DEF AtMost
<1>7. Cardinality(AtMost(values, Q)) >= lower /\ Cardinality(AtMost(values, Q)) \in Nat
    <2>1. Cardinality(AtMost(values, Sorted(values, lower))) <= Cardinality(AtMost(values, Q))
        BY <1>6, CountsAreNatural, FS_Subset
    <2>2. Cardinality(AtMost(values, Q)) \in Nat /\ Cardinality(AtMost(values, Sorted(values, lower))) \in Nat
        BY CountsAreNatural
    <2> QED BY <1>3, <1>4, <2>1, <2>2
<1>8. 100 * Cardinality(AtMost(values, Q)) > rank
    BY <1>1, <1>3, <1>7
<1> QED BY <1>5, <1>8 DEF rank, Q

--------------------------------------------------------------------------------
(* What a line is made of.                                                 *)

\* A forecast that is long enough for an article, and its sums.
Covered(a) ==
    /\ Planned(a) /\ ForecastRefusal(a) = "none"

\* The forecast and every scenario last as long as the protection period, and as the
\* days of a cover limit.
LEMMA HorizonIsCovered ==
    ASSUME NEW a, Covered(a)
    PROVE  /\ Lead(a) \in Nat /\ Horizon(a) \in Nat /\ Horizon(a) >= 1 /\ Lead(a) <= Horizon(a)
           /\ Horizon(a) <= Len(a.demand)
           /\ a.max_cover # NoCover => a.max_cover \in Nat /\ a.max_cover <= Len(a.demand)
           /\ a.method = "scenario_paths" =>
                 Len(a.paths) # 0 /\ \A k \in DOMAIN a.paths : Horizon(a) <= Len(a.paths[k])
<1>1. /\ a.delay \in Nat /\ a.lead \in Nat /\ Review(a) \in Positive /\ Len(a.demand) \in Nat
      /\ a.max_cover \in Positive \cup {NoCover}
    BY DEF Covered, Planned, Review
<1>2. /\ ~ (Len(a.demand) < Horizon(a))
      /\ a.method = "scenario_paths" =>
            a.paths # <<>> /\ \A k \in DOMAIN a.paths : ~ (Len(a.paths[k]) < Horizon(a))
      /\ a.max_cover # NoCover => ~ (Len(a.demand) < a.max_cover)
    BY DEF Covered, ForecastRefusal
<1>3. /\ Lead(a) \in Nat /\ Horizon(a) \in Nat /\ Horizon(a) >= 1 /\ Lead(a) <= Horizon(a)
    BY <1>1 DEF Lead, Horizon, Positive
<1>4. a.paths \in Seq(Seq(Nat)) /\ \A k \in DOMAIN a.paths : Len(a.paths[k]) \in Nat
    BY DEF Covered, Planned
<1>5. a.paths # <<>> => Len(a.paths) # 0
    BY <1>4
<1> QED BY <1>1, <1>2, <1>3, <1>4, <1>5 DEF Positive

\* The totals of the scenarios.
Totals(a) == [k \in DOMAIN a.paths |-> PathDemand(a.paths[k], Horizon(a))]

\* Mean demand and safety stock together serve the share of the scenarios that the
\* policy asks for, or exceed the mean by the deviation of a normal forecast.
LEMMA SafetyStockProtects ==
    ASSUME NEW a, Covered(a)
    PROVE  /\ SafetyStock(a) \in Nat /\ Demand(a, Horizon(a)) \in Nat
           /\ a.method = "iid_residual_normal" => SafetyStock(a) = a.deviation
           /\ a.method = "scenario_paths" =>
                 \A supply \in Int :
                    supply >= Demand(a, Horizon(a)) + SafetyStock(a) =>
                        100 * Cardinality({k \in DOMAIN a.paths : PathDemand(a.paths[k], Horizon(a)) <= supply})
                          > a.target * (Len(a.paths) - 1)
<1> DEFINE D == Demand(a, Horizon(a))
           n == Len(a.paths)
           Q == Quantile(Totals(a), a.target)
<1>1. D \in Nat
    <2>1. D = PathDemand(a.demand, Horizon(a))
        BY DEF Demand, PathDemand
    <2> QED BY <2>1, HorizonIsCovered, DemandIsWhole DEF Covered, Planned
<1>2. a.method \in {"scenario_paths", "iid_residual_normal"} /\ a.deviation \in Nat
    BY DEF Covered, Planned
<1>3. CASE a.method = "iid_residual_normal"
    BY <1>1, <1>2, <1>3 DEF SafetyStock
<1>4. CASE a.method = "scenario_paths"
    <2>1. n \in Nat /\ n # 0 /\ DOMAIN a.paths = 1 .. n
        <3>1. a.paths \in Seq(Seq(Nat))
            BY DEF Covered, Planned
        <3>2. Len(a.paths) # 0
            BY <1>4, HorizonIsCovered
        <3> QED BY <3>1, <3>2
    <2>2. \A k \in 1 .. n : PathDemand(a.paths[k], Horizon(a)) \in Int
        <3> SUFFICES ASSUME NEW k \in 1 .. n PROVE PathDemand(a.paths[k], Horizon(a)) \in Int
            OBVIOUS
        <3>1. a.paths[k] \in Seq(Nat)
            BY <2>1 DEF Covered, Planned
        <3>2. Horizon(a) <= Len(a.paths[k]) /\ Horizon(a) \in Nat
            BY <1>4, <2>1, HorizonIsCovered
        <3> QED BY <3>1, <3>2, DemandIsWhole
    <2>3. Totals(a) \in [1 .. n -> Int] /\ Len(Totals(a)) = n
        BY <2>1, <2>2 DEF Totals
    <2>4. a.target \in 0 .. 100
        BY DEF Covered, Planned
    <2>5. Q \in Int /\ 100 * Cardinality(AtMost(Totals(a), Q)) > a.target * (n - 1)
        BY <2>1, <2>3, <2>4, QuantileReachesShare
    <2>6. SafetyStock(a) = Larger(0, Q - D)
        BY <1>4 DEF SafetyStock, Totals
    <2> HIDE DEF D, Q, n
    <2>7. SafetyStock(a) \in Nat /\ D + SafetyStock(a) >= Q
        BY <1>1, <2>5, <2>6 DEF Larger
    <2>8. ASSUME NEW supply \in Int, supply >= D + SafetyStock(a)
          PROVE  100 * Cardinality(AtMost(Totals(a), supply)) > a.target * (n - 1)
        <3>1. AtMost(Totals(a), Q) \in SUBSET AtMost(Totals(a), supply)
            <4>1. \A i \in 1 .. n : Totals(a)[i] \in Int
                BY <2>3
            <4> QED BY <1>1, <2>3, <2>5, <2>7, <2>8, <4>1 DEF AtMost
        <3>2. Cardinality(AtMost(Totals(a), Q)) <= Cardinality(AtMost(Totals(a), supply))
            BY <2>1, <2>3, <3>1, CountsAreNatural, FS_Subset
        <3>3. Cardinality(AtMost(Totals(a), Q)) \in Nat /\ Cardinality(AtMost(Totals(a), supply)) \in Nat
            BY <2>1, <2>3, CountsAreNatural
        <3>4. a.target * (n - 1) \in Int
            <4>1. \A m \in 0 .. 100, l \in Nat : m \in Int /\ l - 1 \in Int
                OBVIOUS
            <4>2. a.target \in Int /\ n - 1 \in Int
                BY <2>1, <2>4, <4>1
            <4> QED BY <4>2, Products
        <3> QED BY <2>5, <3>2, <3>3, <3>4
    <2>9. \A supply : AtMost(Totals(a), supply)
                          = {k \in DOMAIN a.paths : PathDemand(a.paths[k], Horizon(a)) <= supply}
        BY DEF AtMost, Totals
    <2> QED BY <1>1, <1>4, <2>7, <2>8, <2>9 DEF D, n
<1> QED BY <1>2, <1>3, <1>4

\* The entries of a ledger.
Entries == {"demand", "safety_stock", "free_stock", "eligible_pipeline", "nonnegative_clip",
            "rounding", "max_cover", "budget"}

\* The entries of a ledger, one by one.
LEMMA LedgerSum ==
    ASSUME NEW f \in [Entries -> Int]
    PROVE  SumFunction(f) = f.demand + f.safety_stock + f.free_stock + f.eligible_pipeline
                              + f.nonnegative_clip + f.rounding + f.max_cover + f.budget
<1> DEFINE Sum(S) == SumFunctionOnSet(f, S)
           E1 == {"demand"}
           E2 == E1 \cup {"safety_stock"}
           E3 == E2 \cup {"free_stock"}
           E4 == E3 \cup {"eligible_pipeline"}
           E5 == E4 \cup {"nonnegative_clip"}
           E6 == E5 \cup {"rounding"}
           E7 == E6 \cup {"max_cover"}
           E8 == E7 \cup {"budget"}
<1>1. ASSUME NEW S, IsFiniteSet(S), S \subseteq Entries, NEW e \in Entries, e \notin S
      PROVE  IsFiniteSet(S \cup {e}) /\ S \cup {e} \subseteq Entries /\ Sum(S \cup {e}) = Sum(S) + f[e]
    <2>1. \A x \in S \cup {e} : f[x] \in Int
        BY <1>1
    <2> QED BY <1>1, <2>1, SumWith, FS_AddElement
<1> HIDE DEF Sum
<1>2. IsFiniteSet({}) /\ Sum({}) = 0
    BY SumOfNothing, FS_EmptySet DEF Sum
<1>3. E1 = {} \cup {"demand"}
    OBVIOUS
<1>4. IsFiniteSet(E1) /\ E1 \subseteq Entries /\ Sum(E1) = 0 + f.demand
    <2>1. "demand" \in Entries
        BY DEF Entries
    <2>2. \A e \in Entries : IsFiniteSet({} \cup {e}) /\ {} \cup {e} \subseteq Entries
                               /\ Sum({} \cup {e}) = Sum({}) + f[e]
        BY <1>1, <1>2
    <2> QED BY <1>2, <1>3, <2>1, <2>2
<1>5. IsFiniteSet(E2) /\ E2 \subseteq Entries /\ Sum(E2) = Sum(E1) + f.safety_stock
    <2>1. "safety_stock" \in Entries /\ "safety_stock" \notin E1
        BY DEF Entries
    <2> HIDE DEF E1
    <2> QED BY <1>1, <1>4, <2>1
<1>6. IsFiniteSet(E3) /\ E3 \subseteq Entries /\ Sum(E3) = Sum(E2) + f.free_stock
    <2>1. "free_stock" \in Entries /\ "free_stock" \notin E2
        BY DEF Entries
    <2> HIDE DEF E2
    <2> QED BY <1>1, <1>5, <2>1
<1>7. IsFiniteSet(E4) /\ E4 \subseteq Entries /\ Sum(E4) = Sum(E3) + f.eligible_pipeline
    <2>1. "eligible_pipeline" \in Entries /\ "eligible_pipeline" \notin E3
        BY DEF Entries
    <2> HIDE DEF E3
    <2> QED BY <1>1, <1>6, <2>1
<1>8. IsFiniteSet(E5) /\ E5 \subseteq Entries /\ Sum(E5) = Sum(E4) + f.nonnegative_clip
    <2>1. "nonnegative_clip" \in Entries /\ "nonnegative_clip" \notin E4
        BY DEF Entries
    <2> HIDE DEF E4
    <2> QED BY <1>1, <1>7, <2>1
<1>9. IsFiniteSet(E6) /\ E6 \subseteq Entries /\ Sum(E6) = Sum(E5) + f.rounding
    <2>1. "rounding" \in Entries /\ "rounding" \notin E5
        BY DEF Entries
    <2> HIDE DEF E5
    <2> QED BY <1>1, <1>8, <2>1
<1>10. IsFiniteSet(E7) /\ E7 \subseteq Entries /\ Sum(E7) = Sum(E6) + f.max_cover
    <2>1. "max_cover" \in Entries /\ "max_cover" \notin E6
        BY DEF Entries
    <2> HIDE DEF E6
    <2> QED BY <1>1, <1>9, <2>1
<1>11. Sum(E8) = Sum(E7) + f.budget
    <2>1. "budget" \in Entries /\ "budget" \notin E7
        BY DEF Entries
    <2> HIDE DEF E7
    <2> QED BY <1>1, <1>10, <2>1
<1>12. E8 = Entries
    BY DEF Entries
<1>13. \A e \in Entries : f[e] \in Int
    OBVIOUS
<1>14. /\ f.demand \in Int /\ f.safety_stock \in Int /\ f.free_stock \in Int /\ f.eligible_pipeline \in Int
       /\ f.nonnegative_clip \in Int /\ f.rounding \in Int /\ f.max_cover \in Int /\ f.budget \in Int
    BY <1>13 DEF Entries
<1>15. SumFunction(f) = Sum(Entries)
    BY DEF SumFunction, Sum
<1> HIDE DEF E1, E2, E3, E4, E5, E6, E7, E8
<1> QED BY <1>4, <1>5, <1>6, <1>7, <1>8, <1>9, <1>10, <1>11, <1>12, <1>14, <1>15

\* Receipts of some days, and what a cover limit leaves room for.
LEMMA PipelineIsWhole ==
    ASSUME NEW a, Planned(a), NEW days
    PROVE  Pipeline(a, days) \in Nat
PROOF BY ReceivedIsWhole DEF Pipeline, Expected, Planned

\* Demand and receipts of the days of a cover limit are natural numbers.
LEMMA CoverIsWhole ==
    ASSUME NEW a, Covered(a), a.max_cover # NoCover
    PROVE  Demand(a, a.max_cover) \in Nat /\ Pipeline(a, a.max_cover) \in Nat
<1>1. Demand(a, a.max_cover) = PathDemand(a.demand, a.max_cover)
    BY DEF Demand, PathDemand
<1>2. a.demand \in Seq(Nat) /\ a.max_cover \in Nat /\ a.max_cover <= Len(a.demand)
    BY HorizonIsCovered DEF Covered, Planned
<1> QED BY <1>1, <1>2, DemandIsWhole, PipelineIsWhole DEF Covered

\* base fits under the cover limit.
FitsCover(a, base) ==
    base # 0 => a.free + Pipeline(a, a.max_cover) + base <= Demand(a, a.max_cover)

\* The cover limit leaves the most that fits.
LEMMA CappedIsMost ==
    ASSUME NEW a, Covered(a), NEW candidate \in Nat, OnIncrement(a, candidate)
    PROVE  /\ Capped(a, candidate) \in Nat /\ Capped(a, candidate) <= candidate
           /\ OnIncrement(a, Capped(a, candidate))
           /\ a.max_cover # NoCover =>
                 /\ FitsCover(a, Capped(a, candidate))
                 /\ \A x \in Nat : OnIncrement(a, x) /\ x <= candidate /\ FitsCover(a, x)
                                       => x <= Capped(a, candidate)
<1>1. CASE a.max_cover = NoCover
    BY <1>1 DEF Capped
<1>2. CASE a.max_cover # NoCover
    <2> DEFINE D == Demand(a, a.max_cover)
               P == Pipeline(a, a.max_cover)
               limit == Larger(0, D - a.free - P)
               cut == Smaller(candidate, Floor(limit, Increment(a)))
               result == Capped(a, candidate)
    <2>1. D \in Nat /\ P \in Nat /\ a.free \in Int
        BY <1>2, CoverIsWhole DEF Covered, Planned
    <2>2. result = IF cut < a.moq * a.conversion THEN 0 ELSE cut
        BY <1>2 DEF Capped
    <2> HIDE DEF D, P, result
    <2>3. limit \in Nat /\ \A x \in Nat : x <= limit <=> (x # 0 => a.free + P + x <= D)
        BY <2>1 DEF Larger
    <2> HIDE DEF limit
    <2>4. /\ result \in Nat /\ result <= candidate /\ result <= limit /\ OnIncrement(a, result)
          /\ \A x \in Nat : OnIncrement(a, x) /\ x <= candidate /\ x <= limit => x <= result
        BY <2>2, <2>3, CutIsMost DEF Covered, Planned
    <2>5. \A x \in Nat : x <= limit <=> FitsCover(a, x)
        BY <2>3 DEF FitsCover, D, P
    <2> QED BY <2>4, <2>5 DEF result
<1> QED BY <1>1, <1>2

\* The quantities of a planned line and the ledger that explains them.
LEMMA LineIsRight ==
    ASSUME NEW a, Covered(a), NEW l, l = PlannedLine(a)
    PROVE  /\ l.raw \in Nat /\ l.before_cap = Rounded(a, l.raw)
           /\ l.before_budget = Capped(a, l.before_cap) /\ l.selected = l.before_budget
           /\ l.urgency \in {"critical", "soon", "routine"} /\ l.urgency = Urgency(a, Stockout(a))
           /\ l.stockout = Stockout(a)
           /\ l.ledger \in [Entries -> Int] /\ l.ledger.budget = 0
           /\ l.ledger.demand + l.ledger.safety_stock + l.ledger.free_stock + l.ledger.eligible_pipeline
                + l.ledger.nonnegative_clip + l.ledger.rounding + l.ledger.max_cover = l.before_budget
           /\ l.raw >= Demand(a, Horizon(a)) + SafetyStock(a) - a.free - Pipeline(a, Horizon(a))
<1> DEFINE D == Demand(a, Horizon(a))
           S == SafetyStock(a)
           P == Pipeline(a, Horizon(a))
           F == a.free
           net == D + S - F - P
           raw == Larger(0, net)
           rounded == Rounded(a, raw)
           capped == Capped(a, rounded)
           stockout == Stockout(a)
<1>1. D \in Nat /\ S \in Nat /\ P \in Nat /\ F \in Int
    BY SafetyStockProtects, PipelineIsWhole DEF Covered, Planned
<1>2. l = [raw |-> raw, before_cap |-> rounded, before_budget |-> capped, selected |-> capped,
           stockout |-> stockout, urgency |-> Urgency(a, stockout),
           ledger |-> [demand |-> D, safety_stock |-> S,
                       free_stock |-> 0 - F, eligible_pipeline |-> 0 - P,
                       nonnegative_clip |-> raw - net, rounding |-> rounded - raw,
                       max_cover |-> capped - rounded, budget |-> 0]]
    BY DEF PlannedLine
<1>3. Urgency(a, stockout) \in {"critical", "soon", "routine"}
    BY DEF Urgency
<1> HIDE DEF D, S, P, F, stockout
<1>4. net \in Int /\ raw \in Nat /\ raw >= net
    BY <1>1 DEF Larger
<1> HIDE DEF raw
<1>5. rounded \in Nat /\ OnIncrement(a, rounded)
    BY <1>4, RoundedIsLeast DEF Covered, Planned
<1>6. capped \in Nat
    BY <1>5, CappedIsMost
<1> HIDE DEF net, rounded, capped
<1>7. l.ledger \in [Entries -> Int]
    BY <1>1, <1>2, <1>4, <1>5, <1>6 DEF Entries
<1>8. /\ l.ledger.demand = D /\ l.ledger.safety_stock = S /\ l.ledger.free_stock = 0 - F
      /\ l.ledger.eligible_pipeline = 0 - P /\ l.ledger.nonnegative_clip = raw - net
      /\ l.ledger.rounding = rounded - raw /\ l.ledger.max_cover = capped - rounded /\ l.ledger.budget = 0
    BY <1>2
<1>9. D + S + (0 - F) + (0 - P) + (raw - net) + (rounded - raw) + (capped - rounded) = capped
    BY <1>1, <1>4, <1>5, <1>6 DEF net
<1>10. /\ l.raw = raw /\ l.before_cap = rounded /\ l.before_budget = capped /\ l.selected = capped
       /\ l.urgency = Urgency(a, stockout) /\ l.stockout = stockout
    BY <1>2
<1> QED BY <1>3, <1>4, <1>7, <1>8, <1>9, <1>10 DEF net, rounded, capped, D, S, P, F, stockout

\* How much of something the money pays for.
LEMMA MoneyPaysFor ==
    ASSUME NEW money \in Nat, NEW cost \in Positive
    PROVE  /\ money \div cost \in Nat
           /\ \A x \in Nat : x * cost <= money <=> x <= money \div cost
<1> DEFINE q == money \div cost
<1>1. /\ q * cost \in Nat /\ q * cost <= money
      /\ \A x \in Int : Multiple(x, cost) /\ x <= money => x <= q * cost
    BY FloorIsMost DEF Floor
<1>2. q \in Int /\ cost \in Int /\ cost > 0
    BY Division DEF Positive
<1> HIDE DEF q
<1>3. q >= 0
    <2> SUFFICES ASSUME q <= -1 PROVE FALSE
        BY <1>2
    <2>1. q * cost <= (-1) * cost
        BY <1>2, Products
    <2> QED BY <1>1, <1>2, <2>1
<1>4. ASSUME NEW x \in Nat, x * cost <= money PROVE x <= q
    <2>1. x * cost \in Int /\ Multiple(x * cost, cost)
        BY <1>2, Products DEF Multiple
    <2>2. x * cost <= q * cost
        BY <1>1, <1>4, <2>1
    <2>3. ASSUME x >= q + 1 PROVE FALSE
        <3>1. (q + 1) * cost <= x * cost
            BY <1>2, <2>3, Products
        <3>2. (q + 1) * cost = q * cost + cost
            BY <1>2, Products
        <3> QED BY <1>1, <1>2, <2>1, <2>2, <3>1, <3>2
    <2> QED BY <1>2, <2>3
<1>5. ASSUME NEW x \in Nat, x <= q PROVE x * cost <= money
    <2>1. x * cost <= q * cost /\ x * cost \in Int
        BY <1>2, <1>5, Products
    <2> QED BY <1>1, <2>1
<1> QED BY <1>2, <1>3, <1>4, <1>5 DEF q

--------------------------------------------------------------------------------
(* The inductive invariant.                                                *)

\* The input is what the contracts allow.
Given == policy \in PlanningPolicy /\ article \in [Series -> Article]

\* What each line keeps of its plan, however the budget cuts it.
LineIsPlanned(s) ==
    LET plan == PlannedLine(Facts(s))
    IN  /\ ~ Blocked(article[s]) /\ ForecastRefusal(Facts(s)) = "none" /\ article[s].forecast
        /\ line[s].raw = plan.raw /\ line[s].before_cap = plan.before_cap
        /\ line[s].before_budget = plan.before_budget
        /\ line[s].stockout = plan.stockout /\ line[s].urgency = plan.urgency
        /\ line[s].selected \in Nat /\ line[s].selected <= line[s].before_budget
        /\ OnIncrement(Facts(s), line[s].selected)
        /\ line[s].ledger = [plan.ledger EXCEPT !.budget = line[s].selected - line[s].before_budget]
        /\ s \notin allocated => line[s] = plan

\* The invariant: nothing but planned lines, in a run that refuses none of its own.
Lines ==
    /\ Given
    /\ stage \in {"reading", "planning", "allocating", "grouping", "published", "refused"}
    /\ refusal \in {"none", "DUPLICATE_PIPELINE", "HORIZON_TOO_SHORT", "INVALID_UNCERTAINTY",
                    "UNSUPPORTED_BUDGET"}
    /\ refusal # "none" <=> stage = "refused"
    /\ candidates \subseteq Series /\ allocated \subseteq candidates
    /\ excluded \subseteq Series \ candidates
    /\ DOMAIN line = Series
    /\ stage = "reading" => candidates = {}
    /\ stage \in {"reading", "planning"} => allocated = {}
    /\ \A s \in candidates : LineIsPlanned(s)

\* No step changes what was read.
LEMMA InputIsKept ==
    ASSUME [Next]_vars
    PROVE  policy' = policy /\ article' = article
<1>1. CASE UNCHANGED vars
    BY <1>1 DEF vars
<1>2. CASE Next
    <2>1. \A code : Refuse(code) => policy' = policy /\ article' = article
        BY DEF Refuse
    <2>2. CASE Read
        BY <2>1, <2>2 DEF Read
    <2>3. ASSUME NEW s \in Series, Plan(s) PROVE policy' = policy /\ article' = article
        BY <2>1, <2>3 DEF Plan, Exclude, RefuseArticle, AddLine
    <2>4. ASSUME NEW s \in Series, Allocate(s) PROVE policy' = policy /\ article' = article
        BY <2>1, <2>4 DEF Allocate
    <2>5. CASE StartAllocation
        BY <2>1, <2>5 DEF StartAllocation
    <2>6. CASE FinishAllocation \/ Publish
        BY <2>6 DEF FinishAllocation, Publish
    <2> QED BY <1>2, <2>2, <2>3, <2>4, <2>5, <2>6 DEF Next
<1> QED BY <1>1, <1>2

\* While the input stays the same, so do the facts of each article.
LEMMA FactsAreKept ==
    ASSUME policy' = policy, article' = article
    PROVE  /\ \A s : Facts(s)' = Facts(s)
           /\ Given => Given'
PROOF BY DEF Facts, Given

\* An article with a line is planned with a forecast that covers it.
LEMMA LineIsCovered ==
    ASSUME Given, NEW s \in Series, ~ Blocked(article[s]), ForecastRefusal(Facts(s)) = "none"
    PROVE  Covered(Facts(s))
PROOF BY FactsAreTheNewest DEF Given, Covered

\* No line, nothing to say of lines.
LEMMA InitIsPlanned == Init => Lines
<1> SUFFICES ASSUME Init PROVE Lines
    OBVIOUS
<1>1. Given
    BY ContractAssumption DEF Init, Given
<1> QED BY <1>1 DEF Init, Lines

\* A refusal leaves the lines alone.
LEMMA RefuseIsPlanned ==
    ASSUME Lines, stage \notin {"published", "refused"}, NEW code,
           code \in {"DUPLICATE_PIPELINE", "HORIZON_TOO_SHORT", "INVALID_UNCERTAINTY", "UNSUPPORTED_BUDGET"},
           Refuse(code)
    PROVE  Lines'
<1>1. /\ policy' = policy /\ article' = article /\ line' = line /\ candidates' = candidates
      /\ allocated' = allocated /\ excluded' = excluded /\ stage' = "refused" /\ refusal' = code
    BY DEF Refuse
<1>2. Given' /\ \A s : Facts(s)' = Facts(s)
    BY <1>1, FactsAreKept DEF Lines
<1>3. \A s \in candidates : LineIsPlanned(s)'
    BY <1>1, <1>2 DEF Lines, LineIsPlanned
<1> QED BY <1>1, <1>2, <1>3 DEF Lines

\* A new line is what the calculation says, in quantities the supplier accepts.
LEMMA AddedLineIsPlanned ==
    ASSUME Lines, NEW s \in Series, Plan(s), AddLine(s)
    PROVE  Lines'
<1> DEFINE a == Facts(s)
           plan == PlannedLine(a)
<1>1. /\ stage = "planning" /\ s \notin candidates /\ s \notin excluded /\ article[s].forecast
      /\ allocated = {}
    BY DEF Plan, Unplanned, Lines
<1>2. Covered(a) /\ ~ Blocked(article[s]) /\ ForecastRefusal(a) = "none"
    BY LineIsCovered DEF AddLine, Lines
<1>3. /\ plan.raw \in Nat /\ plan.before_cap = Rounded(a, plan.raw)
      /\ plan.before_budget = Capped(a, plan.before_cap) /\ plan.selected = plan.before_budget
      /\ plan.ledger \in [Entries -> Int] /\ plan.ledger.budget = 0
    BY <1>2, LineIsRight
<1>4. Orders(a)
    BY <1>2 DEF Covered, Planned
<1>5. plan.before_cap \in Nat /\ OnIncrement(a, plan.before_cap)
    BY <1>3, <1>4, RoundedIsLeast
<1>6. plan.selected \in Nat /\ OnIncrement(a, plan.selected)
    BY <1>2, <1>3, <1>5, CappedIsMost
<1>7. ValidBase(a, plan.selected)
    BY <1>4, <1>6, ValidBaseIsOnIncrement
<1> HIDE DEF plan, a
<1>8. /\ candidates' = candidates \cup {s} /\ line' = [line EXCEPT ![s] = plan]
      /\ UNCHANGED <<article, policy, stage, refusal, excluded, remaining, allocated, orders>>
    BY <1>7 DEF AddLine, a, plan
<1>9. Given' /\ \A t : Facts(t)' = Facts(t)
    BY <1>8, FactsAreKept DEF Lines
<1>10. ASSUME NEW t \in candidates PROVE LineIsPlanned(t)'
    <2>1. line'[t] = line[t]
        BY <1>1, <1>8 DEF Lines
    <2>2. LineIsPlanned(t)
        BY DEF Lines
    <2>3. article' = article /\ allocated' = allocated /\ Facts(t)' = Facts(t)
        BY <1>8, <1>9
    <2> QED BY <2>1, <2>2, <2>3 DEF LineIsPlanned
<1>11. LineIsPlanned(s)'
    <2>1. line'[s] = plan /\ Facts(s)' = a /\ article' = article /\ s \notin allocated'
        BY <1>1, <1>8, <1>9 DEF Lines, a
    <2>2. plan.ledger = [plan.ledger EXCEPT !.budget = plan.selected - plan.before_budget]
        <3>1. plan.selected - plan.before_budget = 0
            BY <1>3, <1>6
        <3>2. [plan.ledger EXCEPT !.budget = 0] = plan.ledger
            BY <1>3 DEF Entries
        <3> QED BY <3>1, <3>2
    <2>3. plan.selected <= plan.before_budget
        BY <1>3, <1>6
    <2> QED BY <1>1, <1>2, <1>6, <2>1, <2>2, <2>3 DEF LineIsPlanned, plan
<1> QED BY <1>1, <1>8, <1>9, <1>10, <1>11 DEF Lines

\* What is known of the line of a candidate.
LEMMA LineFacts ==
    ASSUME Lines, NEW s \in candidates
    PROVE  LET a == Facts(s)
               plan == PlannedLine(a)
           IN  /\ s \in Series /\ Covered(a) /\ Planned(a) /\ Orders(a)
               /\ line[s].raw = plan.raw /\ line[s].raw \in Nat
               /\ line[s].before_cap = Rounded(a, line[s].raw) /\ line[s].before_cap \in Nat
               /\ OnIncrement(a, line[s].before_cap)
               /\ line[s].before_budget = Capped(a, line[s].before_cap)
               /\ line[s].before_budget \in Nat /\ OnIncrement(a, line[s].before_budget)
               /\ line[s].selected \in Nat /\ line[s].selected <= line[s].before_budget
               /\ OnIncrement(a, line[s].selected)
               /\ line[s].urgency = Urgency(a, Stockout(a))
               /\ line[s].urgency \in {"critical", "soon", "routine"}
               /\ s \notin allocated => line[s].selected = line[s].before_budget
<1> DEFINE a == Facts(s)
           plan == PlannedLine(a)
<1>1. s \in Series /\ LineIsPlanned(s) /\ Given
    BY DEF Lines
<1>2. Covered(a)
    BY <1>1, LineIsCovered DEF LineIsPlanned
<1>3. Planned(a) /\ Orders(a)
    BY <1>2 DEF Covered, Planned
<1>4. /\ plan.raw \in Nat /\ plan.before_cap = Rounded(a, plan.raw)
      /\ plan.before_budget = Capped(a, plan.before_cap) /\ plan.selected = plan.before_budget
      /\ plan.urgency = Urgency(a, Stockout(a)) /\ plan.urgency \in {"critical", "soon", "routine"}
    BY <1>2, LineIsRight
<1>5. plan.before_cap \in Nat /\ OnIncrement(a, plan.before_cap)
    BY <1>3, <1>4, RoundedIsLeast
<1>6. plan.before_budget \in Nat /\ OnIncrement(a, plan.before_budget)
    BY <1>2, <1>4, <1>5, CappedIsMost
<1>7. /\ line[s].raw = plan.raw /\ line[s].before_cap = plan.before_cap
      /\ line[s].before_budget = plan.before_budget /\ line[s].urgency = plan.urgency
      /\ line[s].selected \in Nat /\ line[s].selected <= line[s].before_budget
      /\ OnIncrement(a, line[s].selected)
      /\ s \notin allocated => line[s] = plan
    BY <1>1 DEF LineIsPlanned
<1> HIDE DEF a, plan
<1> QED BY <1>1, <1>2, <1>3, <1>4, <1>5, <1>6, <1>7 DEF a, plan

--------------------------------------------------------------------------------
(* The budget round.                                                       *)

Allocation == {"allocating", "grouping", "published"}

\* The money left is the budget without what the served lines cost.
Money ==
    /\ stage = "allocating" => policy.budget # NoBudget
    /\ policy.budget # NoBudget /\ stage \in Allocation =>
          /\ policy.budget \in Nat /\ remaining \in Nat
          /\ \A s \in candidates : Facts(s).cost \in Nat
          /\ Spent(allocated) + remaining = policy.budget
          /\ stage # "allocating" => allocated = candidates

\* Funding a line takes the most on its increment that the money left pays for.
LEMMA FundedIsMost ==
    ASSUME Lines, Money, stage = "allocating", NEW s \in candidates, s \notin allocated
    PROVE  /\ Funded(s) \in Nat /\ Funded(s) <= line[s].before_budget
           /\ OnIncrement(Facts(s), Funded(s)) /\ Cost(s, Funded(s)) <= remaining
           /\ \A x \in Nat : OnIncrement(Facts(s), x) /\ x <= line[s].before_budget
                                 /\ Cost(s, x) <= remaining => x <= Funded(s)
<1> DEFINE a == Facts(s)
           c == a.cost
           bb == line[s].before_budget
           limit == IF c = 0 THEN bb ELSE remaining \div c
           cut == Smaller(bb, Floor(limit, Increment(a)))
           result == IF cut < a.moq * a.conversion THEN 0 ELSE cut
<1>1. c \in Nat /\ remaining \in Nat
    BY DEF Money, Allocation
<1>2. bb \in Nat /\ OnIncrement(a, bb) /\ Orders(a)
    BY LineFacts
<1>3. Cost(s, 0) = 0 /\ \A x \in Nat : Cost(s, x) = x * c
    BY <1>1 DEF Cost
<1>4. limit \in Nat /\ \A x \in Nat : x <= bb => (Cost(s, x) <= remaining <=> x <= limit)
    <2>1. CASE c = 0
        <3>1. \A x \in Nat : x * 0 = 0
            OBVIOUS
        <3> HIDE DEF bb, c
        <3> QED BY <1>1, <1>2, <1>3, <2>1, <3>1
    <2>2. CASE c # 0
        <3>1. c \in Positive
            BY <1>1, <2>2 DEF Positive
        <3>2. remaining \div c \in Nat /\ \A x \in Nat : x * c <= remaining <=> x <= remaining \div c
            BY <1>1, <3>1, MoneyPaysFor
        <3> HIDE DEF bb, c
        <3> QED BY <1>3, <2>2, <3>2
    <2> QED BY <2>1, <2>2
<1> HIDE DEF limit
<1>5. /\ result \in Nat /\ result <= bb /\ result <= limit /\ OnIncrement(a, result)
      /\ \A x \in Nat : OnIncrement(a, x) /\ x <= bb /\ x <= limit => x <= result
    <2> HIDE DEF a, bb
    <2> QED BY <1>2, <1>4, CutIsMost
<1>6. Funded(s) = result
    <2>1. CASE c # 0
        BY <2>1 DEF Funded, Affordable, limit
    <2>2. CASE c = 0
        <3>1. Affordable(s) = bb /\ limit = bb
            BY <2>2 DEF Affordable, limit
        <3>2. bb <= Floor(bb, Increment(a)) /\ Floor(bb, Increment(a)) <= bb /\ Floor(bb, Increment(a)) \in Nat
            <4>1. Increment(a) \in Positive
                BY <1>2, IncrementDivides
            <4>2. Multiple(bb, Increment(a))
                BY <1>2 DEF OnIncrement
            <4> HIDE DEF a, bb
            <4> QED BY <1>2, <4>1, <4>2, FloorIsMost
        <3>3. Floor(bb, Increment(a)) = bb
            <4> HIDE DEF bb
            <4> QED BY <1>2, <3>2
        <3>4. cut = Smaller(bb, bb)
            BY <3>1, <3>3
        <3> QED BY <3>1, <3>4 DEF Funded
    <2> QED BY <2>1, <2>2
<1> HIDE DEF result
<1>7. Funded(s) <= bb /\ Funded(s) \in Nat /\ Cost(s, Funded(s)) <= remaining
    BY <1>4, <1>5, <1>6
<1> QED BY <1>4, <1>5, <1>6, <1>7

\* What each line costs.
Costs == [s \in candidates |-> Cost(s, line[s].selected)]

\* What some lines cost is the sum of what each costs.
LEMMA SpentIsASum == \A S : Spent(S) = SumFunctionOnSet(Costs, S)
PROOF BY DEF Spent, Costs

\* Under a budget every cost is a natural number, and so is what some lines cost.
LEMMA SpentIsWhole ==
    ASSUME Lines, Money, policy.budget # NoBudget, stage \in Allocation
    PROVE  /\ IsFiniteSet(candidates)
           /\ \A s \in candidates : Costs[s] \in Nat /\ Costs[s] = Cost(s, line[s].selected)
           /\ \A S \in SUBSET candidates : IsFiniteSet(S) /\ Spent(S) \in Int /\ Spent(S) >= 0
<1>1. IsFiniteSet(candidates)
    BY SeriesAssumption, FS_Subset DEF Lines
<1>2. ASSUME NEW s \in candidates PROVE Costs[s] \in Nat /\ Costs[s] = Cost(s, line[s].selected)
    <2>1. Facts(s).cost \in Nat /\ line[s].selected \in Nat
        BY LineFacts DEF Money
    <2>2. \A x, y \in Nat : x * y \in Nat
        BY Products
    <2>3. line[s].selected * Facts(s).cost \in Nat
        BY <2>1, <2>2
    <2> QED BY <2>3 DEF Costs, Cost
<1>3. ASSUME NEW S \in SUBSET candidates PROVE IsFiniteSet(S) /\ Spent(S) \in Int /\ Spent(S) >= 0
    <2>1. IsFiniteSet(S)
        BY <1>1, FS_Subset
    <2>2. \A x \in S : Costs[x] \in Int /\ Costs[x] >= 0
        BY <1>2
    <2> QED BY <2>1, <2>2, SumIsWhole, SpentIsASum
<1> QED BY <1>1, <1>2, <1>3

\* Funding a line is never refused and keeps the rest of it.
LEMMA FundedLineIsPlanned ==
    ASSUME Lines, Money, NEW s \in Series, Allocate(s)
    PROVE  /\ Lines' /\ stage = "allocating" /\ stage' = stage /\ s \in candidates \ allocated
           /\ candidates' = candidates /\ allocated' = allocated \cup {s}
           /\ remaining' = remaining - Cost(s, Funded(s))
           /\ policy' = policy /\ \A t : Facts(t)' = Facts(t)
           /\ line'[s].selected = Funded(s)
           /\ \A t \in candidates : /\ line'[t].urgency = line[t].urgency
                                    /\ line'[t].before_budget = line[t].before_budget
                                    /\ t # s => line'[t] = line[t]
<1> DEFINE a == Facts(s)
           plan == PlannedLine(a)
           new == FundedLine(s, Funded(s))
<1>1. stage = "allocating" /\ s \in candidates /\ s \notin allocated
    BY DEF Allocate
<1>2. Funded(s) \in Nat /\ Funded(s) <= line[s].before_budget /\ OnIncrement(a, Funded(s))
    BY <1>1, FundedIsMost
<1>3. Orders(a)
    BY <1>1, LineFacts
<1>4. ValidBase(a, Funded(s))
    BY <1>2, <1>3, ValidBaseIsOnIncrement
<1>5. /\ line' = [line EXCEPT ![s] = new] /\ remaining' = remaining - Cost(s, Funded(s))
      /\ allocated' = allocated \cup {s}
      /\ UNCHANGED <<article, policy, stage, refusal, candidates, excluded, orders>>
    BY <1>4 DEF Allocate
<1>6. Given' /\ \A t : Facts(t)' = Facts(t)
    BY <1>5, FactsAreKept DEF Lines
<1>7. /\ LineIsPlanned(s) /\ line[s] = plan
    BY <1>1 DEF Lines, LineIsPlanned
<1>8. /\ new.raw = plan.raw /\ new.before_cap = plan.before_cap /\ new.before_budget = plan.before_budget
      /\ new.stockout = plan.stockout /\ new.urgency = plan.urgency /\ new.selected = Funded(s)
      /\ new.ledger = [plan.ledger EXCEPT !.budget = Funded(s) - plan.before_budget]
    BY <1>7 DEF FundedLine, PlannedLine
<1> HIDE DEF new, plan
<1>9. line'[s] = new /\ \A t \in candidates : t # s => line'[t] = line[t]
    BY <1>1, <1>5 DEF Lines
<1>10. LineIsPlanned(s)'
    <2>1. Facts(s)' = a /\ article' = article /\ s \in allocated'
        BY <1>5, <1>6
    <2> QED BY <1>2, <1>7, <1>8, <1>9, <2>1 DEF LineIsPlanned, plan
<1>11. ASSUME NEW t \in candidates, t # s PROVE LineIsPlanned(t)'
    <2>1. LineIsPlanned(t) /\ line'[t] = line[t]
        BY <1>9, <1>11 DEF Lines
    <2>2. Facts(t)' = Facts(t) /\ article' = article /\ (t \notin allocated' => t \notin allocated)
        BY <1>5, <1>6
    <2> QED BY <2>1, <2>2 DEF LineIsPlanned
<1>12. Lines'
    BY <1>1, <1>5, <1>6, <1>10, <1>11 DEF Lines
<1> QED BY <1>1, <1>5, <1>6, <1>7, <1>8, <1>9, <1>12

\* ... and moves what it costs from the money left to the money spent.
LEMMA FundingSpends ==
    ASSUME Lines, Money, NEW s \in Series, Allocate(s)
    PROVE  /\ Money'
           /\ \A t \in candidates : Costs'[t] \in Nat /\ (t # s => Costs'[t] = Costs[t])
           /\ Spent(allocated)' = Spent(allocated) + Cost(s, Funded(s))
<1>1. /\ Lines' /\ stage = "allocating" /\ stage' = stage /\ s \in candidates /\ s \notin allocated
      /\ candidates' = candidates /\ allocated' = allocated \cup {s}
      /\ remaining' = remaining - Cost(s, Funded(s))
      /\ policy' = policy /\ \A t : Facts(t)' = Facts(t)
      /\ line'[s].selected = Funded(s) /\ \A t \in candidates : t # s => line'[t] = line[t]
    BY FundedLineIsPlanned
<1>2. /\ policy.budget # NoBudget /\ policy.budget \in Nat /\ remaining \in Nat
      /\ Spent(allocated) + remaining = policy.budget
      /\ \A t \in candidates : Facts(t).cost \in Nat
      /\ stage \in Allocation
    BY <1>1 DEF Money, Allocation
<1>3. \A t, base : Cost(t, base)' = base' * Facts(t)'.cost
    BY DEF Cost
<1>4. Costs' = [t \in candidates |-> line'[t].selected * Facts(t).cost]
    BY <1>1 DEF Costs, Cost
<1>5. Costs = [t \in candidates |-> line[t].selected * Facts(t).cost]
    BY DEF Costs, Cost
<1>6. Costs'[s] = Cost(s, Funded(s)) /\ \A t \in candidates : t # s => Costs'[t] = Costs[t]
    BY <1>1, <1>4, <1>5 DEF Cost
<1>7. Funded(s) \in Nat /\ Cost(s, Funded(s)) <= remaining
    BY <1>1, FundedIsMost
<1>8. Cost(s, Funded(s)) \in Nat
    <2>1. Facts(s).cost \in Int /\ Facts(s).cost >= 0
        BY <1>1, <1>2
    <2>2. Funded(s) * Facts(s).cost \in Int /\ Funded(s) * Facts(s).cost >= 0
        BY <1>7, <2>1, Products
    <2> QED BY <2>2 DEF Cost
<1>9. allocated \subseteq candidates /\ IsFiniteSet(allocated) /\ Spent(allocated) \in Int
      /\ \A t \in allocated : Costs[t] \in Int
    BY <1>2, SpentIsWhole DEF Lines
<1>10. SumFunctionOnSet(Costs', allocated \cup {s}) = SumFunctionOnSet(Costs', allocated) + Costs'[s]
    <2>1. PICK new : new = Costs'
        OBVIOUS
    <2>2. \A t \in allocated \cup {s} : new[t] \in Int
        BY <1>1, <1>6, <1>8, <1>9, <2>1
    <2>3. SumFunctionOnSet(new, allocated \cup {s}) = SumFunctionOnSet(new, allocated) + new[s]
        <3>1. s \notin allocated
            BY <1>1
        <3>2. IsFiniteSet(allocated)
            BY <1>9
        <3> QED BY <2>2, <3>1, <3>2, SumWith
    <2> QED BY <2>1, <2>3
<1>11. SumFunctionOnSet(Costs', allocated) = SumFunctionOnSet(Costs, allocated)
    <2>1. \A t \in allocated : Costs'[t] = Costs[t] /\ Costs'[t] \in Int
        BY <1>1, <1>6, <1>9
    <2> QED BY <1>9, <2>1, SumsAgree
<1>12. Spent(allocated)' = SumFunctionOnSet(Costs', allocated')
    BY DEF Spent, Costs
<1>13. Spent(allocated)' = Spent(allocated) + Cost(s, Funded(s))
    BY <1>1, <1>6, <1>10, <1>11, <1>12, SpentIsASum
<1>14. Spent(allocated)' + remaining' = policy.budget /\ remaining' \in Nat
    BY <1>1, <1>2, <1>7, <1>8, <1>9, <1>13
<1>15. \A t \in candidates' : Facts(t)'.cost \in Nat
    BY <1>1, <1>2
<1>16. \A t \in candidates : Costs'[t] \in Nat
    BY <1>1, <1>2, <1>6, <1>8, SpentIsWhole
<1> QED BY <1>1, <1>2, <1>6, <1>13, <1>14, <1>15, <1>16 DEF Money

\* A step that leaves the money, the lines and the budget alone keeps the account.
LEMMA MoneyIsKept ==
    ASSUME Money, policy' = policy, article' = article, candidates' = candidates, line' = line,
           remaining' = remaining, allocated' = allocated,
           stage' = stage \/ stage' = "refused"
               \/ (stage = "allocating" /\ stage' = "grouping" /\ allocated = candidates)
               \/ (stage = "grouping" /\ stage' = "published")
    PROVE  Money'
<1>1. Spent(allocated)' = Spent(allocated) /\ \A s : Facts(s)' = Facts(s)
    BY DEF Spent, Cost, Facts
<1> QED BY <1>1 DEF Money, Allocation

\* The budget is put on the table when every line has a price.
LEMMA StartIsPlanned ==
    ASSUME Lines, StartAllocation
    PROVE  Lines' /\ Money'
<1>1. stage = "planning" /\ Unplanned = {} /\ allocated = {} /\ refusal = "none"
    BY DEF StartAllocation, Lines
<1>2. CASE policy.budget = NoBudget
    <2>1. /\ stage' = "grouping"
          /\ UNCHANGED <<article, policy, refusal, candidates, line, excluded, remaining, allocated, orders>>
        BY <1>2 DEF StartAllocation
    <2>2. Given' /\ \A t : Facts(t)' = Facts(t)
        BY <2>1, FactsAreKept DEF Lines
    <2>3. \A s \in candidates : LineIsPlanned(s)'
        BY <2>1, <2>2 DEF Lines, LineIsPlanned
    <2>4. Lines'
        BY <1>1, <2>1, <2>2, <2>3 DEF Lines
    <2> QED BY <1>2, <2>1, <2>4 DEF Money
<1>3. CASE policy.budget # NoBudget /\ BudgetAvailable
              /\ \A s \in candidates : GroupOf[s].currency = policy.currency
    <2>1. /\ stage' = "allocating" /\ remaining' = policy.budget
          /\ UNCHANGED <<article, policy, refusal, candidates, line, excluded, allocated, orders>>
        BY <1>3 DEF StartAllocation
    <2>2. Given' /\ \A t : Facts(t)' = Facts(t)
        BY <2>1, FactsAreKept DEF Lines
    <2>3. \A s \in candidates : LineIsPlanned(s)'
        BY <2>1, <2>2 DEF Lines, LineIsPlanned
    <2>4. Lines'
        BY <1>1, <2>1, <2>2, <2>3 DEF Lines
    <2>5. policy.budget \in Nat
        BY <1>3 DEF Lines, Given, PlanningPolicy
    <2>6. \A s \in candidates : Facts(s).cost \in Nat
        BY <1>3, LineFacts DEF BudgetAvailable, Planned
    <2>7. Spent(allocated)' = 0
        BY <1>1, <2>1, SumOfNothing DEF Spent
    <2> QED BY <1>3, <2>1, <2>2, <2>4, <2>5, <2>6, <2>7 DEF Money
<1>4. CASE Refuse("UNSUPPORTED_BUDGET")
    <2>1. stage' = "refused"
        BY <1>4 DEF Refuse
    <2> QED BY <1>1, <1>4, <2>1, RefuseIsPlanned DEF Money, Allocation
<1> QED BY <1>2, <1>3, <1>4 DEF StartAllocation

\* One series is planned: left out, a reason to refuse the run, or a line.
LEMMA PlanIsPlanned ==
    ASSUME Lines, NEW s \in Series, Plan(s)
    PROVE  Lines' /\ Money'
<1>1. stage = "planning" /\ s \notin candidates /\ s \notin excluded
    BY DEF Plan, Unplanned
<1>2. CASE Exclude(s)
    <2>1. /\ excluded' = excluded \cup {s}
          /\ UNCHANGED <<article, policy, stage, refusal, candidates, line, remaining, allocated, orders>>
        BY <1>2 DEF Exclude
    <2>2. Given' /\ \A t : Facts(t)' = Facts(t)
        BY <2>1, FactsAreKept DEF Lines
    <2>3. \A t \in candidates : LineIsPlanned(t)'
        BY <2>1, <2>2 DEF Lines, LineIsPlanned
    <2>4. Lines'
        BY <1>1, <2>1, <2>2, <2>3 DEF Lines
    <2> QED BY <1>1, <2>1, <2>4 DEF Money, Allocation
<1>3. CASE RefuseArticle(s)
    <2>1. ForecastRefusal(Facts(s)) \in {"HORIZON_TOO_SHORT", "INVALID_UNCERTAINTY"}
        BY <1>3 DEF RefuseArticle, ForecastRefusal
    <2>2. Refuse(ForecastRefusal(Facts(s))) /\ stage' = "refused"
        BY <1>3 DEF RefuseArticle, Refuse
    <2> QED BY <1>1, <2>1, <2>2, RefuseIsPlanned DEF Money, Allocation
<1>4. CASE AddLine(s)
    <2>1. Lines'
        BY <1>4, AddedLineIsPlanned
    <2>2. stage' \in {"planning", "refused"}
        BY <1>1, <1>4 DEF AddLine, Refuse
    <2> QED BY <2>1, <2>2 DEF Money, Allocation
<1> QED BY <1>2, <1>3, <1>4 DEF Plan

\* Publishing adds the stock that no forecast mentions to the exclusions.
LEMMA PublishIsPlanned ==
    ASSUME Lines, Money, Publish
    PROVE  Lines' /\ Money'
<1>1. /\ stage = "grouping" /\ stage' = "published"
      /\ excluded' = excluded \cup {s \in Series : Stocked(s) /\ ~ article[s].forecast} /\ orders' = Grouped
      /\ UNCHANGED <<article, policy, refusal, candidates, line, remaining, allocated>>
    BY DEF Publish
<1>2. Given' /\ \A t : Facts(t)' = Facts(t)
    BY <1>1, FactsAreKept DEF Lines
<1>3. \A t \in candidates : LineIsPlanned(t)' /\ article[t].forecast
    BY <1>1, <1>2 DEF Lines, LineIsPlanned
<1>4. Lines'
    BY <1>1, <1>2, <1>3 DEF Lines
<1> QED BY <1>1, <1>4, MoneyIsKept

\* Every step keeps the plans of the lines and the account of the money.
LEMMA NextIsPlanned ==
    ASSUME Lines, Money, [Next]_vars
    PROVE  Lines' /\ Money'
<1>1. CASE UNCHANGED vars
    <2>1. Given' /\ \A t : Facts(t)' = Facts(t)
        BY <1>1, FactsAreKept DEF Lines, vars
    <2>2. \A t \in candidates : LineIsPlanned(t)'
        BY <1>1, <2>1 DEF Lines, LineIsPlanned, vars
    <2>3. Lines'
        BY <1>1, <2>1, <2>2 DEF Lines, vars
    <2>4. Money'
        BY <1>1, MoneyIsKept DEF vars
    <2> QED BY <2>3, <2>4
<1>2. CASE Read
    <2>1. CASE Refuse("DUPLICATE_PIPELINE")
        <3>1. stage' = "refused" /\ stage = "reading"
            BY <1>2, <2>1 DEF Refuse, Read
        <3> QED BY <2>1, <3>1, RefuseIsPlanned DEF Money, Allocation
    <2>2. CASE ~ ReceiptRepeated
        <3>1. /\ stage = "reading" /\ stage' = "planning"
              /\ UNCHANGED <<article, policy, refusal, candidates, line, excluded, remaining, allocated, orders>>
            BY <1>2, <2>2 DEF Read
        <3>2. Given'
            BY <3>1, FactsAreKept DEF Lines
        <3>3. candidates = {} /\ allocated = {}
            BY <3>1 DEF Lines
        <3>4. Lines'
            BY <3>1, <3>2, <3>3 DEF Lines
        <3> QED BY <3>1, <3>4 DEF Money, Allocation
    <2> QED BY <1>2, <2>1, <2>2 DEF Read
<1>3. CASE StartAllocation
    BY <1>3, StartIsPlanned
<1>4. CASE FinishAllocation
    <2>1. /\ stage = "allocating" /\ allocated = candidates /\ stage' = "grouping"
          /\ UNCHANGED <<article, policy, refusal, candidates, line, excluded, remaining, allocated, orders>>
        BY <1>4 DEF FinishAllocation
    <2>2. Given' /\ \A t : Facts(t)' = Facts(t)
        BY <2>1, FactsAreKept DEF Lines
    <2>3. \A t \in candidates : LineIsPlanned(t)'
        BY <2>1, <2>2 DEF Lines, LineIsPlanned
    <2>4. Lines'
        BY <2>1, <2>2, <2>3 DEF Lines
    <2> QED BY <2>1, <2>4, MoneyIsKept
<1>5. CASE Publish
    BY <1>5, PublishIsPlanned
<1>6. ASSUME NEW s \in Series, Plan(s) \/ Allocate(s) PROVE Lines' /\ Money'
    BY <1>6, PlanIsPlanned, FundedLineIsPlanned, FundingSpends
<1> QED BY <1>1, <1>2, <1>3, <1>4, <1>5, <1>6 DEF Next

\* Every state of every run has planned lines and a balanced account.
LEMMA SpecIsPlanned == Spec => [](Lines /\ Money)
<1>1. Init => Lines /\ Money
    <2>1. Init => Money
        BY DEF Init, Money, Allocation
    <2> QED BY <2>1, InitIsPlanned
<1>2. Lines /\ Money /\ [Next]_vars => (Lines /\ Money)'
    BY NextIsPlanned
<1> QED BY <1>1, <1>2, PTL DEF Spec

--------------------------------------------------------------------------------
(* The theorems.                                                           *)

\* Under no limit each line orders the least the supplier and the stock accept that
\* covers its need, whatever the terms, the demand and the receipts.
THEOREM OrdersAreLeast == Spec => []LeastSufficientOrder
<1>1. ASSUME Lines PROVE LeastSufficientOrder
    <2> SUFFICES ASSUME NEW s \in candidates
                 PROVE  LET need == line[s].raw
                            order == line[s].before_cap
                        IN  IF need = 0 THEN order = 0
                            ELSE /\ order >= need /\ Orderable(Facts(s), order)
                                 /\ \A base \in need .. order - 1 : ~ Orderable(Facts(s), base)
        BY DEF LeastSufficientOrder
    <2> DEFINE a == Facts(s)
               need == line[s].raw
               order == line[s].before_cap
    <2>1. Orders(a) /\ need \in Nat /\ order = Rounded(a, need) /\ order \in Nat
        BY <1>1, LineFacts
    <2> HIDE DEF a, need, order
    <2>2. /\ OnIncrement(a, order) /\ need <= order /\ (need = 0 => order = 0)
          /\ need # 0 => \A x \in Nat : OnIncrement(a, x) /\ x >= need => x >= order
        BY <2>1, RoundedIsLeast
    <2>3. \A x \in Nat : Orderable(a, x) <=> OnIncrement(a, x)
        BY <2>1, OrderableIsOnIncrement
    <2>4. ASSUME need # 0, NEW base \in need .. order - 1 PROVE ~ Orderable(a, base)
        <3>1. base \in Nat /\ base >= need /\ ~ (base >= order)
            BY <2>1
        <3> QED BY <2>2, <2>3, <2>4, <3>1
    <2>5. IF need = 0 THEN order = 0
          ELSE /\ order >= need /\ Orderable(a, order)
               /\ \A base \in need .. order - 1 : ~ Orderable(a, base)
        BY <2>1, <2>2, <2>3, <2>4
    <2> QED BY <2>5 DEF a, need, order
<1> QED BY <1>1, SpecIsPlanned, PTL

\* A cover limit cuts an order to the most that fits under it, and no further.
THEOREM CoverLimitIsExact == Spec => []CoverLimitKept
<1>1. ASSUME Lines PROVE CoverLimitKept
    <2> SUFFICES ASSUME NEW s \in candidates, Facts(s).max_cover # NoCover
                 PROVE  LET a == Facts(s)
                            order == line[s].before_budget
                            Fits(base) ==
                                /\ Orderable(a, base)
                                /\ base # 0 => a.free + Pipeline(a, a.max_cover) + base <= Demand(a, a.max_cover)
                        IN  /\ Fits(order) /\ order <= line[s].before_cap
                            /\ \A base \in order + 1 .. line[s].before_cap : ~ Fits(base)
        BY DEF CoverLimitKept
    <2> DEFINE a == Facts(s)
               order == line[s].before_budget
               full == line[s].before_cap
    <2>1. /\ Orders(a) /\ Covered(a) /\ full \in Nat /\ OnIncrement(a, full)
          /\ order = Capped(a, full) /\ order \in Nat /\ OnIncrement(a, order) /\ a.max_cover # NoCover
        BY <1>1, LineFacts
    <2> HIDE DEF a, order, full
    <2>2. /\ order <= full /\ FitsCover(a, order)
          /\ \A x \in Nat : OnIncrement(a, x) /\ x <= full /\ FitsCover(a, x) => x <= order
        BY <2>1, CappedIsMost
    <2>3. \A x \in Nat : Orderable(a, x) <=> OnIncrement(a, x)
        BY <2>1, OrderableIsOnIncrement
    <2>4. ASSUME NEW base \in order + 1 .. full PROVE ~ (Orderable(a, base) /\ FitsCover(a, base))
        <3>1. base \in Nat /\ base <= full /\ ~ (base <= order)
            BY <2>1
        <3> QED BY <2>2, <2>3, <3>1
    <2> QED BY <2>1, <2>2, <2>3, <2>4 DEF a, order, full, FitsCover
<1> QED BY <1>1, SpecIsPlanned, PTL

\* No quantity that the engine makes fails the buyer's validation, and every ledger sums
\* to the selected quantity: a published line can be approved as it stands.
THEOREM PlansCanBeApproved == Spec => []PlansAreApprovable
<1>1. ASSUME Lines PROVE PlansAreApprovable
    <2>1. refusal # "INVALID_QUANTITY"
        BY <1>1 DEF Lines
    <2>2. ASSUME NEW s \in candidates
          PROVE  Orderable(Facts(s), line[s].selected) /\ SumFunction(line[s].ledger) = line[s].selected
        <3> DEFINE a == Facts(s)
                   plan == PlannedLine(a)
                   l == line[s]
        <3>1. LineIsPlanned(s) /\ Covered(a) /\ Orders(a) /\ l.selected \in Nat /\ OnIncrement(a, l.selected)
              /\ l.before_budget \in Nat
            BY <1>1, LineFacts DEF Lines
        <3>2. /\ l.ledger = [plan.ledger EXCEPT !.budget = l.selected - l.before_budget]
              /\ l.before_budget = plan.before_budget
            BY <3>1 DEF LineIsPlanned
        <3> HIDE DEF a, l
        <3>3. /\ plan.ledger \in [Entries -> Int]
              /\ plan.ledger.demand + plan.ledger.safety_stock + plan.ledger.free_stock
                   + plan.ledger.eligible_pipeline + plan.ledger.nonnegative_clip + plan.ledger.rounding
                   + plan.ledger.max_cover = plan.before_budget
            BY <3>1, LineIsRight
        <3> HIDE DEF plan
        <3>4. l.selected - l.before_budget \in Int
            BY <3>1
        <3>5. /\ l.ledger \in [Entries -> Int] /\ l.ledger.budget = l.selected - l.before_budget
              /\ l.ledger.demand = plan.ledger.demand /\ l.ledger.safety_stock = plan.ledger.safety_stock
              /\ l.ledger.free_stock = plan.ledger.free_stock
              /\ l.ledger.eligible_pipeline = plan.ledger.eligible_pipeline
              /\ l.ledger.nonnegative_clip = plan.ledger.nonnegative_clip
              /\ l.ledger.rounding = plan.ledger.rounding /\ l.ledger.max_cover = plan.ledger.max_cover
            BY <3>2, <3>3, <3>4 DEF Entries
        <3>6. SumFunction(l.ledger) = l.ledger.demand + l.ledger.safety_stock + l.ledger.free_stock
                 + l.ledger.eligible_pipeline + l.ledger.nonnegative_clip + l.ledger.rounding
                 + l.ledger.max_cover + l.ledger.budget
            BY <3>5, LedgerSum
        <3>7. SumFunction(l.ledger) = l.before_budget + (l.selected - l.before_budget)
            BY <3>2, <3>3, <3>5, <3>6
        <3>8. SumFunction(l.ledger) = l.selected
            BY <3>1, <3>7
        <3>9. Orderable(a, l.selected)
            BY <3>1, OrderableIsOnIncrement
        <3> QED BY <3>8, <3>9 DEF a, l
    <2> QED BY <2>1, <2>2 DEF PlansAreApprovable
<1> QED BY <1>1, SpecIsPlanned, PTL

\* The lines of a run never cost more than its budget.
THEOREM BudgetIsKept == Spec => []BudgetKept
<1>1. ASSUME Lines, Money PROVE BudgetKept
    <2> SUFFICES ASSUME stage \in Allocation, policy.budget # NoBudget
                 PROVE  Spent(allocated) <= policy.budget
        BY DEF BudgetKept, Allocation
    <2>1. policy.budget \in Nat /\ remaining \in Nat /\ Spent(allocated) + remaining = policy.budget
        BY <1>1 DEF Money
    <2>2. Spent(allocated) \in Int
        BY <1>1, SpentIsWhole DEF Lines
    <2> QED BY <2>1, <2>2
<1> QED BY <1>1, SpecIsPlanned, PTL

--------------------------------------------------------------------------------
(* Urgency first.                                                          *)

\* The lines served so far that could have left money to s.
NoSooner(s) == {t \in allocated \ {s} : ~ SoonerThan(s, t)}

\* Nothing that waits is more urgent than what was served, and what was cut could not be
\* filled further when its turn came, from the money of the lines no more urgent.
NoneSoonerWaits ==
    policy.budget # NoBudget /\ stage \in Allocation =>
        /\ \A s \in allocated, t \in candidates \ allocated : ~ SoonerThan(t, s)
        /\ \A s \in allocated :
              \A base \in line[s].selected + 1 .. line[s].before_budget :
                  Orderable(Facts(s), base) => Spent(NoSooner(s)) + Cost(s, base) > policy.budget

\* Urgency does not change once a line is planned.
LEMMA UrgencyIsKept ==
    ASSUME NEW s, NEW t, line'[s].urgency = line[s].urgency, line'[t].urgency = line[t].urgency
    PROVE  SoonerThan(s, t)' <=> SoonerThan(s, t)
PROOF BY DEF SoonerThan

\* What the budget round serves before something else is no less urgent.
LEMMA ServedBeforeIsSooner ==
    ASSUME NEW s, NEW t, line[s].urgency \in {"critical", "soon", "routine"},
           line[t].urgency \in {"critical", "soon", "routine"}, ServedBefore(s, t)
    PROVE  ~ SoonerThan(t, s)
<1>1. Rank(line[s].urgency) <= Rank(line[t].urgency)
    BY DEF ServedBefore, Rank
<1> QED BY <1>1 DEF SoonerThan, Rank

\* A part of the lines costs no more than a larger part.
LEMMA SpentIsMonotone ==
    ASSUME Lines, Money, policy.budget # NoBudget, stage \in Allocation,
           NEW S \in SUBSET candidates, NEW T \in SUBSET S
    PROVE  Spent(T) <= Spent(S)
<1>1. IsFiniteSet(S) /\ \A x \in S : Costs[x] \in Nat
    BY SpentIsWhole
<1>2. SumFunctionOnSet(Costs, T) <= SumFunctionOnSet(Costs, S)
    BY <1>1, SumOfAPart
<1> QED BY <1>2, SpentIsASum

\* Serving a line keeps the order of urgency.
LEMMA ServingKeepsOrder ==
    ASSUME Lines, Money, NoneSoonerWaits, NEW s \in Series, Allocate(s)
    PROVE  NoneSoonerWaits'
<1>1. /\ Lines' /\ stage = "allocating" /\ stage' = stage /\ s \in candidates /\ s \notin allocated
      /\ candidates' = candidates /\ allocated' = allocated \cup {s}
      /\ policy' = policy /\ \A t : Facts(t)' = Facts(t)
      /\ line'[s].selected = Funded(s)
      /\ \A t \in candidates : /\ line'[t].urgency = line[t].urgency
                               /\ line'[t].before_budget = line[t].before_budget
                               /\ t # s => line'[t] = line[t]
    BY FundedLineIsPlanned
<1>2. \A t \in candidates : Costs'[t] \in Nat /\ (t # s => Costs'[t] = Costs[t])
    BY FundingSpends
<1>3. /\ stage \in Allocation /\ policy.budget # NoBudget /\ policy.budget \in Nat /\ remaining \in Nat
      /\ Spent(allocated) + remaining = policy.budget
    BY <1>1 DEF Money, Allocation
<1>4. allocated \subseteq candidates
    BY DEF Lines
<1>5. \A x, y \in candidates : SoonerThan(x, y)' <=> SoonerThan(x, y)
    BY <1>1, UrgencyIsKept
<1>6. \A x \in allocated, y \in candidates \ allocated : ~ SoonerThan(y, x)
    BY <1>3 DEF NoneSoonerWaits
<1>7. \A y \in candidates \ (allocated \cup {s}) : ~ SoonerThan(y, s)
    <2>1. \A y \in candidates \ (allocated \cup {s}) : ServedBefore(s, y)
        BY DEF Allocate
    <2>2. \A y \in candidates : line[y].urgency \in {"critical", "soon", "routine"}
        BY LineFacts
    <2> QED BY <1>1, <2>1, <2>2, ServedBeforeIsSooner
<1>8. \A x \in allocated', y \in candidates' \ allocated' : ~ SoonerThan(y, x)'
    BY <1>1, <1>4, <1>5, <1>6, <1>7
\* The lines served before cost what they did.
<1>9. ASSUME NEW S \in SUBSET allocated PROVE Spent(S)' = Spent(S)
    <2>1. \A t \in S : Costs[t] \in Int /\ Costs'[t] = Costs[t]
        BY <1>1, <1>2, <1>3, <1>4, SpentIsWhole
    <2>2. IsFiniteSet(S)
        BY <1>3, <1>4, SpentIsWhole
    <2>3. PICK new : new = Costs'
        OBVIOUS
    <2>4. SumFunctionOnSet(new, S) = SumFunctionOnSet(Costs, S)
        BY <2>1, <2>2, <2>3, SumsAgree
    <2>5. Spent(S)' = SumFunctionOnSet(Costs', S)
        BY DEF Spent, Costs
    <2> QED BY <2>3, <2>4, <2>5, SpentIsASum
<1>10. \A t, base : Cost(t, base)' = base' * Facts(t).cost /\ Cost(t, base) = base * Facts(t).cost
    BY <1>1 DEF Cost
<1>11. \A t \in candidates, base \in Nat : Orderable(Facts(t), base) <=> OnIncrement(Facts(t), base)
    BY LineFacts, OrderableIsOnIncrement
<1>12. ASSUME NEW base \in line'[s].selected + 1 .. line'[s].before_budget, Orderable(Facts(s), base)
       PROVE  Spent(NoSooner(s))' + base * Facts(s).cost > policy.budget
    <2>1. NoSooner(s)' = allocated
        <3>1. NoSooner(s)' = {t \in allocated' \ {s} : ~ SoonerThan(s, t)'}
            BY DEF NoSooner
        <3>2. \A t \in allocated : ~ SoonerThan(s, t)'
            BY <1>1, <1>4, <1>5, <1>6
        <3>3. allocated' \ {s} = allocated
            BY <1>1
        <3> QED BY <3>1, <3>2, <3>3
    <2>2. Spent(NoSooner(s))' = Spent(allocated)
        <3>1. Spent(NoSooner(s))' = SumFunctionOnSet(Costs', NoSooner(s)')
            BY DEF Spent, Costs
        <3>2. Spent(allocated)' = SumFunctionOnSet(Costs', allocated')
            BY DEF Spent, Costs
        <3>3. \A S \in SUBSET allocated : SumFunctionOnSet(Costs', S) = Spent(S)
            <4>1. \A S : Spent(S)' = SumFunctionOnSet(Costs', S')
                BY DEF Spent, Costs
            <4> QED BY <1>9, <4>1
        <3> QED BY <2>1, <3>1, <3>3
    <2>3. /\ Funded(s) \in Nat /\ line[s].before_budget \in Nat
          /\ \A x \in Nat : OnIncrement(Facts(s), x) /\ x <= line[s].before_budget
                                /\ Cost(s, x) <= remaining => x <= Funded(s)
        BY <1>1, FundedIsMost, LineFacts
    <2>4. base \in Nat /\ base > Funded(s) /\ base <= line[s].before_budget
        BY <1>1, <1>12, <2>3
    <2>5. OnIncrement(Facts(s), base)
        BY <1>1, <1>11, <1>12, <2>4
    <2>6. ~ (base * Facts(s).cost <= remaining)
        BY <1>10, <2>3, <2>4, <2>5
    <2>7. base * Facts(s).cost \in Int
        <3>1. \A x, y \in Nat : x * y \in Int
            BY Products
        <3>2. Facts(s).cost \in Nat
            BY <1>1, <1>3 DEF Money
        <3> QED BY <2>4, <3>1, <3>2
    <2>8. Spent(allocated) \in Int
        BY <1>3, <1>4, SpentIsWhole
    <2> QED BY <1>3, <2>2, <2>6, <2>7, <2>8
<1>13. ASSUME NEW r \in allocated, NEW base \in line'[r].selected + 1 .. line'[r].before_budget,
              Orderable(Facts(r), base)
       PROVE  Spent(NoSooner(r))' + base * Facts(r).cost > policy.budget
    <2>1. r \in candidates /\ r # s /\ line'[r] = line[r]
        BY <1>1, <1>4
    <2>2. Spent(NoSooner(r)) + base * Facts(r).cost > policy.budget
        BY <1>3, <1>10, <1>13, <2>1 DEF NoneSoonerWaits
    <2>3. NoSooner(r) \in SUBSET NoSooner(r)' /\ NoSooner(r) \in SUBSET allocated
          /\ NoSooner(r)' \in SUBSET candidates'
        <3>1. NoSooner(r)' = {t \in allocated' \ {r} : ~ SoonerThan(r, t)'}
            BY DEF NoSooner
        <3> QED BY <1>1, <1>4, <1>5, <2>1, <3>1 DEF NoSooner
    <2>4. PICK old : old = NoSooner(r)
        OBVIOUS
    <2>5. Spent(old)' = SumFunctionOnSet(Costs', old) /\ Spent(NoSooner(r))' = SumFunctionOnSet(Costs', NoSooner(r)')
        BY DEF Spent, Costs
    <2>6. Spent(old)' = Spent(NoSooner(r))
        BY <1>9, <2>3, <2>4
    <2>7. /\ SumFunctionOnSet(Costs', old) <= SumFunctionOnSet(Costs', NoSooner(r)')
          /\ SumFunctionOnSet(Costs', NoSooner(r)') \in Int
        <3>1. PICK new : new = Costs'
            OBVIOUS
        <3>2. PICK more : more = NoSooner(r)'
            OBVIOUS
        <3>3. IsFiniteSet(more) /\ (\A t \in more : new[t] \in Nat)
            <4>1. more \in SUBSET candidates
                BY <1>1, <2>3, <3>2
            <4>2. IsFiniteSet(more)
                BY <1>3, <4>1, SpentIsWhole
            <4> QED BY <1>2, <3>1, <4>1, <4>2
        <3>4. old \subseteq more
            BY <2>3, <2>4, <3>2
        <3>5. SumFunctionOnSet(new, old) <= SumFunctionOnSet(new, more)
            BY <3>3, <3>4, SumOfAPart
        <3>6. SumFunctionOnSet(new, more) \in Int
            <4>1. \A t \in more : new[t] \in Int
                BY <3>3
            <4> QED BY <3>3, <4>1, SumIsWhole
        <3> QED BY <3>1, <3>2, <3>5, <3>6
    <2>8. Spent(NoSooner(r)) <= Spent(NoSooner(r))' /\ Spent(NoSooner(r))' \in Int
        BY <2>5, <2>6, <2>7
    <2>9. Spent(NoSooner(r)) \in Int
        BY <1>3, <1>4, <2>3, SpentIsWhole
    <2>10. base * Facts(r).cost \in Int
        <3>1. \A x, y \in Nat : x * y \in Int
            BY Products
        <3>2. Facts(r).cost \in Nat /\ line[r].selected \in Nat /\ line[r].before_budget \in Nat
            BY <1>3, <2>1, LineFacts DEF Money
        <3>3. base \in Nat
            BY <1>13, <2>1, <3>2
        <3> QED BY <3>1, <3>2, <3>3
    <2> QED BY <1>3, <2>2, <2>8, <2>9, <2>10
<1> QED BY <1>1, <1>8, <1>10, <1>12, <1>13 DEF NoneSoonerWaits

\* The other steps serve nothing.
LEMMA NextKeepsOrder ==
    ASSUME Lines, Money, NoneSoonerWaits, [Next]_vars
    PROVE  NoneSoonerWaits'
<1>1. ASSUME UNCHANGED <<article, policy, candidates, line, allocated>>,
             stage' = stage \/ stage' = "refused" \/ (stage \in Allocation /\ stage' \in Allocation)
      PROVE  NoneSoonerWaits'
    <2>1. /\ \A s : Facts(s)' = Facts(s)
          /\ \A s, t : SoonerThan(s, t)' <=> SoonerThan(s, t)
        BY <1>1 DEF Facts, SoonerThan
    <2>2. \A s : NoSooner(s)' = NoSooner(s)
        BY <1>1, <2>1 DEF NoSooner
    <2>3. \A s, base : Cost(s, base)' = Cost(s, base)'
        OBVIOUS
    <2>4. \A s : Spent(NoSooner(s))' = Spent(NoSooner(s))
        BY <1>1, <2>1, <2>2 DEF Spent, Cost
    <2> QED BY <1>1, <2>1, <2>2, <2>4 DEF NoneSoonerWaits, Allocation, Cost
<1>2. CASE UNCHANGED vars
    BY <1>1, <1>2 DEF vars
<1>3. CASE Read
    BY <1>3 DEF Read, Refuse, NoneSoonerWaits, Allocation
<1>4. CASE StartAllocation
    <2>1. stage = "planning" /\ allocated = {}
        BY <1>4 DEF StartAllocation, Lines
    <2>2. allocated' = {}
        BY <1>4, <2>1 DEF StartAllocation, Refuse
    <2> QED BY <2>2 DEF NoneSoonerWaits
<1>5. CASE FinishAllocation
    BY <1>1, <1>5 DEF FinishAllocation, Allocation
<1>6. CASE Publish
    BY <1>1, <1>6 DEF Publish, Allocation
<1>7. ASSUME NEW s \in Series, Plan(s) PROVE NoneSoonerWaits'
    <2>1. stage = "planning" /\ stage' \in {"planning", "refused"}
        BY <1>7 DEF Plan, Exclude, RefuseArticle, AddLine, Refuse
    <2> QED BY <2>1 DEF NoneSoonerWaits, Allocation
<1>8. ASSUME NEW s \in Series, Allocate(s) PROVE NoneSoonerWaits'
    BY <1>8, ServingKeepsOrder
<1> QED BY <1>2, <1>3, <1>4, <1>5, <1>6, <1>7, <1>8 DEF Next

\* Money is never spent on an article that a more urgent one still needed.
THEOREM UrgentLinesComeFirst == Spec => []UrgentLinesAreServedFirst
<1>1. Init => NoneSoonerWaits
    BY DEF Init, NoneSoonerWaits, Allocation
<1>2. Lines /\ Money /\ NoneSoonerWaits /\ [Next]_vars => NoneSoonerWaits'
    BY NextKeepsOrder
<1>3. ASSUME Money, NoneSoonerWaits PROVE UrgentLinesAreServedFirst
    <2> SUFFICES ASSUME stage \in {"grouping", "published"}, policy.budget # NoBudget, NEW s \in candidates,
                        NEW base \in line[s].selected + 1 .. line[s].before_budget, Orderable(Facts(s), base)
                 PROVE  Spent({t \in candidates \ {s} : ~ SoonerThan(s, t)}) + Cost(s, base) > policy.budget
        BY DEF UrgentLinesAreServedFirst
    <2>1. stage \in Allocation /\ allocated = candidates
        BY <1>3 DEF Money, Allocation
    <2>2. NoSooner(s) = {t \in candidates \ {s} : ~ SoonerThan(s, t)}
        BY <2>1 DEF NoSooner
    <2> QED BY <1>3, <2>1, <2>2 DEF NoneSoonerWaits
<1> QED BY <1>1, <1>2, <1>3, SpecIsPlanned, PTL DEF Spec

--------------------------------------------------------------------------------
(* Every article in its place.                                             *)

\* The articles that a run must account for.
Accountable == {s \in Series : article[s].forecast \/ Stocked(s)}

\* After planning every series of the forecast is a line or left out; in the end every
\* article with a forecast or with stock is, and the orders are the groups of the lines.
Placed ==
    /\ stage \in Allocation => Unplanned = {}
    /\ stage = "published" => Accountable \subseteq candidates \cup excluded /\ orders = Grouped

\* Every step keeps every article in its place.
LEMMA NextPlaces ==
    ASSUME Lines, Money, Placed, [Next]_vars
    PROVE  Placed'
<1>1. ASSUME UNCHANGED <<article, policy, candidates, excluded, stage>>,
             stage = "published" => UNCHANGED <<line, orders>>
      PROVE  Placed'
    <2>1. Unplanned' = Unplanned
        BY <1>1 DEF Unplanned
    <2>2. ASSUME stage = "published" PROVE Grouped' = Grouped
        <3>1. article' = article /\ policy' = policy /\ candidates' = candidates /\ line' = line
            BY <1>1, <2>2
        <3> QED BY <3>1 DEF Grouped, Order, Facts
    <2>3. Accountable' = Accountable
        BY <1>1 DEF Accountable, Stocked
    <2> QED BY <1>1, <2>1, <2>2, <2>3 DEF Placed
<1>2. CASE UNCHANGED vars
    BY <1>1, <1>2 DEF vars
<1>3. CASE Read
    BY <1>3 DEF Read, Refuse, Placed, Allocation
<1>4. CASE StartAllocation
    BY <1>4 DEF StartAllocation, Refuse, Placed, Allocation, Unplanned
<1>5. CASE FinishAllocation
    BY <1>5 DEF FinishAllocation, Placed, Allocation, Unplanned
<1>6. CASE Publish
    <2>1. /\ stage = "grouping" /\ stage' = "published" /\ orders' = Grouped
          /\ excluded' = excluded \cup {s \in Series : Stocked(s) /\ ~ article[s].forecast}
          /\ UNCHANGED <<article, policy, candidates, line>>
        BY <1>6 DEF Publish
    <2>2. Unplanned = {}
        BY <2>1 DEF Placed, Allocation
    <2>3. Unplanned' = {}
        BY <2>1, <2>2 DEF Unplanned
    <2>4. Accountable' \subseteq candidates' \cup excluded'
        <3>1. {s \in Series : article[s].forecast} \subseteq candidates \cup excluded
            BY <2>2 DEF Unplanned
        <3>2. Accountable' = Accountable
            BY <2>1 DEF Accountable, Stocked
        <3> QED BY <2>1, <3>1, <3>2 DEF Accountable
    <2>5. Grouped' = Grouped
        BY <2>1 DEF Grouped, Order, Facts
    <2> QED BY <2>1, <2>3, <2>4, <2>5 DEF Placed
<1>7. ASSUME NEW s \in Series, Plan(s) PROVE Placed'
    <2>1. stage = "planning" /\ stage' \in {"planning", "refused"}
        BY <1>7 DEF Plan, Exclude, RefuseArticle, AddLine, Refuse
    <2> QED BY <2>1 DEF Placed, Allocation
<1>8. ASSUME NEW s \in Series, Allocate(s) PROVE Placed'
    <2>1. stage = "allocating" /\ stage' \in {"allocating", "refused"}
          /\ UNCHANGED <<article, policy, candidates, excluded>>
        BY <1>8 DEF Allocate, Refuse
    <2> QED BY <2>1 DEF Placed, Allocation, Unplanned
<1> QED BY <1>2, <1>3, <1>4, <1>5, <1>6, <1>7, <1>8 DEF Next

\* Lines of one key make one order, and an order has lines of one key.
LEMMA OrdersAreGroups ==
    ASSUME candidates # {}, NEW o \in Grouped
    PROVE  /\ o.lines = {t \in candidates : GroupOf[t] = o.key}
           /\ \A p \in Grouped : o.key = p.key => o = p
           /\ \A s \in o.lines : GroupOf[s] = o.key
<1>1. \A p \in Grouped : \E s \in candidates :
          p = Order(GroupOf[s], {t \in candidates : GroupOf[t] = GroupOf[s]}) /\ p.key = GroupOf[s]
          /\ p.lines = {t \in candidates : GroupOf[t] = GroupOf[s]}
    <2>1. \A key, lines : Order(key, lines).key = key /\ Order(key, lines).lines = lines
        BY DEF Order
    <2> QED BY <2>1 DEF Grouped
<1>2. PICK s \in candidates :
          o = Order(GroupOf[s], {t \in candidates : GroupOf[t] = GroupOf[s]}) /\ o.key = GroupOf[s]
          /\ o.lines = {t \in candidates : GroupOf[t] = GroupOf[s]}
    BY <1>1
<1>3. ASSUME NEW p \in Grouped, o.key = p.key PROVE o = p
    <2>1. PICK r \in candidates :
              p = Order(GroupOf[r], {t \in candidates : GroupOf[t] = GroupOf[r]}) /\ p.key = GroupOf[r]
        BY <1>1
    <2>2. GroupOf[r] = GroupOf[s]
        BY <1>2, <1>3, <2>1
    <2> QED BY <1>2, <2>1, <2>2
<1> QED BY <1>2, <1>3

\* Every article with a forecast or with stock ends in exactly one place, an article with
\* neither in no order, and a total adds up prices of one currency.
THEOREM NothingIsDropped == Spec => []NothingDropped
<1>1. Init => Placed
    BY DEF Init, Placed, Allocation
<1>2. Lines /\ Money /\ Placed /\ [Next]_vars => Placed'
    BY NextPlaces
<1>3. ASSUME Lines, Placed, stage = "published"
      PROVE  /\ orders # {}
             /\ \A s \in Series :
                   IF s \in excluded THEN \A o \in orders : s \notin o.lines
                   ELSE Cardinality({o \in orders : s \in o.lines})
                          = IF article[s].forecast \/ Stocked(s) THEN 1 ELSE 0
             /\ \A o \in orders, p \in orders : o.key = p.key => o = p
             /\ \A o \in orders : \A s \in o.lines : GroupOf[s] = o.key
    <2>1. orders = Grouped /\ Accountable \subseteq candidates \cup excluded
        BY <1>3 DEF Placed
    <2>2. excluded \subseteq Series \ candidates
        BY <1>3 DEF Lines
    <2>3. CASE candidates = {}
        <3>1. PICK none : none = Order(Unassigned, {})
            OBVIOUS
        <3>2. none.lines = {}
            BY <3>1 DEF Order
        <3>3. orders = {none}
            BY <2>1, <2>3, <3>1 DEF Grouped
        <3>4. Accountable \subseteq excluded
            BY <2>1, <2>3
        <3>5. \A s \in Series : {o \in orders : s \in o.lines} = {}
            BY <3>2, <3>3
        <3>6. Cardinality({}) = 0
            BY FS_EmptySet
        <3>7. \A s \in Series \ excluded : ~ (article[s].forecast \/ Stocked(s))
            BY <3>4 DEF Accountable
        <3> QED BY <3>2, <3>3, <3>5, <3>6, <3>7
    <2>4. CASE candidates # {}
        <3>1. \A o \in orders : /\ o.lines = {t \in candidates : GroupOf[t] = o.key}
                                /\ \A p \in orders : o.key = p.key => o = p
                                /\ \A s \in o.lines : GroupOf[s] = o.key
            BY <2>1, <2>4, OrdersAreGroups
        <3>2. orders # {}
            BY <2>1, <2>4 DEF Grouped
        <3>3. ASSUME NEW s \in candidates PROVE Cardinality({o \in orders : s \in o.lines}) = 1
            <4>1. PICK o : o = Order(GroupOf[s], {t \in candidates : GroupOf[t] = GroupOf[s]})
                OBVIOUS
            <4>2. o \in orders /\ o.key = GroupOf[s]
                BY <2>1, <2>4, <4>1 DEF Grouped, Order
            <4>3. \A p \in orders : s \in p.lines => p.key = o.key
                BY <3>1, <4>2
            <4>4. s \in o.lines
                BY <3>1, <4>2
            <4>5. {p \in orders : s \in p.lines} = {o}
                BY <3>1, <4>2, <4>3, <4>4
            <4> QED BY <4>5, FS_Singleton
        <3>4. \A s \in excluded : \A o \in orders : s \notin o.lines
            BY <2>2, <3>1
        <3>5. ASSUME NEW s \in Series, s \notin excluded
              PROVE  Cardinality({o \in orders : s \in o.lines})
                       = IF article[s].forecast \/ Stocked(s) THEN 1 ELSE 0
            <4>1. CASE s \in candidates
                BY <1>3, <3>3, <4>1 DEF Lines, LineIsPlanned
            <4>2. CASE s \notin candidates
                <5>1. {o \in orders : s \in o.lines} = {}
                    BY <3>1, <4>2
                <5>2. ~ (article[s].forecast \/ Stocked(s))
                    BY <2>1, <3>5, <4>2 DEF Accountable
                <5> QED BY <5>1, <5>2, FS_EmptySet
            <4> QED BY <4>1, <4>2
        <3> QED BY <3>1, <3>2, <3>4, <3>5
    <2> QED BY <2>3, <2>4
<1>4. Lines /\ Placed => NothingDropped
    BY <1>3 DEF NothingDropped
<1> QED BY <1>1, <1>2, <1>4, SpecIsPlanned, PTL DEF Spec

--------------------------------------------------------------------------------
(* What an order protects, and what urgency says.                           *)

\* The quantities of the receipts of an article.
Quantities(a) == [i \in DOMAIN a.receipts |-> a.receipts[i].quantity]

Due(a, days) == {i \in Expected(a) : Arrival(a, i) <= days}
DueOn(a, day) == {i \in Expected(a) : Arrival(a, i) = day}

\* Receipts arrive on whole days, on the first day at the earliest, in natural quantities.
LEMMA ReceiptsAreWhole ==
    ASSUME NEW a, Planned(a)
    PROVE  /\ \A i \in DOMAIN a.receipts :
                 Quantities(a)[i] \in Int /\ a.receipts[i].eta \in Int /\ Arrival(a, i) \in Int /\ Arrival(a, i) >= 1
           /\ \A i \in DOMAIN a.receipts : \A day \in Int :
                 day >= 1 => (Arrival(a, i) <= day <=> a.receipts[i].eta + a.delay <= day)
           /\ \A S \in SUBSET (DOMAIN a.receipts) : IsFiniteSet(S)
<1>1. \A i \in DOMAIN a.receipts : a.receipts[i] \in PipelineLine
    BY DEF Planned
<1>2. a.delay \in Nat /\ a.receipts \in Seq(PipelineLine)
    BY DEF Planned
<1>3. \A i \in DOMAIN a.receipts : a.receipts[i].eta \in Int /\ a.receipts[i].quantity \in Nat
    BY <1>1 DEF PipelineLine
<1>4. \A S \in SUBSET (DOMAIN a.receipts) : IsFiniteSet(S)
    BY <1>2, ReceivedIsWhole
<1> QED BY <1>2, <1>3, <1>4 DEF Quantities, Arrival, Larger

\* What is due in some days is due in the days before, or on the last of them.
LEMMA PipelineGrows ==
    ASSUME NEW a, Planned(a), NEW day \in Nat, day >= 1
    PROVE  Pipeline(a, day) = Pipeline(a, day - 1) + ArrivingOn(a, day)
<1>1. Expected(a) \subseteq DOMAIN a.receipts
    BY DEF Expected
<1>2. \A i \in Expected(a) : Arrival(a, i) \in Int
    BY <1>1, ReceiptsAreWhole
<1>3. Due(a, day - 1) \subseteq Due(a, day) /\ Due(a, day) \ Due(a, day - 1) = DueOn(a, day)
    BY <1>2 DEF Due, DueOn
<1>4. Due(a, day) \in SUBSET (DOMAIN a.receipts)
    BY <1>1 DEF Due
<1>5. IsFiniteSet(Due(a, day)) /\ \A i \in Due(a, day) : Quantities(a)[i] \in Int
    BY <1>4, ReceiptsAreWhole
<1>6. SumFunctionOnSet(Quantities(a), Due(a, day))
        = SumFunctionOnSet(Quantities(a), Due(a, day - 1)) + SumFunctionOnSet(Quantities(a), DueOn(a, day))
    BY <1>3, <1>5, SumOfTwoParts
<1> QED BY <1>6 DEF Pipeline, ArrivingOn, Received, Quantities, Due, DueOn

\* The demand of some days is that of the days before and that of the last of them.
LEMMA DemandGrows ==
    ASSUME NEW a, Planned(a), NEW day \in Nat, day >= 1, day <= Len(a.demand)
    PROVE  Demand(a, day) = Demand(a, day - 1) + a.demand[day]
<1>1. a.demand \in Seq(Nat)
    BY DEF Planned
<1>2. 1 .. day = (1 .. day - 1) \cup {day} /\ day \notin 1 .. day - 1
    OBVIOUS
<1>3. IsFiniteSet(1 .. day - 1)
    BY IntervalIsFinite
<1>4. \A d \in (1 .. day - 1) \cup {day} : a.demand[d] \in Int
    BY <1>1
<1>5. SumFunctionOnSet(a.demand, (1 .. day - 1) \cup {day})
        = SumFunctionOnSet(a.demand, 1 .. day - 1) + a.demand[day]
    BY <1>2, <1>3, <1>4, SumWith
<1> QED BY <1>2, <1>5 DEF Demand

\* The balance of the properties, in the terms of the calculation.
LEMMA BalanceIsNetted ==
    ASSUME NEW a, Planned(a), NEW day \in Nat, day >= 1
    PROVE  Balance(a, day) = a.free - Demand(a, day) + Pipeline(a, day)
<1>1. \A i \in DOMAIN a.receipts : Arrival(a, i) <= day <=> a.receipts[i].eta + a.delay <= day
    BY ReceiptsAreWhole
<1>2. {i \in DOMAIN a.receipts : /\ a.receipts[i].active /\ a.receipts[i].eta >= 0
                                 /\ a.receipts[i].eta + a.delay <= day}
        = {i \in Expected(a) : Arrival(a, i) <= day}
    BY <1>1 DEF Expected
<1> QED BY <1>2 DEF Balance, Pipeline

\* The balance of each day, from that of the day before.
Netted(a) == [day \in 0 .. Horizon(a) |-> a.free - Demand(a, day) + Pipeline(a, day)]

\* The netted balance satisfies the recursion of the loop over the days.
LEMMA NettedUnfolds ==
    ASSUME NEW a, Covered(a)
    PROVE  /\ \A day \in 0 .. Horizon(a) : Netted(a)[day] \in Int
           /\ Netted(a) = [day \in 0 .. Horizon(a) |->
                              IF day = 0 THEN a.free
                              ELSE Netted(a)[day - 1] + ArrivingOn(a, day) - a.demand[day]]
<1>1. Planned(a) /\ Horizon(a) \in Nat /\ Horizon(a) <= Len(a.demand) /\ a.free \in Int /\ a.demand \in Seq(Nat)
    BY HorizonIsCovered DEF Covered, Planned
<1>2. \A day \in 0 .. Horizon(a) : Demand(a, day) \in Nat /\ Pipeline(a, day) \in Nat
    <2> SUFFICES ASSUME NEW day \in 0 .. Horizon(a) PROVE Demand(a, day) \in Nat /\ Pipeline(a, day) \in Nat
        OBVIOUS
    <2>1. Demand(a, day) = PathDemand(a.demand, day)
        BY DEF Demand, PathDemand
    <2>2. day \in Nat /\ day <= Len(a.demand)
        BY <1>1
    <2> QED BY <1>1, <2>1, <2>2, DemandIsWhole, PipelineIsWhole
<1>3. Netted(a)[0] = a.free
    <2>1. 1 .. 0 = {}
        OBVIOUS
    <2>2. Demand(a, 0) = 0
        BY <2>1, SumOfNothing DEF Demand
    <2>3. {i \in Expected(a) : Arrival(a, i) <= 0} = {}
        <3>1. \A i \in Expected(a) : Arrival(a, i) \in Int /\ Arrival(a, i) >= 1
            BY <1>1, ReceiptsAreWhole DEF Expected
        <3> QED BY <3>1
    <2>4. Pipeline(a, 0) = 0
        BY <2>3, SumOfNothing DEF Pipeline, Received
    <2> QED BY <1>1, <2>2, <2>4 DEF Netted
<1>4. ASSUME NEW day \in 1 .. Horizon(a)
      PROVE  Netted(a)[day] = Netted(a)[day - 1] + ArrivingOn(a, day) - a.demand[day]
    <2>1. day \in Nat /\ day >= 1 /\ day <= Len(a.demand) /\ day - 1 \in 0 .. Horizon(a) /\ day \in 0 .. Horizon(a)
        BY <1>1
    <2>2. Pipeline(a, day) = Pipeline(a, day - 1) + ArrivingOn(a, day)
        BY <1>1, <2>1, PipelineGrows
    <2>3. Demand(a, day) = Demand(a, day - 1) + a.demand[day] /\ a.demand[day] \in Int
        BY <1>1, <2>1, DemandGrows
    <2>4. ArrivingOn(a, day) \in Int
        BY <1>1, ReceivedIsWhole DEF ArrivingOn, Expected, Planned
    <2>5. /\ Netted(a)[day] = a.free - Demand(a, day) + Pipeline(a, day)
          /\ Netted(a)[day - 1] = a.free - Demand(a, day - 1) + Pipeline(a, day - 1)
        BY <2>1 DEF Netted
    <2>6. \A f, d, p, q, r \in Int : f - (d + q) + (p + r) = (f - d + p) + r - q
        OBVIOUS
    <2>7. /\ a.free \in Int /\ Demand(a, day - 1) \in Int /\ a.demand[day] \in Int
          /\ Pipeline(a, day - 1) \in Int /\ ArrivingOn(a, day) \in Int
        BY <1>1, <1>2, <2>1, <2>3, <2>4
    <2>8. a.free - (Demand(a, day - 1) + a.demand[day]) + (Pipeline(a, day - 1) + ArrivingOn(a, day))
            = (a.free - Demand(a, day - 1) + Pipeline(a, day - 1)) + ArrivingOn(a, day) - a.demand[day]
        BY <2>6, <2>7
    <2> QED BY <2>2, <2>3, <2>5, <2>8
<1>5. \A day \in 0 .. Horizon(a) : Netted(a)[day] \in Int
    BY <1>1, <1>2 DEF Netted
<1>6. Netted(a) = [day \in 0 .. Horizon(a) |-> Netted(a)[day]]
    BY DEF Netted
<1>7. \A day \in 0 .. Horizon(a) : day = 0 \/ day \in 1 .. Horizon(a)
    OBVIOUS
<1> QED BY <1>3, <1>4, <1>5, <1>6, <1>7

\* The loop over the days reaches the netted balance of each of them.
LEMMA ProjectionIsNetted ==
    ASSUME NEW a, Covered(a)
    PROVE  \A day \in 0 .. Horizon(a) : Projection(a)[day] = Netted(a)[day]
<1> DEFINE Loop(g) == [day \in 0 .. Horizon(a) |->
                          IF day = 0 THEN a.free ELSE g[day - 1] + ArrivingOn(a, day) - a.demand[day]]
           P == Projection(a)
           T == {n \in Nat : n <= Horizon(a) => P[n] = Netted(a)[n]}
<1>1. P = CHOOSE g : g = Loop(g)
    BY DEF Projection
<1>2. Netted(a) = Loop(Netted(a))
    BY NettedUnfolds
<1>3. P = Loop(P)
    <2> HIDE DEF Loop, P
    <2> QED BY <1>1, <1>2
<1> HIDE DEF P
<1>4. Horizon(a) \in Nat
    BY HorizonIsCovered
<1>5. 0 \in T
    <2>1. 0 \in 0 .. Horizon(a)
        BY <1>4
    <2>2. P[0] = a.free /\ Netted(a)[0] = a.free
        BY <1>2, <1>3, <2>1
    <2> QED BY <2>2
<1>6. ASSUME NEW n \in Nat, n \in T PROVE n + 1 \in T
    <2> SUFFICES ASSUME n + 1 <= Horizon(a) PROVE P[n + 1] = Netted(a)[n + 1]
        OBVIOUS
    <2>1. n + 1 \in 0 .. Horizon(a) /\ n + 1 # 0 /\ (n + 1) - 1 = n /\ n <= Horizon(a)
        BY <1>4
    <2>2. P[n + 1] = P[n] + ArrivingOn(a, n + 1) - a.demand[n + 1]
        BY <1>3, <2>1
    <2>3. Netted(a)[n + 1] = Netted(a)[n] + ArrivingOn(a, n + 1) - a.demand[n + 1]
        BY <1>2, <2>1
    <2>4. P[n] = Netted(a)[n]
        BY <1>6, <2>1
    <2> QED BY <2>2, <2>3, <2>4
<1>7. Nat \subseteq T
    <2> HIDE DEF T
    <2> QED BY <1>5, <1>6, InductionOnNat
<1> QED BY <1>4, <1>7 DEF P


\* The day of the first shortage, and the urgency that follows from it.
LEMMA StockoutIsFirst ==
    ASSUME NEW a, Covered(a), NEW short, short = {day \in 1 .. Horizon(a) : Balance(a, day) < 0}
    PROVE  /\ short = {} => Stockout(a) = NoDay
           /\ short # {} => Stockout(a) \in short /\ \A day \in short : Stockout(a) <= day
<1>1. Planned(a) /\ Horizon(a) \in Nat
    BY HorizonIsCovered DEF Covered
<1>2. \A day \in 1 .. Horizon(a) : Projection(a)[day] = Balance(a, day)
    <2> SUFFICES ASSUME NEW day \in 1 .. Horizon(a) PROVE Projection(a)[day] = Balance(a, day)
        OBVIOUS
    <2>1. day \in Nat /\ day >= 1 /\ day \in 0 .. Horizon(a)
        BY <1>1
    <2>2. Projection(a)[day] = Netted(a)[day]
        BY <2>1, ProjectionIsNetted
    <2>3. Netted(a)[day] = Balance(a, day)
        BY <1>1, <2>1, BalanceIsNetted DEF Netted
    <2> QED BY <2>2, <2>3
<1>3. short = {day \in 1 .. Horizon(a) : Projection(a)[day] < 0}
    BY <1>2
<1>4. Stockout(a) = IF short = {} THEN NoDay ELSE Min(short)
    BY <1>3 DEF Stockout
<1>5. short \subseteq Nat
    BY <1>1, <1>3
<1>6. short # {} => Min(short) \in short /\ \A day \in short : Min(short) <= day
    BY <1>5, LeastNumber
<1> QED BY <1>4, <1>6

\* Urgency is routine when no day falls short, and critical when one does within the
\* lead time.
LEMMA UrgencyIsTrue ==
    ASSUME NEW a, Covered(a), NEW short, short = {day \in 1 .. Horizon(a) : Balance(a, day) < 0}
    PROVE  /\ Urgency(a, Stockout(a)) = "routine" <=> short = {}
           /\ Urgency(a, Stockout(a)) = "critical" <=> \E day \in short : day <= Lead(a)
<1>1. /\ short = {} => Stockout(a) = NoDay
      /\ short # {} => Stockout(a) \in short /\ \A day \in short : Stockout(a) <= day
    BY StockoutIsFirst
<1>2. short \subseteq Nat /\ Lead(a) \in Nat /\ NoDay \notin Nat
    BY HorizonIsCovered, NoneAssumption
<1>3. CASE short = {}
    BY <1>1, <1>3 DEF Urgency
<1>4. CASE short # {}
    <2> DEFINE first == Stockout(a)
    <2>1. first \in short /\ first \in Nat /\ first # NoDay /\ \A day \in short : first <= day
        BY <1>1, <1>2, <1>4
    <2> HIDE DEF first
    <2>2. (\E day \in short : day <= Lead(a)) <=> first <= Lead(a)
        BY <1>2, <2>1
    <2> QED BY <1>4, <2>1, <2>2 DEF Urgency, first
<1> QED BY <1>3, <1>4

\* The order of a line covers what its stock and receipts leave open.
LEMMA OrderSuffices ==
    ASSUME NEW a, Covered(a), NEW order \in Nat,
           order >= Demand(a, Horizon(a)) + SafetyStock(a) - a.free - Pipeline(a, Horizon(a))
    PROVE  /\ Balance(a, Horizon(a)) + order
                 >= IF a.method = "iid_residual_normal" THEN a.deviation ELSE 0
           /\ a.method = "scenario_paths" =>
                 100 * Cardinality(Served(a, order)) > a.target * (Len(a.paths) - 1)
<1> DEFINE D == Demand(a, Horizon(a))
           S == SafetyStock(a)
           P == Pipeline(a, Horizon(a))
           supply == Balance(a, Horizon(a)) + D + order
<1>1. Planned(a) /\ Horizon(a) \in Nat /\ Horizon(a) >= 1 /\ a.free \in Int
    BY HorizonIsCovered DEF Covered, Planned
<1>2. D \in Nat /\ S \in Nat /\ P \in Nat /\ (a.method = "iid_residual_normal" => S = a.deviation)
    BY <1>1, SafetyStockProtects, PipelineIsWhole
<1>3. Balance(a, Horizon(a)) = a.free - D + P
    BY <1>1, BalanceIsNetted
<1>4. /\ Balance(a, Horizon(a)) \in Int /\ Balance(a, Horizon(a)) + order >= S
      /\ supply \in Int /\ supply >= D + S
    <2> HIDE DEF D, S, P
    <2>1. order >= D + S - a.free - P
        BY DEF D, S, P
    <2> QED BY <1>1, <1>2, <1>3, <2>1
<1>5. a.method = "scenario_paths" =>
         100 * Cardinality({k \in DOMAIN a.paths : PathDemand(a.paths[k], Horizon(a)) <= supply})
            > a.target * (Len(a.paths) - 1)
    <2> HIDE DEF supply
    <2> QED BY <1>4, SafetyStockProtects DEF D, S
<1>6. Served(a, order) = {k \in DOMAIN a.paths : PathDemand(a.paths[k], Horizon(a)) <= supply}
    BY DEF Served
<1>7. Balance(a, Horizon(a)) + order >= IF a.method = "iid_residual_normal" THEN a.deviation ELSE 0
    <2> HIDE DEF D, S, P
    <2> QED BY <1>2, <1>4
<1> QED BY <1>5, <1>6, <1>7

\* The stock of an article is what every newest count of it says.
LEMMA StockIsTheNewest ==
    ASSUME Given, NEW s \in Series, ~ Blocked(article[s])
    PROVE  \A i \in DOMAIN Facts(s).stock :
              Facts(s).stock[i].at <= 0 =>
                  \/ Facts(s).stock[i].free = Facts(s).free
                  \/ \E j \in DOMAIN Facts(s).stock :
                        Facts(s).stock[i].at < Facts(s).stock[j].at /\ Facts(s).stock[j].at <= 0
<1> DEFINE rows == article[s].stock
<1>1. Facts(s).stock = rows /\ Facts(s).free = Latest(rows).free
    BY FactsAreTheNewest DEF Given
<1>2. rows \in Seq(InventorySnapshot) /\ \E k \in InForce(rows) : k \in DOMAIN rows /\ Latest(rows) = rows[k]
    BY InForceIsKnown DEF Given, Article
<1>3. \A i, k \in InForce(rows) : rows[i] = rows[k]
    BY DEF Blocked, Conflict
<1> HIDE DEF rows
<1>4. \A i \in DOMAIN rows : rows[i].at \in Int
    <2>1. \A i \in DOMAIN rows : rows[i] \in InventorySnapshot
        BY <1>2
    <2> QED BY <2>1 DEF InventorySnapshot
<1>5. ASSUME NEW i \in DOMAIN rows, rows[i].at <= 0
      PROVE  \/ rows[i].free = Latest(rows).free
             \/ \E j \in DOMAIN rows : rows[i].at < rows[j].at /\ rows[j].at <= 0
    <2>1. CASE i \in InForce(rows)
        BY <1>2, <1>3, <2>1
    <2>2. CASE i \notin InForce(rows)
        BY <1>4, <1>5, <2>2 DEF InForce
    <2> QED BY <2>1, <2>2
<1> QED BY <1>1, <1>5

\* An order that no limit cut suffices for the protection period, with the share of the
\* scenarios asked for, and urgency tells the truth about the days in between.
THEOREM OrdersProtect == Spec => []ProtectionHolds
<1>1. ASSUME Lines PROVE ProtectionHolds
    <2> SUFFICES ASSUME NEW s \in candidates
                 PROVE  LET a == Facts(s)
                            short == {day \in 1 .. Horizon(a) : Balance(a, day) < 0}
                        IN  /\ \A i \in DOMAIN a.stock :
                                  a.stock[i].at <= 0 =>
                                      \/ a.stock[i].free = a.free
                                      \/ \E j \in DOMAIN a.stock : a.stock[i].at < a.stock[j].at /\ a.stock[j].at <= 0
                            /\ Balance(a, Horizon(a)) + line[s].before_cap
                                 >= IF a.method = "iid_residual_normal" THEN a.deviation ELSE 0
                            /\ a.method = "scenario_paths" =>
                                  100 * Cardinality(Served(a, line[s].before_cap)) > a.target * (Len(a.paths) - 1)
                            /\ line[s].urgency = "routine" <=> short = {}
                            /\ line[s].urgency = "critical" <=> \E day \in short : day <= Lead(a)
        BY DEF ProtectionHolds
    <2> DEFINE a == Facts(s)
               plan == PlannedLine(a)
    <2>1. /\ Given /\ s \in Series /\ ~ Blocked(article[s]) /\ Covered(a) /\ Orders(a)
          /\ line[s].raw = plan.raw /\ line[s].raw \in Nat
          /\ line[s].before_cap = Rounded(a, line[s].raw) /\ line[s].before_cap \in Nat
          /\ line[s].urgency = Urgency(a, Stockout(a))
        BY <1>1, LineFacts DEF Lines, LineIsPlanned
    <2>2. \A i \in DOMAIN a.stock :
             a.stock[i].at <= 0 =>
                 \/ a.stock[i].free = a.free
                 \/ \E j \in DOMAIN a.stock : a.stock[i].at < a.stock[j].at /\ a.stock[j].at <= 0
        BY <2>1, StockIsTheNewest
    <2> HIDE DEF a
    <2>3. plan.raw >= Demand(a, Horizon(a)) + SafetyStock(a) - a.free - Pipeline(a, Horizon(a))
        BY <2>1, LineIsRight
    <2> HIDE DEF plan
    <2>4. line[s].before_cap >= Demand(a, Horizon(a)) + SafetyStock(a) - a.free - Pipeline(a, Horizon(a))
        <3>1. line[s].raw <= line[s].before_cap
            BY <2>1, RoundedIsLeast
        <3>2. Demand(a, Horizon(a)) \in Int /\ SafetyStock(a) \in Int /\ a.free \in Int
              /\ Pipeline(a, Horizon(a)) \in Int
            BY <2>1, SafetyStockProtects, PipelineIsWhole DEF Covered, Planned
        <3> QED BY <2>1, <2>3, <3>1, <3>2
    <2>5. /\ Balance(a, Horizon(a)) + line[s].before_cap
                >= IF a.method = "iid_residual_normal" THEN a.deviation ELSE 0
          /\ a.method = "scenario_paths" =>
                100 * Cardinality(Served(a, line[s].before_cap)) > a.target * (Len(a.paths) - 1)
        BY <2>1, <2>4, OrderSuffices
    <2>6. PICK short : short = {day \in 1 .. Horizon(a) : Balance(a, day) < 0}
        OBVIOUS
    <2>7. /\ line[s].urgency = "routine" <=> short = {}
          /\ line[s].urgency = "critical" <=> \E day \in short : day <= Lead(a)
        BY <2>1, <2>6, UrgencyIsTrue
    <2> QED BY <2>2, <2>5, <2>6, <2>7 DEF a
<1> QED BY <1>1, SpecIsPlanned, PTL

--------------------------------------------------------------------------------
(* Types.                                                                  *)

\* What the lines and the money are; a series without a line keeps the empty one.
Typed ==
    /\ \E i \in Inputs : policy \in i.policies /\ article \in i.articles
    /\ line \in [Series -> Line] /\ \A s \in Series \ candidates : line[s] = NoLine
    /\ remaining \in Int

\* The empty line has the type of a line.
LEMMA NoLineIsALine == NoLine \in Line
<1>1. NoLine.ledger \in [Entries -> Int]
    BY DEF NoLine, Entries
<1> QED BY <1>1 DEF NoLine, Line, Entries

\* A record is a line when its parts are what the contract says.
LEMMA LineByParts ==
    ASSUME NEW raw \in Int, NEW cap \in Int, NEW budget \in Int, NEW selected \in Int,
           NEW stockout \in Nat \cup {NoDay}, NEW urgency \in {"critical", "soon", "routine"},
           NEW ledger \in [Entries -> Int]
    PROVE  [raw |-> raw, before_cap |-> cap, before_budget |-> budget, selected |-> selected,
            stockout |-> stockout, urgency |-> urgency, ledger |-> ledger] \in Line
PROOF BY DEF Line, Entries

\* A planned line has the type of a line.
LEMMA PlannedLineIsALine ==
    ASSUME NEW a, Covered(a)
    PROVE  PlannedLine(a) \in Line
<1> DEFINE l == PlannedLine(a)
<1>1. /\ l.raw \in Nat /\ l.before_cap = Rounded(a, l.raw)
      /\ l.before_budget = Capped(a, l.before_cap) /\ l.selected = l.before_budget
      /\ l.urgency \in {"critical", "soon", "routine"} /\ l.stockout = Stockout(a)
      /\ l.ledger \in [Entries -> Int]
    BY LineIsRight
<1>2. l.before_cap \in Nat /\ OnIncrement(a, l.before_cap)
    BY <1>1, RoundedIsLeast DEF Covered, Planned
<1>3. l.before_budget \in Nat
    BY <1>1, <1>2, CappedIsMost
<1>4. l.stockout \in Nat \cup {NoDay}
    <2>1. PICK short : short = {day \in 1 .. Horizon(a) : Balance(a, day) < 0}
        OBVIOUS
    <2>2. /\ short = {} => Stockout(a) = NoDay
          /\ short # {} => Stockout(a) \in short
        BY <2>1, StockoutIsFirst
    <2>3. short \subseteq Nat
        BY <2>1, HorizonIsCovered
    <2> QED BY <1>1, <2>2, <2>3
<1>5. l = [raw |-> l.raw, before_cap |-> l.before_cap, before_budget |-> l.before_budget,
           selected |-> l.selected, stockout |-> l.stockout, urgency |-> l.urgency, ledger |-> l.ledger]
    BY DEF PlannedLine
<1> HIDE DEF l
<1>6. l \in Line
    BY <1>1, <1>2, <1>3, <1>4, <1>5, LineByParts
<1> QED BY <1>6 DEF l

\* A line that the budget cut has the type of a line.
LEMMA FundedLineIsALine ==
    ASSUME NEW l \in Line, NEW selected \in Int
    PROVE  [l EXCEPT !.selected = selected, !.ledger.budget = selected - l.before_budget] \in Line
<1>1. /\ l.raw \in Int /\ l.before_cap \in Int /\ l.before_budget \in Int
      /\ l.stockout \in Nat \cup {NoDay} /\ l.urgency \in {"critical", "soon", "routine"}
      /\ l.ledger \in [Entries -> Int]
    BY DEF Line, Entries
<1> DEFINE new == [l EXCEPT !.selected = selected, !.ledger.budget = selected - l.before_budget]
           ledger == [l.ledger EXCEPT !.budget = selected - l.before_budget]
<1>2. new = [raw |-> l.raw, before_cap |-> l.before_cap, before_budget |-> l.before_budget,
             selected |-> selected, stockout |-> l.stockout, urgency |-> l.urgency, ledger |-> ledger]
    <2>1. l = [raw |-> l.raw, before_cap |-> l.before_cap, before_budget |-> l.before_budget,
               selected |-> l.selected, stockout |-> l.stockout, urgency |-> l.urgency, ledger |-> l.ledger]
        BY DEF Line
    <2>2. PICK cut : cut = [l EXCEPT !.selected = selected]
        OBVIOUS
    <2>3. cut = [raw |-> l.raw, before_cap |-> l.before_cap, before_budget |-> l.before_budget,
                 selected |-> selected, stockout |-> l.stockout, urgency |-> l.urgency, ledger |-> l.ledger]
        BY <2>1, <2>2
    <2>4. cut.ledger = l.ledger
        BY <2>3
    <2>5. new = [cut EXCEPT !.ledger = ledger]
        BY <2>2, <2>4
    <2> HIDE DEF new, ledger
    <2> QED BY <2>3, <2>5
<1>3. ledger \in [Entries -> Int]
    BY <1>1
<1> HIDE DEF new, ledger
<1>4. new \in Line
    BY <1>1, <1>2, <1>3, LineByParts
<1> QED BY <1>4 DEF new

\* Every step keeps the types.
LEMMA NextIsTyped ==
    ASSUME Lines, Money, Typed, [Next]_vars
    PROVE  Typed'
<1>1. policy' = policy /\ article' = article
    BY InputIsKept
<1>2. ASSUME UNCHANGED <<candidates, line>>, remaining' = remaining PROVE Typed'
    BY <1>1, <1>2 DEF Typed
<1>3. CASE UNCHANGED vars
    BY <1>2, <1>3 DEF vars
<1>4. CASE Read \/ FinishAllocation \/ Publish
    BY <1>2, <1>4 DEF Read, FinishAllocation, Publish, Refuse
<1>5. CASE StartAllocation
    <2>1. UNCHANGED <<candidates, line>>
          /\ (remaining' = remaining \/ (remaining' = policy.budget /\ policy.budget # NoBudget))
        BY <1>5 DEF StartAllocation, Refuse
    <2>2. policy.budget \in Nat \cup {NoBudget}
        BY DEF Lines, Given, PlanningPolicy
    <2>3. remaining' \in Int
        BY <2>1, <2>2 DEF Typed
    <2> QED BY <1>1, <2>1, <2>3 DEF Typed
<1>6. ASSUME NEW s \in Series, Plan(s) PROVE Typed'
    <2>1. CASE Exclude(s) \/ RefuseArticle(s)
        BY <1>2, <2>1 DEF Exclude, RefuseArticle, Refuse
    <2>2. CASE AddLine(s)
        <3>1. CASE Refuse("INVALID_QUANTITY")
            BY <1>2, <3>1 DEF Refuse
        <3>2. CASE /\ candidates' = candidates \cup {s} /\ line' = [line EXCEPT ![s] = PlannedLine(Facts(s))]
                   /\ remaining' = remaining
            <4>1. Covered(Facts(s))
                BY <2>2, LineIsCovered DEF AddLine, Lines
            <4>2. PICK plan : plan = PlannedLine(Facts(s))
                OBVIOUS
            <4>3. plan \in Line
                BY <4>1, <4>2, PlannedLineIsALine
            <4>4. line' = [line EXCEPT ![s] = plan] /\ line \in [Series -> Line]
                BY <3>2, <4>2 DEF Typed
            <4>5. line' \in [Series -> Line] /\ \A t \in Series \ candidates' : line'[t] = NoLine
                BY <3>2, <4>3, <4>4 DEF Typed
            <4> QED BY <1>1, <3>2, <4>5 DEF Typed
        <3> QED BY <2>2, <3>1, <3>2 DEF AddLine
    <2> QED BY <1>6, <2>1, <2>2 DEF Plan
<1>7. ASSUME NEW s \in Series, Allocate(s) PROVE Typed'
    <2>1. /\ stage = "allocating" /\ s \in candidates /\ s \notin allocated
          /\ candidates' = candidates /\ Money'
          /\ stage' = stage /\ policy' = policy
        BY <1>7, FundedLineIsPlanned, FundingSpends
    <2>2. remaining' \in Int
        BY <2>1 DEF Money, Allocation
    <2>3. Funded(s) \in Nat
        BY <2>1, FundedIsMost
    <2>4. line' = [line EXCEPT ![s] = FundedLine(s, Funded(s))] \/ line' = line
        BY <1>7 DEF Allocate, Refuse
    <2>5. FundedLine(s, Funded(s)) \in Line
        <3>1. line[s] \in Line /\ Funded(s) \in Int
            BY <2>3 DEF Typed
        <3> QED BY <3>1, FundedLineIsALine DEF FundedLine
    <2>6. PICK new : new = FundedLine(s, Funded(s))
        OBVIOUS
    <2>7. line' \in [Series -> Line] /\ \A t \in Series \ candidates' : line'[t] = NoLine
        BY <2>1, <2>4, <2>5, <2>6 DEF Typed
    <2> QED BY <1>1, <2>2, <2>7 DEF Typed
<1> QED BY <1>3, <1>4, <1>5, <1>6, <1>7 DEF Next

\* Every variable of the run keeps its type, and no line orders less than nothing.
THEOREM TypeCorrect == Spec => []TypeOK
<1>1. Init => Typed
    BY NoLineIsALine DEF Init, Typed
<1>2. Lines /\ Money /\ Typed /\ [Next]_vars => Typed'
    BY NextIsTyped
<1>3. ASSUME Lines, Typed PROVE TypeOK
    <2>1. \A s \in Series : line[s].selected >= 0
        <3>1. \A s \in candidates : line[s].selected \in Nat
            BY <1>3, LineFacts
        <3>2. \A s \in Series \ candidates : line[s].selected = 0
            BY <1>3 DEF Typed, NoLine
        <3> QED BY <3>1, <3>2
    <2> QED BY <1>3, <2>1 DEF Lines, Typed, TypeOK
<1> QED BY <1>1, <1>2, <1>3, SpecIsPlanned, PTL DEF Spec

================================================================================
