---------------------------- MODULE MCOrderLifecycle ----------------------------
(* One planning run with two supplier orders sharing a budget: p1 orders two  *)
(* articles, one of them in packs of two, p2 orders one.                      *)
EXTENDS OrderLifecycle, TLC

CONSTANTS p1, p2, a, b, c, k1, k2

MCLinesOf == (p1 :> {a, b}) @@ (p2 :> {c})

Article(moq, pack, conversion, quantum, cost) ==
    [moq |-> moq, pack |-> pack, conversion |-> conversion, quantum |-> quantum, unit_cost |-> cost]

MCTerms == (a :> Article(1, 1, 1, 1, 2)) @@ (b :> Article(2, 2, 3, 3, 1)) @@ (c :> Article(0, 1, 2, 1, 1))

MCRecommended == (a :> 1) @@ (b :> 0) @@ (c :> 1)

================================================================================
