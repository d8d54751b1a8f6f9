------------------------------ MODULE MCOrderDesk ------------------------------
(* Two plans: one with an order of two lines, one with an order of one line.  *)
EXTENDS OrderDesk

CONSTANTS o1, o2, r1, r2, l1, l2, l3

MCOrderOf == (l1 :> o1) @@ (l2 :> o1) @@ (l3 :> o2)
MCPlanned == (l1 :> 1) @@ (l2 :> 1) @@ (l3 :> 0)
MCMaxVersion == (o1 :> 2) @@ (o2 :> 1)
MCRunOf == (o1 :> r1) @@ (o2 :> r2)
MCFirstLine == (o1 :> l1) @@ (o2 :> l3)
MCFirstOrder == (r1 :> o1) @@ (r2 :> o2)

================================================================================
