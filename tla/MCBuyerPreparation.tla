--------------------------- MODULE MCBuyerPreparation ---------------------------
(* Two request threads, three keys, three inputs and two tables. *)
EXTENDS BuyerPreparation, TLC

TwoTables == <<"sales_events", "supplier_terms">>

\* Threads and keys are interchangeable.
Symmetry == Permutations(Handlers) \cup Permutations(Keys)
================================================================================
