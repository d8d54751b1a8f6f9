-------------------------------- MODULE WriteOnce --------------------------------
(***************************************************************************)
(* What a reader of the artifact root is promised: a place is empty or      *)
(* holds one complete value, and once it holds a value it holds that value  *)
(* for ever (docs/mvp/master-plan.md:166: immutable snapshot, Parquet).   *)
(***************************************************************************)
CONSTANTS
    Places,     \* paths that references may name
    Values,     \* complete contents of a place
    Empty       \* nothing was published there

VARIABLE published

Init == published = [p \in Places |-> Empty]

Publish(p, v) ==
    /\ published[p] = Empty
    /\ published' = [published EXCEPT ![p] = v]

Next == \E p \in Places, v \in Values : Publish(p, v)

Spec == Init /\ [][Next]_published

================================================================================
