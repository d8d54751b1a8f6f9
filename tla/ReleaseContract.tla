---------------------------- MODULE ReleaseContract ----------------------------
(***************************************************************************)
(* What the buyer is promised about a purchase order, with no database, no *)
(* versions of rows, no idempotency keys and no capabilities: a document   *)
(* is revised, a revision is signed, and only a signed revision is         *)
(* released, with exactly the content that was signed.  Signatures and     *)
(* releases are never taken back (docs/mvp/contracts.md, section 5).       *)
(***************************************************************************)
EXTENDS Naturals

CONSTANTS
    Proposals   \* the supplier orders of one planning run

VARIABLES
    document,   \* [Proposals -> [revision, content]], what a buyer sees now
    signed,     \* revisions a buyer approved: {[proposal, revision, content]}
    released    \* revisions exported as CSV:  {[proposal, revision, content]}

vars == <<document, signed, released>>

\* The revision of order p that is current, as it is signed and released.
Current(p) ==
    [proposal |-> p, revision |-> document[p].revision, content |-> document[p].content]

Init ==
    /\ \A p \in Proposals : document[p].revision = 1
    /\ signed = {}
    /\ released = {}

\* A buyer changes order p: a new, unsigned revision with any content.
Revise(p) ==
    /\ document'[p].revision = document[p].revision + 1
    /\ \A q \in Proposals \ {p} : document'[q] = document[q]
    /\ UNCHANGED <<signed, released>>

Sign(p) ==
    /\ signed' = signed \cup {Current(p)}
    /\ UNCHANGED <<document, released>>

\* Only the current revision leaves the system, and only once it is signed.
Release(p) ==
    /\ Current(p) \in signed
    /\ released' = released \cup {Current(p)}
    /\ UNCHANGED <<document, signed>>

Next == \E p \in Proposals : Revise(p) \/ Sign(p) \/ Release(p)

Spec == Init /\ [][Next]_vars

================================================================================
