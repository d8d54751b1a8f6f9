-------------------------- MODULE OrderLifecycleProofs --------------------------
(***************************************************************************)
(* Theorems about OrderLifecycle, for every set of orders and articles, any *)
(* terms, any number of versions and keys.                                  *)
(*                                                                         *)
(* The properties are not inductive: a row alone does not say that a later  *)
(* version was never approved, nor the audit trail which idempotency keys   *)
(* are taken.  IInv ties the row, its history, the approval keys and the    *)
(* audit trail of each order together.                                      *)
(***************************************************************************)
EXTENDS OrderLifecycle, SumTheorems, TLAPS

--------------------------------------------------------------------------------
(* The inductive invariant.                                                *)

Ids == Proposals \X Nat

AuditEvent(p) ==
    [action : {"edit"}, item_version : Versions]
    \cup [action : {"approve"}, item_version : Versions, approval_id : Ids,
          content_hash : ContentHashes(p)]
    \cup [action : {"export"}, item_version : Versions, export_id : Ids]

\* Shapes of all tables, which TypeOK states of the rows only.
Tables ==
    /\ DOMAIN proposals = Proposals /\ DOMAIN versions = Proposals
    /\ DOMAIN approvalKeys = Proposals /\ DOMAIN audit = Proposals
    /\ \A p \in Proposals :
          /\ proposals[p] \in ProposalRow(p)
          /\ versions[p] \in Seq(ProposalRow(p))
          /\ approvalKeys[p] \in [Versions -> Reservation(ContentHashes(p)) \cup {NoReservation}]
          /\ audit[p] \in Seq(AuditEvent(p))
    /\ \A x \in exports : x.proposal \in Proposals /\ x.version \in Versions

\* The current row is the last one of the history, and what it says of itself is true.
RowIsCurrent(p) ==
    /\ proposals[p].content_hash = ContentHash(proposals[p].version, proposals[p].lines)
    /\ proposals[p].can_export <=> proposals[p].status = "approved"
    /\ Len(versions[p]) = proposals[p].version
    /\ versions[p][proposals[p].version].lines = proposals[p].lines
    /\ \A l \in LinesOf[p] : LedgerTotal(l, proposals[p].lines[l]) = proposals[p].lines[l].base

\* An approval key is taken exactly when the audit trail approves that version, never
\* of a version to come, and the approval of the current version is the row's status.
KeysMatchAudit(p) ==
    /\ \A v \in Versions :
          approvalKeys[p][v] # NoReservation <=>
              \E i \in Events(p, "approve") : audit[p][i].item_version = v
    /\ \A v \in Versions : v > proposals[p].version => approvalKeys[p][v] = NoReservation
    /\ proposals[p].status = "approved" <=> approvalKeys[p][proposals[p].version] # NoReservation

\* Each version is approved once, for one content.
SignaturesAreUnique(p) ==
    \A i \in Events(p, "approve") :
        /\ audit[p][i].item_version = proposals[p].version =>
              audit[p][i].content_hash = <<proposals[p].version, proposals[p].lines>>
        /\ \A j \in Events(p, "approve") :
              audit[p][i].item_version = audit[p][j].item_version => i = j

IInv ==
    /\ Tables
    /\ \A p \in Proposals : RowIsCurrent(p) /\ KeysMatchAudit(p) /\ SignaturesAreUnique(p)

--------------------------------------------------------------------------------
(* Lemmas about the operators of the model.                                *)

\* A buyer's quantity and a planned one convert to a whole base quantity.
LEMMA BaseQuantityIsNat ==
    ASSUME NEW p \in Proposals, NEW l \in LinesOf[p], NEW quantity \in Nat
    PROVE  BaseQuantity(l, quantity) \in Nat /\ BaseQuantity(l, Recommended[l]) \in Nat
<1>1. Terms[l].conversion \in Nat /\ Recommended[l] \in Nat
    BY ArticleAssumption
<1>2. \A m, n \in Nat : m * n \in Nat
    OBVIOUS
<1>. QED  BY <1>1, <1>2 DEF BaseQuantity

\* An edited line has the shape of a line and its ledger sums to its base quantity.
LEMMA EditedLineReconciles ==
    ASSUME NEW p \in Proposals, NEW l \in LinesOf[p], NEW line \in LineState, NEW quantity \in Nat
    PROVE  /\ EditedLine(l, line, quantity) \in LineState
           /\ LedgerTotal(l, EditedLine(l, line, quantity)) = EditedLine(l, line, quantity).base
<1>. DEFINE base == BaseQuantity(l, quantity)
            planned == BaseQuantity(l, Recommended[l])
<1>1. base \in Nat /\ planned \in Nat
    BY BaseQuantityIsNat
<1>. HIDE DEF base, planned
<1>2. line.override \in Int
    BY DEF LineState
<1>3. (planned + line.override) - line.override = planned
    BY <1>1, <1>2
<1>4. EditedLine(l, line, quantity) = [purchase |-> quantity, base |-> base, override |-> base - planned]
    BY <1>3 DEF EditedLine, LedgerTotal, base, planned
<1>5. LedgerTotal(l, EditedLine(l, line, quantity)) = planned + (base - planned)
    BY <1>4 DEF LedgerTotal, planned
<1>. QED  BY <1>1, <1>4, <1>5 DEF LineState

\* What Append does to the positions of a sequence.
LEMMA AppendKeepsPositions ==
    ASSUME NEW S, NEW s \in Seq(S), NEW e \in S
    PROVE  /\ Append(s, e) \in Seq(S)
           /\ Len(Append(s, e)) = Len(s) + 1
           /\ DOMAIN Append(s, e) = DOMAIN s \cup {Len(s) + 1}
           /\ Len(s) + 1 \notin DOMAIN s
           /\ \A i \in DOMAIN s : Append(s, e)[i] = s[i]
           /\ Append(s, e)[Len(s) + 1] = e
           /\ SubSeq(Append(s, e), 1, Len(s)) = s
<1>1. Len(s) \in Nat /\ DOMAIN s = 1..Len(s)
    OBVIOUS
<1>2. Len(Append(s, e)) = Len(s) + 1 /\ Append(s, e) \in Seq(S)
    OBVIOUS
<1>3. \A i \in 1..Len(s) : Append(s, e)[i] = s[i]
    OBVIOUS
<1>4. SubSeq(Append(s, e), 1, Len(s)) = s
    BY <1>1, <1>2, <1>3
<1>. QED  BY <1>1, <1>2, <1>3, <1>4

\* What recording one more event of order p does to the audit trails.
LEMMA AuditGrows ==
    ASSUME Tables, NEW p \in Proposals, NEW e \in AuditEvent(p),
           audit' = [audit EXCEPT ![p] = Append(@, e)]
    PROVE  /\ DOMAIN audit' = Proposals
           /\ \A q \in Proposals : audit'[q] \in Seq(AuditEvent(q))
           /\ \A q \in Proposals \ {p} : audit'[q] = audit[q]
           /\ \A i \in DOMAIN audit[p] : audit'[p][i] = audit[p][i]
           /\ Len(audit[p]) + 1 \notin DOMAIN audit[p]
           /\ audit'[p][Len(audit[p]) + 1] = e
           /\ DOMAIN audit'[p] = DOMAIN audit[p] \cup {Len(audit[p]) + 1}
<1>1. audit[p] \in Seq(AuditEvent(p)) /\ DOMAIN audit = Proposals
    BY DEF Tables
<1>2. audit'[p] = Append(audit[p], e) /\ DOMAIN audit' = Proposals
    BY <1>1
<1>3. \A q \in Proposals \ {p} : audit'[q] = audit[q]
    BY <1>1
<1>4. \A q \in Proposals : audit'[q] \in Seq(AuditEvent(q))
  <2>1. audit'[p] \in Seq(AuditEvent(p))
      BY <1>1, <1>2, AppendKeepsPositions
  <2>2. \A q \in Proposals \ {p} : audit'[q] \in Seq(AuditEvent(q))
      BY <1>3 DEF Tables
  <2>. QED  BY <2>1, <2>2
<1>5. /\ DOMAIN Append(audit[p], e) = DOMAIN audit[p] \cup {Len(audit[p]) + 1}
      /\ Len(audit[p]) + 1 \notin DOMAIN audit[p]
      /\ \A i \in DOMAIN audit[p] : Append(audit[p], e)[i] = audit[p][i]
      /\ Append(audit[p], e)[Len(audit[p]) + 1] = e
    BY <1>1, AppendKeepsPositions
<1>. QED  BY <1>2, <1>3, <1>4, <1>5

\* An event that is no approval leaves the signatures of all orders as they were.
LEMMA SignaturesKept ==
    ASSUME Tables, NEW p \in Proposals, NEW e \in AuditEvent(p), e.action # "approve",
           audit' = [audit EXCEPT ![p] = Append(@, e)]
    PROVE  \A q \in Proposals :
               /\ Events(q, "approve")' = Events(q, "approve")
               /\ \A i \in Events(q, "approve") : audit'[q][i] = audit[q][i]
<1>1. \A q \in Proposals \ {p} : audit'[q] = audit[q]
    BY AuditGrows
<1>2. Events(p, "approve")' = Events(p, "approve")
    BY AuditGrows DEF Events
<1>3. \A i \in Events(p, "approve") : audit'[p][i] = audit[p][i]
    BY AuditGrows DEF Events
<1>. QED  BY <1>1, <1>2, <1>3 DEF Events

--------------------------------------------------------------------------------
(* The invariant holds of a published run ...                              *)

LEMMA InitIInv == Init => IInv
<1>. SUFFICES ASSUME Init PROVE IInv
    OBVIOUS
<1>1. 1 \in Versions
    BY BoundAssumption DEF Versions
<1>2. ASSUME NEW p \in Proposals
      PROVE  /\ PublishedProposal(p) \in ProposalRow(p)
             /\ \A l \in LinesOf[p] :
                   LedgerTotal(l, PublishedProposal(p).lines[l]) = PublishedProposal(p).lines[l].base
  <2>. DEFINE lines == [l \in LinesOf[p] |-> PlannedLine(l)]
  <2>1. ASSUME NEW l \in LinesOf[p]
        PROVE  PlannedLine(l) \in LineState /\ LedgerTotal(l, PlannedLine(l)) = PlannedLine(l).base
    <3>1. Recommended[l] \in Nat /\ BaseQuantity(l, Recommended[l]) \in Nat
        BY ArticleAssumption, BaseQuantityIsNat
    <3>. QED  BY <3>1 DEF PlannedLine, LineState, LedgerTotal
  <2>2. lines \in [LinesOf[p] -> LineState]
      BY <2>1
  <2>3. <<1, lines>> \in ContentHashes(p)
      BY <1>1, <2>2 DEF ContentHashes
  <2>4. CanApprove(p, lines) \in BOOLEAN
      BY GateAssumption DEF CanApprove, HasPositiveLine
  <2>5. PublishedProposal(p) \in ProposalRow(p)
      BY <1>1, <2>2, <2>3, <2>4 DEF PublishedProposal, ProposalRow, ContentHash
  <2>. QED  BY <2>1, <2>5 DEF PublishedProposal
<1>3. Tables
    BY <1>2 DEF Init, Tables
<1>4. ASSUME NEW p \in Proposals
      PROVE  RowIsCurrent(p) /\ KeysMatchAudit(p) /\ SignaturesAreUnique(p)
  <2>1. proposals[p] = PublishedProposal(p) /\ versions[p] = <<PublishedProposal(p)>>
      BY DEF Init
  <2>2. RowIsCurrent(p)
      BY <1>2, <2>1 DEF RowIsCurrent, PublishedProposal, ContentHash
  <2>3. Events(p, "approve") = {}
      BY DEF Events, Init
  <2>4. \A v \in Versions : approvalKeys[p][v] = NoReservation
      BY DEF Init
  <2>5. proposals[p].status # "approved" /\ proposals[p].version \in Versions
      BY <1>1, <2>1 DEF PublishedProposal
  <2>. QED  BY <2>2, <2>3, <2>4, <2>5 DEF KeysMatchAudit, SignaturesAreUnique
<1>. QED  BY <1>3, <1>4 DEF IInv

\* ... an edit keeps it: the new version was never approved and its row is a draft ...
LEMMA EditKeepsIInv ==
    ASSUME IInv, NEW p \in Proposals, NEW expected \in Versions, expected < MaxVersion,
           NEW edits \in EditRequests(p), Edit(p, expected, edits)
    PROVE  IInv'
<1>. DEFINE lines == EditedLines(p, edits)
            revised == RevisedProposal(p, expected, lines)
            row == proposals[p]
<1>1. /\ expected = row.version /\ expected + 1 \in Versions
      /\ row \in ProposalRow(p) /\ row.lines \in [LinesOf[p] -> LineState]
  <2>1. expected = row.version
      BY DEF Edit, VersionMatches
  <2>2. expected + 1 \in Versions
      BY BoundAssumption DEF Versions
  <2>3. row \in ProposalRow(p)
      BY DEF IInv, Tables
  <2>. QED  BY <2>1, <2>2, <2>3 DEF ProposalRow
<1>2. \A l \in LinesOf[p] :
          /\ lines[l] \in LineState
          /\ LedgerTotal(l, lines[l]) = lines[l].base
  <2>1. DOMAIN edits \subseteq LinesOf[p] /\ \A l \in DOMAIN edits : edits[l] \in Nat
      BY BoundAssumption DEF EditRequests
  <2>2. \A l \in DOMAIN edits :
            /\ EditedLine(l, row.lines[l], edits[l]) \in LineState
            /\ LedgerTotal(l, EditedLine(l, row.lines[l], edits[l]))
                 = EditedLine(l, row.lines[l], edits[l]).base
      BY <1>1, <2>1, EditedLineReconciles
  <2>3. \A l \in LinesOf[p] : LedgerTotal(l, row.lines[l]) = row.lines[l].base
      BY DEF IInv, RowIsCurrent
  <2>. QED  BY <1>1, <2>2, <2>3 DEF EditedLines
<1>3. lines \in [LinesOf[p] -> LineState]
    BY <1>2 DEF EditedLines
<1>4. revised \in ProposalRow(p)
  <2>1. CanApprove(p, lines) \in BOOLEAN
      BY GateAssumption DEF CanApprove, HasPositiveLine
  <2>. HIDE DEF lines
  <2>. QED  BY <1>1, <1>3, <2>1 DEF RevisedProposal, ProposalRow, ContentHash, ContentHashes
<1>5. /\ revised.version = expected + 1 /\ revised.lines = lines
      /\ revised.status = "draft" /\ revised.can_export = FALSE
      /\ revised.content_hash = <<expected + 1, lines>>
    BY DEF RevisedProposal, ContentHash
<1>6. /\ proposals' = [proposals EXCEPT ![p] = revised]
      /\ versions' = [versions EXCEPT ![p] = Append(@, revised)]
      /\ audit' = [audit EXCEPT ![p] = Append(@, EditEvent(expected + 1))]
      /\ UNCHANGED <<approvalKeys, exportKeys, exports>>
    BY <1>5 DEF Edit
<1>. HIDE DEF lines, revised
<1>7. EditEvent(expected + 1) \in AuditEvent(p) /\ EditEvent(expected + 1).action # "approve"
    BY <1>1 DEF EditEvent, AuditEvent
<1>8. /\ proposals'[p] = revised /\ DOMAIN proposals' = Proposals
      /\ versions'[p] = Append(versions[p], revised) /\ DOMAIN versions' = Proposals
      /\ \A q \in Proposals \ {p} : proposals'[q] = proposals[q] /\ versions'[q] = versions[q]
    BY <1>6 DEF IInv, Tables
<1>9. /\ versions'[p] \in Seq(ProposalRow(p)) /\ Len(versions'[p]) = expected + 1
      /\ versions'[p][expected + 1] = revised
  <2>1. versions[p] \in Seq(ProposalRow(p)) /\ Len(versions[p]) = expected
      BY <1>1 DEF IInv, Tables, RowIsCurrent
  <2>. QED  BY <1>4, <1>8, <2>1, AppendKeepsPositions
<1>10. \A q \in Proposals :
          /\ Events(q, "approve")' = Events(q, "approve")
          /\ \A i \in Events(q, "approve") : audit'[q][i] = audit[q][i]
    BY <1>6, <1>7, SignaturesKept DEF IInv
<1>11. Tables'
    BY <1>4, <1>6, <1>7, <1>8, <1>9, AuditGrows DEF IInv, Tables
<1>12. ASSUME NEW q \in Proposals, q # p
       PROVE  (RowIsCurrent(q) /\ KeysMatchAudit(q) /\ SignaturesAreUnique(q))'
  <2>1. RowIsCurrent(q)'
      BY <1>8, <1>12 DEF IInv, RowIsCurrent
  <2>2. KeysMatchAudit(q)'
      BY <1>6, <1>8, <1>10, <1>12 DEF IInv, KeysMatchAudit
  <2>3. SignaturesAreUnique(q)'
      BY <1>8, <1>10, <1>12 DEF IInv, SignaturesAreUnique
  <2>. QED  BY <2>1, <2>2, <2>3
<1>13. RowIsCurrent(p)'
    BY <1>2, <1>5, <1>8, <1>9 DEF RowIsCurrent, ContentHash
<1>14. KeysMatchAudit(p)'
  <2>1. approvalKeys[p][expected + 1] = NoReservation
      BY <1>1 DEF IInv, KeysMatchAudit, Versions
  <2>2. \A v \in Versions : v > expected + 1 => approvalKeys[p][v] = NoReservation
      BY <1>1 DEF IInv, KeysMatchAudit, Versions
  <2>3. \A v \in Versions :
            approvalKeys[p][v] # NoReservation <=>
                \E i \in Events(p, "approve")' : audit'[p][i].item_version = v
      BY <1>10 DEF IInv, KeysMatchAudit
  <2>4. proposals'[p].version = expected + 1 /\ proposals'[p].status # "approved"
      BY <1>5, <1>8
  <2>5. approvalKeys' = approvalKeys
      BY <1>6
  <2>. QED  BY <2>1, <2>2, <2>3, <2>4, <2>5 DEF KeysMatchAudit
<1>15. SignaturesAreUnique(p)'
  <2>1. \A i \in Events(p, "approve") : audit[p][i].item_version # expected + 1
      BY <1>1 DEF IInv, KeysMatchAudit, Versions
  <2>. QED  BY <1>5, <1>8, <1>10, <2>1 DEF IInv, SignaturesAreUnique
<1>. QED  BY <1>11, <1>12, <1>13, <1>14, <1>15 DEF IInv

\* The next audit position makes an identifier.
LEMMA FreshIdIsId ==
    ASSUME Tables, NEW p \in Proposals
    PROVE  FreshId(p) \in Ids
<1>1. audit[p] \in Seq(AuditEvent(p))
    BY DEF Tables
<1>2. Len(audit[p]) + 1 \in Nat
    BY <1>1
<1>. QED  BY <1>2 DEF FreshId, Ids

\* ... an approval keeps it: it takes the key of the current version and records one
\* signature of the current content ...
LEMMA ApproveKeepsIInv ==
    ASSUME IInv, NEW p \in Proposals, NEW expected \in Versions, NEW hash, NEW acknowledged,
           Approve(p, expected, hash, acknowledged)
    PROVE  IInv'
<1>. DEFINE row == proposals[p]
            reservation == [hash |-> hash, result |-> FreshId(p)]
            event == ApproveEvent(p, FreshId(p), hash)
            last == Len(audit[p]) + 1
<1>1. /\ expected = row.version /\ row \in ProposalRow(p)
      /\ hash = <<row.version, row.lines>> /\ hash \in ContentHashes(p)
  <2>1. expected = row.version /\ hash = row.content_hash /\ StoredHashIsCurrent(p)
      BY DEF Approve, VersionMatches
  <2>2. row \in ProposalRow(p)
      BY DEF IInv, Tables
  <2>. QED  BY <2>1, <2>2 DEF StoredHashIsCurrent, ContentHash, ProposalRow
<1>2. FreshId(p) \in Ids
    BY FreshIdIsId DEF IInv
<1>3. reservation \in Reservation(ContentHashes(p)) /\ reservation # NoReservation
    BY <1>1, <1>2, NoReservationAssumption DEF Reservation, Ids
<1>4. /\ event \in AuditEvent(p) /\ event.action = "approve"
      /\ event.item_version = expected /\ event.content_hash = hash
    BY <1>1, <1>2 DEF ApproveEvent, AuditEvent
<1>5. /\ approvalKeys[p][expected] = NoReservation
      /\ approvalKeys' = [approvalKeys EXCEPT ![p][expected] = reservation]
      /\ proposals' = [proposals EXCEPT ![p] = ApprovedProposal(p)]
      /\ audit' = [audit EXCEPT ![p] = Append(@, event)]
      /\ UNCHANGED <<versions, exportKeys, exports>>
    BY DEF Approve
<1>. HIDE DEF reservation, event
<1>6. ApprovedProposal(p) \in ProposalRow(p)
    BY <1>1 DEF ApprovedProposal, ProposalRow
<1>7. /\ proposals'[p] = ApprovedProposal(p) /\ DOMAIN proposals' = Proposals
      /\ proposals'[p].version = expected /\ proposals'[p].lines = row.lines
      /\ proposals'[p].content_hash = row.content_hash
      /\ proposals'[p].status = "approved" /\ proposals'[p].can_export = TRUE
      /\ \A q \in Proposals \ {p} : proposals'[q] = proposals[q]
    BY <1>1, <1>5 DEF IInv, Tables, ApprovedProposal, ProposalRow
<1>8. /\ approvalKeys'[p][expected] = reservation /\ DOMAIN approvalKeys' = Proposals
      /\ approvalKeys'[p] \in [Versions -> Reservation(ContentHashes(p)) \cup {NoReservation}]
      /\ \A v \in Versions \ {expected} : approvalKeys'[p][v] = approvalKeys[p][v]
      /\ \A q \in Proposals \ {p} : approvalKeys'[q] = approvalKeys[q]
    BY <1>3, <1>5 DEF IInv, Tables
<1>9. /\ DOMAIN audit' = Proposals
      /\ \A q \in Proposals : audit'[q] \in Seq(AuditEvent(q))
      /\ \A q \in Proposals \ {p} : audit'[q] = audit[q]
      /\ \A i \in DOMAIN audit[p] : audit'[p][i] = audit[p][i]
      /\ last \notin DOMAIN audit[p] /\ audit'[p][last] = event
      /\ DOMAIN audit'[p] = DOMAIN audit[p] \cup {last}
    BY <1>4, <1>5, AuditGrows DEF IInv
<1>. HIDE DEF last
<1>10. /\ Events(p, "approve")' = Events(p, "approve") \cup {last}
       /\ \A i \in Events(p, "approve") : audit'[p][i] = audit[p][i] /\ i # last
    BY <1>4, <1>9 DEF Events
<1>11. Tables'
    BY <1>5, <1>6, <1>7, <1>8, <1>9 DEF IInv, Tables
<1>12. ASSUME NEW q \in Proposals, q # p
       PROVE  (RowIsCurrent(q) /\ KeysMatchAudit(q) /\ SignaturesAreUnique(q))'
  <2>1. /\ proposals'[q] = proposals[q] /\ versions'[q] = versions[q]
        /\ approvalKeys'[q] = approvalKeys[q] /\ audit'[q] = audit[q]
      BY <1>5, <1>7, <1>8, <1>9, <1>12
  <2>. QED  BY <2>1 DEF IInv, RowIsCurrent, KeysMatchAudit, SignaturesAreUnique, Events
<1>13. RowIsCurrent(p)'
    BY <1>1, <1>5, <1>7 DEF IInv, RowIsCurrent
<1>14. KeysMatchAudit(p)'
  <2>1. ASSUME NEW v \in Versions
        PROVE  approvalKeys'[p][v] # NoReservation <=>
                   \E i \in Events(p, "approve")' : audit'[p][i].item_version = v
    <3>1. CASE v = expected
        BY <1>3, <1>4, <1>8, <1>9, <1>10, <3>1
    <3>2. CASE v # expected
      <4>1. approvalKeys[p][v] # NoReservation <=>
                \E i \in Events(p, "approve") : audit[p][i].item_version = v
          BY DEF IInv, KeysMatchAudit
      <4>2. approvalKeys'[p][v] = approvalKeys[p][v] /\ audit'[p][last].item_version # v
          BY <1>4, <1>8, <1>9, <3>2
      <4>. QED  BY <1>10, <4>1, <4>2
    <3>. QED  BY <3>1, <3>2
  <2>2. \A v \in Versions : v > expected => approvalKeys'[p][v] = NoReservation
      BY <1>1, <1>8 DEF IInv, KeysMatchAudit, Versions
  <2>3. approvalKeys'[p][expected] # NoReservation
      BY <1>3, <1>8
  <2>. QED  BY <1>7, <2>1, <2>2, <2>3 DEF KeysMatchAudit
<1>15. SignaturesAreUnique(p)'
  <2>1. \A i \in Events(p, "approve") : audit[p][i].item_version # expected
      BY <1>5 DEF IInv, KeysMatchAudit
  <2>2. ASSUME NEW i \in Events(p, "approve")'
        PROVE  audit'[p][i].item_version = expected =>
                   audit'[p][i].content_hash = <<expected, row.lines>>
      BY <1>1, <1>4, <1>9, <1>10, <2>1
  <2>3. ASSUME NEW i \in Events(p, "approve")', NEW j \in Events(p, "approve")',
               audit'[p][i].item_version = audit'[p][j].item_version
        PROVE  i = j
      BY <1>4, <1>9, <1>10, <2>1, <2>3 DEF IInv, SignaturesAreUnique
  <2>. QED  BY <1>7, <2>2, <2>3 DEF SignaturesAreUnique
<1>. QED  BY <1>11, <1>12, <1>13, <1>14, <1>15 DEF IInv

\* ... and an export keeps it: it writes neither rows nor signatures.
LEMMA ExportKeepsIInv ==
    ASSUME IInv, NEW p \in Proposals, NEW expected \in Versions, NEW key \in ExportKeys,
           Export(p, expected, key)
    PROVE  IInv'
<1>. DEFINE event == ExportEvent(p, FreshId(p))
            export == CsvExport(p, FreshId(p))
<1>1. proposals[p].version \in Versions
    BY DEF IInv, Tables, ProposalRow
<1>2. event \in AuditEvent(p) /\ event.action # "approve"
    BY <1>1, FreshIdIsId DEF IInv, ExportEvent, AuditEvent
<1>3. export.proposal = p /\ export.version \in Versions
    BY <1>1 DEF CsvExport
<1>4. /\ exports' = exports \cup {export}
      /\ audit' = [audit EXCEPT ![p] = Append(@, event)]
      /\ UNCHANGED <<proposals, versions, approvalKeys>>
    BY DEF Export
<1>. HIDE DEF event, export
<1>5. \A q \in Proposals :
          /\ Events(q, "approve")' = Events(q, "approve")
          /\ \A i \in Events(q, "approve") : audit'[q][i] = audit[q][i]
    BY <1>2, <1>4, SignaturesKept DEF IInv
<1>6. Tables'
    BY <1>2, <1>3, <1>4, AuditGrows DEF IInv, Tables
<1>7. ASSUME NEW q \in Proposals
      PROVE  (RowIsCurrent(q) /\ KeysMatchAudit(q) /\ SignaturesAreUnique(q))'
  <2>1. proposals' = proposals /\ versions' = versions /\ approvalKeys' = approvalKeys
      BY <1>4
  <2>2. RowIsCurrent(q)'
      BY <2>1 DEF IInv, RowIsCurrent
  <2>3. \A v \in Versions :
            approvalKeys[q][v] # NoReservation <=>
                \E i \in Events(q, "approve")' : audit'[q][i].item_version = v
      BY <1>5 DEF IInv, KeysMatchAudit
  <2>4. KeysMatchAudit(q)'
      BY <2>1, <2>3 DEF IInv, KeysMatchAudit
  <2>5. /\ Events(q, "approve")' = Events(q, "approve")
        /\ \A i \in Events(q, "approve") : audit'[q][i] = audit[q][i]
      BY <1>5
  <2>6. SignaturesAreUnique(q)
      BY DEF IInv
  <2>7. SignaturesAreUnique(q)'
      BY <2>1, <2>5, <2>6 DEF SignaturesAreUnique
  <2>. QED  BY <2>2, <2>4, <2>7
<1>. QED  BY <1>6, <1>7 DEF IInv

\* Every step of the specification keeps the invariant.
LEMMA NextKeepsIInv == IInv /\ [Next]_vars => IInv'
<1>. SUFFICES ASSUME IInv, [Next]_vars PROVE IInv'
    OBVIOUS
<1>1. CASE UNCHANGED vars
    BY <1>1 DEF vars, IInv, Tables, RowIsCurrent, KeysMatchAudit, SignaturesAreUnique, Events
<1>2. ASSUME NEW p \in Proposals, NEW expected \in Versions, expected < MaxVersion,
             NEW edits \in EditRequests(p), Edit(p, expected, edits)
      PROVE  IInv'
    BY <1>2, EditKeepsIInv
<1>3. ASSUME NEW p \in Proposals, NEW expected \in Versions, NEW hash, NEW acknowledged,
             Approve(p, expected, hash, acknowledged)
      PROVE  IInv'
    BY <1>3, ApproveKeepsIInv
<1>4. ASSUME NEW p \in Proposals, NEW expected \in Versions, NEW key \in ExportKeys,
             Export(p, expected, key)
      PROVE  IInv'
    BY <1>4, ExportKeepsIInv
<1>. QED  BY <1>1, <1>2, <1>3, <1>4 DEF Next

\* IInv holds in every reachable state.
THEOREM InvariantHolds == Spec => []IInv
BY InitIInv, NextKeepsIInv, PTL DEF Spec

--------------------------------------------------------------------------------
(* The properties that follow from it.                                     *)

\* All rows, histories and exports keep their shape (TypeOK).
THEOREM TypeCorrect == Spec => []TypeOK
<1>1. IInv => TypeOK
    BY DEF IInv, Tables, TypeOK
<1>. QED  BY <1>1, InvariantHolds, PTL

\* The approval status of a row and the audit trail always agree, and no version is
\* signed twice or for other content (Service.edit, Service.approve).
THEOREM ApprovalsAreAudited == Spec => []ApprovalMatchesAudit
<1>1. IInv => ApprovalMatchesAudit
  <2>1. ASSUME IInv, NEW p \in Proposals
        PROVE  proposals[p].version \in Versions
      BY <2>1 DEF IInv, Tables, ProposalRow
  <2>. QED  BY <2>1 DEF IInv, ApprovalMatchesAudit, RowIsCurrent, KeysMatchAudit, SignaturesAreUnique
<1>. QED  BY <1>1, InvariantHolds, PTL

\* However often a line is edited, its explanation sums to what is ordered.
THEOREM LedgersReconcile == Spec => []LedgerReconciles
<1>1. IInv => LedgerReconciles
    BY DEF IInv, RowIsCurrent, LedgerReconciles
<1>. QED  BY <1>1, InvariantHolds, PTL

\* The step formula of HistoryOnlyGrows.
HistoryGrows(p) ==
    /\ proposals[p]'.version \in {proposals[p].version, proposals[p].version + 1}
    /\ proposals[p]'.version = proposals[p].version => proposals[p]'.lines = proposals[p].lines
    /\ versions[p]'[proposals[p]'.version].lines = proposals[p]'.lines
    /\ SubSeq(versions[p]', 1, Len(versions[p])) = versions[p]
    /\ SubSeq(audit[p]', 1, Len(audit[p])) = audit[p]

\* A sequence starts with itself.
LEMMA StartsWithItself ==
    ASSUME NEW S, NEW s \in Seq(S)
    PROVE  SubSeq(s, 1, Len(s)) = s
OBVIOUS

\* Whatever a step does, the history of every order survives it.
LEMMA StepKeepsHistory ==
    ASSUME IInv, IInv', Next, NEW q \in Proposals
    PROVE  HistoryGrows(q)
<1>1. /\ versions[q] \in Seq(ProposalRow(q)) /\ audit[q] \in Seq(AuditEvent(q))
      /\ proposals[q].version \in Versions
    BY DEF IInv, Tables, ProposalRow
<1>2. versions'[q][proposals'[q].version].lines = proposals'[q].lines
    BY DEF IInv, RowIsCurrent
<1>3. SubSeq(versions[q], 1, Len(versions[q])) = versions[q] /\ SubSeq(audit[q], 1, Len(audit[q])) = audit[q]
    BY <1>1, StartsWithItself
<1>4. ASSUME NEW p \in Proposals, NEW expected \in Versions, expected < MaxVersion,
             NEW edits \in EditRequests(p), Edit(p, expected, edits)
      PROVE  HistoryGrows(q)
  <2>. DEFINE revised == RevisedProposal(p, expected, EditedLines(p, edits))
  <2>1. /\ expected = proposals[p].version
        /\ proposals' = [proposals EXCEPT ![p] = revised]
        /\ versions' = [versions EXCEPT ![p] = Append(@, revised)]
        /\ audit' = [audit EXCEPT ![p] = Append(@, EditEvent(revised.version))]
      BY <1>4 DEF Edit, VersionMatches
  <2>2. revised.version = expected + 1
      BY DEF RevisedProposal
  <2>. HIDE DEF revised
  <2>3. CASE q = p
    <3>1. /\ proposals'[q] = revised /\ versions'[q] = Append(versions[q], revised)
          /\ audit'[q] = Append(audit[q], EditEvent(revised.version))
        BY <2>1, <2>3 DEF IInv, Tables
    <3>2. Append(versions[q], revised) \in Seq(ProposalRow(q)) /\ revised \in ProposalRow(q)
        BY <3>1 DEF IInv, Tables
    <3>3. EditEvent(revised.version) \in AuditEvent(q)
        BY <3>2 DEF EditEvent, AuditEvent, ProposalRow
    <3>4. /\ SubSeq(versions'[q], 1, Len(versions[q])) = versions[q]
          /\ SubSeq(audit'[q], 1, Len(audit[q])) = audit[q]
        BY <1>1, <3>1, <3>2, <3>3, AppendKeepsPositions
    <3>5. proposals'[q].version = proposals[q].version + 1 /\ proposals[q].version \in Nat
        BY <1>1, <2>1, <2>2, <2>3, <3>1 DEF Versions
    <3>. QED  BY <1>2, <3>4, <3>5 DEF HistoryGrows
  <2>4. CASE q # p
    <3>1. proposals'[q] = proposals[q] /\ versions'[q] = versions[q] /\ audit'[q] = audit[q]
        BY <2>1, <2>4 DEF IInv, Tables
    <3>. QED  BY <1>2, <1>3, <3>1 DEF HistoryGrows
  <2>. QED  BY <2>3, <2>4
<1>5. ASSUME NEW p \in Proposals, NEW e, proposals[p] \in ProposalRow(p),
             \/ proposals' = proposals
             \/ proposals' = [proposals EXCEPT ![p] = ApprovedProposal(p)],
             versions' = versions, audit' = [audit EXCEPT ![p] = Append(@, e)]
      PROVE  HistoryGrows(q)
  <2>1. proposals'[q].version = proposals[q].version /\ proposals'[q].lines = proposals[q].lines
    <3>1. ApprovedProposal(p).version = proposals[p].version /\ ApprovedProposal(p).lines = proposals[p].lines
        BY <1>5 DEF ApprovedProposal, ProposalRow
    <3>2. proposals'[q] = proposals[q] \/ (q = p /\ proposals'[q] = ApprovedProposal(p))
        BY <1>5 DEF IInv, Tables
    <3>. QED  BY <3>1, <3>2
  <2>2. SubSeq(audit'[q], 1, Len(audit[q])) = audit[q]
    <3>1. CASE q = p
      <4>1. audit'[q] = Append(audit[q], e) /\ Append(audit[q], e) \in Seq(AuditEvent(q))
          BY <1>5, <3>1 DEF IInv, Tables
      <4>2. e \in AuditEvent(q)
        <5>1. Len(audit[q]) \in Nat /\ Len(Append(audit[q], e)) = Len(audit[q]) + 1
                /\ Append(audit[q], e)[Len(audit[q]) + 1] = e
            BY <1>1
        <5>. QED  BY <4>1, <5>1
      <4>. QED  BY <1>1, <4>1, <4>2, AppendKeepsPositions
    <3>2. CASE q # p
        BY <1>3, <1>5, <3>2 DEF IInv, Tables
    <3>. QED  BY <3>1, <3>2
  <2>. QED  BY <1>2, <1>3, <1>5, <2>1, <2>2 DEF HistoryGrows
<1>6. ASSUME NEW p \in Proposals, NEW expected \in Versions, NEW hash, NEW acknowledged,
             Approve(p, expected, hash, acknowledged)
      PROVE  HistoryGrows(q)
    BY <1>5, <1>6 DEF Approve, IInv, Tables
<1>7. ASSUME NEW p \in Proposals, NEW expected \in Versions, NEW key \in ExportKeys,
             Export(p, expected, key)
      PROVE  HistoryGrows(q)
    BY <1>5, <1>7 DEF Export, IInv, Tables
<1>. QED  BY <1>4, <1>6, <1>7 DEF Next

\* Versions advance one at a time, only they change content, and neither a stored
\* version nor an audit event ever changes (Store.mutate_item, append_audit).
THEOREM HistoryIsImmutable == Spec => HistoryOnlyGrows
<1>1. IInv /\ IInv' /\ [Next]_vars => [\A p \in Proposals : HistoryGrows(p)]_vars
    BY StepKeepsHistory
<1>. QED  BY <1>1, InvariantHolds, PTL DEF Spec, HistoryOnlyGrows, HistoryGrows

--------------------------------------------------------------------------------
(* What leaves the system was signed.                                      *)

\* Every audit event outlives every step.
LEMMA StepKeepsEvents ==
    ASSUME IInv, Next, NEW q \in Proposals
    PROVE  \A i \in DOMAIN audit[q] : i \in DOMAIN audit'[q] /\ audit'[q][i] = audit[q][i]
<1>1. ASSUME NEW p \in Proposals, NEW e \in AuditEvent(p),
             audit' = [audit EXCEPT ![p] = Append(@, e)]
      PROVE  \A i \in DOMAIN audit[q] : i \in DOMAIN audit'[q] /\ audit'[q][i] = audit[q][i]
    BY <1>1, AuditGrows DEF IInv
<1>2. ASSUME NEW p \in Proposals
      PROVE  proposals[p] \in ProposalRow(p) /\ FreshId(p) \in Ids
    BY FreshIdIsId DEF IInv, Tables
<1>3. ASSUME NEW p \in Proposals, NEW expected \in Versions, expected < MaxVersion,
             NEW edits \in EditRequests(p), Edit(p, expected, edits)
      PROVE  \A i \in DOMAIN audit[q] : i \in DOMAIN audit'[q] /\ audit'[q][i] = audit[q][i]
  <2>1. expected + 1 \in Versions
      BY <1>3, BoundAssumption DEF Versions
  <2>2. EditEvent(expected + 1) \in AuditEvent(p)
      BY <2>1 DEF EditEvent, AuditEvent
  <2>3. audit' = [audit EXCEPT ![p] = Append(@, EditEvent(expected + 1))]
      BY <1>3 DEF Edit, RevisedProposal
  <2>. QED  BY <1>1, <2>2, <2>3
<1>4. ASSUME NEW p \in Proposals, NEW expected \in Versions, NEW hash, NEW acknowledged,
             Approve(p, expected, hash, acknowledged)
      PROVE  \A i \in DOMAIN audit[q] : i \in DOMAIN audit'[q] /\ audit'[q][i] = audit[q][i]
  <2>1. hash \in ContentHashes(p) /\ proposals[p].version \in Versions
      BY <1>2, <1>4 DEF Approve, ProposalRow
  <2>2. ApproveEvent(p, FreshId(p), hash) \in AuditEvent(p)
      BY <1>2, <2>1 DEF ApproveEvent, AuditEvent
  <2>. QED  BY <1>1, <1>4, <2>2 DEF Approve
<1>5. ASSUME NEW p \in Proposals, NEW expected \in Versions, NEW key \in ExportKeys,
             Export(p, expected, key)
      PROVE  \A i \in DOMAIN audit[q] : i \in DOMAIN audit'[q] /\ audit'[q][i] = audit[q][i]
  <2>1. proposals[p].version \in Versions
      BY <1>2 DEF ProposalRow
  <2>2. ExportEvent(p, FreshId(p)) \in AuditEvent(p)
      BY <1>2, <2>1 DEF ExportEvent, AuditEvent
  <2>. QED  BY <1>1, <1>5, <2>2 DEF Export
<1>. QED  BY <1>3, <1>4, <1>5 DEF Next

\* An approved row has its signature in the audit trail.
LEMMA ApprovedRowIsSigned ==
    ASSUME IInv, NEW p \in Proposals, proposals[p].status = "approved"
    PROVE  \E i \in Events(p, "approve") :
               /\ audit[p][i].item_version = proposals[p].version
               /\ audit[p][i].content_hash = <<proposals[p].version, proposals[p].lines>>
<1>1. proposals[p].version \in Versions
    BY DEF IInv, Tables, ProposalRow
<1>. QED  BY <1>1 DEF IInv, KeysMatchAudit, SignaturesAreUnique

\* What ExportsWereSigned says of one export and its two audit events.
SignedBefore(x, i, j) ==
    LET signature == audit[x.proposal][i]
        lines == signature.content_hash[2]
    IN  /\ i < j
        /\ audit[x.proposal][j].export_id = x.export_id
        /\ signature.item_version = x.version
        /\ x.rows = {[line |-> l, purchase |-> lines[l].purchase, base |-> lines[l].base] :
                        l \in {l \in LinesOf[x.proposal] : lines[l].purchase # 0}}
        /\ x.rows # {}

\* The CSV of an approved row lists the lines that its signature covers.
LEMMA ExportIsSigned ==
    ASSUME IInv, NEW p \in Proposals, NEW expected \in Versions, NEW key \in ExportKeys,
           Export(p, expected, key), NEW x, x = CsvExport(p, FreshId(p))
    PROVE  \E i \in Events(p, "approve")', j \in Events(p, "export")' : SignedBefore(x, i, j)'
<1>. DEFINE last == Len(audit[p]) + 1
            event == ExportEvent(p, FreshId(p))
<1>1. PICK i \in Events(p, "approve") :
          /\ audit[p][i].item_version = proposals[p].version
          /\ audit[p][i].content_hash = <<proposals[p].version, proposals[p].lines>>
    BY ApprovedRowIsSigned DEF Export, Exportable
<1>2. event \in AuditEvent(p) /\ event.action = "export" /\ event.export_id = FreshId(p)
    BY FreshIdIsId DEF IInv, Tables, ProposalRow, ExportEvent, AuditEvent
<1>3. /\ last \in DOMAIN audit'[p] /\ audit'[p][last] = event
      /\ \A n \in DOMAIN audit[p] : n \in DOMAIN audit'[p] /\ audit'[p][n] = audit[p][n]
    BY <1>2, AuditGrows DEF IInv, Export
<1>4. i \in DOMAIN audit[p] /\ audit[p] \in Seq(AuditEvent(p)) /\ audit[p][i].action = "approve"
    BY <1>1 DEF Events, IInv, Tables
<1>5. i < last
    BY <1>4
<1>6. i \in Events(p, "approve")' /\ last \in Events(p, "export")'
    BY <1>2, <1>3, <1>4 DEF Events
<1>7. /\ x.proposal = p /\ x.version = proposals[p].version /\ x.export_id = FreshId(p)
      /\ x.rows = CsvRows(p, proposals[p].lines)
    BY DEF CsvExport
<1>8. x.rows # {}
  <2>1. PICK l \in LinesOf[p] : proposals[p].lines[l].purchase > 0
      BY DEF Export, Exportable, Approvable, HasPositiveLine
  <2>2. proposals[p].lines[l].purchase # 0
      BY <2>1 DEF IInv, Tables, ProposalRow, LineState
  <2>. QED  BY <1>7, <2>2 DEF CsvRows
<1>9. /\ audit'[p][i].content_hash[2] = proposals[p].lines
      /\ audit'[p][i].item_version = proposals[p].version
      /\ audit'[p][last].export_id = FreshId(p)
    BY <1>1, <1>2, <1>3, <1>4
<1>. HIDE DEF last, event
<1>10. x.rows = CsvRows(x.proposal, audit'[x.proposal][i].content_hash[2])
    BY <1>7, <1>9
<1>11. /\ audit'[x.proposal][last].export_id = x.export_id
       /\ audit'[x.proposal][i].item_version = x.version
    BY <1>7, <1>9
<1>. QED  BY <1>5, <1>6, <1>8, <1>10, <1>11 DEF SignedBefore, CsvRows

\* No step takes back what makes an export a signed one.
LEMMA StepKeepsSigned ==
    ASSUME IInv, Next, ExportsWereSigned
    PROVE  ExportsWereSigned'
<1>1. ASSUME NEW x \in exports
      PROVE  \E i \in Events(x.proposal, "approve")', j \in Events(x.proposal, "export")' :
                 SignedBefore(x, i, j)'
  <2>1. x.proposal \in Proposals
      BY DEF IInv, Tables
  <2>2. PICK i \in Events(x.proposal, "approve"), j \in Events(x.proposal, "export") :
            SignedBefore(x, i, j)
      BY DEF ExportsWereSigned, SignedBefore
  <2>3. \A n \in {i, j} :
            n \in DOMAIN audit'[x.proposal] /\ audit'[x.proposal][n] = audit[x.proposal][n]
      BY <2>1, <2>2, StepKeepsEvents DEF Events
  <2>4. i \in Events(x.proposal, "approve")' /\ j \in Events(x.proposal, "export")'
      BY <2>2, <2>3 DEF Events
  <2>5. SignedBefore(x, i, j)'
      BY <2>2, <2>3 DEF SignedBefore
  <2>. QED  BY <2>4, <2>5
<1>2. ASSUME NEW x \in exports', x \notin exports
      PROVE  \E i \in Events(x.proposal, "approve")', j \in Events(x.proposal, "export")' :
                 SignedBefore(x, i, j)'
  <2>1. PICK p \in Proposals, expected \in Versions, key \in ExportKeys : Export(p, expected, key)
      BY <1>2 DEF Next, Edit, Approve
  <2>2. x = CsvExport(p, FreshId(p))
      BY <1>2, <2>1 DEF Export
  <2>3. x.proposal = p
      BY <2>2 DEF CsvExport
  <2>. QED  BY <2>1, <2>2, <2>3, ExportIsSigned
<1>. QED  BY <1>1, <1>2 DEF ExportsWereSigned, SignedBefore

\* Every CSV follows an approval of the same version and lists what was approved
\* (Service.export).
THEOREM ExportsAreSigned == Spec => []ExportsWereSigned
<1>1. Init => ExportsWereSigned
    BY DEF Init, ExportsWereSigned
<1>2. ASSUME ExportsWereSigned, UNCHANGED vars PROVE ExportsWereSigned'
  <2>1. exports' = exports /\ audit' = audit
      BY <1>2 DEF vars
  <2>2. \A p, kind : Events(p, kind)' = Events(p, kind)
      BY <2>1 DEF Events
  <2>3. \A x, i, j : SignedBefore(x, i, j)' <=> SignedBefore(x, i, j)
      BY <2>1 DEF SignedBefore
  <2>4. \A x \in exports : \E i \in Events(x.proposal, "approve"), j \in Events(x.proposal, "export") :
            SignedBefore(x, i, j)
      BY <1>2 DEF ExportsWereSigned, SignedBefore
  <2>5. \A x \in exports' : \E i \in Events(x.proposal, "approve")', j \in Events(x.proposal, "export")' :
            SignedBefore(x, i, j)'
      BY <2>1, <2>2, <2>3, <2>4
  <2>. QED  BY <2>5 DEF ExportsWereSigned, SignedBefore
<1>3. IInv /\ ExportsWereSigned /\ [Next]_vars => ExportsWereSigned'
    BY <1>2, StepKeepsSigned
<1>. QED  BY <1>1, <1>3, InvariantHolds, PTL DEF Spec

--------------------------------------------------------------------------------
(* A key leads to one CSV.                                                 *)

\* Every export event carries its own position, which stands for the fresh identifier.
EventsNameThemselves ==
    \A p \in Proposals : \A j \in Events(p, "export") : audit[p][j].export_id = <<p, j>>

Used(k) == exportKeys[k] # NoReservation

\* A used key has its CSV, and every CSV its key and its event.
KeysAndCsvs ==
    /\ \A k \in ExportKeys : Used(k) => \E x \in exports :
          /\ x.export_id = exportKeys[k].result
          /\ x.proposal = exportKeys[k].hash.proposal
          /\ x.version = exportKeys[k].hash.version
    /\ \A k, m \in ExportKeys : Used(k) /\ Used(m) /\ exportKeys[k].result = exportKeys[m].result => k = m
    /\ \A x \in exports :
          /\ \E k \in ExportKeys : Used(k) /\ exportKeys[k].result = x.export_id
          /\ \E j \in Events(x.proposal, "export") : x.export_id = <<x.proposal, j>>

ExportInv == DOMAIN exportKeys = ExportKeys /\ EventsNameThemselves /\ KeysAndCsvs

\* An event that is no export leaves keys, CSVs and their events as they were.
LEMMA OtherEventsKeepExports ==
    ASSUME IInv, ExportInv, NEW p \in Proposals, NEW e \in AuditEvent(p), e.action # "export",
           audit' = [audit EXCEPT ![p] = Append(@, e)], UNCHANGED <<exportKeys, exports>>
    PROVE  ExportInv'
<1>1. \A q \in Proposals :
          /\ Events(q, "export")' = Events(q, "export")
          /\ \A j \in Events(q, "export") : audit'[q][j] = audit[q][j]
  <2>1. \A q \in Proposals \ {p} : audit'[q] = audit[q]
      BY AuditGrows DEF IInv
  <2>2. Events(p, "export")' = Events(p, "export")
      BY AuditGrows DEF Events, IInv
  <2>3. \A j \in Events(p, "export") : audit'[p][j] = audit[p][j]
      BY AuditGrows DEF Events, IInv
  <2>. QED  BY <2>1, <2>2, <2>3 DEF Events
<1>2. EventsNameThemselves'
  <2>1. ASSUME NEW q \in Proposals, NEW j \in Events(q, "export")'
        PROVE  audit'[q][j].export_id = <<q, j>>
    <3>1. j \in Events(q, "export") /\ audit'[q][j] = audit[q][j]
        BY <1>1
    <3>. QED  BY <3>1 DEF ExportInv, EventsNameThemselves
  <2>. QED  BY <2>1 DEF EventsNameThemselves
<1>3. \A x \in exports : Events(x.proposal, "export")' = Events(x.proposal, "export")
    BY <1>1 DEF IInv, Tables
<1>4. \A k \in ExportKeys : Used(k)' <=> Used(k)
    BY DEF Used
<1>5. KeysAndCsvs'
    BY <1>3, <1>4 DEF ExportInv, KeysAndCsvs
<1>. QED  BY <1>2, <1>5 DEF ExportInv

\* An export takes a free key and writes one CSV and one event, under an identifier that
\* no earlier export has.
LEMMA ExportKeepsExports ==
    ASSUME IInv, ExportInv, NEW p \in Proposals, NEW expected \in Versions, NEW key \in ExportKeys,
           Export(p, expected, key)
    PROVE  ExportInv'
<1>. DEFINE last == Len(audit[p]) + 1
            event == ExportEvent(p, FreshId(p))
            csv == CsvExport(p, FreshId(p))
            reservation == [hash |-> ExportRequest(p), result |-> FreshId(p)]
<1>1. /\ audit' = [audit EXCEPT ![p] = Append(@, event)]
      /\ exports' = exports \cup {csv}
      /\ exportKeys' = [exportKeys EXCEPT ![key] = reservation]
      /\ ~ Used(key)
    BY DEF Export, KeyIsFree, Used
<1>2. /\ proposals[p].version \in Versions /\ proposals[p].content_hash \in ContentHashes(p)
      /\ FreshId(p) \in Proposals \X Nat
    BY FreshIdIsId DEF IInv, Tables, ProposalRow, Ids
<1>3. event \in AuditEvent(p) /\ event.action = "export" /\ event.export_id = <<p, last>>
    BY <1>2 DEF ExportEvent, AuditEvent, Ids, FreshId
<1>4. /\ csv.proposal = p /\ csv.version = proposals[p].version /\ csv.export_id = <<p, last>>
      /\ reservation.result = <<p, last>> /\ reservation.hash.proposal = p
      /\ reservation.hash.version = proposals[p].version
    BY DEF CsvExport, FreshId, ExportRequest
<1>5. reservation # NoReservation
  <2>1. ExportRequest(p) \in ExportRequests
      BY <1>2 DEF ExportRequest, ExportRequests
  <2>2. reservation \in Reservation(ExportRequests)
      BY <1>2, <2>1 DEF Reservation
  <2>. QED  BY <2>2, NoReservationAssumption
<1>. HIDE DEF event, csv, reservation
<1>6. /\ \A q \in Proposals \ {p} : audit'[q] = audit[q]
      /\ \A j \in DOMAIN audit[p] : audit'[p][j] = audit[p][j]
      /\ last \notin DOMAIN audit[p] /\ audit'[p][last] = event
      /\ DOMAIN audit'[p] = DOMAIN audit[p] \cup {last}
    BY <1>1, <1>3, AuditGrows DEF IInv
<1>. HIDE DEF last
<1>7. /\ \A q \in Proposals \ {p} : Events(q, "export")' = Events(q, "export")
      /\ Events(p, "export")' = Events(p, "export") \cup {last}
    BY <1>3, <1>6 DEF Events
<1>8. EventsNameThemselves'
    BY <1>3, <1>6, <1>7 DEF ExportInv, EventsNameThemselves, Events
<1>9. \A x \in exports : x.proposal \in Proposals /\ x.export_id # <<p, last>>
    BY <1>6 DEF ExportInv, KeysAndCsvs, Events, IInv, Tables
<1>10. /\ exportKeys'[key] = reservation
       /\ \A k \in ExportKeys \ {key} : exportKeys'[k] = exportKeys[k]
       /\ DOMAIN exportKeys' = ExportKeys
    BY <1>1 DEF ExportInv
<1>11. Used(key)' /\ \A k \in ExportKeys \ {key} : Used(k)' <=> Used(k)
    BY <1>5, <1>10 DEF Used
<1>12. \A k \in ExportKeys : Used(k) => exportKeys[k].result # <<p, last>>
    BY <1>9 DEF ExportInv, KeysAndCsvs
<1>13. ASSUME NEW k \in ExportKeys, Used(k)'
       PROVE  \E x \in exports' :
                  /\ x.export_id = exportKeys'[k].result
                  /\ x.proposal = exportKeys'[k].hash.proposal
                  /\ x.version = exportKeys'[k].hash.version
  <2>1. CASE k = key
      BY <1>1, <1>4, <1>10, <2>1
  <2>2. CASE k # key
      BY <1>1, <1>10, <1>11, <1>13, <2>2 DEF ExportInv, KeysAndCsvs
  <2>. QED  BY <2>1, <2>2
<1>14. ASSUME NEW k \in ExportKeys, NEW m \in ExportKeys, Used(k)', Used(m)',
              exportKeys'[k].result = exportKeys'[m].result
       PROVE  k = m
    BY <1>1, <1>4, <1>10, <1>11, <1>12, <1>14 DEF ExportInv, KeysAndCsvs
<1>15. ASSUME NEW x \in exports'
       PROVE  /\ \E k \in ExportKeys : Used(k)' /\ exportKeys'[k].result = x.export_id
              /\ \E j \in Events(x.proposal, "export")' : x.export_id = <<x.proposal, j>>
  <2>1. CASE x = csv
      BY <1>4, <1>7, <1>10, <1>11, <2>1
  <2>2. CASE x \in exports
    <3>1. PICK k \in ExportKeys : Used(k) /\ exportKeys[k].result = x.export_id
        BY <2>2 DEF ExportInv, KeysAndCsvs
    <3>2. k # key
        BY <1>1, <3>1
    <3>3. PICK j \in Events(x.proposal, "export") : x.export_id = <<x.proposal, j>>
        BY <2>2 DEF ExportInv, KeysAndCsvs
    <3>4. x.proposal \in Proposals
        BY <1>9, <2>2
    <3>5. j \in Events(x.proposal, "export")'
        BY <1>7, <3>3, <3>4
    <3>. QED  BY <1>10, <1>11, <3>1, <3>2, <3>3, <3>5
  <2>. QED  BY <1>1, <2>1, <2>2
<1>16. KeysAndCsvs'
    BY <1>13, <1>14, <1>15 DEF KeysAndCsvs
<1>. QED  BY <1>8, <1>10, <1>16 DEF ExportInv

LEMMA StepKeepsExports ==
    ASSUME IInv, ExportInv, [Next]_vars
    PROVE  ExportInv'
<1>1. CASE UNCHANGED vars
    BY <1>1 DEF vars, ExportInv, EventsNameThemselves, KeysAndCsvs, Used, Events
<1>2. ASSUME NEW p \in Proposals
      PROVE  proposals[p] \in ProposalRow(p) /\ FreshId(p) \in Ids
    BY FreshIdIsId DEF IInv, Tables
<1>3. ASSUME NEW p \in Proposals, NEW expected \in Versions, expected < MaxVersion,
             NEW edits \in EditRequests(p), Edit(p, expected, edits)
      PROVE  ExportInv'
  <2>1. expected + 1 \in Versions
      BY <1>3, BoundAssumption DEF Versions
  <2>2. EditEvent(expected + 1) \in AuditEvent(p) /\ EditEvent(expected + 1).action # "export"
      BY <2>1 DEF EditEvent, AuditEvent
  <2>3. audit' = [audit EXCEPT ![p] = Append(@, EditEvent(expected + 1))]
      BY <1>3 DEF Edit, RevisedProposal
  <2>4. UNCHANGED <<exportKeys, exports>>
      BY <1>3 DEF Edit
  <2>. QED  BY <2>2, <2>3, <2>4, OtherEventsKeepExports
<1>4. ASSUME NEW p \in Proposals, NEW expected \in Versions, NEW hash, NEW acknowledged,
             Approve(p, expected, hash, acknowledged)
      PROVE  ExportInv'
  <2>1. hash \in ContentHashes(p) /\ proposals[p].version \in Versions
      BY <1>2, <1>4 DEF Approve, ProposalRow
  <2>2. /\ ApproveEvent(p, FreshId(p), hash) \in AuditEvent(p)
        /\ ApproveEvent(p, FreshId(p), hash).action # "export"
      BY <1>2, <2>1 DEF ApproveEvent, AuditEvent
  <2>. QED  BY <1>4, <2>2, OtherEventsKeepExports DEF Approve
<1>5. ASSUME NEW p \in Proposals, NEW expected \in Versions, NEW key \in ExportKeys,
             Export(p, expected, key)
      PROVE  ExportInv'
    BY <1>5, ExportKeepsExports
<1>. QED  BY <1>1, <1>3, <1>4, <1>5 DEF Next

\* One CSV per used key, one key and one audit event per CSV: an export that is sent
\* again writes nothing (Service.export, reserve_idempotency).
THEOREM ExportsAreNotRepeated == Spec => []ExportKeysNameOneCsv
<1>1. Init => ExportInv
    BY DEF Init, ExportInv, EventsNameThemselves, KeysAndCsvs, Used, Events
<1>2. IInv /\ ExportInv => ExportKeysNameOneCsv
  <2>. SUFFICES ASSUME IInv, ExportInv PROVE ExportKeysNameOneCsv
      OBVIOUS
  <2>1. ASSUME NEW x \in exports
        PROVE  Cardinality({j \in Events(x.proposal, "export") :
                              audit[x.proposal][j].export_id = x.export_id}) = 1
    <3>1. PICK j \in Events(x.proposal, "export") : x.export_id = <<x.proposal, j>>
        BY DEF ExportInv, KeysAndCsvs
    <3>2. \A i \in Events(x.proposal, "export") : audit[x.proposal][i].export_id = <<x.proposal, i>>
        BY DEF ExportInv, EventsNameThemselves, IInv, Tables
    <3>3. {i \in Events(x.proposal, "export") : audit[x.proposal][i].export_id = x.export_id} = {j}
        BY <3>1, <3>2
    <3>. QED  BY <3>3, FS_Singleton
  <2>. QED  BY <2>1 DEF ExportInv, KeysAndCsvs, Used, ExportKeysNameOneCsv
<1>. QED  BY <1>1, <1>2, StepKeepsExports, InvariantHolds, PTL DEF Spec

--------------------------------------------------------------------------------
(* The handlers implement ReleaseContract.                                 *)

\* The signature that an approval event stands for.
Signature(p, i) ==
    [proposal |-> p, revision |-> audit[p][i].item_version,
     content |-> OrderedGoods(p, audit[p][i].content_hash[2])]

\* Signatures, event by event.
LEMMA SignedBarMembers ==
    \A s : s \in SignedBar <=> \E p \in Proposals : \E i \in Events(p, "approve") : s = Signature(p, i)
BY DEF SignedBar, Signature

\* The rows of a CSV are the goods of the order it was rendered from.
LEMMA CsvRowsAreGoods ==
    ASSUME NEW p \in Proposals, NEW lines
    PROVE  {<<r.line, r.purchase, r.base>> : r \in CsvRows(p, lines)} = OrderedGoods(p, lines)
<1>. DEFINE kept == {l \in LinesOf[p] : lines[l].purchase # 0}
            Row(l) == [line |-> l, purchase |-> lines[l].purchase, base |-> lines[l].base]
            Goods(r) == <<r.line, r.purchase, r.base>>
<1>1. CsvRows(p, lines) = {Row(l) : l \in kept}
    BY DEF CsvRows
<1>2. \A l \in kept : Goods(Row(l)) = <<l, lines[l].purchase, lines[l].base>>
    OBVIOUS
<1>3. OrderedGoods(p, lines) = {Goods(Row(l)) : l \in kept}
    BY <1>2 DEF OrderedGoods
<1>. HIDE DEF kept, Row, Goods
<1>4. {Goods(r) : r \in {Row(l) : l \in kept}} = {Goods(Row(l)) : l \in kept}
    OBVIOUS
<1>. QED  BY <1>1, <1>3, <1>4 DEF Goods

\* The current revision of an order, as the contract sees it.
LEMMA CurrentRevision ==
    ASSUME NEW p \in Proposals
    PROVE  Contract!Current(p) =
               [proposal |-> p, revision |-> proposals[p].version,
                content |-> OrderedGoods(p, proposals[p].lines)]
BY DEF Contract!Current, DocumentBar

\* An edit revises one order and touches no signature and no release.
LEMMA EditRevises ==
    ASSUME IInv, NEW p \in Proposals, NEW expected \in Versions, expected < MaxVersion,
           NEW edits \in EditRequests(p), Edit(p, expected, edits)
    PROVE  Contract!Revise(p)
<1>. DEFINE revised == RevisedProposal(p, expected, EditedLines(p, edits))
<1>1. /\ expected = proposals[p].version /\ expected + 1 \in Versions
      /\ proposals' = [proposals EXCEPT ![p] = revised]
      /\ audit' = [audit EXCEPT ![p] = Append(@, EditEvent(revised.version))]
      /\ exports' = exports
    BY BoundAssumption DEF Edit, VersionMatches, Versions
<1>2. revised.version = expected + 1
    BY DEF RevisedProposal
<1>. HIDE DEF revised
<1>3. EditEvent(revised.version) \in AuditEvent(p) /\ EditEvent(revised.version).action # "approve"
    BY <1>1, <1>2 DEF EditEvent, AuditEvent
<1>4. DocumentBar'[p].revision = DocumentBar[p].revision + 1
    BY <1>1, <1>2 DEF DocumentBar, IInv, Tables
<1>5. \A q \in Proposals \ {p} : DocumentBar'[q] = DocumentBar[q]
    BY <1>1 DEF DocumentBar, IInv, Tables
<1>6. \A q \in Proposals :
          /\ Events(q, "approve")' = Events(q, "approve")
          /\ \A i \in Events(q, "approve") : audit'[q][i] = audit[q][i]
    BY <1>1, <1>3, SignaturesKept DEF IInv
<1>7. SignedBar' = SignedBar
    BY <1>6 DEF SignedBar
<1>8. ReleasedBar' = ReleasedBar
    BY <1>1 DEF ReleasedBar
<1>. QED  BY <1>4, <1>5, <1>7, <1>8 DEF Contract!Revise

\* An approval signs the current revision and nothing else.
LEMMA ApproveSigns ==
    ASSUME IInv, NEW p \in Proposals, NEW expected \in Versions, NEW hash, NEW acknowledged,
           Approve(p, expected, hash, acknowledged)
    PROVE  Contract!Sign(p)
<1>. DEFINE event == ApproveEvent(p, FreshId(p), hash)
            last == Len(audit[p]) + 1
<1>1. /\ hash = <<proposals[p].version, proposals[p].lines>>
      /\ proposals[p] \in ProposalRow(p) /\ FreshId(p) \in Ids
    BY FreshIdIsId DEF Approve, StoredHashIsCurrent, ContentHash, IInv, Tables
<1>2. hash \in ContentHashes(p) /\ proposals[p].version \in Versions
    BY <1>1 DEF Approve, ProposalRow
<1>3. /\ event \in AuditEvent(p) /\ event.action = "approve"
      /\ event.item_version = proposals[p].version /\ event.content_hash = hash
    BY <1>1, <1>2 DEF ApproveEvent, AuditEvent
<1>4. /\ audit' = [audit EXCEPT ![p] = Append(@, event)]
      /\ proposals' = [proposals EXCEPT ![p] = ApprovedProposal(p)]
      /\ exports' = exports
    BY DEF Approve
<1>. HIDE DEF event
<1>5. /\ \A q \in Proposals \ {p} : audit'[q] = audit[q]
      /\ \A i \in DOMAIN audit[p] : audit'[p][i] = audit[p][i]
      /\ last \notin DOMAIN audit[p] /\ audit'[p][last] = event
      /\ DOMAIN audit'[p] = DOMAIN audit[p] \cup {last}
    BY <1>3, <1>4, AuditGrows DEF IInv
<1>. HIDE DEF last
<1>6. /\ Events(p, "approve")' = Events(p, "approve") \cup {last}
      /\ \A i \in Events(p, "approve") : audit'[p][i] = audit[p][i]
      /\ \A q \in Proposals \ {p} : Events(q, "approve")' = Events(q, "approve")
    BY <1>3, <1>5 DEF Events
<1>7. audit'[p][last].item_version = proposals[p].version
        /\ audit'[p][last].content_hash[2] = proposals[p].lines
    BY <1>1, <1>3, <1>5
<1>8. SignedBar' = SignedBar \cup {Contract!Current(p)}
  <2>. DEFINE Signed(q) == {Signature(q, i) : i \in Events(q, "approve")}
  <2>1. SignedBar = UNION {Signed(q) : q \in Proposals}
      BY DEF SignedBar, Signature
  <2>2. SignedBar' = UNION {Signed(q)' : q \in Proposals}
      BY DEF SignedBar, Signature
  <2>3. Signed(p)' = Signed(p) \cup {Contract!Current(p)}
      BY <1>6, <1>7, CurrentRevision DEF Signature
  <2>4. \A q \in Proposals \ {p} : Signed(q)' = Signed(q)
      BY <1>5, <1>6 DEF Signature
  <2>. HIDE DEF Signed
  <2>. QED  BY <2>1, <2>2, <2>3, <2>4
<1>9. DocumentBar' = DocumentBar
  <2>1. ApprovedProposal(p).version = proposals[p].version /\ ApprovedProposal(p).lines = proposals[p].lines
      BY <1>1 DEF ApprovedProposal, ProposalRow
  <2>2. \A q \in Proposals :
            proposals'[q].version = proposals[q].version /\ proposals'[q].lines = proposals[q].lines
      BY <1>4, <2>1 DEF IInv, Tables
  <2>. QED  BY <2>2 DEF DocumentBar
<1>10. ReleasedBar' = ReleasedBar
    BY <1>4 DEF ReleasedBar
<1>. QED  BY <1>8, <1>9, <1>10 DEF Contract!Sign

\* An export releases the current revision, which was signed.
LEMMA ExportReleases ==
    ASSUME IInv, NEW p \in Proposals, NEW expected \in Versions, NEW key \in ExportKeys,
           Export(p, expected, key)
    PROVE  Contract!Release(p)
<1>. DEFINE event == ExportEvent(p, FreshId(p))
            export == CsvExport(p, FreshId(p))
<1>1. /\ exports' = exports \cup {export}
      /\ audit' = [audit EXCEPT ![p] = Append(@, event)]
      /\ proposals' = proposals
    BY DEF Export
<1>2. Contract!Current(p) \in SignedBar
  <2>1. PICK i \in Events(p, "approve") :
            /\ audit[p][i].item_version = proposals[p].version
            /\ audit[p][i].content_hash = <<proposals[p].version, proposals[p].lines>>
      BY ApprovedRowIsSigned DEF Export, Exportable
  <2>2. Signature(p, i) = Contract!Current(p)
      BY <2>1, CurrentRevision DEF Signature
  <2>. QED  BY <2>2, SignedBarMembers
<1>3. event \in AuditEvent(p) /\ event.action # "approve"
    BY FreshIdIsId DEF IInv, Tables, ProposalRow, ExportEvent, AuditEvent
<1>4. /\ export.proposal = p /\ export.version = proposals[p].version
      /\ export.rows = CsvRows(p, proposals[p].lines)
    BY DEF CsvExport
<1>. HIDE DEF event, export
<1>5. \A q \in Proposals :
          /\ Events(q, "approve")' = Events(q, "approve")
          /\ \A i \in Events(q, "approve") : audit'[q][i] = audit[q][i]
    BY <1>1, <1>3, SignaturesKept DEF IInv
<1>6. SignedBar' = SignedBar
    BY <1>5 DEF SignedBar
<1>7. DocumentBar' = DocumentBar
    BY <1>1 DEF DocumentBar
<1>8. ReleasedBar' = ReleasedBar \cup {Contract!Current(p)}
  <2>. DEFINE Release(x) ==
           [proposal |-> x.proposal, revision |-> x.version,
            content |-> {<<r.line, r.purchase, r.base>> : r \in x.rows}]
  <2>1. ReleasedBar = {Release(x) : x \in exports} /\ ReleasedBar' = {Release(x) : x \in exports'}
      BY DEF ReleasedBar
  <2>2. Release(export) = Contract!Current(p)
      BY <1>4, CsvRowsAreGoods, CurrentRevision
  <2>. HIDE DEF Release
  <2>. QED  BY <1>1, <2>1, <2>2
<1>. QED  BY <1>2, <1>6, <1>7, <1>8 DEF Contract!Release

\* The tables and handlers refine the promise made to the buyer: only a signed, current
\* revision is released, with the goods that were signed, and no signature or release is
\* ever lost.
THEOREM OrdersImplementContract == Spec => ImplementsReleaseContract
<1>1. Init => Contract!Init
  <2>. SUFFICES ASSUME Init PROVE Contract!Init
      OBVIOUS
  <2>1. \A p \in Proposals : DocumentBar[p].revision = 1
      BY DEF Init, DocumentBar, PublishedProposal
  <2>2. SignedBar = {}
      BY DEF Init, SignedBar, Events
  <2>3. ReleasedBar = {}
      BY DEF Init, ReleasedBar
  <2>. QED  BY <2>1, <2>2, <2>3 DEF Contract!Init
<1>2. IInv /\ [Next]_vars => [Contract!Next]_Contract!vars
  <2>. SUFFICES ASSUME IInv, [Next]_vars PROVE [Contract!Next]_Contract!vars
      OBVIOUS
  <2>1. CASE UNCHANGED vars
      BY <2>1 DEF vars, Contract!vars, DocumentBar, SignedBar, ReleasedBar, Events
  <2>2. CASE Next
      BY <2>2, EditRevises, ApproveSigns, ExportReleases DEF Next, Contract!Next
  <2>. QED  BY <2>1, <2>2
<1>. QED  BY <1>1, <1>2, InvariantHolds, PTL DEF Spec, ImplementsReleaseContract, Contract!Spec

--------------------------------------------------------------------------------
(* The budget of the run, over all of its orders.                          *)

\* Sums are the folds of SumTheorems.
LEMMA SumOfFunction ==
    ASSUME NEW S, NEW T, NEW f \in [S -> T]
    PROVE  SumFunction(f) = SumFunctionOnSet(f, S)
PROOF BY DEF SumFunction

\* A priced order costs a whole amount.
LEMMA OrderCostIsWhole ==
    ASSUME NEW p \in Proposals, NEW lines \in [LinesOf[p] -> LineState], Priced(p)
    PROVE  TotalCost(p, lines) \in Int
<1>. DEFINE cost == [l \in LinesOf[p] |-> lines[l].base * Terms[l].unit_cost]
<1>1. \A l \in LinesOf[p] : lines[l].base \in Int /\ Terms[l].unit_cost \in Int
  <2>1. LinesOf[p] \subseteq Lines
      BY ArticleAssumption
  <2>. QED  BY <2>1, BudgetAssumption DEF LineState, Priced
<1>2. \A l \in LinesOf[p] : cost[l] \in Int
  <2>1. \A m, n \in Int : m * n \in Int
      OBVIOUS
  <2>. QED  BY <1>1, <2>1
<1>3. IsFiniteSet(LinesOf[p])
    BY BudgetAssumption
<1>4. TotalCost(p, lines) = SumFunctionOnSet(cost, LinesOf[p])
    BY DEF TotalCost, SumFunction
<1>. HIDE DEF cost
<1>. QED  BY <1>2, <1>3, <1>4, SumIsWhole

\* The cost of a run is the cost of one of its orders and of the other ones, and only the
\* first of them is changed by what happens to that order.
LEMMA CostOfRun ==
    ASSUME NEW p \in Proposals, NEW cost \in [Proposals -> Int], NEW others,
           others = [q \in OtherProposals(p) |-> cost[q]]
    PROVE  SumFunction(cost) = cost[p] + SumFunction(others)
<1>1. IsFiniteSet(Proposals) /\ IsFiniteSet(OtherProposals(p))
    BY BudgetAssumption, FS_Subset DEF OtherProposals
<1>2. SumFunction(cost) = cost[p] + SumFunctionOnSet(cost, OtherProposals(p))
  <2>1. SumFunction(cost) = SumFunctionOnSet(cost, Proposals)
      BY SumOfFunction
  <2>2. SumFunctionOnSet(cost, Proposals) = cost[p] + SumFunctionOnSet(cost, Proposals \ {p})
      BY <1>1, SumWithout
  <2>. QED  BY <2>1, <2>2 DEF OtherProposals
<1>3. SumFunction(others) = SumFunctionOnSet(others, OtherProposals(p))
    BY DEF SumFunction
<1>4. \A q \in OtherProposals(p) : cost[q] \in Int /\ cost[q] = others[q]
    BY DEF OtherProposals
<1>5. SumFunctionOnSet(cost, OtherProposals(p)) = SumFunctionOnSet(others, OtherProposals(p))
    BY <1>1, <1>4, SumsAgree
<1>. QED  BY <1>2, <1>3, <1>5

\* An edit that fits beside the current rows of the other orders fits into the run.
LEMMA EditKeepsBudget ==
    ASSUME IInv, IInv', Budget # NoBudget, NEW p \in Proposals, NEW expected, NEW edits,
           Edit(p, expected, edits)
    PROVE  SumFunction([q \in Proposals |-> TotalCost(q, proposals'[q].lines)]) <= Budget
<1>. DEFINE lines == EditedLines(p, edits)
            cost == [q \in Proposals |-> TotalCost(q, proposals'[q].lines)]
            others == [q \in OtherProposals(p) |-> TotalCost(q, proposals[q].lines)]
<1>1. /\ proposals'[p].lines = lines
      /\ \A q \in OtherProposals(p) : proposals'[q] = proposals[q]
  <2>1. proposals' = [proposals EXCEPT ![p] = RevisedProposal(p, expected, lines)]
      BY DEF Edit
  <2>2. RevisedProposal(p, expected, lines).lines = lines
      BY DEF RevisedProposal
  <2>3. DOMAIN proposals = Proposals
      BY DEF IInv, Tables
  <2>. HIDE DEF lines
  <2>. QED  BY <2>1, <2>2, <2>3 DEF OtherProposals
<1>2. TotalCost(p, lines) + SumFunction(others) <= Budget
    BY DEF Edit, WithinBudget, RevisedProposal
<1>3. cost \in [Proposals -> Int]
  <2>1. \A q \in Proposals : proposals'[q].lines \in [LinesOf[q] -> LineState]
      BY DEF IInv, Tables, ProposalRow
  <2>2. \A q \in Proposals : Priced(q)
      BY BudgetAssumption
  <2>3. \A q \in Proposals : TotalCost(q, proposals'[q].lines) \in Int
      BY <2>1, <2>2, OrderCostIsWhole
  <2>. QED  BY <2>3
<1>4. others = [q \in OtherProposals(p) |-> cost[q]]
    BY <1>1 DEF OtherProposals
<1>5. cost[p] = TotalCost(p, lines)
    BY <1>1
<1>. HIDE DEF lines, cost, others
<1>6. SumFunction(cost) = cost[p] + SumFunction(others)
    BY <1>3, <1>4, CostOfRun
<1>. QED  BY <1>2, <1>5, <1>6 DEF cost

\* No other step changes what an order costs.
LEMMA OtherStepsKeepCosts ==
    ASSUME IInv, NEW p \in Proposals,
           \/ \E expected, hash, acknowledged : Approve(p, expected, hash, acknowledged)
           \/ \E expected, key : Export(p, expected, key)
           \/ UNCHANGED vars
    PROVE  \A q \in Proposals : proposals'[q].lines = proposals[q].lines
<1>1. ASSUME proposals' = [proposals EXCEPT ![p] = ApprovedProposal(p)]
      PROVE  \A q \in Proposals : proposals'[q].lines = proposals[q].lines
  <2>1. proposals[p] \in ProposalRow(p) /\ DOMAIN proposals = Proposals
      BY DEF IInv, Tables
  <2>2. ApprovedProposal(p).lines = proposals[p].lines
      BY <2>1 DEF ApprovedProposal, ProposalRow
  <2>. QED  BY <1>1, <2>1, <2>2
<1>. QED  BY <1>1 DEF Approve, Export, vars

\* However the edits of different buyers interleave, the orders of a run never cost more
\* than its budget together.
THEOREM RunKeepsItsBudget == Spec => []RunWithinBudget
<1>1. Init => RunWithinBudget
  <2>. SUFFICES ASSUME Init, Budget # NoBudget PROVE RunWithinBudget
      BY DEF RunWithinBudget
  <2>1. SumFunction([p \in Proposals |-> TotalCost(p, PublishedProposal(p).lines)]) <= Budget
      BY BudgetAssumption
  <2>2. [p \in Proposals |-> TotalCost(p, proposals[p].lines)]
          = [p \in Proposals |-> TotalCost(p, PublishedProposal(p).lines)]
      BY DEF Init
  <2>. QED  BY <2>1, <2>2 DEF RunWithinBudget
<1>2. IInv /\ IInv' /\ RunWithinBudget /\ [Next]_vars => RunWithinBudget'
  <2>. SUFFICES ASSUME IInv, IInv', RunWithinBudget, [Next]_vars, Budget # NoBudget
                PROVE  RunWithinBudget'
      BY DEF RunWithinBudget
  <2>1. ASSUME \A q \in Proposals : proposals'[q].lines = proposals[q].lines
        PROVE  RunWithinBudget'
    <3>1. [q \in Proposals |-> TotalCost(q, proposals'[q].lines)]
            = [q \in Proposals |-> TotalCost(q, proposals[q].lines)]
        BY <2>1
    <3>. QED  BY <3>1 DEF RunWithinBudget
  <2>2. CASE Next
    <3>1. PICK p \in Proposals, expected \in Versions :
              \/ \E edits \in EditRequests(p) : Edit(p, expected, edits)
              \/ \E hash, acknowledged : Approve(p, expected, hash, acknowledged)
              \/ \E key : Export(p, expected, key)
        BY <2>2 DEF Next
    <3>2. CASE \E edits \in EditRequests(p) : Edit(p, expected, edits)
        BY <3>2, EditKeepsBudget DEF RunWithinBudget
    <3>3. CASE (\E hash, acknowledged : Approve(p, expected, hash, acknowledged))
               \/ (\E key : Export(p, expected, key))
        BY <2>1, <3>3, OtherStepsKeepCosts
    <3>. QED  BY <3>1, <3>2, <3>3
  <2>3. CASE UNCHANGED vars
      BY <2>1, <2>3 DEF vars
  <2>. QED  BY <2>2, <2>3
<1>. QED  BY <1>1, <1>2, InvariantHolds, PTL DEF Spec

================================================================================
