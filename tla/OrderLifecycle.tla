----------------------------- MODULE OrderLifecycle -----------------------------
(***************************************************************************)
(* The supplier orders ("proposals") of one planning run from the moment   *)
(* the run is published: edit, approve and export, as the HTTP handlers of *)
(* src/ekt/api/service.py execute them on the tables of                    *)
(* src/ekt/storage/store.py.                                               *)
(*                                                                         *)
(* Every handler runs inside one Store.transaction (BEGIN IMMEDIATE ...    *)
(* COMMIT, rolled back on any exception), so it is one action here; what   *)
(* interleaves is whole requests.  A client may send any version, hash and *)
(* key it ever saw, any number of times: stale screens, concurrent buyers, *)
(* lost answers and retries are all requests of this kind.  A request the  *)
(* handler refuses, and a replay that only returns the stored answer,      *)
(* leave the database alone and are no step.                               *)
(***************************************************************************)
EXTENDS Integers, Sequences, FiniteSetsExt

CONSTANTS
    Proposals,      \* the orders of the run, one per supplier, warehouse and currency
    Lines,          \* order lines (line_id)
    LinesOf,        \* [Proposals -> SUBSET Lines], fixed when the run is published
    Terms,          \* [Lines -> [moq, pack, conversion, quantum, unit_cost]]
    Recommended,    \* [Lines -> Nat], the planned purchase quantity
    BlockedLines,   \* lines with a warning of severity "blocking"
    Budget,         \* policy.budget_cap of the run, or NoBudget
    Preview,        \* mode = "real_preview"
    SnapshotCanApprove, \* snapshot.quality.capabilities.can_approve
    BuyerPrepared,  \* the snapshot records a buyer_preparation override
    Role,           \* EKT_DEMO_ROLE of the coordinator
    ExportKeys,     \* idempotency keys clients choose for exports
    NoBudget, NoCost, NoReservation,
    MaxPurchase,    \* BOUND: largest purchase quantity a buyer types
    MaxVersion      \* BOUND: last version of an order that is reached

VARIABLES
    proposals,      \* table items, kind "proposals": the current row of each order
    versions,       \* table item_versions: payload of version v as it was created
    approvalKeys,   \* table idempotency, scope "approval", key "<id>:<version>"
    exportKeys,     \* table idempotency, scope "export"
    exports,        \* table items, kind "exports"
    audit           \* table audit_events, by order, in sequence

vars == <<proposals, versions, approvalKeys, exportKeys, exports, audit>>

Versions == 1..MaxVersion

\* Quantities are whole numbers: the decimals of the code scaled by their step.
ASSUME ArticleAssumption ==
    /\ LinesOf \in [Proposals -> SUBSET Lines]
    /\ \A l \in Lines : Terms[l].conversion \in Nat /\ Recommended[l] \in Nat

ASSUME BoundAssumption == MaxVersion \in Nat \ {0} /\ MaxPurchase \in Nat

--------------------------------------------------------------------------------
(* Quantities, cost and content of an order.                               *)

\* A quantity the buyer may type: zero defers the line; anything else reaches
\* the MOQ, fills whole packs and lands on the stock quantum.
ValidPurchase(l, quantity) ==
    /\ quantity # 0 => quantity >= Terms[l].moq
    /\ quantity % Terms[l].pack = 0
    /\ (quantity * Terms[l].conversion) % Terms[l].quantum = 0

BaseQuantity(l, quantity) == quantity * Terms[l].conversion

\* The ledger of a line is its planned part, which sums to the recommended base
\* quantity, and one manual_override_delta (0 before any edit).
PlannedLine(l) ==
    [purchase |-> Recommended[l], base |-> BaseQuantity(l, Recommended[l]), override |-> 0]

LedgerTotal(l, line) == BaseQuantity(l, Recommended[l]) + line.override

\* Faulty variant: the old manual delta stays in the ledger when a new one is booked.
EditedLineKeepingOverride(l, line, quantity) ==
    LET base == BaseQuantity(l, quantity)
    IN  [purchase |-> quantity, base |-> base,
         override |-> line.override + base - BaseQuantity(l, Recommended[l])]

\* An edit drops the old manual delta before it books the new one.
EditedLine(l, line, quantity) ==
    LET base == BaseQuantity(l, quantity)
        planned == LedgerTotal(l, line) - line.override
    IN  [purchase |-> quantity, base |-> base, override |-> base - planned]

\* edits maps the edited line ids to their new purchase quantities.
EditedLines(p, edits) ==
    [l \in LinesOf[p] |->
        IF l \in DOMAIN edits
        THEN EditedLine(l, proposals[p].lines[l], edits[l])
        ELSE proposals[p].lines[l]]

Priced(p) == LinesOf[p] # {} /\ \A l \in LinesOf[p] : Terms[l].unit_cost # NoCost

TotalCost(p, lines) == SumFunction([l \in LinesOf[p] |-> lines[l].base * Terms[l].unit_cost])

HasPositiveLine(p, lines) == \E l \in LinesOf[p] : lines[l].purchase > 0

\* capabilities.can_approve, as planning and every edit compute it.
CanApprove(p, lines) ==
    /\ SnapshotCanApprove
    /\ HasPositiveLine(p, lines)
    /\ LinesOf[p] \cap BlockedLines = {}

\* proposal_hash covers the version and everything ordered, not the status, the
\* capabilities or the hash itself; digests do not collide.
ContentHash(version, lines) == <<version, lines>>

\* Shapes of what the tables hold.
LineState == [purchase : Nat, base : Nat, override : Int]

ContentHashes(p) == Versions \X [LinesOf[p] -> LineState]

ProposalRow(p) ==
    [version : Versions, lines : [LinesOf[p] -> LineState], status : {"draft", "approved"},
     can_approve : BOOLEAN, can_export : BOOLEAN, content_hash : ContentHashes(p)]

Reservation(requests) == [hash : requests, result : Proposals \X Nat]

ExportRequests ==
    UNION {[proposal : {p}, version : Versions, hash : ContentHashes(p)] : p \in Proposals}

ASSUME NoReservationAssumption ==
    /\ \A p \in Proposals : NoReservation \notin Reservation(ContentHashes(p))
    /\ NoReservation \notin Reservation(ExportRequests)

ASSUME GateAssumption == {Preview, SnapshotCanApprove, BuyerPrepared} \subseteq BOOLEAN

--------------------------------------------------------------------------------
\* Rows as the planning run publishes them, and the tables around them.
PublishedProposal(p) ==
    LET lines == [l \in LinesOf[p] |-> PlannedLine(l)]
    IN  [version |-> 1, lines |-> lines, status |-> "draft",
         can_approve |-> CanApprove(p, lines), can_export |-> FALSE,
         content_hash |-> ContentHash(1, lines)]

\* Prices are nonnegative or absent, by the contract of the terms.  A run with a budget
\* is planned within it, and only if every line has a price (BudgetKept and
\* StartAllocation of Replenishment).
ASSUME BudgetAssumption ==
    /\ IsFiniteSet(Proposals) /\ \A p \in Proposals : IsFiniteSet(LinesOf[p])
    /\ \A l \in Lines : Terms[l].unit_cost \in Nat \cup {NoCost}
    /\ Budget # NoBudget =>
          /\ Budget \in Int /\ \A p \in Proposals : Priced(p)
          /\ SumFunction([p \in Proposals |-> TotalCost(p, PublishedProposal(p).lines)]) <= Budget

Init ==
    /\ proposals = [p \in Proposals |-> PublishedProposal(p)]
    /\ versions = [p \in Proposals |-> <<PublishedProposal(p)>>]
    /\ approvalKeys = [p \in Proposals |-> [v \in Versions |-> NoReservation]]
    /\ exportKeys = [k \in ExportKeys |-> NoReservation]
    /\ exports = {}
    /\ audit = [p \in Proposals |-> <<>>]

\* uuid4 identifiers are fresh; the next audit position of the order stands for one.
FreshId(p) == <<p, Len(audit[p]) + 1>>

\* Faulty variant: the last writer wins.
AnyVersionMatches(p, expected) == TRUE

\* mutate_item and update_item: the version test every write makes.
VersionMatches(p, expected) == proposals[p].version = expected

--------------------------------------------------------------------------------
(* PATCH /v1/proposals/{id}: Service.edit.                                  *)

\* Faulty variant: the budget is checked order by order.
NoOtherProposals(p) == {}

OtherProposals(p) == Proposals \ {p}

\* The budget belongs to the whole run: the other orders count with the cost of
\* their current rows, read while this transaction holds the write lock.
WithinBudget(p, lines) ==
    Budget # NoBudget =>
        /\ Priced(p) /\ \A q \in OtherProposals(p) : Priced(q)
        /\ TotalCost(p, lines)
             + SumFunction([q \in OtherProposals(p) |-> TotalCost(q, proposals[q].lines)])
           <= Budget

\* Faulty variant: an edit leaves status and export capability as they were.
RevisedProposalStillApproved(p, expected, lines) ==
    [version |-> expected + 1, lines |-> lines, status |-> proposals[p].status,
     can_approve |-> CanApprove(p, lines), can_export |-> proposals[p].can_export,
     content_hash |-> ContentHash(expected + 1, lines)]

\* The row an edit stores: a new draft that lost the old approval.
RevisedProposal(p, expected, lines) ==
    [version |-> expected + 1, lines |-> lines, status |-> "draft",
     can_approve |-> CanApprove(p, lines), can_export |-> FALSE,
     content_hash |-> ContentHash(expected + 1, lines)]

EditEvent(version) == [action |-> "edit", item_version |-> version]

Edit(p, expected, edits) ==
    LET revised == RevisedProposal(p, expected, EditedLines(p, edits))
    IN  /\ Role = "approver"
        /\ VersionMatches(p, expected)
        /\ \A l \in DOMAIN edits : ValidPurchase(l, edits[l])
        /\ WithinBudget(p, revised.lines)
        /\ proposals' = [proposals EXCEPT ![p] = revised]
        /\ versions' = [versions EXCEPT ![p] = Append(@, revised)]
        /\ audit' = [audit EXCEPT ![p] = Append(@, EditEvent(revised.version))]
        /\ UNCHANGED <<approvalKeys, exportKeys, exports>>

--------------------------------------------------------------------------------
(* POST /v1/proposals/{id}/approve: Service.approve.                        *)

\* _validate_approvable: what must hold of a row to approve it and, again, to
\* export it.
Approvable(p) ==
    LET data == proposals[p]
    IN  /\ HasPositiveLine(p, data.lines)
        /\ data.can_approve
        /\ Preview => SnapshotCanApprove /\ BuyerPrepared
        /\ \A l \in LinesOf[p] :
              /\ ValidPurchase(l, data.lines[l].purchase)
              /\ LedgerTotal(l, data.lines[l]) = data.lines[l].base

StoredHashIsCurrent(p) ==
    proposals[p].content_hash = ContentHash(proposals[p].version, proposals[p].lines)

ApproveEvent(p, id, hash) ==
    [action |-> "approve", item_version |-> proposals[p].version,
     approval_id |-> id, content_hash |-> hash]

\* A status-only write: bump_version=False keeps the version and adds no history row.
ApprovedProposal(p) ==
    [proposals[p] EXCEPT !.status = "approved", !.can_export = TRUE]

Approve(p, expected, hash, acknowledged) ==
    /\ Role = "approver"
    /\ VersionMatches(p, expected)
    /\ hash = proposals[p].content_hash
    /\ StoredHashIsCurrent(p)
    /\ Approvable(p)
    /\ Preview => acknowledged
    /\ approvalKeys[p][expected] = NoReservation
    /\ approvalKeys' = [approvalKeys EXCEPT ![p][expected] = [hash |-> hash, result |-> FreshId(p)]]
    /\ proposals' = [proposals EXCEPT ![p] = ApprovedProposal(p)]
    /\ audit' = [audit EXCEPT ![p] = Append(@, ApproveEvent(p, FreshId(p), hash))]
    /\ UNCHANGED <<versions, exportKeys, exports>>

--------------------------------------------------------------------------------
(* POST /v1/proposals/{id}/export: Service.export.                          *)

\* Faulty variant: the CSV lists the recommendation instead of the buyer's choice.
CsvRowsOfRecommendation(p, lines) ==
    {[line |-> l, purchase |-> PlannedLine(l).purchase, base |-> PlannedLine(l).base] :
        l \in {l \in LinesOf[p] : lines[l].purchase # 0}}

\* The CSV keeps the lines that order something.
CsvRows(p, lines) ==
    {[line |-> l, purchase |-> lines[l].purchase, base |-> lines[l].base] :
        l \in {l \in LinesOf[p] : lines[l].purchase # 0}}

ExportRequest(p) ==
    [proposal |-> p, version |-> proposals[p].version, hash |-> proposals[p].content_hash]

\* Faulty variant: export trusts the capability that planning computed.
ExportableByCapability(p, expected) == VersionMatches(p, expected) /\ Approvable(p)

Exportable(p, expected) ==
    /\ VersionMatches(p, expected)
    /\ proposals[p].status = "approved"
    /\ StoredHashIsCurrent(p)
    /\ Approvable(p)

\* Faulty variant: every export request renders and stores a new CSV.
KeyIsAlwaysFree(key) == TRUE

\* A key used before either replays the saved CSV or is a conflict: no write.
KeyIsFree(key) == exportKeys[key] = NoReservation

CsvExport(p, id) ==
    [export_id |-> id, proposal |-> p, version |-> proposals[p].version,
     rows |-> CsvRows(p, proposals[p].lines)]

ExportEvent(p, id) ==
    [action |-> "export", item_version |-> proposals[p].version, export_id |-> id]

Export(p, expected, key) ==
    /\ Role = "approver"
    /\ Exportable(p, expected)
    /\ KeyIsFree(key)
    /\ exportKeys' = [exportKeys EXCEPT ![key] = [hash |-> ExportRequest(p), result |-> FreshId(p)]]
    /\ exports' = exports \cup {CsvExport(p, FreshId(p))}
    /\ audit' = [audit EXCEPT ![p] = Append(@, ExportEvent(p, FreshId(p)))]
    /\ UNCHANGED <<proposals, versions, approvalKeys>>

--------------------------------------------------------------------------------
\* A request edits at least one line of the order, each once.
EditRequests(p) ==
    UNION {[ls -> 0..MaxPurchase] : ls \in (SUBSET LinesOf[p]) \ {{}}}

\* Versions and hashes a client can have on its screen are those that existed.
SeenHashes(p) == {versions[p][v].content_hash : v \in DOMAIN versions[p]}

Next ==
    \E p \in Proposals, expected \in Versions :
        \/ /\ expected < MaxVersion
           /\ \E edits \in EditRequests(p) : Edit(p, expected, edits)
        \/ \E hash \in SeenHashes(p), acknowledged \in BOOLEAN :
              Approve(p, expected, hash, acknowledged)
        \/ \E key \in ExportKeys : Export(p, expected, key)

Spec == Init /\ [][Next]_vars

--------------------------------------------------------------------------------
(* Properties.                                                             *)

\* Every row has the shape its handler writes, at a version that exists.
TypeOK ==
    /\ DOMAIN proposals = Proposals
    /\ \A p \in Proposals :
          /\ proposals[p] \in ProposalRow(p)
          /\ versions[p] \in Seq(ProposalRow(p))
    /\ \A x \in exports : x.proposal \in Proposals /\ x.version \in Versions

Events(p, action) == {i \in DOMAIN audit[p] : audit[p][i].action = action}

\* Order p carries status "approved" exactly when the audit trail holds an approval
\* of its current version, that approval names the content of the row as it is now,
\* and no version was ever approved twice.  An edit that kept the old approval, an
\* approval applied to content the buyer did not send, or a retried approval that
\* was recorded again would break it (Service.edit, Service.approve).
ApprovalMatchesAudit ==
    \A p \in Proposals :
        LET row == proposals[p]
        IN  /\ row.status = "approved" <=>
                  \E i \in Events(p, "approve") : audit[p][i].item_version = row.version
            /\ row.can_export <=> row.status = "approved"
            /\ \A i \in Events(p, "approve") :
                  /\ audit[p][i].item_version = row.version =>
                        audit[p][i].content_hash = <<row.version, row.lines>>
                  /\ \A j \in Events(p, "approve") :
                        audit[p][i].item_version = audit[p][j].item_version => i = j

\* Every CSV that left the system was preceded, in the audit trail of its order, by
\* an approval of the same version, and its rows are the nonzero lines of the content
\* that approval named (Service.export).
ExportsWereSigned ==
    \A x \in exports :
        \E i \in Events(x.proposal, "approve"), j \in Events(x.proposal, "export") :
            LET signature == audit[x.proposal][i]
                lines == signature.content_hash[2]
            IN  /\ i < j
                /\ audit[x.proposal][j].export_id = x.export_id
                /\ signature.item_version = x.version
                /\ x.rows = {[line |-> l, purchase |-> lines[l].purchase, base |-> lines[l].base] :
                                l \in {l \in LinesOf[x.proposal] : lines[l].purchase # 0}}
                /\ x.rows # {}

\* A used export key always resolves to one stored CSV of the request it was used
\* for, different keys never share a CSV, and every CSV has exactly one audit event:
\* a retried export repeats nothing (Service.export, reserve_idempotency).
ExportKeysNameOneCsv ==
    LET used == {k \in ExportKeys : exportKeys[k] # NoReservation}
    IN  /\ \A k \in used : \E x \in exports :
              /\ x.export_id = exportKeys[k].result
              /\ x.proposal = exportKeys[k].hash.proposal
              /\ x.version = exportKeys[k].hash.version
        /\ \A k, m \in used : exportKeys[k].result = exportKeys[m].result => k = m
        /\ \A x \in exports :
              /\ \E k \in used : exportKeys[k].result = x.export_id
              /\ Cardinality({j \in Events(x.proposal, "export") :
                                audit[x.proposal][j].export_id = x.export_id}) = 1

\* The explanation of every line sums to the selected base quantity however often the
\* line was edited: one manual_override_delta, never two (Service.edit).
LedgerReconciles ==
    \A p \in Proposals : \A l \in LinesOf[p] :
        LedgerTotal(l, proposals[p].lines[l]) = proposals[p].lines[l].base

\* Edits of different orders, made by different buyers, never exceed together the
\* budget that the run was planned under (Service.edit).
RunWithinBudget ==
    Budget # NoBudget =>
        SumFunction([p \in Proposals |-> TotalCost(p, proposals[p].lines)]) <= Budget

\* Versions advance one at a time and only they change content; an item version and
\* an audit event, once written, stay as they are (Store: "Historical payloads and
\* audit events are immutable").
HistoryOnlyGrows ==
    [][\A p \in Proposals :
        /\ proposals[p]'.version \in {proposals[p].version, proposals[p].version + 1}
        /\ proposals[p]'.version = proposals[p].version => proposals[p]'.lines = proposals[p].lines
        /\ versions[p]'[proposals[p]'.version].lines = proposals[p]'.lines
        /\ SubSeq(versions[p]', 1, Len(versions[p])) = versions[p]
        /\ SubSeq(audit[p]', 1, Len(audit[p])) = audit[p]]_vars

--------------------------------------------------------------------------------
(* The abstract promise: what a buyer sees, signs and releases.            *)

\* What an order asks the supplier for.
OrderedGoods(p, lines) ==
    {<<l, lines[l].purchase, lines[l].base>> : l \in {l \in LinesOf[p] : lines[l].purchase # 0}}

DocumentBar ==
    [p \in Proposals |->
        [revision |-> proposals[p].version, content |-> OrderedGoods(p, proposals[p].lines)]]

SignedBar ==
    UNION {{[proposal |-> p, revision |-> audit[p][i].item_version,
             content |-> OrderedGoods(p, audit[p][i].content_hash[2])] :
                i \in Events(p, "approve")} : p \in Proposals}

ReleasedBar ==
    {[proposal |-> x.proposal, revision |-> x.version,
      content |-> {<<r.line, r.purchase, r.base>> : r \in x.rows}] : x \in exports}

Contract == INSTANCE ReleaseContract
    WITH document <- DocumentBar, signed <- SignedBar, released <- ReleasedBar

\* The tables and handlers implement the promise: only a signed, current revision is
\* released, with the goods that were signed, and nothing signed or released is lost.
ImplementsReleaseContract == Contract!Spec

================================================================================
