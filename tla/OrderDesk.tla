------------------------------- MODULE OrderDesk -------------------------------
(* The order screen of one buyer (apps/buyer_ui/views.py, workflow.py) against *)
(* an API that other buyers use too and whose answers may be lost.             *)
(*                                                                             *)
(* Every click makes Streamlit run the whole script again: it reads the order, *)
(* draws it and, when the click asks for that, sends a request.  The session   *)
(* keeps drafts, the identity of the order drawn last and the downloaded CSV   *)
(* between runs.  What the API does with a request is the summary of           *)
(* OrderLifecycle that a client can observe.                                   *)
EXTENDS Naturals, FiniteSets, TLC

CONSTANTS
    Orders,         \* supplier orders
    OrderOf,        \* order of a line; its domain is the set of lines
    RunOf,          \* planning run of an order
    FirstLine,      \* line the picker of an order starts with
    FirstOrder,     \* order the picker of a run starts with
    Planned,        \* quantity the plan recommends for a line
    Quantities,     \* purchase quantities a buyer enters
    MaxVersion,     \* bound: the version an order can reach
    MaxLate,        \* bound: requests that are under way without an answer
    None            \* "absent", in the session as in an answer

Lines == DOMAIN OrderOf
Runs == {RunOf[o] : o \in Orders}
LinesOf(o) == {l \in Lines : OrderOf[l] = o}

ASSUME DeskAssumption ==
    /\ RunOf \in [Orders -> Runs]
    /\ OrderOf \in [Lines -> Orders]
    /\ \A o \in Orders : FirstLine[o] \in LinesOf(o)
    /\ FirstOrder \in [Runs -> Orders] /\ \A r \in Runs : RunOf[FirstOrder[r]] = r
    /\ Quantities \subseteq Nat /\ Planned \in [Lines -> Quantities]
    /\ MaxVersion \in [Orders -> Nat \ {0}] /\ MaxLate \in Nat
    /\ \A o \in Orders : None \notin
          [order : {o}, version : 1..MaxVersion[o], hash : [LinesOf(o) -> Quantities]]

VARIABLES
    \* the API
    orders,         \* version, quantities and status of each order
    csvs,           \* CSV exports this session caused, by idempotency key
    late,           \* requests whose answer the client no longer waits for
    \* st.session_state of the buyer
    run, order, line,   \* run_id, proposal_id and line_picker
    drafts,         \* order_drafts
    reviewed,       \* reviewed:<proposal_id>
    download,       \* order_download
    keys,           \* export_keys
    \* the script run
    step,           \* where it is; "idle" when the screen is complete
    screen,         \* the proposal this run read, None if that failed
    \* history
    clicked,        \* while a click is handled: identity on the screen it was made on
    seen            \* order versions that were drawn to the end

session == <<run, order, line, drafts, reviewed, download, keys>>
server == <<orders, csvs, late>>
history == <<clicked, seen>>
vars == <<server, session, step, screen, history>>

--------------------------------------------------------------------------------
(* The API as a client can observe it.                                         *)

\* get_proposal: the row as it is now.
Proposal(o) ==
    [order |-> o, version |-> orders[o].version, qty |-> orders[o].qty,
     approved |-> orders[o].approved]

\* (proposal_id, version, content_hash, ...) of refresh_review; digests do not
\* collide, so the hash is the content.
Identity(p) == [order |-> p.order, version |-> p.version, hash |-> p.qty]

CanApprove(p) == \E l \in DOMAIN p.qty : p.qty[l] > 0

Edited(request) ==
    [orders EXCEPT ![request.order] =
        [version |-> @.version + 1, qty |-> [@.qty EXCEPT ![request.line] = request.qty],
         approved |-> FALSE]]

\* Whether the handler accepts a request in this state.
Accepts(request) ==
    LET o == request.order
    IN  /\ request.version = orders[o].version
        /\ CASE request.kind = "edit" -> orders[o].version < MaxVersion[o]
             [] request.kind = "approve" ->
                   request.hash = orders[o].qty /\ CanApprove(Proposal(o))
             [] request.kind = "export" -> orders[o].approved

\* What an accepted request does; a key that is known replays its CSV.
Handle(request) ==
    LET o == request.order
    IN  /\ orders' = CASE request.kind = "edit" -> Edited(request)
                       [] request.kind = "approve" -> [orders EXCEPT ![o].approved = TRUE]
                       [] request.kind = "export" -> orders
        /\ csvs' = IF request.kind = "export" /\ \A c \in csvs : c.key # request.key
                   THEN csvs \cup {[key |-> request.key, identity |-> Identity(Proposal(o)),
                                    qty |-> orders[o].qty]}
                   ELSE csvs

NothingHandled == UNCHANGED <<orders, csvs>>

\* Another buyer works on the same orders.
OtherBuyerEdits(o, l, q) ==
    /\ orders[o].version < MaxVersion[o]
    /\ orders' = Edited([order |-> o, line |-> l, qty |-> q])
    /\ UNCHANGED <<csvs, late, session, step, screen, history>>

OtherBuyerApproves(o) ==
    /\ CanApprove(Proposal(o)) /\ ~orders[o].approved
    /\ orders' = [orders EXCEPT ![o].approved = TRUE]
    /\ UNCHANGED <<csvs, late, session, step, screen, history>>

\* A request the client gave up on is still handled, or is refused by then.
LateRequest(request) ==
    /\ late' = late \ {request}
    /\ IF Accepts(request) THEN Handle(request) ELSE NothingHandled
    /\ UNCHANGED <<session, step, screen, history>>

--------------------------------------------------------------------------------
(* One script run: render_orders.                                              *)

FreshDraft(p, l) ==
    [version |-> p.version, qty |-> p.qty[l], original |-> p.qty[l], uncertain |-> FALSE]

\* _edit: a line that is drawn gets a draft.
Drafted(ds, p, l) == IF ds[l] = None THEN [ds EXCEPT ![l] = FreshDraft(p, l)] ELSE ds

\* _draft_dirty
Dirty(d) == d # None /\ d.qty # d.original

DirtyOrder(ds, o) == \E l \in LinesOf(o) : Dirty(ds[l])

\* Faulty variant: a prepared CSV stays until the next one is prepared.
KeptDownloadAlways(ds, p) == download

\* _approval_and_export drops a CSV of anything but the order it draws.
KeptDownload(ds, p) ==
    IF /\ ~DirtyOrder(ds, p.order) /\ download # None
       /\ download.identity # Identity(p) \/ ~p.approved
    THEN None ELSE download

\* The script drew order p to its end: the buyer has now reviewed it.
Complete(ds, p, l) ==
    /\ drafts' = Drafted(ds, p, l)
    /\ download' = KeptDownload(drafts', p)
    /\ reviewed' = [reviewed EXCEPT ![p.order] = Identity(p)]
    /\ seen' = seen \cup {<<p.order, p.version>>}
    /\ screen' = p
    /\ step' = "idle"
    /\ clicked' = None

\* st.rerun(), or a click that stops this run: another run follows.
AskRerun == step' = "rerun" /\ clicked' = None

\* A read of the API failed: the script draws the error and nothing else.
DrawError ==
    /\ screen' = None /\ step' = "idle"
    /\ UNCHANGED <<session, history, server>>

Idle == step = "idle"
OnScreen(o) == screen # None /\ screen.order = o

\* Clicks that only read: refresh, other line, other order of the run, typing a
\* quantity (draft.update), or the rerun a handler asked for.
Draw(o, l, ds) ==
    /\ Complete(ds, Proposal(o), l)
    /\ order' = o /\ line' = l
    /\ UNCHANGED <<server, run, keys>>

Look(o, l) == Idle /\ RunOf[o] = run /\ OrderOf[l] = o /\ Draw(o, l, drafts)

Type(q) ==
    /\ Idle /\ OnScreen(order) /\ drafts[line] # None /\ drafts[line].qty # q
    /\ Draw(order, line, [drafts EXCEPT ![line].qty = q])

Rerun == step = "rerun" /\ Draw(order, line, drafts)

ReadFails == step \in {"idle", "rerun"} /\ screen # None /\ DrawError

\* activate_run and _select_run: drafts, reviews and download go with the run.
RunSelected(r) ==
    /\ run' = r
    /\ IF r = run THEN UNCHANGED <<drafts, reviewed, download>>
       ELSE /\ drafts' = [l \in Lines |-> None]
            /\ reviewed' = [o \in Orders |-> None]
            /\ download' = None

OpenRun(r) ==
    /\ Idle
    /\ RunSelected(r)
    /\ order' = IF r = run THEN order ELSE FirstOrder[r]
    /\ line' = IF r = run THEN line ELSE FirstLine[FirstOrder[r]]
    /\ step' = "rerun"
    /\ UNCHANGED <<server, keys, screen, history>>

--------------------------------------------------------------------------------
(* Editing: _edit.                                                             *)

Stale(d, p) == d.version # p.version

Draft == drafts[line]

\* "Use the current version for editing", after a conflict or a lost answer.
Rebase ==
    /\ Idle /\ OnScreen(order) /\ Draft # None
    /\ Stale(Draft, screen) \/ Draft.uncertain
    /\ drafts' = [drafts EXCEPT ![line].version = orders[order].version,
                                ![line].uncertain = FALSE]
    /\ screen' = Proposal(order)
    /\ step' = "rerun"
    /\ UNCHANGED <<server, run, order, line, reviewed, download, keys, history>>

Discard ==
    /\ Idle /\ OnScreen(order) /\ Dirty(Draft)
    /\ drafts' = [drafts EXCEPT ![line] = FreshDraft(Proposal(order), line)]
    /\ screen' = Proposal(order)
    /\ step' = "rerun"
    /\ UNCHANGED <<server, run, order, line, reviewed, download, keys, history>>

\* A click on a button that sends something: the script first reads the order.
Click(next) ==
    /\ clicked' = Identity(screen)
    /\ screen' = Proposal(order)
    /\ step' = next
    /\ UNCHANGED <<server, session, seen>>

\* The button is enabled when the draft is of the version on the screen.
Save ==
    /\ Idle /\ OnScreen(order) /\ Draft # None
    /\ ~Stale(Draft, screen) /\ ~Draft.uncertain
    /\ Click("saving")

\* Faulty variant: the version just read is sent, not the one of the draft.
EditRequestOfScreen ==
    [kind |-> "edit", order |-> order, line |-> line, qty |-> Draft.qty,
     version |-> screen.version]

EditRequest ==
    [kind |-> "edit", order |-> order, line |-> line, qty |-> Draft.qty,
     version |-> Draft.version]

\* HttpClient._call: the API handled the request and said so, or refused it.
Answered(request) == Accepts(request) /\ Handle(request) /\ UNCHANGED late
Refused(request) == ~Accepts(request) /\ NothingHandled /\ UNCHANGED late

\* Timeout, broken connection, answer that cannot be read, or HTTP 5xx: the
\* request may have been handled, may be handled later, or never.
Unknown(request) ==
    /\ Cardinality(late) < MaxLate
    /\ late' = late \cup {request}
    /\ NothingHandled

\* A click while the script waits stops it when the answer is there: what the
\* script would have done with the answer does not happen.
Interrupted(request) ==
    /\ Answered(request) \/ Refused(request) \/ Unknown(request)
    /\ AskRerun
    /\ UNCHANGED <<session, screen, seen>>

SaveEnds ==
    /\ step = "saving"
    /\ \/ /\ Answered(EditRequest)
          /\ drafts' = [drafts EXCEPT ![line].version = @ + 1, ![line].original = Draft.qty]
          /\ download' = None
          /\ AskRerun
          /\ UNCHANGED <<run, order, line, reviewed, keys, screen, seen>>
       \/ /\ Refused(EditRequest)
          /\ Complete(drafts, screen, line)
          /\ UNCHANGED <<run, order, line, keys>>
       \/ /\ Unknown(EditRequest)
          /\ Complete([drafts EXCEPT ![line].uncertain = TRUE], screen, line)
          /\ UNCHANGED <<run, order, line, keys>>
       \/ Interrupted(EditRequest)

--------------------------------------------------------------------------------
(* Approval and export: _approval_and_export, _prepare_download, workflow.py.  *)

\* Faulty variant: what the script has just read counts as reviewed.
ReviewOfScreen == Identity(screen)

\* reviewed = st.session_state.get(review_key, proposal)
Review == IF reviewed[order] = None THEN Identity(screen) ELSE reviewed[order]

\* The rest of the script after an error was shown.
EndScript ==
    /\ Complete(drafts, screen, line)
    /\ UNCHANGED <<run, order, line, keys>>

ClickApprove ==
    /\ Idle /\ OnScreen(order) /\ ~DirtyOrder(drafts, order)
    /\ ~screen.approved /\ CanApprove(screen)
    /\ IF orders[order].approved
       THEN Draw(order, line, drafts)      \* the button is gone
       ELSE Click("approve check")

\* refresh_review: the order is read once more and must be the reviewed one.
StillReviewed(capability) == Identity(Proposal(order)) = Review /\ capability

CheckBeforeApproval ==
    /\ step = "approve check"
    /\ IF StillReviewed(CanApprove(Proposal(order)))
       THEN step' = "approving" /\ UNCHANGED <<session, screen, clicked, seen>>
       ELSE EndScript
    /\ NothingHandled /\ UNCHANGED late

ApproveRequest ==
    [kind |-> "approve", order |-> order, version |-> Review.version, hash |-> Review.hash,
     shown |-> clicked]

ApproveEnds ==
    /\ step = "approving"
    /\ \/ /\ Answered(ApproveRequest)
          /\ step' = "export check after approval"
          /\ UNCHANGED <<session, screen, clicked, seen>>
       \/ Refused(ApproveRequest) /\ EndScript
       \/ Unknown(ApproveRequest) /\ EndScript
       \/ Interrupted(ApproveRequest)

ClickExport ==
    /\ Idle /\ OnScreen(order) /\ ~DirtyOrder(drafts, order)
    /\ screen.approved /\ download = None
    /\ IF ~orders[order].approved
       THEN Draw(order, line, drafts)      \* the button is gone
       ELSE Click("export check")

\* keys.setdefault(identity, uuid4())
ExportKey(identity) ==
    IF \E k \in keys : k.of = identity
    THEN CHOOSE k \in keys : k.of = identity
    ELSE [of |-> identity, attempt |-> Cardinality(keys) + 1]

\* An error of the export: shown at once, or kept for the rerun after an approval.
ExportFailed ==
    IF step \in {"export check after approval", "exporting after approval"}
    THEN AskRerun /\ UNCHANGED <<run, order, line, drafts, reviewed, download, screen, seen>>
    ELSE Complete(drafts, screen, line) /\ UNCHANGED <<run, order, line>>

CheckBeforeExport ==
    /\ step \in {"export check", "export check after approval"}
    /\ keys' = keys \cup {ExportKey(Review)}
    /\ IF StillReviewed(orders[order].approved)
       THEN /\ step' = IF step = "export check" THEN "exporting" ELSE "exporting after approval"
            /\ UNCHANGED <<run, order, line, drafts, reviewed, download, screen, clicked, seen>>
       ELSE ExportFailed
    /\ NothingHandled /\ UNCHANGED late

ExportRequest ==
    [kind |-> "export", order |-> order, version |-> Review.version,
     key |-> CHOOSE k \in keys : k.of = Review]

ExportEnds ==
    /\ step \in {"exporting", "exporting after approval"}
    /\ \/ /\ Answered(ExportRequest)
          /\ download' = [identity |-> Review,
                          csv |-> CHOOSE c \in csvs' : c.key = ExportRequest.key]
          /\ AskRerun
          /\ UNCHANGED <<run, order, line, drafts, reviewed, keys, screen, seen>>
       \/ Refused(ExportRequest) /\ ExportFailed /\ UNCHANGED keys
       \/ Unknown(ExportRequest) /\ ExportFailed /\ UNCHANGED keys
       \/ Interrupted(ExportRequest)

--------------------------------------------------------------------------------
Init ==
    /\ orders = [o \in Orders |-> [version |-> 1, qty |-> [l \in LinesOf(o) |-> Planned[l]],
                                  approved |-> FALSE]]
    /\ csvs = {} /\ late = {}
    /\ \E r \in Runs :
          /\ run = r /\ order = FirstOrder[r] /\ line = FirstLine[FirstOrder[r]]
    /\ drafts = [l \in Lines |-> None]
    /\ reviewed = [o \in Orders |-> None]
    /\ download = None /\ keys = {}
    /\ step = "rerun" /\ screen = None
    /\ clicked = None /\ seen = {}

Next ==
    \/ \E o \in Orders, l \in Lines : Look(o, l)
    \/ \E q \in Quantities : Type(q)
    \/ \E r \in Runs : OpenRun(r)
    \/ Rerun \/ ReadFails
    \/ Rebase \/ Discard \/ Save \/ SaveEnds
    \/ ClickApprove \/ CheckBeforeApproval \/ ApproveEnds
    \/ ClickExport \/ CheckBeforeExport \/ ExportEnds
    \/ \E o \in Orders : OtherBuyerApproves(o)
    \/ \E l \in Lines, q \in Quantities : OtherBuyerEdits(OrderOf[l], l, q)
    \/ \E request \in late : LateRequest(request)

Spec == Init /\ [][Next]_vars

--------------------------------------------------------------------------------
(* Properties.                                                                 *)

\* Requests that are sent or under way.
UnderWay ==
    late \cup (IF step = "saving" THEN {EditRequest} ELSE {})
         \cup (IF step = "approving" THEN {ApproveRequest} ELSE {})

\* Whatever other buyers, lost answers, late requests and interrupted scripts do,
\* an approval this session sends is of the version and content its buyer had on
\* the screen when clicking (views.py: reviewed, workflow.py: refresh_review).
ApprovedAsReviewed ==
    \A r \in UnderWay : r.kind = "approve" =>
        [order |-> r.order, version |-> r.version, hash |-> r.hash] = r.shown

\* An edit of this session can only replace a version that was drawn for the
\* buyer to the end: a newer version is never overwritten unseen, also not by an
\* edit that is sent again after its answer was lost (views.py: _edit).
EditsReplaceWhatWasSeen ==
    \A r \in UnderWay : r.kind = "edit" => <<r.order, r.version>> \in seen

\* The CSV offered for download is the one of the order drawn next to it: same
\* quantities, of an approved version (views.py: _approval_and_export).
OfferedCsvMatchesScreen ==
    Idle /\ OnScreen(order) /\ download # None /\ ~DirtyOrder(drafts, order) =>
        /\ download.identity = Identity(screen)
        /\ download.csv.qty = screen.qty
        /\ screen.approved

\* docs/demo/ui-simplification.md: a quantity that is not saved has to be saved or
\* discarded before approval.  When an approval is sent, no field that could be
\* saved as it stands, its draft being of the approved version, holds another
\* quantity than the one approved (views.py: _draft_dirty, _edit).
UnsavedQuantityBlocksApproval ==
    step = "approving" =>
        \A l \in LinesOf(order) :
            drafts[l] # None /\ ~Stale(drafts[l], Review) => drafts[l].qty = Review.hash[l]

================================================================================
