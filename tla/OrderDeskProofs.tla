----------------------------- MODULE OrderDeskProofs -----------------------------
(* What the order screen sends is what its buyer reviewed, for any orders,      *)
(* lines, quantities and number of lost answers.  The invariant says what the   *)
(* script may rely on between a click and the request it leads to: the review   *)
(* kept in the session is the screen that was clicked on.                       *)
EXTENDS OrderDesk, TLAPS

Contents(o) == [LinesOf(o) -> Quantities]
Identities(o) == [order : {o}, version : 1..MaxVersion[o], hash : Contents(o)]
ProposalsOf(o) ==
    [order : {o}, version : 1..MaxVersion[o], qty : Contents(o), approved : BOOLEAN]
Drafts == [version : Nat, qty : Quantities, original : Quantities, uncertain : BOOLEAN]

EditRequests == [kind : {"edit"}, order : Orders, line : Lines, qty : Quantities, version : Nat]

Working ==
    {"saving", "approve check", "approving", "export check", "exporting",
     "export check after approval", "exporting after approval"}

OrdersTyped ==
    /\ DOMAIN orders = Orders
    /\ orders = [o \in Orders |-> orders[o]]
    /\ \A o \in Orders : orders[o] \in [version : 1..MaxVersion[o], qty : Contents(o), approved : BOOLEAN]

SessionTyped ==
    /\ order \in Orders /\ line \in LinesOf(order)
    /\ drafts \in [Lines -> Drafts \cup {None}]
    /\ DOMAIN reviewed = Orders /\ reviewed = [o \in Orders |-> reviewed[o]]
    /\ step \in Working \cup {"idle", "rerun"}
    /\ screen # None => screen.order \in Orders /\ screen \in ProposalsOf(screen.order)

\* A request that is under way: an edit replaces a version that was drawn to the end, an
\* approval signs what was on the screen.
Sound(r) ==
    /\ r.order \in Orders
    /\ \/ r \in EditRequests /\ <<r.order, r.version>> \in seen
       \/ r.kind = "approve" /\ [order |-> r.order, version |-> r.version, hash |-> r.hash] = r.shown
       \/ r.kind = "export"

LateIsSound == \A r \in late : Sound(r)

\* A complete screen was reviewed.
ScreenIsReviewed ==
    Idle /\ OnScreen(order) =>
        reviewed[order] = Identity(screen) /\ <<order, screen.version>> \in seen

\* Between a click and its request the review is of the screen that was clicked on.
ClickIsReviewed ==
    step \in Working =>
        /\ screen \in ProposalsOf(order) /\ screen.order = order
        /\ reviewed[order] = clicked /\ clicked \in Identities(order)
        /\ step = "saving" => drafts[line] \in Drafts /\ <<order, drafts[line].version>> \in seen

IInv ==
    /\ OrdersTyped /\ SessionTyped /\ LateIsSound
    /\ ScreenIsReviewed /\ ClickIsReviewed

--------------------------------------------------------------------------------
(* The API.                                                                    *)

LEMMA LinesTyped == \A o \in Orders : \A l \in LinesOf(o) : l \in Lines /\ Planned[l] \in Quantities
PROOF BY DeskAssumption DEF LinesOf

LEMMA IInvInit == Init => IInv
<1> SUFFICES ASSUME Init PROVE IInv
    OBVIOUS
<1>1. OrdersTyped
    <2>1. \A o \in Orders : [l \in LinesOf(o) |-> Planned[l]] \in Contents(o)
        BY LinesTyped DEF Contents
    <2>2. \A o \in Orders : 1 \in 1..MaxVersion[o]
        BY DeskAssumption
    <2> QED BY <2>1, <2>2 DEF Init, OrdersTyped
<1>2. order \in Orders /\ line \in LinesOf(order)
    <2>1. PICK r \in Runs : order = FirstOrder[r] /\ line = FirstLine[FirstOrder[r]]
        BY DEF Init
    <2>2. RunOf[FirstOrder[r]] = r /\ r \in Runs
        BY DeskAssumption
    <2> QED BY <2>1, <2>2, DeskAssumption
<1>3. SessionTyped
    BY <1>2 DEF Init, SessionTyped
<1> QED BY <1>1, <1>3
    DEF Init, IInv, LateIsSound, ScreenIsReviewed, ClickIsReviewed, Idle, Working

\* What every request does with the orders, and that it keeps their types.
LEMMA EditedTyped ==
    ASSUME OrdersTyped, NEW o \in Orders, NEW l, NEW q \in Quantities,
           NEW request, request.order = o, request.line = l, request.qty = q,
           orders[o].version < MaxVersion[o], orders' = Edited(request)
    PROVE  OrdersTyped'
<1> DEFINE edited == [version |-> orders[o].version + 1, qty |-> [orders[o].qty EXCEPT ![l] = q],
                      approved |-> FALSE]
<1>1. orders' = [orders EXCEPT ![o] = edited]
    BY DEF Edited, OrdersTyped
<1>2. orders[o].version + 1 \in 1..MaxVersion[o]
    BY DeskAssumption DEF OrdersTyped
<1>3. [orders[o].qty EXCEPT ![l] = q] \in Contents(o)
    BY DEF OrdersTyped, Contents
<1>4. edited \in [version : 1..MaxVersion[o], qty : Contents(o), approved : BOOLEAN]
    BY <1>2, <1>3
<1> HIDE DEF edited
<1> QED BY <1>1, <1>4 DEF OrdersTyped

LEMMA ApprovedTyped ==
    ASSUME OrdersTyped, NEW o \in Orders, orders' = [orders EXCEPT ![o].approved = TRUE]
    PROVE  OrdersTyped'
<1> DEFINE approved == [orders[o] EXCEPT !.approved = TRUE]
<1>1. approved \in [version : 1..MaxVersion[o], qty : Contents(o), approved : BOOLEAN]
    BY DEF OrdersTyped
<1>2. orders' = [orders EXCEPT ![o] = approved]
    OBVIOUS
<1> HIDE DEF approved
<1> QED BY <1>1, <1>2 DEF OrdersTyped

LEMMA HandleTyped ==
    ASSUME OrdersTyped, NEW request, request.order \in Orders, Accepts(request), Handle(request),
           request.kind \in {"edit", "approve", "export"},
           request.kind = "edit" => request \in EditRequests
    PROVE  OrdersTyped'
<1>1. CASE request.kind = "edit"
    BY <1>1, EditedTyped DEF Accepts, Handle, EditRequests
<1>2. CASE request.kind = "approve"
    <2>1. orders' = [orders EXCEPT ![request.order].approved = TRUE]
        BY <1>2 DEF Handle
    <2> QED BY <2>1, ApprovedTyped
<1>3. CASE request.kind = "export"
    <2>1. orders' = orders
        BY <1>3 DEF Handle
    <2> QED BY <2>1 DEF OrdersTyped
<1> QED BY <1>1, <1>2, <1>3

LEMMA ProposalTyped ==
    ASSUME OrdersTyped, NEW o \in Orders
    PROVE  Proposal(o) \in ProposalsOf(o) /\ Proposal(o).order = o
PROOF BY DEF OrdersTyped, Proposal, ProposalsOf

LEMMA IdentityTyped ==
    ASSUME NEW o \in Orders, NEW p \in ProposalsOf(o)
    PROVE  /\ Identity(p) \in Identities(o) /\ Identity(p) # None
           /\ Identity(p) = [order |-> o, version |-> p.version, hash |-> p.qty]
PROOF BY DeskAssumption DEF Identity, Identities, ProposalsOf, Contents

LEMMA SoundKind ==
    ASSUME NEW r, Sound(r)
    PROVE  /\ r.order \in Orders /\ r.kind \in {"edit", "approve", "export"}
           /\ r.kind = "edit" => r \in EditRequests
PROOF BY DEF Sound, EditRequests

LEMMA StaysSound == ASSUME NEW r, Sound(r), seen \subseteq seen' PROVE Sound(r)'
PROOF BY DEF Sound

\* Whatever becomes of a sound request, the orders stay typed and what is under way sound.
LEMMA Answering ==
    ASSUME OrdersTyped, LateIsSound, NEW r, Sound(r), seen \subseteq seen',
           Answered(r) \/ Refused(r) \/ Unknown(r)
    PROVE  OrdersTyped' /\ LateIsSound'
<1>1. OrdersTyped'
    <2>1. CASE Answered(r)
        BY <2>1, SoundKind, HandleTyped DEF Answered
    <2>2. CASE Refused(r) \/ Unknown(r)
        BY <2>2 DEF Refused, Unknown, NothingHandled, OrdersTyped
    <2> QED BY <2>1, <2>2
<1>2. late' \subseteq late \cup {r}
    BY DEF Answered, Refused, Unknown
<1> QED BY <1>1, <1>2, StaysSound DEF LateIsSound

\* A screen drawn to the end is reviewed.
LEMMA Completed ==
    ASSUME SessionTyped, NEW o \in Orders, NEW p \in ProposalsOf(o), NEW l,
           NEW ds \in [Lines -> Drafts \cup {None}], Complete(ds, p, l),
           order' = o, line' \in LinesOf(o), l = line'
    PROVE  SessionTyped' /\ ScreenIsReviewed' /\ ClickIsReviewed' /\ seen \subseteq seen'
<1>1. p.order = o /\ p.version \in Nat /\ p.qty[l] \in Quantities /\ l \in Lines
    BY DeskAssumption DEF ProposalsOf, Contents, LinesOf
<1>2. FreshDraft(p, l) \in Drafts
    BY <1>1 DEF FreshDraft, Drafts
<1>3. drafts' \in [Lines -> Drafts \cup {None}]
    BY <1>2 DEF Complete, Drafted
<1>4. reviewed' = [reviewed EXCEPT ![o] = Identity(p)] /\ screen' = p /\ step' = "idle"
    BY <1>1 DEF Complete
<1>5. SessionTyped'
    BY <1>1, <1>3, <1>4 DEF SessionTyped
<1>6. reviewed'[order'] = Identity(screen)' /\ <<order', screen'.version>> \in seen'
    BY <1>1, <1>4 DEF SessionTyped, Complete, Identity
<1> QED BY <1>4, <1>5, <1>6 DEF ScreenIsReviewed, ClickIsReviewed, Working, Complete

\* The script gives way to another one: nothing is claimed until that is complete.
LEMMA Rerunning ==
    ASSUME step' = "rerun"
    PROVE  ScreenIsReviewed' /\ ClickIsReviewed'
PROOF BY DEF ScreenIsReviewed, ClickIsReviewed, Idle, Working

--------------------------------------------------------------------------------
(* One lemma per kind of step.                                                 *)

LEMMA DrawKeeps ==
    ASSUME IInv, NEW o \in Orders, NEW l \in LinesOf(o), NEW ds \in [Lines -> Drafts \cup {None}],
           Draw(o, l, ds)
    PROVE  IInv'
<1>1. Proposal(o) \in ProposalsOf(o)
    BY ProposalTyped DEF IInv
<1>2. /\ Complete(ds, Proposal(o), l) /\ order' = o /\ line' = l
      /\ UNCHANGED <<orders, late>>
    BY DEF Draw, server
<1>3. SessionTyped' /\ ScreenIsReviewed' /\ ClickIsReviewed' /\ seen \subseteq seen'
    BY <1>1, <1>2, Completed DEF IInv
<1>4. OrdersTyped' /\ LateIsSound'
    BY <1>2, <1>3, StaysSound DEF IInv, OrdersTyped, LateIsSound
<1> QED BY <1>3, <1>4 DEF IInv

LEMMA LookingKeeps ==
    ASSUME IInv,
           \/ \E o \in Orders, l \in Lines : Look(o, l)
           \/ \E q \in Quantities : Type(q)
           \/ Rerun
    PROVE  IInv'
<1>1. /\ order \in Orders /\ line \in LinesOf(order) /\ line \in Lines
      /\ drafts \in [Lines -> Drafts \cup {None}]
    BY DEF IInv, SessionTyped, LinesOf
<1>2. CASE \E o \in Orders, l \in Lines : Look(o, l)
    BY <1>1, <1>2, DrawKeeps DEF Look, LinesOf
<1>3. CASE \E q \in Quantities : Type(q)
    <2>1. PICK q \in Quantities : Type(q)
        BY <1>3
    <2> DEFINE ds == [drafts EXCEPT ![line].qty = q]
    <2>2. ds \in [Lines -> Drafts \cup {None}]
        BY <1>1, <2>1 DEF Type, Drafts
    <2>3. Draw(order, line, ds)
        BY <2>1 DEF Type
    <2> HIDE DEF ds
    <2> QED BY <1>1, <2>2, <2>3, DrawKeeps
<1>4. CASE Rerun
    BY <1>1, <1>4, DrawKeeps DEF Rerun
<1> QED BY <1>2, <1>3, <1>4

LEMMA ReadFailsKeeps == ASSUME IInv, ReadFails PROVE IInv'
<1>1. UNCHANGED <<orders, late, order, line, drafts, reviewed, seen>> /\ screen' = None /\ step' = "idle"
    BY DEF ReadFails, DrawError, session, history, server
<1>2. OrdersTyped' /\ LateIsSound' /\ SessionTyped'
    BY <1>1 DEF IInv, OrdersTyped, LateIsSound, Sound, SessionTyped
<1> QED BY <1>1, <1>2 DEF IInv, ScreenIsReviewed, ClickIsReviewed, OnScreen, Working

LEMMA OpenRunKeeps == ASSUME IInv, NEW r \in Runs, OpenRun(r) PROVE IInv'
<1>1. UNCHANGED <<orders, late, seen, screen>> /\ step' = "rerun"
    BY DEF OpenRun, server, history
<1>2. order' \in Orders /\ line' \in LinesOf(order')
    BY DeskAssumption DEF OpenRun, IInv, SessionTyped
<1>3. drafts' \in [Lines -> Drafts \cup {None}] /\ DOMAIN reviewed' = Orders /\ reviewed' = [o \in Orders |-> reviewed'[o]]
    BY DEF OpenRun, RunSelected, IInv, SessionTyped
<1>4. OrdersTyped' /\ LateIsSound' /\ SessionTyped'
    BY <1>1, <1>2, <1>3 DEF IInv, OrdersTyped, LateIsSound, Sound, SessionTyped
<1> QED BY <1>1, <1>4, Rerunning DEF IInv

LEMMA RedraftKeeps == ASSUME IInv, Rebase \/ Discard PROVE IInv'
<1>1. /\ UNCHANGED <<orders, late, order, line, reviewed, seen>> /\ step' = "rerun"
      /\ screen' = Proposal(order)
    BY DEF Rebase, Discard, server, history
<1>2. /\ order \in Orders /\ line \in LinesOf(order) /\ line \in Lines
      /\ Proposal(order) \in ProposalsOf(order) /\ Proposal(order).order = order
    BY ProposalTyped DEF IInv, SessionTyped, LinesOf
<1>3. drafts' \in [Lines -> Drafts \cup {None}]
    <2>1. CASE Rebase
        <3>1. drafts[line] \in Drafts /\ orders[order].version \in Nat
            BY <1>2, <2>1, DeskAssumption DEF Rebase, Draft, IInv, SessionTyped, OrdersTyped
        <3>2. drafts' = [drafts EXCEPT ![line] =
                            [drafts[line] EXCEPT !.version = orders[order].version, !.uncertain = FALSE]]
            BY <1>2, <2>1 DEF Rebase, IInv, SessionTyped
        <3>3. [drafts[line] EXCEPT !.version = orders[order].version, !.uncertain = FALSE] \in Drafts
            BY <3>1 DEF Drafts
        <3> QED BY <1>2, <3>2, <3>3 DEF IInv, SessionTyped
    <2>2. CASE Discard
        <3>1. FreshDraft(Proposal(order), line) \in Drafts
            BY <1>2, DeskAssumption DEF FreshDraft, Drafts, ProposalsOf, Contents
        <3> QED BY <1>2, <2>2, <3>1 DEF Discard, IInv, SessionTyped
    <2> QED BY <2>1, <2>2
<1>4. OrdersTyped' /\ LateIsSound' /\ SessionTyped'
    BY <1>1, <1>2, <1>3 DEF IInv, OrdersTyped, LateIsSound, Sound, SessionTyped
<1> QED BY <1>1, <1>4, Rerunning DEF IInv

\* A click keeps the review of the screen it was made on, although the script then reads
\* the order again.
LEMMA ClickKeeps ==
    ASSUME IInv, Idle, OnScreen(order), NEW next \in Working, Click(next),
           next = "saving" => drafts[line] # None /\ drafts[line].version = screen.version
    PROVE  IInv'
<1>1. /\ UNCHANGED <<orders, late, order, line, drafts, reviewed, seen>> /\ step' = next
      /\ screen' = Proposal(order) /\ clicked' = Identity(screen)
    BY DEF Click, server, session
<1>2. /\ order \in Orders /\ line \in Lines /\ screen \in ProposalsOf(order)
      /\ Proposal(order) \in ProposalsOf(order) /\ Proposal(order).order = order
    BY ProposalTyped DEF IInv, SessionTyped, LinesOf, OnScreen
<1>3. reviewed[order] = Identity(screen) /\ <<order, screen.version>> \in seen
    BY DEF IInv, ScreenIsReviewed
<1>5. OrdersTyped' /\ LateIsSound' /\ SessionTyped'
    BY <1>1, <1>2 DEF IInv, OrdersTyped, LateIsSound, Sound, SessionTyped
<1>6. ScreenIsReviewed'
    BY <1>1 DEF ScreenIsReviewed, Idle, Working
<1>7. ClickIsReviewed'
    <2>1. Identity(screen) \in Identities(order)
        BY <1>2, IdentityTyped
    <2>2. next = "saving" => drafts[line] \in Drafts /\ <<order, drafts[line].version>> \in seen
        BY <1>2, <1>3 DEF IInv, SessionTyped
    <2> QED BY <1>1, <1>2, <1>3, <2>1, <2>2 DEF ClickIsReviewed
<1> QED BY <1>5, <1>6, <1>7 DEF IInv

LEMMA ClicksKeep == ASSUME IInv, Save \/ ClickApprove \/ ClickExport PROVE IInv'
<1>1. /\ order \in Orders /\ line \in LinesOf(order)
      /\ drafts \in [Lines -> Drafts \cup {None}]
    BY DEF IInv, SessionTyped
<1>2. CASE Save
    BY <1>2, ClickKeeps DEF Save, Draft, Stale, Working
<1>3. CASE ClickApprove
    BY <1>1, <1>3, ClickKeeps, DrawKeeps DEF ClickApprove, Working
<1>4. CASE ClickExport
    BY <1>1, <1>4, ClickKeeps, DrawKeeps DEF ClickExport, Working
<1> QED BY <1>2, <1>3, <1>4

\* What a script that handles a click knows.
LEMMA AtWork ==
    ASSUME IInv, step \in Working
    PROVE  /\ order \in Orders /\ line \in LinesOf(order) /\ line \in Lines
           /\ screen \in ProposalsOf(order) /\ screen.order = order
           /\ drafts \in [Lines -> Drafts \cup {None}]
           /\ clicked \in Identities(order) /\ Review = clicked
<1>1. /\ order \in Orders /\ line \in LinesOf(order) /\ line \in Lines
      /\ screen \in ProposalsOf(order) /\ screen.order = order
      /\ drafts \in [Lines -> Drafts \cup {None}]
      /\ clicked \in Identities(order) /\ reviewed[order] = clicked
    BY DEF IInv, SessionTyped, ClickIsReviewed, LinesOf, OnScreen
<1>2. clicked # None
    BY <1>1, DeskAssumption DEF Identities, Contents
<1> QED BY <1>1, <1>2 DEF Review

\* The requests a script sends are sound.
LEMMA SoundEdit == ASSUME IInv, step = "saving" PROVE Sound(EditRequest)
<1>1. order \in Orders /\ line \in Lines
    BY AtWork DEF Working
<1>2. drafts[line] \in Drafts /\ <<order, drafts[line].version>> \in seen
    BY DEF IInv, ClickIsReviewed, Working
<1> QED BY <1>1, <1>2 DEF Sound, EditRequest, EditRequests, Draft, Drafts

LEMMA SoundApproval == ASSUME IInv, step = "approving" PROVE Sound(ApproveRequest)
<1>1. order \in Orders /\ clicked \in Identities(order) /\ Review = clicked
    BY AtWork DEF Working
<1>2. [order |-> order, version |-> clicked.version, hash |-> clicked.hash] = clicked
    BY <1>1 DEF Identities
<1> QED BY <1>1, <1>2 DEF Sound, ApproveRequest

LEMMA SoundExport == ASSUME IInv, step \in Working PROVE Sound(ExportRequest)
PROOF BY AtWork DEF Sound, ExportRequest

\* The script ends with what it had read when the click came.
LEMMA EndKeeps ==
    ASSUME IInv, step \in Working, NEW ds \in [Lines -> Drafts \cup {None}],
           Complete(ds, screen, line), UNCHANGED <<order, line>>, NEW r, Sound(r),
           Answered(r) \/ Refused(r) \/ Unknown(r) \/ UNCHANGED <<orders, late>>
    PROVE  IInv'
<1>1. /\ order \in Orders /\ line \in LinesOf(order) /\ screen \in ProposalsOf(order)
      /\ order' = order /\ line' = line
    BY AtWork
<1>2. SessionTyped' /\ ScreenIsReviewed' /\ ClickIsReviewed' /\ seen \subseteq seen'
    BY <1>1, Completed DEF IInv
<1>3. OrdersTyped' /\ LateIsSound'
    BY <1>2, Answering, StaysSound DEF IInv, OrdersTyped, LateIsSound
<1> QED BY <1>2, <1>3 DEF IInv

\* The script gives way with typed drafts and the answer, if any, handled.
LEMMA GiveWayKeeps ==
    ASSUME IInv, step \in Working, AskRerun, drafts' \in [Lines -> Drafts \cup {None}],
           UNCHANGED <<order, line, reviewed, screen, seen>>, NEW r, Sound(r),
           Answered(r) \/ Refused(r) \/ Unknown(r) \/ UNCHANGED <<orders, late>>
    PROVE  IInv'
<1>1. OrdersTyped' /\ LateIsSound'
    BY Answering, StaysSound DEF IInv, OrdersTyped, LateIsSound
<1>2. SessionTyped'
    BY DEF IInv, SessionTyped, AskRerun
<1> QED BY <1>1, <1>2, Rerunning DEF IInv, AskRerun

\* The script goes on with the next part of the same click.
LEMMA GoOnKeeps ==
    ASSUME IInv, step \in Working, step' \in Working \ {"saving"},
           UNCHANGED <<order, line, drafts, reviewed, screen, clicked, seen>>, NEW r, Sound(r),
           Answered(r) \/ UNCHANGED <<orders, late>>
    PROVE  IInv'
<1>1. OrdersTyped' /\ LateIsSound'
    BY Answering, StaysSound DEF IInv, OrdersTyped, LateIsSound
<1>2. SessionTyped'
    BY DEF IInv, SessionTyped
<1>3. ScreenIsReviewed' /\ ClickIsReviewed'
    BY DEF IInv, ScreenIsReviewed, ClickIsReviewed, Idle, Working, OnScreen
<1> QED BY <1>1, <1>2, <1>3 DEF IInv

LEMMA SaveEndsKeeps == ASSUME IInv, SaveEnds PROVE IInv'
<1>1. step = "saving" /\ step \in Working /\ Sound(EditRequest)
    BY SoundEdit DEF SaveEnds, Working
<1>2. /\ line \in Lines /\ drafts \in [Lines -> Drafts \cup {None}] /\ drafts[line] \in Drafts
    BY <1>1, AtWork DEF IInv, ClickIsReviewed
<1>3. CASE /\ Answered(EditRequest) /\ AskRerun
           /\ drafts' = [drafts EXCEPT ![line].version = @ + 1, ![line].original = Draft.qty]
           /\ UNCHANGED <<run, order, line, reviewed, keys, screen, seen>>
    <2> DEFINE draft == [drafts[line] EXCEPT !.version = @ + 1, !.original = Draft.qty]
    <2>1. drafts[line].version + 1 \in Nat /\ Draft.qty \in Quantities
        BY <1>2 DEF Drafts, Draft
    <2>2. [drafts[line] EXCEPT !.version = drafts[line].version + 1] \in Drafts
        BY <1>2, <2>1 DEF Drafts
    <2>3. draft \in Drafts
        BY <2>1, <2>2 DEF Drafts
    <2>4. drafts' = [drafts EXCEPT ![line] = draft]
        BY <1>2, <1>3
    <2> HIDE DEF draft
    <2>5. drafts' \in [Lines -> Drafts \cup {None}]
        BY <1>2, <2>3, <2>4
    <2> QED BY <1>1, <1>3, <2>5, GiveWayKeeps
<1>4. CASE /\ Refused(EditRequest) /\ Complete(drafts, screen, line) /\ UNCHANGED <<order, line>>
    BY <1>1, <1>2, <1>4, EndKeeps
<1>5. CASE /\ Unknown(EditRequest) /\ UNCHANGED <<order, line>>
           /\ Complete([drafts EXCEPT ![line].uncertain = TRUE], screen, line)
    <2>1. [drafts EXCEPT ![line].uncertain = TRUE] \in [Lines -> Drafts \cup {None}]
        BY <1>2 DEF Drafts
    <2> QED BY <1>1, <1>5, <2>1, EndKeeps
<1>6. CASE Interrupted(EditRequest)
    BY <1>1, <1>2, <1>6, GiveWayKeeps DEF Interrupted, session
<1> QED BY <1>3, <1>4, <1>5, <1>6 DEF SaveEnds

LEMMA ApprovalKeeps == ASSUME IInv, CheckBeforeApproval \/ ApproveEnds PROVE IInv'
<1>1. step \in Working /\ drafts \in [Lines -> Drafts \cup {None}]
    BY AtWork DEF CheckBeforeApproval, ApproveEnds, Working
<1>2. CASE CheckBeforeApproval
    <2>1. UNCHANGED <<orders, late>>
        BY <1>2 DEF CheckBeforeApproval, NothingHandled
    <2>2. CASE EndScript
        BY <1>1, <2>1, <2>2, EndKeeps, SoundExport DEF EndScript
    <2>3. CASE step' = "approving" /\ UNCHANGED <<session, screen, clicked, seen>>
        BY <1>1, <2>1, <2>3, GoOnKeeps, SoundExport DEF Working, session
    <2> QED BY <1>2, <2>2, <2>3 DEF CheckBeforeApproval
<1>3. CASE ApproveEnds
    <2>1. Sound(ApproveRequest)
        BY <1>3, SoundApproval DEF ApproveEnds
    <2>2. CASE Answered(ApproveRequest) /\ step' = "export check after approval"
               /\ UNCHANGED <<session, screen, clicked, seen>>
        BY <1>1, <2>1, <2>2, GoOnKeeps DEF Working, session
    <2>3. CASE (Refused(ApproveRequest) \/ Unknown(ApproveRequest)) /\ EndScript
        BY <1>1, <2>1, <2>3, EndKeeps DEF EndScript
    <2>4. CASE Interrupted(ApproveRequest)
        BY <1>1, <2>1, <2>4, GiveWayKeeps DEF Interrupted, session
    <2> QED BY <1>3, <2>2, <2>3, <2>4 DEF ApproveEnds
<1> QED BY <1>2, <1>3

LEMMA ExportFailedKeeps ==
    ASSUME IInv, step \in Working, ExportFailed, NEW r, Sound(r),
           Refused(r) \/ Unknown(r) \/ UNCHANGED <<orders, late>>
    PROVE  IInv'
<1>1. drafts \in [Lines -> Drafts \cup {None}]
    BY AtWork
<1> QED BY <1>1, EndKeeps, GiveWayKeeps DEF ExportFailed

LEMMA ExportKeeps == ASSUME IInv, CheckBeforeExport \/ ExportEnds PROVE IInv'
<1>1. step \in Working /\ drafts \in [Lines -> Drafts \cup {None}] /\ Sound(ExportRequest)
    BY AtWork, SoundExport DEF CheckBeforeExport, ExportEnds, Working
<1>2. CASE CheckBeforeExport
    <2>1. UNCHANGED <<orders, late>>
        BY <1>2 DEF CheckBeforeExport, NothingHandled
    <2>2. CASE ExportFailed
        BY <1>1, <2>1, <2>2, ExportFailedKeeps
    <2>3. CASE ~ ExportFailed
        <3>1. step' \in Working \ {"saving"} /\ UNCHANGED <<order, line, drafts, reviewed, screen, clicked, seen>>
            BY <1>2, <2>3 DEF CheckBeforeExport, Working
        <3> QED BY <1>1, <2>1, <3>1, GoOnKeeps
    <2> QED BY <2>2, <2>3
<1>3. CASE ExportEnds
    <2>1. CASE Answered(ExportRequest) /\ AskRerun
               /\ UNCHANGED <<run, order, line, drafts, reviewed, keys, screen, seen>>
        BY <1>1, <2>1, GiveWayKeeps
    <2>2. CASE (Refused(ExportRequest) \/ Unknown(ExportRequest)) /\ ExportFailed
        BY <1>1, <2>2, ExportFailedKeeps
    <2>3. CASE Interrupted(ExportRequest)
        BY <1>1, <2>3, GiveWayKeeps DEF Interrupted, session
    <2> QED BY <1>3, <2>1, <2>2, <2>3 DEF ExportEnds
<1> QED BY <1>2, <1>3

\* Other buyers and late requests change orders, never the session.
LEMMA OthersKeep ==
    ASSUME IInv,
           \/ \E o \in Orders : OtherBuyerApproves(o)
           \/ \E l \in Lines, q \in Quantities : OtherBuyerEdits(OrderOf[l], l, q)
           \/ \E request \in late : LateRequest(request)
    PROVE  IInv'
<1>1. UNCHANGED <<session, step, screen, history>> /\ late' \subseteq late
    BY DEF OtherBuyerApproves, OtherBuyerEdits, LateRequest
<1>2. OrdersTyped'
    <2>1. CASE \E o \in Orders : OtherBuyerApproves(o)
        BY <2>1, ApprovedTyped DEF OtherBuyerApproves, IInv
    <2>2. CASE \E l \in Lines, q \in Quantities : OtherBuyerEdits(OrderOf[l], l, q)
        <3>1. PICK l \in Lines, q \in Quantities : OtherBuyerEdits(OrderOf[l], l, q)
            BY <2>2
        <3>2. OrderOf[l] \in Orders
            BY DeskAssumption
        <3> DEFINE request == [order |-> OrderOf[l], line |-> l, qty |-> q]
        <3>3. request.order = OrderOf[l] /\ request.line = l /\ request.qty = q
            OBVIOUS
        <3>4. orders' = Edited(request) /\ orders[OrderOf[l]].version < MaxVersion[OrderOf[l]]
            BY <3>1 DEF OtherBuyerEdits
        <3> HIDE DEF request
        <3> QED BY <3>2, <3>3, <3>4, EditedTyped DEF IInv
    <2>3. CASE \E request \in late : LateRequest(request)
        <3>1. PICK request \in late : LateRequest(request)
            BY <2>3
        <3>2. Sound(request)
            BY <3>1 DEF IInv, LateIsSound
        <3>3. CASE Accepts(request)
            BY <3>1, <3>2, <3>3, SoundKind, HandleTyped DEF LateRequest, IInv
        <3>4. CASE ~ Accepts(request)
            BY <3>1, <3>4 DEF LateRequest, NothingHandled, IInv, OrdersTyped
        <3> QED BY <3>3, <3>4
    <2> QED BY <2>1, <2>2, <2>3
<1>3. LateIsSound'
    BY <1>1 DEF IInv, LateIsSound, Sound, history
<1>4. SessionTyped' /\ ScreenIsReviewed' /\ ClickIsReviewed'
    BY <1>1 DEF IInv, SessionTyped, ScreenIsReviewed, ClickIsReviewed, session, history, Idle, OnScreen, Identity
<1> QED BY <1>2, <1>3, <1>4 DEF IInv

LEMMA StepKeeps == ASSUME IInv, [Next]_vars PROVE IInv'
<1>1. CASE UNCHANGED vars
    BY <1>1 DEF vars, server, session, history, IInv, OrdersTyped, SessionTyped, LateIsSound, Sound,
        ScreenIsReviewed, ClickIsReviewed, Idle, OnScreen, Identity
<1>2. CASE Next
    BY <1>2, LookingKeeps, ReadFailsKeeps, OpenRunKeeps, RedraftKeeps, ClicksKeep, SaveEndsKeeps,
       ApprovalKeeps, ExportKeeps, OthersKeep DEF Next
<1> QED BY <1>1, <1>2

--------------------------------------------------------------------------------
(* Theorems.                                                                   *)

\* The invariant above holds in every reachable state (views.py, workflow.py).
THEOREM DeskInvariant == Spec => []IInv
<1> QED BY IInvInit, StepKeeps, PTL DEF Spec

\* An approval that is sent, in time or late, signs the version and content that were on
\* the screen when the buyer clicked, whatever happened to the order in between.
THEOREM ApprovalsAreReviewed == Spec => []ApprovedAsReviewed
<1>1. IInv => ApprovedAsReviewed
    <2> SUFFICES ASSUME IInv, NEW r \in UnderWay, r.kind = "approve"
                 PROVE  [order |-> r.order, version |-> r.version, hash |-> r.hash] = r.shown
        BY DEF ApprovedAsReviewed
    <2>1. Sound(r)
        BY SoundEdit, SoundApproval DEF UnderWay, IInv, LateIsSound
    <2> QED BY <2>1 DEF Sound, EditRequests
<1> QED BY <1>1, DeskInvariant, PTL

\* An edit of this session never replaces a version its buyer has not seen.
THEOREM EditsAreSeen == Spec => []EditsReplaceWhatWasSeen
<1>1. IInv => EditsReplaceWhatWasSeen
    <2> SUFFICES ASSUME IInv, NEW r \in UnderWay, r.kind = "edit"
                 PROVE  <<r.order, r.version>> \in seen
        BY DEF EditsReplaceWhatWasSeen
    <2>1. Sound(r)
        BY SoundEdit, SoundApproval DEF UnderWay, IInv, LateIsSound
    <2> QED BY <2>1 DEF Sound
<1> QED BY <1>1, DeskInvariant, PTL

--------------------------------------------------------------------------------
(* The offered CSV.  An order of one version has one content, so it is enough   *)
(* that a CSV was made for the version its key was drawn for.                   *)

Currents == {Identity(Proposal(o)) : o \in Orders}

\* Identities somebody holds: the review, the script, a key or a CSV.
Known ==
    ({reviewed[o] : o \in Orders} \ {None})
    \cup (IF step \in Working THEN {Identity(screen)} ELSE {})
    \cup {k.of : k \in keys} \cup {c.identity : c \in csvs}

\* Held by somebody, so of an earlier version or of the content as it is.
Versioned(i) ==
    /\ i.order \in Orders /\ i \in Identities(i.order)
    /\ i.version <= orders[i.order].version
    /\ i.version = orders[i.order].version => i.hash = orders[i.order].qty

VersionsHaveOneContent ==
    /\ \A i \in Known : Versioned(i)
    /\ \A i, j \in Known : i.order = j.order /\ i.version = j.version => i.hash = j.hash

Fits(key, o, version) == key \in keys /\ key.of.order = o /\ key.of.version = version

CsvsFit ==
    \A c \in csvs : Fits(c.key, c.identity.order, c.identity.version) /\ c.qty = c.identity.hash

FitsItsKey(r) == r.kind = "export" => Fits(r.key, r.order, r.version)

LateKeysFit == \A r \in late : FitsItsKey(r)

KeyIsThere ==
    step \in {"exporting", "exporting after approval"} => \E k \in keys : k.of = Review

DownloadFits ==
    download # None => download.csv \in csvs /\ download.csv.key.of = download.identity

ScreenFits ==
    Idle /\ OnScreen(order) /\ download # None /\ ~ DirtyOrder(drafts, order) =>
        download.identity = Identity(screen) /\ screen.approved

Offered ==
    /\ VersionsHaveOneContent /\ CsvsFit /\ LateKeysFit
    /\ KeyIsThere /\ DownloadFits /\ ScreenFits

LEMMA OfferedInit == Init => Offered
PROOF BY DEF Init, Offered, VersionsHaveOneContent, Known, CsvsFit, LateKeysFit, KeyIsThere, DownloadFits,
    ScreenFits, Working, Idle

OrdersMove ==
    \A o \in Orders :
        \/ orders'[o].version > orders[o].version
        \/ orders'[o].version = orders[o].version /\ orders'[o].qty = orders[o].qty

\* What every step does to the API and to the keys.
ServerKept ==
    /\ OrdersMove /\ csvs \subseteq csvs' /\ CsvsFit' /\ LateKeysFit'
    /\ \A c \in csvs' \ csvs : c.identity \in Currents
    /\ \A k \in keys' : k.of \in Known

LEMMA CurrentVersioned == ASSUME OrdersTyped, NEW i \in Currents PROVE Versioned(i)
<1>1. PICK o \in Orders : i = Identity(Proposal(o))
    BY DEF Currents
<1>2. Proposal(o) \in ProposalsOf(o)
    BY ProposalTyped
<1>3. i \in Identities(o) /\ i = [order |-> o, version |-> Proposal(o).version, hash |-> Proposal(o).qty]
    BY <1>1, <1>2, IdentityTyped
<1>4. Proposal(o).version = orders[o].version /\ Proposal(o).qty = orders[o].qty
    BY DEF Proposal
<1>5. i.version \in Nat
    BY <1>3, DeskAssumption DEF Identities
<1> QED BY <1>3, <1>4, <1>5 DEF Versioned

LEMMA VersionedStays == ASSUME IInv, IInv', OrdersMove, NEW i, Versioned(i) PROVE Versioned(i)'
<1>1. i.order \in Orders /\ i \in Identities(i.order) /\ i.version \in Nat
    BY DeskAssumption DEF Versioned, Identities
<1>2. orders[i.order].version \in Nat /\ orders'[i.order].version \in Nat
    BY <1>1, DeskAssumption DEF IInv, OrdersTyped
<1> QED BY <1>1, <1>2 DEF Versioned, OrdersMove

\* The whole of a step, from what it does to the parts.
LEMMA OfferedKept ==
    ASSUME IInv, IInv', Offered, ServerKept,
           \A o \in Orders : reviewed'[o] \in Known \cup Currents \cup {None},
           step' \in Working => Identity(screen)' \in Known \cup Currents,
           DownloadFits', KeyIsThere', ScreenFits'
    PROVE  Offered'
<1>1. Known' \subseteq Known \cup Currents
    BY DEF Known, ServerKept
<1>2. \A i \in Known \cup Currents : Versioned(i)
    BY CurrentVersioned DEF IInv, Offered, VersionsHaveOneContent
<1>3. \A i, j \in Known \cup Currents : i.order = j.order /\ i.version = j.version => i.hash = j.hash
    <2>1. \A i \in Currents : i.version = orders[i.order].version /\ i.hash = orders[i.order].qty
        BY DEF Currents, Identity, Proposal
    <2> QED BY <1>2, <2>1 DEF Versioned, Offered, VersionsHaveOneContent
<1>4. VersionsHaveOneContent'
    BY <1>1, <1>2, <1>3, VersionedStays DEF ServerKept, VersionsHaveOneContent
<1> QED BY <1>4 DEF ServerKept, Offered

--------------------------------------------------------------------------------
(* Requests and keys.                                                          *)

LEMMA SameServer ==
    ASSUME IInv, Offered, UNCHANGED <<orders, csvs, keys>>, late' \subseteq late
    PROVE  ServerKept
<1>1. OrdersMove
    BY DEF OrdersMove
<1>2. CsvsFit' /\ LateKeysFit'
    BY DEF Offered, CsvsFit, LateKeysFit, FitsItsKey, Fits
<1> QED BY <1>1, <1>2 DEF ServerKept, Known

LEMMA HandledServer ==
    ASSUME IInv, Offered, NEW r, Sound(r), FitsItsKey(r), Accepts(r), Handle(r),
           UNCHANGED keys, late' \subseteq late
    PROVE  ServerKept /\ (r.kind = "export" => \E c \in csvs' : c.key = r.key)
<1>1. r.order \in Orders /\ r.kind \in {"edit", "approve", "export"}
    BY SoundKind
<1>2. OrdersMove
    <2>1. CASE r.kind = "edit"
        <3>1. orders' = Edited(r)
            BY <2>1 DEF Handle
        <3>2. \A o \in Orders \ {r.order} : orders'[o] = orders[o]
            BY <3>1 DEF Edited, IInv, OrdersTyped
        <3>3. orders'[r.order].version = orders[r.order].version + 1
            BY <1>1, <3>1 DEF Edited, IInv, OrdersTyped
        <3>4. orders[r.order].version \in Nat
            BY <1>1, DeskAssumption DEF IInv, OrdersTyped
        <3> QED BY <3>2, <3>3, <3>4 DEF OrdersMove
    <2>2. CASE r.kind = "approve"
        <3>1. orders' = [orders EXCEPT ![r.order].approved = TRUE]
            BY <2>2 DEF Handle
        <3> QED BY <3>1 DEF OrdersMove, IInv, OrdersTyped
    <2>3. CASE r.kind = "export"
        BY <2>3 DEF Handle, OrdersMove
    <2> QED BY <1>1, <2>1, <2>2, <2>3
<1> DEFINE csv == [key |-> r.key, identity |-> Identity(Proposal(r.order)), qty |-> orders[r.order].qty]
<1>3. csvs' = csvs \/ (r.kind = "export" /\ csvs' = csvs \cup {csv})
    BY DEF Handle
<1>4. ASSUME r.kind = "export" PROVE \E c \in csvs' : c.key = r.key
    <2>1. CASE \E c \in csvs : c.key = r.key
        BY <1>3, <2>1
    <2>2. CASE \A c \in csvs : c.key # r.key
        <3>1. csv \in csvs'
            BY <1>4, <2>2 DEF Handle
        <3>2. csv.key = r.key
            OBVIOUS
        <3> QED BY <3>1, <3>2
    <2> QED BY <2>1, <2>2
<1>5. csv.identity \in Currents
    BY <1>1 DEF Currents
<1>6. r.kind = "export" => Fits(r.key, csv.identity.order, csv.identity.version) /\ csv.qty = csv.identity.hash
    BY DEF FitsItsKey, Accepts, Identity, Proposal
<1>7. CsvsFit'
    BY <1>3, <1>6 DEF CsvsFit, Offered, Fits
<1>8. LateKeysFit'
    BY DEF Offered, LateKeysFit, FitsItsKey, Fits
<1> HIDE DEF csv
<1> QED BY <1>2, <1>3, <1>4, <1>5, <1>7, <1>8 DEF ServerKept, Known

LEMMA AnsweredServer ==
    ASSUME IInv, Offered, NEW r, Sound(r), FitsItsKey(r), UNCHANGED keys,
           Answered(r) \/ Refused(r) \/ Unknown(r)
    PROVE  ServerKept
<1>1. CASE Answered(r)
    BY <1>1, HandledServer DEF Answered
<1>2. CASE Refused(r)
    BY <1>2, SameServer DEF Refused, NothingHandled
<1>3. CASE Unknown(r)
    <2>1. UNCHANGED <<orders, csvs, keys>> /\ late' = late \cup {r}
        BY <1>3 DEF Unknown, NothingHandled
    <2>2. LateKeysFit'
        BY <2>1 DEF Offered, LateKeysFit, FitsItsKey, Fits
    <2>3. OrdersMove /\ CsvsFit'
        BY <2>1 DEF OrdersMove, Offered, CsvsFit, Fits
    <2> QED BY <2>1, <2>2, <2>3 DEF ServerKept, Known
<1> QED BY <1>1, <1>2, <1>3

--------------------------------------------------------------------------------
(* The script.                                                                 *)

\* A screen that is complete offers the CSV of that screen or none.
LEMMA CompleteOffers ==
    ASSUME IInv, IInv', Offered, ServerKept, NEW ds, NEW p, NEW l, Complete(ds, p, l), p.order = order',
           Identity(p) \in Known \cup Currents
    PROVE  Offered'
<1>1. \A o \in Orders : reviewed'[o] \in Known \cup Currents \cup {None}
    BY DEF Complete, Known, IInv, SessionTyped
<1>2. step' = "idle" /\ screen' = p /\ download' = KeptDownload(drafts', p)
    BY DEF Complete
<1>3. step' \notin Working /\ KeyIsThere'
    BY <1>2 DEF Working, KeyIsThere
<1>4. DownloadFits'
    BY <1>2 DEF KeptDownload, DownloadFits, Offered, ServerKept
<1>5. ScreenFits'
    <2>1. DirtyOrder(drafts, order)' = DirtyOrder(drafts', p.order)
        BY DEF DirtyOrder
    <2>2. Identity(screen)' = Identity(p)
        BY <1>2 DEF Identity
    <2> QED BY <1>2, <2>1, <2>2 DEF ScreenFits, KeptDownload
<1> QED BY <1>1, <1>3, <1>4, <1>5, OfferedKept

\* A script that gives way offers nothing; it may have dropped the CSV.
LEMMA RerunOffers ==
    ASSUME IInv, IInv', Offered, ServerKept, step' = "rerun",
           \A o \in Orders : reviewed'[o] \in Known \cup {None},
           download' \in {download, None}
    PROVE  Offered'
<1>1. step' \notin Working /\ KeyIsThere' /\ ScreenFits'
    BY DEF Working, KeyIsThere, ScreenFits, Idle
<1>2. DownloadFits'
    BY DEF DownloadFits, Offered, ServerKept
<1> QED BY <1>1, <1>2, OfferedKept

LEMMA ReviewsKnown ==
    ASSUME UNCHANGED reviewed
    PROVE  \A o \in Orders : reviewed'[o] \in Known \cup {None}
PROOF BY DEF Known

\* A script that goes on with a click.
LEMMA WorkOffers ==
    ASSUME IInv, IInv', Offered, ServerKept, step' \in Working, UNCHANGED <<reviewed, download>>,
           Identity(screen)' \in Known \cup Currents, KeyIsThere'
    PROVE  Offered'
<1>1. ScreenFits'
    BY DEF Working, ScreenFits, Idle
<1>2. DownloadFits'
    BY DEF DownloadFits, Offered, ServerKept
<1> QED BY <1>1, <1>2, ReviewsKnown, OfferedKept

LEMMA ScreenKnown ==
    ASSUME IInv, step \in Working
    PROVE  /\ Identity(screen) \in Known /\ screen.order = order
           /\ Review \in Known
<1>1. order \in Orders /\ screen.order = order /\ Review = clicked /\ clicked \in Identities(order)
    BY AtWork
<1>2. reviewed[order] = clicked /\ clicked # None
    BY <1>1, DeskAssumption DEF IInv, ClickIsReviewed, Identities, Contents
<1> QED BY <1>1, <1>2 DEF Known

LEMMA DrawOffers ==
    ASSUME IInv, IInv', Offered, NEW o \in Orders, NEW l, NEW ds, Draw(o, l, ds)
    PROVE  Offered'
<1>1. ServerKept
    BY SameServer DEF Draw, server
<1>2. Identity(Proposal(o)) \in Currents /\ Proposal(o).order = o
    BY DEF Currents, Proposal
<1> QED BY <1>1, <1>2, CompleteOffers DEF Draw

LEMMA LookingOffers ==
    ASSUME IInv, IInv', Offered,
           \/ \E o \in Orders, l \in Lines : Look(o, l)
           \/ \E q \in Quantities : Type(q)
           \/ Rerun
    PROVE  Offered'
<1>1. order \in Orders
    BY DEF IInv, SessionTyped
<1> QED BY <1>1, DrawOffers DEF Look, Type, Rerun

LEMMA ReadFailsOffers == ASSUME IInv, IInv', Offered, ReadFails PROVE Offered'
<1>1. /\ UNCHANGED <<orders, csvs, late, keys, reviewed, download>>
      /\ screen' = None /\ step' = "idle"
    BY DEF ReadFails, DrawError, session, history, server
<1>2. ServerKept /\ step' \notin Working /\ KeyIsThere' /\ ScreenFits' /\ DownloadFits'
    BY <1>1, SameServer DEF Working, KeyIsThere, ScreenFits, OnScreen, DownloadFits, Offered
<1> QED BY <1>1, <1>2, ReviewsKnown, OfferedKept

LEMMA LeavingOffers ==
    ASSUME IInv, IInv', Offered, (\E r \in Runs : OpenRun(r)) \/ Rebase \/ Discard
    PROVE  Offered'
<1>1. UNCHANGED <<orders, csvs, late, keys>> /\ step' = "rerun"
    BY DEF OpenRun, Rebase, Discard, server
<1>2. \A o \in Orders : reviewed'[o] \in Known \cup {None}
    BY ReviewsKnown DEF OpenRun, RunSelected, Rebase, Discard
<1>3. download' \in {download, None}
    BY DEF OpenRun, RunSelected, Rebase, Discard
<1> QED BY <1>1, <1>2, <1>3, SameServer, RerunOffers

LEMMA ClicksOffer == ASSUME IInv, IInv', Offered, Save \/ ClickApprove \/ ClickExport PROVE Offered'
<1>1. order \in Orders
    BY DEF IInv, SessionTyped
<1>2. ASSUME NEW next \in {"saving", "approve check", "export check"}, Click(next) PROVE Offered'
    <2>1. UNCHANGED <<orders, csvs, late, keys, reviewed, download, order>> /\ step' = next /\ screen' = Proposal(order)
        BY <1>2 DEF Click, server, session
    <2>2. Identity(screen)' \in Currents
        BY <1>1, <2>1 DEF Currents, Identity
    <2>3. step' \in Working /\ KeyIsThere'
        BY <1>2, <2>1 DEF Working, KeyIsThere
    <2> QED BY <2>1, <2>2, <2>3, SameServer, WorkOffers
<1> QED BY <1>1, <1>2, DrawOffers DEF Save, ClickApprove, ClickExport

LEMMA SaveEndsOffers == ASSUME IInv, IInv', Offered, SaveEnds PROVE Offered'
<1> DEFINE r == EditRequest
<1>1. step = "saving" /\ step \in Working /\ Sound(r) /\ FitsItsKey(r)
    BY SoundEdit DEF SaveEnds, Working, FitsItsKey, EditRequest
<1>2. Identity(screen) \in Known /\ screen.order = order
    BY <1>1, ScreenKnown
<1>3. UNCHANGED keys /\ (Answered(r) \/ Refused(r) \/ Unknown(r))
    BY DEF SaveEnds, Interrupted, session
<1> HIDE DEF r
<1>4. ServerKept
    BY <1>1, <1>3, AnsweredServer
<1>5. CASE AskRerun /\ UNCHANGED reviewed /\ download' \in {download, None}
    BY <1>4, <1>5, ReviewsKnown, RerunOffers DEF AskRerun
<1>6. CASE order' = order /\ \E ds \in {drafts, [drafts EXCEPT ![line].uncertain = TRUE]} : Complete(ds, screen, line)
    BY <1>2, <1>4, <1>6, CompleteOffers
<1> QED BY <1>5, <1>6 DEF SaveEnds, Interrupted, session

LEMMA ApprovalOffers ==
    ASSUME IInv, IInv', Offered, CheckBeforeApproval \/ ApproveEnds
    PROVE  Offered'
<1>1. step \in Working /\ step \in {"approve check", "approving"}
    BY DEF CheckBeforeApproval, ApproveEnds, Working
<1>2. Identity(screen) \in Known /\ screen.order = order
    BY <1>1, ScreenKnown
<1>3. ServerKept
    <2>1. CASE CheckBeforeApproval
        <3>1. UNCHANGED <<orders, csvs, late, keys>>
            BY <2>1 DEF CheckBeforeApproval, NothingHandled, EndScript, session
        <3> QED BY <3>1, SameServer
    <2>2. CASE ApproveEnds
        <3>1. Sound(ApproveRequest) /\ FitsItsKey(ApproveRequest)
            BY <2>2, SoundApproval DEF ApproveEnds, FitsItsKey, ApproveRequest
        <3>2. /\ UNCHANGED keys
              /\ Answered(ApproveRequest) \/ Refused(ApproveRequest) \/ Unknown(ApproveRequest)
            BY <2>2 DEF ApproveEnds, Interrupted, EndScript, session
        <3> QED BY <3>1, <3>2, AnsweredServer
    <2> QED BY <2>1, <2>2
<1>4. CASE EndScript
    BY <1>2, <1>3, <1>4, CompleteOffers DEF EndScript
<1>5. CASE AskRerun /\ UNCHANGED session
    BY <1>3, <1>5, ReviewsKnown, RerunOffers DEF AskRerun, session
<1>6. CASE step' \in {"approving", "export check after approval"} /\ UNCHANGED <<session, screen>>
    <2>1. step' \in Working /\ KeyIsThere' /\ Identity(screen)' = Identity(screen)
        BY <1>6 DEF Working, KeyIsThere, Identity
    <2> QED BY <1>2, <1>3, <1>6, <2>1, WorkOffers DEF session
<1> QED BY <1>4, <1>5, <1>6 DEF CheckBeforeApproval, ApproveEnds, Interrupted

LEMMA ExportFailedOffers ==
    ASSUME IInv, IInv', Offered, ServerKept, step \in Working, ExportFailed
    PROVE  Offered'
<1>1. Identity(screen) \in Known /\ screen.order = order
    BY ScreenKnown
<1>2. CASE AskRerun /\ UNCHANGED <<run, order, line, drafts, reviewed, download, screen, seen>>
    BY <1>2, ReviewsKnown, RerunOffers DEF AskRerun
<1>3. CASE Complete(drafts, screen, line) /\ UNCHANGED <<run, order, line>>
    BY <1>1, <1>3, CompleteOffers
<1> QED BY <1>2, <1>3 DEF ExportFailed

LEMMA CheckBeforeExportOffers == ASSUME IInv, IInv', Offered, CheckBeforeExport PROVE Offered'
<1>1. step \in Working /\ step \in {"export check", "export check after approval"}
    BY DEF CheckBeforeExport, Working
<1>2. Identity(screen) \in Known /\ Review \in Known
    BY <1>1, ScreenKnown
<1>3. keys' = keys \cup {ExportKey(Review)} /\ UNCHANGED <<orders, csvs, late>>
    BY DEF CheckBeforeExport, NothingHandled
<1>4. ExportKey(Review).of = Review
    BY DEF ExportKey
<1>5. ServerKept
    <2>1. OrdersMove
        BY <1>3 DEF OrdersMove
    <2>2. CsvsFit' /\ LateKeysFit'
        BY <1>3 DEF Offered, CsvsFit, LateKeysFit, FitsItsKey, Fits
    <2>3. \A k \in keys' : k.of \in Known
        BY <1>2, <1>3, <1>4 DEF Known
    <2> QED BY <1>3, <2>1, <2>2, <2>3 DEF ServerKept
<1>6. CASE ExportFailed
    BY <1>1, <1>5, <1>6, ExportFailedOffers
<1>7. CASE ~ ExportFailed
    <2>1. /\ step' \in {"exporting", "exporting after approval"}
          /\ UNCHANGED <<order, reviewed, download, screen>>
        BY <1>7 DEF CheckBeforeExport
    <2>2. Review' = Review /\ Identity(screen)' = Identity(screen)
        BY <2>1 DEF Review, Identity
    <2>3. step' \in Working /\ KeyIsThere'
        BY <1>3, <1>4, <2>1, <2>2 DEF Working, KeyIsThere
    <2> QED BY <1>2, <1>5, <2>1, <2>2, <2>3, WorkOffers
<1> QED BY <1>6, <1>7

LEMMA ExportEndsOffers == ASSUME IInv, IInv', Offered, ExportEnds PROVE Offered'
<1> DEFINE r == ExportRequest
<1>1. step \in Working /\ step \in {"exporting", "exporting after approval"} /\ Sound(r)
    BY SoundExport DEF ExportEnds, Working
<1>2. r.key \in keys /\ r.key.of = Review
    <2>1. r.key = CHOOSE k \in keys : k.of = Review
        BY DEF ExportRequest
    <2> QED BY <1>1, <2>1 DEF Offered, KeyIsThere
<1>3. FitsItsKey(r) /\ r.kind = "export"
    <2>1. Review.order = order
        BY <1>1, AtWork DEF Identities
    <2> QED BY <1>2, <2>1 DEF FitsItsKey, Fits, ExportRequest
<1>4. UNCHANGED keys /\ (Answered(r) \/ Refused(r) \/ Unknown(r))
    BY DEF ExportEnds, Interrupted, session
<1>5. ServerKept
    BY <1>1, <1>3, <1>4, AnsweredServer
<1>6. CASE (Refused(r) \/ Unknown(r)) /\ ExportFailed
    BY <1>1, <1>5, <1>6, ExportFailedOffers
<1>7. CASE Interrupted(r)
    BY <1>5, <1>7, ReviewsKnown, RerunOffers DEF Interrupted, AskRerun, session
<1>8. CASE /\ Answered(r) /\ AskRerun /\ UNCHANGED <<run, order, line, drafts, reviewed, keys, screen, seen>>
           /\ download' = [identity |-> Review, csv |-> CHOOSE c \in csvs' : c.key = r.key]
    <2>1. \E c \in csvs' : c.key = r.key
        BY <1>1, <1>3, <1>8, HandledServer DEF Answered
    <2>2. download'.csv \in csvs' /\ download'.csv.key = r.key /\ download'.identity = Review
        BY <1>8, <2>1
    <2>3. DownloadFits'
        BY <1>2, <2>2 DEF DownloadFits
    <2>4. step' \notin Working /\ KeyIsThere' /\ ScreenFits'
        BY <1>8 DEF AskRerun, Working, KeyIsThere, ScreenFits, Idle
    <2> QED BY <1>5, <1>8, <2>3, <2>4, ReviewsKnown, OfferedKept
<1> QED BY <1>6, <1>7, <1>8 DEF ExportEnds

LEMMA OthersOffer ==
    ASSUME IInv, IInv', Offered,
           \/ \E o \in Orders : OtherBuyerApproves(o)
           \/ \E l \in Lines, q \in Quantities : OtherBuyerEdits(OrderOf[l], l, q)
           \/ \E request \in late : LateRequest(request)
           \/ UNCHANGED vars
    PROVE  Offered'
<1>1. UNCHANGED <<session, step, screen, history>> /\ late' \subseteq late
    BY DEF OtherBuyerApproves, OtherBuyerEdits, LateRequest, vars, server
<1>2. ServerKept
    <2>1. CASE \E o \in Orders : OtherBuyerApproves(o)
        <3>1. PICK o \in Orders : OtherBuyerApproves(o)
            BY <2>1
        <3>2. OrdersMove
            BY <3>1 DEF OtherBuyerApproves, OrdersMove, IInv, OrdersTyped
        <3>3. CsvsFit' /\ LateKeysFit'
            BY <1>1, <3>1 DEF OtherBuyerApproves, session, Offered, CsvsFit, LateKeysFit, FitsItsKey, Fits
        <3> QED BY <1>1, <3>1, <3>2, <3>3 DEF OtherBuyerApproves, session, ServerKept, Known
    <2>2. CASE \E l \in Lines, q \in Quantities : OtherBuyerEdits(OrderOf[l], l, q)
        <3>1. PICK l \in Lines, q \in Quantities : OtherBuyerEdits(OrderOf[l], l, q)
            BY <2>2
        <3>2. OrdersMove
            <4>1. OrderOf[l] \in Orders /\ orders[OrderOf[l]].version \in Nat
                BY DeskAssumption DEF IInv, OrdersTyped
            <4>2. orders' = Edited([order |-> OrderOf[l], line |-> l, qty |-> q])
                BY <3>1 DEF OtherBuyerEdits
            <4>3. orders'[OrderOf[l]].version = orders[OrderOf[l]].version + 1
                BY <4>1, <4>2 DEF Edited, IInv, OrdersTyped
            <4>4. \A o \in Orders \ {OrderOf[l]} : orders'[o] = orders[o]
                BY <4>2 DEF Edited, IInv, OrdersTyped
            <4> QED BY <4>1, <4>3, <4>4 DEF OrdersMove
        <3>3. CsvsFit' /\ LateKeysFit'
            BY <1>1, <3>1 DEF OtherBuyerEdits, session, Offered, CsvsFit, LateKeysFit, FitsItsKey, Fits
        <3> QED BY <1>1, <3>1, <3>2, <3>3 DEF OtherBuyerEdits, session, ServerKept, Known
    <2>3. CASE \E request \in late : LateRequest(request)
        <3>1. PICK request \in late : LateRequest(request)
            BY <2>3
        <3>2. Sound(request) /\ FitsItsKey(request)
            BY <3>1 DEF IInv, LateIsSound, Offered, LateKeysFit
        <3> QED BY <1>1, <3>1, <3>2, HandledServer, SameServer DEF LateRequest, session, NothingHandled
    <2>4. CASE UNCHANGED vars
        BY <2>4, SameServer DEF vars, server, session
    <2> QED BY <2>1, <2>2, <2>3, <2>4
<1>3. UNCHANGED <<order, drafts, reviewed, download, keys, step, screen>> /\ csvs \subseteq csvs'
    BY <1>1, <1>2 DEF session, ServerKept
<1>4. KeyIsThere' /\ DownloadFits'
    BY <1>3 DEF Offered, KeyIsThere, DownloadFits, Review, Identity
<1>5. ScreenFits'
    BY <1>3 DEF Offered, ScreenFits, Idle, OnScreen, DirtyOrder, Identity
<1>6. step' \in Working => Identity(screen)' \in Known \cup Currents
    BY <1>3 DEF Known, Identity
<1>7. \A o \in Orders : reviewed'[o] \in Known \cup {None}
    BY <1>3, ReviewsKnown
<1> QED BY <1>2, <1>4, <1>5, <1>6, <1>7, OfferedKept

LEMMA StepOffers == ASSUME IInv, Offered, [Next]_vars PROVE Offered'
<1>1. IInv'
    BY StepKeeps
<1> QED BY <1>1, LookingOffers, ReadFailsOffers, LeavingOffers, ClicksOffer, SaveEndsOffers, ApprovalOffers,
    CheckBeforeExportOffers, ExportEndsOffers, OthersOffer DEF Next

\* The CSV that is offered next to an order lists the quantities of that order and was made
\* of an approved version, although it may have been prepared long before and its request
\* answered late (_prepare_download, export_keys).
THEOREM CsvMatchesScreen == Spec => []OfferedCsvMatchesScreen
<1>1. Spec => []Offered
    BY OfferedInit, StepOffers, DeskInvariant, PTL DEF Spec
<1>2. IInv /\ Offered => OfferedCsvMatchesScreen
    <2> SUFFICES ASSUME IInv, Offered, Idle, OnScreen(order), download # None, ~ DirtyOrder(drafts, order)
                 PROVE  /\ download.identity = Identity(screen)
                        /\ download.csv.qty = screen.qty
                        /\ screen.approved
        BY DEF OfferedCsvMatchesScreen
    <2>1. download.identity = Identity(screen) /\ screen.approved
        BY DEF Offered, ScreenFits
    <2> DEFINE csv == download.csv
    <2>2. csv \in csvs /\ csv.key.of = download.identity
        BY DEF Offered, DownloadFits
    <2>3. /\ csv.key \in keys /\ csv.key.of.order = csv.identity.order
          /\ csv.key.of.version = csv.identity.version /\ csv.qty = csv.identity.hash
        BY <2>2 DEF Offered, CsvsFit, Fits
    <2>4. csv.identity.hash = csv.key.of.hash
        BY <2>2, <2>3 DEF Offered, VersionsHaveOneContent, Known
    <2> QED BY <2>1, <2>2, <2>3, <2>4 DEF Identity
<1> QED BY <1>1, <1>2, DeskInvariant, PTL

================================================================================
