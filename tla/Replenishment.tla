----------------------------- MODULE Replenishment -----------------------------
(***************************************************************************)
(* build_proposals of src/ekt/planning/engine.py: from forecast, stock,     *)
(* receipts and supplier terms to supplier orders.  Each article (one       *)
(* forecast series, a SKU in a warehouse) is netted, rounded and capped on  *)
(* its own; then the shared budget is spent in order of urgency; then the   *)
(* lines are grouped into orders.  One action is one round of a loop.       *)
(*                                                                         *)
(* Quantities and money are integers: the decimals of the code, scaled.     *)
(* Days count from the day of the snapshot (day 0); the forecast starts on  *)
(* day 1.  The safety stock is a quantile of the demand scenarios, scaled    *)
(* so that its interpolation is exact; the quantile of a normal              *)
(* distribution is an input.  Receipts, costs and demand are nonnegative by  *)
(* their contracts.                                                         *)
(***************************************************************************)
EXTENDS Integers, Sequences, SequencesExt, FiniteSetsExt

CONSTANTS
    Series,         \* forecast series, numbered in the order of their sku_id
    GroupOf,        \* [Series -> [supplier, warehouse, currency]]
    Inputs,         \* families [articles, policies] of inputs: sets of functions from Series
                    \* to article records, what a snapshot and a forecast may hold, and of
                    \* policies [budget, currency, max_cover, review_days, delay, target]
    CanApproveSource, \* snapshot.quality.capabilities.can_approve
    Currencies, POLines, \* names of currencies and of purchase order lines
    NoBudget, NoCover, NoReview, NoCost, NoCurrency, NoDay

VARIABLES
    article,        \* [Series -> article record], the snapshot and the forecast
    policy,
    stage,          \* "reading", "planning", "allocating", "grouping", "published", "refused"
    refusal,        \* code of the DomainError that refused the run
    candidates,     \* series with a line
    line,           \* [Series -> line], meaningful for candidates
    excluded,       \* series whose line was excluded with a reason
    remaining,      \* budget left
    allocated,      \* candidates the budget round is done with
    orders          \* what is returned

input == <<article, policy>>
vars == <<article, policy, stage, refusal, candidates, line, excluded, remaining, allocated, orders>>

ASSUME SeriesAssumption == Series \subseteq Nat /\ IsFiniteSet(Series)

Positive == Nat \ {0}

\* The contracts of contracts/models.py, as far as planning reads them.
InventorySnapshot == [at : Int, free : Int]

SupplierTerms ==
    [at : Int, moq : Nat, pack : Positive, lead : Nat, review : Positive, cost : Nat \cup {NoCost}]

PipelineLine == [po_line : POLines, eta : Int, quantity : Nat, active : BOOLEAN]

PlanningPolicy ==
    [budget : Nat \cup {NoBudget}, currency : Currencies, max_cover : Positive \cup {NoCover},
     review_days : Positive \cup {NoReview}, delay : Nat, target : 0 .. 100]

\* A forecast series with the records of its article.
Article ==
    [forecast : BOOLEAN, blocked : BOOLEAN, warned : BOOLEAN,
     stock : Seq(InventorySnapshot), terms : Seq(SupplierTerms), receipts : Seq(PipelineLine),
     conversion : Positive, quantum : Positive, demand : Seq(Nat),
     method : {"scenario_paths", "iid_residual_normal"}, deviation : Nat,
     paths : Seq(Seq(Nat)), path_count : Nat]

ASSUME ContractAssumption ==
    \A i \in Inputs : i.policies \subseteq PlanningPolicy /\ i.articles \subseteq [Series -> Article]

ASSUME NoneAssumption ==
    NoBudget \notin Nat /\ NoCover \notin Nat /\ NoReview \notin Nat /\ NoCost \notin Nat /\ NoDay \notin Nat

--------------------------------------------------------------------------------
(* Rounding.                                                               *)

Lcm(a, b) == Min({n \in 1 .. a * b : n % a = 0 /\ n % b = 0})

\* Least base increment that is whole packs and a multiple of the stock quantum.
Increment(a) == Lcm(a.pack * a.conversion, a.quantum)

Ceil(value, increment) == ((value + increment - 1) \div increment) * increment

Floor(value, increment) == (value \div increment) * increment

\* revalidate_line_quantity, asked about the purchase quantity base / conversion.
ValidBase(a, base) ==
    /\ base # 0 => base >= a.moq * a.conversion
    /\ base % (a.pack * a.conversion) = 0
    /\ base % a.quantum = 0

--------------------------------------------------------------------------------
(* Netting one article.                                                    *)

Larger(x, y) == IF x >= y THEN x ELSE y
Smaller(x, y) == IF x <= y THEN x ELSE y

\* The review interval is the policy's, or else that of the terms.
Review(a) == IF a.review_days = NoReview THEN a.review ELSE a.review_days
Lead(a) == a.lead + a.delay
Horizon(a) == Lead(a) + Review(a)

\* Records that are in force on the day of the snapshot, the newest ones of them.
InForce(rows) ==
    {i \in DOMAIN rows : rows[i].at <= 0 /\ \A j \in DOMAIN rows : rows[j].at <= 0 => rows[j].at <= rows[i].at}

\* Equal moments give no order: records that disagree are no record at all.
Conflict(rows) == \E i, j \in InForce(rows) : rows[i] # rows[j]

\* _latest
Latest(rows) == rows[Min(InForce(rows))]

\* An article with the stock count and the supplier terms in force, under the policy.
Facts(s) ==
    LET stock == Latest(article[s].stock)
        terms == Latest(article[s].terms)
    IN  [field \in DOMAIN article[s] \cup DOMAIN stock \cup DOMAIN terms \cup DOMAIN policy |->
            CASE field \in DOMAIN article[s] -> article[s][field]
              [] field \in DOMAIN stock -> stock[field]
              [] field \in DOMAIN terms -> terms[field]
              [] field \in DOMAIN policy -> policy[field]]

Demand(a, days) == SumFunctionOnSet(a.demand, 1 .. days)

\* Receipts that may still come: in an active status, with a date that is known and not
\* past (otherwise eta < 0).  One due later on the day of the snapshot arrives on day 1.
Expected(a) == {i \in DOMAIN a.receipts : a.receipts[i].active /\ a.receipts[i].eta >= 0}

Arrival(a, i) == Larger(1, a.receipts[i].eta + a.delay)

\* What a set of receipts brings.
Received(a, receipts) ==
    SumFunctionOnSet([i \in DOMAIN a.receipts |-> a.receipts[i].quantity], receipts)

Pipeline(a, days) == Received(a, {i \in Expected(a) : Arrival(a, i) <= days})

ArrivingOn(a, day) == Received(a, {i \in Expected(a) : Arrival(a, i) = day})

PathDemand(path, days) == SumFunctionOnSet(path, 1 .. days)

\* The k-th of the sorted values.
Sorted(values, k) ==
    CHOOSE v \in Range(values) :
        /\ Cardinality({i \in DOMAIN values : values[i] < v}) < k
        /\ Cardinality({i \in DOMAIN values : values[i] <= v}) >= k

\* _quantile: the value at a share of the way through the sorted ones, in percent.
Quantile(values, share) ==
    LET rank == share * (Len(values) - 1)
        lower == rank \div 100 + 1
        step == Sorted(values, lower + 1) - Sorted(values, lower)
    IN  IF lower = Len(values) THEN Sorted(values, lower)
        ELSE Sorted(values, lower) + ((rank % 100) * step) \div 100

\* What demand may exceed its mean by: over the whole period, never day by day.
SafetyStock(a) ==
    IF a.method = "iid_residual_normal" THEN a.deviation
    ELSE LET totals == [k \in DOMAIN a.paths |-> PathDemand(a.paths[k], Horizon(a))]
         IN  Larger(0, Quantile(totals, a.target) - Demand(a, Horizon(a)))

\* Faulty variant: only the balance at the end of the period is looked at.
StockoutAtTheEnd(a) ==
    IF a.free + Pipeline(a, Horizon(a)) < Demand(a, Horizon(a)) THEN Horizon(a) ELSE NoDay

\* The balance that the loop over the days has reached at the end of each of them.
Projection(a) ==
    LET balance[day \in 0 .. Horizon(a)] ==
            IF day = 0 THEN a.free ELSE balance[day - 1] + ArrivingOn(a, day) - a.demand[day]
    IN  balance

\* The loop keeps the first day on which the balance is negative.
Stockout(a) ==
    LET short == {day \in 1 .. Horizon(a) : Projection(a)[day] < 0}
    IN  IF short = {} THEN NoDay ELSE Min(short)

Urgency(a, stockout) ==
    CASE stockout = NoDay -> "routine"
      [] stockout # NoDay /\ stockout <= Lead(a) -> "critical"
      [] OTHER -> "soon"

\* Faulty variant: the stock quantum is applied to the packs and never joined with them.
RoundedInTurn(a, raw) ==
    LET afterPack == Ceil(Larger(raw, a.moq * a.conversion), a.pack * a.conversion)
    IN  IF raw = 0 THEN 0 ELSE Ceil(afterPack, a.quantum)

\* MOQ, then packs, then the stock quantum; no need, no order.
Rounded(a, raw) ==
    LET afterPack == Ceil(Larger(raw, a.moq * a.conversion), a.pack * a.conversion)
    IN  IF raw = 0 THEN 0 ELSE Ceil(afterPack, Increment(a))

\* Faulty variant: the limit counts the receipts of the protection period.
CappedByHorizonReceipts(a, candidate) ==
    IF a.max_cover = NoCover THEN candidate
    ELSE LET limit == Larger(0, Demand(a, a.max_cover) - a.free - Pipeline(a, Horizon(a)))
             capped == Smaller(candidate, Floor(limit, Increment(a)))
         IN  IF capped < a.moq * a.conversion THEN 0 ELSE capped

\* The cover limit rounds down; what falls below the MOQ is not ordered at all.
Capped(a, candidate) ==
    IF a.max_cover = NoCover THEN candidate
    ELSE LET limit == Larger(0, Demand(a, a.max_cover) - a.free - Pipeline(a, a.max_cover))
             capped == Smaller(candidate, Floor(limit, Increment(a)))
         IN  IF capped < a.moq * a.conversion THEN 0 ELSE capped

\* The line and its ledger, one entry per step of the calculation.
PlannedLine(a) ==
    LET net == Demand(a, Horizon(a)) + SafetyStock(a) - a.free - Pipeline(a, Horizon(a))
        raw == Larger(0, net)
        rounded == Rounded(a, raw)
        capped == Capped(a, rounded)
        stockout == Stockout(a)
    IN  [raw |-> raw, before_cap |-> rounded, before_budget |-> capped, selected |-> capped,
         stockout |-> stockout, urgency |-> Urgency(a, stockout),
         ledger |-> [demand |-> Demand(a, Horizon(a)), safety_stock |-> SafetyStock(a),
                     free_stock |-> 0 - a.free, eligible_pipeline |-> 0 - Pipeline(a, Horizon(a)),
                     nonnegative_clip |-> raw - net, rounding |-> rounded - raw,
                     max_cover |-> capped - rounded, budget |-> 0]]

--------------------------------------------------------------------------------
(* The run.                                                                *)

Line == [raw : Int, before_cap : Int, before_budget : Int, selected : Int,
         stockout : Nat \cup {NoDay}, urgency : {"critical", "soon", "routine"},
         ledger : [{"demand", "safety_stock", "free_stock", "eligible_pipeline",
                    "nonnegative_clip", "rounding", "max_cover", "budget"} -> Int]]

NoLine ==
    [raw |-> 0, before_cap |-> 0, before_budget |-> 0, selected |-> 0,
     stockout |-> NoDay, urgency |-> "routine",
     ledger |-> [demand |-> 0, safety_stock |-> 0, free_stock |-> 0, eligible_pipeline |-> 0,
                 nonnegative_clip |-> 0, rounding |-> 0, max_cover |-> 0, budget |-> 0]]

Init ==
    /\ \E i \in Inputs : policy \in i.policies /\ article \in i.articles
    /\ stage = "reading" /\ refusal = "none"
    /\ candidates = {} /\ line = [s \in Series |-> NoLine] /\ excluded = {}
    /\ remaining = 0 /\ allocated = {} /\ orders = {}

Refuse(code) ==
    /\ stage' = "refused" /\ refusal' = code
    /\ UNCHANGED <<article, policy, candidates, line, excluded, remaining, allocated, orders>>

Receipts == UNION {{<<s, i>> : i \in DOMAIN article[s].receipts} : s \in Series}

\* A purchase order line that is imported twice would be netted twice.
ReceiptRepeated ==
    \E r, q \in Receipts :
        r # q /\ article[r[1]].receipts[r[2]].po_line = article[q[1]].receipts[q[2]].po_line

Read ==
    /\ stage = "reading"
    /\ IF ReceiptRepeated THEN Refuse("DUPLICATE_PIPELINE")
       ELSE /\ stage' = "planning"
            /\ UNCHANGED <<article, policy, refusal, candidates, line, excluded, remaining, allocated, orders>>

\* build_proposals walks the series of the forecast in their order.
Unplanned == {s \in Series : article[s].forecast} \ (candidates \cup excluded)

\* No count of the stock, no terms, records that disagree, or any other blocking reason.
Blocked(a) ==
    \/ a.blocked
    \/ InForce(a.stock) = {} \/ Conflict(a.stock)
    \/ InForce(a.terms) = {} \/ Conflict(a.terms)

\* An article with a blocking reason is left out of the plan, with its reasons.
Exclude(s) ==
    /\ Blocked(article[s])
    /\ excluded' = excluded \cup {s}
    /\ UNCHANGED <<article, policy, stage, refusal, candidates, line, remaining, allocated, orders>>

\* What _forecast_values and the check after it say of a forecast, in their order.
ForecastRefusal(a) ==
    LET byPaths == a.method = "scenario_paths"
    IN  CASE Len(a.demand) < Horizon(a) -> "HORIZON_TOO_SHORT"
          [] byPaths /\ (a.paths = <<>> \/ Len(a.paths) # a.path_count) -> "INVALID_UNCERTAINTY"
          [] byPaths /\ (\E k \in DOMAIN a.paths : Len(a.paths[k]) < Horizon(a)) -> "HORIZON_TOO_SHORT"
          [] a.max_cover # NoCover /\ Len(a.demand) < a.max_cover -> "HORIZON_TOO_SHORT"
          [] OTHER -> "none"

\* One article that cannot be planned at all refuses the whole run.
RefuseArticle(s) ==
    /\ ~ Blocked(article[s])
    /\ ForecastRefusal(Facts(s)) # "none"
    /\ Refuse(ForecastRefusal(Facts(s)))

AddLine(s) ==
    LET planned == PlannedLine(Facts(s))
    IN  /\ ~ Blocked(article[s]) /\ ForecastRefusal(Facts(s)) = "none"
        /\ IF ~ ValidBase(Facts(s), planned.selected) THEN Refuse("INVALID_QUANTITY")
           ELSE /\ candidates' = candidates \cup {s}
                /\ line' = [line EXCEPT ![s] = planned]
                /\ UNCHANGED <<article, policy, stage, refusal, excluded, remaining, allocated, orders>>

Plan(s) ==
    /\ stage = "planning" /\ s \in Unplanned /\ \A t \in Unplanned : s <= t
    /\ Exclude(s) \/ RefuseArticle(s) \/ AddLine(s)

BudgetAvailable ==
    /\ candidates # {}
    /\ \A s \in candidates : Facts(s).cost # NoCost /\ GroupOf[s].currency # NoCurrency
    /\ \A s, t \in candidates : GroupOf[s].currency = GroupOf[t].currency

\* A budget needs comparable prices of every line, in its own currency.
StartAllocation ==
    /\ stage = "planning" /\ Unplanned = {}
    /\ IF policy.budget = NoBudget
       THEN /\ stage' = "grouping"
            /\ UNCHANGED <<article, policy, refusal, candidates, line, excluded, remaining, allocated, orders>>
       ELSE IF BudgetAvailable /\ \A s \in candidates : GroupOf[s].currency = policy.currency
       THEN /\ stage' = "allocating" /\ remaining' = policy.budget
            /\ UNCHANGED <<article, policy, refusal, candidates, line, excluded, allocated, orders>>
       ELSE Refuse("UNSUPPORTED_BUDGET")

Rank(urgency) == CASE urgency = "critical" -> 0 [] urgency = "soon" -> 1 [] OTHER -> 2

\* Faulty variant: articles are served in the order of their identifiers.
ServedById(s, t) == s < t

\* The sort key of the budget round: urgency, first day of shortage, identifier.
ServedBefore(s, t) ==
    LET Day(u) == IF line[u].stockout = NoDay THEN Len(article[u].demand) + 1 ELSE line[u].stockout
    IN  \/ Rank(line[s].urgency) < Rank(line[t].urgency)
        \/ /\ line[s].urgency = line[t].urgency
           /\ Day(s) < Day(t) \/ (Day(s) = Day(t) /\ s < t)

\* Faulty variant: the part the money pays for is rounded up to whole packs.
AffordableRoundedUp(s) ==
    IF Facts(s).cost = 0 THEN line[s].before_budget
    ELSE Ceil(remaining \div Facts(s).cost, Increment(Facts(s)))

\* The largest multiple of the increment the remaining money pays for.
Affordable(s) ==
    IF Facts(s).cost = 0 THEN line[s].before_budget
    ELSE Floor(remaining \div Facts(s).cost, Increment(Facts(s)))

\* Faulty variant: a part that is below the MOQ is ordered all the same.
FundedBelowMoq(s) == Smaller(line[s].before_budget, Affordable(s))

Funded(s) ==
    LET selected == Smaller(line[s].before_budget, Affordable(s))
    IN  IF selected < Facts(s).moq * Facts(s).conversion THEN 0 ELSE selected

FundedLine(s, selected) ==
    [line[s] EXCEPT !.selected = selected, !.ledger.budget = selected - line[s].before_budget]

Cost(s, base) == base * Facts(s).cost

Allocate(s) ==
    /\ stage = "allocating" /\ s \in candidates \ allocated
    /\ \A t \in candidates \ (allocated \cup {s}) : ServedBefore(s, t)
    /\ IF ~ ValidBase(Facts(s), Funded(s)) THEN Refuse("INVALID_QUANTITY")
       ELSE /\ line' = [line EXCEPT ![s] = FundedLine(s, Funded(s))]
            /\ remaining' = remaining - Cost(s, Funded(s))
            /\ allocated' = allocated \cup {s}
            /\ UNCHANGED <<article, policy, stage, refusal, candidates, excluded, orders>>

FinishAllocation ==
    /\ stage = "allocating" /\ allocated = candidates
    /\ stage' = "grouping"
    /\ UNCHANGED <<article, policy, refusal, candidates, line, excluded, remaining, allocated, orders>>

\* An order is approvable when one of its lines orders something and no line carries a
\* blocking warning of the forecast.
Order(key, lines) ==
    [key |-> key, lines |-> lines,
     can_approve |-> /\ CanApproveSource
                     /\ \E s \in lines : line[s].selected > 0
                     /\ \A s \in lines : ~ article[s].warned,
     priced |-> lines # {} /\ key.currency # NoCurrency /\ \A s \in lines : Facts(s).cost # NoCost]

Unassigned == [supplier |-> "unassigned", warehouse |-> "unassigned", currency |-> NoCurrency]

\* Faulty variant: lines are grouped by supplier alone.
GroupedBySupplier ==
    {Order(GroupOf[s], {t \in candidates : GroupOf[t].supplier = GroupOf[s].supplier}) : s \in candidates}

Grouped ==
    IF candidates = {} THEN {Order(Unassigned, {})}
    ELSE {Order(GroupOf[s], {t \in candidates : GroupOf[t] = GroupOf[s]}) : s \in candidates}

\* An article whose stock the snapshot counts, however old or new the count.
Stocked(s) == article[s].stock # <<>>

\* Stock that no forecast mentions stays visible as an exclusion; an article with neither
\* leaves no trace.
Publish ==
    /\ stage = "grouping"
    /\ stage' = "published"
    /\ excluded' = excluded \cup {s \in Series : Stocked(s) /\ ~ article[s].forecast}
    /\ orders' = Grouped
    /\ UNCHANGED <<article, policy, refusal, candidates, line, remaining, allocated>>

Next ==
    \/ Read
    \/ \E s \in Series : Plan(s) \/ Allocate(s)
    \/ StartAllocation \/ FinishAllocation \/ Publish

Spec == Init /\ [][Next]_vars

--------------------------------------------------------------------------------
(* Properties.                                                             *)

TypeOK ==
    /\ \E i \in Inputs : policy \in i.policies /\ article \in i.articles
    /\ stage \in {"reading", "planning", "allocating", "grouping", "published", "refused"}
    /\ refusal \in {"none", "DUPLICATE_PIPELINE", "HORIZON_TOO_SHORT", "INVALID_UNCERTAINTY",
                    "UNSUPPORTED_BUDGET", "INVALID_QUANTITY"}
    /\ refusal # "none" <=> stage = "refused"
    /\ candidates \subseteq Series /\ excluded \subseteq Series \ candidates
    /\ allocated \subseteq candidates
    /\ line \in [Series -> Line] /\ \A s \in Series : line[s].selected >= 0
    /\ remaining \in Int

\* A base quantity whose purchase quantity revalidate_line_quantity accepts, by its own
\* rules and not by the increment.
Orderable(a, base) ==
    \E quantity \in 0 .. base :
        /\ base = quantity * a.conversion
        /\ quantity # 0 => quantity >= a.moq
        /\ quantity % a.pack = 0
        /\ base % a.quantum = 0

\* Without limits a line orders the least quantity the supplier and the stock accept
\* that covers the need, and nothing when there is none: the three roundings in turn
\* neither undo each other nor overshoot (build_proposals, _increment, _ceil).
LeastSufficientOrder ==
    \A s \in candidates :
        LET need == line[s].raw
            order == line[s].before_cap
        IN  IF need = 0 THEN order = 0
            ELSE /\ order >= need /\ Orderable(Facts(s), order)
                 /\ \A base \in need .. order - 1 : ~ Orderable(Facts(s), base)

\* Under a cover limit a line orders the most that can be ordered without lifting free
\* stock and receipts of the limit's days above the demand of those days, and never more
\* than it needs (the max_cover_days branch).
CoverLimitKept ==
    \A s \in candidates :
        LET a == Facts(s)
            order == line[s].before_budget
            Fits(base) ==
                /\ Orderable(a, base)
                /\ base # 0 => a.free + Pipeline(a, a.max_cover) + base <= Demand(a, a.max_cover)
        IN  a.max_cover # NoCover =>
                /\ Fits(order) /\ order <= line[s].before_cap
                /\ \A base \in order + 1 .. line[s].before_cap : ~ Fits(base)

\* Balance of an article at the end of a day if nothing is ordered.
Balance(a, day) ==
    a.free - Demand(a, day)
      + Received(a, {i \in DOMAIN a.receipts :
                        /\ a.receipts[i].active /\ a.receipts[i].eta >= 0
                        /\ a.receipts[i].eta + a.delay <= day})

\* The scenarios of an article that its stock, receipts and order get through.
Served(a, order) ==
    {k \in DOMAIN a.paths :
        PathDemand(a.paths[k], Horizon(a)) <= Balance(a, Horizon(a)) + Demand(a, Horizon(a)) + order}

\* Stock is what every newest count says, and an order suffices to the end of the
\* protection period, unless a limit cut it: in the share of the demand scenarios that the
\* policy asks for, and with the mean demand in any case.  Urgency tells the truth about
\* the days in between, which the netted total hides (_latest, _forecast_values, the
\* ledger and the day-by-day projection agree).
ProtectionHolds ==
    \A s \in candidates :
        LET a == Facts(s)
            short == {day \in 1 .. Horizon(a) : Balance(a, day) < 0}
        IN  /\ \A i \in DOMAIN a.stock :
                  a.stock[i].at <= 0 =>
                      \/ a.stock[i].free = a.free
                      \/ \E j \in DOMAIN a.stock : a.stock[i].at < a.stock[j].at /\ a.stock[j].at <= 0
            /\ Balance(a, Horizon(a)) + line[s].before_cap
                 >= IF a.method = "iid_residual_normal" THEN a.deviation ELSE 0
            /\ a.method = "scenario_paths" =>
                  100 * Cardinality(Served(a, line[s].before_cap)) > a.target * (Len(a.paths) - 1)
            /\ line[s].urgency = "routine" <=> short = {}
            /\ line[s].urgency = "critical" <=> \E day \in short : day <= Lead(a)

\* The code refuses a run when one of its own quantities fails the buyer's validation.
\* That never happens, after rounding, capping or funding, and the ledger of each line
\* sums to the selected quantity, so a published line can be approved as it stands
\* (revalidate_line_quantity, _validate_approvable).
PlansAreApprovable ==
    /\ refusal # "INVALID_QUANTITY"
    /\ \A s \in candidates :
          /\ Orderable(Facts(s), line[s].selected)
          /\ SumFunction(line[s].ledger) = line[s].selected

\* What the selected quantities of some lines cost.
Spent(lines) == SumFunctionOnSet([s \in candidates |-> Cost(s, line[s].selected)], lines)

\* The lines of a run never cost more than its budget (the budget round).
BudgetKept ==
    stage \in {"allocating", "grouping", "published"} /\ policy.budget # NoBudget =>
        Spent(allocated) <= policy.budget

\* s is needed strictly sooner than t.
SoonerThan(s, t) ==
    \/ line[s].urgency = "critical" /\ line[t].urgency # "critical"
    \/ line[s].urgency = "soon" /\ line[t].urgency = "routine"

\* A line that the budget cut could not be filled one orderable step further even if no
\* line less urgent than it got anything: money is never spent on a routine article that
\* a critical one still needed (urgency-first allocation).
UrgentLinesAreServedFirst ==
    stage \in {"grouping", "published"} /\ policy.budget # NoBudget =>
        \A s \in candidates :
            \A base \in line[s].selected + 1 .. line[s].before_budget :
                Orderable(Facts(s), base) =>
                    Spent({t \in candidates \ {s} : ~ SoonerThan(s, t)}) + Cost(s, base) > policy.budget

\* Every article that is forecast or has stock ends in exactly one place: a line of one
\* order of its own supplier, warehouse and currency, or the excluded lines; an article
\* that is neither is in no order; and the prices that a total adds up are of one currency.
NothingDropped ==
    stage = "published" =>
        /\ orders # {}
        /\ \A s \in Series :
              IF s \in excluded THEN \A o \in orders : s \notin o.lines
              ELSE Cardinality({o \in orders : s \in o.lines})
                     = IF article[s].forecast \/ Stocked(s) THEN 1 ELSE 0
        /\ \A o \in orders, p \in orders : o.key = p.key => o = p
        /\ \A o \in orders : \A s \in o.lines : GroupOf[s] = o.key

================================================================================
