---------------------------- MODULE MCReplenishment ----------------------------
(* Three families of instances: one article with every combination of terms,  *)
(* receipts, scenarios and policies (quantities), articles that are left out   *)
(* or refuse the run (records), and three articles of two suppliers that share *)
(* a budget (budget).                                                          *)
EXTENDS Replenishment, TLC

Receipt(po, eta, quantity, active) ==
    [po_line |-> po, eta |-> eta, quantity |-> quantity, active |-> active]

Policy(budget, currency, cover, delay, target) ==
    [budget |-> budget, currency |-> currency, max_cover |-> cover, review_days |-> NoReview,
     delay |-> delay, target |-> target]

Count(at, free) == [at |-> at, free |-> free]

TermsRow(at, moq, pack, lead, review, cost) ==
    [at |-> at, moq |-> moq, pack |-> pack, lead |-> lead, review |-> review, cost |-> cost]

Normal(deviation) ==
    [method |-> "iid_residual_normal", deviation |-> deviation, paths |-> <<>>, path_count |-> 0]
Scenarios(paths, count) ==
    [method |-> "scenario_paths", deviation |-> 0, paths |-> paths, path_count |-> count]

\* One article: demand of three days, receipts early, late, past, closed and repeated.
\* The other two are in no forecast, and one of them has no stock either.
QuantityReceipts ==
    {<<>>, <<Receipt("a", 0, 2, TRUE)>>, <<Receipt("a", 2, 3, TRUE), Receipt("b", 3, 1, TRUE)>>,
     <<Receipt("a", -1, 2, TRUE), Receipt("b", 1, 2, FALSE)>>,
     <<Receipt("a", 1, 2, TRUE), Receipt("a", 1, 2, TRUE)>>}

Unforecast ==
    [forecast |-> FALSE, blocked |-> FALSE, warned |-> FALSE, stock |-> <<Count(0, 0)>>, terms |-> <<>>,
     receipts |-> <<>>, demand |-> <<0, 0, 0>>, conversion |-> 1, quantum |-> 1] @@ Normal(0)

Unstocked == [Unforecast EXCEPT !.stock = <<>>]

\* A count, an older and a newer one, and two equal ones with one still to come.
Counts ==
    {<<Count(-2, -1)>>, <<Count(-1, 0), Count(-3, 5)>>, <<Count(0, 2), Count(0, 2), Count(1, 7)>>}

\* A deviation, scenarios with a middle one, and two whose median lies between them.
Uncertainties ==
    {Normal(1), Scenarios(<<<<0, 1, 0>>, <<2, 3, 2>>, <<1, 5, 1>>>>, 3),
     Scenarios(<<<<2, 0, 2>>, <<0, 6, 0>>>>, 2)}

QuantityArticles ==
    {<<[facts EXCEPT !.terms = terms] @@ uncertainty, Unforecast, Unstocked>> :
        facts \in [forecast : {TRUE}, blocked : {FALSE}, warned : {FALSE}, stock : Counts,
                     terms : {<<>>}, receipts : QuantityReceipts, demand : {<<1, 2, 1>>, <<0, 4, 0>>},
                     conversion : {1, 3}, quantum : {1, 2}],
        terms \in {<<TermsRow(0, moq, pack, lead, review, 1)>> :
                     moq \in {0, 2, 3}, pack \in {1, 2}, lead \in {0, 1}, review \in {1, 2}},
        uncertainty \in Uncertainties}

QuantityPolicies ==
    {Policy(NoBudget, "KZT", cover, delay, 50) : cover \in {NoCover, 1, 3}, delay \in {0, 1}}
    \cup {Policy(NoBudget, "KZT", NoCover, 0, 100),
          [Policy(NoBudget, "KZT", NoCover, 0, 50) EXCEPT !.review_days = 2]}

\* Records that contradict each other, are missing or too short.
RecordArticle(stock, terms, uncertainty) ==
    [forecast |-> TRUE, blocked |-> FALSE, warned |-> FALSE, stock |-> stock, terms |-> terms,
     receipts |-> <<>>, demand |-> <<1, 2, 1>>, conversion |-> 1, quantum |-> 1] @@ uncertainty

RecordArticles ==
    {<<RecordArticle(stock, terms, uncertainty), RecordArticle(<<Count(0, 1)>>, <<TermsRow(0, 0, 1, 1, 1, 1)>>, Normal(0)),
       Unstocked>> :
        stock \in {<<Count(0, 1), Count(0, 2)>>, <<Count(1, 1)>>, <<Count(-1, 1), Count(-1, 2), Count(0, 3)>>},
        terms \in {<<>>, <<TermsRow(0, 2, 1, 1, 1, 1), TermsRow(0, 3, 1, 1, 1, 1)>>,
                   <<TermsRow(-1, 3, 1, 0, 1, 1), TermsRow(0, 2, 1, 1, 1, 1)>>},
        uncertainty \in {Normal(1), Scenarios(<<<<1, 2>>, <<1, 3>>>>, 3), Scenarios(<<<<1>>, <<2, 3>>>>, 2),
                         Scenarios(<<<<1, 2>>, <<1, 4>>>>, 2)}}

\* Three articles of two suppliers: one urgent, one with a choice, one cheap.
ThreeGroups ==
    (1 :> [supplier |-> "s1", warehouse |-> "w1", currency |-> "KZT"])
    @@ (2 :> [supplier |-> "s1", warehouse |-> "w2", currency |-> "KZT"])
    @@ (3 :> [supplier |-> "s2", warehouse |-> "w1", currency |-> "KZT"])

BudgetArticle(demand, moq, pack, cost) ==
    [forecast |-> TRUE, blocked |-> FALSE, warned |-> FALSE, stock |-> <<Count(0, 1)>>,
     terms |-> <<TermsRow(0, moq, pack, 1, 2, cost)>>, receipts |-> <<>>, demand |-> demand,
     conversion |-> 1, quantum |-> 1] @@ Normal(1)

BudgetChoices ==
    {BudgetArticle(demand, moq, pack, cost) :
        demand \in {<<0, 1, 0>>, <<0, 2, 3>>, <<3, 0, 1>>}, moq \in {0, 3}, pack \in {1, 2},
        cost \in {0, 1, 2}}
    \cup {[BudgetArticle(<<3, 0, 1>>, 0, 1, 1) EXCEPT !.blocked = TRUE],
          [BudgetArticle(<<3, 0, 1>>, 0, 1, 1) EXCEPT !.forecast = FALSE],
          [BudgetArticle(<<3, 0, 1>>, 0, 1, 1) EXCEPT !.forecast = FALSE, !.stock = <<>>],
          [BudgetArticle(<<3, 0, 1>>, 0, 1, 1) EXCEPT !.warned = TRUE],
          BudgetArticle(<<0, 0, 0>>, 0, 1, NoCost)}

Moq(a) == a.terms[1].moq

BudgetArticles ==
    BudgetChoices \X {a \in BudgetChoices : Moq(a) = 0}
      \X {a \in BudgetChoices : a.terms[1].pack = 1 /\ Moq(a) = 0 /\ a.terms[1].cost # 2}

BudgetPolicies ==
    {Policy(budget, "KZT", NoCover, 0, 50) : budget \in {NoBudget, 0, 4, 7}}
    \cup {Policy(3, "USD", NoCover, 0, 50)}

MCInputs ==
    {[articles |-> QuantityArticles, policies |-> QuantityPolicies],
     [articles |-> RecordArticles, policies |-> QuantityPolicies],
     [articles |-> BudgetArticles, policies |-> BudgetPolicies]}

================================================================================
