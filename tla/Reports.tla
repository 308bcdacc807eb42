------------------------------- MODULE Reports -------------------------------
(***************************************************************************)
(* The reports of apps/api (ReportsService and CommissionsService) over    *)
(* the sales of the tenant, their returns and the finance entries of       *)
(* Documents.                                                              *)
(*                                                                         *)
(* No report is stored.  Each reads the completed sales of its period in   *)
(* one transaction and what was returned of them in another, by sale or by *)
(* line, so that returns may come in between, and folds the rows.  The     *)
(* figures of all the reports are operators over what was read.            *)
(*                                                                         *)
(* Time is counted in ticks; amounts are in cents, rates in basis points   *)
(* and averages in hundredths, as integers.                                *)
(***************************************************************************)
EXTENDS Documents, FiniteSetsExt

CONSTANTS
    Sellers, Stores,
    SaleIds,      \* ids of the sales that may be recorded
    Baskets,      \* what may be sold: who, where, units, discount and points redeemed
    Price,        \* unit price of each product
    NoRate, RateValues,  \* commission rates, in basis points
    TicksPerDay, LastTick, \* bound on the clock
    DefaultDays,  \* DEFAULT_RANGE_DAYS
    NoDay,        \* a period without that end
    Queries,      \* the periods asked for
    CoverageDays, AlertDays, TargetMargin

Days == 0 .. LastTick \div TicksPerDay
Query == [from : Days \cup {NoDay}, to : Days \cup {NoDay}]

\* Redeemed points count with what they are worth in cents.
Basket == [seller : Sellers, store : Stores, qty : [Products -> Nat],
           discount : Nat, redeemed : Nat]

ASSUME ReportsAssumption ==
    /\ IsFiniteSet(SaleIds) /\ IsFiniteSet(Products) /\ IsFiniteSet(Docs) /\ IsFiniteSet(Sellers)
    /\ Baskets \subseteq Basket /\ Queries \subseteq Query
    /\ Price \in [Products -> Nat]
    /\ RateValues \subseteq 0 .. 10000 /\ NoRate \notin RateValues
    /\ TicksPerDay \in Nat \ {0, 1, 2} /\ LastTick \in Nat
    /\ DefaultDays \in Nat \ {0} /\ NoDay \notin Nat
    /\ TargetMargin \in 0 .. 95

VARIABLES
    clock,     \* the present tick
    book,      \* sales with their items, and what was returned of each item
    rates,     \* commission_settings.default_rate_bps and the sellers' own
    view       \* what a report has read

reportVars == <<clock, book, rates, view>>

NoSale == [status |-> "none"]
NotReturned == [p \in Products |-> [qty |-> 0, cents |-> 0]]
NoView == [phase |-> "none"]

RepInit ==
    /\ clock = 0
    /\ book = [s \in SaleIds |-> NoSale]
    /\ rates = [default |-> 0, own |-> [x \in Sellers |-> NoRate]]
    /\ view = NoView

----------------------------------------------------------------------------
\* Math.round(n / d) and Math.ceil(n / d).
Rounded(n, d) == (2 * n + d) \div (2 * d)
Ceil(n, d) == -((-n) \div d)

SumOf(S, f(_)) == SumFunctionOnSet([x \in S |-> f(x)], S)

Gross(sale) == SumOf(Products, LAMBDA p : Price[p] * sale.qty[p])

\* What a return refunds of q units of an item, in proportion to what was paid.
RefundOfUnits(sale, p, q) ==
    IF Gross(sale) > 0 THEN Rounded(Price[p] * q * sale.total, Gross(sale)) ELSE Price[p] * q

Tick ==
    /\ clock < LastTick /\ clock' = clock + 1
    /\ UNCHANGED <<docVars, book, rates, view>>

\* SalesService.create: the total is net of the discount and of the points
\* redeemed; of these two only the discount has a column of its own.
RecordSale(s, b) ==
    LET total == Gross(b) - b.discount - b.redeemed IN
    /\ book[s] = NoSale /\ total >= 0
    /\ book' = [book EXCEPT ![s] = [status |-> "completed", at |-> clock, seller |-> b.seller,
                                    store |-> b.store, qty |-> b.qty, discount |-> b.discount,
                                    redeemed |-> b.redeemed, total |-> total,
                                    back |-> NotReturned]]
    /\ UNCHANGED <<docVars, clock, rates, view>>

\* SaleReturnsService.create: some units come back; with the last of them the
\* sale is canceled.
ReturnUnits(s, q) ==
    LET sale == book[s]
        back == [p \in Products |-> [qty |-> sale.back[p].qty + q[p],
                                     cents |-> sale.back[p].cents + RefundOfUnits(sale, p, q[p])]] IN
    /\ "return" \in agenda
    /\ sale.status = "completed"
    /\ q # Zero /\ \A p \in Products : back[p].qty <= sale.qty[p]
    /\ book' = [book EXCEPT ![s].back = back,
                            ![s].status = IF \A p \in Products : back[p].qty = sale.qty[p]
                                          THEN "canceled" ELSE "completed"]
    /\ UNCHANGED <<docVars, clock, rates, view>>

\* PATCH /commissions/settings; PUT and DELETE of a seller's own rate.
SetDefaultRate(bps) ==
    /\ "rate" \in agenda
    /\ rates' = [rates EXCEPT !.default = bps]
    /\ UNCHANGED <<docVars, clock, book, view>>

SetOwnRate(x, bps) ==
    /\ "rate" \in agenda
    /\ rates' = [rates EXCEPT !.own[x] = bps]
    /\ UNCHANGED <<docVars, clock, book, view>>

----------------------------------------------------------------------------
\* resolveRange: whole days when they are given, or the last days until now.
ResolvedRange(q) ==
    LET last == IF q.to # NoDay THEN q.to * TicksPerDay + TicksPerDay - 1 ELSE clock IN
    [last |-> last,
     first |-> IF q.from # NoDay THEN q.from * TicksPerDay
               ELSE last - (DefaultDays - 1) * TicksPerDay]

\* The figures are over sales S and what `back` says was returned of them.

\* refundedCentsBySale
RefundedCents(s, back) == SumOf(Products, LAMBDA p : back[s][p].cents)

\* Mutant: a sale counts in full, whatever was returned of it.
GrossOf(s, back) == book[s].total

\* The revenue of a sale: what was paid but for what went back.
NetOf(s, back) == book[s].total - RefundedCents(s, back)

Revenue(S, back) == SumOf(S, LAMBDA s : NetOf(s, back))

\* completedSalesInRange
CompletedIn(range) ==
    {s \in SaleIds : /\ book[s].status = "completed"
                     /\ range.first <= book[s].at /\ book[s].at <= range.last}

BackOf(S) == [s \in S |-> book[s].back]

\* The first transaction of a report.
ReadSales(q) ==
    /\ view = NoView
    /\ LET S == CompletedIn(ResolvedRange(q)) IN
       view' = [phase |-> "sales", range |-> ResolvedRange(q), sales |-> S,
                before |-> Revenue(S, BackOf(S))]
    /\ UNCHANGED <<docVars, clock, book, rates>>

\* What was returned by sale, for the figures by sale; the rates are read last.
ReadRefunds ==
    /\ view.phase = "sales"
    /\ view' = [phase |-> "refunds", range |-> view.range, sales |-> view.sales,
                before |-> view.before, back |-> BackOf(view.sales), rates |-> rates]
    /\ UNCHANGED <<docVars, clock, book, rates>>

\* What was returned by line, for the figures by product, in a later
\* transaction.
ReadLines ==
    /\ view.phase = "refunds"
    /\ view' = [phase |-> "done", range |-> view.range, sales |-> view.sales,
                before |-> view.before, back |-> view.back, rates |-> view.rates,
                lines |-> BackOf(view.sales)]
    /\ UNCHANGED <<docVars, clock, book, rates>>

EndReport ==
    /\ view.phase = "done" /\ view' = NoView
    /\ UNCHANGED <<docVars, clock, book, rates>>

RepNext ==
    \/ Tick
    \/ \E s \in SaleIds, b \in Baskets : RecordSale(s, b)
    \/ \E s \in SaleIds, q \in [Products -> 0 .. 2] : ReturnUnits(s, q)
    \/ \E bps \in RateValues : SetDefaultRate(bps)
    \/ \E x \in Sellers, bps \in RateValues \cup {NoRate} : SetOwnRate(x, bps)
    \/ \E q \in Queries : ReadSales(q)
    \/ ReadRefunds \/ ReadLines \/ EndReport

----------------------------------------------------------------------------
\* The figures of the reports.

\* summary
Summary(S, back) ==
    LET n == Cardinality(S) IN
    [sales |-> n, revenue |-> Revenue(S, back),
     ticket |-> IF n > 0 THEN Rounded(Revenue(S, back), n) ELSE 0]

\* sellerRanking and storeRanking: a row for each that sold, of its own sales.
SellerRanking(S, back) ==
    [x \in {book[s].seller : s \in S} |->
        LET own == {s \in S : book[s].seller = x} IN
        [sales |-> Cardinality(own), revenue |-> SumOf(own, LAMBDA s : NetOf(s, back))]]

StoreRanking(S, back) ==
    [x \in {book[s].store : s \in S} |->
        LET own == {s \in S : book[s].store = x} IN
        [sales |-> Cardinality(own), revenue |-> SumOf(own, LAMBDA s : NetOf(s, back))]]

\* aggregatedProductRevenue: by item, at list price, less what went back of it.
ProductRanking(S, back) ==
    [p \in {p \in Products : \E s \in S : book[s].qty[p] > 0} |->
        [units |-> SumOf(S, LAMBDA s : book[s].qty[p] - back[s][p].qty),
         revenue |-> SumOf(S, LAMBDA s : Price[p] * book[s].qty[p] - back[s][p].cents)]]

\* The orders in which a ranking may be listed: by descending revenue.
Listings(ranking) ==
    {pos \in [DOMAIN ranking -> 1 .. Cardinality(DOMAIN ranking)] :
        \A p, q \in DOMAIN ranking :
            /\ pos[p] = pos[q] => p = q
            /\ ranking[p].revenue > ranking[q].revenue => pos[p] < pos[q]}

\* abcCurve, of a ranking in that order: the share of a product and of all
\* before it decides its class.
AbcCurve(ranking, pos) ==
    LET total == SumOf(DOMAIN ranking, LAMBDA p : ranking[p].revenue)
        upTo(p) == SumOf({q \in DOMAIN ranking : pos[q] <= pos[p]},
                         LAMBDA q : ranking[q].revenue) IN
    [p \in {q \in DOMAIN ranking : total # 0} |->
        IF 100 * upTo(p) <= 80 * total THEN "A"
        ELSE IF 100 * upTo(p) <= 95 * total THEN "B" ELSE "C"]

\* resolveRatesTx: the seller's own rate, or the default one.
RateOf(x, r) == IF r.own[x] # NoRate THEN r.own[x] ELSE r.default

\* commissionReport
Commissions(S, back, r) ==
    [x \in {book[s].seller : s \in S} |->
        LET own == {s \in S : book[s].seller = x} IN
        Rounded(SumOf(own, LAMBDA s : NetOf(s, back)) * RateOf(x, r), 10000)]

\* Mutant: the discount is taken to be what the total is short of the subtotal.
SalesCsvShort(S, back) ==
    [s \in S |-> [subtotal |-> Gross(book[s]), discount |-> Gross(book[s]) - book[s].total,
                  total |-> book[s].total, returned |-> RefundedCents(s, back)]]

\* The money columns of exportSalesCsv.
SalesCsv(S, back) ==
    [s \in S |-> [subtotal |-> Gross(book[s]), discount |-> book[s].discount,
                  total |-> book[s].total, returned |-> RefundedCents(s, back)]]

\* windowDays
WindowDays(range) == Max({1, Rounded(range.last - range.first, TicksPerDay) + 1})

\* reorderSuggestions: the active tracked products, with what was sold of each;
\* a product out of stock is listed even so.
ReorderSuggestions(S, back, window) ==
    LET sold(p) == SumOf(S, LAMBDA s : book[s].qty[p] - back[s][p].qty)
        row(p) == [stock |-> stock[p],
                   average |-> Rounded(100 * sold(p), window),
                   suggested |-> IF sold(p) > 0
                                 THEN Max({0, Ceil(sold(p) * CoverageDays, window) - stock[p]}) ELSE 0,
                   attention |-> \/ stock[p] <= 0
                                 \/ sold(p) > 0 /\ stock[p] * window <= AlertDays * sold(p)]
        listed == {p \in Tracked : active[p] /\ (row(p).average > 0 \/ stock[p] <= 0)} IN
    [p \in listed |-> row(p)]

\* pricingSuggestions: the active products with a cost.
PricingSuggestions ==
    [p \in {p \in Products : active[p] /\ cost[p] # 0} |->
        [suggested |-> Rounded(100 * cost[p], 100 - TargetMargin),
         margin |-> IF Price[p] > 0 THEN Rounded(1000 * (Price[p] - cost[p]), Price[p])
                    ELSE IF cost[p] > 0 THEN -1000 ELSE 0,
         belowCost |-> Price[p] <= cost[p]]]

----------------------------------------------------------------------------
\* The money of the finance entries.
EntriesWith(status, type) ==
    {d \in Docs : docs[d].kind = "entry" /\ docs[d].status = status /\ docs[d].type = type}

Amount(D) == SumOf(D, LAMBDA d : docs[d].amount)

\* FinanceService.cashflowSummary, on a day.
Cashflow(today) ==
    LET overdue(D) == {d \in D : docs[d].due < today} IN
    [pendingIn |-> Amount(EntriesWith("pending", "receivable")),
     pendingOut |-> Amount(EntriesWith("pending", "payable")),
     overdueIn |-> Amount(overdue(EntriesWith("pending", "receivable"))),
     overdueOut |-> Amount(overdue(EntriesWith("pending", "payable"))),
     net |-> Amount(EntriesWith("paid", "receivable")) - Amount(EntriesWith("paid", "payable"))]

\* dre, over a period that holds every payment: by cost center, or without one.
Dre ==
    LET paid == {d \in Docs : docs[d].kind = "entry" /\ docs[d].status = "paid" /\ docs[d].paidAt}
        at(c) == {d \in paid : docs[d].center = c}
        balance(D) == Amount({d \in D : docs[d].type = "receivable"})
                      - Amount({d \in D : docs[d].type = "payable"}) IN
    [result |-> balance(paid), byCenter |-> [c \in {docs[d].center : d \in paid} |-> balance(at(c))]]

\* exportFinanceCsv: everything due in the days of the period, whatever its status.
FinanceCsv(from, to) ==
    {d \in Docs : docs[d].kind = "entry" /\ from <= docs[d].due /\ docs[d].due <= to}

----------------------------------------------------------------------------
SumRows(ranking) == SumOf(DOMAIN ranking, LAMBDA x : ranking[x].revenue)
CountRows(ranking) == SumOf(DOMAIN ranking, LAMBDA x : ranking[x].sales)

Commission(S, back, r) ==
    SumOf(DOMAIN Commissions(S, back, r), LAMBDA x : Commissions(S, back, r)[x])

\* No product is in a better class than one listed before it.
Classified(ranking) ==
    \A pos \in Listings(ranking) :
        LET class == AbcCurve(ranking, pos) IN
        \A p, q \in DOMAIN class : pos[p] < pos[q] =>
            class[p] = "A" \/ class[q] = "C" \/ class[p] = class[q]

\* The figures by sale of one report agree: the summary is the sum of the
\* sellers, of the stores and of the sales exported; its ticket and the
\* commissions at one rate are their share of it, to half a cent a sale and a
\* seller; a sale exported is short of its subtotal by its discount, and by more
\* exactly when points were redeemed.
FiguresBySaleAgree(S, back) ==
    LET total == Summary(S, back)
        sellers == SellerRanking(S, back)
        shops == StoreRanking(S, back)
        csv == SalesCsv(S, back)
        short(s) == csv[s].subtotal - csv[s].total - csv[s].discount IN
    /\ total.revenue = SumRows(sellers) /\ total.sales = CountRows(sellers)
    /\ total.revenue = SumRows(shops) /\ total.sales = CountRows(shops)
    /\ total.revenue = SumOf(S, LAMBDA s : csv[s].total - csv[s].returned)
    /\ LET off == total.ticket * total.sales - total.revenue IN
       2 * off <= total.sales /\ 2 * off >= -total.sales
    /\ \A s \in S : short(s) >= 0 /\ (short(s) = 0 <=> book[s].redeemed = 0)
    /\ (\A x \in Sellers : view.rates.own[x] = NoRate) =>
          LET off == 10000 * Commission(S, back, view.rates) - view.rates.default * total.revenue IN
          2 * off <= 10000 * Cardinality(Sellers) /\ 2 * off >= -10000 * Cardinality(Sellers)

\* The figures by product: what is listed before is in no worse class, what is
\* to be reordered was sold or is out of stock.
FiguresByProductAgree(S, lines) ==
    LET products == ProductRanking(S, lines)
        reorder == ReorderSuggestions(S, lines, WindowDays(view.range)) IN
    /\ (\A p \in DOMAIN products : products[p].revenue >= 0) => Classified(products)
    /\ \A p \in DOMAIN reorder : stock[p] > 0 => products[p].units > 0

\* The reports of a period agree, also when units are returned between the reads
\* of one and of another.  Products at list price, less what the sales exported
\* are short of their subtotals, make the revenue as of their own read; and what
\* a report says the sales brought lies between what they had brought when they
\* were read and what they bring now, the later report below the earlier one.
SalesReportsAgree ==
    LET S == view.sales
        revenue == Summary(S, view.back).revenue
        csv == SalesCsv(S, view.back)
        byProduct == SumRows(ProductRanking(S, view.lines))
                     - SumOf(S, LAMBDA s : csv[s].subtotal - csv[s].total) IN
    view.phase = "done" =>
        /\ FiguresBySaleAgree(S, view.back)
        /\ FiguresByProductAgree(S, view.lines)
        /\ view.lines = view.back => byProduct = revenue
        /\ Revenue(S, BackOf(S)) <= byProduct /\ byProduct <= revenue
        /\ revenue <= view.before

\* No price is suggested below the cost, so that a product sold at its cost or
\* below, whose margin is never positive, is not made cheaper.
PricesAgree ==
    \A p \in DOMAIN PricingSuggestions :
        LET row == PricingSuggestions[p] IN
        /\ row.suggested >= cost[p]
        /\ row.belowCost => row.margin <= 0 /\ row.suggested >= Price[p]

\* The statement by cost center adds up to the result, and the result is the
\* net of the cash flow: both count each entry paid once, on its own side.  What
\* is overdue on a day is what the export of the days before has as pending.
FinanceReportsAgree ==
    LET pending(D, type) == Amount({d \in D : docs[d].status = "pending" /\ docs[d].type = type}) IN
    /\ Dre.result = SumOf(DOMAIN Dre.byCenter, LAMBDA c : Dre.byCenter[c])
    /\ \A today \in Days :
          /\ Dre.result = Cashflow(today).net
          /\ Cashflow(today).overdueIn = pending(FinanceCsv(0, today - 1), "receivable")
          /\ Cashflow(today).overdueOut = pending(FinanceCsv(0, today - 1), "payable")

\* The reports agree among themselves: those on sales, whose reads are apart, the
\* prices suggested, and those on the finance entries (reports.service.ts:78-650,
\* finance.service.ts:148-183).
ReportsAgree == SalesReportsAgree /\ PricesAgree /\ FinanceReportsAgree

----------------------------------------------------------------------------
\* What was returned of a sale, by product, and the row of a sale.
Back == [Products -> [qty : Nat, cents : Nat]]
SaleRow == [status : {"completed", "canceled"}, at : Nat, seller : Sellers, store : Stores,
            qty : [Products -> Nat], discount : Nat, redeemed : Nat, total : Nat, back : Back]

Rates == [default : Nat, own : [Sellers -> RateValues \cup {NoRate}]]

RepTypeOK ==
    /\ clock \in Nat
    /\ book \in [SaleIds -> {NoSale} \cup SaleRow]
    /\ rates \in Rates
    /\ view.phase \in {"none", "sales", "refunds", "done"}
    /\ view.phase # "none" =>
          /\ view.sales \subseteq SaleIds /\ \A s \in view.sales : book[s] # NoSale
          /\ view.range.first \in Int /\ view.range.last \in Int /\ view.before \in Int
    /\ view.phase \in {"refunds", "done"} => view.back \in [view.sales -> Back] /\ view.rates \in Rates
    /\ view.phase = "done" => view.lines \in [view.sales -> Back]

\* Nothing came back of a product beyond what was sold of it, and no money for
\* none of it.
BackFits(sale, back) ==
    \A p \in Products : /\ back[p].qty <= sale.qty[p]
                        /\ back[p].qty = 0 => back[p].cents = 0

\* An entry that is paid has the date of its payment, contested or not.
PaidIsDated ==
    \A d \in Docs : docs[d].kind = "entry" /\ docs[d].status = "paid" => docs[d].paidAt

Priced(sale) == sale.total = Gross(sale) - sale.discount - sale.redeemed

\* What the sales that were read bring now.
RevenueNow == Revenue(view.sales, BackOf(view.sales))

\* The inductive invariant of the reports: what was read of a sale is of that
\* sale, and what came back since then only takes from its revenue.
RepInv ==
    /\ RepTypeOK
    /\ \A s \in SaleIds : book[s] # NoSale => BackFits(book[s], book[s].back) /\ Priced(book[s])
    /\ view.phase = "sales" => RevenueNow <= view.before
    /\ view.phase \in {"refunds", "done"} =>
          /\ Revenue(view.sales, view.back) <= view.before
          /\ \A s \in view.sales : BackFits(book[s], view.back[s])
    /\ view.phase = "refunds" => RevenueNow <= Revenue(view.sales, view.back)
    /\ view.phase = "done" =>
          /\ RevenueNow <= Revenue(view.sales, view.lines)
          /\ Revenue(view.sales, view.lines) <= Revenue(view.sales, view.back)
          /\ \A s \in view.sales : BackFits(book[s], view.lines[s])
    /\ PaidIsDated

=============================================================================
