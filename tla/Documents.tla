------------------------------ MODULE Documents ------------------------------
(***************************************************************************)
(* The documents of the back office of apps/api and the goods and money    *)
(* they stand for: purchase orders (PurchaseOrdersService), stock counts   *)
(* (StockCountsService) and accounts payable and receivable                *)
(* (FinanceService).                                                       *)
(*                                                                         *)
(* The three services share a protocol.  A handler reads the document in a *)
(* transaction of its own (findByIdOrThrow), refuses unless the status is  *)
(* the first one, and then, in another transaction, writes what it does    *)
(* and sets the new status WHERE id = ..., whatever the status is by then. *)
(* A worker is one such request, between the two transactions.             *)
(*                                                                         *)
(* The second transaction is one step: how the SELECT and the UPDATE of a  *)
(* product's balance inside it interleave with other writers of the row is *)
(* the subject of StockLedger.                                             *)
(***************************************************************************)
EXTENDS Integers, FiniteSets

CONSTANTS
    Workers,     \* requests that may be in flight together
    Products,    \* products of the tenant
    Tracked,     \* those with track_stock
    Docs,        \* ids of the documents that may be created
    Orders,      \* bodies of POST /purchase-orders
    Entries,     \* bodies of POST /finance-entries
    Edits,       \* bodies of PATCH /finance-entries/:id, any fields of an entry
    Parties,     \* registered customers and suppliers
    NoParty,     \* no customer, or no supplier
    Centers,     \* registered cost centers
    NoCenter,    \* no cost center
    Agendas,     \* the sets of operations a behaviour may be made of
    InitialStock, \* balance of every tracked product at first
    MaxShifts    \* bound on the times units of a product move otherwise

\* purchase_order_items: quantity (0: not in the order) and unit cost.
Order == [qty : [Products -> Nat], cost : [Products -> Nat]]

\* A finance entry, as the body gives it.
Entry == [type : {"payable", "receivable"}, amount : Nat, due : Nat,
          customer : Parties \cup {NoParty}, supplier : Parties \cup {NoParty},
          center : Centers \cup {NoCenter}]

OrderOps == {"receive", "cancelOrder"}
CountOps == {"tally", "finalize", "cancelCount"}
EntryOps == {"edit", "pay", "cancelEntry"}
Ops == OrderOps \cup CountOps \cup EntryOps

\* { ...existing, ...body }: the fields a PATCH gives, over the old ones.
Given(body, f, old) == IF f \in DOMAIN body THEN body[f] ELSE old

Patched(row, body) ==
    [row EXCEPT !.type = Given(body, "type", @), !.amount = Given(body, "amount", @),
                !.due = Given(body, "due", @), !.customer = Given(body, "customer", @),
                !.supplier = Given(body, "supplier", @), !.center = Given(body, "center", @)]

ASSUME DocumentsAssumption ==
    /\ Tracked \subseteq Products
    /\ Orders \subseteq Order /\ Entries \subseteq Entry
    /\ \A body \in Edits :
          /\ "type" \in DOMAIN body => body.type \in {"payable", "receivable"}
          /\ "amount" \in DOMAIN body => body.amount \in Nat
          /\ "due" \in DOMAIN body => body.due \in Nat
          /\ "customer" \in DOMAIN body => body.customer \in Parties \cup {NoParty}
          /\ "supplier" \in DOMAIN body => body.supplier \in Parties \cup {NoParty}
          /\ "center" \in DOMAIN body => body.center \in Centers \cup {NoCenter}
    /\ NoParty \notin Parties /\ NoCenter \notin Centers
    /\ InitialStock \in Nat /\ MaxShifts \in Nat

VARIABLES
    agenda,  \* the operations of this behaviour
    docs,    \* rows of the three tables, by id
    goods,   \* SUM(quantity) of the movements posted in the name of each id
    stock,   \* products.stock_quantity
    cost,    \* products.cost_price_cents, 0 for null
    active,  \* products.active
    \* the requests
    pc, req,
    \* the shop floor, and history
    shelf,     \* units of each product that are really there
    shifts,    \* times its units moved other than by a document
    contested  \* documents decided while another request on them was past
               \* its check

flight == <<pc, req>>
docVars == <<agenda, docs, goods, stock, cost, active, flight, shelf, shifts, contested>>

Zero == [p \in Products |-> 0]
NoDoc == [kind |-> "none", status |-> "none"]
NoRequest == [op |-> "none"]

\* expected_quantity of a product without an item, counted_quantity null.
NotListed == -1
NotCounted == -1

KindOf(op) == IF op \in OrderOps THEN "order" ELSE IF op \in CountOps THEN "count" ELSE "entry"

\* The status a document of each kind is created with.
Opens == [order |-> "draft", count |-> "open", entry |-> "pending", none |-> "none"]

IsOpen(row) == row.status = Opens[row.kind]

DocInit ==
    /\ agenda \in Agendas
    /\ docs = [d \in Docs |-> NoDoc]
    /\ goods = [d \in Docs |-> Zero]
    /\ stock = [p \in Products |-> IF p \in Tracked THEN InitialStock ELSE 0]
    /\ cost = Zero /\ active = [p \in Products |-> TRUE]
    /\ pc = [w \in Workers |-> "idle"]
    /\ req = [w \in Workers |-> NoRequest]
    /\ shelf = stock /\ shifts = Zero
    /\ contested = {}

----------------------------------------------------------------------------
\* The ids are uuids; the next free one stands for the one drawn.
FreshDoc == CHOOSE d \in Docs : docs[d] = NoDoc

Insert(row) ==
    /\ \E d \in Docs : docs[d] = NoDoc
    /\ docs' = [docs EXCEPT ![FreshDoc] = row]
    /\ UNCHANGED <<agenda, goods, stock, cost, active, flight, shelf, shifts, contested>>

\* POST /purchase-orders: the supplier and the products exist.
CreateOrder ==
    /\ "receive" \in agenda
    /\ \E o \in Orders :
          /\ \E p \in Products : o.qty[p] > 0
          /\ Insert([kind |-> "order", status |-> "draft", qty |-> o.qty, cost |-> o.cost])

\* POST /stock-counts: an item for every active tracked product, with its balance.
CreateCount ==
    /\ "tally" \in agenda
    /\ Insert([kind |-> "count", status |-> "open",
               expected |-> [p \in Products |-> IF p \in Tracked /\ active[p]
                                             THEN stock[p] ELSE NotListed],
               counted |-> [p \in Products |-> NotCounted],
               at |-> Zero])

\* A receivable has no supplier and a payable has no customer.
PartyFits(e) == /\ e.type = "receivable" => e.supplier = NoParty
                /\ e.type = "payable" => e.customer = NoParty

\* POST /finance-entries: the counterparty fits the type and exists.
CreateEntry ==
    /\ "pay" \in agenda
    /\ \E e \in Entries :
          /\ PartyFits(e)
          /\ Insert([kind |-> "entry", status |-> "pending", paidAt |-> FALSE,
                     type |-> e.type, amount |-> e.amount, due |-> e.due,
                     customer |-> e.customer, supplier |-> e.supplier,
                     center |-> e.center])

----------------------------------------------------------------------------
\* Only receive and finalize use the items of the document they read.
Kept(op, row) == IF op \in {"receive", "finalize"} THEN row ELSE NoDoc

\* Mutant: the status is left to the UPDATE, which does not look at it.
CheckExistsOnly(w, op, d, arg) ==
    /\ pc[w] = "idle" /\ op \in agenda
    /\ docs[d].kind = KindOf(op)
    /\ pc' = [pc EXCEPT ![w] = "write"]
    /\ req' = [req EXCEPT ![w] = [op |-> op, doc |-> d, arg |-> arg, seen |-> Kept(op, docs[d])]]
    /\ UNCHANGED <<agenda, docs, goods, stock, cost, active, shelf, shifts, contested>>

\* findByIdOrThrow and the check of the status, in a transaction of their own.
\* A request refused leaves no trace.
Check(w, op, d, arg) ==
    /\ pc[w] = "idle" /\ op \in agenda
    /\ docs[d].kind = KindOf(op) /\ IsOpen(docs[d])
    /\ pc' = [pc EXCEPT ![w] = "write"]
    /\ req' = [req EXCEPT ![w] = [op |-> op, doc |-> d, arg |-> arg, seen |-> Kept(op, docs[d])]]
    /\ UNCHANGED <<agenda, docs, goods, stock, cost, active, shelf, shifts, contested>>

NoArg == [none |-> TRUE]

\* What the operator counts: the units of p on the shelf now.
Tallied(p) == [product |-> p, units |-> shelf[p], at |-> shifts[p]]

AskOrder(w, d) == \E op \in OrderOps : Check(w, op, d, NoArg)

AskCount(w, d) ==
    \/ \E p \in Products : Check(w, "tally", d, Tallied(p))
    \/ \E op \in {"finalize", "cancelCount"} : Check(w, op, d, NoArg)

AskEntry(w, d) ==
    \/ \E body \in Edits : Check(w, "edit", d, body)
    \/ \E op \in {"pay", "cancelEntry"} : Check(w, op, d, NoArg)

\* An exception, a crash or a lost connection: ROLLBACK.
Fail(w) ==
    /\ pc[w] = "write"
    /\ pc' = [pc EXCEPT ![w] = "idle"]
    /\ req' = [req EXCEPT ![w] = NoRequest]
    /\ UNCHANGED <<agenda, docs, goods, stock, cost, active, shelf, shifts, contested>>

----------------------------------------------------------------------------
\* Requests of other workers on the document, past their checks.
PastCheck(w, d) == \E v \in Workers \ {w} : pc[v] = "write" /\ req[v].doc = d

At(w, op) == pc[w] = "write" /\ req[w].op = op

\* The request ends with the row written; a row decided meets its rivals.
Write(w, row) ==
    LET d == req[w].doc IN
    /\ docs' = [docs EXCEPT ![d] = row]
    /\ contested' = IF ~ IsOpen(row) /\ PastCheck(w, d) THEN contested \cup {d} ELSE contested
    /\ pc' = [pc EXCEPT ![w] = "idle"]
    /\ req' = [req EXCEPT ![w] = NoRequest]
    /\ UNCHANGED <<agenda, active>>

SetStatus(w, s) == Write(w, [docs[req[w].doc] EXCEPT !.status = s])

\* The units an order of these items brings of a product.
Received(row, p) == IF p \in Tracked THEN row.qty[p] ELSE 0

\* receive: an entrada per tracked item, the unit cost as the new cost of
\* every product ordered, and the status.
Receive(w) ==
    LET order == req[w].seen
        d == req[w].doc IN
    /\ At(w, "receive")
    /\ stock' = [p \in Products |-> stock[p] + Received(order, p)]
    /\ goods' = [goods EXCEPT ![d] = [p \in Products |-> @[p] + Received(order, p)]]
    /\ cost' = [p \in Products |-> IF order.qty[p] > 0 THEN order.cost[p] ELSE cost[p]]
    /\ IF goods[d] = Zero
       THEN /\ shelf' = [p \in Products |-> shelf[p] + Received(order, p)]
            /\ shifts' = [p \in Products |-> shifts[p] + (IF Received(order, p) > 0 THEN 1 ELSE 0)]
       ELSE UNCHANGED <<shelf, shifts>>
    /\ SetStatus(w, "received")

\* setItemCount: the item of the count, if there is one for the product.
Tally(w) ==
    LET d == req[w].doc
        tallied == req[w].arg IN
    /\ At(w, "tally")
    /\ docs[d].expected[tallied.product] # NotListed
    /\ Write(w, [docs[d] EXCEPT !.counted[tallied.product] = tallied.units,
                                !.at[tallied.product] = tallied.at])
    /\ UNCHANGED <<goods, stock, cost, shelf, shifts>>

\* Mutant: the difference is taken from the balance when the count was opened.
AdjustmentFromOpening(row, p) ==
    IF row.counted[p] = NotCounted THEN 0 ELSE row.counted[p] - row.expected[p]

\* The difference an item makes, against the balance as it is now.
Adjustment(row, p) ==
    IF row.counted[p] = NotCounted THEN 0 ELSE row.counted[p] - stock[p]

\* finalize: an ajuste per item counted when the count was read.
Finalize(w) ==
    LET seen == req[w].seen IN
    /\ At(w, "finalize")
    /\ \A p \in Products : stock[p] + Adjustment(seen, p) >= 0
    /\ stock' = [p \in Products |-> stock[p] + Adjustment(seen, p)]
    /\ goods' = [goods EXCEPT ![req[w].doc] = [p \in Products |-> @[p] + Adjustment(seen, p)]]
    /\ SetStatus(w, "completed")
    /\ UNCHANGED <<cost, shelf, shifts>>

\* update: the fields of the body over those of the row; the type and the
\* counterparty are not compared again.
Edit(w) ==
    /\ At(w, "edit")
    /\ Write(w, Patched(docs[req[w].doc], req[w].arg))
    /\ UNCHANGED <<goods, stock, cost, shelf, shifts>>

\* pay: the status and paid_at.
Pay(w) ==
    /\ At(w, "pay")
    /\ Write(w, [docs[req[w].doc] EXCEPT !.status = "paid", !.paidAt = TRUE])
    /\ UNCHANGED <<goods, stock, cost, shelf, shifts>>

\* cancel, of the three services: nothing but the status.
Cancel(w, op) ==
    /\ At(w, op)
    /\ SetStatus(w, "canceled")
    /\ UNCHANGED <<goods, stock, cost, shelf, shifts>>

CancelOrder(w) == Cancel(w, "cancelOrder")
CancelCount(w) == Cancel(w, "cancelCount")
CancelEntry(w) == Cancel(w, "cancelEntry")

----------------------------------------------------------------------------
\* A unit of p leaves the shelf: sold, with its movement, or lost.
Shift(p) ==
    /\ "tally" \in agenda
    /\ shelf[p] > 0 /\ shifts[p] < MaxShifts
    /\ shelf' = [shelf EXCEPT ![p] = @ - 1]
    /\ shifts' = [shifts EXCEPT ![p] = @ + 1]
    /\ \/ stock[p] > 0 /\ stock' = [stock EXCEPT ![p] = @ - 1]
       \/ UNCHANGED stock
    /\ UNCHANGED <<agenda, docs, goods, cost, active, flight, contested>>

\* PATCH /products/:id with active: a product is never deleted.
SwitchProduct(p) ==
    /\ "switch" \in agenda
    /\ active' = [active EXCEPT ![p] = ~ @]
    /\ UNCHANGED <<agenda, docs, goods, stock, cost, flight, shelf, shifts, contested>>

Serve(w) ==
    \/ Receive(w) \/ Tally(w) \/ Finalize(w) \/ Edit(w) \/ Pay(w)
    \/ CancelOrder(w) \/ CancelCount(w) \/ CancelEntry(w)

DocNext ==
    \/ CreateOrder \/ CreateCount \/ CreateEntry
    \/ \E w \in Workers : \/ Serve(w) \/ Fail(w)
                          \/ \E d \in Docs : AskOrder(w, d) \/ AskCount(w, d) \/ AskEntry(w, d)
    \/ \E p \in Tracked : Shift(p) \/ SwitchProduct(p)

DocSpec == DocInit /\ [][DocNext]_docVars

----------------------------------------------------------------------------
OrderRow == [kind : {"order"}, status : {"draft", "received", "canceled"},
             qty : [Products -> Nat], cost : [Products -> Nat]]
CountRow == [kind : {"count"}, status : {"open", "completed", "canceled"},
             expected : [Products -> Nat \cup {NotListed}],
             counted : [Products -> Nat \cup {NotCounted}], at : [Products -> Nat]]
EntryRow == [kind : {"entry"}, status : {"pending", "paid", "canceled"},
             paidAt : BOOLEAN, type : {"payable", "receivable"}, amount : Nat, due : Nat,
             customer : Parties \cup {NoParty}, supplier : Parties \cup {NoParty},
             center : Centers \cup {NoCenter}]

\* The request of w past its check: what it holds fits the kind of its document.
RequestOK(w) ==
    LET r == req[w] IN
    /\ r.op \in Ops /\ r.doc \in Docs
    /\ docs[r.doc].kind = KindOf(r.op)
    /\ r.op = "receive" => /\ r.seen \in OrderRow
                           /\ r.seen.qty = docs[r.doc].qty /\ r.seen.cost = docs[r.doc].cost
    /\ r.op = "finalize" => r.seen \in CountRow
    /\ r.op = "tally" => /\ r.arg.product \in Products
                         /\ r.arg.units \in Nat /\ r.arg.at \in Nat
    /\ r.op = "edit" => r.arg \in Edits

DocTypeOK ==
    /\ docs \in [Docs -> {NoDoc} \cup OrderRow \cup CountRow \cup EntryRow]
    /\ goods \in [Docs -> [Products -> Int]]
    /\ stock \in [Products -> Nat] /\ cost \in [Products -> Nat]
    /\ active \in [Products -> BOOLEAN]
    /\ shelf \in [Products -> Nat] /\ shifts \in [Products -> Nat]
    /\ contested \subseteq Docs
    /\ pc \in [Workers -> {"idle", "write"}] /\ DOMAIN req = Workers
    /\ \A w \in Workers : pc[w] = "write" => RequestOK(w)

\* A count made when no unit of p had moved since is the number of units there are.
TalliedRight(row) ==
    \A p \in Products : row.counted[p] # NotCounted =>
        /\ row.at[p] <= shifts[p]
        /\ row.at[p] = shifts[p] => row.counted[p] = shelf[p]

ArgRight(arg) == /\ arg.at <= shifts[arg.product]
                 /\ arg.at = shifts[arg.product] => arg.units = shelf[arg.product]

\* What an uncontested document has brought about is what its status says: a
\* received order its goods, once, and any other order none; an entry is paid
\* when it has a date of payment.  (Requests whose checks did not overlap.)
EffectsMatchStatus ==
    \A d \in Docs \ contested :
        /\ docs[d].kind = "order" =>
              goods[d] = IF docs[d].status = "received"
                         THEN [p \in Products |-> Received(docs[d], p)] ELSE Zero
        /\ docs[d].kind = "count" /\ docs[d].status # "completed" => goods[d] = Zero
        /\ docs[d].kind = "entry" => (docs[d].paidAt <=> docs[d].status = "paid")

\* The type invariant of the documents, and what makes their properties
\* inductive: a request past its check finds its document open, unless it is
\* contested, and every count is right as long as nothing moved.
DocInv ==
    /\ DocTypeOK
    /\ EffectsMatchStatus
    /\ \A d \in Docs : docs[d] = NoDoc => goods[d] = Zero /\ d \notin contested
    /\ \A w \in Workers : pc[w] = "write" =>
          IsOpen(docs[req[w].doc]) \/ req[w].doc \in contested
    /\ \A d \in Docs : docs[d].kind = "count" => TalliedRight(docs[d])
    /\ \A w \in Workers : pc[w] = "write" =>
          /\ req[w].op = "finalize" => TalliedRight(req[w].seen)
          /\ req[w].op = "tally" => ArgRight(req[w].arg)

\* A document that was decided while no other request on it was past its check
\* never changes again, and nothing more is posted in its name: an order is
\* not received twice, nor canceled after it was received, nor an entry paid
\* after it was canceled.
Settled(d) == docs[d] # NoDoc /\ ~ IsOpen(docs[d]) /\ d \notin contested

DecidedIsFrozen ==
    [][\A d \in Docs : Settled(d) => docs'[d] = docs[d] /\ goods'[d] = goods[d]]_docVars

\* Finalizing a count leaves the balance of a product counted equal to the
\* units there are, whatever was sold before it was counted, when none moved
\* between its tally and the end of the count.
FinalizeSetsShelf ==
    [][\A w \in Workers : Finalize(w) =>
         \A p \in Products :
            LET seen == req[w].seen IN
            seen.counted[p] # NotCounted /\ seen.at[p] = shifts[p] => stock'[p] = shelf[p]]_docVars

=============================================================================
