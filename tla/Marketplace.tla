----------------------------- MODULE Marketplace -----------------------------
(***************************************************************************)
(* The marketplace integration of apps/api: the channel, the listings that *)
(* tie a product to its id on the channel (MarketplaceListingsService) and *)
(* the orders pulled from it (MarketplaceOrdersService.pullOrders), which  *)
(* take units off the stock the documents and the sales share.             *)
(*                                                                         *)
(* A pull is one transaction that takes the orders fetched one by one.  A  *)
(* row it inserted or updated is locked until it ends; an insert of the    *)
(* same (channel, external id) elsewhere waits for it.  Reading and        *)
(* writing a balance is one step here: see StockLedger for the rest.       *)
(***************************************************************************)
EXTENDS Documents, Sequences

CONSTANTS
    Pullers,     \* requests that may pull orders together
    Externals,   \* ids of products on the channel
    NoExternal,  \* a listing without one
    NoProduct,   \* an item not resolved to a product
    Feed,        \* the orders of the channel: units of each external product
    Fetches,     \* what fetchNewOrders may answer: sequences of order ids
    StartListings \* the listings at first

Incoming == DOMAIN Feed

\* The two unique indexes: one listing a product, one product an external id.
ListingsOK(l) ==
    /\ l \in [Products -> [status : {"none", "synced", "error"}, ext : Externals \cup {NoExternal}]]
    /\ \A p, q \in Products : l[p].ext = l[q].ext /\ l[p].ext # NoExternal => p = q

ASSUME MarketplaceAssumption ==
    /\ Feed \in [Incoming -> [Externals -> Nat]]
    /\ Fetches \subseteq Seq(Incoming)
    /\ \A l \in StartListings : ListingsOK(l)
    /\ NoExternal \notin Externals /\ NoProduct \notin Products

VARIABLES
    channelOn,  \* marketplace_channels.active
    listings,   \* the listing of each product
    market,     \* marketplace_orders with their items, by external id
    taken,      \* SUM(quantity) of the saidas posted in the name of each order
    pulls       \* the transactions

marketVars == <<channelOn, listings, market, taken, pulls>>

NotListing == [status |-> "none", ext |-> NoExternal]
NoImport == [status |-> "none"]
NoPull == [phase |-> "idle"]
Nothing == [o \in Incoming |-> Zero]

MarketInit ==
    /\ channelOn = TRUE
    /\ listings \in StartListings
    /\ market = [o \in Incoming |-> NoImport]
    /\ taken = Nothing
    /\ pulls = [w \in Pullers |-> NoPull]

----------------------------------------------------------------------------
\* PATCH /marketplace/channels/:id
SwitchChannel ==
    /\ "sync" \in agenda
    /\ channelOn' = ~ channelOn
    /\ UNCHANGED <<docVars, listings, market, taken, pulls>>

\* syncProduct: the listing is written with the id the provider gave; an id
\* another product has aborts the transaction, also the handler's own catch.
SyncProduct(p) ==
    /\ "sync" \in agenda /\ channelOn
    /\ \E x \in Externals :
          /\ \A q \in Products \ {p} : listings[q].ext # x
          /\ listings' = [listings EXCEPT ![p] = [status |-> "synced", ext |-> x]]
    /\ UNCHANGED <<docVars, channelOn, market, taken, pulls>>

\* The provider fails: the listing keeps the id it had and is marked.
SyncFails(p) ==
    /\ "sync" \in agenda /\ channelOn
    /\ listings' = [listings EXCEPT ![p].status = "error"]
    /\ UNCHANGED <<docVars, channelOn, market, taken, pulls>>

----------------------------------------------------------------------------
Pulling(w) == pulls[w].phase = "pulling"

\* The order the pull is at.
Turn(w) == Head(pulls[w].left)

\* Mutant: the order is looked up among the committed ones, and inserted.
NotInsertedElsewhere(w, o) == TRUE

\* No other transaction has inserted the order and not ended yet.
MayInsert(w, o) ==
    \A v \in Pullers \ {w} : Pulling(v) => pulls[v].rows[o] = NoImport

\* ON CONFLICT (channel_id, external_order_id) DO NOTHING finds a row.
Recorded(w, o) == market[o] # NoImport \/ pulls[w].rows[o] # NoImport

\* The items of an order: external ids with a quantity.
ItemsOf(o) == {x \in Externals : Feed[o][x] > 0}

\* The product each item of an order is resolved to, through the listings.
Resolve(o) ==
    [x \in Externals |->
        IF x \in ItemsOf(o) /\ \E p \in Products : listings[p].ext = x
        THEN CHOOSE p \in Products : listings[p].ext = x ELSE NoProduct]

\* The units of a product that resolved items ask for.
Asked(o, items, p) ==
    IF \E x \in ItemsOf(o) : items[x] = p
    THEN Feed[o][CHOOSE x \in ItemsOf(o) : items[x] = p] ELSE 0

\* What the saidas of the order take: nothing of a product without stock.
Units(o, items) == [p \in Products |-> IF p \in Tracked THEN Asked(o, items, p) ELSE 0]

\* The balance as the transaction sees it.
Balance(w, p) == stock[p] - pulls[w].held[p]

\* Another pull has written the row of the product.
LockedByPull(w, p) == \E v \in Pullers \ {w} : Pulling(v) /\ pulls[v].held[p] > 0

\* Every item is mapped to an active product with enough stock.
Applicable(w, o) ==
    LET items == Resolve(o) IN
    /\ \A x \in ItemsOf(o) : items[x] # NoProduct /\ active[items[x]]
    /\ \A p \in Products : Units(o, items)[p] <= Balance(w, p)

\* pullOrders begins: the channel is active, and the provider answers.
StartPull(w) ==
    /\ "pull" \in agenda
    /\ pulls[w] = NoPull /\ channelOn
    /\ \E fetched \in Fetches :
          pulls' = [pulls EXCEPT ![w] = [phase |-> "pulling", left |-> fetched,
                                         rows |-> [o \in Incoming |-> NoImport],
                                         moved |-> Nothing, held |-> Zero]]
    /\ UNCHANGED <<docVars, channelOn, listings, market, taken>>

\* alreadyProcessed
SkipOrder(w) ==
    /\ Pulling(w) /\ pulls[w].left # <<>>
    /\ MayInsert(w, Turn(w)) /\ Recorded(w, Turn(w))
    /\ pulls' = [pulls EXCEPT ![w].left = Tail(@)]
    /\ UNCHANGED <<docVars, channelOn, listings, market, taken>>

\* applyOrder takes the whole order.
ImportOrder(w) ==
    LET o == Turn(w)
        items == Resolve(o)
        units == Units(o, items) IN
    /\ Pulling(w) /\ pulls[w].left # <<>>
    /\ MayInsert(w, o) /\ ~ Recorded(w, o)
    /\ Applicable(w, o)
    /\ \A p \in Products : units[p] > 0 => ~ LockedByPull(w, p)
    /\ pulls' = [pulls EXCEPT ![w].left = Tail(@),
                              ![w].rows[o] = [status |-> "imported", items |-> items],
                              ![w].moved[o] = units,
                              ![w].held = [p \in Products |-> @[p] + units[p]]]
    /\ UNCHANGED <<docVars, channelOn, listings, market, taken>>

\* applyOrder takes none of it and records why.
LeaveOrder(w) ==
    LET o == Turn(w) IN
    /\ Pulling(w) /\ pulls[w].left # <<>>
    /\ MayInsert(w, o) /\ ~ Recorded(w, o)
    /\ ~ Applicable(w, o)
    /\ pulls' = [pulls EXCEPT ![w].left = Tail(@),
                              ![w].rows[o] = [status |-> "needs_attention", items |-> Resolve(o)]]
    /\ UNCHANGED <<docVars, channelOn, listings, market, taken>>

\* COMMIT; the units sold leave the shelf, as far as they are there.
CommitPull(w) ==
    LET held == pulls[w].held
        rows == pulls[w].rows IN
    /\ Pulling(w) /\ pulls[w].left = <<>>
    /\ market' = [o \in Incoming |-> IF rows[o] # NoImport THEN rows[o] ELSE market[o]]
    /\ taken' = [o \in Incoming |-> [p \in Products |-> taken[o][p] + pulls[w].moved[o][p]]]
    /\ stock' = [p \in Products |-> stock[p] - held[p]]
    /\ shelf' = [p \in Products |-> IF held[p] < shelf[p] THEN shelf[p] - held[p] ELSE 0]
    /\ shifts' = [p \in Products |-> shifts[p] + (IF held[p] > 0 THEN 1 ELSE 0)]
    /\ pulls' = [pulls EXCEPT ![w] = NoPull]
    /\ UNCHANGED <<agenda, docs, goods, cost, active, flight, contested, channelOn, listings>>

\* An error, a crash or a deadlock among pulls: ROLLBACK.
PullFails(w) ==
    /\ Pulling(w)
    /\ pulls' = [pulls EXCEPT ![w] = NoPull]
    /\ UNCHANGED <<docVars, channelOn, listings, market, taken>>

MarketNext ==
    \/ SwitchChannel
    \/ \E p \in Products : SyncProduct(p) \/ SyncFails(p)
    \/ \E w \in Pullers :
          \/ StartPull(w) \/ SkipOrder(w) \/ ImportOrder(w) \/ LeaveOrder(w)
          \/ CommitPull(w) \/ PullFails(w)

\* A document's transaction waits for the rows a pull has written.
WaitsForPulls ==
    \A p \in Products : stock'[p] # stock[p] =>
        \A w \in Pullers : Pulling(w) => pulls[w].held[p] = 0

----------------------------------------------------------------------------
ImportRow == [status : {"imported", "needs_attention"},
              items : [Externals -> Products \cup {NoProduct}]]
PullRow == [phase : {"pulling"}, left : Seq(Incoming),
            rows : [Incoming -> {NoImport} \cup ImportRow],
            moved : [Incoming -> [Products -> Nat]], held : [Products -> Nat]]

MarketTypeOK ==
    /\ channelOn \in BOOLEAN
    /\ ListingsOK(listings)
    /\ market \in [Incoming -> {NoImport} \cup ImportRow]
    /\ taken \in [Incoming -> [Products -> Nat]]
    /\ pulls \in [Pullers -> {NoPull} \cup PullRow]

\* The units `moved` in the name of an order are those of its items when its
\* row says imported, and none when it does not.
AllOrNothing(o, row, moved) ==
    IF row.status = "imported"
    THEN /\ \A x \in ItemsOf(o) : row.items[x] \in Products
         /\ moved = Units(o, row.items)
    ELSE moved = Zero

\* An order of the channel is applied whole, once, or not at all: its saidas
\* are those of all its items if its row says imported, and there is none if
\* it needs attention or is not recorded, however often and by however many
\* pulls at a time it is fetched, and wherever they fail.
OrdersAllOrNothing == \A o \in Incoming : AllOrNothing(o, market[o], taken[o])

\* The inductive invariant: it holds of what a pull has not committed yet, no
\* order is in two pulls or in a pull and the table, no product in two pulls
\* and no pull takes more than there is.
MarketInv ==
    /\ MarketTypeOK
    /\ OrdersAllOrNothing
    /\ \A w \in Pullers : Pulling(w) =>
          /\ \A o \in Incoming :
                /\ AllOrNothing(o, pulls[w].rows[o], pulls[w].moved[o])
                /\ pulls[w].rows[o] # NoImport =>
                      /\ market[o] = NoImport
                      /\ \A v \in Pullers \ {w} : Pulling(v) => pulls[v].rows[o] = NoImport
          /\ \A p \in Products :
                /\ pulls[w].held[p] <= stock[p]
                /\ pulls[w].held[p] > 0 => ~ LockedByPull(w, p)

=============================================================================
