------------------------------ MODULE Registry ------------------------------
(***************************************************************************)
(* The registers of apps/api: customers, suppliers, categories, products   *)
(* and cost centers, the rows of other tables that refer to them, and what *)
(* happens to those when a row of a register is removed                    *)
(* (CustomersService, DataPrivacyService, SuppliersService,                *)
(* CategoriesService, ProductsService, CostCentersService).                *)
(*                                                                         *)
(* A customer with history must not be deleted: the foreign keys would     *)
(* take the loyalty ledger along and orphan sales and bills.  The check    *)
(* and the DELETE are apart: in two transactions for a customer, in two    *)
(* statements of one (READ COMMITTED) for a category.                      *)
(***************************************************************************)
EXTENDS Naturals

CONSTANTS
    Clerks,   \* requests that may be in flight together
    Ids,      \* ids of the rows that may be created
    Skus, NoSku, NoId,
    MaxRefs   \* bound on the rows of each kind that refer to one row

Tables == {"customer", "supplier", "category", "product", "center"}

\* The kinds of rows that refer to a register, and the tables they refer to.
RefersTo == [sale   |-> {"customer"}, points |-> {"customer"},
             bill   |-> {"customer", "supplier", "center"}, order |-> {"supplier"}]
Kinds == DOMAIN RefersTo

ASSUME RegistryAssumption ==
    /\ NoSku \notin Skus /\ NoId \notin Ids /\ MaxRefs \in Nat

VARIABLES
    rows,       \* the rows of the registers
    refs,       \* how many rows of each kind refer to a row
    logged,     \* customers whose anonymization is in audit_logs
    exported,   \* customers whose export is in audit_logs
    asks,       \* the requests
    overlapped  \* rows referred to while a removal of them was past its check

regVars == <<rows, refs, logged, exported, asks, overlapped>>

NoRow == [table |-> "none"]
NoAsk == [step |-> "idle"]
Gone == [table |-> "gone"]

RegInit ==
    /\ rows = [i \in Ids |-> NoRow]
    /\ refs = [i \in Ids |-> [k \in Kinds |-> 0]]
    /\ logged = {} /\ exported = {}
    /\ asks = [w \in Clerks |-> NoAsk]
    /\ overlapped = {}

IsA(i, table) == rows[i].table = table
Live(i) == rows[i].table \in Tables
InCategory(i) == {j \in Ids : IsA(j, "product") /\ rows[j].category = i}
Categories == {i \in Ids : IsA(i, "category")} \cup {NoId}

\* The row i has a reference made just now: a removal past its check missed it.
NowReferred(i) ==
    IF \E w \in Clerks : asks[w].step = "delete" /\ asks[w].row = i
    THEN overlapped \cup {i} ELSE overlapped

----------------------------------------------------------------------------
\* assertSkuAvailable and the unique index; NULLs are distinct.
SkuFree(sku, except) ==
    sku # NoSku => \A j \in Ids \ {except} : IsA(j, "product") => rows[j].sku # sku

Blank(table) == [table |-> table, personal |-> table = "customer", sku |-> NoSku, category |-> NoId]

AddRow(i, row) ==
    /\ rows[i] = NoRow
    /\ rows' = [rows EXCEPT ![i] = row]
    /\ UNCHANGED <<refs, logged, exported, asks>>

\* create, of the four services that check nothing.
CreateCustomer(i) == AddRow(i, Blank("customer")) /\ UNCHANGED overlapped
CreateSupplier(i) == AddRow(i, Blank("supplier")) /\ UNCHANGED overlapped
CreateCategory(i) == AddRow(i, Blank("category")) /\ UNCHANGED overlapped
CreateCenter(i) == AddRow(i, Blank("center")) /\ UNCHANGED overlapped

\* ProductsService.create: the SKU is free and the category exists.
CreateProduct(i, sku, c) ==
    /\ SkuFree(sku, i) /\ c \in Categories
    /\ AddRow(i, [Blank("product") EXCEPT !.sku = sku, !.category = c])
    /\ overlapped' = NowReferred(c)

\* One more row of kind k, and the entries of the ledger that come with it.
More(n, k, points) ==
    [m \in Kinds |-> n[m] + (IF m = k THEN 1 ELSE IF m = "points" THEN points ELSE 0)]

\* A sale, a bill or an order that names the row, which its foreign key
\* requires to be there; a sale may earn or redeem points, and only a sale does.
Refer(i, k) ==
    /\ k # "points"
    /\ rows[i].table \in RefersTo[k] /\ refs[i][k] < MaxRefs
    /\ \E points \in IF k = "sale" THEN {0, 1} ELSE {0} :
          refs' = [refs EXCEPT ![i] = More(@, k, points)]
    /\ overlapped' = NowReferred(i)
    /\ UNCHANGED <<rows, logged, exported, asks>>

----------------------------------------------------------------------------
\* A request begins with findByIdOrThrow, or, for an export, the transaction
\* that reads; step is what comes next.
Find(w, i, table, step) ==
    /\ asks[w] = NoAsk /\ IsA(i, table)
    /\ asks' = [asks EXCEPT ![w] = [step |-> step, row |-> i]]
    /\ UNCHANGED <<rows, refs, logged, exported, overlapped>>

AskUpdateCustomer(w, i) == Find(w, i, "customer", "update")
AskUpdateProduct(w, i) == Find(w, i, "product", "update")
AskExport(w, i) == Find(w, i, "customer", "log")
AskErasure(w, i) == Find(w, i, "customer", "erase")

\* remove: a customer with history stays, a category in use is refused, a
\* supplier is deleted at once.  A product and a cost center are never removed.
RemoveCustomer(w, i) == Find(w, i, "customer", "history")
RemoveSupplier(w, i) == Find(w, i, "supplier", "delete")
RemoveCategory(w, i) == Find(w, i, "category", "use")

OnStep(w, step) == asks[w].step = step
Done(w) == asks' = [asks EXCEPT ![w] = NoAsk]
GoOn(w, step) == asks' = [asks EXCEPT ![w].step = step]

\* The request ends with an exception, a crash, or NotFound.
EndAsk(w) ==
    /\ asks[w] # NoAsk /\ Done(w)
    /\ UNCHANGED <<rows, refs, logged, exported, overlapped>>

\* CustomersService.update: also of a customer anonymized in between.  What the
\* updates of the other registers change is left out: names, and no more.
UpdateCustomer(w) ==
    LET i == asks[w].row IN
    /\ OnStep(w, "update") /\ IsA(i, "customer") /\ Done(w)
    /\ rows' = [rows EXCEPT ![i].personal = TRUE]
    /\ UNCHANGED <<refs, logged, exported, overlapped>>

\* ProductsService.update: the new SKU is free and the new category exists.
UpdateProduct(w, sku, c) ==
    LET i == asks[w].row IN
    /\ OnStep(w, "update") /\ IsA(i, "product") /\ Done(w)
    /\ SkuFree(sku, i) /\ c \in Categories
    /\ rows' = [rows EXCEPT ![i].sku = sku, ![i].category = c]
    /\ overlapped' = NowReferred(c)
    /\ UNCHANGED <<refs, logged, exported>>

\* The audit row of an erasure, in the transaction of what it records; that of
\* an export, in one of its own.
RecordTx(i) == logged' = logged \cup {i} /\ UNCHANGED exported
Record(i) == exported' = exported \cup {i} /\ UNCHANGED logged

\* The audit row of an export, after the transaction that read.
LogExport(w) ==
    /\ OnStep(w, "log") /\ Done(w)
    /\ Record(asks[w].row)
    /\ UNCHANGED <<rows, refs, overlapped>>

\* Mutant: a customer who never bought has no history.
HasSales(i) == refs[i].sale > 0

HasHistory(i) == refs[i].sale > 0 \/ refs[i].points > 0 \/ refs[i].bill > 0

\* hasHistory, in a transaction of its own.
CheckHistory(w) ==
    /\ OnStep(w, "history")
    /\ GoOn(w, IF HasHistory(asks[w].row) THEN "erase" ELSE "delete")
    /\ UNCHANGED <<rows, refs, logged, exported, overlapped>>

\* The SELECT of CategoriesService.remove; a category in use is refused.
CheckUse(w) ==
    /\ OnStep(w, "use")
    /\ IF InCategory(asks[w].row) = {} THEN GoOn(w, "delete") ELSE Done(w)
    /\ UNCHANGED <<rows, refs, logged, exported, overlapped>>

\* anonymizeCustomerData: the row stays, its data go, and the audit row with it.
Erase(w) ==
    LET i == asks[w].row IN
    /\ OnStep(w, "erase") /\ Live(i)
    /\ rows' = [rows EXCEPT ![i].personal = FALSE]
    /\ RecordTx(i)
    /\ Done(w)
    /\ UNCHANGED <<refs, overlapped>>

\* DELETE: an order forbids it, the ledger goes along, all else forgets it.
\* The id, a uuid, is not drawn again: its audit rows stay its own.
Delete(w) ==
    LET i == asks[w].row IN
    /\ OnStep(w, "delete") /\ Live(i)
    /\ refs[i].order = 0
    /\ rows' = [j \in Ids |-> IF j = i THEN Gone
                              ELSE IF j \in InCategory(i) THEN [rows[j] EXCEPT !.category = NoId]
                              ELSE rows[j]]
    /\ refs' = [refs EXCEPT ![i] = [k \in Kinds |-> 0]]
    /\ Done(w)
    /\ UNCHANGED <<logged, exported, overlapped>>

AskOne(w, i) ==
    \/ AskUpdateCustomer(w, i) \/ AskUpdateProduct(w, i)
    \/ AskExport(w, i) \/ AskErasure(w, i)
    \/ RemoveCustomer(w, i) \/ RemoveSupplier(w, i) \/ RemoveCategory(w, i)

Step(w) ==
    \/ UpdateCustomer(w) \/ LogExport(w) \/ CheckHistory(w) \/ CheckUse(w) \/ Erase(w)
    \/ Delete(w) \/ EndAsk(w)

RegNext ==
    \/ \E i \in Ids : \/ CreateCustomer(i) \/ CreateSupplier(i) \/ CreateCategory(i) \/ CreateCenter(i)
                      \/ \E k \in Kinds : Refer(i, k)
                      \/ \E w \in Clerks : AskOne(w, i)
    \/ \E w \in Clerks : Step(w)
    \/ \E sku \in Skus \cup {NoSku}, c \in Ids \cup {NoId} :
          \/ \E i \in Ids : CreateProduct(i, sku, c)
          \/ \E w \in Clerks : UpdateProduct(w, sku, c)

RegSpec == RegInit /\ [][RegNext]_regVars

----------------------------------------------------------------------------
\* The register a request is about, by what it does next, or none any more.
AskedOf == [update |-> {"customer", "product"}, log |-> {"customer"}, history |-> {"customer"},
            use |-> {"category"}, erase |-> {"customer"},
            delete |-> {"customer", "supplier", "category"}]

RegRow == [table : Tables, personal : BOOLEAN, sku : Skus \cup {NoSku}, category : Ids \cup {NoId}]

RegTypeOK ==
    /\ rows \in [Ids -> {NoRow, Gone} \cup RegRow]
    /\ refs \in [Ids -> [Kinds -> Nat]]
    /\ logged \subseteq Ids /\ exported \subseteq Ids /\ overlapped \subseteq Ids \cup {NoId}
    /\ asks \in [Clerks -> {NoAsk} \cup [step : DOMAIN AskedOf, row : Ids]]

AsksFit == \A w \in Clerks : asks[w] # NoAsk =>
              rows[asks[w].row].table \in AskedOf[asks[w].step] \cup {"gone"}

RefsFit == \A i \in Ids, k \in Kinds : refs[i][k] # 0 => rows[i].table \in RefersTo[k]

ErasureLogged == \A i \in Ids : IsA(i, "customer") /\ ~ rows[i].personal => i \in logged

SkusDistinct == \A i, j \in Ids : /\ IsA(i, "product") /\ IsA(j, "product")
                                  /\ rows[i].sku = rows[j].sku /\ rows[i].sku # NoSku
                                  => i = j

CategoriesExist == \A j \in Ids : IsA(j, "product") => rows[j].category \in Categories

\* What the check of a removal has found still holds of row i.
Free(i) == i \in overlapped \/ /\ IsA(i, "customer") => ~ HasHistory(i)
                               /\ IsA(i, "category") => InCategory(i) = {}

\* The types; a request is about a row of its register, and a row referred to
\* is of one that may be; a customer without personal data has the audit row
\* that says so, a product's category exists and its SKU is its own; and a
\* removal about to delete has found nothing, unless it was overlapped.
RegInv ==
    /\ RegTypeOK
    /\ AsksFit /\ RefsFit /\ ErasureLogged /\ SkusDistinct /\ CategoriesExist
    /\ \A w \in Clerks : OnStep(w, "delete") => Free(asks[w].row)

\* A removal never takes history along: no sale or bill loses its customer, no
\* entry of the loyalty ledger vanishes and no product loses its category
\* because a row was deleted, unless the reference was made while the removal
\* was between its check and the DELETE.
HistoryOutlivesRows ==
    [][\A w \in Clerks : Delete(w) =>
         LET i == asks[w].row IN
         i \in overlapped \/ IsA(i, "supplier") \/ (refs'[i] = refs[i] /\ InCategory(i) = {})]_regVars

=============================================================================
