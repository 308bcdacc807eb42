---------------------------- MODULE StockLedger ----------------------------
(***************************************************************************)
(* The stock balance of apps/api: products.stock_quantity, the             *)
(* denormalized balance, and stock_movements, the ledger of signed deltas, *)
(* as StockService.applyMovement changes them inside the transaction of a  *)
(* caller (a manual movement, a sale, a return, a purchase receipt, a      *)
(* stock count, a marketplace order).                                      *)
(*                                                                         *)
(* A worker is one HTTP request in flight.  It runs one Postgres           *)
(* transaction at the default isolation level, READ COMMITTED (no caller   *)
(* asks for another, and nothing reads FOR UPDATE): a SELECT sees the last *)
(* committed row or the transaction's own uncommitted one and takes no     *)
(* lock; an UPDATE waits for the row's lock, keeps it until the end of the *)
(* transaction, and writes the literal computed from the earlier SELECT.   *)
(*                                                                         *)
(* The committed ledger is kept as the sum of quantity per product, which  *)
(* is all that the properties read of it.                                  *)
(***************************************************************************)
EXTENDS Integers, Sequences

CONSTANTS
    Workers,     \* HTTP requests that may be in flight together
    Products,    \* the tenant's stock-tracked products
    RequestsOf,  \* [Workers -> sets of requests]: what each worker may ask for
    MaxTx        \* bound on the transactions begun in a behaviour

\* One call of applyMovement: the product and the signed quantity.
Line == [product : Products, delta : Int]

ASSUME RequestsAssumption ==
    \A w \in Workers : RequestsOf[w] \subseteq Seq(Line)
ASSUME BoundAssumption == MaxTx \in Nat

VARIABLES
    stock,   \* committed products.stock_quantity
    ledger,  \* committed SUM(stock_movements.quantity) per product
    pc,      \* where each worker is in its transaction
    req,     \* the lines of the worker's request, in the order given
    line,    \* index of the line being applied
    newBalance, \* the literal the worker computed for its UPDATE
    dirty,   \* rows the worker has updated and so holds locked
    draft,   \* the worker's uncommitted stock_quantity of its dirty rows
    moved,   \* sum of the worker's uncommitted movements per product
    begun,   \* transactions begun so far
    raced    \* history: products whose row was committed by one transaction
             \* between the SELECT and the UPDATE of another

txVars == <<pc, req, line, newBalance, dirty, draft, moved>>
vars == <<stock, ledger, txVars, begun, raced>>

Phases == {"idle", "read", "update", "commit"}

None == [p \in Products |-> 0]

Init ==
    /\ stock = None
    /\ ledger = None
    /\ pc = [w \in Workers |-> "idle"]
    /\ req = [w \in Workers |-> <<>>]
    /\ line = [w \in Workers |-> 1]
    /\ newBalance = [w \in Workers |-> 0]
    /\ dirty = [w \in Workers |-> {}]
    /\ draft = [w \in Workers |-> None]
    /\ moved = [w \in Workers |-> None]
    /\ begun = 0
    /\ raced = {}

----------------------------------------------------------------------------
\* The product and the delta of the line the worker is at.
Target(w) == req[w][line[w]].product
Delta(w) == req[w][line[w]].delta

\* Mutant: the SELECT runs outside the transaction and misses its own writes.
VisibleCommittedOnly(w, p) == stock[p]

\* What a SELECT of row p returns inside w's transaction.
Visible(w, p) == IF p \in dirty[w] THEN draft[w][p] ELSE stock[p]

LockedByOther(w, p) == \E v \in Workers \ {w} : p \in dirty[v]

\* Phase after line i of request r has been applied.
PhaseAfter(r, i) == IF i < Len(r) THEN "read" ELSE "commit"

\* The worker's transaction ends: its locks and uncommitted versions go.
EndTx(w) ==
    /\ pc' = [pc EXCEPT ![w] = "idle"]
    /\ req' = [req EXCEPT ![w] = <<>>]
    /\ line' = [line EXCEPT ![w] = 1]
    /\ newBalance' = [newBalance EXCEPT ![w] = 0]
    /\ dirty' = [dirty EXCEPT ![w] = {}]
    /\ draft' = [draft EXCEPT ![w] = None]
    /\ moved' = [moved EXCEPT ![w] = None]

Rollback(w) ==
    /\ EndTx(w)
    /\ UNCHANGED <<stock, ledger, begun, raced>>

----------------------------------------------------------------------------
\* runWithTenant opens the transaction of a request.
Begin(w) ==
    /\ pc[w] = "idle"
    /\ begun < MaxTx
    /\ \E r \in RequestsOf[w] :
          /\ Len(r) > 0
          /\ req' = [req EXCEPT ![w] = r]
    /\ pc' = [pc EXCEPT ![w] = "read"]
    /\ begun' = begun + 1
    /\ UNCHANGED <<stock, ledger, line, newBalance, dirty, draft, moved, raced>>

\* Mutant: the balance check lets a movement take the balance to -1.
ReadBalanceOneBelow(w) ==
    /\ pc[w] = "read"
    /\ Visible(w, Target(w)) + Delta(w) >= -1
    /\ newBalance' = [newBalance EXCEPT ![w] = Visible(w, Target(w)) + Delta(w)]
    /\ pc' = [pc EXCEPT ![w] = "update"]
    /\ UNCHANGED <<stock, ledger, req, line, dirty, draft, moved, begun, raced>>

\* The SELECT of applyMovement, when the balance allows the movement.
ReadBalance(w) ==
    /\ pc[w] = "read"
    /\ Visible(w, Target(w)) + Delta(w) >= 0
    /\ newBalance' = [newBalance EXCEPT ![w] = Visible(w, Target(w)) + Delta(w)]
    /\ pc' = [pc EXCEPT ![w] = "update"]
    /\ UNCHANGED <<stock, ledger, req, line, dirty, draft, moved, begun, raced>>

\* Mutant: the exception is swallowed and the lines before it are committed.
RejectKeepsLines(w) ==
    /\ pc[w] = "read"
    /\ Visible(w, Target(w)) + Delta(w) < 0
    /\ stock' = [p \in Products |-> Visible(w, p)]
    /\ ledger' = [p \in Products |-> ledger[p] + moved[w][p]]
    /\ EndTx(w)
    /\ UNCHANGED <<begun, raced>>

\* Mutant: the caller tries the line again until the stock suffices.
RejectRetries(w) ==
    /\ pc[w] = "read"
    /\ Visible(w, Target(w)) + Delta(w) < 0
    /\ UNCHANGED vars

\* "Estoque insuficiente": the exception takes the whole transaction down.
Reject(w) ==
    /\ pc[w] = "read"
    /\ Visible(w, Target(w)) + Delta(w) < 0
    /\ Rollback(w)

\* Mutant: SET stock_quantity = stock_quantity + delta, the check left where it
\* is.
UpdateBalanceRelative(w) ==
    /\ pc[w] = "update"
    /\ ~ LockedByOther(w, Target(w))
    /\ draft' = [draft EXCEPT ![w][Target(w)] = Visible(w, Target(w)) + Delta(w)]
    /\ dirty' = [dirty EXCEPT ![w] = @ \cup {Target(w)}]
    /\ moved' = [moved EXCEPT ![w][Target(w)] = @ + Delta(w)]
    /\ pc' = [pc EXCEPT ![w] = PhaseAfter(req[w], line[w])]
    /\ line' = [line EXCEPT ![w] = IF @ < Len(req[w]) THEN @ + 1 ELSE @]
    /\ UNCHANGED <<stock, ledger, req, newBalance, begun, raced>>

\* Mutant: the movement is inserted on another connection.
UpdateBalanceLeaksMovement(w) ==
    /\ pc[w] = "update"
    /\ ~ LockedByOther(w, Target(w))
    /\ draft' = [draft EXCEPT ![w][Target(w)] = newBalance[w]]
    /\ dirty' = [dirty EXCEPT ![w] = @ \cup {Target(w)}]
    /\ ledger' = [ledger EXCEPT ![Target(w)] = @ + Delta(w)]
    /\ pc' = [pc EXCEPT ![w] = PhaseAfter(req[w], line[w])]
    /\ line' = [line EXCEPT ![w] = IF @ < Len(req[w]) THEN @ + 1 ELSE @]
    /\ UNCHANGED <<stock, moved, req, newBalance, begun, raced>>

\* The UPDATE, once the row's lock is free, and the INSERT of the movement.
UpdateBalance(w) ==
    /\ pc[w] = "update"
    /\ ~ LockedByOther(w, Target(w))
    /\ draft' = [draft EXCEPT ![w][Target(w)] = newBalance[w]]
    /\ dirty' = [dirty EXCEPT ![w] = @ \cup {Target(w)}]
    /\ moved' = [moved EXCEPT ![w][Target(w)] = @ + Delta(w)]
    /\ pc' = [pc EXCEPT ![w] = PhaseAfter(req[w], line[w])]
    /\ line' = [line EXCEPT ![w] = IF @ < Len(req[w]) THEN @ + 1 ELSE @]
    /\ UNCHANGED <<stock, ledger, req, newBalance, begun, raced>>

\* Workers other than w that have read p and not yet updated it.
HasRead(w, p) == \E v \in Workers \ {w} : pc[v] = "update" /\ Target(v) = p

\* COMMIT: the uncommitted rows and movements become visible together.
Commit(w) ==
    /\ pc[w] = "commit"
    /\ stock' = [p \in Products |-> Visible(w, p)]
    /\ ledger' = [p \in Products |-> ledger[p] + moved[w][p]]
    /\ raced' = raced \cup {p \in dirty[w] : HasRead(w, p)}
    /\ EndTx(w)
    /\ UNCHANGED begun

\* The caller throws after the movements it applied (a declined payment, a
\* later check), the process dies or the connection drops: ROLLBACK.
Fail(w) ==
    /\ pc[w] # "idle"
    /\ Rollback(w)

\* Each worker of the set waits for a row locked by one of the set, and each
\* is waited for: a deadlock.
WaitsFor(w, v) == pc[w] = "update" /\ v # w /\ Target(w) \in dirty[v]
Deadlocked(S) ==
    /\ \A w \in S : \E v \in S : WaitsFor(w, v)
    /\ \A v \in S : \E w \in S : WaitsFor(w, v)

\* Postgres aborts a worker of the cycle; nothing in the code retries it.
AbortVictim(w) ==
    /\ \E S \in SUBSET Workers : w \in S /\ Deadlocked(S)
    /\ Rollback(w)

Progress(w) ==
    \/ ReadBalance(w) \/ Reject(w) \/ UpdateBalance(w) \/ Commit(w)
    \/ AbortVictim(w)

Done == begun = MaxTx /\ (\A w \in Workers : pc[w] = "idle") /\ UNCHANGED vars

Next == (\E w \in Workers : Begin(w) \/ Progress(w) \/ Fail(w)) \/ Done

Spec == Init /\ [][Next]_vars

\* A request in flight runs on; a waiter gets the row in the end, because the
\* lock queue of Postgres is first come, first served.
Fairness == \A w \in Workers : SF_vars(Progress(w))
FairSpec == Spec /\ Fairness

----------------------------------------------------------------------------
\* Types; the balance of a row is an int the code checked before writing it.
TypeOK ==
    /\ stock \in [Products -> Int]
    /\ ledger \in [Products -> Int]
    /\ pc \in [Workers -> Phases]
    /\ req \in [Workers -> Seq(Line)]
    /\ line \in [Workers -> Nat]
    /\ newBalance \in [Workers -> Int]
    /\ dirty \in [Workers -> SUBSET Products]
    /\ draft \in [Workers -> [Products -> Int]]
    /\ moved \in [Workers -> [Products -> Int]]
    /\ begun \in Nat
    /\ raced \in SUBSET Products

\* No interleaving, rollback or deadlock drives a stored balance below zero:
\* the check of applyMovement is on a value that may be stale, but the UPDATE
\* writes that same value (stock.service.ts:54-67).
NoNegativeStock == \A p \in Products : stock[p] >= 0

\* The balance of a product equals the sum of its movements, unless some
\* transaction committed the row inside another's SELECT-UPDATE window: a lost
\* update is the only way the two drift apart, whatever mix of lines,
\* rollbacks, crashes and deadlock victims.
InSyncUnlessRaced == \A p \in Products \ raced : stock[p] = ledger[p]

\* What products.schema.ts:19-20 and stock-movements.schema.ts:18-20 say: the
\* balance is kept in sync with the ledger, whose sum reconstructs it.
KeptInSync == \A p \in Products : stock[p] = ledger[p]

\* Every transaction ends, committed or rolled back, even when two requests
\* apply their lines in opposite orders (sales.service.ts:170 follows the
\* order of the input) and wait for each other's rows.
EveryTxEnds == \A w \in Workers : pc[w] # "idle" ~> pc[w] = "idle"

Book == INSTANCE StockBook WITH
            Requests <- UNION {RequestsOf[w] : w \in Workers},
            book <- stock

\* As long as no lost update has happened the steps implement StockBook: the
\* balances change by whole requests, each from a balance that allows every
\* prefix of it, as if the transactions ran one after the other.
RacelessStepsImplementBook == [][raced' = {} => [Book!Next]_stock]_vars

\* The committed ledger moves only at a COMMIT, by all the lines of the
\* request or not at all: a sale rejected at its second line, failed after
\* its last one or aborted by a deadlock leaves no movement behind.
LedgerMovesByWholeRequests ==
    [][ledger' # ledger =>
          \E w \in Workers :
              /\ pc[w] = "commit" /\ pc'[w] = "idle"
              /\ \A p \in Products :
                    ledger'[p] = ledger[p] + Book!Total(req[w], p)]_vars

----------------------------------------------------------------------------
\* The strengthening that makes the two invariants above inductive.

\* A worker at work is at a line of its request.
LineInRequest ==
    \A w \in Workers :
        IF pc[w] = "idle" THEN line[w] = 1 ELSE line[w] \in 1..Len(req[w])

\* A row has one uncommitted version at most, and it is never negative.
RowLocks ==
    /\ \A v, w \in Workers : v # w => dirty[v] \cap dirty[w] = {}
    /\ \A w \in Workers : \A p \in dirty[w] : draft[w][p] >= 0
    /\ \A w \in Workers : pc[w] = "update" => newBalance[w] >= 0

\* Movements are of rows the worker has updated.
MovedIsDirty ==
    \A w \in Workers, p \in Products : p \notin dirty[w] => moved[w][p] = 0

\* An uncommitted balance is the committed one plus the worker's movements.
DraftFollowsMoves ==
    \A w \in Workers : \A p \in dirty[w] \ raced :
        draft[w][p] = stock[p] + moved[w][p]

\* A balance that was read is still the one the UPDATE starts from.
ReadIsFresh ==
    \A w \in Workers :
        pc[w] = "update" /\ Target(w) \notin raced =>
            newBalance[w] = Visible(w, Target(w)) + Delta(w)

\* The lines of its request that the worker has applied.
Applied(w) == CASE pc[w] = "idle" -> 0
                [] pc[w] \in {"read", "update"} -> line[w] - 1
                [] pc[w] = "commit" -> Len(req[w])

\* They are of a request it may make, they are all in its movements, and the
\* balances they started from allow every prefix of them.
AppliedFits(w) ==
    /\ pc[w] # "idle" => req[w] \in RequestsOf[w]
    /\ pc[w] = "commit" => line[w] = Len(req[w])
    /\ \A i \in 1..Applied(w) : req[w][i].product \in dirty[w]
    /\ \A p \in Products : moved[w][p] = Book!After(req[w], p, Applied(w))
    /\ \A p \in dirty[w] \ raced, i \in 0..Applied(w) :
          stock[p] + Book!After(req[w], p, i) >= 0

LinesApplied == \A w \in Workers : AppliedFits(w)

\* The inductive invariant: whoever holds a row locked has its only new
\* version, built on the committed balance unless the row was raced.
IInv ==
    /\ TypeOK /\ NoNegativeStock /\ InSyncUnlessRaced
    /\ LineInRequest /\ RowLocks /\ MovedIsDirty
    /\ DraftFollowsMoves /\ ReadIsFresh /\ LinesApplied
=============================================================================
