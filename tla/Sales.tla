------------------------------- MODULE Sales -------------------------------
(***************************************************************************)
(* POST /sales: SalesService.create of apps/api, from the replay check to  *)
(* the COMMIT, with the loyalty ledger it reads and writes, the charges it *)
(* makes at the external payment provider from inside its transaction, and *)
(* the fiscal note.                                                        *)
(*                                                                         *)
(* A worker is one request in flight.  The replay check and the check of   *)
(* the open cash session are transactions of their own; the rest is one    *)
(* READ COMMITTED transaction whose writes appear at COMMIT.  A request    *)
(* carries a clientSaleId, its idempotency key, or none; the same key is   *)
(* sent again by a client that got no answer.  The charges of an attempt   *)
(* are sent together and answered one by one; a charge outlives the        *)
(* attempt that nobody waits for any more.  Stock movements are the        *)
(* subject of StockLedger: here the lines of the sale are accepted or      *)
(* refused together.  Of the returns (see SaleReturns) there are the       *)
(* points they take back from the ledger.                                  *)
(***************************************************************************)
EXTENDS Integers, FiniteSets, Functions

CONSTANTS
    Workers,       \* requests that may be in flight together
    Customers,
    Sellers,
    InputsOf,      \* [Workers -> sets of inputs]: the bodies each may carry
    Programs,      \* loyalty configurations the owner switches between
    InitialPoints, \* [Customers -> Nat], points earned before
    Keys,          \* clientSaleIds
    NoKey,         \* no clientSaleId
    NoCustomer,    \* no customer on the sale
    MaxRequests    \* bound on the requests received in a behaviour, of sales
                   \* and of returns

\* The body of a request: the key, who sells to whom, the points to redeem,
\* the sum of price * quantity, the discount, what cash and card/Pix pay, and
\* the number of card/Pix payments.
Input == [key : Keys \cup {NoKey}, seller : Sellers,
          customer : Customers \cup {NoCustomer}, redeem : Nat,
          subtotal : Nat, discount : Nat, paid : Nat, cards : Nat]

Program == [active : BOOLEAN, earnRate : Nat, redeemValue : Nat]

ASSUME SalesAssumption ==
    /\ \A w \in Workers : InputsOf[w] \subseteq Input
    /\ Programs \subseteq Program /\ Programs # {}
    /\ InitialPoints \in [Customers -> Nat]
    /\ NoKey \notin Keys /\ NoCustomer \notin Customers
    /\ MaxRequests \in Nat

VARIABLES
    \* committed rows
    sales,     \* sales recorded, with the points each redeemed and earned
    points,    \* SUM(loyalty_ledger_entries.points) per customer
    program,   \* the row of loyalty_programs
    till,      \* whether each seller has an open cash session
    clawed,    \* of which the points that returns took back: -SUM of the
               \* entries of type 'adjustment'
    overtaken, \* history: attempts whose customer lost points after they had
               \* read the balance
    \* the payment provider
    sent,      \* charges on their way, not answered yet
    charges,   \* charges it approved: attempt, key and card
    \* the requests
    pc,        \* where each worker is
    input,     \* the body it carries
    id,        \* the uuid of the sale row it inserts, new on every attempt
    seen,      \* the loyalty program it read
    answers,   \* answers given so far
    received   \* requests received so far

dbVars == <<sales, points, program, till, clawed, overtaken>>
payVars == <<sent, charges>>
requestVars == <<pc, input, id, seen, answers, received>>
vars == <<dbVars, payVars, requestVars>>

\* Phases before the sale's transaction, and in it once the row is inserted.
Before == {"replay", "session", "validate", "insert"}
Spending == {"stock", "charge", "answers", "commit"}    \* the points have been checked
Inserted == {"redeem"} \cup Spending
Phases == {"idle"} \cup Before \cup Inserted

Idle == [key |-> NoKey]              \* what an idle worker carries
NotRead == CHOOSE p \in Programs : TRUE   \* before the program is read

Init ==
    /\ sales = {} /\ points = InitialPoints
    /\ program \in Programs
    /\ till = [s \in Sellers |-> TRUE]
    /\ clawed = [c \in Customers |-> 0]
    /\ overtaken = {}
    /\ sent = {} /\ charges = {}
    /\ pc = [w \in Workers |-> "idle"]
    /\ input = [w \in Workers |-> Idle]
    /\ id = [w \in Workers |-> 0]
    /\ seen = [w \in Workers |-> NotRead]
    /\ answers = {}
    /\ received = 0

----------------------------------------------------------------------------
\* calculateSaleTotals: redeemed points reduce the total like a discount.
TotalCents(i, prog) == i.subtotal - i.discount - i.redeem * prog.redeemValue

\* calculatePointsEarned, behind the check of earnTx on the program.
PointsEarned(i, prog) ==
    IF prog.active /\ i.customer # NoCustomer
    THEN (TotalCents(i, prog) \div 100) * prog.earnRate ELSE 0

\* The refusals that the body and the program decide before any write.
Acceptable(i, prog) ==
    /\ i.redeem > 0 => i.customer # NoCustomer /\ prog.active
    /\ TotalCents(i, prog) >= 0
    /\ i.paid = TotalCents(i, prog)

Recorded(k) == {s \in sales : s.key = k /\ k # NoKey}

\* A worker with the row of key k inserted and not yet committed.
KeyInFlight(k) == \E v \in Workers : pc[v] \in Inserted /\ input[v].key = k

Goto(w, phase) == pc' = [pc EXCEPT ![w] = phase]

\* The request ends with result r, about the sale of attempt n (0: no sale).
Answer(w, r, n) ==
    /\ answers' = answers \cup {[key |-> input[w].key, result |-> r, id |-> n]}
    /\ Goto(w, "idle")
    /\ input' = [input EXCEPT ![w] = Idle]
    /\ id' = [id EXCEPT ![w] = 0]
    /\ seen' = [seen EXCEPT ![w] = NotRead]
    /\ UNCHANGED received

\* An exception: ROLLBACK, and a refusal for an answer.
Refuse(w) == Answer(w, "refused", 0) /\ UNCHANGED dbVars

----------------------------------------------------------------------------
Receive(w) ==
    /\ pc[w] = "idle"
    /\ received < MaxRequests
    /\ \E i \in InputsOf[w] :
          /\ input' = [input EXCEPT ![w] = i]
          /\ Goto(w, IF i.key # NoKey THEN "replay" ELSE "session")
    /\ received' = received + 1
    /\ id' = [id EXCEPT ![w] = received + 1]
    /\ UNCHANGED <<dbVars, payVars, seen, answers>>

\* findByClientSaleId: a sale already recorded under the key is the answer.
Replay(w) ==
    /\ pc[w] = "replay"
    /\ \E s \in Recorded(input[w].key) : Answer(w, "ok", s.id)
    /\ UNCHANGED <<dbVars, payVars>>

ReplayMiss(w) ==
    /\ pc[w] = "replay"
    /\ Recorded(input[w].key) = {}
    /\ Goto(w, "session")
    /\ UNCHANGED <<dbVars, payVars, input, id, seen, answers, received>>

\* getCurrentOpenSession, in a transaction of its own.
CheckSession(w) ==
    /\ pc[w] = "session"
    /\ \/ /\ till[input[w].seller]
          /\ Goto(w, "validate")
          /\ UNCHANGED <<dbVars, input, id, seen, answers, received>>
       \/ ~ till[input[w].seller] /\ Refuse(w)
    /\ UNCHANGED payVars

\* The sale's transaction: the loyalty program, then the checks that precede
\* the first write.
Validate(w) ==
    /\ pc[w] = "validate"
    /\ Acceptable(input[w], program)
    /\ seen' = [seen EXCEPT ![w] = program]
    /\ Goto(w, "insert")
    /\ UNCHANGED <<dbVars, payVars, input, id, answers, received>>

\* A product that is missing or inactive, or a body the checks refuse.
RefuseInvalid(w) ==
    /\ pc[w] = "validate"
    /\ Refuse(w)
    /\ UNCHANGED payVars

\* Mutant: no unique index stands behind the replay check.
InsertSaleUnguarded(w) ==
    /\ pc[w] = "insert"
    /\ Goto(w, "redeem")
    /\ UNCHANGED <<dbVars, payVars, input, id, seen, answers, received>>

\* Mutant: a SELECT for the key takes the place of the unique index, and
\* misses the rows that are not committed.
InsertSaleNotWaiting(w) ==
    /\ pc[w] = "insert"
    /\ Recorded(input[w].key) = {}
    /\ Goto(w, "redeem")
    /\ UNCHANGED <<dbVars, payVars, input, id, seen, answers, received>>

\* INSERT ... ON CONFLICT DO NOTHING on (tenantId, clientSaleId) waits for an
\* uncommitted row of the same key.
InsertSale(w) ==
    /\ pc[w] = "insert"
    /\ input[w].key # NoKey => ~ KeyInFlight(input[w].key)
    /\ Recorded(input[w].key) = {}
    /\ Goto(w, "redeem")
    /\ UNCHANGED <<dbVars, payVars, input, id, seen, answers, received>>

\* Mutant: the answer names the row that was not inserted.
InsertConflictOwnId(w) ==
    /\ pc[w] = "insert"
    /\ Recorded(input[w].key) # {}
    /\ Answer(w, "ok", id[w])
    /\ UNCHANGED <<dbVars, payVars>>

\* Mutant: the insert is tried again.
InsertConflictRetries(w) ==
    /\ pc[w] = "insert"
    /\ Recorded(input[w].key) # {}
    /\ UNCHANGED vars

\* The insert found the row of another attempt: its sale is the answer.
InsertConflict(w) ==
    /\ pc[w] = "insert"
    /\ \E s \in Recorded(input[w].key) : Answer(w, "ok", s.id)
    /\ UNCHANGED <<dbVars, payVars>>

Redeems(w, c) == input[w].customer = c /\ input[w].redeem > 0

\* Mutant: the balance is not compared with the points.
RedeemUnchecked(w) ==
    /\ pc[w] = "redeem"
    /\ Goto(w, "stock")
    /\ UNCHANGED <<dbVars, payVars, input, id, seen, answers, received>>

\* redeemTx: the SUM of the committed ledger, what returns took back included,
\* covers the points to redeem.  The entries that other requests have not
\* committed are not in the sum.
Redeem(w) ==
    /\ pc[w] = "redeem"
    /\ input[w].redeem > 0 => input[w].redeem <= points[input[w].customer]
    /\ Goto(w, "stock")
    /\ UNCHANGED <<dbVars, payVars, input, id, seen, answers, received>>

RefuseRedeem(w) ==
    /\ pc[w] = "redeem"
    /\ input[w].redeem > 0 /\ input[w].redeem > points[input[w].customer]
    /\ Refuse(w)
    /\ UNCHANGED payVars

\* The attempts of the given workers that count on the balance of customer c.
Counting(c, workers) ==
    {id[v] : v \in {u \in workers : pc[u] \in Spending /\ Redeems(u, c)}}

\* applyMovement for every line (see StockLedger): all of them, or a refusal.
ApplyStock(w) ==
    /\ pc[w] = "stock"
    /\ \/ Goto(w, "charge") /\ UNCHANGED <<dbVars, input, id, seen, answers, received>>
       \/ Refuse(w)
    /\ UNCHANGED payVars

\* The charges of an attempt, one for each card/Pix payment.
Charged(w) ==
    {[id |-> id[w], key |-> input[w].key, card |-> c] : c \in 1..input[w].cards}

\* Promise.all over the payments: every charge is sent before any is answered.
Charge(w) ==
    /\ pc[w] = "charge"
    /\ sent' = sent \cup Charged(w)
    /\ Goto(w, "answers")
    /\ UNCHANGED <<dbVars, charges, input, id, seen, answers, received>>

\* The attempt of charge c still waits for its answer.
Awaits(w, c) == pc[w] = "answers" /\ id[w] = c.id

\* The provider approves a charge, whether or not its attempt still waits.
Approve(c) ==
    /\ c \in sent
    /\ sent' = sent \ {c} /\ charges' = charges \cup {c}
    /\ UNCHANGED <<dbVars, requestVars>>

\* Mutant: the ledger entry of the redemption outlives the ROLLBACK.
DeclineKeepsRedeem(c) ==
    /\ c \in sent
    /\ sent' = sent \ {c}
    /\ \E w \in Workers :
          /\ Awaits(w, c)
          /\ Answer(w, "refused", 0)
          /\ points' = [m \in Customers |-> IF m = input[w].customer
                                            THEN points[m] - input[w].redeem ELSE points[m]]
    /\ UNCHANGED <<sales, program, till, clawed, overtaken, charges>>

\* It declines one: Promise.all rejects at once and the transaction is rolled
\* back, while the other charges of the attempt are still on their way, and
\* nothing refunds those it approved or still approves.
Decline(c) ==
    /\ c \in sent
    /\ sent' = sent \ {c}
    /\ \/ \E w \in Workers : Awaits(w, c) /\ Refuse(w)
       \/ /\ \A w \in Workers : ~ Awaits(w, c)
          /\ UNCHANGED <<dbVars, requestVars>>
    /\ UNCHANGED charges

\* Mutant: Promise.any, which goes on with the first approval.
ChargesApprovedOnce(w) ==
    /\ pc[w] = "answers"
    /\ Charged(w) = {} \/ \E c \in Charged(w) : c \in charges
    /\ Goto(w, "commit")
    /\ UNCHANGED <<dbVars, payVars, input, id, seen, answers, received>>

\* Promise.all goes on when the last charge is approved.
ChargesApproved(w) ==
    /\ pc[w] = "answers"
    /\ Charged(w) \subseteq charges
    /\ Goto(w, "commit")
    /\ UNCHANGED <<dbVars, payVars, input, id, seen, answers, received>>

\* The row of the sale and its loyalty entries, as the COMMIT publishes them.
SaleOf(w) ==
    [id |-> id[w], key |-> input[w].key, customer |-> input[w].customer,
     redeemed |-> input[w].redeem, cards |-> input[w].cards,
     earned |-> PointsEarned(input[w], seen[w])]

\* issueForSale, which records a refusal or a failure of the fiscal provider on
\* the note and never blocks the sale, earnTx and the COMMIT.  The
\* acknowledgement may be lost: the request fails and the sale is recorded.
Commit(w) ==
    /\ pc[w] = "commit"
    /\ sales' = sales \cup {SaleOf(w)}
    /\ points' = [c \in Customers |->
          IF c = input[w].customer
          THEN points[c] - SaleOf(w).redeemed + SaleOf(w).earned ELSE points[c]]
    /\ overtaken' = overtaken \cup
          UNION {Counting(c, Workers \ {w}) : c \in {m \in Customers : Redeems(w, m)}}
    /\ \/ Answer(w, "ok", id[w])
       \/ Answer(w, "failed", 0)
    /\ UNCHANGED <<program, till, clawed, payVars>>

\* The process dies, the connection drops or a query fails: what the
\* transaction wrote is rolled back; the charges it sent or that the provider
\* approved stay.
Fail(w) ==
    /\ pc[w] # "idle"
    /\ Answer(w, "failed", 0)
    /\ UNCHANGED <<dbVars, payVars>>

\* The seller opens or closes the cash session while requests are in flight.
ToggleTill(s) ==
    /\ till' = [till EXCEPT ![s] = ~ @]
    /\ UNCHANGED <<sales, points, program, clawed, overtaken, payVars, requestVars>>

\* updateProgram.
UpdateProgram(p) ==
    /\ program' = p
    /\ UNCHANGED <<sales, points, till, clawed, overtaken, payVars, requestVars>>

\* A return of a sale that redeemed no points takes back n of those it earned,
\* its rounded share of them, without looking at the balance.
ReturnSale(s, n) ==
    /\ received < MaxRequests
    /\ s.customer # NoCustomer /\ s.redeemed = 0
    /\ points' = [points EXCEPT ![s.customer] = @ - n]
    /\ clawed' = [clawed EXCEPT ![s.customer] = @ + n]
    /\ overtaken' = overtaken \cup Counting(s.customer, Workers)
    /\ received' = received + 1
    /\ UNCHANGED <<sales, program, till, payVars, pc, input, id, seen, answers>>

Progress(w) ==
    \/ Replay(w) \/ ReplayMiss(w) \/ CheckSession(w)
    \/ Validate(w) \/ RefuseInvalid(w) \/ InsertSale(w) \/ InsertConflict(w)
    \/ Redeem(w) \/ RefuseRedeem(w) \/ ApplyStock(w)
    \/ Charge(w) \/ ChargesApproved(w) \/ Commit(w)

Next ==
    \/ \E w \in Workers : Receive(w) \/ Progress(w) \/ Fail(w)
    \/ \E c \in sent : Approve(c) \/ Decline(c)
    \/ \E s \in sales : \E n \in 1..s.earned : ReturnSale(s, n)
    \/ \E s \in Sellers : ToggleTill(s)
    \/ \E p \in Programs : UpdateProgram(p)

Spec == Init /\ [][Next]_vars

\* The provider answers a charge that an attempt waits for.
Answered(w) == \E c \in sent : Awaits(w, c) /\ (Approve(c) \/ Decline(c))

\* A request in flight runs on, and the provider answers it; of the requests
\* that wait for a key, Postgres wakes each when the holder ends.  A charge
\* that nobody waits for need never be answered.
Fairness == \A w \in Workers : SF_vars(Progress(w) \/ Answered(w))
FairSpec == Spec /\ Fairness

----------------------------------------------------------------------------
\* Charges of the attempts numbered up to n.
ChargeOf(n) == [id : 1..n, key : Keys \cup {NoKey}, card : Nat]

TypeOK ==
    /\ sales \subseteq [id : 1..received, key : Keys \cup {NoKey},
                        customer : Customers \cup {NoCustomer},
                        redeemed : Nat, cards : Nat, earned : Int]
    /\ points \in [Customers -> Int]
    /\ program \in Programs
    /\ till \in [Sellers -> BOOLEAN]
    /\ clawed \in [Customers -> Nat]
    /\ overtaken \subseteq Nat
    /\ sent \subseteq ChargeOf(received)
    /\ charges \subseteq ChargeOf(received)
    /\ pc \in [Workers -> Phases]
    /\ input \in [Workers -> Input \cup {Idle}]
    /\ \A w \in Workers : input[w] \in IF pc[w] = "idle" THEN {Idle} ELSE InputsOf[w]
    /\ id \in [Workers -> 0..received]
    /\ seen \in [Workers -> Programs]
    /\ answers \subseteq [key : Keys \cup {NoKey}, result : {"ok", "refused", "failed"},
                          id : 0..received]
    /\ received \in Nat

\* One sale at most is recorded under a clientSaleId, however many requests
\* carry it and however they overlap (sales.service.ts:52-57, 122-138).
OneSalePerKey ==
    \A s, t \in sales : s.key = t.key /\ s.key # NoKey => s = t

\* Every request that is answered with a sale names one that is recorded, under
\* its own key; with OneSalePerKey, all the answers to a key name the same.
OkMeansRecorded ==
    \A a \in answers : a.result = "ok" =>
        \E s \in sales : s.id = a.id /\ s.key = a.key

\* A recorded sale has every card/Pix payment of its own attempt approved by
\* the provider (sales.service.ts:186-204).
PaidInFull ==
    \A s \in sales : \A c \in 1..s.cards :
        [id |-> s.id, key |-> s.key, card |-> c] \in charges

\* Once a sale is recorded under a key, no charge is sent under it again, by a
\* retry that comes later or by one in flight when the sale was recorded
\* ("without repeating the charge/stock/points", sales.service.ts:50).  A charge
\* sent before, by an attempt that was refused, may still be approved.
NoChargeSentOnceRecorded ==
    [][\A c \in sent' \ sent : Recorded(c.key) = {}]_vars

\* An insufficient balance takes the sale down with it (sales.service.ts:
\* 141-143): a sale that redeems points never leaves its customer below zero,
\* unless the balance it had read fell before its COMMIT, by a redemption or a
\* return that overlapped.  (A return by itself may leave the balance negative.)
RedeemedWithinBalance ==
    [][\A s \in sales' \ sales, c \in Customers :
          s.customer = c /\ s.redeemed > 0 /\ s.id \notin overtaken =>
              points'[c] >= 0]_vars

\* What the recorded sales earned customer c and took from it.
Gained(c) ==
    SumFunctionOnSet([s \in sales |-> IF s.customer = c THEN s.earned - s.redeemed ELSE 0],
                     sales)

\* The balance of a customer is what the recorded sales earned and redeemed on
\* top of the initial one, less what returns took back: a failed, refused or
\* replayed request leaves no ledger entry ("phantom" points,
\* sales.service.ts:231-234).
PointsExplainedBySales ==
    \A c \in Customers : points[c] = InitialPoints[c] + Gained(c) - clawed[c]

\* No side effect, "cobrança, estoque, pontos", runs twice for a clientSaleId
\* (README.pt-BR.md:92): the provider approves the charges of one attempt.
ChargedOnce ==
    \A c, d \in charges : c.key = d.key /\ c.key # NoKey => c.id = d.id

\* Every request is answered: waiting for a row of the same key never becomes
\* a deadlock or an endless wait.
EveryRequestAnswered == \A w \in Workers : pc[w] # "idle" ~> pc[w] = "idle"

----------------------------------------------------------------------------
\* The strengthening that makes OneSalePerKey and PaidInFull inductive: the
\* unique index keeps a key to one uncommitted row, and to none once a sale is
\* recorded under it; a worker about to commit has had its cards approved.
KeysHeldOnce ==
    \A w \in Workers : pc[w] \in Inserted /\ input[w].key # NoKey =>
        /\ Recorded(input[w].key) = {}
        /\ \A v \in Workers \ {w} :
              ~ (pc[v] \in Inserted /\ input[v].key = input[w].key)

CardsApproved ==
    \A w \in Workers : pc[w] = "commit" =>
        Charged(w) \subseteq charges

\* A worker at work has drawn a number for its sale.
AttemptNumbered == \A w \in Workers : pc[w] # "idle" => id[w] # 0

\* The total of a sale being written is not negative.
TotalsChecked ==
    \A w \in Workers : pc[w] \in Inserted \cup {"insert"} =>
        TotalCents(input[w], seen[w]) >= 0

\* Points that have been checked are still there, unless somebody took some.
RedeemCovered ==
    \A w \in Workers, c \in Customers :
        pc[w] \in Spending /\ Redeems(w, c) /\ id[w] \notin overtaken =>
            input[w].redeem <= points[c]

\* No recorded sale, and no other worker, has the number of one at work.
AttemptIsNew ==
    \A w \in Workers : pc[w] # "idle" =>
        /\ \A s \in sales : s.id # id[w]
        /\ \A v \in Workers \ {w} : pc[v] # "idle" => id[v] # id[w]

\* The inductive invariant: what is recorded under a key, what it was charged
\* and whose points it took; and, on top of it, that each sale counts once.
Keyed == /\ TypeOK /\ OneSalePerKey /\ PaidInFull /\ OkMeansRecorded
         /\ KeysHeldOnce /\ CardsApproved /\ AttemptNumbered
         /\ TotalsChecked /\ RedeemCovered
Counted == IsFiniteSet(sales) /\ AttemptIsNew /\ PointsExplainedBySales
IInv == Keyed /\ Counted
=============================================================================
