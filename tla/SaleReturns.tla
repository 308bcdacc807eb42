---------------------------- MODULE SaleReturns ----------------------------
(***************************************************************************)
(* The returns of one sale: SaleReturnsService.create of apps/api, with    *)
(* the refund it asks of the payment provider and the fiscal note it       *)
(* cancels, against FiscalService.retry, which issues the note again.      *)
(*                                                                         *)
(* A worker is one request in flight, a return or a retry, in one READ     *)
(* COMMITTED transaction.  A return reads once what earlier returns have   *)
(* committed and decides by it to the end; only the row of the fiscal note *)
(* is locked, from its UPDATE to the COMMIT.  The movements of stock are   *)
(* the subject of StockLedger; that the rows of tracked products are       *)
(* locked too only delays a return after it has read.                      *)
(*                                                                         *)
(* Refunds are exact fractions rounded half up, as Math.round rounds them  *)
(* when the ratio is a binary fraction.                                    *)
(***************************************************************************)
EXTENDS Integers, FiniteSets, Functions

CONSTANTS
    Workers,     \* requests that may be in flight together
    Items,       \* lines of the sale
    Sales,       \* the sales a behaviour may be about
    Returns,     \* bodies of return requests
    MaxRequests  \* bound on the requests received in a behaviour

\* A sale: unit price and quantity of each item, what was paid for all, the
\* highest card or Pix payment (0: none), the points earned, and whether it
\* redeemed points.
Sale == [price : [Items -> Nat], qty : [Items -> Nat], total : Nat,
         card : Nat, earned : Nat, redeemed : BOOLEAN]

\* A body asks for each item in two lines at most, 0 standing for no line.
Body == [first : [Items -> Nat], second : [Items -> Nat],
         method : {"dinheiro", "estorno_pagamento", "outro"}]

ASSUME ReturnsAssumption ==
    /\ IsFiniteSet(Items) /\ IsFiniteSet(Workers)
    /\ Sales \subseteq Sale /\ Returns \subseteq Body
    /\ \A s \in Sales : \E i \in Items : s.qty[i] > 0
    /\ MaxRequests \in Nat

VARIABLES
    \* committed rows
    sale,      \* the sale and its items
    status,    \* its status
    returned,  \* quantity returned of each item, over all returns
    refunded,  \* SUM(total_refunded_cents)
    onCard,    \* its part that was refunded on a payment (estorno_pagamento)
    lines,     \* number of rows in sale_return_items
    clawed,    \* points taken back
    flagged,   \* whether some return needs attention
    note,      \* status of the fiscal document
    \* the payment provider
    cardRefunds,  \* refunds it made on the highest payment of the sale
    \* the requests
    pc, req,
    seen,      \* quantities returned, as the request read them
    verdict,   \* what the fiscal provider answered
    received,
    \* history
    overlapped, \* a return committed while another had read the returns
    late        \* a retry was authorized after the sale's note was settled

rows == <<sale, status, returned, refunded, onCard, lines, clawed, flagged, note>>
vars == <<rows, cardRefunds, pc, req, seen, verdict, received, overlapped, late>>

\* Phases of a return that has read, and those in which its fiscal part is done.
FiscalDone == {"void", "commit"}
AfterRead == {"refund", "fiscal"} \cup FiscalDone
Phases == {"idle", "read", "retry", "reissue", "reissued"} \cup AfterRead

Nothing == [i \in Items |-> 0]
NoRequest == [first |-> Nothing, second |-> Nothing, method |-> "outro"]

Init ==
    /\ sale \in Sales
    /\ status = "completed" /\ returned = Nothing /\ refunded = 0 /\ onCard = 0
    /\ lines = 0 /\ clawed = 0 /\ flagged = FALSE
    /\ note \in {"authorized", "rejected"}
    /\ cardRefunds = 0
    /\ pc = [w \in Workers |-> "idle"]
    /\ req = [w \in Workers |-> NoRequest]
    /\ seen = [w \in Workers |-> Nothing]
    /\ verdict = [w \in Workers |-> "none"]
    /\ received = 0 /\ overlapped = FALSE /\ late = FALSE

----------------------------------------------------------------------------
\* requestedByItem: the lines of the same item together.
Asked(w) == [i \in Items |-> req[w].first[i] + req[w].second[i]]

\* Mutant: every line is compared on its own with what is left of the item.
AllowedByLine(w) ==
    \A i \in Items : /\ returned[i] + req[w].first[i] <= sale.qty[i]
                     /\ returned[i] + req[w].second[i] <= sale.qty[i]

\* No item beyond what is left of it.
Allowed(w) == \A i \in Items : returned[i] + Asked(w)[i] <= sale.qty[i]

SumOver(f) == SumFunctionOnSet(f, Items)

Subtotal == SumOver([i \in Items |-> sale.price[i] * sale.qty[i]])

\* Math.round(n / d).
Round(n, d) == (2 * n + d) \div (2 * d)

\* Mutant: the list price is refunded, whatever the discount was.
RefundAtListPrice(i, q) == sale.price[i] * q

\* The refund of q units of item i, in proportion to what was paid.
RefundOf(i, q) ==
    IF Subtotal > 0 THEN Round(sale.price[i] * q * sale.total, Subtotal)
    ELSE sale.price[i] * q

Refund(w) == SumOver([i \in Items |-> RefundOf(i, Asked(w)[i])])

OnCard(w) == req[w].method = "estorno_pagamento"

LinesOf(w) == Cardinality({i \in Items : Asked(w)[i] > 0})

\* The points taken back; a sale that redeemed points is left to a human.
Clawback(w) ==
    IF sale.redeemed \/ sale.total = 0 THEN 0
    ELSE Round(sale.earned * Refund(w), sale.total)

\* Mutant: only the items of this return are looked at.
IsFullThisRound(w) == \A i \in Items : Asked(w)[i] >= sale.qty[i]

\* isFullReturn, by the returns that were read.
IsFull(w) == \A i \in Items : seen[w][i] + Asked(w)[i] >= sale.qty[i]

Goto(w, phase) == pc' = [pc EXCEPT ![w] = phase]

EndRequest(w) ==
    /\ Goto(w, "idle")
    /\ req' = [req EXCEPT ![w] = NoRequest]
    /\ seen' = [seen EXCEPT ![w] = Nothing]
    /\ verdict' = [verdict EXCEPT ![w] = "none"]

\* An exception, a crash or a lost connection: ROLLBACK.
Rollback(w) == EndRequest(w) /\ UNCHANGED <<rows, received, overlapped, late>>

\* The row of the note is updated and not yet committed by another worker.
NoteLocked(w) ==
    \E v \in Workers \ {w} :
        \/ pc[v] = "commit" /\ verdict[v] = "canceled"
        \/ pc[v] = "reissued"

----------------------------------------------------------------------------
Receive(w) ==
    /\ pc[w] = "idle"
    /\ received < MaxRequests /\ received' = received + 1
    /\ \/ \E r \in Returns : /\ \E i \in Items : r.first[i] > 0
                             /\ req' = [req EXCEPT ![w] = r]
                             /\ Goto(w, "read")
       \/ Goto(w, "retry") /\ UNCHANGED req
    /\ UNCHANGED <<rows, cardRefunds, seen, verdict, overlapped, late>>

\* The SELECTs of the sale, its items and their returns, and the check.
ReadReturns(w) ==
    /\ pc[w] = "read"
    /\ Allowed(w)
    /\ seen' = [seen EXCEPT ![w] = returned]
    /\ Goto(w, "refund")
    /\ UNCHANGED <<rows, cardRefunds, req, verdict, received, overlapped, late>>

RefuseExcess(w) ==
    /\ pc[w] = "read"
    /\ ~ Allowed(w)
    /\ Rollback(w)
    /\ UNCHANGED cardRefunds

\* A refund in cash needs an open cash session of the operator's.
RefuseNoSession(w) ==
    /\ pc[w] = "read" /\ req[w].method = "dinheiro"
    /\ Rollback(w)
    /\ UNCHANGED cardRefunds

\* Mutant: a refund that is declined lets the return go on.
GiveBackUnasked(w) ==
    /\ pc[w] = "refund"
    /\ IF OnCard(w)
       THEN /\ sale.card > 0 /\ Refund(w) <= sale.card
            /\ cardRefunds' \in {cardRefunds, cardRefunds + Refund(w)}
       ELSE UNCHANGED cardRefunds
    /\ Goto(w, "fiscal")
    /\ UNCHANGED <<rows, req, seen, verdict, received, overlapped, late>>

\* The stock goes back, the points are taken back, and the money: out of the
\* operator's cash session, through the provider, or otherwise.
GiveBack(w) ==
    /\ pc[w] = "refund"
    /\ IF OnCard(w)
       THEN /\ sale.card > 0 /\ Refund(w) <= sale.card
            /\ cardRefunds' = cardRefunds + Refund(w)
       ELSE UNCHANGED cardRefunds
    /\ Goto(w, "fiscal")
    /\ UNCHANGED <<rows, req, seen, verdict, received, overlapped, late>>

\* No payment to refund on, one too small for the amount, or a declined one.
RefuseRefund(w) ==
    /\ pc[w] = "refund" /\ OnCard(w)
    /\ Rollback(w)
    /\ UNCHANGED cardRefunds

\* A return that is not of the whole sale leaves the note alone.
SkipFiscal(w) ==
    /\ pc[w] = "fiscal" /\ ~ IsFull(w)
    /\ Goto(w, "commit")
    /\ UNCHANGED <<rows, cardRefunds, req, seen, verdict, received, overlapped, late>>

\* cancelForSale: an authorized note is canceled at the provider, who may
\* refuse or fail; any other is left as it is.
CancelNote(w) ==
    /\ pc[w] = "fiscal" /\ IsFull(w)
    /\ \/ /\ note = "authorized"
          /\ \/ verdict' = [verdict EXCEPT ![w] = "canceled"] /\ Goto(w, "void")
             \/ verdict' = [verdict EXCEPT ![w] = "failed"] /\ Goto(w, "commit")
       \/ /\ note # "authorized"
          /\ Goto(w, "commit") /\ UNCHANGED verdict
    /\ UNCHANGED <<rows, cardRefunds, req, seen, received, overlapped, late>>

\* The UPDATE of the note waits for its row.
VoidNote(w) ==
    /\ pc[w] = "void" /\ ~ NoteLocked(w)
    /\ Goto(w, "commit")
    /\ UNCHANGED <<rows, cardRefunds, req, seen, verdict, received, overlapped, late>>

\* Mutant: a failed cancellation is not put down as an issue.
NoIssue(w) == sale.redeemed

\* What makes the return need attention.
Issue(w) == sale.redeemed \/ verdict[w] = "failed"

\* The return, its items and the new status of the sale become visible.
Commit(w) ==
    /\ pc[w] = "commit"
    /\ returned' = [i \in Items |-> returned[i] + Asked(w)[i]]
    /\ refunded' = refunded + Refund(w)
    /\ onCard' = IF OnCard(w) THEN onCard + Refund(w) ELSE onCard
    /\ lines' = lines + LinesOf(w)
    /\ clawed' = clawed + Clawback(w)
    /\ flagged' = (flagged \/ Issue(w))
    /\ status' = IF IsFull(w) THEN "canceled" ELSE status
    /\ note' = IF verdict[w] = "canceled" THEN "canceled" ELSE note
    /\ overlapped' = (overlapped \/ \E v \in Workers \ {w} : pc[v] \in AfterRead)
    /\ EndRequest(w)
    /\ UNCHANGED <<sale, cardRefunds, received, late>>

Fail(w) ==
    /\ pc[w] # "idle"
    /\ Rollback(w)
    /\ UNCHANGED cardRefunds

----------------------------------------------------------------------------
\* FiscalService.retry: refused for an authorized note only.
RetryRefused(w) ==
    /\ pc[w] = "retry" /\ note = "authorized"
    /\ Rollback(w)
    /\ UNCHANGED cardRefunds

Retry(w) ==
    /\ pc[w] = "retry" /\ note # "authorized"
    /\ \E answer \in {"authorized", "rejected"} :
          verdict' = [verdict EXCEPT ![w] = answer]
    /\ Goto(w, "reissue")
    /\ UNCHANGED <<rows, cardRefunds, req, seen, received, overlapped, late>>

Reissue(w) ==
    /\ pc[w] = "reissue" /\ ~ NoteLocked(w)
    /\ Goto(w, "reissued")
    /\ UNCHANGED <<rows, cardRefunds, req, seen, verdict, received, overlapped, late>>

\* The answer becomes the status of the note, whatever it has become since.
RetryCommit(w) ==
    /\ pc[w] = "reissued"
    /\ note' = verdict[w]
    /\ late' = (late \/ /\ verdict[w] = "authorized"
                        /\ \/ status = "canceled"
                           \/ \E v \in Workers : pc[v] \in FiscalDone /\ IsFull(v))
    /\ EndRequest(w)
    /\ UNCHANGED <<sale, status, returned, refunded, onCard, lines, clawed, flagged,
                   cardRefunds, received, overlapped>>

Return(w) ==
    \/ ReadReturns(w) \/ RefuseExcess(w) \/ RefuseNoSession(w)
    \/ GiveBack(w) \/ RefuseRefund(w) \/ SkipFiscal(w) \/ CancelNote(w) \/ VoidNote(w) \/ Commit(w)
Next ==
    \E w \in Workers :
        \/ Receive(w) \/ Return(w) \/ Fail(w)
        \/ RetryRefused(w) \/ Retry(w) \/ Reissue(w) \/ RetryCommit(w)

Spec == Init /\ [][Next]_vars

----------------------------------------------------------------------------
\* Types, but for the sums of money.
TypeOK ==
    /\ sale \in Sales /\ status \in {"completed", "canceled"}
    /\ returned \in [Items -> Nat]
    /\ flagged \in BOOLEAN /\ overlapped \in BOOLEAN /\ late \in BOOLEAN
    /\ note \in {"authorized", "rejected", "canceled"}
    /\ pc \in [Workers -> Phases]
    /\ req \in [Workers -> Returns \cup {NoRequest}]
    /\ seen \in [Workers -> [Items -> Nat]]
    /\ verdict \in [Workers -> {"none", "canceled", "failed", "authorized", "rejected"}]
    /\ received \in Nat

\* An item is not returned beyond what was sold of it, in one request or over
\* many, unless two returns of the sale overlap (sale-returns.service.ts:58-99).
ReturnedWithinSold ==
    overlapped \/ \A i \in Items : returned[i] <= sale.qty[i]

\* The refunds of a sale exceed what was paid for it by half a cent per
\* returned line at most: a sale returned unit by unit rounds up each time, and
\* so can pay back more than it received (sale-returns.service.ts:101-112).
RefundWithinRounding ==
    overlapped \/ 2 * refunded <= 2 * sale.total + lines

\* The sale is canceled when, and only when, all of it has been returned, over
\* any sequence of partial returns, unless two returns overlap: then each may
\* think it is partial (sale-returns.service.ts:223-241).
CanceledWhenAllReturned ==
    overlapped \/ (status = "canceled" <=> returned = sale.qty)

\* A canceled sale has no authorized note behind it without a return that needs
\* attention, unless a retry issued the note after its cancellation was settled
\* (fiscal.service.ts:52-54 refuses authorized notes only, not canceled ones).
LiveNoteIsFlagged ==
    status = "canceled" /\ note = "authorized" => flagged \/ late

\* "Sending a real gateway more than that specific transaction charged would be
\* declined (or worse, would debit the merchant)" (sale-returns.service.ts:
\* 190-197): the returns on record refunded on a payment what it charged at most.
CardRefundsCovered == onCard <= sale.card

----------------------------------------------------------------------------
\* What a return read is still so at its COMMIT, unless returns overlapped.
SeenIsFresh(w) ==
    pc[w] \in AfterRead =>
        /\ \A i \in Items : seen[w][i] + Asked(w)[i] <= sale.qty[i]
        /\ overlapped \/ seen[w] = returned

\* A return at work asks for something.
AsksSomething(w) ==
    pc[w] \in AfterRead \cup {"read"} => \E i \in Items : Asked(w)[i] > 0

\* A return of the whole sale that has nothing to cancel found a note that was
\* not authorized, and has not been since, unless a retry came late.
NoteSettled(w) ==
    /\ pc[w] = "void" => verdict[w] = "canceled"
    /\ pc[w] = "commit" => verdict[w] \in {"none", "canceled", "failed"}
    /\ pc[w] = "commit" /\ IsFull(w) /\ verdict[w] = "none" =>
          note # "authorized" \/ late
    /\ pc[w] \in {"reissue", "reissued"} => verdict[w] \in {"authorized", "rejected"}
    /\ pc[w] \in {"idle", "read", "retry", "refund", "fiscal"} => verdict[w] = "none"

\* What came back, at list price.
Worth == SumOver([i \in Items |-> sale.price[i] * returned[i]])

\* The refunds are the share of it that was paid, but for the rounding of half
\* a cent a line, also when returns overlap.
PaidInProportion ==
    /\ refunded \in Nat /\ lines \in Nat
    /\ IF Subtotal > 0
       THEN 2 * Subtotal * refunded <= 2 * sale.total * Worth + Subtotal * lines
       ELSE refunded = Worth

\* What the provider refunded for a return that has yet to commit.
Held(w) == IF OnCard(w) /\ pc[w] \in {"fiscal"} \cup FiscalDone THEN Refund(w) ELSE 0

\* The provider has made every refund on record, and those a return in flight
\* has obtained; a return that is rolled back leaves its own behind.
CardRefundsMade ==
    /\ onCard \in Nat /\ cardRefunds \in Nat
    /\ onCard + SumFunctionOnSet([w \in Workers |-> Held(w)], Workers) <= cardRefunds

Steady(w) == SeenIsFresh(w) /\ AsksSomething(w) /\ NoteSettled(w)

\* The inductive invariant: returns that do not overlap decide by what is
\* still so when they commit.
IInv == /\ TypeOK /\ ReturnedWithinSold /\ CanceledWhenAllReturned
        /\ LiveNoteIsFlagged /\ PaidInProportion /\ CardRefundsMade
        /\ \A w \in Workers : Steady(w)
=============================================================================
