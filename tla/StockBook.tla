----------------------------- MODULE StockBook -----------------------------
(***************************************************************************)
(* What applyMovement promises its callers: one balance per product that a *)
(* request changes by all of its lines or by none of them, never through a *)
(* negative value.  sales.service.ts calls it inside the transaction of    *)
(* the sale "so the stock deduction and the sale are atomic (both happen,  *)
(* or neither does)" (stock.service.ts:34-35).                             *)
(***************************************************************************)
EXTENDS Integers, Sequences, Functions

CONSTANTS Products, Requests

VARIABLE book    \* the balance of each product

\* What each line of request r does to product p, and the first i together.
Moves(r, p) == [i \in DOMAIN r |-> IF r[i].product = p THEN r[i].delta ELSE 0]
After(r, p, i) == SumFunctionOnSet(Moves(r, p), 1..i)

\* The sum of the deltas of request r for product p.
Total(r, p) == After(r, p, Len(r))

\* No prefix of the request takes a product below zero.
Feasible(r) ==
    \A i \in 1..Len(r), p \in Products : book[p] + After(r, p, i) >= 0

Init == book = [p \in Products |-> 0]

Apply(r) ==
    /\ Feasible(r)
    /\ book' = [p \in Products |-> book[p] + Total(r, p)]

Next == \E r \in Requests : Apply(r)

Spec == Init /\ [][Next]_book
=============================================================================
