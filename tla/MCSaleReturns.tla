--------------------------- MODULE MCSaleReturns ---------------------------
(***************************************************************************)
(* Instances of SaleReturns: sales of two lines, two units of x and one of *)
(* y, sold at half their list price.                                       *)
(***************************************************************************)
EXTENDS SaleReturns

CONSTANTS w1, w2, x, y

Of(nx, ny) == [i \in Items |-> IF i = x THEN nx ELSE ny]

\* 126 cents paid of 252: a card for 76 of them, the rest in cash.
HalfPrice == [price |-> Of(101, 50), qty |-> Of(2, 1), total |-> 126,
              card |-> 76, earned |-> 3, redeemed |-> FALSE]

MCSales == {HalfPrice, [HalfPrice EXCEPT !.earned = 0, !.redeemed = TRUE]}

Ask(first, second, method) == [first |-> first, second |-> second, method |-> method]

\* One unit of x, x twice in one request, y, everything but one x, everything.
MCReturns ==
    {Ask(Of(1, 0), Of(0, 0), "dinheiro"), Ask(Of(1, 0), Of(1, 0), "outro"),
     Ask(Of(2, 0), Of(1, 0), "outro"), Ask(Of(0, 1), Of(0, 0), "estorno_pagamento"),
     Ask(Of(1, 1), Of(0, 0), "estorno_pagamento"), Ask(Of(2, 1), Of(0, 0), "dinheiro")}

\* Refunds on the card, of one x (51 cents of its 76) or of y, or one of each
\* otherwise.
CardReturns ==
    {Ask(Of(1, 0), Of(0, 0), "estorno_pagamento"), Ask(Of(0, 1), Of(0, 0), "estorno_pagamento"),
     Ask(Of(1, 1), Of(0, 0), "outro")}
=============================================================================
