--------------------------- MODULE MCStockLedger ---------------------------
(***************************************************************************)
(* Instances of StockLedger.  Two products; a receipt of two units of      *)
(* each, a sale of both products in either order, a return of one unit,    *)
(* and a sale whose two lines are the same product.                        *)
(***************************************************************************)
EXTENDS StockLedger, TLC

CONSTANTS w1, w2, a, b

Of(p, d) == [product |-> p, delta |-> d]

Receipt == <<Of(a, 2), Of(b, 1)>>
SaleAB  == <<Of(a, -1), Of(b, -1)>>
SaleBA  == <<Of(b, -1), Of(a, -1)>>
SaleAA  == <<Of(a, -1), Of(a, -1)>>
ReturnA == <<Of(a, 1)>>

\* Any two requests may meet on the same rows.
Shared == w1 :> {Receipt, SaleAB, SaleAA} @@ w2 :> {Receipt, SaleBA, ReturnA}
=============================================================================
