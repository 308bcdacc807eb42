---------------------------- MODULE MCBackOffice ----------------------------
(***************************************************************************)
(* The back office on a small instance: two requests on the documents, two *)
(* pulls, two clerks, two products, and one agenda for each combination of *)
(* operations that touch the same rows.  Requests of any kind are w1 and   *)
(* w2, and the ids of sales and of rows are i1 and i2: TLC then has four   *)
(* permutations to try on a state, where names of their own for each kind  *)
(* would make thirty-two.                                                  *)
(***************************************************************************)
EXTENDS BackOffice, TLC

CONSTANTS w1, w2, p1, p2, d1, d2, c1, s1, k1, x1, x2, o1, o2,
          i1, i2, sku1, a1, a2, l1, l2

AWorkers == {w1, w2}
AProducts == {p1, p2}
ATracked == {p1}
ADocs == {d1, d2}
AParties == {c1, s1}
ACenters == {k1}

AnOrder == [qty |-> (p1 :> 1 @@ p2 :> 2), cost |-> (p1 :> 3 @@ p2 :> 1)]
AOrders == {AnOrder}

Receivable == [type |-> "receivable", amount |-> 2, due |-> 1, customer |-> c1,
               supplier |-> NoParty, center |-> NoCenter]
Payable == [type |-> "payable", amount |-> 1, due |-> 0, customer |-> NoParty,
            supplier |-> s1, center |-> k1]
AEntries == {Receivable, Payable}
AEdits == {[amount |-> 3], [supplier |-> s1, center |-> k1]}

APullers == AWorkers
AExternals == {x1, x2}
AFeed == (o1 :> (x1 :> 1 @@ x2 :> 0)) @@ (o2 :> (x1 :> 1 @@ x2 :> 1))
AFetches == {<<o1, o2>>, <<o2, o1, o2>>}
AListings == {[p \in AProducts |-> NotListing],
              (p1 :> [status |-> "synced", ext |-> x1]) @@ (p2 :> [status |-> "synced", ext |-> x2])}

ASellers == {a1, a2}
AStores == {l1, l2}
AIds == {i1, i2}
ASaleIds == AIds
ABaskets == {[seller |-> a1, store |-> l1, qty |-> (p1 :> 1 @@ p2 :> 1), discount |-> 1,
              redeemed |-> 1],
             [seller |-> a2, store |-> l1, qty |-> (p1 :> 0 @@ p2 :> 2), discount |-> 1,
              redeemed |-> 0]}
APrice == (p1 :> 3 @@ p2 :> 4)
ARates == {750}
AQueries == {[from |-> NoDay, to |-> NoDay], [from |-> 0, to |-> 0], [from |-> NoDay, to |-> 1]}

AClerks == AWorkers
ASkus == {sku1}

Interchangeable == Permutations(AWorkers) \cup Permutations(AIds)

AAgendas ==
    {OrderOps, CountOps, EntryOps,
     {"receive", "tally", "finalize"}, {"tally", "finalize", "switch"},
     {"pull", "sync", "switch"}, {"pull", "receive"},
     {"report", "return"}, {"report", "rate"}, {"register"}}

=============================================================================
