------------------------------ MODULE MCSales ------------------------------
(***************************************************************************)
(* Instances of Sales: one seller and one customer with a point, a program *)
(* that gives one point per 100 cents and takes a point for 50.            *)
(***************************************************************************)
EXTENDS Sales

CONSTANTS w1, w2, ana, maria, k1

On == [active |-> TRUE, earnRate |-> 1, redeemValue |-> 50]
Off == [On EXCEPT !.active = FALSE]
MCPrograms == {On, Off}

MCPoints == [c \in Customers |-> 1]

\* A sale of 250 cents to maria that redeems her points.
Body(k, redeem, cards, discount) ==
    [key |-> k, seller |-> ana, customer |-> maria, redeem |-> redeem,
     subtotal |-> 250, discount |-> discount,
     paid |-> 250 - discount - 50 * redeem, cards |-> cards]

\* The queued sale of k1, with two cards, which either worker is sent and sent
\* again after a failure; and online sales, which have no key to be known by:
\* one earns a point, which the other redeems with the first.
Retries == [w \in Workers |->
    {Body(k1, 1, 2, 150),
     IF w = w1 THEN Body(NoKey, 0, 0, 100) ELSE Body(NoKey, 2, 0, 100)}]

\* One card sale, sent again after a failure.
OneCard == [w \in Workers |-> {Body(k1, 1, 1, 150)}]
=============================================================================
