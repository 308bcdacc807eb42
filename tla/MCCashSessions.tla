--------------------------- MODULE MCCashSessions ---------------------------
(***************************************************************************)
(* Instances of CashSessions: one user at two tills, in a tenant with two  *)
(* stores, of which the plan may cover one.                                *)
(***************************************************************************)
EXTENDS CashSessions, TLC

CONSTANTS w1, w2, ana, low, high

Open(s) == [kind |-> "open", user |-> ana, store |-> s]
CloseWith(s, a) == [kind |-> "close", user |-> ana, session |-> s, amount |-> a]
Movement(s) == [kind |-> "movement", session |-> s]
Sale == [kind |-> "sale", user |-> ana]
Create == [kind |-> "create"]
Update(s, a) == [kind |-> "update", store |-> s, active |-> a]

\* Each worker takes any of them: an open in either store, closings of the
\* first session with different amounts, movements and sales, a new store, and
\* stores that are deactivated and activated, the third if it was created first.
MCRequests ==
    w1 :> {Open(1), Open(2), CloseWith(1, low), Movement(1), Create,
           Update(1, FALSE), Update(3, FALSE)}
    @@ w2 :> {Open(2), CloseWith(1, high), CloseWith(2, high), Sale,
              Update(2, FALSE), Update(2, TRUE)}
=============================================================================
