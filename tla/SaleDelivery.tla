---------------------------- MODULE SaleDelivery ----------------------------
(***************************************************************************)
(* What the offline queue of the point of sale promises about the sales it *)
(* has saved on the device: a sale the device holds is let go once the     *)
(* server has recorded it, or when the operator discards it, and never     *)
(* otherwise; what was let go does not come back; what the server has      *)
(* recorded stays recorded ("it never discards or fakes success",          *)
(* pdv/page.tsx:129-134).                                                  *)
(***************************************************************************)
CONSTANT Ids         \* clientSaleIds

VARIABLES held,      \* sales the device answers for
          refused,   \* of these, the ones it shows as refused
          gone,      \* sales it has let go of
          recorded   \* sales on the server

vars == <<held, refused, gone, recorded>>

Init == held = {} /\ refused = {} /\ gone = {} /\ recorded = {}

Hold(i) ==
    /\ i \notin held \cup gone
    /\ held' = held \cup {i}
    /\ UNCHANGED <<refused, gone, recorded>>

Record(i) ==
    /\ recorded' = recorded \cup {i}
    /\ UNCHANGED <<held, refused, gone>>

Refuse(i) ==
    /\ i \in held
    /\ refused' = refused \cup {i}
    /\ UNCHANGED <<held, gone, recorded>>

\* Once the server has it, or by the decision of the operator on one that is
\* shown as refused.
LetGo(i) ==
    /\ i \in held /\ (i \in recorded \/ i \in refused)
    /\ held' = held \ {i} /\ refused' = refused \ {i}
    /\ gone' = gone \cup {i}
    /\ UNCHANGED recorded

Next == \E i \in Ids : Hold(i) \/ Record(i) \/ Refuse(i) \/ LetGo(i)

Spec == Init /\ [][Next]_vars
=============================================================================
