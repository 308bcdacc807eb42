---------------------------- MODULE OfflineQueue ----------------------------
(***************************************************************************)
(* The offline queue of the point of sale (apps/web): the sales saved in   *)
(* IndexedDB, the cashier who finalizes carts at the PDV page, and the     *)
(* calls of flushOfflineQueue that resend the queue, against a server that *)
(* knows a sale by its clientSaleId (see Sales for the server's side).     *)
(*                                                                         *)
(* Finalize draws a clientSaleId and posts the sale, or queues it when the *)
(* browser is offline or the post fails.  A flush reads the pending sales  *)
(* once and resends them one by one, the next when the last is settled; a  *)
(* reconnection, a page load, another tab or a new access token starts a   *)
(* flush whether or not one is running.  IndexedDB and the cart's draft in *)
(* localStorage survive a reload; nothing else of the page does.           *)
(*                                                                         *)
(* A request may be lost, its answer may be lost, and it may reach the     *)
(* server after the page has given it up.                                  *)
(***************************************************************************)
EXTENDS Integers, Sequences, FiniteSetsExt

CONSTANTS
    Flushes,    \* calls of flushOfflineQueue that may overlap
    Till,       \* the cashier's own request
    MaxSales,   \* bound on the sales finalized in a behaviour
    MaxFaults   \* bound on its disconnections, failed requests and reloads

ASSUME QueueAssumption ==
    Till \notin Flushes /\ MaxSales \in Nat /\ MaxFaults \in Nat

VARIABLES
    \* the device
    queue,     \* the status of each sale in IndexedDB, "none" when absent
    online,    \* navigator.onLine
    \* the cashier
    till,      \* where the cashier's mutation is
    cart,      \* number of the cart on the screen and in the draft
    cartOf,    \* the cart of each sale finalized; its index is the clientSaleId
    \* the flushes
    phase,     \* where each is
    toSync,    \* what is left of the list it read
    \* requests and the server
    conn,      \* each caller's request: none, sent, or answered
    stray,     \* requests given up by the page and still on their way
    missed,    \* history: sales queued, or not sent by a flush, while the
               \* browser called itself online, and listed by no flush since
    recorded,  \* sales on the server
    \* history and bounds
    gone,      \* sales removed from the queue
    doubtful,  \* carts kept on the screen though their sale may be recorded
    faults

flushVars == <<phase, toSync>>
tillVars == <<till, cart, cartOf>>
vars == <<queue, online, tillVars, flushVars, conn, stray, missed, recorded,
          gone, doubtful, faults>>

Ids == 1..MaxSales
Callers == Flushes \cup {Till}

Init ==
    /\ queue = [i \in Ids |-> "none"]
    /\ online \in BOOLEAN
    /\ till = "assemble" /\ cart = 1 /\ cartOf = <<>>
    /\ phase = [f \in Flushes |-> "idle"]
    /\ toSync = [f \in Flushes |-> {}]
    /\ conn = [c \in Callers |-> "none"]
    /\ stray = {} /\ missed = {} /\ recorded = {} /\ gone = {} /\ doubtful = {}
    /\ faults = 0

----------------------------------------------------------------------------
Pending == {i \in Ids : queue[i] = "pending"}

\* The sale a caller's request is about; the list is in order of queuedAt, and
\* the cashier queues the sales in order of finalization.
Item(c) == IF c = Till THEN Len(cartOf) ELSE Min(toSync[c])

Fault == faults < MaxFaults /\ faults' = faults + 1

----------------------------------------------------------------------------
\* createSaleMutation: a new clientSaleId for the cart on the screen.
Finalize ==
    /\ till = "assemble"
    /\ Len(cartOf) < MaxSales
    /\ cartOf' = Append(cartOf, cart)
    /\ till' = IF online THEN "posting" ELSE "enqueue"
    /\ conn' = [conn EXCEPT ![Till] = IF online THEN "sent" ELSE "none"]
    /\ UNCHANGED <<queue, online, cart, flushVars, stray, missed, recorded, gone,
                   doubtful, faults>>

\* An ApiError surfaces and the cart stays for the cashier to finalize again.
TillAnswered ==
    /\ till = "posting"
    /\ conn[Till] \in {"ok", "error"}
    /\ till' = IF conn[Till] = "ok" THEN "saved" ELSE "assemble"
    /\ doubtful' = IF conn[Till] = "error" /\ Item(Till) \in recorded
                   THEN doubtful \cup {cart} ELSE doubtful
    /\ conn' = [conn EXCEPT ![Till] = "none"]
    /\ UNCHANGED <<queue, online, cart, cartOf, flushVars, stray, missed, recorded,
                   gone, faults>>

\* Mutant: the queued sale gets a clientSaleId of its own.
EnqueueNewId ==
    /\ till = "enqueue"
    /\ Len(cartOf) < MaxSales
    /\ cartOf' = Append(cartOf, cart)
    /\ queue' = [queue EXCEPT ![Len(cartOf) + 1] = "pending"]
    /\ till' = "saved"
    /\ UNCHANGED <<online, cart, flushVars, conn, stray, missed, recorded, gone,
                   doubtful, faults>>

\* enqueueOfflineSale, under the clientSaleId of the failed post.
Enqueue ==
    /\ till = "enqueue"
    /\ queue' = [queue EXCEPT ![Item(Till)] = "pending"]
    /\ till' = "saved"
    /\ missed' = IF online THEN missed \cup {Item(Till)} ELSE missed
    /\ UNCHANGED <<online, cart, cartOf, flushVars, conn, stray, recorded,
                   gone, doubtful, faults>>

\* onSuccess clears the cart and with it the draft.
ClearCart ==
    /\ till = "saved"
    /\ till' = "assemble" /\ cart' = cart + 1
    /\ UNCHANGED <<queue, online, cartOf, flushVars, conn, stray, missed, recorded,
                   gone, doubtful, faults>>

----------------------------------------------------------------------------
\* An overlapping flush: the access token changes, or another tab is opened.
StartFlush(f) ==
    /\ online /\ phase[f] = "idle"
    /\ phase' = [phase EXCEPT ![f] = "list"]
    /\ UNCHANGED <<queue, online, tillVars, toSync, conn, stray, missed, recorded,
                   gone, doubtful, faults>>

\* listOfflineSales and the filter on the status.
ListPending(f) ==
    /\ phase[f] = "list"
    /\ toSync' = [toSync EXCEPT ![f] = Pending]
    /\ phase' = [phase EXCEPT ![f] = IF Pending = {} THEN "idle" ELSE "send"]
    /\ missed' = missed \ Pending
    /\ UNCHANGED <<queue, online, tillVars, conn, stray, recorded, gone,
                   doubtful, faults>>

Send(f) ==
    /\ phase[f] = "send"
    /\ conn' = [conn EXCEPT ![f] = "sent"]
    /\ phase' = [phase EXCEPT ![f] = "wait"]
    /\ UNCHANGED <<queue, online, tillVars, toSync, stray, missed, recorded, gone,
                   doubtful, faults>>

\* Mutant: fetch does not throw on an error status, and nobody looks at it.
AnyAnswerIsSuccess(f) ==
    /\ phase[f] = "wait"
    /\ conn[f] \in {"ok", "error"}
    /\ phase' = [phase EXCEPT ![f] = "remove"]
    /\ conn' = [conn EXCEPT ![f] = "none"]
    /\ UNCHANGED <<queue, online, tillVars, toSync, stray, missed, recorded, gone,
                   doubtful, faults>>

\* An ApiError is any answer that is not a 2xx.
FlushAnswered(f) ==
    /\ phase[f] = "wait"
    /\ conn[f] \in {"ok", "error"}
    /\ phase' = [phase EXCEPT ![f] = IF conn[f] = "ok" THEN "remove" ELSE "mark"]
    /\ conn' = [conn EXCEPT ![f] = "none"]
    /\ UNCHANGED <<queue, online, tillVars, toSync, stray, missed, recorded, gone,
                   doubtful, faults>>

\* The flush is done with its item.
Settled(f) ==
    /\ toSync' = [toSync EXCEPT ![f] = @ \ {Item(f)}]
    /\ phase' = [phase EXCEPT ![f] = IF toSync[f] = {Item(f)} THEN "idle" ELSE "send"]

RemoveSynced(f) ==
    /\ phase[f] = "remove"
    /\ queue' = [queue EXCEPT ![Item(f)] = "none"]
    /\ gone' = gone \cup {Item(f)}
    /\ Settled(f)
    /\ UNCHANGED <<online, tillVars, conn, stray, missed, recorded, doubtful, faults>>

\* Mutant: the row is written again from the copy in the list.
MarkUnconditionally(f) ==
    /\ phase[f] = "mark"
    /\ queue' = [queue EXCEPT ![Item(f)] = "needs_attention"]
    /\ Settled(f)
    /\ UNCHANGED <<online, tillVars, conn, stray, missed, recorded, gone, doubtful, faults>>

\* markOfflineSaleNeedsAttention reads and writes in one transaction, and
\* leaves a sale that is no longer there alone.
MarkNeedsAttention(f) ==
    /\ phase[f] = "mark"
    /\ queue' = [queue EXCEPT ![Item(f)] =
                    IF @ = "none" THEN @ ELSE "needs_attention"]
    /\ Settled(f)
    /\ UNCHANGED <<online, tillVars, conn, stray, missed, recorded, gone, doubtful, faults>>

\* discardAttentionSale.
Discard(i) ==
    /\ queue[i] = "needs_attention"
    /\ queue' = [queue EXCEPT ![i] = "none"]
    /\ gone' = gone \cup {i}
    /\ UNCHANGED <<online, tillVars, flushVars, conn, stray, missed, recorded,
                   doubtful, faults>>

----------------------------------------------------------------------------
\* POST /sales records the sale, or finds it recorded; the answer may still be
\* an error (its COMMIT was not acknowledged).
Record(c) ==
    /\ conn[c] = "sent"
    /\ recorded' = recorded \cup {Item(c)}
    /\ \E answer \in {"ok", "error"} : conn' = [conn EXCEPT ![c] = answer]
    /\ UNCHANGED <<queue, online, tillVars, flushVars, stray, missed, gone, doubtful, faults>>

\* It refuses the sale, or a guard before the handler refuses the request: an
\* expired token, a canceled subscription, the rate limit, a failure.
Refuse(c) ==
    /\ conn[c] = "sent"
    /\ conn' = [conn EXCEPT ![c] = "error"]
    /\ UNCHANGED <<queue, online, tillVars, flushVars, stray, missed, recorded, gone,
                   doubtful, faults>>

\* A request that the page gave up arrives, to be recorded or refused.
StrayArrives(i) ==
    /\ i \in stray
    /\ stray' = stray \ {i}
    /\ recorded' \in {recorded, recorded \cup {i}}
    /\ UNCHANGED <<queue, online, tillVars, flushVars, conn, missed, gone, doubtful, faults>>

\* The requests of the callers in cs are given up: those the server has not
\* seen are lost or go on without the page.
GiveUp(cs) ==
    /\ conn' = [c \in Callers |-> IF c \in cs THEN "none" ELSE conn[c]]
    /\ \E alive \in SUBSET {Item(c) : c \in {d \in cs : conn[d] = "sent"}} :
          stray' = stray \cup alive

\* Mutant: a flush drops the sale it could not send.
NetworkErrorDrops(c) ==
    /\ conn[c] # "none"
    /\ Fault
    /\ GiveUp({c})
    /\ IF c = Till
       THEN till' = "enqueue" /\ UNCHANGED <<flushVars, queue, gone>>
       ELSE /\ Settled(c) /\ UNCHANGED till
            /\ queue' = [queue EXCEPT ![Item(c)] = "none"]
            /\ gone' = gone \cup {Item(c)}
    /\ UNCHANGED <<online, cart, cartOf, missed, recorded, doubtful>>

\* fetch fails, as it may at any time offline: the cashier's sale goes to the
\* queue, a flushed one stays pending and the flush goes on.
NetworkError(c) ==
    /\ conn[c] # "none"
    /\ Fault \/ (~ online /\ UNCHANGED faults)
    /\ GiveUp({c})
    /\ IF c = Till
       THEN till' = "enqueue" /\ UNCHANGED <<flushVars, missed>>
       ELSE /\ Settled(c) /\ UNCHANGED till
            /\ missed' = IF online THEN missed \cup {Item(c)} ELSE missed
    /\ UNCHANGED <<queue, online, cart, cartOf, recorded, gone, doubtful>>

Disconnect ==
    /\ online /\ Fault
    /\ online' = FALSE /\ missed' = {}
    /\ UNCHANGED <<queue, tillVars, flushVars, conn, stray, recorded, gone, doubtful>>

\* Mutant: the effect does not depend on isOnline, and runs on a load alone.
ReconnectIdle ==
    /\ ~ online
    /\ online' = TRUE
    /\ UNCHANGED <<queue, tillVars, flushVars, conn, stray, missed, recorded, gone,
                   doubtful, faults>>

\* The effect on isOnline starts a flush.
Reconnect ==
    /\ ~ online
    /\ online' = TRUE
    /\ \E f \in Flushes : /\ phase[f] = "idle"
                          /\ phase' = [phase EXCEPT ![f] = "list"]
    /\ UNCHANGED <<queue, tillVars, toSync, conn, stray, missed, recorded, gone,
                   doubtful, faults>>

\* The page is opened anew, with nothing in progress.
Load ==
    /\ online /\ till = "assemble"
    /\ \A f \in Flushes : phase[f] = "idle"
    /\ \E f \in Flushes : phase' = [phase EXCEPT ![f] = "list"]
    /\ UNCHANGED <<queue, online, tillVars, toSync, conn, stray, missed, recorded,
                   gone, doubtful, faults>>

\* The page is reloaded in the middle of things, with the flushes it runs;
\* those of other tabs go on.  The cart comes back from its draft.
Reload ==
    /\ Fault
    /\ \E dead \in SUBSET Flushes, fresh \in Flushes :
          /\ fresh \in dead
          /\ GiveUp(dead \cup {Till})
          /\ phase' = [f \in Flushes |->
                IF f = fresh /\ online THEN "list"
                ELSE IF f \in dead THEN "idle" ELSE phase[f]]
          /\ toSync' = [f \in Flushes |-> IF f \in dead THEN {} ELSE toSync[f]]
    /\ till' = "assemble"
    /\ doubtful' = IF till = "assemble" THEN doubtful ELSE doubtful \cup {cart}
    /\ UNCHANGED <<queue, online, cart, cartOf, missed, recorded, gone>>

FlushStep(f) ==
    ListPending(f) \/ Send(f) \/ FlushAnswered(f) \/ RemoveSynced(f) \/ MarkNeedsAttention(f)
TillStep == TillAnswered \/ Enqueue \/ ClearCart
Serve(c) == Record(c) \/ Refuse(c)

Next ==
    \/ Finalize \/ TillStep \/ Disconnect \/ Reconnect \/ Load \/ Reload
    \/ \E f \in Flushes : StartFlush(f) \/ FlushStep(f)
    \/ \E c \in Callers : Serve(c) \/ NetworkError(c)
    \/ \E i \in Ids : Discard(i) \/ StrayArrives(i)

Spec == Init /\ [][Next]_vars

\* The page runs its handlers, the server answers and a device that is offline
\* reconnects; MaxFaults makes the network behave in the end.  Nothing makes the
\* cashier open the page again.
Fairness ==
    /\ \A f \in Flushes : WF_vars(FlushStep(f))
    /\ \A c \in Callers : WF_vars(Serve(c))
    /\ WF_vars(TillStep) /\ WF_vars(Reconnect)
FairSpec == Spec /\ Fairness

----------------------------------------------------------------------------
TypeOK ==
    /\ queue \in [Ids -> {"none", "pending", "needs_attention"}]
    /\ online \in BOOLEAN
    /\ till \in {"assemble", "posting", "enqueue", "saved"}
    /\ cartOf \in Seq(1..cart) /\ Len(cartOf) <= MaxSales
    /\ cart \in 1..(Len(cartOf) + 1)
    /\ phase \in [Flushes -> {"idle", "list", "send", "wait", "remove", "mark"}]
    /\ toSync \in [Flushes -> SUBSET Ids]
    /\ conn \in [Callers -> {"none", "sent", "ok", "error"}]
    /\ stray \subseteq Ids /\ recorded \subseteq Ids /\ gone \subseteq Ids
    /\ missed \subseteq Ids
    /\ doubtful \subseteq 1..cart
    /\ faults \in 0..MaxFaults

\* The server records a cart once, however often its sale is posted, queued,
\* flushed by overlapping calls or found again by a late request, as long as
\* no reload or error answer left the cart on the screen when its sale was, or
\* was about to be, recorded ("guaranteeing the server always sees the same
\* clientSaleId", pdv/page.tsx:345-350).
CartSoldOnce ==
    \A i, j \in recorded : cartOf[i] = cartOf[j] => i = j \/ cartOf[i] \in doubtful

Delivery == INSTANCE SaleDelivery WITH
                held <- {i \in Ids : queue[i] # "none"},
                refused <- {i \in Ids : queue[i] = "needs_attention"}

\* The queue implements SaleDelivery: a saved sale leaves the device after the
\* server has recorded it or by a discard of one it shows as refused, and what
\* left does not come back, with two flushes at work on stale lists
\* (offline-sale-queue.ts:14-18: never "disappears without that decision").
ImplementsSaleDelivery == Delivery!Spec

\* A pending sale does not stay pending: once the internet is back it is recorded
\* or put before the operator ("Será enviada automaticamente quando a internet
\* voltar", pdv/page.tsx:407), by itself and whatever flush, disconnection or
\* reload comes in between; unless it was queued, or a flush failed to send it,
\* while navigator.onLine held, so that no reconnection is due: no timer tries
\* it again (pdv/page.tsx:170-176), and it waits for one or for a load.
PendingIsSettled ==
    \A i \in Ids : queue[i] = "pending" ~> queue[i] # "pending" \/ i \in missed

\* "needs_attention: the server responded and rejected the sale"
\* (offline-sale-queue.ts:15-17): what the queue shows as refused is not
\* recorded.
AttentionMeansRejected ==
    \A i \in Ids : queue[i] = "needs_attention" => i \notin recorded

----------------------------------------------------------------------------
\* The strengthening that makes CartSoldOnce inductive and carries the proof of
\* ImplementsSaleDelivery.

\* A flush that removes a sale has had it recorded, and works on sales that
\* were queued; an answer of success is of a recorded sale.
Consistent ==
    /\ \A f \in Flushes : phase[f] = "remove" => Item(f) \in recorded
    /\ \A c \in Callers : conn[c] = "ok" => Item(c) \in recorded
    /\ \A f \in Flushes : \A i \in toSync[f] : queue[i] # "none" \/ i \in gone
    /\ \A f \in Flushes :
          phase[f] \in {"send", "wait", "remove", "mark"} <=> toSync[f] # {}
    /\ \A f \in Flushes : conn[f] # "none" => phase[f] = "wait"

\* A clientSaleId was drawn for a cart before anything knows of the sale.
Drawn ==
    /\ recorded \cup stray \cup gone \subseteq DOMAIN cartOf
    /\ \A i \in Ids : queue[i] # "none" => i \in DOMAIN cartOf
    /\ \A i \in DOMAIN cartOf : cartOf[i] <= i

\* From the post to the end of the mutation the last sale is the screen's
\* cart; until it is queued its id is nowhere in the queue.
TillFits ==
    /\ till # "assemble" => cartOf # <<>> /\ cartOf[Item(Till)] = cart
    /\ conn[Till] # "none" <=> till = "posting"
    /\ till = "posting" => Item(Till) \notin stray
    /\ till \in {"posting", "enqueue"} =>
          Item(Till) \notin gone /\ queue[Item(Till)] = "none"

\* Sale i is on the server, or something may still bring it there.
Live(i) ==
    \/ i \in recorded \cup stray \cup gone
    \/ queue[i] # "none"
    \/ i = Item(Till) /\ till \in {"posting", "enqueue"}

\* Of the sales of a cart one at most is live, and none when the cashier may
\* finalize the cart again, unless the cart is doubtful.
OneLiveSalePerCart ==
    /\ \A i, j \in DOMAIN cartOf :
          cartOf[i] = cartOf[j] /\ Live(i) /\ Live(j) => i = j \/ cartOf[i] \in doubtful
    /\ till = "assemble" =>
          \A i \in DOMAIN cartOf : cartOf[i] = cart /\ Live(i) => cart \in doubtful

\* The inductive invariant.
IInv == TypeOK /\ Consistent /\ Drawn /\ TillFits /\ OneLiveSalePerCart
=============================================================================
