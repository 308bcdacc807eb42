------------------------- MODULE OfflineQueue_proofs -------------------------
(***************************************************************************)
(* Theorems about OfflineQueue, for any flushes, sales and faults: the     *)
(* inductive invariant, that a cart is sold once, and that the queue       *)
(* implements SaleDelivery.                                                *)
(***************************************************************************)
EXTENDS OfflineQueue, SumTheorems

\* The list a flush works on is never empty while it has an item.
Working == {"send", "wait", "remove", "mark"}

LEMMA MinIn ==
    ASSUME NEW S, S \subseteq Nat, S # {}
    PROVE  Min(S) \in S
<1>1. \E x \in S : \A y \in S : x <= y
    BY LeastNumber
<1>2. QED
    BY <1>1 DEF Min

LEMMA Numbers ==
    ASSUME TypeOK
    PROVE  /\ Len(cartOf) \in Nat /\ DOMAIN cartOf = 1..Len(cartOf)
           /\ DOMAIN cartOf \subseteq Ids /\ Ids \subseteq Nat
           /\ cart \in Nat /\ cart >= 1
           /\ \A i \in DOMAIN cartOf : cartOf[i] \in 1..cart
           /\ Item(Till) = Len(cartOf)
           /\ cartOf # <<>> => Item(Till) \in DOMAIN cartOf
BY QueueAssumption DEF TypeOK, Ids, Item

\* The item of a flush at work, and of a request under way.
LEMMA FlushItem ==
    ASSUME TypeOK, Consistent, Drawn, NEW f \in Flushes, phase[f] \in Working
    PROVE  /\ Item(f) \in toSync[f] /\ Item(f) \in DOMAIN cartOf /\ Item(f) \in Ids
           /\ queue[Item(f)] # "none" \/ Item(f) \in gone
           /\ Live(Item(f))
<1>1. toSync[f] # {} /\ toSync[f] \subseteq Ids
    BY DEF Working, Consistent, TypeOK
<1>2. Item(f) = Min(toSync[f])
    BY QueueAssumption DEF Item
<1>3. Item(f) \in toSync[f]
    BY <1>1, <1>2, MinIn, Numbers
<1>4. queue[Item(f)] # "none" \/ Item(f) \in gone
    BY <1>3 DEF Consistent
<1>5. QED
    BY <1>1, <1>3, <1>4 DEF Drawn, Live

LEMMA CallerItem ==
    ASSUME TypeOK, Consistent, Drawn, TillFits, NEW c \in Callers, conn[c] # "none"
    PROVE  Item(c) \in DOMAIN cartOf /\ Item(c) \in Ids /\ Live(Item(c))
<1>1. CASE c = Till
    BY <1>1, Numbers DEF TillFits, Live
<1>2. CASE c \in Flushes
  <2>1. phase[c] \in Working
      BY <1>2 DEF Consistent, Working
  <2>2. QED
      BY <1>2, <2>1, FlushItem
<1>3. QED
    BY <1>1, <1>2 DEF Callers

LEMMA InitIInv == Init => IInv
<1> SUFFICES ASSUME Init PROVE IInv
    OBVIOUS
<1>1. TypeOK
    BY QueueAssumption DEF Init, TypeOK, Callers, Ids
<1>2. Consistent /\ Drawn /\ TillFits /\ OneLiveSalePerCart
    BY DEF Init, Consistent, Drawn, TillFits, OneLiveSalePerCart, Callers, Ids
<1>3. QED
    BY <1>1, <1>2 DEF IInv

\* The carts and the sales drawn stay, no sale comes alive, and the cashier
\* starts on no cart anew unless it is doubtful.
LEMMA NoNewLiveSale ==
    ASSUME TypeOK, OneLiveSalePerCart, UNCHANGED <<cart, cartOf>>, doubtful \subseteq doubtful',
           \A i \in DOMAIN cartOf : Live(i)' => Live(i),
           till' = "assemble" => till = "assemble" \/ cart \in doubtful'
    PROVE  OneLiveSalePerCart'
BY DEF OneLiveSalePerCart

-----------------------------------------------------------------------------
\* The cashier.
LEMMA FinalizeIInv == IInv /\ Finalize => IInv'
<1> SUFFICES ASSUME IInv, Finalize PROVE IInv'
    OBVIOUS
<1> USE DEF IInv
<1> DEFINE n == Len(cartOf) + 1
<1>1. /\ Len(cartOf') = n /\ DOMAIN cartOf' = DOMAIN cartOf \cup {n} /\ n \notin DOMAIN cartOf
      /\ n \in Ids /\ n \in Nat /\ cartOf'[n] = cart /\ Item(Till)' = n
      /\ \A i \in DOMAIN cartOf : cartOf'[i] = cartOf[i]
  <2>1. cartOf \in Seq(Nat) /\ cart \in Nat /\ Len(cartOf) \in Nat /\ Len(cartOf) < MaxSales
      BY Numbers DEF Finalize, TypeOK
  <2>2. cartOf' = Append(cartOf, cart)
      BY DEF Finalize
  <2>3. /\ Len(cartOf') = n /\ DOMAIN cartOf' = 1..n /\ DOMAIN cartOf = 1..Len(cartOf)
        /\ cartOf'[n] = cart /\ \A i \in DOMAIN cartOf : cartOf'[i] = cartOf[i]
      BY <2>1, <2>2
  <2>4. n \in Ids /\ n \in Nat
      BY <2>1, QueueAssumption DEF Ids
  <2>5. Item(Till)' = n
      BY <2>3 DEF Item
  <2>6. DOMAIN cartOf' = DOMAIN cartOf \cup {n} /\ n \notin DOMAIN cartOf
      BY <2>1, <2>3
  <2>7. QED
      BY <2>3, <2>4, <2>5, <2>6
<1>2. TypeOK'
  <2>1. cartOf' \in Seq(1..cart)
      BY Numbers DEF Finalize, TypeOK
  <2>2. cart' = cart /\ Len(cartOf') <= MaxSales /\ cart \in 1..(Len(cartOf') + 1)
      BY <1>1, Numbers, QueueAssumption DEF Finalize, TypeOK, Ids
  <2>3. conn' \in [Callers -> {"none", "sent", "ok", "error"}]
      BY DEF Finalize, TypeOK
  <2>4. QED
      BY <2>1, <2>2, <2>3 DEF Finalize, TypeOK, flushVars
<1>3. /\ n \notin recorded \cup stray \cup gone /\ queue[n] = "none"
    BY <1>1 DEF Drawn
<1>4. Consistent'
  <2>1. \A f \in Flushes : conn'[f] = conn[f] /\ Item(f)' = Item(f)
      BY QueueAssumption DEF Finalize, Item, flushVars, TypeOK, Callers
  <2>2. conn'[Till] # "ok"
      BY DEF Finalize, TypeOK, Callers
  <2>3. QED
      BY <2>1, <2>2 DEF Finalize, Consistent, flushVars, Callers
<1>5. Drawn'
    BY <1>1, Numbers DEF Drawn, Finalize, TypeOK
<1>6. TillFits'
  <2>1. conn'[Till] = IF online THEN "sent" ELSE "none"
      BY DEF Finalize, TypeOK, Callers
  <2>2. QED
      BY <1>1, <1>3, <2>1 DEF TillFits, Finalize
<1>7. OneLiveSalePerCart'
  <2>1. \A i \in DOMAIN cartOf : Live(i)' => Live(i) /\ i # n
      BY <1>1 DEF Live, Finalize
  <2>2. \A i \in DOMAIN cartOf : cartOf[i] = cart /\ Live(i) => cart \in doubtful
      BY DEF Finalize, OneLiveSalePerCart
  <2>3. QED
      BY <1>1, <2>1, <2>2 DEF OneLiveSalePerCart, Finalize
<1>8. QED
    BY <1>2, <1>4, <1>5, <1>6, <1>7

LEMMA TillAnsweredIInv == IInv /\ TillAnswered => IInv'
<1> SUFFICES ASSUME IInv, TillAnswered PROVE IInv'
    OBVIOUS
<1> USE DEF IInv
<1> DEFINE n == Item(Till)
<1>1. /\ n \in DOMAIN cartOf /\ cartOf[n] = cart /\ n \notin stray \cup gone /\ queue[n] = "none"
      /\ Live(n) /\ Item(Till)' = n
    BY Numbers DEF TillAnswered, TillFits, Live, Item, TypeOK, Callers
<1>2. /\ conn' \in [Callers -> {"none", "sent", "ok", "error"}] /\ conn'[Till] = "none"
      /\ \A f \in Flushes : conn'[f] = conn[f] /\ Item(f)' = Item(f)
    BY QueueAssumption DEF TillAnswered, TypeOK, Callers, Item, flushVars
<1>3. TypeOK'
    BY <1>2, Numbers DEF TillAnswered, TypeOK, flushVars
<1>4. Consistent'
    BY <1>2 DEF TillAnswered, Consistent, flushVars, Callers
<1>5. Drawn'
    BY DEF TillAnswered, Drawn
<1>6. TillFits'
    BY <1>1, <1>2 DEF TillAnswered, TillFits
<1>7. OneLiveSalePerCart'
  <2>1. \A i \in DOMAIN cartOf : Live(i)' => Live(i)
      BY DEF TillAnswered, Live
  <2>2. CASE conn[Till] = "ok"
      BY <2>1, <2>2, NoNewLiveSale DEF TillAnswered
  <2>3. CASE conn[Till] = "error"
    <3>1. CASE n \in recorded
        BY <2>1, <2>3, <3>1, NoNewLiveSale DEF TillAnswered
    <3>2. CASE n \notin recorded
      <4>1. ~ Live(n)'
          BY <1>1, <2>3, <3>2 DEF TillAnswered, Live
      <4>2. \A i \in DOMAIN cartOf : cartOf[i] = cart /\ Live(i)' => cart \in doubtful
          BY <1>1, <2>1, <4>1 DEF OneLiveSalePerCart
      <4>3. QED
          BY <2>1, <2>3, <3>2, <4>2 DEF TillAnswered, OneLiveSalePerCart
    <3>3. QED
        BY <3>1, <3>2
  <2>4. QED
      BY <2>2, <2>3 DEF TillAnswered
<1>8. QED
    BY <1>3, <1>4, <1>5, <1>6, <1>7

LEMMA EnqueueIInv == IInv /\ Enqueue => IInv'
<1> SUFFICES ASSUME IInv, Enqueue PROVE IInv'
    OBVIOUS
<1> USE DEF IInv
<1> DEFINE n == Item(Till)
<1>1. n \in DOMAIN cartOf /\ cartOf[n] = cart /\ n \in Ids /\ Live(n) /\ Item(Till)' = n
    BY Numbers DEF Enqueue, TillFits, Live, Item
<1>2. /\ queue' \in [Ids -> {"none", "pending", "needs_attention"}] /\ queue'[n] = "pending"
      /\ \A i \in Ids : i # n => queue'[i] = queue[i]
      /\ \A f \in Flushes : Item(f)' = Item(f)
    BY <1>1, QueueAssumption DEF Enqueue, TypeOK, Item, flushVars
<1>3. TypeOK'
    BY <1>2 DEF Enqueue, TypeOK, flushVars
<1>4. Consistent'
  <2>1. \A f \in Flushes : toSync[f] \subseteq Ids
      BY DEF TypeOK
  <2>2. QED
      BY <1>1, <1>2, <2>1 DEF Enqueue, Consistent, flushVars, Callers
<1>5. Drawn'
    BY <1>1, <1>2 DEF Enqueue, Drawn
<1>6. TillFits'
    BY <1>1 DEF Enqueue, TillFits
<1>7. OneLiveSalePerCart'
  <2>1. \A i \in DOMAIN cartOf : Live(i)' => Live(i)
      BY <1>1, <1>2, Numbers DEF Enqueue, Live
  <2>2. QED
      BY <2>1, NoNewLiveSale DEF Enqueue
<1>8. QED
    BY <1>3, <1>4, <1>5, <1>6, <1>7

LEMMA ClearCartIInv == IInv /\ ClearCart => IInv'
<1> SUFFICES ASSUME IInv, ClearCart PROVE IInv'
    OBVIOUS
<1> USE DEF IInv
<1>1. cart <= Len(cartOf) /\ cart \in Nat
    BY Numbers DEF ClearCart, TillFits, Drawn
<1>2. TypeOK'
    BY <1>1, Numbers DEF ClearCart, TypeOK, flushVars
<1>3. Consistent' /\ Drawn' /\ TillFits'
    BY DEF ClearCart, Consistent, Drawn, TillFits, Item, flushVars
<1>4. OneLiveSalePerCart'
  <2>1. \A i \in DOMAIN cartOf : cartOf[i] # cart'
      BY <1>1, Numbers DEF ClearCart
  <2>2. \A i \in DOMAIN cartOf : Live(i)' => Live(i)
      BY DEF ClearCart, Live
  <2>3. QED
      BY <2>1, <2>2 DEF ClearCart, OneLiveSalePerCart
<1>5. QED
    BY <1>2, <1>3, <1>4

-----------------------------------------------------------------------------
\* A flush.  What the steps that touch no sale keep.
LEMMA NoSaleTouched ==
    ASSUME IInv, UNCHANGED <<queue, tillVars, stray, recorded, gone, doubtful>>
    PROVE  /\ Drawn' /\ OneLiveSalePerCart' /\ Item(Till)' = Item(Till)
           /\ conn'[Till] = conn[Till] => TillFits'
<1> USE DEF IInv, tillVars
<1>1. Item(Till)' = Item(Till)
    BY DEF Item
<1>2. \A i \in DOMAIN cartOf : Live(i)' => Live(i)
    BY DEF Live, Item
<1>3. QED
    BY <1>1, <1>2, NoNewLiveSale DEF Drawn, TillFits

LEMMA StartFlushIInv == ASSUME IInv, NEW f \in Flushes, StartFlush(f) PROVE IInv'
<1> USE DEF IInv
<1>1. TypeOK'
    BY DEF StartFlush, TypeOK, tillVars
<1>2. Consistent'
    BY DEF StartFlush, Consistent, TypeOK, Item, tillVars
<1>3. QED
    BY <1>1, <1>2, NoSaleTouched DEF StartFlush

LEMMA ListPendingIInv == ASSUME IInv, NEW f \in Flushes, ListPending(f) PROVE IInv'
<1> USE DEF IInv
<1>1. Pending \subseteq Ids /\ \A i \in Pending : queue[i] # "none"
    BY DEF Pending
<1>2. TypeOK'
    BY <1>1 DEF ListPending, TypeOK, tillVars
<1>3. Consistent'
  <2>1. conn[f] = "none"
      BY DEF ListPending, Consistent
  <2>2. \A g \in Flushes : g # f => Item(g)' = Item(g)
      BY DEF ListPending, Item, TypeOK, tillVars
  <2>3. Item(Till)' = Item(Till)
      BY DEF ListPending, Item, tillVars
  <2>4. phase'[f] # "remove" /\ phase'[f] # "wait"
      BY DEF ListPending, TypeOK
  <2>5. phase'[f] \in Working <=> toSync'[f] # {}
      BY DEF ListPending, TypeOK, Working
  <2>6. \A g \in Flushes : g # f => phase'[g] = phase[g] /\ toSync'[g] = toSync[g]
      BY DEF ListPending, TypeOK
  <2>7. toSync'[f] = Pending /\ UNCHANGED <<queue, conn, gone, recorded>>
      BY DEF ListPending, TypeOK
  <2>8. QED
      BY <1>1, <2>1, <2>2, <2>3, <2>4, <2>5, <2>6, <2>7 DEF Consistent, Callers, Working
<1>4. QED
    BY <1>2, <1>3, NoSaleTouched DEF ListPending

LEMMA SendIInv == ASSUME IInv, NEW f \in Flushes, Send(f) PROVE IInv'
<1> USE DEF IInv
<1>1. TypeOK'
    BY DEF Send, TypeOK, tillVars
<1>2. conn'[Till] = conn[Till]
    BY QueueAssumption DEF Send, TypeOK, Callers
<1>3. Consistent'
    BY DEF Send, Consistent, TypeOK, Item, tillVars, Callers
<1>4. QED
    BY <1>1, <1>2, <1>3, NoSaleTouched DEF Send

LEMMA FlushAnsweredIInv == ASSUME IInv, NEW f \in Flushes, FlushAnswered(f) PROVE IInv'
<1> USE DEF IInv
<1>1. TypeOK'
    BY DEF FlushAnswered, TypeOK, tillVars
<1>2. conn'[Till] = conn[Till]
    BY QueueAssumption DEF FlushAnswered, TypeOK, Callers
<1>3. Consistent'
    BY DEF FlushAnswered, Consistent, TypeOK, Item, tillVars, Callers
<1>4. QED
    BY <1>1, <1>2, <1>3, NoSaleTouched DEF FlushAnswered

\* What settling its item does to a flush.
LEMMA SettledFacts ==
    ASSUME TypeOK, Consistent, Drawn, NEW f \in Flushes, phase[f] \in Working, Settled(f)
    PROVE  /\ phase' \in [Flushes -> {"idle", "list", "send", "wait", "remove", "mark"}]
           /\ toSync' \in [Flushes -> SUBSET Ids]
           /\ toSync'[f] = toSync[f] \ {Item(f)} /\ phase'[f] \in {"idle", "send"}
           /\ phase'[f] = "send" <=> toSync'[f] # {}
           /\ \A g \in Flushes : g # f => /\ phase'[g] = phase[g] /\ toSync'[g] = toSync[g]
                                          /\ cartOf' = cartOf => Item(g)' = Item(g)
BY FlushItem DEF Settled, TypeOK, Item, Working

LEMMA RemoveSyncedIInv == ASSUME IInv, NEW f \in Flushes, RemoveSynced(f) PROVE IInv'
<1> USE DEF IInv
<1>1. phase[f] \in Working /\ Settled(f) /\ cartOf' = cartOf
    BY DEF RemoveSynced, Working, tillVars
<1>2. Item(f) \in DOMAIN cartOf /\ Item(f) \in Ids /\ Live(Item(f))
    BY <1>1, FlushItem
<1>3. /\ queue' \in [Ids -> {"none", "pending", "needs_attention"}]
      /\ \A i \in Ids : queue'[i] = IF i = Item(f) THEN "none" ELSE queue[i]
      /\ gone' = gone \cup {Item(f)} /\ gone' \subseteq Ids
    BY <1>2 DEF RemoveSynced, TypeOK
<1>4. TypeOK'
    BY <1>1, <1>3, SettledFacts DEF RemoveSynced, TypeOK, tillVars
<1>5. Consistent'
  <2>1. conn[f] = "none" /\ conn' = conn /\ recorded' = recorded /\ Item(Till)' = Item(Till)
      BY DEF RemoveSynced, Consistent, Item, tillVars
  <2>2. \A g \in Flushes : toSync'[g] \subseteq toSync[g] /\ toSync[g] \subseteq Ids
      BY <1>1, SettledFacts DEF TypeOK
  <2>3. QED
      BY <1>1, <1>3, <2>1, <2>2, SettledFacts DEF Consistent, Callers
<1>6. Drawn'
    BY <1>2, <1>3 DEF RemoveSynced, Drawn, tillVars
<1>7. TillFits'
  <2>1. till \in {"posting", "enqueue"} => Item(Till) # Item(f)
      BY <1>1, FlushItem DEF TillFits
  <2>2. till \in {"posting", "enqueue"} => Item(Till) \in Ids
      BY Numbers DEF TillFits
  <2>3. QED
      BY <1>3, <2>1, <2>2 DEF RemoveSynced, TillFits, tillVars, Item
<1>8. OneLiveSalePerCart'
  <2>1. \A i \in DOMAIN cartOf : Live(i)' => Live(i)
      BY <1>2, <1>3, Numbers DEF RemoveSynced, Live, Item, tillVars
  <2>2. QED
      BY <2>1, NoNewLiveSale DEF RemoveSynced, tillVars
<1>9. QED
    BY <1>4, <1>5, <1>6, <1>7, <1>8

LEMMA MarkNeedsAttentionIInv ==
    ASSUME IInv, NEW f \in Flushes, MarkNeedsAttention(f) PROVE IInv'
<1> USE DEF IInv
<1>1. phase[f] \in Working /\ Settled(f) /\ cartOf' = cartOf
    BY DEF MarkNeedsAttention, Working, tillVars
<1>2. Item(f) \in DOMAIN cartOf /\ Item(f) \in Ids
    BY <1>1, FlushItem
<1>3. /\ queue' \in [Ids -> {"none", "pending", "needs_attention"}]
      /\ \A i \in Ids : queue'[i] = "none" <=> queue[i] = "none"
    BY <1>2 DEF MarkNeedsAttention, TypeOK
<1>4. TypeOK'
    BY <1>1, <1>3, SettledFacts DEF MarkNeedsAttention, TypeOK, tillVars
<1>5. Consistent'
  <2>1. conn[f] = "none" /\ conn' = conn /\ recorded' = recorded /\ Item(Till)' = Item(Till)
      BY DEF MarkNeedsAttention, Consistent, Item, tillVars
  <2>2. \A g \in Flushes : toSync'[g] \subseteq toSync[g] /\ toSync[g] \subseteq Ids
      BY <1>1, SettledFacts DEF TypeOK
  <2>3. QED
      BY <1>1, <1>3, <2>1, <2>2, SettledFacts DEF MarkNeedsAttention, Consistent, Callers
<1>6. Drawn'
    BY <1>3 DEF MarkNeedsAttention, Drawn, tillVars
<1>7. TillFits'
  <2>1. till \in {"posting", "enqueue"} => Item(Till) \in Ids
      BY Numbers DEF TillFits
  <2>2. QED
      BY <1>3, <2>1 DEF MarkNeedsAttention, TillFits, tillVars, Item
<1>8. OneLiveSalePerCart'
  <2>1. \A i \in DOMAIN cartOf : Live(i)' => Live(i)
      BY <1>3, Numbers DEF MarkNeedsAttention, Live, Item, tillVars
  <2>2. QED
      BY <2>1, NoNewLiveSale DEF MarkNeedsAttention, tillVars
<1>9. QED
    BY <1>4, <1>5, <1>6, <1>7, <1>8

LEMMA DiscardIInv == ASSUME IInv, NEW i \in Ids, Discard(i) PROVE IInv'
<1> USE DEF IInv
<1>1. /\ queue' \in [Ids -> {"none", "pending", "needs_attention"}]
      /\ \A j \in Ids : queue'[j] = IF j = i THEN "none" ELSE queue[j]
      /\ queue[i] # "none" /\ i \in DOMAIN cartOf /\ Live(i)
    BY DEF Discard, TypeOK, Drawn, Live
<1>2. TypeOK'
    BY <1>1 DEF Discard, TypeOK, tillVars, flushVars
<1>3. Consistent'
  <2>1. \A f \in Flushes : toSync[f] \subseteq Ids
      BY DEF TypeOK
  <2>2. QED
      BY <1>1, <2>1 DEF Discard, Consistent, Item, tillVars, flushVars
<1>4. Drawn'
    BY <1>1 DEF Discard, Drawn, tillVars
<1>5. TillFits'
  <2>1. till \in {"posting", "enqueue"} => Item(Till) \in Ids /\ Item(Till) # i
      BY <1>1, Numbers DEF TillFits
  <2>2. QED
      BY <1>1, <2>1 DEF Discard, TillFits, tillVars, Item
<1>6. OneLiveSalePerCart'
  <2>1. \A j \in DOMAIN cartOf : Live(j)' => Live(j)
      BY <1>1, Numbers DEF Discard, Live, Item, tillVars
  <2>2. QED
      BY <2>1, NoNewLiveSale DEF Discard, tillVars
<1>7. QED
    BY <1>2, <1>3, <1>4, <1>5, <1>6

-----------------------------------------------------------------------------
\* The server and the network.
LEMMA RecordIInv == ASSUME IInv, NEW c \in Callers, Record(c) PROVE IInv'
<1> USE DEF IInv
<1>1. Item(c) \in DOMAIN cartOf /\ Item(c) \in Ids /\ Live(Item(c))
    BY CallerItem DEF Record
<1>2. PICK answer \in {"ok", "error"} : conn' = [conn EXCEPT ![c] = answer]
    BY DEF Record
<1>3. \A d \in Callers : Item(d)' = Item(d)
    BY DEF Record, Item, tillVars, flushVars
<1>4. TypeOK'
    BY <1>1, <1>2 DEF Record, TypeOK, tillVars, flushVars
<1>5. Consistent'
  <2>1. \A d \in Callers : d # c => conn'[d] = conn[d]
      BY <1>2 DEF TypeOK
  <2>2. conn'[c] \in {"ok", "error"} /\ conn[c] # "none"
      BY <1>2 DEF Record, TypeOK
  <2>3. QED
      BY <1>1, <1>3, <2>1, <2>2 DEF Record, Consistent, Callers, flushVars
<1>6. Drawn'
    BY <1>1 DEF Record, Drawn, tillVars
<1>7. TillFits'
    BY <1>2 DEF Record, TillFits, tillVars, Item, TypeOK
<1>8. OneLiveSalePerCart'
  <2>1. \A i \in DOMAIN cartOf : Live(i)' => Live(i)
      BY <1>1 DEF Record, Live, Item, tillVars
  <2>2. QED
      BY <2>1, NoNewLiveSale DEF Record, tillVars
<1>9. QED
    BY <1>4, <1>5, <1>6, <1>7, <1>8

LEMMA RefuseIInv == ASSUME IInv, NEW c \in Callers, Refuse(c) PROVE IInv'
<1> USE DEF IInv
<1>1. TypeOK'
    BY DEF Refuse, TypeOK, tillVars, flushVars
<1>2. Consistent'
  <2>1. \A d \in Callers : Item(d)' = Item(d)
      BY DEF Refuse, Item, tillVars, flushVars
  <2>2. QED
      BY <2>1 DEF Refuse, Consistent, TypeOK, Callers, flushVars
<1>3. TillFits'
    BY DEF Refuse, TillFits, tillVars, Item, TypeOK
<1>4. QED
    BY <1>1, <1>2, <1>3, NoSaleTouched DEF Refuse

LEMMA StrayArrivesIInv == ASSUME IInv, NEW i \in Ids, StrayArrives(i) PROVE IInv'
<1> USE DEF IInv
<1>1. /\ \A d \in Callers : Item(d)' = Item(d)
      /\ recorded \subseteq recorded' /\ recorded' \subseteq recorded \cup {i}
      /\ i \in stray /\ stray' = stray \ {i}
    BY DEF StrayArrives, Item, tillVars, flushVars
<1>2. TypeOK'
    BY <1>1 DEF StrayArrives, TypeOK, tillVars, flushVars
<1>3. Consistent'
    BY <1>1 DEF StrayArrives, Consistent, Callers, flushVars
<1>4. Drawn' /\ TillFits'
    BY <1>1 DEF StrayArrives, Drawn, TillFits, tillVars, Item
<1>5. OneLiveSalePerCart'
  <2>1. \A j \in DOMAIN cartOf : Live(j)' => Live(j)
      BY <1>1 DEF StrayArrives, Live, Item, tillVars
  <2>2. QED
      BY <2>1, NoNewLiveSale DEF StrayArrives, tillVars
<1>6. QED
    BY <1>2, <1>3, <1>4, <1>5

\* What giving up requests does; those that go on are of live sales.
LEMMA GiveUpFacts ==
    ASSUME IInv, NEW cs, cs \subseteq Callers, GiveUp(cs)
    PROVE  /\ conn' \in [Callers -> {"none", "sent", "ok", "error"}]
           /\ \A c \in Callers : conn'[c] = IF c \in cs THEN "none" ELSE conn[c]
           /\ stray \subseteq stray'
           /\ \A i \in stray' \ stray : /\ i \in DOMAIN cartOf /\ i \in Ids /\ Live(i)
                                        /\ \E c \in cs : conn[c] = "sent" /\ i = Item(c)
<1>1. PICK alive \in SUBSET {Item(c) : c \in {d \in cs : conn[d] = "sent"}} :
         stray' = stray \cup alive
    BY DEF GiveUp
<1>2. \A i \in stray' \ stray : \E c \in cs : conn[c] = "sent" /\ i = Item(c)
    BY <1>1
<1>3. \A i \in stray' \ stray : i \in DOMAIN cartOf /\ i \in Ids /\ Live(i)
    BY <1>2, CallerItem DEF IInv
<1>4. QED
    BY <1>1, <1>2, <1>3 DEF GiveUp, IInv, TypeOK

LEMMA NetworkErrorIInv == ASSUME IInv, NEW c \in Callers, NetworkError(c) PROVE IInv'
<1> USE DEF IInv
<1>1. /\ conn[c] # "none" /\ GiveUp({c})
      /\ UNCHANGED <<queue, online, cart, cartOf, recorded, gone, doubtful>>
      /\ faults' \in 0..MaxFaults
    BY QueueAssumption DEF NetworkError, Fault, TypeOK
<1>2. /\ conn' \in [Callers -> {"none", "sent", "ok", "error"}]
      /\ \A d \in Callers : conn'[d] = IF d = c THEN "none" ELSE conn[d]
      /\ stray \subseteq stray'
      /\ \A i \in stray' \ stray : i \in DOMAIN cartOf /\ i \in Ids /\ Live(i) /\ i = Item(c)
    BY <1>1, GiveUpFacts
<1>3. Item(Till)' = Item(Till)
    BY <1>1 DEF Item
<1>4. Drawn'
    BY <1>1, <1>2 DEF Drawn
<1>5. CASE c = Till
  <2>1. till = "posting" /\ till' = "enqueue" /\ UNCHANGED flushVars
      BY <1>1, <1>5 DEF NetworkError, TillFits
  <2>2. TypeOK'
    <3>1. missed' \subseteq Ids
        BY <1>5, <2>1 DEF NetworkError, TypeOK
    <3>2. QED
        BY <1>1, <1>2, <2>1, <3>1 DEF TypeOK, flushVars
  <2>3. Consistent'
    <3>1. \A f \in Flushes : conn'[f] = conn[f] /\ Item(f)' = Item(f)
        BY <1>2, <1>5, <2>1, QueueAssumption DEF Callers, Item, flushVars
    <3>2. QED
        BY <1>1, <1>2, <1>5, <2>1, <3>1 DEF Consistent, Callers, flushVars
  <2>4. TillFits'
      BY <1>1, <1>2, <1>3, <1>5, <2>1 DEF TillFits, Callers
  <2>5. OneLiveSalePerCart'
    <3>1. \A i \in DOMAIN cartOf : Live(i)' => Live(i)
        BY <1>1, <1>2, <1>3, <2>1 DEF Live
    <3>2. QED
        BY <1>1, <2>1, <3>1, NoNewLiveSale
  <2>6. QED
      BY <1>4, <2>2, <2>3, <2>4, <2>5
<1>6. CASE c # Till
  <2>1. c \in Flushes /\ Settled(c) /\ till' = till /\ phase[c] \in Working
      BY <1>1, <1>6 DEF NetworkError, Callers, Consistent, Working
  <2>2. TypeOK'
    <3>1. missed' \subseteq Ids
        BY <1>6, <2>1, FlushItem DEF NetworkError, TypeOK
    <3>2. QED
        BY <1>1, <1>2, <2>1, <3>1, SettledFacts DEF TypeOK
  <2>3. Consistent'
    <3>1. \A f \in Flushes : toSync'[f] \subseteq toSync[f]
        BY <2>1, SettledFacts
    <3>2. \A f \in Flushes : f # c => Item(f)' = Item(f) /\ phase'[f] = phase[f] /\ toSync'[f] = toSync[f]
        BY <1>1, <2>1, SettledFacts
    <3>3. phase'[c] \in {"idle", "send"} /\ (phase'[c] = "send" <=> toSync'[c] # {})
        BY <2>1, SettledFacts
    <3>4. QED
        BY <1>1, <1>2, <1>3, <2>1, <3>1, <3>2, <3>3 DEF Consistent, Callers
  <2>4. TillFits'
    <3>1. Item(c) \in gone \/ queue[Item(c)] # "none"
        BY <2>1, FlushItem
    <3>2. till = "posting" => Item(Till) # Item(c)
        BY <3>1 DEF TillFits
    <3>3. QED
        BY <1>1, <1>2, <1>3, <1>6, <2>1, <3>2 DEF TillFits, Callers
  <2>5. OneLiveSalePerCart'
    <3>1. \A i \in DOMAIN cartOf : Live(i)' => Live(i)
        BY <1>1, <1>2, <1>3, <2>1 DEF Live
    <3>2. QED
        BY <1>1, <2>1, <3>1, NoNewLiveSale
  <2>6. QED
      BY <1>4, <2>2, <2>3, <2>4, <2>5
<1>7. QED
    BY <1>5, <1>6

\* The connection is lost or comes back, or the page is opened: no sale is
\* touched, and a flush may start.
LEMMA ConnectionIInv == IInv /\ (Disconnect \/ Reconnect \/ Load) => IInv'
<1> SUFFICES ASSUME IInv, Disconnect \/ Reconnect \/ Load PROVE IInv'
    OBVIOUS
<1> USE DEF IInv
<1>1. /\ UNCHANGED <<queue, tillVars, toSync, conn, stray, recorded, gone, doubtful>>
      /\ online' \in BOOLEAN /\ faults' \in 0..MaxFaults /\ missed' \subseteq Ids
      /\ \/ phase' = phase
         \/ \E f \in Flushes : phase[f] = "idle" /\ phase' = [phase EXCEPT ![f] = "list"]
  <2>1. faults \in 0..MaxFaults /\ missed \subseteq Ids
      BY DEF TypeOK
  <2>2. CASE Disconnect
    <3>1. faults' \in 0..MaxFaults
        BY <2>1, <2>2, QueueAssumption DEF Disconnect, Fault
    <3>2. QED
        BY <2>2, <3>1 DEF Disconnect, flushVars
  <2>3. CASE Reconnect
      BY <2>1, <2>3 DEF Reconnect
  <2>4. CASE Load
      BY <2>1, <2>4 DEF Load, TypeOK
  <2>5. QED
      BY <2>2, <2>3, <2>4
<1>2. TypeOK'
    BY <1>1 DEF TypeOK, tillVars
<1>3. Consistent'
  <2>1. \A c \in Callers : Item(c)' = Item(c)
      BY <1>1 DEF Item, tillVars
  <2>2. CASE phase' = phase
      BY <1>1, <2>1, <2>2 DEF Consistent, Callers
  <2>3. CASE \E f \in Flushes : phase[f] = "idle" /\ phase' = [phase EXCEPT ![f] = "list"]
      BY <1>1, <2>1, <2>3 DEF Consistent, Callers, TypeOK
  <2>4. QED
      BY <1>1, <2>2, <2>3
<1>4. QED
    BY <1>1, <1>2, <1>3, NoSaleTouched

LEMMA ReloadIInv == IInv /\ Reload => IInv'
<1> SUFFICES ASSUME IInv, Reload PROVE IInv'
    OBVIOUS
<1> USE DEF IInv
<1>1. PICK dead \in SUBSET Flushes, fresh \in Flushes :
          /\ fresh \in dead
          /\ GiveUp(dead \cup {Till})
          /\ phase' = [f \in Flushes |->
                IF f = fresh /\ online THEN "list"
                ELSE IF f \in dead THEN "idle" ELSE phase[f]]
          /\ toSync' = [f \in Flushes |-> IF f \in dead THEN {} ELSE toSync[f]]
    BY DEF Reload
<1>2. /\ till' = "assemble"
      /\ doubtful' = (IF till = "assemble" THEN doubtful ELSE doubtful \cup {cart})
      /\ UNCHANGED <<queue, online, cart, cartOf, missed, recorded, gone>>
      /\ faults' \in 0..MaxFaults
    BY QueueAssumption DEF Reload, Fault, TypeOK
<1>3. /\ conn' \in [Callers -> {"none", "sent", "ok", "error"}]
      /\ \A c \in Callers : conn'[c] = IF c \in dead \cup {Till} THEN "none" ELSE conn[c]
      /\ stray \subseteq stray'
      /\ \A i \in stray' \ stray : i \in DOMAIN cartOf /\ i \in Ids /\ Live(i)
  <2>1. dead \cup {Till} \subseteq Callers
      BY DEF Callers
  <2>2. QED
      BY <1>1, <2>1, GiveUpFacts
<1>4. TypeOK'
  <2>1. /\ phase' \in [Flushes -> {"idle", "list", "send", "wait", "remove", "mark"}]
        /\ toSync' \in [Flushes -> SUBSET Ids]
      BY <1>1 DEF TypeOK
  <2>2. doubtful' \subseteq 1..cart'
      BY <1>2, Numbers DEF TypeOK
  <2>3. stray' \subseteq Ids
      BY <1>3 DEF TypeOK
  <2>4. QED
      BY <1>2, <1>3, <2>1, <2>2, <2>3 DEF TypeOK
<1>5. Consistent'
  <2>1. Till \in Callers /\ conn'[Till] = "none"
      BY <1>3 DEF Callers
  <2>2. ASSUME NEW f \in Flushes, f \in dead
        PROVE  conn'[f] = "none" /\ phase'[f] \in {"idle", "list"} /\ toSync'[f] = {}
      BY <1>1, <1>3, <2>2 DEF Callers
  <2>3. ASSUME NEW f \in Flushes, f \notin dead
        PROVE  conn'[f] = conn[f] /\ phase'[f] = phase[f] /\ toSync'[f] = toSync[f]
               /\ Item(f)' = Item(f)
    <3>1. f # Till /\ f # fresh
        BY <1>1, <2>3, QueueAssumption
    <3>2. QED
        BY <1>1, <1>3, <2>3, <3>1 DEF Callers, Item
  <2>4. QED
      BY <1>2, <2>1, <2>2, <2>3 DEF Consistent, Callers
<1>6. Drawn' /\ TillFits'
    BY <1>2, <1>3 DEF Drawn, TillFits, Callers
<1>7. OneLiveSalePerCart'
  <2>1. \A i \in DOMAIN cartOf : Live(i)' => Live(i)
      BY <1>2, <1>3 DEF Live
  <2>2. QED
      BY <1>2, <2>1, NoNewLiveSale
<1>8. QED
    BY <1>4, <1>5, <1>6, <1>7

-----------------------------------------------------------------------------
LEMMA StepIInv == IInv /\ [Next]_vars => IInv'
<1> SUFFICES ASSUME IInv, [Next]_vars PROVE IInv'
    OBVIOUS
<1>1. CASE Finalize \/ TillStep
    BY <1>1, FinalizeIInv, TillAnsweredIInv, EnqueueIInv, ClearCartIInv DEF TillStep
<1>2. CASE Disconnect \/ Reconnect \/ Load
    BY <1>2, ConnectionIInv
<1>3. CASE Reload
    BY <1>3, ReloadIInv
<1>4. ASSUME NEW f \in Flushes, StartFlush(f) \/ FlushStep(f) PROVE IInv'
    BY <1>4, StartFlushIInv, ListPendingIInv, SendIInv, FlushAnsweredIInv, RemoveSyncedIInv,
       MarkNeedsAttentionIInv DEF FlushStep
<1>5. ASSUME NEW c \in Callers, Serve(c) \/ NetworkError(c) PROVE IInv'
    BY <1>5, RecordIInv, RefuseIInv, NetworkErrorIInv DEF Serve
<1>6. ASSUME NEW i \in Ids, Discard(i) \/ StrayArrives(i) PROVE IInv'
    BY <1>6, DiscardIInv, StrayArrivesIInv
<1>7. CASE UNCHANGED vars
  <2>1. UNCHANGED <<queue, online, till, cart, cartOf, phase, toSync, conn, stray, missed, recorded,
                    gone, doubtful, faults>>
      BY <1>7 DEF vars, tillVars, flushVars
  <2>2. TypeOK' /\ Consistent' /\ Drawn' /\ TillFits'
      BY <2>1 DEF IInv, TypeOK, Consistent, Drawn, TillFits, Item
  <2>3. OneLiveSalePerCart'
      BY <2>1 DEF IInv, OneLiveSalePerCart, Live, Item
  <2>4. QED
      BY <2>2, <2>3 DEF IInv
<1>8. QED
    BY <1>1, <1>2, <1>3, <1>4, <1>5, <1>6, <1>7 DEF Next

\* The queue, the flushes, the cashier and the requests under way fit each
\* other in every reachable state: a flush works on sales that were queued, an
\* id is drawn before anything knows of it, and a cart has one live sale at
\* most unless it is doubtful.
THEOREM SpecIInv == Spec => []IInv
<1>1. Init => IInv
    BY InitIInv
<1>2. IInv /\ [Next]_vars => IInv'
    BY StepIInv
<1>3. QED
    BY <1>1, <1>2, PTL DEF Spec

LEMMA IInvCartSoldOnce == IInv => CartSoldOnce
BY DEF IInv, Drawn, OneLiveSalePerCart, CartSoldOnce, Live

\* The server records a cart once, whatever flushes overlap and whatever
\* requests are lost, repeated or late, unless a reload or an error answer left
\* the cart on the screen (the clientSaleId of pdv/page.tsx:345-350).
THEOREM SpecCartSoldOnce == Spec => []CartSoldOnce
BY SpecIInv, IInvCartSoldOnce, PTL

-----------------------------------------------------------------------------
\* The refinement.  Each step is one of SaleDelivery, or leaves what that
\* specification sees as it is.
Held == {i \in Ids : queue[i] # "none"}
Refused == {i \in Ids : queue[i] = "needs_attention"}

LEMMA NoDeliveryStep ==
    ASSUME UNCHANGED <<queue, gone, recorded>>
    PROVE  UNCHANGED Delivery!vars
BY DEF Delivery!vars

LEMMA EnqueueDelivers == IInv /\ Enqueue => Delivery!Next
<1> SUFFICES ASSUME IInv, Enqueue PROVE Delivery!Next
    OBVIOUS
<1> USE DEF IInv
<1>1. Item(Till) \in Ids /\ queue[Item(Till)] = "none" /\ Item(Till) \notin gone
    BY Numbers DEF Enqueue, TillFits
<1>2. /\ \A i \in Ids : queue'[i] = IF i = Item(Till) THEN "pending" ELSE queue[i]
      /\ UNCHANGED <<gone, recorded>>
    BY <1>1 DEF Enqueue, TypeOK
<1>3. Held' = Held \cup {Item(Till)} /\ Refused' = Refused /\ Item(Till) \notin Held
    BY <1>1, <1>2 DEF Held, Refused
<1>4. Delivery!Hold(Item(Till))
    BY <1>1, <1>2, <1>3 DEF Delivery!Hold, Held, Refused
<1>5. QED
    BY <1>1, <1>4 DEF Delivery!Next, Delivery!Hold

LEMMA RemoveSyncedDelivers ==
    ASSUME IInv, NEW f \in Flushes, RemoveSynced(f)
    PROVE  Delivery!Next \/ UNCHANGED Delivery!vars
<1> USE DEF IInv
<1> DEFINE i == Item(f)
<1>1. phase[f] \in Working
    BY DEF RemoveSynced, Working
<1>2. i \in Ids /\ i \in recorded /\ (queue[i] # "none" \/ i \in gone)
    BY <1>1, FlushItem DEF RemoveSynced, Consistent
<1>3. /\ \A j \in Ids : queue'[j] = IF j = i THEN "none" ELSE queue[j]
      /\ gone' = gone \cup {i} /\ recorded' = recorded
    BY <1>2 DEF RemoveSynced, TypeOK
<1>4. Held' = Held \ {i} /\ Refused' = Refused \ {i}
    BY <1>2, <1>3 DEF Held, Refused
<1>5. CASE queue[i] # "none"
  <2>1. Delivery!LetGo(i)
      BY <1>2, <1>3, <1>4, <1>5 DEF Delivery!LetGo, Held, Refused
  <2>2. QED
      BY <1>2, <2>1 DEF Delivery!Next, Delivery!LetGo
<1>6. CASE queue[i] = "none"
  <2>1. Held' = Held /\ Refused' = Refused /\ gone' = gone
      BY <1>2, <1>3, <1>4, <1>6 DEF Held, Refused
  <2>2. QED
      BY <1>3, <2>1 DEF Delivery!vars, Held, Refused
<1>7. QED
    BY <1>5, <1>6

LEMMA MarkNeedsAttentionDelivers ==
    ASSUME IInv, NEW f \in Flushes, MarkNeedsAttention(f)
    PROVE  Delivery!Next \/ UNCHANGED Delivery!vars
<1> USE DEF IInv
<1> DEFINE i == Item(f)
<1>1. phase[f] \in Working
    BY DEF MarkNeedsAttention, Working
<1>2. i \in Ids
    BY <1>1, FlushItem
<1>3. /\ \A j \in Ids : j # i => queue'[j] = queue[j]
      /\ queue'[i] = IF queue[i] = "none" THEN "none" ELSE "needs_attention"
      /\ UNCHANGED <<gone, recorded>>
    BY <1>2 DEF MarkNeedsAttention, TypeOK
<1>4. CASE queue[i] # "none"
  <2>1. Held' = Held /\ Refused' = Refused \cup {i} /\ i \in Held
      BY <1>2, <1>3, <1>4 DEF Held, Refused
  <2>2. Delivery!Refuse(i)
      BY <1>3, <2>1 DEF Delivery!Refuse, Held, Refused
  <2>3. QED
      BY <1>2, <2>2 DEF Delivery!Next, Delivery!Refuse
<1>5. CASE queue[i] = "none"
  <2>1. Held' = Held /\ Refused' = Refused
      BY <1>2, <1>3, <1>5 DEF Held, Refused
  <2>2. QED
      BY <1>3, <2>1 DEF Delivery!vars, Held, Refused
<1>6. QED
    BY <1>4, <1>5

LEMMA DiscardDelivers == ASSUME IInv, NEW i \in Ids, Discard(i) PROVE Delivery!Next
<1>1. /\ \A j \in Ids : queue'[j] = IF j = i THEN "none" ELSE queue[j]
      /\ queue[i] = "needs_attention" /\ gone' = gone \cup {i} /\ recorded' = recorded
    BY DEF Discard, IInv, TypeOK
<1>2. Held' = Held \ {i} /\ Refused' = Refused \ {i} /\ i \in Held /\ i \in Refused
    BY <1>1 DEF Held, Refused
<1>3. Delivery!LetGo(i)
    BY <1>1, <1>2 DEF Delivery!LetGo, Held, Refused
<1>4. QED
    BY <1>3 DEF Delivery!Next

LEMMA RecordDelivers == ASSUME IInv, NEW c \in Callers, Record(c) PROVE Delivery!Next
<1>1. Item(c) \in Ids
    BY CallerItem DEF Record, IInv
<1>2. Delivery!Record(Item(c))
    BY DEF Record, Delivery!Record
<1>3. QED
    BY <1>1, <1>2 DEF Delivery!Next

LEMMA StrayArrivesDelivers ==
    ASSUME NEW i \in Ids, StrayArrives(i)
    PROVE  Delivery!Next \/ UNCHANGED Delivery!vars
<1>1. Delivery!Record(i) \/ UNCHANGED <<queue, gone, recorded>>
    BY DEF StrayArrives, Delivery!Record
<1>2. QED
    BY <1>1, NoDeliveryStep DEF Delivery!Next

LEMMA StepDelivers == IInv /\ [Next]_vars => [Delivery!Next]_(Delivery!vars)
<1> SUFFICES ASSUME IInv, [Next]_vars PROVE Delivery!Next \/ UNCHANGED Delivery!vars
    OBVIOUS
<1>1. CASE Finalize \/ TillAnswered \/ ClearCart \/ Disconnect \/ Reconnect \/ Load \/ Reload
    BY <1>1, NoDeliveryStep
    DEF Finalize, TillAnswered, ClearCart, Disconnect, Reconnect, Load, Reload
<1>2. CASE Enqueue
    BY <1>2, EnqueueDelivers
<1>3. ASSUME NEW f \in Flushes, StartFlush(f) \/ ListPending(f) \/ Send(f) \/ FlushAnswered(f)
      PROVE  UNCHANGED Delivery!vars
    BY <1>3, NoDeliveryStep DEF StartFlush, ListPending, Send, FlushAnswered
<1>4. ASSUME NEW c \in Callers, Refuse(c) \/ NetworkError(c) PROVE UNCHANGED Delivery!vars
    BY <1>4, NoDeliveryStep DEF Refuse, NetworkError
<1>5. CASE UNCHANGED vars
    BY <1>5, NoDeliveryStep DEF vars
<1>6. QED
    BY <1>1, <1>2, <1>3, <1>4, <1>5, RemoveSyncedDelivers, MarkNeedsAttentionDelivers,
       DiscardDelivers, RecordDelivers, StrayArrivesDelivers
    DEF Next, TillStep, FlushStep, Serve

\* The queue implements SaleDelivery: a sale saved on the device leaves it once
\* recorded or by the operator's discard of one shown as refused, and does not
\* come back, with any number of flushes at work on stale lists
\* (offline-sale-queue.ts:14-18).
THEOREM SpecImplementsSaleDelivery == Spec => ImplementsSaleDelivery
<1>1. Init => Delivery!Init
    BY DEF Init, Delivery!Init
<1>2. IInv /\ [Next]_vars => [Delivery!Next]_(Delivery!vars)
    BY StepDelivers
<1>3. QED
    BY <1>1, <1>2, SpecIInv, PTL DEF Spec, ImplementsSaleDelivery, Delivery!Spec
=============================================================================
