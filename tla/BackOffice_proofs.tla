-------------------------- MODULE BackOffice_proofs --------------------------
(***************************************************************************)
(* Theorems about BackOffice, in the order of its parts: Documents, for    *)
(* any requests, products, documents and stock; Registry, for any clerks,  *)
(* rows and SKUs; then the orders of the channel, the figures of the       *)
(* reports, and the back office as a whole, where documents, pulls,        *)
(* reports and registers interleave over the same stock.                   *)
(***************************************************************************)
EXTENDS BackOffice, SumTheorems

-----------------------------------------------------------------------------
(***************************************************************************)
(* Documents.                                                              *)
(***************************************************************************)

Row == OrderRow \cup CountRow \cup EntryRow

\* What EffectsMatchStatus says of a document with this row and these goods.
Effect(row, g) ==
    /\ row.kind = "order" =>
          g = IF row.status = "received" THEN [p \in Products |-> Received(row, p)] ELSE Zero
    /\ row.kind = "count" /\ row.status # "completed" => g = Zero
    /\ row.kind = "entry" => (row.paidAt <=> row.status = "paid")

\* TalliedRight and ArgRight after a step, of a count or a request as it is now.
TalliedRightAfter(row) ==
    \A p \in Products : row.counted[p] # NotCounted =>
        /\ row.at[p] <= shifts'[p]
        /\ row.at[p] = shifts'[p] => row.counted[p] = shelf'[p]

ArgRightAfter(arg) == /\ arg.at <= shifts'[arg.product]
                      /\ arg.at = shifts'[arg.product] => arg.units = shelf'[arg.product]

\* A product whose units change on the shelf has one more shift.
Moved == \A p \in Products : /\ shifts[p] <= shifts'[p]
                             /\ shifts'[p] = shifts[p] => shelf'[p] = shelf[p]

NumbersOK ==
    /\ goods \in [Docs -> [Products -> Int]]
    /\ stock \in [Products -> Nat] /\ cost \in [Products -> Nat]
    /\ shelf \in [Products -> Nat] /\ shifts \in [Products -> Nat]

\* A document has the fields of its kind.
LEMMA RowOfKind ==
    ASSUME DocTypeOK, NEW d \in Docs
    PROVE  /\ docs[d] = NoDoc \/ docs[d] \in Row
           /\ docs[d].kind = "order" => docs[d] \in OrderRow
           /\ docs[d].kind = "count" => docs[d] \in CountRow
           /\ docs[d].kind = "entry" => docs[d] \in EntryRow
           /\ docs[d].kind = "none" => docs[d] = NoDoc
<1>1. docs[d] \in {NoDoc} \cup OrderRow \cup CountRow \cup EntryRow
    BY DEF DocTypeOK
<1>2. NoDoc.kind = "none"
    BY DEF NoDoc
<1>3. /\ \A r \in OrderRow : r.kind = "order"
      /\ \A r \in CountRow : r.kind = "count"
      /\ \A r \in EntryRow : r.kind = "entry"
    BY DEF OrderRow, CountRow, EntryRow
<1>4. QED
    BY <1>1, <1>2, <1>3 DEF Row

LEMMA ZeroTyped == Zero \in [Products -> Nat] /\ Zero \in [Products -> Int]
BY DEF Zero

\* Posting movements in the name of d keeps the sums of all documents integers.
LEMMA PostTyped ==
    ASSUME goods \in [Docs -> [Products -> Int]], NEW d \in Docs,
           NEW f \in [Products -> Int],
           goods' = [goods EXCEPT ![d] = [p \in Products |-> goods[d][p] + f[p]]]
    PROVE  goods' \in [Docs -> [Products -> Int]]
<1> DEFINE g == [p \in Products |-> goods[d][p] + f[p]]
<1>1. goods[d] \in [Products -> Int]
    OBVIOUS
<1>2. \A p \in Products : goods[d][p] + f[p] \in Int
    BY <1>1
<1>3. g \in [Products -> Int]
    BY <1>2
<1>4. goods' = [goods EXCEPT ![d] = g]
    OBVIOUS
<1> HIDE DEF g
<1>5. QED
    BY <1>3, <1>4

LEMMA InitDocInv == DocInit => DocInv
<1> SUFFICES ASSUME DocInit PROVE DocInv
    OBVIOUS
<1>1. docs = [d \in Docs |-> NoDoc] /\ goods = [d \in Docs |-> Zero] /\ contested = {}
      /\ pc = [w \in Workers |-> "idle"]
    BY DEF DocInit
<1>2. \A d \in Docs : docs[d] = NoDoc /\ goods[d] = Zero /\ docs[d].kind = "none"
    BY <1>1 DEF NoDoc
<1>3. stock \in [Products -> Nat] /\ shelf = stock
    BY DocumentsAssumption DEF DocInit
<1>4. DocTypeOK
    BY <1>1, <1>3, ZeroTyped DEF DocInit, DocTypeOK
<1>5. EffectsMatchStatus
    BY <1>2 DEF EffectsMatchStatus
<1>6. QED
    BY <1>1, <1>2, <1>4, <1>5 DEF DocInv


-----------------------------------------------------------------------------
LEMMA TalliedStays ==
    ASSUME Moved, NumbersOK, NumbersOK', NEW row \in CountRow, TalliedRight(row)
    PROVE  TalliedRightAfter(row)
<1>1. \A p \in Products : shifts[p] \in Nat /\ shifts'[p] \in Nat /\ row.at[p] \in Nat
    BY DEF NumbersOK, CountRow
<1>2. QED
    BY <1>1 DEF Moved, TalliedRight, TalliedRightAfter

LEMMA ArgStays ==
    ASSUME Moved, NumbersOK, NumbersOK', NEW arg, arg.product \in Products, arg.at \in Nat,
           ArgRight(arg)
    PROVE  ArgRightAfter(arg)
<1>1. shifts[arg.product] \in Nat /\ shifts'[arg.product] \in Nat
    BY DEF NumbersOK
<1>2. QED
    BY <1>1 DEF Moved, ArgRight, ArgRightAfter

\* A request past its check, with what DocInv says of it.
LEMMA RequestFacts ==
    ASSUME DocInv, NEW w \in Workers, pc[w] = "write"
    PROVE  /\ RequestOK(w) /\ req[w].doc \in Docs
           /\ docs[req[w].doc].kind = KindOf(req[w].op)
           /\ docs[req[w].doc] \in Row
           /\ docs[req[w].doc] # NoDoc
           /\ IsOpen(docs[req[w].doc]) \/ req[w].doc \in contested
<1>1. DocTypeOK /\ RequestOK(w)
    BY DEF DocInv, DocTypeOK
<1>2. req[w].doc \in Docs /\ docs[req[w].doc].kind = KindOf(req[w].op)
    BY <1>1 DEF RequestOK
<1>3. docs[req[w].doc] # NoDoc
    BY <1>2 DEF KindOf, NoDoc
<1>4. QED
    BY <1>1, <1>2, <1>3, RowOfKind DEF DocInv

\* The request of w ends with `row` written: what is left to show is of the row.
LEMMA WriteDocInv ==
    ASSUME DocInv, NEW w \in Workers, pc[w] = "write",
           NEW row \in Row, Write(w, row),
           row.kind = docs[req[w].doc].kind,
           row.kind = "order" => /\ row.qty = docs[req[w].doc].qty
                                 /\ row.cost = docs[req[w].doc].cost,
           NumbersOK', Moved,
           \A e \in Docs \ {req[w].doc} : goods'[e] = goods[e],
           req[w].doc \notin contested' => Effect(row, goods'[req[w].doc]),
           row.kind = "count" => TalliedRightAfter(row)
    PROVE  DocInv'
<1> DEFINE d == req[w].doc
<1>1. d \in Docs /\ docs[d] \in Row /\ docs[d] # NoDoc /\ DocTypeOK
    BY RequestFacts DEF DocInv
<1>2. NumbersOK
    BY <1>1 DEF DocTypeOK, NumbersOK
<1>3. /\ docs' = [docs EXCEPT ![d] = row] /\ pc' = [pc EXCEPT ![w] = "idle"]
      /\ req' = [req EXCEPT ![w] = NoRequest] /\ active' = active
      /\ contested' = IF ~ IsOpen(row) /\ PastCheck(w, d) THEN contested \cup {d} ELSE contested
    BY DEF Write
<1>4. /\ docs'[d] = row /\ \A e \in Docs \ {d} : docs'[e] = docs[e]
      /\ pc'[w] = "idle"
      /\ contested \subseteq contested' /\ contested' \subseteq contested \cup {d}
    BY <1>1, <1>3 DEF DocTypeOK
<1>5. row # NoDoc
    BY DEF Row, OrderRow, CountRow, EntryRow, NoDoc
<1>6. ASSUME NEW v \in Workers, pc'[v] = "write"
      PROVE  pc[v] = "write" /\ req'[v] = req[v] /\ v # w /\ req[v].doc \in Docs /\ RequestOK(v)
  <2>1. v # w
      BY <1>4, <1>6
  <2>2. pc[v] = "write"
      BY <1>1, <1>3, <1>6, <2>1 DEF DocTypeOK
  <2>3. req'[v] = req[v]
      BY <1>1, <1>3, <2>1 DEF DocTypeOK
  <2>4. QED
      BY <2>1, <2>2, <2>3, RequestFacts
<1>7. DocTypeOK'
  <2>1. docs' \in [Docs -> {NoDoc} \cup OrderRow \cup CountRow \cup EntryRow]
      BY <1>1, <1>3 DEF DocTypeOK, Row
  <2>2. contested' \subseteq Docs /\ pc' \in [Workers -> {"idle", "write"}]
        /\ active' \in [Products -> BOOLEAN] /\ DOMAIN req' = Workers
      BY <1>1, <1>3 DEF DocTypeOK
  <2>3. ASSUME NEW v \in Workers, pc'[v] = "write" PROVE RequestOK(v)'
    <3>1. req'[v] = req[v] /\ RequestOK(v) /\ req[v].doc \in Docs
        BY <1>6, <2>3
    <3>2. /\ docs'[req[v].doc].kind = docs[req[v].doc].kind
          /\ docs[req[v].doc].kind = "order" =>
                /\ docs'[req[v].doc].qty = docs[req[v].doc].qty
                /\ docs'[req[v].doc].cost = docs[req[v].doc].cost
        BY <1>4, <3>1
    <3>3. req[v].op = "receive" => docs[req[v].doc].kind = "order"
        BY <3>1 DEF RequestOK, KindOf, OrderOps
    <3>4. QED
        BY <3>1, <3>2, <3>3 DEF RequestOK
  <2>4. QED
      BY <2>1, <2>2, <2>3 DEF DocTypeOK, NumbersOK
<1>8. EffectsMatchStatus'
  <2>1. ASSUME NEW e \in Docs, e \notin contested' PROVE Effect(docs'[e], goods'[e])
    <3>1. CASE e = d
        BY <1>4, <2>1, <3>1
    <3>2. CASE e # d
      <4>1. docs'[e] = docs[e] /\ goods'[e] = goods[e] /\ e \notin contested
          BY <1>4, <2>1, <3>2
      <4>2. Effect(docs[e], goods[e])
          BY <4>1 DEF DocInv, EffectsMatchStatus, Effect
      <4>3. QED
          BY <4>1, <4>2
    <3>3. QED
        BY <3>1, <3>2
  <2>2. QED
      BY <2>1 DEF EffectsMatchStatus, Effect, Received, Zero
<1>9. \A e \in Docs : docs'[e] = NoDoc => goods'[e] = Zero' /\ e \notin contested'
    BY <1>4, <1>5 DEF DocInv, Zero
<1>10. ASSUME NEW v \in Workers, pc'[v] = "write"
       PROVE  IsOpen(docs'[req'[v].doc]) \/ req'[v].doc \in contested'
  <2>1. pc[v] = "write" /\ req'[v] = req[v] /\ v # w /\ req[v].doc \in Docs
        /\ (IsOpen(docs[req[v].doc]) \/ req[v].doc \in contested)
      BY <1>6, <1>10, RequestFacts
  <2>2. CASE req[v].doc = d
      BY <1>3, <1>4, <2>1, <2>2 DEF PastCheck
  <2>3. CASE req[v].doc # d
      BY <1>4, <2>1, <2>3
  <2>4. QED
      BY <2>2, <2>3
<1>11. \A e \in Docs : docs'[e].kind = "count" => TalliedRightAfter(docs'[e])
  <2>1. ASSUME NEW e \in Docs, e # d, docs[e].kind = "count" PROVE TalliedRightAfter(docs[e])
      BY <1>1, <1>2, <2>1, RowOfKind, TalliedStays DEF DocInv
  <2>2. QED
      BY <1>4, <2>1
<1>12. ASSUME NEW v \in Workers, pc'[v] = "write"
       PROVE  /\ req'[v].op = "finalize" => TalliedRightAfter(req'[v].seen)
              /\ req'[v].op = "tally" => ArgRightAfter(req'[v].arg)
  <2>1. pc[v] = "write" /\ req'[v] = req[v] /\ RequestOK(v)
      BY <1>6, <1>12
  <2>2. req[v].op = "finalize" => TalliedRightAfter(req[v].seen)
      BY <1>2, <2>1, TalliedStays DEF DocInv, RequestOK
  <2>3. req[v].op = "tally" => ArgRightAfter(req[v].arg)
      BY <1>2, <2>1, ArgStays DEF DocInv, RequestOK
  <2>4. QED
      BY <2>1, <2>2, <2>3
<1>13. QED
    BY <1>7, <1>8, <1>9, <1>10, <1>11, <1>12
    DEF DocInv, IsOpen, TalliedRight, TalliedRightAfter, ArgRight, ArgRightAfter

-----------------------------------------------------------------------------
\* What a step that leaves the documents and the goods alone has to keep.
LEMMA FrameDocInv ==
    ASSUME DocInv, UNCHANGED <<docs, goods, contested>>, DocTypeOK', Moved,
           \A w \in Workers : pc'[w] = "write" =>
              \/ pc[w] = "write" /\ req'[w] = req[w]
              \/ /\ IsOpen(docs[req'[w].doc])
                 /\ req'[w].op = "finalize" => req'[w].seen = docs[req'[w].doc]
                 /\ req'[w].op = "tally" => ArgRightAfter(req'[w].arg)
    PROVE  DocInv'
<1>1. DocTypeOK /\ NumbersOK /\ NumbersOK'
    BY DEF DocInv, DocTypeOK, NumbersOK
<1>2. EffectsMatchStatus'
    BY DEF DocInv, EffectsMatchStatus, Received, Zero
<1>3. \A d \in Docs : docs'[d] = NoDoc => goods'[d] = Zero' /\ d \notin contested'
    BY DEF DocInv, Zero
<1>4. \A w \in Workers : pc'[w] = "write" => IsOpen(docs'[req'[w].doc]) \/ req'[w].doc \in contested'
    BY DEF DocInv, IsOpen
<1>5. \A d \in Docs : docs[d].kind = "count" => TalliedRightAfter(docs[d])
    BY <1>1, RowOfKind, TalliedStays DEF DocInv
<1>6. ASSUME NEW w \in Workers, pc'[w] = "write"
      PROVE  /\ req'[w].op = "finalize" => TalliedRightAfter(req'[w].seen)
             /\ req'[w].op = "tally" => ArgRightAfter(req'[w].arg)
  <2>1. CASE pc[w] = "write" /\ req'[w] = req[w]
    <3>1. RequestOK(w)
        BY <2>1, RequestFacts
    <3>2. req[w].op = "finalize" => TalliedRightAfter(req[w].seen)
        BY <1>1, <2>1, <3>1, TalliedStays DEF DocInv, RequestOK
    <3>3. req[w].op = "tally" => ArgRightAfter(req[w].arg)
        BY <1>1, <2>1, <3>1, ArgStays DEF DocInv, RequestOK
    <3>4. QED
        BY <2>1, <3>2, <3>3
  <2>2. CASE /\ req'[w].op = "finalize" => req'[w].seen = docs[req'[w].doc]
             /\ req'[w].op = "tally" => ArgRightAfter(req'[w].arg)
    <3>1. req'[w].op = "finalize" => docs[req'[w].doc].kind = "count" /\ req'[w].doc \in Docs
        BY <1>6 DEF DocTypeOK, RequestOK, KindOf, CountOps, OrderOps
    <3>2. QED
        BY <1>5, <2>2, <3>1
  <2>3. QED
      BY <1>6, <2>1, <2>2
<1>7. QED
    BY <1>2, <1>3, <1>4, <1>5, <1>6
    DEF DocInv, IsOpen, TalliedRight, TalliedRightAfter, ArgRight, ArgRightAfter

\* A request that passes its check keeps what it read.
LEMMA CheckDocInv ==
    ASSUME DocInv, NEW w \in Workers, NEW op \in Ops, NEW d \in Docs, NEW arg, Check(w, op, d, arg),
           op = "tally" => arg.product \in Products /\ arg = Tallied(arg.product),
           op = "edit" => arg \in Edits
    PROVE  DocInv'
<1>1. DocTypeOK /\ docs[d].kind = KindOf(op) /\ IsOpen(docs[d])
    BY DEF DocInv, Check
<1>2. /\ pc' = [pc EXCEPT ![w] = "write"]
      /\ req' = [req EXCEPT ![w] = [op |-> op, doc |-> d, arg |-> arg, seen |-> Kept(op, docs[d])]]
      /\ UNCHANGED <<agenda, docs, goods, stock, cost, active, shelf, shifts, contested>>
    BY DEF Check
<1>3. req'[w] = [op |-> op, doc |-> d, arg |-> arg, seen |-> Kept(op, docs[d])]
      /\ \A v \in Workers \ {w} : req'[v] = req[v] /\ pc'[v] = pc[v]
    BY <1>1, <1>2 DEF DocTypeOK
<1>4. op = "tally" => arg.units = shelf[arg.product] /\ arg.at = shifts[arg.product]
    BY DEF Tallied
<1>5. RequestOK(w)'
  <2>1. op = "receive" => docs[d] \in OrderRow
      BY <1>1, RowOfKind DEF KindOf, OrderOps
  <2>2. op = "finalize" => docs[d] \in CountRow
      BY <1>1, RowOfKind DEF KindOf, OrderOps, CountOps
  <2>3. op = "tally" => arg.units \in Nat /\ arg.at \in Nat
      BY <1>1, <1>4 DEF DocTypeOK
  <2>4. QED
      BY <1>1, <1>2, <1>3, <2>1, <2>2, <2>3 DEF RequestOK, Kept
<1>6. \A v \in Workers \ {w} : pc'[v] = "write" => RequestOK(v)'
    BY <1>1, <1>2, <1>3 DEF DocTypeOK, RequestOK
<1>7. DocTypeOK'
    BY <1>1, <1>2, <1>5, <1>6 DEF DocTypeOK
<1>8. Moved
    BY <1>1, <1>2 DEF Moved, DocTypeOK
<1>9. /\ op = "finalize" => req'[w].seen = docs[d]
      /\ op = "tally" => ArgRightAfter(req'[w].arg)
    BY <1>1, <1>2, <1>3, <1>4 DEF Kept, ArgRightAfter, DocTypeOK
<1>10. QED
    BY <1>1, <1>2, <1>3, <1>7, <1>8, <1>9, FrameDocInv

LEMMA FailDocInv ==
    ASSUME DocInv, NEW w \in Workers, Fail(w)
    PROVE  DocInv'
<1>1. DocTypeOK
    BY DEF DocInv
<1>2. /\ pc' = [pc EXCEPT ![w] = "idle"] /\ req' = [req EXCEPT ![w] = NoRequest]
      /\ UNCHANGED <<agenda, docs, goods, stock, cost, active, shelf, shifts, contested>>
    BY DEF Fail
<1>3. \A v \in Workers : pc'[v] = "write" => pc[v] = "write" /\ req'[v] = req[v]
    BY <1>1, <1>2 DEF DocTypeOK
<1>4. \A v \in Workers : pc'[v] = "write" => RequestOK(v)'
    BY <1>1, <1>2, <1>3 DEF DocTypeOK, RequestOK
<1>5. DocTypeOK'
    BY <1>1, <1>2, <1>4 DEF DocTypeOK
<1>6. Moved
    BY <1>1, <1>2 DEF Moved, DocTypeOK
<1>7. QED
    BY <1>2, <1>3, <1>5, <1>6, FrameDocInv

LEMMA ShiftDocInv ==
    ASSUME DocInv, NEW p \in Tracked, Shift(p) \/ SwitchProduct(p)
    PROVE  DocInv'
<1>1. DocTypeOK /\ p \in Products
    BY DocumentsAssumption DEF DocInv
<1>2. UNCHANGED <<agenda, docs, goods, cost, pc, req, contested>>
    BY DEF Shift, SwitchProduct, flight
<1>3. /\ shelf' \in [Products -> Nat] /\ shifts' \in [Products -> Nat]
      /\ stock' \in [Products -> Nat] /\ active' \in [Products -> BOOLEAN] /\ Moved
  <2>1. CASE Shift(p)
    <3>1. /\ shelf[p] > 0 /\ shelf' = [shelf EXCEPT ![p] = @ - 1]
          /\ shifts' = [shifts EXCEPT ![p] = @ + 1]
          /\ (stock[p] > 0 /\ stock' = [stock EXCEPT ![p] = @ - 1]) \/ stock' = stock
          /\ active' = active
        BY <2>1 DEF Shift
    <3>2. shelf[p] \in Nat /\ stock[p] \in Nat /\ shifts[p] \in Nat
        BY <1>1 DEF DocTypeOK
    <3>3. shelf' \in [Products -> Nat] /\ shifts' \in [Products -> Nat]
          /\ stock' \in [Products -> Nat] /\ active' \in [Products -> BOOLEAN]
        BY <1>1, <3>1, <3>2 DEF DocTypeOK
    <3>4. Moved
        BY <1>1, <3>1 DEF DocTypeOK, Moved
    <3>5. QED
        BY <3>3, <3>4
  <2>2. CASE SwitchProduct(p)
      BY <1>1, <2>2 DEF SwitchProduct, DocTypeOK, Moved
  <2>3. QED
      BY <2>1, <2>2
<1>4. \A w \in Workers : pc'[w] = "write" => RequestOK(w)'
    BY <1>1, <1>2 DEF DocTypeOK, RequestOK
<1>5. DocTypeOK'
    BY <1>1, <1>2, <1>3, <1>4 DEF DocTypeOK
<1>6. QED
    BY <1>2, <1>3, <1>5, FrameDocInv

-----------------------------------------------------------------------------
\* A new document, with its first status and nothing done yet.
LEMMA InsertDocInv ==
    ASSUME DocInv, NEW row \in Row, Insert(row), IsOpen(row),
           row.kind = "entry" => ~ row.paidAt,
           row.kind = "count" => TalliedRight(row)
    PROVE  DocInv'
<1> DEFINE d == FreshDoc
<1>1. DocTypeOK
    BY DEF DocInv
<1>2. d \in Docs /\ docs[d] = NoDoc /\ docs' = [docs EXCEPT ![d] = row]
      /\ UNCHANGED <<agenda, goods, stock, cost, active, pc, req, shelf, shifts, contested>>
    BY DEF Insert, FreshDoc, flight
<1>3. docs'[d] = row /\ \A e \in Docs \ {d} : docs'[e] = docs[e]
    BY <1>1, <1>2 DEF DocTypeOK
<1>4. goods[d] = Zero /\ d \notin contested
    BY <1>2 DEF DocInv
<1>5. \A w \in Workers : pc[w] = "write" => RequestOK(w) /\ req[w].doc \in Docs /\ req[w].doc # d
    BY <1>2, RequestFacts
<1>6. row.status \notin {"received", "completed", "paid"}
    BY DEF IsOpen, Opens, Row, OrderRow, CountRow, EntryRow
<1>7. DocTypeOK'
  <2>1. docs' \in [Docs -> {NoDoc} \cup OrderRow \cup CountRow \cup EntryRow]
      BY <1>1, <1>2 DEF DocTypeOK, Row
  <2>2. \A w \in Workers : pc'[w] = "write" => RequestOK(w)'
      BY <1>2, <1>3, <1>5 DEF RequestOK
  <2>3. QED
      BY <1>1, <1>2, <2>1, <2>2 DEF DocTypeOK
<1>8. EffectsMatchStatus'
  <2>1. Effect(row, Zero)
      BY <1>6 DEF Effect, Row, OrderRow, CountRow, EntryRow
  <2>2. ASSUME NEW e \in Docs, e \notin contested PROVE Effect(docs'[e], goods[e])
      BY <1>3, <1>4, <2>1, <2>2 DEF DocInv, EffectsMatchStatus, Effect
  <2>3. QED
      BY <1>2, <2>2 DEF EffectsMatchStatus, Effect, Received, Zero
<1>9. \A e \in Docs : docs'[e] = NoDoc => goods'[e] = Zero' /\ e \notin contested'
    BY <1>2, <1>3, <1>4 DEF DocInv, Zero
<1>10. \A w \in Workers : pc'[w] = "write" => IsOpen(docs'[req'[w].doc]) \/ req'[w].doc \in contested'
    BY <1>2, <1>3, <1>5 DEF DocInv
<1>11. \A e \in Docs : docs'[e].kind = "count" => TalliedRight(docs'[e])
    BY <1>3 DEF DocInv
<1>12. QED
    BY <1>2, <1>7, <1>8, <1>9, <1>10, <1>11 DEF DocInv, IsOpen, TalliedRight, ArgRight

LEMMA CreateDocInv ==
    ASSUME DocInv, CreateOrder \/ CreateCount \/ CreateEntry
    PROVE  DocInv'
<1>1. CASE CreateOrder
  <2>1. PICK o \in Orders : Insert([kind |-> "order", status |-> "draft",
                                    qty |-> o.qty, cost |-> o.cost])
      BY <1>1 DEF CreateOrder
  <2> DEFINE row == [kind |-> "order", status |-> "draft", qty |-> o.qty, cost |-> o.cost]
  <2>2. o \in Order
      BY DocumentsAssumption
  <2>3. row \in Row /\ IsOpen(row) /\ row.kind = "order"
      BY <2>2 DEF Order, Row, OrderRow, IsOpen, Opens
  <2>4. QED
      BY <2>1, <2>3, InsertDocInv
<1>2. CASE CreateCount
  <2> DEFINE row == [kind |-> "count", status |-> "open",
                     expected |-> [p \in Products |-> IF p \in Tracked /\ active[p]
                                                   THEN stock[p] ELSE NotListed],
                     counted |-> [p \in Products |-> NotCounted],
                     at |-> Zero]
  <2>1. Insert(row)
      BY <1>2 DEF CreateCount
  <2>2. row.expected \in [Products -> Nat \cup {NotListed}]
        /\ row.counted \in [Products -> Nat \cup {NotCounted}] /\ row.at \in [Products -> Nat]
      BY ZeroTyped DEF DocInv, DocTypeOK
  <2>3. row \in Row /\ IsOpen(row) /\ row.kind = "count"
      BY <2>2 DEF Row, CountRow, IsOpen, Opens
  <2>4. TalliedRight(row)
      BY DEF TalliedRight
  <2>5. QED
      BY <2>1, <2>3, <2>4, InsertDocInv
<1>3. CASE CreateEntry
  <2>1. PICK e \in Entries :
           Insert([kind |-> "entry", status |-> "pending", paidAt |-> FALSE,
                   type |-> e.type, amount |-> e.amount, due |-> e.due,
                   customer |-> e.customer, supplier |-> e.supplier, center |-> e.center])
      BY <1>3 DEF CreateEntry
  <2> DEFINE row == [kind |-> "entry", status |-> "pending", paidAt |-> FALSE,
                     type |-> e.type, amount |-> e.amount, due |-> e.due,
                     customer |-> e.customer, supplier |-> e.supplier, center |-> e.center]
  <2>2. e \in Entry
      BY DocumentsAssumption
  <2>3. row \in Row /\ IsOpen(row) /\ row.kind = "entry" /\ ~ row.paidAt
      BY <2>2 DEF Entry, Row, EntryRow, IsOpen, Opens
  <2>4. QED
      BY <2>1, <2>3, InsertDocInv
<1>4. QED
    BY <1>1, <1>2, <1>3

-----------------------------------------------------------------------------
\* A row with another status is one of its kind.
LEMMA StatusSet ==
    ASSUME NEW row \in Row, NEW s,
           row.kind = "order" => s \in {"received", "canceled"},
           row.kind = "count" => s \in {"completed", "canceled"},
           row.kind = "entry" => s \in {"paid", "canceled"}
    PROVE  LET new == [row EXCEPT !.status = s] IN
           /\ new \in Row /\ new.kind = row.kind /\ new.status = s
           /\ row.kind = "order" => new.qty = row.qty /\ new.cost = row.cost
           /\ row.kind = "count" => new.counted = row.counted /\ new.at = row.at
           /\ row.kind = "entry" => new.paidAt = row.paidAt
<1>1. CASE row \in OrderRow
    BY <1>1 DEF Row, OrderRow
<1>2. CASE row \in CountRow
    BY <1>2 DEF Row, CountRow
<1>3. CASE row \in EntryRow
    BY <1>3 DEF Row, EntryRow
<1>4. QED
    BY <1>1, <1>2, <1>3 DEF Row

LEMMA ReceiveDocInv ==
    ASSUME DocInv, NEW w \in Workers, Receive(w)
    PROVE  DocInv'
<1> DEFINE d == req[w].doc
           order == req[w].seen
           new == [docs[d] EXCEPT !.status = "received"]
<1>1. DocTypeOK /\ pc[w] = "write" /\ req[w].op = "receive"
    BY DEF DocInv, Receive, At
<1>2. d \in Docs /\ docs[d].kind = "order" /\ docs[d] \in Row /\ RequestOK(w)
      /\ (IsOpen(docs[d]) \/ d \in contested)
    BY <1>1, RequestFacts DEF KindOf, OrderOps
<1>3. docs[d] \in OrderRow /\ order \in OrderRow /\ order.qty = docs[d].qty
    BY <1>1, <1>2, RowOfKind DEF RequestOK
<1>4. new \in Row /\ new.kind = "order" /\ new.status = "received" /\ new.qty = docs[d].qty
      /\ new.cost = docs[d].cost
    BY <1>2, StatusSet
<1>5. Write(w, new)
    BY DEF Receive, SetStatus
<1>6. \A p \in Products : Received(order, p) \in Nat /\ Received(new, p) = Received(order, p)
    BY <1>3, <1>4 DEF Received, OrderRow
<1>7. /\ stock' = [p \in Products |-> stock[p] + Received(order, p)]
      /\ goods' = [goods EXCEPT ![d] = [p \in Products |-> goods[d][p] + Received(order, p)]]
      /\ cost' = [p \in Products |-> IF order.qty[p] > 0 THEN order.cost[p] ELSE cost[p]]
      /\ \/ /\ shelf' = [p \in Products |-> shelf[p] + Received(order, p)]
            /\ shifts' = [p \in Products |-> shifts[p] + (IF Received(order, p) > 0 THEN 1 ELSE 0)]
         \/ UNCHANGED <<shelf, shifts>>
    BY DEF Receive
<1>8. goods[d] \in [Products -> Int] /\ \A p \in Products : goods[d][p] \in Int
    BY <1>1, <1>2 DEF DocTypeOK
<1>9. NumbersOK' /\ Moved
  <2>1. goods' \in [Docs -> [Products -> Int]]
    <3> DEFINE f == [p \in Products |-> Received(order, p)]
    <3>1. f \in [Products -> Int] /\ \A p \in Products : f[p] = Received(order, p)
        BY <1>6
    <3>2. goods' = [goods EXCEPT ![d] = [p \in Products |-> goods[d][p] + f[p]]]
        BY <1>7, <3>1
    <3> HIDE DEF f
    <3>3. QED
        BY <1>1, <1>2, <3>1, <3>2, PostTyped DEF DocTypeOK
  <2>2. stock' \in [Products -> Nat] /\ cost' \in [Products -> Nat]
      BY <1>1, <1>3, <1>6, <1>7 DEF DocTypeOK, OrderRow
  <2>3. shelf' \in [Products -> Nat] /\ shifts' \in [Products -> Nat] /\ Moved
    <3>1. CASE UNCHANGED <<shelf, shifts>>
        BY <1>1, <3>1 DEF DocTypeOK, Moved
    <3>2. CASE /\ shelf' = [p \in Products |-> shelf[p] + Received(order, p)]
               /\ shifts' = [p \in Products |-> shifts[p] + (IF Received(order, p) > 0 THEN 1 ELSE 0)]
        BY <1>1, <1>6, <3>2 DEF DocTypeOK, Moved
    <3>3. QED
        BY <1>7, <3>1, <3>2
  <2>4. QED
      BY <2>1, <2>2, <2>3 DEF NumbersOK
<1>10. \A e \in Docs \ {d} : goods'[e] = goods[e]
    BY <1>1, <1>7 DEF DocTypeOK
<1>11. ASSUME d \notin contested' PROVE Effect(new, goods'[d])
  <2>1. d \notin contested /\ docs[d].status = "draft"
      BY <1>2, <1>5, <1>11 DEF Write, IsOpen, Opens
  <2>2. goods[d] = Zero
      BY <1>2, <2>1 DEF DocInv, EffectsMatchStatus
  <2>3. goods'[d] = [p \in Products |-> Received(new, p)]
      BY <1>1, <1>2, <1>6, <1>7, <2>2 DEF DocTypeOK, Zero
  <2>4. QED
      BY <1>4, <2>3 DEF Effect
<1>12. QED
    BY <1>1, <1>2, <1>4, <1>5, <1>9, <1>10, <1>11, WriteDocInv

LEMMA TallyDocInv ==
    ASSUME DocInv, NEW w \in Workers, Tally(w)
    PROVE  DocInv'
<1> DEFINE d == req[w].doc
           arg == req[w].arg
           new == [docs[d] EXCEPT !.counted[arg.product] = arg.units, !.at[arg.product] = arg.at]
<1>1. DocTypeOK /\ pc[w] = "write" /\ req[w].op = "tally" /\ Write(w, new)
      /\ UNCHANGED <<goods, stock, cost, shelf, shifts>>
    BY DEF DocInv, Tally, At
<1>2. d \in Docs /\ docs[d].kind = "count" /\ docs[d] \in CountRow
      /\ arg.product \in Products /\ arg.units \in Nat /\ arg.at \in Nat /\ ArgRight(arg)
    BY <1>1, RequestFacts, RowOfKind DEF RequestOK, KindOf, OrderOps, CountOps, DocInv
<1>3. /\ new \in CountRow /\ new.kind = "count" /\ new.status = docs[d].status
      /\ new.counted = [docs[d].counted EXCEPT ![arg.product] = arg.units]
      /\ new.at = [docs[d].at EXCEPT ![arg.product] = arg.at]
    BY <1>2 DEF CountRow
<1>4. NumbersOK' /\ Moved
    BY <1>1 DEF NumbersOK, Moved, DocTypeOK
<1>5. d \notin contested' => Effect(new, goods'[d])
    BY <1>1, <1>2, <1>3 DEF Write, DocInv, EffectsMatchStatus, Effect
<1>6. TalliedRightAfter(new)
  <2>1. TalliedRight(docs[d])
      BY <1>2 DEF DocInv
  <2>2. QED
      BY <1>1, <1>2, <1>3, <2>1 DEF TalliedRight, TalliedRightAfter, ArgRight, CountRow
<1>7. QED
    BY <1>1, <1>2, <1>3, <1>4, <1>5, <1>6, WriteDocInv DEF Row

LEMMA FinalizeDocInv ==
    ASSUME DocInv, NEW w \in Workers, Finalize(w)
    PROVE  DocInv'
<1> DEFINE d == req[w].doc
           seen == req[w].seen
           new == [docs[d] EXCEPT !.status = "completed"]
<1>1. DocTypeOK /\ pc[w] = "write" /\ req[w].op = "finalize" /\ Write(w, new)
      /\ UNCHANGED <<cost, shelf, shifts>>
    BY DEF DocInv, Finalize, At, SetStatus
<1>2. d \in Docs /\ docs[d].kind = "count" /\ docs[d] \in CountRow /\ docs[d] \in Row
      /\ seen \in CountRow
    BY <1>1, RequestFacts, RowOfKind DEF RequestOK, KindOf, OrderOps, CountOps
<1>3. /\ new \in Row /\ new.kind = "count" /\ new.status = "completed"
      /\ new.counted = docs[d].counted /\ new.at = docs[d].at
    BY <1>2, StatusSet
<1>4. \A p \in Products : Adjustment(seen, p) \in Int /\ stock[p] + Adjustment(seen, p) >= 0
    BY <1>1, <1>2 DEF Finalize, Adjustment, CountRow, DocTypeOK
<1>5. /\ stock' = [p \in Products |-> stock[p] + Adjustment(seen, p)]
      /\ goods' = [goods EXCEPT ![d] = [p \in Products |-> goods[d][p] + Adjustment(seen, p)]]
    BY DEF Finalize
<1>6. NumbersOK' /\ Moved
  <2>1. goods[d] \in [Products -> Int] /\ \A p \in Products : stock[p] \in Nat
      BY <1>1, <1>2 DEF DocTypeOK
  <2>2. goods' \in [Docs -> [Products -> Int]]
    <3> DEFINE f == [p \in Products |-> Adjustment(seen, p)]
    <3>1. f \in [Products -> Int] /\ \A p \in Products : f[p] = Adjustment(seen, p)
        BY <1>4
    <3>2. goods' = [goods EXCEPT ![d] = [p \in Products |-> goods[d][p] + f[p]]]
        BY <1>5, <3>1
    <3> HIDE DEF f
    <3>3. QED
        BY <1>1, <1>2, <3>1, <3>2, PostTyped DEF DocTypeOK
  <2>3. stock' \in [Products -> Nat]
      BY <1>4, <1>5, <2>1
  <2>4. QED
      BY <1>1, <2>2, <2>3 DEF NumbersOK, Moved, DocTypeOK
<1>7. \A e \in Docs \ {d} : goods'[e] = goods[e]
    BY <1>1, <1>5 DEF DocTypeOK
<1>8. Effect(new, goods'[d])
    BY <1>3 DEF Effect
<1>9. TalliedRightAfter(new)
    BY <1>1, <1>2, <1>3 DEF DocInv, TalliedRight, TalliedRightAfter
<1>10. QED
    BY <1>1, <1>2, <1>3, <1>6, <1>7, <1>8, <1>9, WriteDocInv

LEMMA EditDocInv ==
    ASSUME DocInv, NEW w \in Workers, Edit(w)
    PROVE  DocInv'
<1> DEFINE d == req[w].doc
           body == req[w].arg
           new == Patched(docs[d], body)
<1>1. DocTypeOK /\ pc[w] = "write" /\ req[w].op = "edit" /\ Write(w, new)
      /\ UNCHANGED <<goods, stock, cost, shelf, shifts>>
    BY DEF DocInv, Edit, At
<1>2. d \in Docs /\ docs[d].kind = "entry" /\ docs[d] \in EntryRow /\ body \in Edits
    BY <1>1, RequestFacts, RowOfKind DEF RequestOK, KindOf, OrderOps, CountOps
<1>3. /\ Given(body, "type", docs[d].type) \in {"payable", "receivable"}
      /\ Given(body, "amount", docs[d].amount) \in Nat
      /\ Given(body, "due", docs[d].due) \in Nat
      /\ Given(body, "customer", docs[d].customer) \in Parties \cup {NoParty}
      /\ Given(body, "supplier", docs[d].supplier) \in Parties \cup {NoParty}
      /\ Given(body, "center", docs[d].center) \in Centers \cup {NoCenter}
    BY <1>2, DocumentsAssumption DEF Given, EntryRow
<1>4. new \in EntryRow /\ new.kind = "entry" /\ new.status = docs[d].status
      /\ new.paidAt = docs[d].paidAt
    BY <1>2, <1>3 DEF Patched, EntryRow
<1>5. NumbersOK' /\ Moved
    BY <1>1 DEF NumbersOK, Moved, DocTypeOK
<1>6. d \notin contested' => Effect(new, goods'[d])
    BY <1>1, <1>2, <1>4 DEF Write, DocInv, EffectsMatchStatus, Effect
<1>7. QED
    BY <1>1, <1>2, <1>4, <1>5, <1>6, WriteDocInv DEF Row

LEMMA PayDocInv ==
    ASSUME DocInv, NEW w \in Workers, Pay(w)
    PROVE  DocInv'
<1> DEFINE d == req[w].doc
           new == [docs[d] EXCEPT !.status = "paid", !.paidAt = TRUE]
<1>1. DocTypeOK /\ pc[w] = "write" /\ req[w].op = "pay" /\ Write(w, new)
      /\ UNCHANGED <<goods, stock, cost, shelf, shifts>>
    BY DEF DocInv, Pay, At
<1>2. d \in Docs /\ docs[d].kind = "entry" /\ docs[d] \in EntryRow
    BY <1>1, RequestFacts, RowOfKind DEF RequestOK, KindOf, OrderOps, CountOps
<1>3. new \in EntryRow /\ new.kind = "entry" /\ new.status = "paid" /\ new.paidAt = TRUE
    BY <1>2 DEF EntryRow
<1>4. NumbersOK' /\ Moved
    BY <1>1 DEF NumbersOK, Moved, DocTypeOK
<1>5. Effect(new, goods'[d])
    BY <1>3 DEF Effect
<1>6. QED
    BY <1>1, <1>2, <1>3, <1>4, <1>5, WriteDocInv DEF Row

LEMMA CancelDocInv ==
    ASSUME DocInv, NEW w \in Workers, NEW op \in {"cancelOrder", "cancelCount", "cancelEntry"},
           Cancel(w, op)
    PROVE  DocInv'
<1> DEFINE d == req[w].doc
           new == [docs[d] EXCEPT !.status = "canceled"]
<1>1. DocTypeOK /\ pc[w] = "write" /\ req[w].op = op /\ Write(w, new)
      /\ UNCHANGED <<goods, stock, cost, shelf, shifts>>
    BY DEF DocInv, Cancel, At, SetStatus
<1>2. d \in Docs /\ docs[d] \in Row /\ (IsOpen(docs[d]) \/ d \in contested)
    BY <1>1, RequestFacts
<1>3. /\ new \in Row /\ new.kind = docs[d].kind /\ new.status = "canceled"
      /\ docs[d].kind = "order" => new.qty = docs[d].qty /\ new.cost = docs[d].cost
      /\ docs[d].kind = "count" => new.counted = docs[d].counted /\ new.at = docs[d].at
      /\ docs[d].kind = "entry" => new.paidAt = docs[d].paidAt
    BY <1>2, StatusSet
<1>4. NumbersOK' /\ Moved
    BY <1>1 DEF NumbersOK, Moved, DocTypeOK
<1>5. ASSUME d \notin contested' PROVE Effect(new, goods'[d])
  <2>1. d \notin contested /\ IsOpen(docs[d])
      BY <1>1, <1>2, <1>5 DEF Write
  <2>2. docs[d].status \notin {"received", "completed", "paid"}
      BY <1>2, <2>1 DEF IsOpen, Opens, Row, OrderRow, CountRow, EntryRow
  <2>3. QED
      BY <1>1, <1>2, <1>3, <2>1, <2>2 DEF DocInv, EffectsMatchStatus, Effect
<1>6. new.kind = "count" => TalliedRightAfter(new)
    BY <1>1, <1>2, <1>3 DEF DocInv, TalliedRight, TalliedRightAfter
<1>7. QED
    BY <1>1, <1>2, <1>3, <1>4, <1>5, <1>6, WriteDocInv

-----------------------------------------------------------------------------
\* The asks of a worker are checks of operations with arguments that fit them.
LEMMA AskDocInv ==
    ASSUME DocInv, NEW w \in Workers, NEW d \in Docs,
           AskOrder(w, d) \/ AskCount(w, d) \/ AskEntry(w, d)
    PROVE  DocInv'
<1>1. CASE AskOrder(w, d)
  <2>1. PICK op \in OrderOps : Check(w, op, d, NoArg)
      BY <1>1 DEF AskOrder
  <2>2. op \in Ops /\ op # "tally" /\ op # "edit"
      BY DEF OrderOps, Ops
  <2>3. QED
      BY <2>1, <2>2, CheckDocInv
<1>2. CASE \E p \in Products : Check(w, "tally", d, Tallied(p))
  <2>1. PICK p \in Products : Check(w, "tally", d, Tallied(p))
      BY <1>2
  <2>2. Tallied(p).product = p
      BY DEF Tallied
  <2>3. "tally" \in Ops
      BY DEF Ops, CountOps
  <2>4. QED
      BY <2>1, <2>2, <2>3, CheckDocInv
<1>3. CASE \E op \in {"finalize", "cancelCount"} : Check(w, op, d, NoArg)
  <2>1. PICK op \in {"finalize", "cancelCount"} : Check(w, op, d, NoArg)
      BY <1>3
  <2>2. op \in Ops /\ op # "tally" /\ op # "edit"
      BY DEF CountOps, Ops
  <2>3. QED
      BY <2>1, <2>2, CheckDocInv
<1>4. CASE \E body \in Edits : Check(w, "edit", d, body)
  <2>1. "edit" \in Ops
      BY DEF Ops, EntryOps
  <2>2. QED
      BY <1>4, <2>1, CheckDocInv
<1>5. CASE \E op \in {"pay", "cancelEntry"} : Check(w, op, d, NoArg)
  <2>1. PICK op \in {"pay", "cancelEntry"} : Check(w, op, d, NoArg)
      BY <1>5
  <2>2. op \in Ops /\ op # "tally" /\ op # "edit"
      BY DEF EntryOps, Ops
  <2>3. QED
      BY <2>1, <2>2, CheckDocInv
<1>6. QED
    BY <1>1, <1>2, <1>3, <1>4, <1>5 DEF AskCount, AskEntry

\* A step that leaves everything as it is.
LEMMA StutterDocInv == DocInv /\ UNCHANGED docVars => DocInv'
<1> SUFFICES ASSUME DocInv, UNCHANGED docVars PROVE DocInv'
    OBVIOUS
<1>1. UNCHANGED <<agenda, docs, goods, stock, cost, active, pc, req, shelf, shifts, contested>>
    BY DEF docVars, flight
<1>2. DocTypeOK
    BY DEF DocInv
<1>3. DocTypeOK'
    BY <1>1, <1>2 DEF DocTypeOK, RequestOK
<1>4. Moved
    BY <1>1, <1>2 DEF Moved, DocTypeOK
<1>5. QED
    BY <1>1, <1>3, <1>4, FrameDocInv

LEMMA ServeDocInv == ASSUME DocInv, NEW w \in Workers, Serve(w) PROVE DocInv'
BY ReceiveDocInv, TallyDocInv, FinalizeDocInv, EditDocInv, PayDocInv, CancelDocInv
   DEF Serve, CancelOrder, CancelCount, CancelEntry

LEMMA NextDocInv == DocInv /\ [DocNext]_docVars => DocInv'
<1> SUFFICES ASSUME DocInv, [DocNext]_docVars PROVE DocInv'
    OBVIOUS
<1>1. CASE CreateOrder \/ CreateCount \/ CreateEntry
    BY <1>1, CreateDocInv
<1>2. ASSUME NEW w \in Workers, Serve(w) PROVE DocInv'
    BY <1>2, ServeDocInv
<1>3. ASSUME NEW w \in Workers, Fail(w) PROVE DocInv'
    BY <1>3, FailDocInv
<1>4. ASSUME NEW w \in Workers, NEW d \in Docs, AskOrder(w, d) \/ AskCount(w, d) \/ AskEntry(w, d)
      PROVE  DocInv'
    BY <1>4, AskDocInv
<1>5. ASSUME NEW p \in Tracked, Shift(p) \/ SwitchProduct(p) PROVE DocInv'
    BY <1>5, ShiftDocInv
<1>6. QED
    BY <1>1, <1>2, <1>3, <1>4, <1>5, StutterDocInv DEF DocNext

-----------------------------------------------------------------------------
\* Whatever the requests, the tenant's documents keep the inductive invariant:
\* their rows have the fields of their kind, a request past its check finds
\* its document open unless it is contested, and a count made since when no
\* unit moved is right.
THEOREM SpecDocInv == DocSpec => []DocInv
BY InitDocInv, NextDocInv, PTL DEF DocSpec

\* For any number of requests in flight, a document that was decided alone has
\* brought about what its status says: the goods of a received order, once.
THEOREM SpecEffectsMatchStatus == DocSpec => []EffectsMatchStatus
<1>1. DocInv => EffectsMatchStatus
    BY DEF DocInv
<1>2. QED
    BY <1>1, SpecDocInv, PTL

\* A write is to a document that is open or contested: never to a settled one.
LEMMA WriteSparesSettled ==
    ASSUME DocInv, NEW w \in Workers, pc[w] = "write", NEW row, Write(w, row),
           \A e \in Docs \ {req[w].doc} : goods'[e] = goods[e],
           NEW d \in Docs, Settled(d)
    PROVE  docs'[d] = docs[d] /\ goods'[d] = goods[d]
<1>1. req[w].doc \in Docs /\ (IsOpen(docs[req[w].doc]) \/ req[w].doc \in contested)
    BY RequestFacts
<1>2. d # req[w].doc
    BY <1>1 DEF Settled
<1>3. docs' = [docs EXCEPT ![req[w].doc] = row]
    BY DEF Write
<1>4. QED
    BY <1>2, <1>3 DEF DocInv, DocTypeOK

LEMMA ServeSparesSettled ==
    ASSUME DocInv, NEW w \in Workers, Serve(w), NEW d \in Docs, Settled(d)
    PROVE  docs'[d] = docs[d] /\ goods'[d] = goods[d]
<1>1. pc[w] = "write" /\ goods \in [Docs -> [Products -> Int]]
    BY DEF DocInv, DocTypeOK, Serve, Receive, Tally, Finalize, Edit, Pay, CancelOrder,
           CancelCount, CancelEntry, Cancel, At
<1>2. \E row : Write(w, row)
    BY DEF Serve, Receive, Tally, Finalize, Edit, Pay, CancelOrder, CancelCount, CancelEntry,
           Cancel, SetStatus
<1>3. \A e \in Docs \ {req[w].doc} : goods'[e] = goods[e]
    BY <1>1 DEF Serve, Receive, Tally, Finalize, Edit, Pay, CancelOrder, CancelCount,
           CancelEntry, Cancel
<1>4. QED
    BY <1>1, <1>2, <1>3, WriteSparesSettled

LEMMA InsertSparesSettled ==
    ASSUME DocInv, NEW row, Insert(row), NEW d \in Docs, Settled(d)
    PROVE  docs'[d] = docs[d] /\ goods'[d] = goods[d]
<1>1. docs' = [docs EXCEPT ![FreshDoc] = row] /\ goods' = goods /\ docs[FreshDoc] = NoDoc
    BY DEF Insert, FreshDoc
<1>2. d # FreshDoc
    BY <1>1 DEF Settled
<1>3. QED
    BY <1>1, <1>2 DEF DocInv, DocTypeOK

LEMMA StepSparesSettled ==
    ASSUME DocInv, [DocNext]_docVars, NEW d \in Docs, Settled(d)
    PROVE  docs'[d] = docs[d] /\ goods'[d] = goods[d]
<1>1. CASE CreateOrder \/ CreateCount \/ CreateEntry
  <2>1. \E row : Insert(row)
      BY <1>1 DEF CreateOrder, CreateCount, CreateEntry
  <2>2. QED
      BY <2>1, InsertSparesSettled
<1>2. CASE \E w \in Workers : Serve(w)
    BY <1>2, ServeSparesSettled
<1>3. CASE \E w \in Workers : Fail(w)
    BY <1>3 DEF Fail
<1>4. CASE \E w \in Workers, e \in Docs : AskOrder(w, e) \/ AskCount(w, e) \/ AskEntry(w, e)
    BY <1>4 DEF AskOrder, AskCount, AskEntry, Check
<1>5. CASE \E p \in Tracked : Shift(p) \/ SwitchProduct(p)
    BY <1>5 DEF Shift, SwitchProduct
<1>6. CASE UNCHANGED docVars
    BY <1>6 DEF docVars
<1>7. QED
    BY <1>1, <1>2, <1>3, <1>4, <1>5, <1>6 DEF DocNext

\* For any number of requests in flight and any documents, one that was decided
\* while no rival was past its check stays as it is: receive, cancel, pay and
\* finalize have no further effect on it.
THEOREM SpecDecidedIsFrozen == DocSpec => DecidedIsFrozen
<1>1. DocInv /\ [DocNext]_docVars =>
        \A d \in Docs : Settled(d) => docs'[d] = docs[d] /\ goods'[d] = goods[d]
    BY StepSparesSettled
<1>2. QED
    BY <1>1, SpecDocInv, PTL DEF DocSpec, DecidedIsFrozen

\* What the end of a count leaves of a product, in any state of the invariant.
LEMMA FinalizeSetsBalance ==
    ASSUME DocInv, NEW w \in Workers, Finalize(w), NEW p \in Products,
           req[w].seen.counted[p] # NotCounted, req[w].seen.at[p] = shifts[p]
    PROVE  stock'[p] = shelf[p]
<1>1. pc[w] = "write" /\ req[w].op = "finalize"
    BY DEF Finalize, At
<1>2. req[w].seen \in CountRow /\ TalliedRight(req[w].seen)
    BY <1>1, RequestFacts DEF DocInv, RequestOK
<1>3. req[w].seen.counted[p] = shelf[p] /\ shelf[p] \in Nat /\ stock[p] \in Nat
    BY <1>2 DEF TalliedRight, DocInv, DocTypeOK
<1>4. stock'[p] = stock[p] + Adjustment(req[w].seen, p)
    BY DEF Finalize
<1>5. QED
    BY <1>3, <1>4 DEF Adjustment

\* For any counts, any products and any sales between, finalizing sets the
\* balance of a product that did not move since its tally to the units on the
\* shelf.
THEOREM SpecFinalizeSetsShelf == DocSpec => FinalizeSetsShelf
<1>1. DocInv /\ [DocNext]_docVars =>
        \A w \in Workers : Finalize(w) =>
          \A p \in Products :
             LET seen == req[w].seen IN
             seen.counted[p] # NotCounted /\ seen.at[p] = shifts[p] => stock'[p] = shelf[p]
    BY FinalizeSetsBalance
<1>2. QED
    BY <1>1, SpecDocInv, PTL DEF DocSpec, FinalizeSetsShelf

-----------------------------------------------------------------------------
(***************************************************************************)
(* Registry.                                                               *)
(***************************************************************************)

AskRow == [step : DOMAIN AskedOf, row : Ids]

\* A row of a register has all its fields; what is not one is of no table.
LEMMA RowFacts ==
    ASSUME RegTypeOK, NEW i \in Ids
    PROVE  /\ rows[i] \in {NoRow, Gone} \/ rows[i] \in RegRow
           /\ Live(i) <=> rows[i] \in RegRow
           /\ \A t \in Tables : IsA(i, t) => rows[i] \in RegRow
           /\ rows[i] \in RegRow => rows[i].table \in Tables
<1>1. rows[i] \in {NoRow, Gone} \/ rows[i] \in RegRow
    BY DEF RegTypeOK
<1>2. NoRow.table = "none" /\ Gone.table = "gone"
    BY DEF NoRow, Gone
<1>3. \A r \in RegRow : r.table \in Tables
    BY DEF RegRow
<1>4. "none" \notin Tables /\ "gone" \notin Tables
    BY DEF Tables
<1>5. QED
    BY <1>1, <1>2, <1>3, <1>4 DEF Live, IsA

\* What the six steps of a request may be about.
LEMMA AskedTables ==
    ASSUME NEW s \in DOMAIN AskedOf
    PROVE  "none" \notin AskedOf[s] /\ "none" # "gone" /\ "product" \notin AskedOf["delete"]
           /\ "center" \notin AskedOf["delete"]
BY DEF AskedOf

\* A request is about a row that was created, with the type of one.
LEMMA AskFacts ==
    ASSUME RegInv, NEW w \in Clerks, asks[w] # NoAsk
    PROVE  /\ asks[w] \in AskRow /\ asks[w].row \in Ids /\ asks[w].step \in DOMAIN AskedOf
           /\ rows[asks[w].row] # NoRow
           /\ rows[asks[w].row].table \in AskedOf[asks[w].step] \cup {"gone"}
<1>1. asks[w] \in AskRow
    BY DEF RegInv, RegTypeOK, AskRow
<1>2. asks[w].row \in Ids /\ asks[w].step \in DOMAIN AskedOf
    BY <1>1 DEF AskRow
<1>3. rows[asks[w].row].table \in AskedOf[asks[w].step] \cup {"gone"}
    BY DEF RegInv, AsksFit
<1>4. QED
    BY <1>1, <1>2, <1>3, AskedTables DEF NoRow

\* A request on some step is under way.
LEMMA OnStepAsks ==
    ASSUME NEW w \in Clerks, NEW s, s # "idle", OnStep(w, s)
    PROVE  asks[w] # NoAsk
BY DEF OnStep, NoAsk

LEMMA InitRegInv == RegInit => RegInv
<1> SUFFICES ASSUME RegInit PROVE RegInv
    OBVIOUS
<1>1. /\ \A i \in Ids : rows[i] = NoRow /\ rows[i].table = "none"
      /\ \A i \in Ids, k \in Kinds : refs[i][k] = 0
      /\ \A w \in Clerks : asks[w] = NoAsk /\ asks[w].step = "idle"
    BY DEF RegInit, NoRow, NoAsk
<1>2. RegTypeOK
    BY DEF RegInit, RegTypeOK
<1>3. QED
    BY <1>1, <1>2 DEF RegInv, AsksFit, RefsFit, ErasureLogged, SkusDistinct, CategoriesExist,
                      IsA, OnStep

-----------------------------------------------------------------------------
\* A step of one request that leaves the rows and what refers to them alone.
LEMMA AskRegInv ==
    ASSUME RegInv, UNCHANGED <<rows, refs, overlapped>>,
           logged \subseteq logged', logged' \subseteq Ids, exported' \subseteq Ids,
           NEW w \in Clerks, NEW ask \in {NoAsk} \cup AskRow,
           asks' = [asks EXCEPT ![w] = ask],
           ask # NoAsk => rows[ask.row].table \in AskedOf[ask.step] \cup {"gone"},
           ask.step = "delete" => Free(ask.row)
    PROVE  RegInv'
<1>1. asks \in [Clerks -> {NoAsk} \cup AskRow]
    BY DEF RegInv, RegTypeOK, AskRow
<1>2. asks' \in [Clerks -> {NoAsk} \cup AskRow] /\ asks'[w] = ask
      /\ \A v \in Clerks \ {w} : asks'[v] = asks[v]
    BY <1>1
<1>3. RegTypeOK'
    BY <1>2 DEF RegInv, RegTypeOK, AskRow
<1>4. AsksFit'
    BY <1>2 DEF RegInv, AsksFit
<1>5. RefsFit' /\ SkusDistinct' /\ CategoriesExist' /\ ErasureLogged'
    BY DEF RegInv, RefsFit, SkusDistinct, CategoriesExist, ErasureLogged, IsA, Categories
<1>6. ASSUME NEW i, Free(i) PROVE Free(i)'
    BY <1>6 DEF Free, IsA, HasHistory, InCategory
<1>7. ASSUME NEW v \in Clerks, OnStep(v, "delete")' PROVE Free(asks[v].row)'
  <2>1. CASE v = w
      BY <1>2, <1>6, <1>7, <2>1 DEF OnStep
  <2>2. CASE v # w
      BY <1>2, <1>6, <1>7, <2>2 DEF OnStep, RegInv
  <2>3. QED
      BY <2>1, <2>2
<1>8. QED
    BY <1>3, <1>4, <1>5, <1>7 DEF RegInv

LEMMA FindRegInv ==
    ASSUME RegInv, NEW w \in Clerks, NEW i \in Ids, NEW table \in Tables,
           NEW step \in DOMAIN AskedOf, Find(w, i, table, step),
           table \in AskedOf[step], step = "delete" => table = "supplier"
    PROVE  RegInv'
<1> DEFINE ask == [step |-> step, row |-> i]
<1>1. IsA(i, table) /\ asks' = [asks EXCEPT ![w] = ask]
      /\ UNCHANGED <<rows, refs, logged, exported, overlapped>>
    BY DEF Find
<1>2. ask \in AskRow /\ ask.row = i /\ ask.step = step
    BY DEF AskRow
<1>3. step = "delete" => Free(i)
    BY <1>1 DEF Free, IsA
<1>4. logged \subseteq Ids /\ exported \subseteq Ids
    BY DEF RegInv, RegTypeOK
<1>5. QED
    BY <1>1, <1>2, <1>3, <1>4, AskRegInv DEF IsA

LEMMA AskOneRegInv ==
    ASSUME RegInv, NEW w \in Clerks, NEW i \in Ids, AskOne(w, i)
    PROVE  RegInv'
<1>1. /\ {"update", "log", "erase", "history", "delete", "use"} \subseteq DOMAIN AskedOf
      /\ {"customer", "product", "supplier", "category"} \subseteq Tables
      /\ "customer" \in AskedOf["update"] /\ "product" \in AskedOf["update"]
      /\ "customer" \in AskedOf["log"] /\ "customer" \in AskedOf["erase"]
      /\ "customer" \in AskedOf["history"] /\ "supplier" \in AskedOf["delete"]
      /\ "category" \in AskedOf["use"]
    BY DEF AskedOf, Tables
<1>2. CASE AskUpdateCustomer(w, i)
    BY <1>1, <1>2, FindRegInv DEF AskUpdateCustomer
<1>3. CASE AskUpdateProduct(w, i)
    BY <1>1, <1>3, FindRegInv DEF AskUpdateProduct
<1>4. CASE AskExport(w, i)
    BY <1>1, <1>4, FindRegInv DEF AskExport
<1>5. CASE AskErasure(w, i)
    BY <1>1, <1>5, FindRegInv DEF AskErasure
<1>6. CASE RemoveCustomer(w, i)
    BY <1>1, <1>6, FindRegInv DEF RemoveCustomer
<1>7. CASE RemoveSupplier(w, i)
    BY <1>1, <1>7, FindRegInv DEF RemoveSupplier
<1>8. CASE RemoveCategory(w, i)
    BY <1>1, <1>8, FindRegInv DEF RemoveCategory
<1>9. QED
    BY <1>2, <1>3, <1>4, <1>5, <1>6, <1>7, <1>8 DEF AskOne

\* The request ends: nothing is left to say of it.
LEMMA DoneRegInv ==
    ASSUME RegInv, NEW w \in Clerks, Done(w), UNCHANGED <<rows, refs, overlapped, logged>>,
           exported' \subseteq Ids
    PROVE  RegInv'
<1>1. asks' = [asks EXCEPT ![w] = NoAsk] /\ NoAsk.step # "delete"
    BY DEF Done, NoAsk
<1>2. logged \subseteq Ids
    BY DEF RegInv, RegTypeOK
<1>3. QED
    BY <1>1, <1>2, AskRegInv

\* The request goes on to another step on the same row.
LEMMA GoOnRegInv ==
    ASSUME RegInv, NEW w \in Clerks, asks[w] # NoAsk, NEW step \in DOMAIN AskedOf, GoOn(w, step),
           UNCHANGED <<rows, refs, logged, exported, overlapped>>,
           AskedOf[asks[w].step] \subseteq AskedOf[step],
           step = "delete" => Free(asks[w].row)
    PROVE  RegInv'
<1> DEFINE ask == [asks[w] EXCEPT !.step = step]
<1>1. asks[w] \in AskRow /\ rows[asks[w].row].table \in AskedOf[asks[w].step] \cup {"gone"}
    BY AskFacts
<1>2. ask \in AskRow /\ ask.step = step /\ ask.row = asks[w].row
    BY <1>1 DEF AskRow
<1>3. asks' = [asks EXCEPT ![w] = ask]
    BY DEF GoOn
<1>4. logged \subseteq Ids /\ exported \subseteq Ids
    BY DEF RegInv, RegTypeOK
<1> HIDE DEF ask
<1>5. QED
    BY <1>1, <1>2, <1>3, <1>4, AskRegInv

LEMMA CheckRegInv ==
    ASSUME RegInv, NEW w \in Clerks, CheckHistory(w) \/ CheckUse(w)
    PROVE  RegInv'
<1> DEFINE i == asks[w].row
<1>1. CASE CheckHistory(w)
  <2>1. asks[w] # NoAsk /\ asks[w].step = "history"
        /\ UNCHANGED <<rows, refs, logged, exported, overlapped>>
        /\ GoOn(w, IF HasHistory(i) THEN "erase" ELSE "delete")
      BY <1>1, OnStepAsks DEF CheckHistory, OnStep
  <2>2. i \in Ids /\ rows[i].table \in {"customer", "gone"}
      BY <2>1, AskFacts DEF AskedOf
  <2>3. ~ HasHistory(i) => Free(i)
      BY <2>2 DEF Free, IsA
  <2>4. /\ "erase" \in DOMAIN AskedOf /\ "delete" \in DOMAIN AskedOf
        /\ AskedOf["history"] \subseteq AskedOf["erase"]
        /\ AskedOf["history"] \subseteq AskedOf["delete"]
      BY DEF AskedOf
  <2>5. CASE HasHistory(i)
      BY <2>1, <2>4, <2>5, GoOnRegInv
  <2>6. CASE ~ HasHistory(i)
      BY <2>1, <2>3, <2>4, <2>6, GoOnRegInv
  <2>7. QED
      BY <2>5, <2>6
<1>2. CASE CheckUse(w)
  <2>1. asks[w] # NoAsk /\ asks[w].step = "use"
        /\ UNCHANGED <<rows, refs, logged, exported, overlapped>>
        /\ IF InCategory(i) = {} THEN GoOn(w, "delete") ELSE Done(w)
      BY <1>2, OnStepAsks DEF CheckUse, OnStep
  <2>2. i \in Ids /\ rows[i].table \in {"category", "gone"}
      BY <2>1, AskFacts DEF AskedOf
  <2>3. InCategory(i) = {} => Free(i)
      BY <2>2 DEF Free, IsA
  <2>4. "delete" \in DOMAIN AskedOf /\ AskedOf["use"] \subseteq AskedOf["delete"]
      BY DEF AskedOf
  <2>5. CASE InCategory(i) = {}
      BY <2>1, <2>3, <2>4, <2>5, GoOnRegInv
  <2>6. CASE InCategory(i) # {}
      BY <2>1, <2>6, DoneRegInv DEF RegInv, RegTypeOK
  <2>7. QED
      BY <2>5, <2>6
<1>3. QED
    BY <1>1, <1>2

-----------------------------------------------------------------------------
\* A row is created, or written over with one of the same register.
LEMMA PutRowRegInv ==
    ASSUME RegInv, NEW i \in Ids, NEW row \in RegRow,
           rows' = [rows EXCEPT ![i] = row], refs' = refs, exported' = exported,
           rows[i] = NoRow \/ rows[i].table = row.table,
           logged \subseteq logged', logged' \subseteq Ids,
           overlapped \subseteq overlapped', overlapped' \subseteq Ids \cup {NoId},
           row.table = "customer" /\ ~ row.personal => i \in logged',
           row.table = "product" => /\ SkuFree(row.sku, i) /\ row.category \in Categories
                                    /\ overlapped' = NowReferred(row.category),
           asks' = asks \/ \E w \in Clerks : asks' = [asks EXCEPT ![w] = NoAsk]
    PROVE  RegInv'
<1>1. RegTypeOK /\ rows'[i] = row /\ \A j \in Ids \ {i} : rows'[j] = rows[j]
    BY DEF RegInv, RegTypeOK
<1>2. \A w \in Clerks : asks'[w] = asks[w] \/ asks'[w] = NoAsk
    BY <1>1 DEF RegTypeOK
<1>3. RegTypeOK'
    BY <1>1 DEF RegTypeOK, RegRow
<1>4. row.table \in Tables /\ "none" \notin Tables /\ NoRow.table = "none"
    BY DEF RegRow, Tables, NoRow
<1>5. \A j \in Ids : (rows[j] = NoRow /\ j = i) \/ rows'[j].table = rows[j].table
    BY <1>1
<1>6. AsksFit'
  <2>1. ASSUME NEW w \in Clerks, asks'[w] # NoAsk
        PROVE  rows'[asks'[w].row].table \in AskedOf[asks'[w].step] \cup {"gone"}
      BY <1>2, <1>5, <2>1, AskFacts
  <2>2. QED
      BY <2>1 DEF AsksFit
<1>7. RefsFit'
  <2>1. \A k \in Kinds : "none" \notin RefersTo[k]
      BY DEF Kinds, RefersTo
  <2>2. QED
      BY <1>4, <1>5, <2>1 DEF RegInv, RefsFit
<1>8. ErasureLogged'
    BY <1>1 DEF RegInv, ErasureLogged, IsA
<1>9. SkusDistinct'
  <2>1. ASSUME NEW j \in Ids, NEW k \in Ids, IsA(j, "product")', IsA(k, "product")',
               rows'[j].sku = rows'[k].sku, rows'[j].sku # NoSku, j # k
        PROVE  FALSE
    <3>1. CASE j # i /\ k # i
        BY <1>1, <2>1, <3>1 DEF RegInv, SkusDistinct, IsA
    <3>2. CASE j = i
        BY <1>1, <2>1, <3>2 DEF SkuFree, IsA
    <3>3. CASE k = i
        BY <1>1, <2>1, <3>3 DEF SkuFree, IsA
    <3>4. QED
        BY <3>1, <3>2, <3>3
  <2>2. QED
      BY <2>1 DEF SkusDistinct
<1>10. CategoriesExist'
  <2>1. Categories \subseteq Categories'
      BY <1>4, <1>5 DEF Categories, IsA, Tables
  <2>2. \A j \in Ids : IsA(j, "product")' => rows'[j].category \in Categories
      BY <1>1 DEF RegInv, CategoriesExist, IsA
  <2>3. QED
      BY <2>1, <2>2 DEF CategoriesExist
<1>11. ASSUME NEW w \in Clerks, OnStep(w, "delete")'
       PROVE  Free(asks[w].row)' /\ asks'[w] = asks[w]
  <2> DEFINE j == asks[w].row
  <2>1. asks'[w] = asks[w] /\ OnStep(w, "delete") /\ asks[w] # NoAsk
      BY <1>2, <1>11, OnStepAsks DEF OnStep, NoAsk
  <2>2. j \in Ids /\ rows[j] # NoRow /\ Free(j) /\ rows'[j].table = rows[j].table
      BY <1>5, <2>1, AskFacts DEF RegInv
  <2>3. CASE row.table = "product" /\ row.category = j
      BY <2>1, <2>3 DEF NowReferred, OnStep, Free
  <2>4. CASE ~ (row.table = "product" /\ row.category = j)
    <3>1. InCategory(j)' \subseteq InCategory(j)
        BY <1>1, <2>1, <2>4 DEF InCategory, IsA
    <3>2. QED
        BY <2>1, <2>2, <3>1 DEF Free, HasHistory, IsA
  <2>5. QED
      BY <2>1, <2>3, <2>4
<1>12. QED
    BY <1>3, <1>6, <1>7, <1>8, <1>9, <1>10, <1>11 DEF RegInv

\* NowReferred adds at most the row referred to.
LEMMA NowReferredTyped ==
    ASSUME RegTypeOK, NEW i \in Ids \cup {NoId}
    PROVE  overlapped \subseteq NowReferred(i) /\ NowReferred(i) \subseteq Ids \cup {NoId}
BY DEF RegTypeOK, NowReferred

LEMMA CategoryTyped == Categories \subseteq Ids \cup {NoId}
BY DEF Categories

LEMMA BlankTyped ==
    ASSUME NEW table \in Tables
    PROVE  /\ Blank(table) \in RegRow /\ Blank(table).table = table
           /\ Blank(table).personal <=> table = "customer"
BY DEF Blank, RegRow

LEMMA CreateRegInv ==
    ASSUME RegInv, NEW i \in Ids,
           \/ CreateCustomer(i) \/ CreateSupplier(i) \/ CreateCategory(i) \/ CreateCenter(i)
    PROVE  RegInv'
<1>1. PICK table \in Tables \ {"product"} : AddRow(i, Blank(table)) /\ UNCHANGED overlapped
    BY DEF CreateCustomer, CreateSupplier, CreateCategory, CreateCenter, Tables
<1>2. rows[i] = NoRow /\ rows' = [rows EXCEPT ![i] = Blank(table)]
      /\ UNCHANGED <<refs, logged, exported, asks>>
    BY <1>1 DEF AddRow
<1>3. Blank(table) \in RegRow /\ Blank(table).table = table
      /\ (Blank(table).personal <=> table = "customer")
    BY BlankTyped
<1>4. logged \subseteq Ids /\ overlapped \subseteq Ids \cup {NoId}
    BY DEF RegInv, RegTypeOK
<1> DEFINE row == Blank(table)
<1> HIDE DEF row
<1>5. row = Blank(table)
    BY DEF row
<1>6. QED
    BY <1>1, <1>2, <1>3, <1>4, <1>5, PutRowRegInv

LEMMA CreateProductRegInv ==
    ASSUME RegInv, NEW i \in Ids, NEW sku \in Skus \cup {NoSku}, NEW c \in Ids \cup {NoId},
           CreateProduct(i, sku, c)
    PROVE  RegInv'
<1> DEFINE row == [Blank("product") EXCEPT !.sku = sku, !.category = c]
<1>1. row \in RegRow /\ row.table = "product" /\ row.sku = sku /\ row.category = c
    BY DEF Blank, RegRow, Tables
<1>2. /\ rows[i] = NoRow /\ rows' = [rows EXCEPT ![i] = row]
      /\ UNCHANGED <<refs, logged, exported, asks>>
      /\ SkuFree(sku, i) /\ c \in Categories /\ overlapped' = NowReferred(c)
    BY DEF CreateProduct, AddRow
<1>3. /\ overlapped \subseteq overlapped' /\ overlapped' \subseteq Ids \cup {NoId}
      /\ logged \subseteq Ids
    BY <1>2, NowReferredTyped DEF RegInv, RegTypeOK
<1> HIDE DEF row
<1>4. QED
    BY <1>1, <1>2, <1>3, PutRowRegInv

LEMMA UpdateRegInv ==
    ASSUME RegInv, NEW w \in Clerks, NEW sku \in Skus \cup {NoSku}, NEW c \in Ids \cup {NoId},
           UpdateCustomer(w) \/ UpdateProduct(w, sku, c)
    PROVE  RegInv'
<1> DEFINE i == asks[w].row
<1>1. asks[w] # NoAsk /\ asks[w].step = "update"
    BY OnStepAsks DEF UpdateCustomer, UpdateProduct, OnStep
<1>2. i \in Ids /\ RegTypeOK
    BY <1>1, AskFacts DEF RegInv
<1>3. CASE UpdateCustomer(w)
  <2> DEFINE row == [rows[i] EXCEPT !.personal = TRUE]
  <2>1. /\ IsA(i, "customer") /\ rows' = [rows EXCEPT ![i] = row]
        /\ asks' = [asks EXCEPT ![w] = NoAsk] /\ UNCHANGED <<refs, logged, exported, overlapped>>
      BY <1>3 DEF UpdateCustomer, Done
  <2>2. rows[i] \in RegRow
      BY <1>2, <2>1, RowFacts DEF Tables
  <2>3. row \in RegRow /\ row.table = "customer" /\ row.table = rows[i].table /\ row.personal
      BY <2>1, <2>2 DEF RegRow, IsA
  <2>4. logged \subseteq Ids /\ overlapped \subseteq Ids \cup {NoId}
      BY <1>2 DEF RegTypeOK
  <2> HIDE DEF row
  <2>5. QED
      BY <1>2, <2>1, <2>3, <2>4, PutRowRegInv
<1>4. CASE UpdateProduct(w, sku, c)
  <2> DEFINE row == [rows[i] EXCEPT !.sku = sku, !.category = c]
  <2>1. /\ IsA(i, "product") /\ rows' = [rows EXCEPT ![i] = row]
        /\ SkuFree(sku, i) /\ c \in Categories /\ overlapped' = NowReferred(c)
        /\ asks' = [asks EXCEPT ![w] = NoAsk] /\ UNCHANGED <<refs, logged, exported>>
      BY <1>4 DEF UpdateProduct, Done
  <2>2. rows[i] \in RegRow
      BY <1>2, <2>1, RowFacts DEF Tables
  <2>3. /\ row \in RegRow /\ row.table = "product" /\ row.table = rows[i].table
        /\ row.sku = sku /\ row.category = c
      BY <2>1, <2>2 DEF RegRow, IsA
  <2>4. /\ overlapped \subseteq overlapped' /\ overlapped' \subseteq Ids \cup {NoId}
        /\ logged \subseteq Ids
      BY <1>2, <2>1, NowReferredTyped DEF RegTypeOK
  <2> HIDE DEF row
  <2>5. QED
      BY <1>2, <2>1, <2>3, <2>4, PutRowRegInv
<1>5. QED
    BY <1>3, <1>4

\* An erasure keeps the row of the customer, and logs what it took off it.
LEMMA EraseRegInv ==
    ASSUME RegInv, NEW w \in Clerks, Erase(w)
    PROVE  RegInv'
<1> DEFINE i == asks[w].row
           row == [rows[i] EXCEPT !.personal = FALSE]
<1>1. /\ Live(i) /\ rows' = [rows EXCEPT ![i] = row] /\ logged' = logged \cup {i}
      /\ asks' = [asks EXCEPT ![w] = NoAsk] /\ UNCHANGED <<refs, exported, overlapped>>
      /\ asks[w] # NoAsk /\ asks[w].step = "erase"
    BY OnStepAsks DEF Erase, RecordTx, Done, OnStep
<1>2. i \in Ids /\ RegTypeOK /\ rows[i].table \in {"customer", "gone"}
    BY <1>1, AskFacts DEF RegInv, AskedOf
<1>3. rows[i] \in RegRow /\ rows[i].table = "customer"
    BY <1>1, <1>2, RowFacts DEF Live, Tables
<1>4. row \in RegRow /\ row.table = "customer" /\ row.table = rows[i].table
    BY <1>3 DEF RegRow
<1>5. logged' \subseteq Ids /\ overlapped \subseteq Ids \cup {NoId} /\ i \in logged'
    BY <1>1, <1>2 DEF RegTypeOK
<1> HIDE DEF row
<1>6. QED
    BY <1>1, <1>2, <1>4, <1>5, PutRowRegInv

-----------------------------------------------------------------------------
LEMMA ReferRegInv ==
    ASSUME RegInv, NEW i \in Ids, NEW k \in Kinds, Refer(i, k)
    PROVE  RegInv'
<1>1. PICK points \in {0, 1} :
         /\ refs' = [refs EXCEPT ![i] = More(@, k, points)]
         /\ points # 0 => k = "sale"
    BY DEF Refer
<1>2. /\ k # "points" /\ rows[i].table \in RefersTo[k] /\ overlapped' = NowReferred(i)
      /\ UNCHANGED <<rows, logged, exported, asks>>
    BY DEF Refer
<1>3. RegTypeOK /\ refs[i] \in [Kinds -> Nat] /\ "points" \in Kinds
    BY DEF RegInv, RegTypeOK, Kinds, RefersTo
<1> DEFINE r == More(refs[i], k, points)
<1>4. r \in [Kinds -> Nat] /\ \A m \in Kinds : m = k \/ (m = "points" /\ points # 0) \/ r[m] = refs[i][m]
    BY <1>3 DEF More
<1>5. refs' = [refs EXCEPT ![i] = r]
    BY <1>1
<1> HIDE DEF r
<1>6. refs' \in [Ids -> [Kinds -> Nat]] /\ refs'[i] = r /\ \A j \in Ids \ {i} : refs'[j] = refs[j]
    BY <1>3, <1>4, <1>5 DEF RegTypeOK
<1>7. RegTypeOK'
    BY <1>2, <1>3, <1>6, NowReferredTyped DEF RegTypeOK
<1>8. AsksFit' /\ ErasureLogged' /\ SkusDistinct' /\ CategoriesExist'
    BY <1>2 DEF RegInv, AsksFit, ErasureLogged, SkusDistinct, CategoriesExist, IsA, Categories
<1>9. RefsFit'
  <2>1. RefersTo["sale"] = RefersTo["points"]
      BY DEF RefersTo
  <2>2. QED
      BY <1>1, <1>2, <1>4, <1>6, <2>1 DEF RegInv, RefsFit
<1>10. ASSUME NEW w \in Clerks, OnStep(w, "delete")' PROVE Free(asks[w].row)'
  <2> DEFINE j == asks[w].row
  <2>1. OnStep(w, "delete") /\ asks[w] # NoAsk
      BY <1>2, <1>10, OnStepAsks DEF OnStep
  <2>2. j \in Ids /\ Free(j)
      BY <2>1, AskFacts DEF RegInv
  <2>3. overlapped \subseteq overlapped' /\ (j = i => j \in overlapped')
      BY <1>2, <2>1 DEF NowReferred, OnStep
  <2>4. j # i => (HasHistory(j)' <=> HasHistory(j))
      BY <1>2, <1>6, <2>2 DEF HasHistory
  <2>5. QED
      BY <1>2, <2>2, <2>3, <2>4 DEF Free, IsA, InCategory
<1>11. QED
    BY <1>2, <1>7, <1>8, <1>9, <1>10 DEF RegInv

LEMMA DeleteRegInv ==
    ASSUME RegInv, NEW w \in Clerks, Delete(w)
    PROVE  RegInv'
<1> DEFINE i == asks[w].row
<1>1. /\ Live(i) /\ asks' = [asks EXCEPT ![w] = NoAsk] /\ UNCHANGED <<logged, exported, overlapped>>
      /\ rows' = [j \in Ids |-> IF j = i THEN Gone
                                ELSE IF j \in InCategory(i) THEN [rows[j] EXCEPT !.category = NoId]
                                ELSE rows[j]]
      /\ refs' = [refs EXCEPT ![i] = [k \in Kinds |-> 0]]
      /\ asks[w] # NoAsk
    BY OnStepAsks DEF Delete, Done
<1>2. i \in Ids /\ RegTypeOK
    BY <1>1, AskFacts DEF RegInv
<1>3. \A v \in Clerks : asks'[v] = asks[v] \/ asks'[v] = NoAsk
    BY <1>1, <1>2 DEF RegTypeOK
<1>4. \A j \in InCategory(i) : /\ rows[j] \in RegRow /\ rows[j].table = "product"
                               /\ rows[j].category = i
    BY <1>2, RowFacts DEF InCategory, IsA, Tables
<1> HIDE DEF i
<1>5. /\ rows'[i] = Gone /\ rows'[i].table = "gone"
      /\ \A k \in Kinds : refs'[i][k] = 0
      /\ \A j \in Ids \ {i} : refs'[j] = refs[j]
    BY <1>1, <1>2 DEF RegTypeOK, Gone
<1>14. ASSUME NEW j \in Ids \ {i}, j \in InCategory(i)
       PROVE  /\ rows'[j] \in RegRow /\ rows[j].table = "product" /\ rows'[j].table = "product"
              /\ rows'[j].category = NoId /\ rows'[j].sku = rows[j].sku
  <2>1. rows'[j] = [rows[j] EXCEPT !.category = NoId]
      BY <1>1, <1>14
  <2>2. rows[j] \in RegRow /\ rows[j].table = "product"
      BY <1>4, <1>14
  <2>3. QED
      BY <2>1, <2>2 DEF RegRow
<1>15. ASSUME NEW j \in Ids \ {i}, j \notin InCategory(i) PROVE rows'[j] = rows[j]
    BY <1>1, <1>15
<1>16. \A j \in Ids \ {i} : rows'[j].table = rows[j].table
    BY <1>14, <1>15
<1>6. RegTypeOK'
  <2>1. \A j \in Ids : rows'[j] \in {NoRow, Gone} \cup RegRow
    <3>1. \A j \in Ids : rows[j] \in {NoRow, Gone} \cup RegRow
        BY <1>2 DEF RegTypeOK
    <3>2. QED
        BY <1>5, <1>14, <1>15, <3>1
  <2>2. rows' \in [Ids -> {NoRow, Gone} \cup RegRow]
      BY <1>1, <2>1
  <2>3. refs' \in [Ids -> [Kinds -> Nat]]
      BY <1>1, <1>2 DEF RegTypeOK
  <2>4. QED
      BY <1>1, <1>2, <2>2, <2>3 DEF RegTypeOK
<1>7. AsksFit'
  <2>1. ASSUME NEW v \in Clerks, asks'[v] # NoAsk
        PROVE  rows'[asks'[v].row].table \in AskedOf[asks'[v].step] \cup {"gone"}
    <3>1. asks'[v] = asks[v] /\ asks[v].row \in Ids
          /\ rows[asks[v].row].table \in AskedOf[asks[v].step] \cup {"gone"}
        BY <1>3, <2>1, AskFacts
    <3>2. QED
        BY <1>5, <1>16, <3>1
  <2>2. QED
      BY <2>1 DEF AsksFit
<1>8. RefsFit'
    BY <1>5, <1>16 DEF RegInv, RefsFit
<1>9. ErasureLogged'
    BY <1>1, <1>5, <1>14, <1>15 DEF RegInv, ErasureLogged, IsA
<1>10. SkusDistinct'
    BY <1>5, <1>14, <1>15 DEF RegInv, SkusDistinct, IsA
<1>11. CategoriesExist'
  <2>1. ASSUME NEW j \in Ids, IsA(j, "product")'
        PROVE  rows'[j].category \in Categories'
    <3>1. j # i /\ IsA(j, "product")
        BY <1>5, <1>16, <2>1 DEF IsA
    <3>2. CASE j \in InCategory(i)
        BY <1>14, <3>1, <3>2 DEF Categories
    <3>3. CASE j \notin InCategory(i)
      <4>1. rows'[j] = rows[j] /\ rows[j].category # i /\ rows[j].category \in Categories
          BY <1>15, <3>1, <3>3 DEF InCategory, RegInv, CategoriesExist
      <4>2. QED
          BY <1>16, <4>1 DEF Categories, IsA
    <3>4. QED
        BY <3>2, <3>3
  <2>2. QED
      BY <2>1 DEF CategoriesExist
<1>12. ASSUME NEW v \in Clerks, OnStep(v, "delete")'
       PROVE  Free(asks[v].row)' /\ asks'[v] = asks[v]
  <2> DEFINE j == asks[v].row
  <2>1. asks'[v] = asks[v] /\ OnStep(v, "delete") /\ asks[v] # NoAsk
      BY <1>3, <1>12, OnStepAsks DEF OnStep, NoAsk
  <2>2. j \in Ids /\ Free(j)
      BY <2>1, AskFacts DEF RegInv
  <2>3. CASE j = i
      BY <1>5, <2>1, <2>3 DEF Free, IsA
  <2>4. CASE j # i
    <3>1. rows'[j].table = rows[j].table /\ (HasHistory(j)' <=> HasHistory(j))
        BY <1>5, <1>16, <2>1, <2>2, <2>4 DEF HasHistory
    <3>2. InCategory(j)' \subseteq InCategory(j)
      <4>1. j # NoId
          BY <2>2, RegistryAssumption
      <4>2. \A l \in Ids : IsA(l, "product")' /\ rows'[l].category = j
                            => IsA(l, "product") /\ rows[l].category = j
          BY <1>5, <1>14, <1>15, <4>1 DEF IsA
      <4>3. QED
          BY <2>1, <4>2 DEF InCategory, IsA
    <3>3. QED
        BY <1>1, <2>1, <2>2, <3>1, <3>2 DEF Free, IsA
  <2>5. QED
      BY <2>1, <2>3, <2>4
<1>13. QED
    BY <1>6, <1>7, <1>8, <1>9, <1>10, <1>11, <1>12 DEF RegInv

-----------------------------------------------------------------------------
LEMMA StepRegInv ==
    ASSUME RegInv, NEW w \in Clerks, Step(w)
    PROVE  RegInv'
<1>1. CASE UpdateCustomer(w)
  <2>1. NoSku \in Skus \cup {NoSku} /\ NoId \in Ids \cup {NoId}
      OBVIOUS
  <2>2. QED
      BY <1>1, <2>1, UpdateRegInv
<1>2. CASE LogExport(w)
  <2>1. asks[w] # NoAsk
      BY <1>2, OnStepAsks DEF LogExport
  <2>2. exported' \subseteq Ids /\ Done(w) /\ UNCHANGED <<rows, refs, overlapped, logged>>
      BY <1>2, <2>1, AskFacts DEF LogExport, Record, RegInv, RegTypeOK
  <2>3. QED
      BY <2>2, DoneRegInv
<1>3. CASE CheckHistory(w) \/ CheckUse(w)
    BY <1>3, CheckRegInv
<1>4. CASE Erase(w)
    BY <1>4, EraseRegInv
<1>5. CASE Delete(w)
    BY <1>5, DeleteRegInv
<1>6. CASE EndAsk(w)
    BY <1>6, DoneRegInv DEF EndAsk, RegInv, RegTypeOK
<1>7. QED
    BY <1>1, <1>2, <1>3, <1>4, <1>5, <1>6 DEF Step

LEMMA StutterRegInv == RegInv /\ UNCHANGED regVars => RegInv'
BY DEF regVars, RegInv, RegTypeOK, AsksFit, RefsFit, ErasureLogged, SkusDistinct,
       CategoriesExist, Categories, IsA, OnStep, Free, HasHistory, InCategory

LEMMA NextRegInv == RegInv /\ [RegNext]_regVars => RegInv'
<1> SUFFICES ASSUME RegInv, [RegNext]_regVars PROVE RegInv'
    OBVIOUS
<1>1. ASSUME NEW i \in Ids,
             CreateCustomer(i) \/ CreateSupplier(i) \/ CreateCategory(i) \/ CreateCenter(i)
      PROVE  RegInv'
    BY <1>1, CreateRegInv
<1>2. ASSUME NEW i \in Ids, NEW k \in Kinds, Refer(i, k) PROVE RegInv'
    BY <1>2, ReferRegInv
<1>3. ASSUME NEW i \in Ids, NEW w \in Clerks, AskOne(w, i) PROVE RegInv'
    BY <1>3, AskOneRegInv
<1>4. ASSUME NEW w \in Clerks, Step(w) PROVE RegInv'
    BY <1>4, StepRegInv
<1>5. ASSUME NEW sku \in Skus \cup {NoSku}, NEW c \in Ids \cup {NoId}, NEW i \in Ids,
             CreateProduct(i, sku, c)
      PROVE  RegInv'
    BY <1>5, CreateProductRegInv
<1>6. ASSUME NEW sku \in Skus \cup {NoSku}, NEW c \in Ids \cup {NoId}, NEW w \in Clerks,
             UpdateProduct(w, sku, c)
      PROVE  RegInv'
    BY <1>6, UpdateRegInv
<1>7. QED
    BY <1>1, <1>2, <1>3, <1>4, <1>5, <1>6, StutterRegInv DEF RegNext

\* Whatever the clerks do at once, a request is about a row of its register, a
\* customer without personal data has an audit row, SKUs are distinct, the
\* category of a product exists, and a removal about to delete has found
\* nothing unless a reference overlapped it.
THEOREM SpecRegInv == RegSpec => []RegInv
BY InitRegInv, NextRegInv, PTL DEF RegSpec

\* What a DELETE takes along, in any state of the invariant.
LEMMA DeleteSparesHistory ==
    ASSUME RegInv, NEW w \in Clerks, Delete(w), asks[w].row \notin overlapped,
           ~ IsA(asks[w].row, "supplier")
    PROVE  refs'[asks[w].row] = refs[asks[w].row] /\ InCategory(asks[w].row) = {}
<1> DEFINE i == asks[w].row
<1>1. /\ Live(i) /\ OnStep(w, "delete") /\ asks[w] # NoAsk /\ refs[i].order = 0
      /\ refs' = [refs EXCEPT ![i] = [k \in Kinds |-> 0]]
    BY OnStepAsks DEF Delete
<1>2. i \in Ids /\ rows[i].table \in {"customer", "supplier", "category", "gone"} /\ RegTypeOK
    BY <1>1, AskFacts DEF OnStep, AskedOf, RegInv
<1>3. IsA(i, "customer") \/ IsA(i, "category")
    BY <1>1, <1>2 DEF Live, IsA, Tables
<1>4. Free(i)
    BY <1>1 DEF RegInv
<1>5. InCategory(i) = {}
  <2>1. CASE IsA(i, "category")
      BY <1>4, <2>1 DEF Free
  <2>2. CASE IsA(i, "customer")
    <3>1. i \notin Categories
        BY <1>2, <2>2, RegistryAssumption DEF Categories, IsA
    <3>2. QED
        BY <3>1 DEF RegInv, CategoriesExist, InCategory
  <2>3. QED
      BY <1>3, <2>1, <2>2
<1>6. refs[i] = [k \in Kinds |-> 0]
  <2>1. refs[i] \in [Kinds -> Nat]
      BY <1>2 DEF RegTypeOK
  <2>2. Kinds = {"sale", "points", "bill", "order"}
      BY DEF Kinds, RefersTo
  <2>3. refs[i].sale = 0 /\ refs[i].points = 0 /\ refs[i].bill = 0
    <3>1. CASE IsA(i, "customer")
        BY <1>4, <2>1, <2>2, <3>1 DEF Free, HasHistory
    <3>2. CASE IsA(i, "category")
        BY <1>2, <2>2, <3>2 DEF RegInv, RefsFit, IsA, RefersTo
    <3>3. QED
        BY <1>3, <3>1, <3>2
  <2>4. QED
      BY <1>1, <2>1, <2>2, <2>3
<1>7. refs'[i] = refs[i]
    BY <1>1, <1>2, <1>6 DEF RegTypeOK
<1>8. QED
    BY <1>5, <1>7

\* For any number of clerks and rows, no removal takes a sale, a bill, an entry
\* of the loyalty ledger or a product's category along, unless the reference
\* was made between its check and its DELETE.
THEOREM SpecHistoryOutlivesRows == RegSpec => HistoryOutlivesRows
<1>1. RegInv /\ [RegNext]_regVars =>
        \A w \in Clerks : Delete(w) =>
          LET i == asks[w].row IN
          i \in overlapped \/ IsA(i, "supplier") \/ (refs'[i] = refs[i] /\ InCategory(i) = {})
    BY DeleteSparesHistory
<1>2. QED
    BY <1>1, SpecRegInv, PTL DEF RegSpec, HistoryOutlivesRows

-----------------------------------------------------------------------------
(***************************************************************************)
(* The orders of the channel, and the whole.                               *)
(***************************************************************************)

\* A pull under way, and what it holds.
LEMMA PullFacts ==
    ASSUME MarketTypeOK, NEW w \in Pullers, Pulling(w)
    PROVE  /\ pulls[w] \in PullRow /\ pulls[w].left \in Seq(Incoming)
           /\ pulls[w].rows \in [Incoming -> {NoImport} \cup ImportRow]
           /\ pulls[w].moved \in [Incoming -> [Products -> Nat]]
           /\ pulls[w].held \in [Products -> Nat]
<1>1. pulls[w] \in PullRow
    BY DEF MarketTypeOK, Pulling, NoPull
<1>2. QED
    BY <1>1 DEF PullRow

LEMMA ResolveTyped ==
    ASSUME NEW o \in Incoming
    PROVE  Resolve(o) \in [Externals -> Products \cup {NoProduct}]
BY DEF Resolve

LEMMA UnitsTyped ==
    ASSUME NEW o \in Incoming, NEW items
    PROVE  Units(o, items) \in [Products -> Nat]
<1>1. Feed[o] \in [Externals -> Nat]
    BY MarketplaceAssumption
<1>2. \A p \in Products : Asked(o, items, p) \in Nat
  <2>1. TAKE p \in Products
  <2>2. CASE \E x \in ItemsOf(o) : items[x] = p
    <3>1. (CHOOSE x \in ItemsOf(o) : items[x] = p) \in Externals
        BY <2>2 DEF ItemsOf
    <3>2. QED
        BY <1>1, <2>2, <3>1 DEF Asked
  <2>3. CASE ~ \E x \in ItemsOf(o) : items[x] = p
      BY <2>3 DEF Asked
  <2>4. QED
      BY <2>2, <2>3
<1>3. QED
    BY <1>2 DEF Units

LEMMA InitMarketInv == MarketInit => MarketInv
<1> SUFFICES ASSUME MarketInit PROVE MarketInv
    OBVIOUS
<1>1. /\ \A w \in Pullers : pulls[w] = NoPull /\ ~ Pulling(w)
      /\ \A o \in Incoming : market[o] = NoImport /\ taken[o] = Zero
    BY DEF MarketInit, NoPull, Pulling, Nothing
<1>2. MarketTypeOK
    BY MarketplaceAssumption DEF MarketInit, MarketTypeOK, Nothing, Zero
<1>3. OrdersAllOrNothing
    BY <1>1 DEF OrdersAllOrNothing, AllOrNothing, NoImport
<1>4. QED
    BY <1>1, <1>2, <1>3 DEF MarketInv

-----------------------------------------------------------------------------
\* What the invariant says of a pull that holds `pull`.
Sound(w, pull) ==
    /\ \A o \in Incoming :
          /\ AllOrNothing(o, pull.rows[o], pull.moved[o])
          /\ pull.rows[o] # NoImport =>
                /\ market[o] = NoImport
                /\ \A v \in Pullers \ {w} : Pulling(v) => pulls[v].rows[o] = NoImport
    /\ \A p \in Products :
          /\ pull.held[p] <= stock[p]
          /\ pull.held[p] > 0 => ~ LockedByPull(w, p)

LEMMA SoundPulls ==
    MarketInv <=> /\ MarketTypeOK /\ OrdersAllOrNothing
                  /\ \A w \in Pullers : Pulling(w) => Sound(w, pulls[w])
BY DEF MarketInv, Sound

\* A step of the transaction of w, which nobody else sees.
LEMMA PullMarketInv ==
    ASSUME MarketInv, UNCHANGED <<stock, channelOn, listings, market, taken>>,
           NEW w \in Pullers, NEW pull \in {NoPull} \cup PullRow,
           pulls' = [pulls EXCEPT ![w] = pull],
           pull # NoPull => Sound(w, pull)
    PROVE  MarketInv'
<1>1. MarketTypeOK /\ OrdersAllOrNothing /\ \A v \in Pullers : Pulling(v) => Sound(v, pulls[v])
    BY SoundPulls
<1>2. pulls'[w] = pull /\ \A v \in Pullers \ {w} : pulls'[v] = pulls[v]
    BY <1>1 DEF MarketTypeOK
<1>3. MarketTypeOK'
    BY <1>1, <1>2 DEF MarketTypeOK, ListingsOK
<1>4. OrdersAllOrNothing'
    BY <1>1 DEF OrdersAllOrNothing, AllOrNothing, Units, Zero, ItemsOf, Asked
<1>5. ASSUME NEW v \in Pullers, Pulling(v)', NEW o \in Incoming
      PROVE  /\ AllOrNothing(o, pulls'[v].rows[o], pulls'[v].moved[o])
             /\ pulls'[v].rows[o] # NoImport =>
                  /\ market'[o] = NoImport
                  /\ \A u \in Pullers \ {v} : Pulling(u)' => pulls'[u].rows[o] = NoImport
  <2>1. CASE v = w
    <3>1. Sound(w, pull)
        BY <1>2, <1>5, <2>1 DEF Pulling, NoPull
    <3>2. QED
        BY <1>2, <2>1, <3>1 DEF Sound, Pulling
  <2>2. CASE v # w
    <3>1. Sound(v, pulls[v]) /\ pulls'[v] = pulls[v]
        BY <1>1, <1>2, <1>5, <2>2 DEF Pulling
    <3>2. ASSUME pulls[v].rows[o] # NoImport, pull # NoPull PROVE pull.rows[o] = NoImport
        BY <1>2, <1>5, <2>2, <3>1, <3>2 DEF Sound, Pulling
    <3>3. QED
        BY <1>2, <2>2, <3>1, <3>2 DEF Sound, Pulling, NoPull
  <2>3. QED
      BY <2>1, <2>2
<1>6. ASSUME NEW v \in Pullers, Pulling(v)', NEW p \in Products
      PROVE  /\ pulls'[v].held[p] <= stock'[p]
             /\ pulls'[v].held[p] > 0 =>
                  \A u \in Pullers \ {v} : ~ (Pulling(u)' /\ pulls'[u].held[p] > 0)
  <2>1. CASE v = w
    <3>1. Sound(w, pull)
        BY <1>2, <1>6, <2>1 DEF Pulling, NoPull
    <3>2. QED
        BY <1>2, <2>1, <3>1 DEF Sound, Pulling, LockedByPull
  <2>2. CASE v # w
    <3>1. Sound(v, pulls[v]) /\ pulls'[v] = pulls[v] /\ Pulling(v)
        BY <1>1, <1>2, <1>6, <2>2 DEF Pulling
    <3>2. pull = NoPull \/ ~ (pulls[v].held[p] > 0 /\ pull.held[p] > 0)
        BY <2>2, <3>1 DEF Sound, LockedByPull
    <3>3. QED
        BY <1>2, <2>2, <3>1, <3>2 DEF Sound, Pulling, LockedByPull, NoPull
  <2>3. QED
      BY <2>1, <2>2
<1>7. QED
  <2>1. ASSUME NEW v \in Pullers, Pulling(v)'
        PROVE  Sound(v, pulls[v])'
      BY <1>5, <1>6, <2>1 DEF Sound, AllOrNothing, Units, Zero, ItemsOf, Asked, LockedByPull
  <2>2. QED
      BY <1>3, <1>4, <2>1 DEF MarketInv, Sound

LEMMA StartPullMarketInv ==
    ASSUME MarketInv, NEW w \in Pullers, StartPull(w), \A p \in Products : stock[p] \in Nat
    PROVE  MarketInv'
<1>1. PICK fetched \in Fetches :
         pulls' = [pulls EXCEPT ![w] = [phase |-> "pulling", left |-> fetched,
                                        rows |-> [o \in Incoming |-> NoImport],
                                        moved |-> Nothing, held |-> Zero]]
    BY DEF StartPull
<1> DEFINE pull == [phase |-> "pulling", left |-> fetched,
                    rows |-> [o \in Incoming |-> NoImport], moved |-> Nothing, held |-> Zero]
<1>2. fetched \in Seq(Incoming)
    BY MarketplaceAssumption
<1>3. pull \in PullRow
    BY <1>2 DEF PullRow, Nothing, Zero
<1>4. \A p \in Products : stock[p] \in Nat => Zero[p] <= stock[p] /\ ~ (Zero[p] > 0)
    BY DEF Zero
<1>5. UNCHANGED <<stock, channelOn, listings, market, taken>>
    BY DEF StartPull, docVars
<1>6. \A o \in Incoming : AllOrNothing(o, NoImport, Zero)
    BY DEF AllOrNothing, NoImport
<1>7. (\A p \in Products : stock[p] \in Nat) => Sound(w, pull)
    BY <1>4, <1>6 DEF Sound, Nothing
<1> HIDE DEF pull
<1>8. QED
    BY <1>1, <1>3, <1>5, <1>7, PullMarketInv DEF pull

LEMMA FailMarketInv ==
    ASSUME MarketInv, NEW w \in Pullers, PullFails(w)
    PROVE  MarketInv'
<1>1. pulls' = [pulls EXCEPT ![w] = NoPull] /\ UNCHANGED <<stock, channelOn, listings, market, taken>>
    BY DEF PullFails, docVars
<1>2. QED
    BY <1>1, PullMarketInv

\* The pull goes to the next order it fetched.
LEMMA TurnFacts ==
    ASSUME MarketInv, NEW w \in Pullers, Pulling(w), pulls[w].left # <<>>
    PROVE  Turn(w) \in Incoming /\ Tail(pulls[w].left) \in Seq(Incoming)
<1>1. pulls[w].left \in Seq(Incoming)
    BY PullFacts DEF MarketInv
<1>2. QED
    BY <1>1 DEF Turn

LEMMA SkipMarketInv ==
    ASSUME MarketInv, NEW w \in Pullers, SkipOrder(w)
    PROVE  MarketInv'
<1> DEFINE pull == [pulls[w] EXCEPT !.left = Tail(pulls[w].left)]
<1>1. Pulling(w) /\ pulls[w].left # <<>> /\ pulls' = [pulls EXCEPT ![w] = pull]
      /\ UNCHANGED <<stock, channelOn, listings, market, taken>>
    BY DEF SkipOrder, docVars
<1>2. pulls[w] \in PullRow /\ Sound(w, pulls[w]) /\ Tail(pulls[w].left) \in Seq(Incoming)
    BY <1>1, PullFacts, TurnFacts, SoundPulls
<1>3. /\ pull \in PullRow /\ pull.rows = pulls[w].rows /\ pull.moved = pulls[w].moved
      /\ pull.held = pulls[w].held
    BY <1>2 DEF PullRow
<1> HIDE DEF pull
<1>4. Sound(w, pull)
    BY <1>2, <1>3 DEF Sound
<1>5. QED
    BY <1>1, <1>3, <1>4, PullMarketInv

LEMMA LeaveMarketInv ==
    ASSUME MarketInv, NEW w \in Pullers, LeaveOrder(w)
    PROVE  MarketInv'
<1> DEFINE o == Turn(w)
           row == [status |-> "needs_attention", items |-> Resolve(o)]
           pull == [pulls[w] EXCEPT !.left = Tail(@), !.rows[o] = row]
<1>1. Pulling(w) /\ pulls[w].left # <<>> /\ pulls' = [pulls EXCEPT ![w] = pull]
      /\ UNCHANGED <<stock, channelOn, listings, market, taken>>
      /\ MayInsert(w, o) /\ ~ Recorded(w, o)
    BY DEF LeaveOrder, docVars
<1>2. pulls[w] \in PullRow /\ Sound(w, pulls[w]) /\ Tail(pulls[w].left) \in Seq(Incoming)
      /\ o \in Incoming
    BY <1>1, PullFacts, TurnFacts, SoundPulls
<1>3. row \in ImportRow /\ row.status # "imported" /\ row # NoImport
    BY <1>2, ResolveTyped DEF ImportRow, NoImport
<1> HIDE DEF o, row
<1>4. /\ pull \in PullRow /\ pull.rows = [pulls[w].rows EXCEPT ![o] = row]
      /\ pull.moved = pulls[w].moved /\ pull.held = pulls[w].held
    BY <1>2, <1>3 DEF PullRow
<1>5. pulls[w].moved[o] = Zero
    BY <1>1, <1>2 DEF Sound, Recorded, AllOrNothing, NoImport
<1>6. /\ pulls[w].rows \in [Incoming -> {NoImport} \cup ImportRow]
      /\ pull.rows[o] = row /\ \A q \in Incoming \ {o} : pull.rows[q] = pulls[w].rows[q]
    BY <1>2, <1>4 DEF PullRow
<1> HIDE DEF pull
<1>7. Sound(w, pull)
    BY <1>1, <1>2, <1>3, <1>4, <1>5, <1>6 DEF Sound, AllOrNothing, MayInsert, Recorded
<1>8. QED
    BY <1>1, <1>4, <1>7, PullMarketInv

\* An order applied: mapped whole, enough of everything, and no row of stock
\* another pull has written.
LEMMA ImportMarketInv ==
    ASSUME MarketInv, NEW w \in Pullers, ImportOrder(w), \A p \in Products : stock[p] \in Nat
    PROVE  MarketInv'
<1> DEFINE o == Turn(w)
           items == Resolve(o)
           units == Units(o, items)
           row == [status |-> "imported", items |-> items]
           held == [p \in Products |-> pulls[w].held[p] + units[p]]
           pull == [pulls[w] EXCEPT !.left = Tail(@), !.rows[o] = row, !.moved[o] = units,
                                    !.held = held]
<1>1. Pulling(w) /\ pulls[w].left # <<>> /\ pulls' = [pulls EXCEPT ![w] = pull]
      /\ UNCHANGED <<stock, channelOn, listings, market, taken>>
      /\ MayInsert(w, o) /\ ~ Recorded(w, o) /\ Applicable(w, o)
      /\ \A p \in Products : units[p] > 0 => ~ LockedByPull(w, p)
    BY DEF ImportOrder, docVars
<1>2. pulls[w] \in PullRow /\ Sound(w, pulls[w]) /\ Tail(pulls[w].left) \in Seq(Incoming)
      /\ o \in Incoming /\ pulls[w].held \in [Products -> Nat]
    BY <1>1, PullFacts, TurnFacts, SoundPulls
<1>3. row \in ImportRow /\ row.status = "imported" /\ row # NoImport /\ row.items = items
      /\ units \in [Products -> Nat] /\ items \in [Externals -> Products \cup {NoProduct}]
    BY <1>2, ResolveTyped, UnitsTyped DEF ImportRow, NoImport
<1>4. \A x \in ItemsOf(o) : items[x] \in Products
    BY <1>1, <1>3 DEF Applicable, ItemsOf
<1>5. \A p \in Products : units[p] <= stock[p] - pulls[w].held[p]
    BY <1>1 DEF Applicable, Balance
<1>6. AllOrNothing(o, row, units)
    BY <1>3, <1>4 DEF AllOrNothing
<1> HIDE DEF row, units, items, o
<1>7. held \in [Products -> Nat] /\ \A p \in Products : /\ held[p] = pulls[w].held[p] + units[p]
                                                        /\ held[p] <= stock[p]
    BY <1>2, <1>3, <1>5
<1> HIDE DEF held
<1>8. /\ pull \in PullRow /\ pull.rows = [pulls[w].rows EXCEPT ![o] = row]
      /\ pull.moved = [pulls[w].moved EXCEPT ![o] = units] /\ pull.held = held
    BY <1>2, <1>3, <1>7 DEF PullRow
<1>9. /\ pull.rows[o] = row /\ pull.moved[o] = units
      /\ \A q \in Incoming \ {o} : /\ pull.rows[q] = pulls[w].rows[q]
                                   /\ pull.moved[q] = pulls[w].moved[q]
    BY <1>2, <1>8 DEF PullRow
<1> HIDE DEF pull
<1>10. ASSUME NEW p \in Products, pull.held[p] > 0 PROVE ~ LockedByPull(w, p)
    BY <1>1, <1>2, <1>3, <1>7, <1>8, <1>10 DEF Sound
<1>11. Sound(w, pull)
  <2>1. ASSUME NEW q \in Incoming
        PROVE  /\ AllOrNothing(q, pull.rows[q], pull.moved[q])
               /\ pull.rows[q] # NoImport =>
                     /\ market[q] = NoImport
                     /\ \A v \in Pullers \ {w} : Pulling(v) => pulls[v].rows[q] = NoImport
    <3>1. CASE q = o
        BY <1>1, <1>6, <1>9, <3>1 DEF MayInsert, Recorded
    <3>2. CASE q # o
        BY <1>2, <1>9, <3>2 DEF Sound
    <3>3. QED
        BY <3>1, <3>2
  <2>2. QED
      BY <1>7, <1>8, <1>10, <2>1 DEF Sound
<1>12. QED
    BY <1>1, <1>8, <1>11, PullMarketInv

\* What a pull commits becomes the table's, and no other pull had any of it.
LEMMA CommitMarketInv ==
    ASSUME MarketInv, NEW w \in Pullers, CommitPull(w), \A p \in Products : stock[p] \in Nat
    PROVE  MarketInv'
<1> DEFINE pull == pulls[w]
<1>1. /\ Pulling(w) /\ pulls' = [pulls EXCEPT ![w] = NoPull]
      /\ market' = [o \in Incoming |-> IF pull.rows[o] # NoImport THEN pull.rows[o] ELSE market[o]]
      /\ taken' = [o \in Incoming |-> [p \in Products |-> taken[o][p] + pull.moved[o][p]]]
      /\ stock' = [p \in Products |-> stock[p] - pull.held[p]]
      /\ UNCHANGED <<channelOn, listings>>
    BY DEF CommitPull
<1>2. MarketTypeOK /\ OrdersAllOrNothing /\ \A v \in Pullers : Pulling(v) => Sound(v, pulls[v])
    BY SoundPulls
<1>3. /\ pull.rows \in [Incoming -> {NoImport} \cup ImportRow]
      /\ pull.moved \in [Incoming -> [Products -> Nat]] /\ pull.held \in [Products -> Nat]
    BY <1>1, <1>2, PullFacts
<1>4. /\ ~ Pulling(w)'
      /\ \A v \in Pullers \ {w} : pulls'[v] = pulls[v] /\ (Pulling(v)' <=> Pulling(v))
    BY <1>1, <1>2 DEF MarketTypeOK, Pulling, NoPull
<1>5. MarketTypeOK'
  <2>1. market' \in [Incoming -> {NoImport} \cup ImportRow]
      BY <1>1, <1>2, <1>3 DEF MarketTypeOK
  <2>2. taken' \in [Incoming -> [Products -> Nat]]
      BY <1>1, <1>2, <1>3 DEF MarketTypeOK
  <2>3. pulls' \in [Pullers -> {NoPull} \cup PullRow]
      BY <1>1, <1>2 DEF MarketTypeOK
  <2>4. QED
      BY <1>1, <1>2, <2>1, <2>2, <2>3 DEF MarketTypeOK, ListingsOK
<1>6. ASSUME NEW o \in Incoming PROVE AllOrNothing(o, market'[o], taken'[o])
  <2>1. /\ AllOrNothing(o, pull.rows[o], pull.moved[o]) /\ AllOrNothing(o, market[o], taken[o])
        /\ pull.rows[o] # NoImport => market[o] = NoImport
        /\ taken[o] \in [Products -> Nat] /\ pull.moved[o] \in [Products -> Nat]
      BY <1>1, <1>2, <1>3 DEF Sound, OrdersAllOrNothing, MarketTypeOK
  <2>2. CASE pull.rows[o] # NoImport
    <3>1. market[o] = NoImport /\ taken[o] = Zero
        BY <2>1, <2>2 DEF AllOrNothing, NoImport
    <3>2. market'[o] = pull.rows[o] /\ taken'[o] = pull.moved[o]
        BY <1>1, <2>1, <2>2, <3>1 DEF Zero
    <3>3. QED
        BY <2>1, <3>2
  <2>3. CASE pull.rows[o] = NoImport
    <3>1. pull.moved[o] = Zero
        BY <2>1, <2>3 DEF AllOrNothing, NoImport
    <3>2. market'[o] = market[o] /\ taken'[o] = taken[o]
        BY <1>1, <2>1, <2>3, <3>1 DEF Zero
    <3>3. QED
        BY <2>1, <3>2
  <2>4. QED
      BY <2>2, <2>3
<1>7. ASSUME NEW v \in Pullers, Pulling(v)'
      PROVE  Sound(v, pulls[v])'
  <2>1. v # w /\ Pulling(v) /\ pulls'[v] = pulls[v] /\ Sound(v, pulls[v])
        /\ pulls[v].held \in [Products -> Nat]
      BY <1>2, <1>4, <1>7, PullFacts
  <2>2. ASSUME NEW o \in Incoming, pulls[v].rows[o] # NoImport
        PROVE  market'[o] = NoImport
      BY <1>1, <2>1, <2>2 DEF Sound
  <2>3. ASSUME NEW p \in Products PROVE pulls[v].held[p] <= stock'[p]
    <3>1. pulls[v].held[p] <= stock[p] /\ pull.held[p] \in Nat /\ pull.held[p] <= stock[p]
          /\ stock'[p] = stock[p] - pull.held[p] /\ stock[p] \in Nat /\ pulls[v].held[p] \in Nat
        BY <1>1, <1>2, <1>3, <2>1 DEF Sound
    <3>2. pulls[v].held[p] > 0 => pull.held[p] = 0
        BY <1>1, <2>1, <3>1 DEF Sound, LockedByPull
    <3>3. QED
        BY <3>1, <3>2
  <2>4. QED
      BY <1>4, <2>1, <2>2, <2>3
         DEF Sound, AllOrNothing, Units, Zero, ItemsOf, Asked, LockedByPull
<1>8. QED
    BY <1>5, <1>6, <1>7 DEF MarketInv, OrdersAllOrNothing, Sound, AllOrNothing, Units, Zero,
                            ItemsOf, Asked

\* Neither the listings nor the channel are of any matter to what was pulled.
LEMMA ListingMarketInv ==
    ASSUME MarketInv, UNCHANGED <<stock, market, taken, pulls>>,
           channelOn' \in BOOLEAN, ListingsOK(listings')
    PROVE  MarketInv'
<1>1. MarketTypeOK /\ OrdersAllOrNothing /\ \A v \in Pullers : Pulling(v) => Sound(v, pulls[v])
    BY SoundPulls
<1>2. MarketTypeOK'
    BY <1>1 DEF MarketTypeOK, ListingsOK
<1>3. QED
    BY <1>1, <1>2 DEF MarketInv, OrdersAllOrNothing, Sound, AllOrNothing, Units, Zero, ItemsOf,
                      Asked, LockedByPull, Pulling

LEMMA SyncMarketInv ==
    ASSUME MarketInv, NEW p \in Products, SyncProduct(p) \/ SyncFails(p) \/ SwitchChannel
    PROVE  MarketInv'
<1>1. channelOn \in BOOLEAN /\ ListingsOK(listings)
    BY DEF MarketInv, MarketTypeOK
<1>2. UNCHANGED <<stock, market, taken, pulls>> /\ channelOn' \in BOOLEAN
    BY <1>1 DEF SyncProduct, SyncFails, SwitchChannel, docVars
<1>3. ListingsOK(listings')
  <2>1. CASE SyncProduct(p)
    <3>1. PICK x \in Externals :
             /\ \A q \in Products \ {p} : listings[q].ext # x
             /\ listings' = [listings EXCEPT ![p] = [status |-> "synced", ext |-> x]]
        BY <2>1 DEF SyncProduct
    <3>2. QED
        BY <1>1, <3>1 DEF ListingsOK
  <2>2. CASE SyncFails(p)
    <3>1. listings' = [listings EXCEPT ![p] = [listings[p] EXCEPT !.status = "error"]]
        BY <2>2 DEF SyncFails
    <3> DEFINE l == [listings[p] EXCEPT !.status = "error"]
    <3>2. /\ l \in [status : {"none", "synced", "error"}, ext : Externals \cup {NoExternal}]
          /\ l.ext = listings[p].ext
        BY <1>1 DEF ListingsOK
    <3> HIDE DEF l
    <3>3. \A q \in Products : listings'[q].ext = listings[q].ext
        BY <1>1, <3>1, <3>2 DEF ListingsOK, l
    <3>4. listings' = [listings EXCEPT ![p] = l]
        BY <3>1 DEF l
    <3>5. QED
        BY <1>1, <3>2, <3>3, <3>4 DEF ListingsOK
  <2>3. CASE SwitchChannel
      BY <1>1, <2>3 DEF SwitchChannel
  <2>4. QED
      BY <2>1, <2>2, <2>3
<1>4. QED
    BY <1>2, <1>3, ListingMarketInv

-----------------------------------------------------------------------------
\* Stock that only changes where no pull holds any keeps the pulls sound.
LEMMA StockMarketInv ==
    ASSUME MarketInv, UNCHANGED marketVars, WaitsForPulls,
           \A p \in Products : stock[p] \in Nat /\ stock'[p] \in Nat
    PROVE  MarketInv'
<1>1. MarketTypeOK /\ OrdersAllOrNothing /\ \A v \in Pullers : Pulling(v) => Sound(v, pulls[v])
    BY SoundPulls
<1>2. UNCHANGED <<channelOn, listings, market, taken, pulls>>
    BY DEF marketVars
<1>3. MarketTypeOK' /\ OrdersAllOrNothing'
    BY <1>1, <1>2 DEF MarketTypeOK, ListingsOK, OrdersAllOrNothing, AllOrNothing, Units, Zero,
                      ItemsOf, Asked
<1>4. ASSUME NEW v \in Pullers, Pulling(v), NEW p \in Products
      PROVE  pulls[v].held[p] <= stock'[p]
  <2>1. pulls[v].held[p] <= stock[p]
      BY <1>1, <1>4 DEF Sound
  <2>2. CASE stock'[p] = stock[p]
      BY <2>1, <2>2
  <2>3. CASE stock'[p] # stock[p]
    <3>1. pulls[v].held[p] = 0
        BY <1>4, <2>3 DEF WaitsForPulls
    <3>2. QED
        BY <3>1
  <2>4. QED
      BY <2>2, <2>3
<1>5. QED
    BY <1>1, <1>2, <1>3, <1>4 DEF MarketInv, Sound, AllOrNothing, Units, Zero, ItemsOf, Asked,
                                  LockedByPull, Pulling

LEMMA DocStock == DocInv => \A p \in Products : stock[p] \in Nat
BY DEF DocInv, DocTypeOK

\* The units of a pull leave the shelf with a shift of their own.
LEMMA CommitDocInv ==
    ASSUME DocInv, MarketInv, NEW w \in Pullers, CommitPull(w)
    PROVE  DocInv'
<1> DEFINE held == pulls[w].held
<1>1. /\ Pulling(w)
      /\ stock' = [p \in Products |-> stock[p] - held[p]]
      /\ shelf' = [p \in Products |-> IF held[p] < shelf[p] THEN shelf[p] - held[p] ELSE 0]
      /\ shifts' = [p \in Products |-> shifts[p] + (IF held[p] > 0 THEN 1 ELSE 0)]
      /\ UNCHANGED <<agenda, docs, goods, cost, active, pc, req, contested>>
    BY DEF CommitPull, flight
<1>2. held \in [Products -> Nat] /\ \A p \in Products : held[p] <= stock[p]
    BY <1>1, PullFacts DEF MarketInv
<1>3. DocTypeOK
    BY DEF DocInv
<1> HIDE DEF held
<1>4. /\ stock' \in [Products -> Nat] /\ shelf' \in [Products -> Nat]
      /\ shifts' \in [Products -> Nat]
    BY <1>1, <1>2, <1>3 DEF DocTypeOK
<1>5. DocTypeOK'
    BY <1>1, <1>3, <1>4 DEF DocTypeOK, RequestOK
<1>6. Moved
    BY <1>1, <1>2, <1>3 DEF Moved, DocTypeOK
<1>7. QED
    BY <1>1, <1>5, <1>6, FrameDocInv

-----------------------------------------------------------------------------
(***************************************************************************)
(* An entry that is paid has its date, whatever step the documents take.   *)
(***************************************************************************)

\* What a document must be for PaidIsDated.
Dated(row) == row.kind = "entry" /\ row.status = "paid" => row.paidAt

LEMMA WriteKeepsDated ==
    ASSUME DocInv, PaidIsDated, NEW w \in Workers, pc[w] = "write", NEW row, Write(w, row),
           Dated(row)
    PROVE  PaidIsDated'
<1>1. docs' = [docs EXCEPT ![req[w].doc] = row] /\ DOMAIN docs = Docs
    BY DEF Write, DocInv, DocTypeOK
<1>2. \A d \in Docs : docs'[d] = docs[d] \/ docs'[d] = row
    BY <1>1
<1>3. QED
    BY <1>2 DEF PaidIsDated, Dated

LEMMA ServeKeepsDated ==
    ASSUME DocInv, PaidIsDated, NEW w \in Workers, Serve(w)
    PROVE  PaidIsDated'
<1> DEFINE d == req[w].doc
<1>1. pc[w] = "write"
    BY DEF Serve, Receive, Tally, Finalize, Edit, Pay, CancelOrder, CancelCount, CancelEntry,
           Cancel, At
<1>2. /\ RequestOK(w) /\ d \in Docs /\ docs[d] \in Row /\ docs[d].kind = KindOf(req[w].op)
      /\ docs[d].kind = "order" => docs[d] \in OrderRow
      /\ docs[d].kind = "count" => docs[d] \in CountRow
      /\ docs[d].kind = "entry" => docs[d] \in EntryRow
    BY <1>1, RequestFacts, RowOfKind DEF DocInv
<1>3. CASE Receive(w)
  <2>1. docs[d].kind = "order" /\ Write(w, [docs[d] EXCEPT !.status = "received"])
      BY <1>2, <1>3 DEF Receive, At, SetStatus, KindOf, OrderOps
  <2>2. Dated([docs[d] EXCEPT !.status = "received"])
      BY <1>2, <2>1, StatusSet DEF Dated
  <2>3. QED
      BY <1>1, <2>1, <2>2, WriteKeepsDated
<1>4. CASE Tally(w)
  <2> DEFINE arg == req[w].arg
             new == [docs[d] EXCEPT !.counted[arg.product] = arg.units, !.at[arg.product] = arg.at]
  <2>1. docs[d] \in CountRow /\ Write(w, new)
      BY <1>2, <1>4 DEF Tally, At, KindOf, OrderOps, CountOps
  <2>2. new.kind = "count"
      BY <2>1 DEF CountRow
  <2>3. Dated(new)
      BY <2>2 DEF Dated
  <2>4. QED
      BY <1>1, <2>1, <2>3, WriteKeepsDated
<1>5. CASE Finalize(w)
  <2>1. docs[d].kind = "count" /\ Write(w, [docs[d] EXCEPT !.status = "completed"])
      BY <1>2, <1>5 DEF Finalize, At, SetStatus, KindOf, OrderOps, CountOps
  <2>2. Dated([docs[d] EXCEPT !.status = "completed"])
      BY <1>2, <2>1, StatusSet DEF Dated
  <2>3. QED
      BY <1>1, <2>1, <2>2, WriteKeepsDated
<1>6. CASE Edit(w)
  <2> DEFINE new == Patched(docs[d], req[w].arg)
  <2>1. docs[d] \in EntryRow /\ Write(w, new)
      BY <1>2, <1>6 DEF Edit, At, KindOf, OrderOps, CountOps
  <2>2. new.kind = docs[d].kind /\ new.status = docs[d].status /\ new.paidAt = docs[d].paidAt
      BY <2>1 DEF Patched, EntryRow
  <2>3. Dated(new)
      BY <1>2, <2>2 DEF Dated, PaidIsDated
  <2>4. QED
      BY <1>1, <2>1, <2>3, WriteKeepsDated
<1>7. CASE Pay(w)
  <2> DEFINE new == [docs[d] EXCEPT !.status = "paid", !.paidAt = TRUE]
  <2>1. docs[d] \in EntryRow /\ Write(w, new)
      BY <1>2, <1>7 DEF Pay, At, KindOf, OrderOps, CountOps
  <2>2. new.paidAt
      BY <2>1 DEF EntryRow
  <2>3. Dated(new)
      BY <2>2 DEF Dated
  <2>4. QED
      BY <1>1, <2>1, <2>3, WriteKeepsDated
<1>8. CASE CancelOrder(w) \/ CancelCount(w) \/ CancelEntry(w)
  <2>1. Write(w, [docs[d] EXCEPT !.status = "canceled"])
      BY <1>8 DEF CancelOrder, CancelCount, CancelEntry, Cancel, SetStatus
  <2>2. Dated([docs[d] EXCEPT !.status = "canceled"])
      BY <1>2, StatusSet DEF Dated
  <2>3. QED
      BY <1>1, <2>1, <2>2, WriteKeepsDated
<1>9. QED
    BY <1>3, <1>4, <1>5, <1>6, <1>7, <1>8 DEF Serve

LEMMA InsertKeepsDated ==
    ASSUME DocInv, PaidIsDated, NEW row, Insert(row), Dated(row)
    PROVE  PaidIsDated'
<1>1. docs' = [docs EXCEPT ![FreshDoc] = row] /\ DOMAIN docs = Docs
    BY DEF Insert, DocInv, DocTypeOK
<1>2. \A d \in Docs : docs'[d] = docs[d] \/ docs'[d] = row
    BY <1>1
<1>3. QED
    BY <1>2 DEF PaidIsDated, Dated

LEMMA StepKeepsDated ==
    ASSUME DocInv, PaidIsDated, [DocNext]_docVars
    PROVE  PaidIsDated'
<1>1. CASE CreateOrder \/ CreateCount \/ CreateEntry
  <2>1. \E row : Insert(row) /\ Dated(row)
    <3>1. CASE CreateOrder
        BY <3>1 DEF CreateOrder, Dated
    <3>2. CASE CreateCount
        BY <3>2 DEF CreateCount, Dated
    <3>3. CASE CreateEntry
        BY <3>3 DEF CreateEntry, Dated
    <3>4. QED
        BY <1>1, <3>1, <3>2, <3>3
  <2>2. QED
      BY <2>1, InsertKeepsDated
<1>2. CASE \E w \in Workers : Serve(w)
    BY <1>2, ServeKeepsDated
<1>3. CASE UNCHANGED docs
    BY <1>3 DEF PaidIsDated
<1>4. ASSUME \/ \E w \in Workers : Fail(w)
             \/ \E w \in Workers, e \in Docs : AskOrder(w, e) \/ AskCount(w, e) \/ AskEntry(w, e)
             \/ \E p \in Tracked : Shift(p) \/ SwitchProduct(p)
             \/ UNCHANGED docVars
      PROVE  UNCHANGED docs
    BY <1>4 DEF Fail, AskOrder, AskCount, AskEntry, Check, Shift, SwitchProduct, docVars
<1>5. QED
    BY <1>1, <1>2, <1>3, <1>4 DEF DocNext

-----------------------------------------------------------------------------
(***************************************************************************)
(* Sums of what was sold and returned.                                     *)
(***************************************************************************)

\* The money in what was returned of a sale.
Cents(back) == SumFunctionOnSet([p \in Products |-> back[p].cents], Products)

LEMMA ProductsFinite == IsFiniteSet(Products) /\ IsFiniteSet(SaleIds)
BY ReportsAssumption

LEMMA CentsNat == ASSUME NEW back \in Back PROVE Cents(back) \in Nat
<1> DEFINE f == [p \in Products |-> back[p].cents]
<1>1. \A p \in Products : f[p] \in Nat
    BY DEF Back
<1> HIDE DEF f
<1>2. SumFunctionOnSet(f, Products) \in Nat
    BY <1>1, ProductsFinite, SumNat
<1>3. QED
    BY <1>2 DEF Cents, f

LEMMA CentsGrow ==
    ASSUME NEW old \in Back, NEW new \in Back, \A p \in Products : old[p].cents <= new[p].cents
    PROVE  Cents(old) <= Cents(new)
<1> DEFINE f == [p \in Products |-> old[p].cents]
           g == [p \in Products |-> new[p].cents]
<1>1. \A p \in Products : f[p] \in Int /\ g[p] \in Int /\ f[p] <= g[p]
    BY DEF Back
<1> HIDE DEF f, g
<1>2. SumFunctionOnSet(f, Products) <= SumFunctionOnSet(g, Products)
    BY <1>1, ProductsFinite, SumAtMost
<1>3. QED
    BY <1>2 DEF Cents, f, g

LEMMA NetIs ==
    \A s, back : NetOf(s, back) = book[s].total - Cents(back[s])
BY DEF NetOf, RefundedCents, Cents, SumOf

LEMMA ProductNat == \A m, n \in Nat : m * n \in Nat
OBVIOUS

\* Price times quantity, over the products of a sale.
LEMMA GrossOfUnits ==
    ASSUME NEW sale, sale.qty \in [Products -> Nat]
    PROVE  Gross(sale) \in Nat
<1> DEFINE f == [p \in Products |-> Price[p] * sale.qty[p]]
<1>1. \A p \in Products : f[p] \in Nat
  <2>1. \A p \in Products : Price[p] \in Nat /\ sale.qty[p] \in Nat
      BY ReportsAssumption
  <2>2. \A p \in Products : Price[p] * sale.qty[p] \in Nat
      BY <2>1, ProductNat
  <2>3. QED
      BY <2>2
<1> HIDE DEF f
<1>2. SumFunctionOnSet(f, Products) \in Nat
    BY <1>1, ProductsFinite, SumNat
<1>3. QED
    BY <1>2 DEF Gross, SumOf, f

LEMMA GrossNat == ASSUME NEW sale \in SaleRow PROVE Gross(sale) \in Nat
BY GrossOfUnits DEF SaleRow

LEMMA RoundedNat ==
    ASSUME NEW n \in Nat, NEW d \in Nat, d > 0
    PROVE  Rounded(n, d) \in Nat /\ Rounded(0, d) = 0
<1> DEFINE a == 2 * n + d
           b == 2 * d
<1>1. a \in Nat /\ b \in Nat /\ b > 0 /\ d \in Nat /\ d < b
    OBVIOUS
<1> HIDE DEF a, b
<1>2. a \div b \in Nat /\ d \div b = 0
    BY <1>1
<1>3. Rounded(n, d) = a \div b /\ Rounded(0, d) = d \div b
    BY DEF Rounded, a, b
<1>4. QED
    BY <1>2, <1>3

LEMMA RefundNat ==
    ASSUME NEW sale \in SaleRow, NEW p \in Products, NEW q \in Nat
    PROVE  RefundOfUnits(sale, p, q) \in Nat /\ RefundOfUnits(sale, p, 0) = 0
<1>1. Price[p] \in Nat /\ sale.total \in Nat /\ Gross(sale) \in Nat
    BY ReportsAssumption, GrossNat DEF SaleRow
<1>2. /\ Price[p] * q \in Nat /\ Price[p] * q * sale.total \in Nat
      /\ Price[p] * 0 = 0 /\ Price[p] * 0 * sale.total = 0
    BY <1>1, ProductNat
<1>3. CASE Gross(sale) > 0
    BY <1>1, <1>2, <1>3, RoundedNat DEF RefundOfUnits
<1>4. CASE ~ (Gross(sale) > 0)
    BY <1>2, <1>4 DEF RefundOfUnits
<1>5. QED
    BY <1>3, <1>4

-----------------------------------------------------------------------------
(***************************************************************************)
(* The reports' inductive invariant.                                       *)
(***************************************************************************)

LEMMA NoSaleIsNoRow == NoSale \notin SaleRow /\ NoSale.status = "none"
BY DEF NoSale, SaleRow

LEMMA RecordedSale ==
    ASSUME RepInv, NEW s \in SaleIds, book[s] # NoSale
    PROVE  /\ book[s] \in SaleRow /\ book[s].back \in Back
           /\ BackFits(book[s], book[s].back) /\ Priced(book[s])
<1>1. book[s] \in SaleRow
    BY DEF RepInv, RepTypeOK
<1>2. QED
    BY <1>1 DEF RepInv, SaleRow

\* Sums over the sales a report has read.
LEMMA ReadFinite ==
    ASSUME NEW S, S \subseteq SaleIds
    PROVE  IsFiniteSet(S)
BY ProductsFinite, FS_Subset

LEMMA NotReturnedTyped == NotReturned \in Back /\ \A p \in Products : NotReturned[p].cents = 0
BY DEF NotReturned, Back

LEMMA InitRepInv == RepInit /\ DocInit => RepInv
<1> SUFFICES ASSUME RepInit, DocInit PROVE RepInv
    OBVIOUS
<1>1. clock = 0 /\ book = [s \in SaleIds |-> NoSale] /\ view.phase = "none"
      /\ rates = [default |-> 0, own |-> [x \in Sellers |-> NoRate]]
    BY DEF RepInit, NoView
<1>2. RepTypeOK
    BY <1>1 DEF RepTypeOK, Rates
<1>3. PaidIsDated
    BY DEF DocInit, PaidIsDated, NoDoc
<1>4. QED
    BY <1>1, <1>2, <1>3 DEF RepInv

\* What the sales that were read bring is an integer, as of any of the reads.
LEMMA RevenueInt ==
    ASSUME NEW S, S \subseteq SaleIds, \A s \in S : book[s] \in SaleRow,
           NEW back, \A s \in S : back[s] \in Back
    PROVE  Revenue(S, back) \in Int
<1> DEFINE f == [s \in S |-> NetOf(s, back)]
<1>1. ASSUME NEW s \in S PROVE f[s] \in Int
  <2>1. f[s] = book[s].total - Cents(back[s])
      BY NetIs
  <2>2. book[s].total \in Nat /\ Cents(back[s]) \in Nat
      BY CentsNat DEF SaleRow
  <2>3. QED
      BY <2>1, <2>2
<1>2. Revenue(S, back) = SumFunctionOnSet(f, S)
    BY DEF Revenue, SumOf
<1> HIDE DEF f
<1>3. QED
    BY <1>1, <1>2, ReadFinite, SumInt

LEMMA RevenueNowInt == RepInv /\ view.phase # "none" => RevenueNow \in Int
<1> SUFFICES ASSUME RepInv, view.phase # "none" PROVE RevenueNow \in Int
    OBVIOUS
<1> DEFINE S == view.sales
           back == BackOf(S)
<1>1. S \subseteq SaleIds /\ \A s \in S : book[s] # NoSale
    BY DEF RepInv, RepTypeOK
<1>2. \A s \in S : book[s] \in SaleRow /\ back[s] \in Back
    BY <1>1, RecordedSale DEF BackOf
<1> HIDE DEF S, back
<1>3. Revenue(S, back) \in Int
    BY <1>1, <1>2, RevenueInt
<1>4. QED
    BY <1>3 DEF RevenueNow, S, back

\* A step that leaves what was read alone, and takes from the revenue of a sale
\* at most.
LEMMA BookRepInv ==
    ASSUME RepInv, UNCHANGED <<docs, view>>, clock' \in Nat, rates' \in Rates,
           book' \in [SaleIds -> {NoSale} \cup SaleRow],
           \A s \in SaleIds : book'[s] # NoSale =>
              BackFits(book'[s], book'[s].back) /\ Priced(book'[s]),
           \A s \in SaleIds : book[s] # NoSale =>
              /\ book'[s] # NoSale /\ book'[s].qty = book[s].qty /\ book'[s].total = book[s].total
              /\ \A p \in Products : book[s].back[p].cents <= book'[s].back[p].cents
    PROVE  RepInv'
<1> DEFINE S == view.sales
<1>1. RepTypeOK'
    BY DEF RepInv, RepTypeOK
<1>2. view.phase # "none" => S \subseteq SaleIds /\ \A s \in S : book[s] # NoSale
    BY DEF RepInv, RepTypeOK
<1>3. ASSUME view.phase # "none"
      PROVE  RevenueNow' <= RevenueNow /\ RevenueNow' \in Int /\ RevenueNow \in Int
  <2> DEFINE f == [s \in S |-> NetOf(s, BackOf(S))]
             g == [s \in S |-> book'[s].total - Cents(book'[s].back)]
  <2>1. ASSUME NEW s \in S PROVE f[s] \in Int /\ g[s] \in Int /\ g[s] <= f[s]
    <3>1. /\ s \in SaleIds /\ book[s] # NoSale /\ book'[s] # NoSale
          /\ book[s] \in SaleRow /\ book'[s] \in SaleRow
          /\ book'[s].total = book[s].total
        BY <1>2, <1>3, RecordedSale
    <3>2. /\ book[s].back \in Back /\ book'[s].back \in Back /\ book[s].total \in Nat
          /\ \A p \in Products : book[s].back[p].cents <= book'[s].back[p].cents
        BY <3>1 DEF SaleRow
    <3>3. /\ Cents(book[s].back) \in Nat /\ Cents(book'[s].back) \in Nat
          /\ Cents(book[s].back) <= Cents(book'[s].back)
        BY <3>2, CentsNat, CentsGrow
    <3>4. f[s] = book[s].total - Cents(book[s].back)
        BY NetIs DEF BackOf
    <3>5. QED
        BY <3>1, <3>2, <3>3, <3>4
  <2>2. RevenueNow = SumFunctionOnSet(f, S)
      BY DEF RevenueNow, Revenue, SumOf
  <2>3. RevenueNow' = SumFunctionOnSet(g, S)
    <3>1. \A s \in S : NetOf(s, BackOf(view.sales))' = g[s]
        BY DEF NetOf, RefundedCents, Cents, SumOf, BackOf
    <3>2. [s \in S |-> NetOf(s, BackOf(view.sales))'] = g
        BY <3>1
    <3> HIDE DEF g
    <3>3. RevenueNow' = SumFunctionOnSet([s \in S |-> NetOf(s, BackOf(view.sales))'], S)
        BY DEF RevenueNow, Revenue, SumOf
    <3>4. QED
        BY <3>2, <3>3
  <2> HIDE DEF f, g
  <2>4. SumFunctionOnSet(g, S) <= SumFunctionOnSet(f, S)
      BY <1>2, <1>3, <2>1, ReadFinite, SumAtMost
  <2>5. SumFunctionOnSet(g, S) \in Int /\ SumFunctionOnSet(f, S) \in Int
      BY <1>2, <1>3, <2>1, ReadFinite, SumInt
  <2>6. QED
      BY <2>2, <2>3, <2>4, <2>5
<1>4. ASSUME view.phase # "none", NEW back
      PROVE  SumFunctionOnSet([s \in S |-> book'[s].total - Cents(back[s])], S) = Revenue(S, back)
  <2>1. \A s \in S : NetOf(s, back) = book'[s].total - Cents(back[s])
      BY <1>2, <1>4, NetIs
  <2>2. [s \in S |-> NetOf(s, back)] = [s \in S |-> book'[s].total - Cents(back[s])]
      BY <2>1
  <2>3. QED
      BY <2>2 DEF Revenue, SumOf
<1>5. ASSUME view.phase \in {"refunds", "done"}
      PROVE  Revenue(view.sales, view.back)' = Revenue(S, view.back)
  <2>1. [s \in S |-> NetOf(s, view.back)'] = [s \in S |-> book'[s].total - Cents(view.back[s])]
      BY DEF NetOf, RefundedCents, Cents, SumOf
  <2>2. Revenue(view.sales, view.back)' = SumFunctionOnSet([s \in S |-> NetOf(s, view.back)'], S)
      BY DEF Revenue, SumOf
  <2>3. QED
      BY <1>4, <1>5, <2>1, <2>2
<1>6. ASSUME view.phase = "done"
      PROVE  Revenue(view.sales, view.lines)' = Revenue(S, view.lines)
  <2>1. [s \in S |-> NetOf(s, view.lines)'] = [s \in S |-> book'[s].total - Cents(view.lines[s])]
      BY DEF NetOf, RefundedCents, Cents, SumOf
  <2>2. Revenue(view.sales, view.lines)' = SumFunctionOnSet([s \in S |-> NetOf(s, view.lines)'], S)
      BY DEF Revenue, SumOf
  <2>3. QED
      BY <1>4, <1>6, <2>1, <2>2
<1>7. \A back : \A s \in S :
         view.phase # "none" /\ BackFits(book[s], back) => BackFits(book'[s], back)
    BY <1>2 DEF BackFits
<1>8. ASSUME view.phase \in {"refunds", "done"}
      PROVE  Revenue(S, view.back) \in Int /\ (view.phase = "done" => Revenue(S, view.lines) \in Int)
  <2>1. \A s \in S : view.back[s] \in Back /\ (view.phase = "done" => view.lines[s] \in Back)
      BY <1>8 DEF RepInv, RepTypeOK
  <2>2. S \subseteq SaleIds /\ \A s \in S : book[s] \in SaleRow
      BY <1>2, <1>8, RecordedSale
  <2> HIDE DEF S
  <2>3. QED
      BY <2>1, <2>2, RevenueInt
<1>9. view.phase = "sales" => RevenueNow' <= view.before
    BY <1>3 DEF RepInv, RepTypeOK
<1>10. view.phase \in {"refunds", "done"} =>
          /\ Revenue(view.sales, view.back)' <= view.before
          /\ \A s \in S : BackFits(book'[s], view.back[s])
    BY <1>5, <1>7 DEF RepInv
<1>11. view.phase = "refunds" => RevenueNow' <= Revenue(view.sales, view.back)'
    BY <1>3, <1>5, <1>8 DEF RepInv
<1>12. view.phase = "done" =>
          /\ RevenueNow' <= Revenue(view.sales, view.lines)'
          /\ Revenue(view.sales, view.lines)' <= Revenue(view.sales, view.back)'
          /\ \A s \in S : BackFits(book'[s], view.lines[s])
    BY <1>3, <1>5, <1>6, <1>7, <1>8 DEF RepInv
<1>13. PaidIsDated'
    BY DEF RepInv, PaidIsDated
<1>14. \A s \in SaleIds : (book[s] # NoSale => BackFits(book[s], book[s].back) /\ Priced(book[s]))'
    BY DEF BackFits, Priced, Gross, SumOf
<1> HIDE DEF S
<1>15. view' = view /\ S = view.sales
    BY DEF S
<1>16. \A s \in S : /\ BackFits(book[s], view.back[s])' = BackFits(book'[s], view.back[s])
                    /\ BackFits(book[s], view.lines[s])' = BackFits(book'[s], view.lines[s])
    BY <1>15 DEF BackFits
<1>17. QED
    BY <1>1, <1>9, <1>10, <1>11, <1>12, <1>13, <1>14, <1>15, <1>16 DEF RepInv

LEMMA StutterRepInv ==
    ASSUME RepInv, UNCHANGED reportVars, PaidIsDated'
    PROVE  RepInv'
<1>1. UNCHANGED <<clock, book, rates, view>>
    BY DEF reportVars
<1>2. QED
    BY <1>1 DEF RepInv, RepTypeOK, RevenueNow, Revenue, BackOf, NetOf, RefundedCents, SumOf, BackFits,
                Priced, Gross

LEMMA RecordSaleRepInv ==
    ASSUME RepInv, NEW s \in SaleIds, NEW b \in Baskets, RecordSale(s, b)
    PROVE  RepInv'
<1> DEFINE row == [status |-> "completed", at |-> clock, seller |-> b.seller, store |-> b.store,
                   qty |-> b.qty, discount |-> b.discount, redeemed |-> b.redeemed,
                   total |-> Gross(b) - b.discount - b.redeemed, back |-> NotReturned]
<1>1. /\ book[s] = NoSale /\ Gross(b) - b.discount - b.redeemed >= 0
      /\ book' = [book EXCEPT ![s] = row]
      /\ UNCHANGED <<docs, clock, rates, view>>
    BY DEF RecordSale, docVars
<1>2. RepTypeOK /\ b \in Basket
    BY ReportsAssumption DEF RepInv
<1>3. row \in SaleRow
  <2>1. Gross(b) \in Nat /\ b.discount \in Nat /\ b.redeemed \in Nat
      BY <1>2, GrossOfUnits DEF Basket
  <2>2. Gross(b) - b.discount - b.redeemed \in Nat
      BY <1>1, <2>1
  <2>3. QED
      BY <1>2, <2>2, NotReturnedTyped DEF RepTypeOK, Basket, SaleRow
<1>4. BackFits(row, row.back) /\ Priced(row)
  <2>1. Gross(row) = Gross(b)
      BY DEF Gross, SumOf
  <2>2. Priced(row)
      BY <2>1 DEF Priced
  <2>3. QED
      BY <1>2, <2>2 DEF BackFits, NotReturned, Basket
<1> HIDE DEF row
<1>5. /\ book'[s] = row /\ \A t \in SaleIds \ {s} : book'[t] = book[t]
      /\ book' \in [SaleIds -> {NoSale} \cup SaleRow]
    BY <1>1, <1>2, <1>3 DEF RepTypeOK
<1>6. \A t \in SaleIds : book'[t] # NoSale => BackFits(book'[t], book'[t].back) /\ Priced(book'[t])
    BY <1>4, <1>5 DEF RepInv
<1>7. ASSUME NEW t \in SaleIds, book[t] # NoSale
      PROVE  book'[t] = book[t] /\ \A p \in Products : book[t].back[p].cents \in Nat
    BY <1>1, <1>5, <1>7, RecordedSale DEF Back
<1>8. \A t \in SaleIds : book[t] # NoSale =>
        /\ book'[t] # NoSale /\ book'[t].qty = book[t].qty /\ book'[t].total = book[t].total
        /\ \A p \in Products : book[t].back[p].cents <= book'[t].back[p].cents
    BY <1>7
<1>9. QED
    BY <1>1, <1>2, <1>5, <1>6, <1>8, BookRepInv DEF RepTypeOK

\* What was returned before, and q more units of each product.
MoreBack(sale, q) ==
    [p \in Products |-> [qty |-> sale.back[p].qty + q[p],
                         cents |-> sale.back[p].cents + RefundOfUnits(sale, p, q[p])]]

LEMMA MoreBackFits ==
    ASSUME NEW sale \in SaleRow, BackFits(sale, sale.back), NEW q \in [Products -> Nat],
           \A p \in Products : MoreBack(sale, q)[p].qty <= sale.qty[p]
    PROVE  /\ MoreBack(sale, q) \in Back /\ BackFits(sale, MoreBack(sale, q))
           /\ \A p \in Products : sale.back[p].cents <= MoreBack(sale, q)[p].cents
<1> DEFINE more(p) == RefundOfUnits(sale, p, q[p])
<1>1. \A p \in Products : more(p) \in Nat /\ (q[p] = 0 => more(p) = 0)
    BY RefundNat
<1> HIDE DEF more
<1>2. \A p \in Products : /\ sale.back[p].qty \in Nat /\ sale.back[p].cents \in Nat
                          /\ sale.back[p].qty = 0 => sale.back[p].cents = 0
    BY DEF SaleRow, Back, BackFits
<1>3. \A p \in Products : MoreBack(sale, q)[p] = [qty |-> sale.back[p].qty + q[p],
                                                   cents |-> sale.back[p].cents + more(p)]
    BY DEF MoreBack, more
<1>4. ASSUME NEW p \in Products
      PROVE  LET new == MoreBack(sale, q)[p] IN
             /\ new \in [qty : Nat, cents : Nat] /\ sale.back[p].cents <= new.cents
             /\ new.qty = 0 => new.cents = 0
  <2>1. PICK a \in Nat, b \in Nat, c \in Nat, m \in Nat :
           /\ a = sale.back[p].qty /\ b = sale.back[p].cents /\ c = q[p] /\ m = more(p)
           /\ a = 0 => b = 0
           /\ c = 0 => m = 0
      BY <1>1, <1>2
  <2> DEFINE new == MoreBack(sale, q)[p]
  <2>2. new = [qty |-> a + c, cents |-> b + m]
      BY <1>3, <2>1
  <2> HIDE DEF new
  <2>3. new \in [qty : Nat, cents : Nat] /\ new.qty = a + c /\ new.cents = b + m
      BY <2>2
  <2>4. b <= b + m /\ (a + c = 0 => b + m = 0)
      BY <2>1
  <2>5. sale.back[p].cents <= new.cents
      BY <2>1, <2>3, <2>4
  <2>6. new.qty = 0 => new.cents = 0
      BY <2>3, <2>4
  <2>7. QED
      BY <2>3, <2>5, <2>6 DEF new
<1>5. DOMAIN MoreBack(sale, q) = Products /\ MoreBack(sale, q) = [p \in Products |-> MoreBack(sale, q)[p]]
    BY DEF MoreBack
<1>6. MoreBack(sale, q) \in Back
    BY <1>4, <1>5 DEF Back
<1>7. \A p \in Products : MoreBack(sale, q)[p].qty = 0 => MoreBack(sale, q)[p].cents = 0
    BY <1>4
<1>8. \A p \in Products : sale.back[p].cents <= MoreBack(sale, q)[p].cents
    BY <1>4
<1>9. QED
    BY <1>6, <1>7, <1>8 DEF BackFits

LEMMA ReturnUnitsRepInv ==
    ASSUME RepInv, NEW s \in SaleIds, NEW q \in [Products -> 0 .. 2], ReturnUnits(s, q)
    PROVE  RepInv'
<1> DEFINE sale == book[s]
           back == MoreBack(sale, q)
           status == IF \A p \in Products : back[p].qty = sale.qty[p] THEN "canceled" ELSE "completed"
<1>1. /\ sale.status = "completed" /\ \A p \in Products : back[p].qty <= sale.qty[p]
      /\ book' = [book EXCEPT ![s].back = back, ![s].status = status]
      /\ UNCHANGED <<docs, clock, rates, view>>
    BY DEF ReturnUnits, MoreBack, docVars
<1>2. sale \in SaleRow /\ BackFits(sale, sale.back) /\ Priced(sale) /\ RepTypeOK
    BY <1>1, NoSaleIsNoRow, RecordedSale DEF RepInv
<1>3. /\ back \in Back /\ BackFits(sale, back)
      /\ \A p \in Products : sale.back[p].cents <= back[p].cents
    BY <1>1, <1>2, MoreBackFits
<1> DEFINE row == [sale EXCEPT !.back = back, !.status = status]
<1>4. status \in {"canceled", "completed"} /\ book' = [book EXCEPT ![s] = row]
    BY <1>1, <1>2 DEF RepTypeOK, SaleRow
<1> HIDE DEF back, status
<1>5. /\ row \in SaleRow /\ row.back = back /\ row.qty = sale.qty /\ row.total = sale.total
      /\ row.discount = sale.discount /\ row.redeemed = sale.redeemed
    BY <1>2, <1>3, <1>4 DEF SaleRow
<1> HIDE DEF row
<1>6. Priced(row)
  <2>1. Gross(row) = Gross(sale)
      BY <1>5 DEF Gross, SumOf
  <2>2. QED
      BY <1>2, <1>5, <2>1 DEF Priced
<1>7. /\ book'[s] = row /\ \A t \in SaleIds \ {s} : book'[t] = book[t]
      /\ book' \in [SaleIds -> {NoSale} \cup SaleRow]
    BY <1>2, <1>4, <1>5 DEF RepTypeOK
<1>8. \A t \in SaleIds : book'[t] # NoSale => BackFits(book'[t], book'[t].back) /\ Priced(book'[t])
    BY <1>3, <1>5, <1>7, <1>6 DEF RepInv, BackFits
<1>9. ASSUME NEW t \in SaleIds, book[t] # NoSale
      PROVE  /\ book'[t] # NoSale /\ book'[t].qty = book[t].qty /\ book'[t].total = book[t].total
             /\ \A p \in Products : book[t].back[p].cents <= book'[t].back[p].cents
  <2>1. CASE t = s
      BY <1>3, <1>5, <1>7, <2>1, NoSaleIsNoRow
  <2>2. CASE t # s
    <3>1. \A p \in Products : book[t].back[p].cents \in Nat
        BY <1>9, RecordedSale DEF Back
    <3>2. QED
        BY <1>7, <1>9, <2>2, <3>1
  <2>3. QED
      BY <2>1, <2>2
<1>10. QED
    BY <1>1, <1>2, <1>7, <1>8, <1>9, BookRepInv DEF RepTypeOK

LEMMA RateRepInv ==
    ASSUME RepInv, UNCHANGED <<docs, book, view>>, clock' \in Nat, rates' \in Rates
    PROVE  RepInv'
<1>1. book' \in [SaleIds -> {NoSale} \cup SaleRow]
      /\ \A s \in SaleIds : book'[s] # NoSale => BackFits(book'[s], book'[s].back) /\ Priced(book'[s])
    BY DEF RepInv, RepTypeOK
<1>2. \A s \in SaleIds : book[s] # NoSale =>
        /\ book'[s] # NoSale /\ book'[s].qty = book[s].qty /\ book'[s].total = book[s].total
        /\ \A p \in Products : book[s].back[p].cents <= book'[s].back[p].cents
  <2>1. \A s \in SaleIds : book[s] # NoSale => \A p \in Products : book[s].back[p].cents \in Nat
      BY RecordedSale DEF Back
  <2>2. QED
      BY <2>1
<1>3. QED
    BY <1>1, <1>2, BookRepInv

LEMMA RangeTyped ==
    ASSUME RepInv, NEW q \in Queries
    PROVE  ResolvedRange(q).first \in Int /\ ResolvedRange(q).last \in Int
<1>1. /\ q \in Query /\ TicksPerDay \in Nat /\ LastTick \in Nat /\ DefaultDays \in Nat /\ DefaultDays > 0
      /\ clock \in Nat
    BY ReportsAssumption DEF RepInv, RepTypeOK
<1>2. /\ q.from # NoDay => q.from \in Nat
      /\ q.to # NoDay => q.to \in Nat
    BY <1>1 DEF Query, Days
<1>3. /\ q.from # NoDay => q.from * TicksPerDay \in Nat
      /\ q.to # NoDay => q.to * TicksPerDay \in Nat
      /\ (DefaultDays - 1) * TicksPerDay \in Nat
    BY <1>1, <1>2, ProductNat
<1>4. QED
    BY <1>1, <1>2, <1>3 DEF ResolvedRange

LEMMA ReadSalesRepInv ==
    ASSUME RepInv, NEW q \in Queries, ReadSales(q)
    PROVE  RepInv'
<1> DEFINE S == CompletedIn(ResolvedRange(q))
<1>1. /\ view' = [phase |-> "sales", range |-> ResolvedRange(q), sales |-> S,
                  before |-> Revenue(S, BackOf(S))]
      /\ UNCHANGED <<docs, clock, book, rates>>
    BY DEF ReadSales, docVars
<1>2. S \subseteq SaleIds /\ \A s \in S : book[s] # NoSale
    BY NoSaleIsNoRow DEF CompletedIn
<1>3. Revenue(S, BackOf(S)) \in Int
  <2> DEFINE back == BackOf(S)
  <2>1. \A s \in S : book[s] \in SaleRow /\ back[s] \in Back
      BY <1>2, RecordedSale DEF BackOf
  <2> HIDE DEF S, back
  <2>2. Revenue(S, back) \in Int
      BY <1>2, <2>1, RevenueInt
  <2>3. QED
      BY <2>2 DEF back
<1>4. RepTypeOK'
    BY <1>1, <1>2, <1>3, RangeTyped DEF RepInv, RepTypeOK
<1>5. RevenueNow' = Revenue(S, BackOf(S))
    BY <1>1 DEF RevenueNow, Revenue, BackOf, NetOf, RefundedCents, SumOf
<1>6. RevenueNow' <= view'.before
    BY <1>1, <1>3, <1>5
<1>7. QED
    BY <1>1, <1>4, <1>6 DEF RepInv, PaidIsDated, BackFits, Priced, Gross, SumOf

\* What a report reads is what the sales bring now.
LEMMA ReadRefundsRepInv ==
    ASSUME RepInv, ReadRefunds
    PROVE  RepInv'
<1> DEFINE S == view.sales
<1>1. /\ view.phase = "sales" /\ UNCHANGED <<docs, clock, book, rates>>
      /\ view' = [phase |-> "refunds", range |-> view.range, sales |-> S,
                  before |-> view.before, back |-> BackOf(S), rates |-> rates]
    BY DEF ReadRefunds, docVars
<1>2. S \subseteq SaleIds /\ \A s \in S : book[s] # NoSale
    BY <1>1 DEF RepInv, RepTypeOK
<1>3. \A s \in S : book[s].back \in Back /\ BackFits(book[s], book[s].back)
    BY <1>2, RecordedSale
<1>4. BackOf(S) \in [S -> Back]
    BY <1>3 DEF BackOf
<1>5. RepTypeOK'
    BY <1>1, <1>4 DEF RepInv, RepTypeOK
<1>6. Revenue(view.sales, view.back)' = RevenueNow /\ RevenueNow' = RevenueNow
    BY <1>1 DEF RevenueNow, Revenue, NetOf, RefundedCents, SumOf, BackOf
<1>7. \A s \in S : BackFits(book[s], BackOf(S)[s])
    BY <1>3 DEF BackOf
<1>8. RevenueNow \in Int /\ RevenueNow <= view.before
    BY <1>1, RevenueNowInt DEF RepInv
<1>9. QED
    BY <1>1, <1>5, <1>6, <1>7, <1>8 DEF RepInv, PaidIsDated, BackFits, Priced, Gross, SumOf

LEMMA ReadLinesRepInv ==
    ASSUME RepInv, ReadLines
    PROVE  RepInv'
<1> DEFINE S == view.sales
<1>1. /\ view.phase = "refunds" /\ UNCHANGED <<docs, clock, book, rates>>
      /\ view' = [phase |-> "done", range |-> view.range, sales |-> S,
                  before |-> view.before, back |-> view.back, rates |-> view.rates,
                  lines |-> BackOf(S)]
    BY DEF ReadLines, docVars
<1>2. S \subseteq SaleIds /\ \A s \in S : book[s] # NoSale
    BY <1>1 DEF RepInv, RepTypeOK
<1>3. \A s \in S : book[s].back \in Back /\ BackFits(book[s], book[s].back)
    BY <1>2, RecordedSale
<1>4. BackOf(S) \in [S -> Back]
    BY <1>3 DEF BackOf
<1>5. RepTypeOK'
    BY <1>1, <1>4 DEF RepInv, RepTypeOK
<1>6. /\ Revenue(view.sales, view.lines)' = RevenueNow /\ RevenueNow' = RevenueNow
      /\ Revenue(view.sales, view.back)' = Revenue(S, view.back)
    BY <1>1 DEF RevenueNow, Revenue, NetOf, RefundedCents, SumOf, BackOf
<1>7. \A s \in S : BackFits(book[s], BackOf(S)[s])
    BY <1>3 DEF BackOf
<1>8. RevenueNow \in Int /\ RevenueNow <= Revenue(S, view.back) /\ Revenue(S, view.back) <= view.before
    BY <1>1, RevenueNowInt DEF RepInv
<1>9. \A s \in S : BackFits(book[s], view.back[s])
    BY <1>1 DEF RepInv
<1>10. QED
    BY <1>1, <1>5, <1>6, <1>7, <1>8, <1>9 DEF RepInv, PaidIsDated, BackFits, Priced, Gross, SumOf

LEMMA StepRepInv ==
    ASSUME RepInv, RepNext
    PROVE  RepInv'
<1>1. RepTypeOK
    BY DEF RepInv
<1>2. CASE Tick
    BY <1>1, <1>2, RateRepInv DEF Tick, docVars, RepTypeOK
<1>3. ASSUME NEW s \in SaleIds, NEW b \in Baskets, RecordSale(s, b) PROVE RepInv'
    BY <1>3, RecordSaleRepInv
<1>4. ASSUME NEW s \in SaleIds, NEW q \in [Products -> 0 .. 2], ReturnUnits(s, q) PROVE RepInv'
    BY <1>4, ReturnUnitsRepInv
<1>5. ASSUME NEW bps \in RateValues, SetDefaultRate(bps) PROVE RepInv'
  <2>1. bps \in Nat
      BY ReportsAssumption
  <2>2. rates' \in Rates
      BY <1>1, <1>5, <2>1 DEF SetDefaultRate, RepTypeOK, Rates
  <2>3. QED
      BY <1>1, <1>5, <2>2, RateRepInv DEF SetDefaultRate, docVars, RepTypeOK
<1>6. ASSUME NEW x \in Sellers, NEW bps \in RateValues \cup {NoRate}, SetOwnRate(x, bps) PROVE RepInv'
  <2>1. rates' \in Rates
      BY <1>1, <1>6 DEF SetOwnRate, RepTypeOK, Rates
  <2>2. QED
      BY <1>1, <1>6, <2>1, RateRepInv DEF SetOwnRate, docVars, RepTypeOK
<1>7. ASSUME NEW q \in Queries, ReadSales(q) PROVE RepInv'
    BY <1>7, ReadSalesRepInv
<1>8. CASE ReadRefunds \/ ReadLines
    BY <1>8, ReadRefundsRepInv, ReadLinesRepInv
<1>9. CASE EndReport
  <2>1. UNCHANGED <<docs, clock, book, rates>> /\ view'.phase = "none"
      BY <1>9 DEF EndReport, docVars, NoView
  <2>2. QED
      BY <2>1 DEF RepInv, RepTypeOK, PaidIsDated, BackFits, Priced, Gross, SumOf
<1>10. QED
    BY <1>2, <1>3, <1>4, <1>5, <1>6, <1>7, <1>8, <1>9 DEF RepNext

-----------------------------------------------------------------------------
(***************************************************************************)
(* The figures of the reports, over sales S with `back` returned of them.  *)
(***************************************************************************)

Read(S, back) ==
    /\ S \subseteq SaleIds
    /\ \A s \in S : book[s] \in SaleRow /\ back[s] \in Back /\ BackFits(book[s], back[s])

LEMMA NetInt ==
    ASSUME NEW S, NEW back, Read(S, back), NEW s \in S
    PROVE  NetOf(s, back) \in Int /\ NetOf(s, back) = book[s].total - Cents(back[s])
<1>1. book[s].total \in Nat /\ Cents(back[s]) \in Nat
    BY CentsNat DEF Read, SaleRow
<1>2. QED
    BY <1>1, NetIs

\* The keys of a finite set are finitely many.
LEMMA KeysFinite ==
    ASSUME NEW key, NEW S, IsFiniteSet(S)
    PROVE  IsFiniteSet({key[x] : x \in S})
<1> DEFINE K == {key[x] : x \in S}
           k == [x \in S |-> key[x]]
<1>1. k \in Surjection(S, K)
    BY DEF Surjection
<1>2. QED
    BY <1>1, FS_Surjection

\* A row for each key with the sum of its elements: the rows add up to the sum
\* of all.
LEMMA RowsAddUp ==
    ASSUME NEW f, NEW key, NEW S, IsFiniteSet(S), \A x \in S : f[x] \in Int,
           NEW r, NEW K, K = {key[x] : x \in S},
           \A k \in K : r[k] = SumFunctionOnSet(f, Group(S, key, k))
    PROVE  SumFunctionOnSet(r, K) = SumFunctionOnSet(f, S)
<1>1. IsFiniteSet(K)
    BY KeysFinite
<1>2. \A k \in K : r[k] = ByGroup(f, S, key, K)[k]
    BY DEF ByGroup
<1>3. SumFunctionOnSet(r, K) = SumFunctionOnSet(ByGroup(f, S, key, K), K)
    BY <1>1, <1>2, SumSame
<1>4. \A x \in S : f[x] \in Int /\ key[x] \in K
    OBVIOUS
<1>5. SumFunctionOnSet(ByGroup(f, S, key, K), K) = SumFunctionOnSet(f, S)
    BY <1>1, <1>4, SumByGroup
<1>6. QED
    BY <1>3, <1>5

\* A ranking of the sales by some key.
RankedBy(ranking, key, S, back) ==
    /\ DOMAIN ranking = {key[s] : s \in S}
    /\ \A x \in DOMAIN ranking :
          /\ ranking[x].sales = Cardinality(Group(S, key, x))
          /\ ranking[x].revenue = SumFunctionOnSet([s \in Group(S, key, x) |-> NetOf(s, back)],
                                                   Group(S, key, x))

LEMMA RankingAddsUp ==
    ASSUME NEW S, NEW back, Read(S, back), NEW key, NEW ranking, RankedBy(ranking, key, S, back)
    PROVE  SumRows(ranking) = Revenue(S, back) /\ CountRows(ranking) = Cardinality(S)
<1> DEFINE K == DOMAIN ranking
           f == [s \in S |-> NetOf(s, back)]
           r == [x \in K |-> ranking[x].revenue]
           one == [s \in S |-> 1]
           n == [x \in K |-> ranking[x].sales]
<1>1. IsFiniteSet(S) /\ \A x : Group(S, key, x) \subseteq S
    BY ReadFinite DEF Read, Group
<1>2. \A x : IsFiniteSet(Group(S, key, x))
    BY <1>1, FS_Subset
<1>3. /\ SumRows(ranking) = SumFunctionOnSet(r, K) /\ CountRows(ranking) = SumFunctionOnSet(n, K)
      /\ Revenue(S, back) = SumFunctionOnSet(f, S) /\ K = {key[s] : s \in S}
    BY DEF SumRows, CountRows, Revenue, SumOf, RankedBy
<1>4. \A s \in S : f[s] \in Int
    BY NetInt
<1>5. ASSUME NEW x \in K PROVE r[x] = SumFunctionOnSet(f, Group(S, key, x))
  <2> DEFINE g == [s \in Group(S, key, x) |-> NetOf(s, back)]
  <2>1. r[x] = SumFunctionOnSet(g, Group(S, key, x))
      BY DEF RankedBy
  <2>2. \A s \in Group(S, key, x) : g[s] = f[s]
      BY <1>1
  <2> HIDE DEF g, f, r
  <2>3. SumFunctionOnSet(g, Group(S, key, x)) = SumFunctionOnSet(f, Group(S, key, x))
      BY <1>2, <2>2, SumSame
  <2>4. QED
      BY <2>1, <2>3
<1>6. ASSUME NEW x \in K PROVE n[x] = SumFunctionOnSet(one, Group(S, key, x))
  <2>1. n[x] = Cardinality(Group(S, key, x))
      BY DEF RankedBy
  <2>2. \A s \in Group(S, key, x) : one[s] = 1
      BY <1>1
  <2> HIDE DEF one, n
  <2>3. /\ SumFunctionOnSet(one, Group(S, key, x)) = 1 * Cardinality(Group(S, key, x))
        /\ Cardinality(Group(S, key, x)) \in Nat
      BY <1>2, <2>2, SumConstant, FS_CardinalityType
  <2>4. QED
      BY <2>1, <2>3
<1>7. \A s \in S : one[s] = 1 /\ one[s] \in Int
    OBVIOUS
<1> HIDE DEF K, f, r, n, one
<1>8. SumFunctionOnSet(r, K) = SumFunctionOnSet(f, S)
    BY <1>1, <1>3, <1>4, <1>5, RowsAddUp
<1>9. SumFunctionOnSet(n, K) = SumFunctionOnSet(one, S)
    BY <1>1, <1>3, <1>6, <1>7, RowsAddUp
<1>10. SumFunctionOnSet(one, S) = 1 * Cardinality(S) /\ Cardinality(S) \in Nat
    BY <1>1, <1>7, SumConstant, FS_CardinalityType
<1>11. QED
    BY <1>3, <1>8, <1>9, <1>10

LEMMA SellersAddUp ==
    ASSUME NEW S, NEW back, Read(S, back)
    PROVE  /\ SumRows(SellerRanking(S, back)) = Revenue(S, back)
           /\ CountRows(SellerRanking(S, back)) = Cardinality(S)
<1> DEFINE key == [s \in SaleIds |-> book[s].seller]
           K == {key[s] : s \in S}
<1>1. S \subseteq SaleIds /\ \A s \in S : key[s] = book[s].seller
    BY DEF Read
<1>2. K = {book[s].seller : s \in S} /\ \A x : Group(S, key, x) = {s \in S : book[s].seller = x}
    BY <1>1 DEF Group
<1> HIDE DEF key
<1>3. SellerRanking(S, back)
        = [x \in K |-> [sales |-> Cardinality(Group(S, key, x)),
                        revenue |-> SumFunctionOnSet([s \in Group(S, key, x) |-> NetOf(s, back)],
                                                     Group(S, key, x))]]
    BY <1>2 DEF SellerRanking, SumOf
<1>4. RankedBy(SellerRanking(S, back), key, S, back)
    BY <1>3 DEF RankedBy
<1>5. QED
    BY <1>4, RankingAddsUp

LEMMA StoresAddUp ==
    ASSUME NEW S, NEW back, Read(S, back)
    PROVE  /\ SumRows(StoreRanking(S, back)) = Revenue(S, back)
           /\ CountRows(StoreRanking(S, back)) = Cardinality(S)
<1> DEFINE key == [s \in SaleIds |-> book[s].store]
           K == {key[s] : s \in S}
<1>1. S \subseteq SaleIds /\ \A s \in S : key[s] = book[s].store
    BY DEF Read
<1>2. K = {book[s].store : s \in S} /\ \A x : Group(S, key, x) = {s \in S : book[s].store = x}
    BY <1>1 DEF Group
<1> HIDE DEF key
<1>3. StoreRanking(S, back)
        = [x \in K |-> [sales |-> Cardinality(Group(S, key, x)),
                        revenue |-> SumFunctionOnSet([s \in Group(S, key, x) |-> NetOf(s, back)],
                                                     Group(S, key, x))]]
    BY <1>2 DEF StoreRanking, SumOf
<1>4. RankedBy(StoreRanking(S, back), key, S, back)
    BY <1>3 DEF RankedBy
<1>5. QED
    BY <1>4, RankingAddsUp

\* The rows of the export add up to the revenue.
LEMMA CsvAddsUp ==
    ASSUME NEW S, NEW back, Read(S, back)
    PROVE  Revenue(S, back) = SumOf(S, LAMBDA s : SalesCsv(S, back)[s].total - SalesCsv(S, back)[s].returned)
<1>1. \A s \in S : SalesCsv(S, back)[s].total - SalesCsv(S, back)[s].returned = NetOf(s, back)
    BY DEF SalesCsv, NetOf
<1>2. [s \in S |-> SalesCsv(S, back)[s].total - SalesCsv(S, back)[s].returned]
        = [s \in S |-> NetOf(s, back)]
    BY <1>1
<1>3. QED
    BY <1>2 DEF Revenue, SumOf

\* What was sold of a product, at list price but for what was refunded of it.
Sold(s, back, p) == Price[p] * book[s].qty[p] - back[s][p].cents

LEMMA SoldInt ==
    ASSUME NEW S, NEW back, Read(S, back), NEW s \in S, NEW p \in Products
    PROVE  /\ Sold(s, back, p) \in Int
           /\ book[s].qty[p] \in Nat /\ back[s][p].qty \in Nat /\ back[s][p].cents \in Nat
           /\ book[s].qty[p] = 0 => Sold(s, back, p) = 0 /\ back[s][p].qty = 0
<1>1. /\ Price[p] \in Nat /\ book[s].qty[p] \in Nat
      /\ back[s][p].qty \in Nat /\ back[s][p].cents \in Nat
      /\ back[s][p].qty <= book[s].qty[p]
      /\ back[s][p].qty = 0 => back[s][p].cents = 0
    BY ReportsAssumption DEF Read, SaleRow, Back, BackFits
<1>2. Price[p] * book[s].qty[p] \in Nat /\ Price[p] * 0 = 0
    BY <1>1, ProductNat
<1>3. QED
    BY <1>1, <1>2 DEF Sold

\* Over its products, a sale is sold at list price but for what was refunded.
LEMMA SoldOfSale ==
    ASSUME NEW S, NEW back, Read(S, back), NEW s \in S
    PROVE  /\ SumFunctionOnSet([p \in Products |-> Sold(s, back, p)], Products)
                = Gross(book[s]) - Cents(back[s])
           /\ Gross(book[s]) \in Nat /\ Cents(back[s]) \in Nat
<1> DEFINE h == [p \in Products |-> Sold(s, back, p)]
           f == [p \in Products |-> Price[p] * book[s].qty[p]]
           g == [p \in Products |-> back[s][p].cents]
<1>1. \A p \in Products : f[p] \in Int /\ g[p] \in Int /\ h[p] = f[p] - g[p]
  <2>1. \A p \in Products : Price[p] \in Nat /\ book[s].qty[p] \in Nat /\ back[s][p].cents \in Nat
      BY SoldInt, ReportsAssumption
  <2>2. \A p \in Products : Price[p] * book[s].qty[p] \in Nat
      BY <2>1, ProductNat
  <2>3. QED
      BY <2>1, <2>2 DEF Sold
<1>2. Gross(book[s]) = SumFunctionOnSet(f, Products) /\ Cents(back[s]) = SumFunctionOnSet(g, Products)
    BY DEF Gross, Cents, SumOf
<1>3. book[s] \in SaleRow /\ back[s] \in Back
    BY DEF Read
<1> HIDE DEF f, g, h
<1>4. SumFunctionOnSet(h, Products) = SumFunctionOnSet(f, Products) - SumFunctionOnSet(g, Products)
    BY <1>1, ProductsFinite, SumMinus
<1>5. QED
    BY <1>2, <1>3, <1>4, GrossNat, CentsNat DEF h

\* The products that were sold.
Ranked(S) == {p \in Products : \E s \in S : book[s].qty[p] > 0}

LEMMA ProductRows ==
    ASSUME NEW S, NEW back
    PROVE  /\ DOMAIN ProductRanking(S, back) = Ranked(S)
           /\ \A p \in Ranked(S) :
                 /\ ProductRanking(S, back)[p].revenue
                      = SumFunctionOnSet([s \in S |-> Sold(s, back, p)], S)
                 /\ ProductRanking(S, back)[p].units
                      = SumFunctionOnSet([s \in S |-> book[s].qty[p] - back[s][p].qty], S)
BY DEF ProductRanking, Ranked, Sold, SumOf

LEMMA SoldOfProduct ==
    ASSUME NEW S, NEW back, Read(S, back), NEW p \in Products
    PROVE  LET sum == SumFunctionOnSet([s \in S |-> Sold(s, back, p)], S) IN
           sum \in Int /\ (p \notin Ranked(S) => sum = 0)
<1> DEFINE f == [s \in S |-> Sold(s, back, p)]
<1>1. IsFiniteSet(S)
    BY ReadFinite DEF Read
<1>2. \A s \in S : f[s] \in Int
    BY SoldInt
<1>3. p \notin Ranked(S) => \A s \in S : f[s] = 0
  <2>1. p \notin Ranked(S) => \A s \in S : book[s].qty[p] = 0
      BY SoldInt DEF Ranked
  <2>2. QED
      BY <2>1, SoldInt
<1> HIDE DEF f
<1>4. SumFunctionOnSet(f, S) \in Int /\ (p \notin Ranked(S) => SumFunctionOnSet(f, S) = 0)
    BY <1>1, <1>2, <1>3, SumInt, SumZero
<1>5. QED
    BY <1>4 DEF f

\* The products at list price exceed the revenue by what the totals of the sales
\* are short of their subtotals, whatever is then said to have been returned.
LEMMA ProductsAddUp ==
    ASSUME NEW S, NEW back, NEW refunds, Read(S, back)
    PROVE  /\ SumRows(ProductRanking(S, back))
                - SumOf(S, LAMBDA s : SalesCsv(S, refunds)[s].subtotal - SalesCsv(S, refunds)[s].total)
                = Revenue(S, back)
           /\ Revenue(S, back) \in Int
<1> DEFINE m == [s \in S |-> [p \in Products |-> Sold(s, back, p)]]
           col == [p \in Products |-> SumFunctionOnSet([s \in S |-> m[s][p]], S)]
           row == [s \in S |-> SumFunctionOnSet(m[s], Products)]
           net == [s \in S |-> NetOf(s, back)]
           off == [s \in S |-> SalesCsv(S, refunds)[s].subtotal - SalesCsv(S, refunds)[s].total]
           rev == [p \in Ranked(S) |-> ProductRanking(S, back)[p].revenue]
<1>1. IsFiniteSet(S) /\ IsFiniteSet(Products) /\ Ranked(S) \subseteq Products
    BY ProductsFinite, ReadFinite DEF Read, Ranked
<1>2. /\ SumRows(ProductRanking(S, back)) = SumFunctionOnSet(rev, Ranked(S))
      /\ Revenue(S, back) = SumFunctionOnSet(net, S)
      /\ SumOf(S, LAMBDA s : SalesCsv(S, refunds)[s].subtotal - SalesCsv(S, refunds)[s].total)
           = SumFunctionOnSet(off, S)
    BY ProductRows DEF SumRows, Revenue, SumOf
<1>3. ASSUME NEW p \in Products
      PROVE  /\ col[p] \in Int /\ (p \notin Ranked(S) => col[p] = 0)
             /\ p \in Ranked(S) => rev[p] = col[p]
  <2>1. \A s \in S : m[s][p] = Sold(s, back, p)
      OBVIOUS
  <2>2. [s \in S |-> m[s][p]] = [s \in S |-> Sold(s, back, p)]
      BY <2>1
  <2>3. col[p] = SumFunctionOnSet([s \in S |-> m[s][p]], S)
      OBVIOUS
  <2> HIDE DEF col, m
  <2>4. col[p] = SumFunctionOnSet([s \in S |-> Sold(s, back, p)], S)
      BY <2>2, <2>3
  <2>5. p \in Ranked(S) => rev[p] = SumFunctionOnSet([s \in S |-> Sold(s, back, p)], S)
      BY ProductRows
  <2>6. QED
      BY <2>4, <2>5, SoldOfProduct
<1>4. ASSUME NEW s \in S
      PROVE  row[s] \in Int /\ net[s] \in Int /\ off[s] = row[s] - net[s]
  <2>1. row[s] = SumFunctionOnSet(m[s], Products) /\ m[s] = [p \in Products |-> Sold(s, back, p)]
      OBVIOUS
  <2>2. net[s] = NetOf(s, back) /\ off[s] = Gross(book[s]) - book[s].total
      BY DEF SalesCsv
  <2> HIDE DEF row, m, net, off
  <2>3. row[s] = Gross(book[s]) - Cents(back[s]) /\ Gross(book[s]) \in Nat /\ Cents(back[s]) \in Nat
      BY <2>1, SoldOfSale
  <2>4. net[s] = book[s].total - Cents(back[s]) /\ book[s].total \in Nat
      BY <2>2, NetInt DEF Read, SaleRow
  <2>5. QED
      BY <2>2, <2>3, <2>4
<1>5. \A s \in S, p \in Products : m[s][p] \in Int
    BY SoldInt
<1>6. SumFunctionOnSet(row, S) = SumFunctionOnSet(col, Products)
  <2> HIDE DEF m
  <2>1. QED
      BY <1>1, <1>5, SumExchange
<1> HIDE DEF m, col, row, net, off, rev
<1>7. SumFunctionOnSet(col, Products) = SumFunctionOnSet(col, Ranked(S))
    BY <1>1, <1>3, SumPadded
<1>8. SumFunctionOnSet(col, Ranked(S)) = SumFunctionOnSet(rev, Ranked(S))
  <2>1. IsFiniteSet(Ranked(S))
      BY <1>1, FS_Subset
  <2>2. \A p \in Ranked(S) : col[p] = rev[p]
      BY <1>1, <1>3
  <2>3. QED
      BY <2>1, <2>2, SumSame
<1>9. /\ SumFunctionOnSet(off, S) = SumFunctionOnSet(row, S) - SumFunctionOnSet(net, S)
      /\ SumFunctionOnSet(row, S) \in Int /\ SumFunctionOnSet(net, S) \in Int
    BY <1>1, <1>4, SumMinus, SumInt
<1>10. QED
    BY <1>2, <1>6, <1>7, <1>8, <1>9 DEF SumOf

\* By descending revenue, a product is in no better class than one listed
\* before it: what is listed up to it holds what is listed up to the other.
LEMMA NoBetterClass ==
    ASSUME NEW ranking, IsFiniteSet(DOMAIN ranking),
           \A p \in DOMAIN ranking : ranking[p].revenue \in Int /\ ranking[p].revenue >= 0
    PROVE  Classified(ranking)
<1> SUFFICES ASSUME NEW pos \in Listings(ranking),
                    NEW p \in DOMAIN AbcCurve(ranking, pos), NEW q \in DOMAIN AbcCurve(ranking, pos),
                    pos[p] < pos[q]
             PROVE  LET class == AbcCurve(ranking, pos) IN
                    class[p] = "A" \/ class[q] = "C" \/ class[p] = class[q]
    BY DEF Classified
<1> DEFINE D == DOMAIN ranking
           rev == [x \in D |-> ranking[x].revenue]
           first(y) == {x \in D : pos[x] <= pos[y]}
           upTo(y) == SumFunctionOnSet([x \in first(y) |-> ranking[x].revenue], first(y))
           total == SumFunctionOnSet(rev, D)
           Class(n) == IF 100 * n <= 80 * total THEN "A"
                       ELSE IF 100 * n <= 95 * total THEN "B" ELSE "C"
<1>1. p \in D /\ q \in D /\ \A x \in D : pos[x] \in Int
    BY DEF AbcCurve, Listings
<1>2. AbcCurve(ranking, pos)[p] = Class(upTo(p)) /\ AbcCurve(ranking, pos)[q] = Class(upTo(q))
    BY DEF AbcCurve, SumOf
<1>3. \A x \in D : rev[x] \in Int /\ rev[x] >= 0
    OBVIOUS
<1>4. first(p) \subseteq first(q) /\ first(q) \subseteq D
    BY <1>1
<1>5. IsFiniteSet(first(p)) /\ IsFiniteSet(first(q)) /\ IsFiniteSet(D)
    BY <1>4, FS_Subset
<1>6. ASSUME NEW T, T \subseteq D
      PROVE  SumFunctionOnSet([x \in T |-> ranking[x].revenue], T) = SumFunctionOnSet(rev, T)
  <2> DEFINE g == [x \in T |-> ranking[x].revenue]
  <2>1. IsFiniteSet(T) /\ \A x \in T : g[x] = rev[x]
      BY <1>5, <1>6, FS_Subset
  <2> HIDE DEF g, rev
  <2>2. SumFunctionOnSet(g, T) = SumFunctionOnSet(rev, T)
      BY <2>1, SumSame
  <2>3. QED
      BY <2>2 DEF g
<1>7. upTo(p) = SumFunctionOnSet(rev, first(p)) /\ upTo(q) = SumFunctionOnSet(rev, first(q))
    BY <1>4, <1>6
<1> HIDE DEF rev, first, upTo
<1>8. SumFunctionOnSet(rev, first(p)) <= SumFunctionOnSet(rev, first(q))
    BY <1>3, <1>4, <1>5, SumWithin
<1>9. SumFunctionOnSet(rev, first(p)) \in Int /\ SumFunctionOnSet(rev, first(q)) \in Int
      /\ total \in Int
    BY <1>3, <1>4, <1>5, SumInt
<1> HIDE DEF total
<1>10. upTo(p) \in Int /\ upTo(q) \in Int /\ upTo(p) <= upTo(q)
    BY <1>7, <1>8, <1>9
<1>11. Class(upTo(p)) = "A" \/ Class(upTo(q)) = "C" \/ Class(upTo(p)) = Class(upTo(q))
    BY <1>9, <1>10
<1>12. QED
    BY <1>2, <1>11

LEMMA ProductsClassified ==
    ASSUME NEW S, NEW back, Read(S, back),
           \A p \in DOMAIN ProductRanking(S, back) : ProductRanking(S, back)[p].revenue >= 0
    PROVE  Classified(ProductRanking(S, back))
<1>1. DOMAIN ProductRanking(S, back) = Ranked(S) /\ Ranked(S) \subseteq Products
    BY ProductRows DEF Ranked
<1>2. IsFiniteSet(Ranked(S))
    BY <1>1, ProductsFinite, FS_Subset
<1>3. ASSUME NEW p \in Ranked(S) PROVE ProductRanking(S, back)[p].revenue \in Int
  <2>1. ProductRanking(S, back)[p].revenue = SumFunctionOnSet([s \in S |-> Sold(s, back, p)], S)
      BY ProductRows
  <2>2. QED
      BY <1>1, <2>1, SoldOfProduct
<1>4. QED
    BY <1>1, <1>2, <1>3, NoBetterClass

\* A period has at least one day.
LEMMA WindowTyped ==
    ASSUME NEW range, range.first \in Int, range.last \in Int
    PROVE  WindowDays(range) \in Int /\ WindowDays(range) >= 1
<1> DEFINE a == 2 * (range.last - range.first) + TicksPerDay
           b == 2 * TicksPerDay
           n == Rounded(range.last - range.first, TicksPerDay) + 1
<1>0. TicksPerDay \in Nat /\ TicksPerDay > 0
    BY ReportsAssumption
<1>1. a \in Int /\ b \in Int /\ b > 0
    BY <1>0
<1>2. n = a \div b + 1
    BY DEF Rounded
<1> HIDE DEF a, b, n
<1>3. n \in Int
    BY <1>1, <1>2
<1>4. \E x \in {1, n} : \A y \in {1, n} : x >= y
    BY <1>3
<1>5. Max({1, n}) \in {1, n} /\ \A y \in {1, n} : Max({1, n}) >= y
    BY <1>4 DEF Max
<1>6. Max({1, n}) \in Int /\ Max({1, n}) >= 1
    BY <1>3, <1>5
<1>7. QED
    BY <1>6 DEF WindowDays, n

LEMMA AverageOfSales ==
    ASSUME NEW n \in Int, NEW w \in Int, w >= 1, Rounded(100 * n, w) > 0
    PROVE  n > 0
<1> SUFFICES ASSUME n <= 0 PROVE FALSE
    OBVIOUS
<1> DEFINE a == 2 * (100 * n) + w
           b == 2 * w
<1>1. a \in Int /\ b \in Int /\ b > 0 /\ a < b
    OBVIOUS
<1>2. Rounded(100 * n, w) = a \div b
    BY DEF Rounded
<1> HIDE DEF a, b
<1>3. a \div b <= 0
    BY <1>1
<1>4. a \div b \in Int
    BY <1>1
<1>5. QED
    BY <1>2, <1>3, <1>4

\* What is to be reordered was sold or is out of stock.
LEMMA ReorderedWasSold ==
    ASSUME NEW S, NEW back, Read(S, back), NEW w \in Int, w >= 1,
           NEW p \in DOMAIN ReorderSuggestions(S, back, w), stock[p] \in Int, stock[p] > 0
    PROVE  ProductRanking(S, back)[p].units > 0
<1> DEFINE f == [s \in S |-> book[s].qty[p] - back[s][p].qty]
           n == SumFunctionOnSet(f, S)
<1>1. p \in Tracked /\ (Rounded(100 * n, w) > 0 \/ stock[p] <= 0)
    BY DEF ReorderSuggestions, SumOf
<1>2. p \in Products /\ Rounded(100 * n, w) > 0
    BY <1>1, DocumentsAssumption
<1>3. IsFiniteSet(S)
    BY ReadFinite DEF Read
<1>4. \A s \in S : f[s] \in Int /\ (f[s] > 0 => book[s].qty[p] > 0)
    BY <1>2, SoldInt
<1>5. n > 0 /\ \E s \in S : f[s] > 0
  <2> HIDE DEF f
  <2>1. n \in Int
      BY <1>3, <1>4, SumInt
  <2> HIDE DEF n
  <2>2. n > 0
      BY <1>2, <2>1, AverageOfSales
  <2>3. SumFunctionOnSet(f, S) > 0
      BY <2>2 DEF n
  <2>4. QED
      BY <1>3, <1>4, <2>2, <2>3, SumPositive
<1>6. p \in Ranked(S)
    BY <1>2, <1>4, <1>5 DEF Ranked
<1>7. ProductRanking(S, back)[p].units = n
    BY <1>6, ProductRows
<1>8. QED
    BY <1>5, <1>7

LEMMA ProductInt == \A m, n \in Int : m * n \in Int /\ m * n = n * m
OBVIOUS

\* Division rounds down.
LEMMA DivisionDown ==
    ASSUME NEW a \in Int, NEW b \in Nat, b > 0
    PROVE  a \div b \in Int /\ b * (a \div b) <= a /\ a < b * (a \div b) + b
OBVIOUS

LEMMA DivisionAtLeast ==
    ASSUME NEW a \in Int, NEW b \in Nat, b > 0, NEW c \in Int, b * c <= a
    PROVE  c <= a \div b
<1> DEFINE q == a \div b
<1>1. q \in Int /\ b * q <= a /\ a < b * q + b
    BY DivisionDown
<1> HIDE DEF q
<1>2. SUFFICES ASSUME q + 1 <= c PROVE FALSE
    BY <1>1 DEF q
<1>3. PICK k \in Nat : c = q + 1 + k
  <2>1. c - q - 1 \in Nat /\ c = q + 1 + (c - q - 1)
      BY <1>1, <1>2
  <2>2. QED
      BY <2>1
<1>4. b * c = b * q + b + b * k /\ b * k \in Nat
    BY <1>1, <1>3
<1>5. QED
    BY <1>1, <1>4

\* Rounding is off by half a unit at most.
LEMMA RoundedOff ==
    ASSUME NEW m \in Int, NEW d \in Nat, d > 0
    PROVE  /\ Rounded(m, d) \in Int
           /\ 2 * (d * Rounded(m, d) - m) <= d
           /\ 2 * (d * Rounded(m, d) - m) >= -d
<1> DEFINE a == 2 * m + d
           b == 2 * d
           q == a \div b
<1>1. q \in Int /\ b * q <= a /\ a < b * q + b
  <2>1. a \in Int /\ b \in Nat /\ b > 0
      OBVIOUS
  <2> HIDE DEF a, b
  <2>2. QED
      BY <2>1, DivisionDown
<1>2. Rounded(m, d) = q
    BY DEF Rounded
<1> HIDE DEF q
<1>3. PICK x \in Int : x = d * q
    BY <1>1
<1>4. b * q = 2 * x
    BY <1>1, <1>3
<1>5. QED
    BY <1>1, <1>2, <1>3, <1>4

\* The ticket is the share of the revenue of a sale, to half a cent.
LEMMA TicketOfSales ==
    ASSUME NEW S, NEW back, Read(S, back)
    PROVE  LET total == Summary(S, back)
               off == total.ticket * total.sales - total.revenue IN
           2 * off <= total.sales /\ 2 * off >= -total.sales
<1> DEFINE n == Cardinality(S)
           m == Revenue(S, back)
           total == Summary(S, back)
<1>1. IsFiniteSet(S) /\ n \in Nat
    BY ReadFinite, FS_CardinalityType DEF Read
<1>2. m \in Int
    BY RevenueInt DEF Read
<1>3. total.sales = n /\ total.revenue = m /\ total.ticket = IF n > 0 THEN Rounded(m, n) ELSE 0
    BY DEF Summary
<1>4. n = 0 => m = 0
  <2>1. n = 0 => S = {}
      BY <1>1, FS_EmptySet
  <2>2. Revenue({}, back) = 0
      BY SumEmpty DEF Revenue, SumOf
  <2>3. QED
      BY <2>1, <2>2
<1> HIDE DEF n, m, total
<1>5. CASE n = 0
    BY <1>3, <1>4, <1>5 DEF total
<1>6. CASE n > 0
  <2> DEFINE q == Rounded(m, n)
  <2>1. q \in Int /\ 2 * (n * q - m) <= n /\ 2 * (n * q - m) >= -n
      BY <1>1, <1>2, <1>6, RoundedOff
  <2> HIDE DEF q
  <2>2. total.ticket = q
      BY <1>3, <1>6 DEF q
  <2>3. PICK x \in Int : x = n * q /\ x = q * n
      BY <1>1, <2>1, ProductInt
  <2>4. total.ticket * total.sales - total.revenue = x - m
      BY <1>3, <2>2, <2>3
  <2>5. QED
      BY <1>2, <1>3, <2>1, <2>3, <2>4 DEF total
<1>7. QED
    BY <1>1, <1>5, <1>6

\* A sale exported is short of its subtotal by its discount, and by the points
\* redeemed.
LEMMA ShortByRedeemed ==
    ASSUME NEW S, NEW back, Read(S, back), NEW s \in S, Priced(book[s])
    PROVE  LET csv == SalesCsv(S, back)
               short == csv[s].subtotal - csv[s].total - csv[s].discount IN
           short >= 0 /\ (short = 0 <=> book[s].redeemed = 0)
<1>1. book[s] \in SaleRow
    BY DEF Read
<1>2. /\ Gross(book[s]) \in Nat /\ book[s].discount \in Nat /\ book[s].redeemed \in Nat
      /\ book[s].total \in Nat
    BY <1>1, GrossNat DEF SaleRow
<1>3. /\ SalesCsv(S, back)[s].subtotal = Gross(book[s])
      /\ SalesCsv(S, back)[s].discount = book[s].discount
      /\ SalesCsv(S, back)[s].total = book[s].total
    BY DEF SalesCsv
<1>4. book[s].total = Gross(book[s]) - book[s].discount - book[s].redeemed
    BY DEF Priced
<1>5. QED
    BY <1>2, <1>3, <1>4

\* Commissions at one rate are that share of the revenue, to half a cent a
\* seller.
LEMMA CommissionsAddUp ==
    ASSUME NEW S, NEW back, Read(S, back), NEW r, r.default \in Nat,
           \A x \in Sellers : r.own[x] = NoRate
    PROVE  LET off == 10000 * Commission(S, back, r) - r.default * Revenue(S, back) IN
           2 * off <= 10000 * Cardinality(Sellers) /\ 2 * off >= -10000 * Cardinality(Sellers)
<1> DEFINE D == {book[s].seller : s \in S}
           rate == r.default
           ranking == SellerRanking(S, back)
           n == [x \in D |-> ranking[x].revenue]
           c == [x \in D |-> Commissions(S, back, r)[x]]
           paid == [x \in D |-> 10000 * c[x]]
           due == [x \in D |-> rate * n[x]]
           e == [x \in D |-> paid[x] - due[x]]
           e2 == [x \in D |-> 2 * e[x]]
           hi == [x \in D |-> 10000]
           lo == [x \in D |-> -10000]
<1>1. D \subseteq Sellers
    BY DEF Read, SaleRow
<1>2. /\ IsFiniteSet(D) /\ Cardinality(D) \in Nat /\ Cardinality(Sellers) \in Nat
      /\ Cardinality(D) <= Cardinality(Sellers)
  <2> HIDE DEF D
  <2>1. IsFiniteSet(Sellers)
      BY ReportsAssumption
  <2>2. IsFiniteSet(D) /\ Cardinality(D) <= Cardinality(Sellers)
      BY <1>1, <2>1, FS_Subset
  <2>3. QED
      BY <2>1, <2>2, FS_CardinalityType
<1>3. ASSUME NEW x \in D
      PROVE  n[x] \in Int /\ c[x] = Rounded(n[x] * rate, 10000)
  <2> DEFINE own == {s \in S : book[s].seller = x}
             f == [s \in own |-> NetOf(s, back)]
  <2>1. n[x] = SumFunctionOnSet(f, own)
      BY DEF SellerRanking, SumOf
  <2>2. c[x] = Rounded(SumFunctionOnSet(f, own) * RateOf(x, r), 10000)
      BY DEF Commissions, SumOf
  <2>3. RateOf(x, r) = rate
      BY <1>1 DEF RateOf
  <2>4. own \subseteq S /\ \A s \in own : f[s] \in Int
      BY NetInt
  <2> HIDE DEF f
  <2>5. IsFiniteSet(S)
      BY ReadFinite DEF Read
  <2> HIDE DEF own
  <2>6. IsFiniteSet(own)
      BY <2>4, <2>5, FS_Subset
  <2>7. SumFunctionOnSet(f, own) \in Int
      BY <2>4, <2>6, SumInt
  <2> HIDE DEF n, c, rate
  <2>8. QED
      BY <2>1, <2>2, <2>3, <2>7
<1>4. /\ Commission(S, back, r) = SumFunctionOnSet(c, D)
      /\ SumRows(ranking) = SumFunctionOnSet(n, D)
    BY DEF Commission, Commissions, SumRows, SellerRanking, SumOf
<1>5. SumRows(ranking) = Revenue(S, back)
    BY SellersAddUp
<1>6. rate \in Int
    OBVIOUS
<1>7. ASSUME NEW x \in D
      PROVE  /\ c[x] \in Int /\ paid[x] = 10000 * c[x] /\ paid[x] \in Int
             /\ due[x] = rate * n[x] /\ due[x] \in Int /\ e[x] = paid[x] - due[x] /\ e[x] \in Int
             /\ e2[x] = 2 * e[x] /\ hi[x] = 10000 /\ lo[x] = -10000
             /\ e2[x] \in Int /\ e2[x] <= hi[x] /\ lo[x] <= e2[x]
  <2>1. /\ paid[x] = 10000 * c[x] /\ due[x] = rate * n[x] /\ e[x] = paid[x] - due[x]
        /\ e2[x] = 2 * e[x] /\ hi[x] = 10000 /\ lo[x] = -10000
      OBVIOUS
  <2> HIDE DEF n, c, rate, paid, due, e, e2, hi, lo, D
  <2>2. PICK m \in Int : m = n[x] * rate /\ m = rate * n[x]
      BY <1>3, <1>6, ProductInt
  <2>3. /\ c[x] = Rounded(m, 10000) /\ due[x] = m
      BY <1>3, <2>1, <2>2
  <2>4. /\ c[x] \in Int /\ 2 * (10000 * c[x] - m) <= 10000 /\ 2 * (10000 * c[x] - m) >= -10000
    <3>1. PICK d \in Nat : d = 10000
        OBVIOUS
    <3>2. /\ Rounded(m, d) \in Int
          /\ 2 * (d * Rounded(m, d) - m) <= d /\ 2 * (d * Rounded(m, d) - m) >= -d
        BY <3>1, RoundedOff
    <3>3. QED
        BY <2>3, <3>1, <3>2
  <2>5. QED
      BY <2>1, <2>2, <2>3, <2>4
<1> HIDE DEF n, c, rate, paid, due, e, e2, hi, lo, D, ranking
<1>8. /\ SumFunctionOnSet(paid, D) = 10000 * SumFunctionOnSet(c, D)
      /\ SumFunctionOnSet(c, D) \in Int
    BY <1>2, <1>7, SumScale, SumInt
<1>9. /\ SumFunctionOnSet(due, D) = rate * SumFunctionOnSet(n, D)
      /\ SumFunctionOnSet(due, D) \in Int
    BY <1>2, <1>3, <1>6, <1>7, SumScale, SumInt
<1>10. SumFunctionOnSet(e, D) = SumFunctionOnSet(paid, D) - SumFunctionOnSet(due, D)
    BY <1>2, <1>7, SumMinus
<1>11. SumFunctionOnSet(e2, D) = 2 * SumFunctionOnSet(e, D)
    BY <1>2, <1>7, SumScale
<1>12. SumFunctionOnSet(e2, D) <= 10000 * Cardinality(D)
  <2>1. \A x \in D : e2[x] \in Int /\ hi[x] \in Int /\ hi[x] = 10000 /\ e2[x] <= hi[x]
      BY <1>7
  <2>2. SumFunctionOnSet(e2, D) <= SumFunctionOnSet(hi, D)
      BY <1>2, <2>1, SumAtMost
  <2>3. SumFunctionOnSet(hi, D) = 10000 * Cardinality(D)
      BY <1>2, <2>1, SumConstant
  <2>4. QED
      BY <2>2, <2>3
<1>13. (-10000) * Cardinality(D) <= SumFunctionOnSet(e2, D)
  <2>1. \A x \in D : e2[x] \in Int /\ lo[x] \in Int /\ lo[x] = -10000 /\ lo[x] <= e2[x]
      BY <1>7
  <2>2. SumFunctionOnSet(lo, D) <= SumFunctionOnSet(e2, D)
      BY <1>2, <2>1, SumAtMost
  <2>3. SumFunctionOnSet(lo, D) = (-10000) * Cardinality(D)
      BY <1>2, <2>1, SumConstant
  <2>4. QED
      BY <2>2, <2>3
<1>14. 10000 * Commission(S, back, r) - rate * Revenue(S, back) = SumFunctionOnSet(e, D)
  <2>1. rate * Revenue(S, back) = SumFunctionOnSet(due, D)
      BY <1>4, <1>5, <1>9
  <2>2. QED
      BY <1>4, <1>8, <1>9, <1>10, <2>1
<1>15. SumFunctionOnSet(e, D) \in Int
    BY <1>2, <1>7, SumInt
<1>16. /\ 2 * SumFunctionOnSet(e, D) <= 10000 * Cardinality(Sellers)
       /\ 2 * SumFunctionOnSet(e, D) >= (-10000) * Cardinality(Sellers)
    BY <1>2, <1>11, <1>12, <1>13, <1>15
<1>17. QED
  <2>1. 10000 * Commission(S, back, r) - r.default * Revenue(S, back) = SumFunctionOnSet(e, D)
      BY <1>14 DEF rate
  <2>2. QED
      BY <1>2, <1>16, <2>1

\* What the inductive invariant says of a report that has been read.
LEMMA ViewRead ==
    ASSUME RepInv, view.phase = "done"
    PROVE  /\ Read(view.sales, view.back) /\ Read(view.sales, view.lines)
           /\ \A s \in view.sales : Priced(book[s])
           /\ view.rates.default \in Nat
           /\ view.range.first \in Int /\ view.range.last \in Int
           /\ Revenue(view.sales, BackOf(view.sales)) <= Revenue(view.sales, view.lines)
           /\ Revenue(view.sales, view.lines) <= Revenue(view.sales, view.back)
           /\ Revenue(view.sales, view.back) <= view.before
<1>1. /\ view.sales \subseteq SaleIds /\ \A s \in view.sales : book[s] # NoSale
      /\ view.back \in [view.sales -> Back] /\ view.lines \in [view.sales -> Back]
      /\ view.rates \in Rates
      /\ view.range.first \in Int /\ view.range.last \in Int
    BY DEF RepInv, RepTypeOK
<1>2. \A s \in view.sales : book[s] \in SaleRow /\ Priced(book[s])
    BY <1>1, RecordedSale
<1>3. \A s \in view.sales : BackFits(book[s], view.back[s]) /\ BackFits(book[s], view.lines[s])
    BY DEF RepInv
<1>4. QED
    BY <1>1, <1>2, <1>3 DEF RepInv, RevenueNow, Read, Rates

LEMMA FiguresBySaleFromInv ==
    ASSUME RepInv, view.phase = "done"
    PROVE  FiguresBySaleAgree(view.sales, view.back)
<1> DEFINE S == view.sales
           back == view.back
<1>1. Read(S, back) /\ \A s \in S : Priced(book[s])
    BY ViewRead
<1>2. Summary(S, back).revenue = Revenue(S, back) /\ Summary(S, back).sales = Cardinality(S)
    BY DEF Summary
<1>3. /\ Revenue(S, back) = SumRows(SellerRanking(S, back))
      /\ Cardinality(S) = CountRows(SellerRanking(S, back))
      /\ Revenue(S, back) = SumRows(StoreRanking(S, back))
      /\ Cardinality(S) = CountRows(StoreRanking(S, back))
    BY <1>1, SellersAddUp, StoresAddUp
<1>4. Revenue(S, back) = SumOf(S, LAMBDA s : SalesCsv(S, back)[s].total - SalesCsv(S, back)[s].returned)
    BY <1>1, CsvAddsUp DEF SumOf
<1>5. LET total == Summary(S, back)
          off == total.ticket * total.sales - total.revenue IN
      2 * off <= total.sales /\ 2 * off >= -total.sales
  <2> HIDE DEF S, back
  <2>1. QED
      BY <1>1, TicketOfSales
<1>6. \A s \in S : LET csv == SalesCsv(S, back)
                       short == csv[s].subtotal - csv[s].total - csv[s].discount IN
                   short >= 0 /\ (short = 0 <=> book[s].redeemed = 0)
  <2> HIDE DEF S, back
  <2>1. QED
      BY <1>1, ShortByRedeemed
<1>7. (\A x \in Sellers : view.rates.own[x] = NoRate) =>
         LET off == 10000 * Commission(S, back, view.rates) - view.rates.default * Revenue(S, back) IN
         2 * off <= 10000 * Cardinality(Sellers) /\ 2 * off >= -10000 * Cardinality(Sellers)
  <2>1. view.rates.default \in Nat
      BY ViewRead
  <2> HIDE DEF S, back
  <2>2. QED
      BY <1>1, <2>1, CommissionsAddUp
<1>8. QED
    BY <1>2, <1>3, <1>4, <1>5, <1>6, <1>7 DEF FiguresBySaleAgree, SumOf

LEMMA FiguresByProductFromInv ==
    ASSUME RepInv, DocInv, view.phase = "done"
    PROVE  FiguresByProductAgree(view.sales, view.lines)
<1> DEFINE S == view.sales
           lines == view.lines
           w == WindowDays(view.range)
<1>1. Read(S, lines)
    BY ViewRead
<1>2. w \in Int /\ w >= 1
    BY ViewRead, WindowTyped
<1>3. \A p \in DOMAIN ReorderSuggestions(S, lines, w) :
         stock[p] > 0 => ProductRanking(S, lines)[p].units > 0
  <2>1. \A p \in DOMAIN ReorderSuggestions(S, lines, w) : p \in Products
      BY DocumentsAssumption DEF ReorderSuggestions
  <2>2. \A p \in Products : stock[p] \in Int
      BY DocStock
  <2> HIDE DEF S, lines, w
  <2>3. QED
      BY <1>1, <1>2, <2>1, <2>2, ReorderedWasSold
<1>4. (\A p \in DOMAIN ProductRanking(S, lines) : ProductRanking(S, lines)[p].revenue >= 0)
        => Classified(ProductRanking(S, lines))
    BY <1>1, ProductsClassified
<1>5. QED
    BY <1>3, <1>4 DEF FiguresByProductAgree

LEMMA SalesReportsFromInv ==
    ASSUME RepInv, DocInv
    PROVE  SalesReportsAgree
<1>1. CASE view.phase # "done"
    BY <1>1 DEF SalesReportsAgree
<1>2. CASE view.phase = "done"
  <2> DEFINE S == view.sales
             byProduct == SumRows(ProductRanking(S, view.lines))
                          - SumOf(S, LAMBDA s : SalesCsv(S, view.back)[s].subtotal
                                                - SalesCsv(S, view.back)[s].total)
  <2>1. /\ Read(S, view.lines)
        /\ Revenue(S, BackOf(S)) <= Revenue(S, view.lines)
        /\ Revenue(S, view.lines) <= Revenue(S, view.back)
        /\ Revenue(S, view.back) <= view.before
      BY <1>2, ViewRead
  <2>2. byProduct = Revenue(S, view.lines)
      BY <2>1, ProductsAddUp DEF SumOf
  <2>3. Summary(S, view.back).revenue = Revenue(S, view.back)
      BY DEF Summary
  <2>4. /\ FiguresBySaleAgree(S, view.back) /\ FiguresByProductAgree(S, view.lines)
        /\ view.lines = view.back => byProduct = Summary(S, view.back).revenue
        /\ Revenue(S, BackOf(S)) <= byProduct /\ byProduct <= Summary(S, view.back).revenue
        /\ Summary(S, view.back).revenue <= view.before
      BY <1>2, <2>1, <2>2, <2>3, FiguresBySaleFromInv, FiguresByProductFromInv
  <2>5. QED
      BY <2>4 DEF SalesReportsAgree, SumOf
<1>3. QED
    BY <1>1, <1>2

\* A price that leaves the margin wanted is not below the cost.
LEMMA SuggestedAboveCost ==
    ASSUME NEW c \in Nat, NEW k \in Nat, k > 0, k <= 100
    PROVE  c <= Rounded(100 * c, k)
<1> DEFINE a == 200 * c + k
           b == 2 * k
<1>1. a \in Int /\ b \in Nat /\ b > 0
    OBVIOUS
<1>2. b * c <= a
  <2>1. PICK j \in Nat : k + j = 100
    <3>1. 100 - k \in Nat /\ k + (100 - k) = 100
        OBVIOUS
    <3>2. QED
        BY <3>1
  <2>2. 2 * k * c + 2 * j * c = 200 * c
      BY <2>1
  <2>3. j * c \in Nat /\ k * c \in Nat
      OBVIOUS
  <2>4. QED
      BY <2>2, <2>3
<1>3. Rounded(100 * c, k) = a \div b
    BY DEF Rounded
<1> HIDE DEF a, b
<1>4. QED
    BY <1>1, <1>2, <1>3, DivisionAtLeast

\* At its cost or below, a product has no positive margin.
LEMMA NoMarginBelowCost ==
    ASSUME NEW price \in Nat, price > 0, NEW c \in Nat, price <= c
    PROVE  Rounded(1000 * (price - c), price) <= 0
<1> DEFINE n == 1000 * (price - c)
<1>1. n \in Int /\ n <= 0
    OBVIOUS
<1> HIDE DEF n
<1>2. n + n + price < 2 * price
    BY <1>1
<1>3. Rounded(n, price) <= 0
    BY <1>1, <1>2 DEF Rounded
<1>4. QED
    BY <1>3 DEF n

LEMMA PricesFromInv ==
    ASSUME DocInv
    PROVE  PricesAgree
<1>1. SUFFICES ASSUME NEW p \in DOMAIN PricingSuggestions
               PROVE  LET row == PricingSuggestions[p] IN
                      /\ row.suggested >= cost[p]
                      /\ row.belowCost => row.margin <= 0 /\ row.suggested >= Price[p]
    BY DEF PricesAgree
<1> DEFINE row == PricingSuggestions[p]
           k == 100 - TargetMargin
<1>2. p \in Products /\ cost[p] \in Nat /\ cost[p] # 0 /\ Price[p] \in Nat
    BY ReportsAssumption DEF PricingSuggestions, DocInv, DocTypeOK
<1>3. /\ row.suggested = Rounded(100 * cost[p], k)
      /\ row.margin = IF Price[p] > 0 THEN Rounded(1000 * (Price[p] - cost[p]), Price[p])
                      ELSE IF cost[p] > 0 THEN -1000 ELSE 0
      /\ row.belowCost = (Price[p] <= cost[p])
    BY DEF PricingSuggestions
<1>4. k \in Nat /\ k > 0 /\ k <= 100
    BY ReportsAssumption
<1> HIDE DEF row, k
<1>5. PICK c \in Nat, price \in Nat : c = cost[p] /\ price = Price[p]
    BY <1>2
<1>6. c <= row.suggested /\ row.suggested \in Int
  <2>1. PICK m \in Int : m = 100 * c
      OBVIOUS
  <2>2. Rounded(m, k) \in Int
      BY <1>4, RoundedOff
  <2>3. c <= Rounded(100 * c, k)
      BY <1>4, SuggestedAboveCost
  <2>4. QED
      BY <1>3, <1>5, <2>1, <2>2, <2>3
<1>7. row.belowCost => row.margin <= 0
  <2>1. CASE price > 0
    <3>1. price <= c => Rounded(1000 * (price - c), price) <= 0
        BY <2>1, NoMarginBelowCost
    <3>2. QED
        BY <1>3, <1>5, <2>1, <3>1
  <2>2. CASE price = 0
      BY <1>2, <1>3, <1>5, <2>2
  <2>3. QED
      BY <2>1, <2>2
<1>8. row.belowCost => row.suggested >= Price[p]
  <2>1. row.belowCost => price <= c
      BY <1>3, <1>5
  <2>2. PICK n \in Int : n = row.suggested
      BY <1>6
  <2>3. price <= c => n >= price
      BY <1>6, <2>2
  <2>4. QED
      BY <1>5, <2>1, <2>2, <2>3
<1>9. QED
    BY <1>5, <1>6, <1>7, <1>8 DEF row

-----------------------------------------------------------------------------
(***************************************************************************)
(* The money of the finance entries.                                       *)
(***************************************************************************)

OfType(D, type) == {d \in D : docs[d].type = type}
DocBalance(D) == Amount(OfType(D, "receivable")) - Amount(OfType(D, "payable"))

\* What an entry adds to the balance.
Signed(d) == IF docs[d].type = "receivable" THEN docs[d].amount ELSE 0 - docs[d].amount

\* The sum of one type is that of all, with nothing for those of the other.
LEMMA AmountOfType ==
    ASSUME NEW D, IsFiniteSet(D), \A d \in D : docs[d] \in EntryRow, NEW type
    PROVE  Amount(OfType(D, type))
             = SumFunctionOnSet([d \in D |-> IF docs[d].type = type THEN docs[d].amount ELSE 0], D)
<1> DEFINE T == OfType(D, type)
           f == [d \in D |-> IF docs[d].type = type THEN docs[d].amount ELSE 0]
           g == [d \in T |-> docs[d].amount]
<1>1. T \subseteq D /\ \A d \in T : g[d] = f[d]
    BY DEF OfType
<1>2. (\A d \in T : f[d] \in Int) /\ \A d \in D \ T : f[d] = 0
    BY DEF OfType, EntryRow
<1>3. Amount(T) = SumFunctionOnSet(g, T)
    BY DEF Amount, SumOf
<1> HIDE DEF T, f, g
<1>4. IsFiniteSet(T)
    BY <1>1, FS_Subset
<1>5. SumFunctionOnSet(g, T) = SumFunctionOnSet(f, T)
    BY <1>1, <1>4, SumSame
<1>6. SumFunctionOnSet(f, D) = SumFunctionOnSet(f, T)
    BY <1>1, <1>2, SumPadded
<1>7. QED
    BY <1>3, <1>5, <1>6 DEF T, f

LEMMA BalanceIsSum ==
    ASSUME NEW D, IsFiniteSet(D), \A d \in D : docs[d] \in EntryRow
    PROVE  DocBalance(D) = SumFunctionOnSet([d \in D |-> Signed(d)], D)
<1> DEFINE f(type) == [d \in D |-> IF docs[d].type = type THEN docs[d].amount ELSE 0]
           in == f("receivable")
           out == f("payable")
           all == [d \in D |-> Signed(d)]
<1>1. \A d \in D : in[d] \in Int /\ out[d] \in Int /\ all[d] = in[d] - out[d]
    BY DEF EntryRow, Signed
<1>2. /\ Amount(OfType(D, "receivable")) = SumFunctionOnSet(in, D)
      /\ Amount(OfType(D, "payable")) = SumFunctionOnSet(out, D)
    BY AmountOfType
<1> HIDE DEF in, out, all
<1>3. SumFunctionOnSet(all, D) = SumFunctionOnSet(in, D) - SumFunctionOnSet(out, D)
    BY <1>1, SumMinus
<1>4. QED
    BY <1>2, <1>3 DEF DocBalance, all

PaidEntries == {d \in Docs : docs[d].kind = "entry" /\ docs[d].status = "paid" /\ docs[d].paidAt}
AtCenter(c) == {d \in PaidEntries : docs[d].center = c}
PaidCenters == {docs[d].center : d \in PaidEntries}

LEMMA DreIs ==
    /\ Dre.result = DocBalance(PaidEntries)
    /\ DOMAIN Dre.byCenter = PaidCenters
    /\ \A c \in PaidCenters : Dre.byCenter[c] = DocBalance(AtCenter(c))
<1>1. \A D : DocBalance(D) = Amount({d \in D : docs[d].type = "receivable"})
                          - Amount({d \in D : docs[d].type = "payable"})
    BY DEF DocBalance, OfType
<1>2. Dre = [result |-> DocBalance(PaidEntries),
             byCenter |-> [c \in PaidCenters |-> DocBalance(AtCenter(c))]]
    BY DEF Dre, DocBalance, OfType, PaidEntries, PaidCenters, AtCenter
<1>3. QED
    BY <1>2

LEMMA PaidEntriesTyped ==
    ASSUME DocTypeOK
    PROVE  /\ IsFiniteSet(PaidEntries) /\ PaidEntries \subseteq Docs
           /\ \A d \in PaidEntries : docs[d] \in EntryRow /\ Signed(d) \in Int
<1>1. PaidEntries \subseteq Docs /\ IsFiniteSet(Docs)
    BY ReportsAssumption DEF PaidEntries
<1>2. \A d \in PaidEntries : docs[d] \in EntryRow
    BY <1>1, RowOfKind DEF PaidEntries
<1>3. QED
    BY <1>1, <1>2, FS_Subset DEF Signed, EntryRow

\* The balances by center add up to that of all.
LEMMA CentersAddUp ==
    ASSUME DocTypeOK
    PROVE  SumFunctionOnSet([c \in PaidCenters |-> DocBalance(AtCenter(c))], PaidCenters)
             = DocBalance(PaidEntries)
<1> DEFINE key == [d \in PaidEntries |-> docs[d].center]
           f == [d \in PaidEntries |-> Signed(d)]
           r == [c \in PaidCenters |-> DocBalance(AtCenter(c))]
<1>1. IsFiniteSet(PaidEntries) /\ \A d \in PaidEntries : docs[d] \in EntryRow /\ f[d] \in Int
    BY PaidEntriesTyped
<1>2. PaidCenters = {key[d] : d \in PaidEntries} /\ \A c : Group(PaidEntries, key, c) = AtCenter(c)
    BY DEF PaidCenters, Group, AtCenter
<1>3. ASSUME NEW c \in PaidCenters
      PROVE  r[c] = SumFunctionOnSet(f, Group(PaidEntries, key, c))
  <2> DEFINE g == [d \in AtCenter(c) |-> Signed(d)]
  <2>1. AtCenter(c) \subseteq PaidEntries
      BY DEF AtCenter
  <2>2. IsFiniteSet(AtCenter(c)) /\ \A d \in AtCenter(c) : docs[d] \in EntryRow
      BY <1>1, <2>1, FS_Subset
  <2>3. r[c] = SumFunctionOnSet(g, AtCenter(c))
      BY <2>2, BalanceIsSum
  <2>4. \A d \in AtCenter(c) : g[d] = f[d]
      BY <2>1
  <2> HIDE DEF g, f, r, key
  <2>5. SumFunctionOnSet(g, AtCenter(c)) = SumFunctionOnSet(f, AtCenter(c))
      BY <2>2, <2>4, SumSame
  <2>6. QED
      BY <1>2, <2>3, <2>5
<1>4. DocBalance(PaidEntries) = SumFunctionOnSet(f, PaidEntries)
    BY <1>1, BalanceIsSum
<1> HIDE DEF key, f, r
<1>5. SumFunctionOnSet(r, PaidCenters) = SumFunctionOnSet(f, PaidEntries)
    BY <1>1, <1>2, <1>3, RowsAddUp
<1>6. QED
    BY <1>4, <1>5 DEF r

\* What is overdue on a day was due on a day before.
LEMMA OverdueExported ==
    ASSUME DocTypeOK, NEW today \in Days, NEW type
    PROVE  {d \in EntriesWith("pending", type) : docs[d].due < today}
             = {d \in FinanceCsv(0, today - 1) : docs[d].status = "pending" /\ docs[d].type = type}
<1>1. today \in Nat
    BY ReportsAssumption DEF Days
<1>2. \A d \in Docs : docs[d].kind = "entry" => docs[d].due \in Nat
    BY RowOfKind DEF EntryRow
<1>3. \A d \in Docs : docs[d].kind = "entry" =>
         (docs[d].due < today <=> 0 <= docs[d].due /\ docs[d].due <= today - 1)
    BY <1>1, <1>2
<1>4. QED
    BY <1>3 DEF EntriesWith, FinanceCsv

LEMMA FinanceReportsFromInv ==
    ASSUME RepInv, DocInv
    PROVE  FinanceReportsAgree
<1>1. DocTypeOK /\ PaidIsDated
    BY DEF DocInv, RepInv
<1>2. SumOf(DOMAIN Dre.byCenter, LAMBDA c : Dre.byCenter[c])
        = SumFunctionOnSet([c \in PaidCenters |-> DocBalance(AtCenter(c))], PaidCenters)
  <2>1. [c \in DOMAIN Dre.byCenter |-> Dre.byCenter[c]]
          = [c \in PaidCenters |-> DocBalance(AtCenter(c))]
      BY DreIs
  <2>2. SumFunctionOnSet([c \in DOMAIN Dre.byCenter |-> Dre.byCenter[c]], DOMAIN Dre.byCenter)
          = SumFunctionOnSet([c \in PaidCenters |-> DocBalance(AtCenter(c))], PaidCenters)
      BY <2>1, DreIs
  <2>3. QED
      BY <2>2 DEF SumOf
<1>3. ASSUME NEW today PROVE Cashflow(today).net = DocBalance(PaidEntries)
  <2>1. /\ EntriesWith("paid", "receivable") = OfType(PaidEntries, "receivable")
        /\ EntriesWith("paid", "payable") = OfType(PaidEntries, "payable")
      BY <1>1 DEF EntriesWith, OfType, PaidEntries, PaidIsDated
  <2>2. Cashflow(today).net
          = Amount(EntriesWith("paid", "receivable")) - Amount(EntriesWith("paid", "payable"))
      BY DEF Cashflow
  <2>3. QED
      BY <2>1, <2>2 DEF DocBalance
<1>4. Dre.result = DocBalance(PaidEntries)
    BY DreIs
<1>5. SumFunctionOnSet([c \in PaidCenters |-> DocBalance(AtCenter(c))], PaidCenters) = DocBalance(PaidEntries)
    BY <1>1, CentersAddUp
<1> DEFINE pending(D, type) == Amount({d \in D : docs[d].status = "pending" /\ docs[d].type = type})
<1>6. ASSUME NEW today \in Days
      PROVE  /\ Dre.result = Cashflow(today).net
             /\ Cashflow(today).overdueIn = pending(FinanceCsv(0, today - 1), "receivable")
             /\ Cashflow(today).overdueOut = pending(FinanceCsv(0, today - 1), "payable")
  <2> DEFINE overdue(type) == {d \in EntriesWith("pending", type) : docs[d].due < today}
  <2>1. /\ Cashflow(today).overdueIn = Amount(overdue("receivable"))
        /\ Cashflow(today).overdueOut = Amount(overdue("payable"))
      BY DEF Cashflow
  <2>2. Dre.result = Cashflow(today).net
      BY <1>3, <1>4
  <2>3. QED
      BY <1>1, <2>1, <2>2, OverdueExported
<1>7. QED
    BY <1>2, <1>4, <1>5, <1>6 DEF FinanceReportsAgree, SumOf

-----------------------------------------------------------------------------
(***************************************************************************)
(* The back office.                                                        *)
(***************************************************************************)

LEMMA InitBackInv == BackInit => BackInv
BY InitDocInv, InitMarketInv, InitRegInv, InitRepInv DEF BackInit, BackInv

\* Nothing but the documents disturbs what the reports read of them.
LEMMA UnreadRepInv ==
    ASSUME RepInv, UNCHANGED <<docs, reportVars>>
    PROVE  RepInv'
<1>1. PaidIsDated'
    BY DEF RepInv, PaidIsDated
<1>2. QED
    BY <1>1, StutterRepInv

LEMMA MarketStepBackInv ==
    ASSUME BackInv, MarketStep
    PROVE  BackInv'
<1>1. DocInv /\ MarketInv /\ RegInv /\ RepInv /\ \A p \in Products : stock[p] \in Nat
    BY DocStock DEF BackInv
<1>2. RegInv' /\ RepInv'
  <2>1. UNCHANGED docs
      BY DEF MarketStep, MarketNext, SwitchChannel, SyncProduct, SyncFails, StartPull, SkipOrder,
             ImportOrder, LeaveOrder, CommitPull, PullFails, docVars
  <2>2. QED
      BY <1>1, <2>1, StutterRegInv, UnreadRepInv DEF MarketStep
<1>3. CASE SwitchChannel \/ \E p \in Products : SyncProduct(p) \/ SyncFails(p)
  <2>1. UNCHANGED docVars
      BY <1>3 DEF SwitchChannel, SyncProduct, SyncFails
  <2>2. MarketInv'
    <3>1. CASE \E p \in Products : SyncProduct(p) \/ SyncFails(p)
        BY <1>1, <3>1, SyncMarketInv
    <3>2. CASE SwitchChannel
      <4>1. UNCHANGED <<stock, market, taken, pulls, listings>> /\ channelOn' \in BOOLEAN
          BY <3>2 DEF SwitchChannel, docVars
      <4>2. ListingsOK(listings')
          BY <1>1, <4>1 DEF MarketInv, MarketTypeOK
      <4>3. QED
          BY <1>1, <4>1, <4>2, ListingMarketInv
    <3>3. QED
        BY <1>3, <3>1, <3>2
  <2>3. QED
      BY <1>1, <1>2, <2>1, <2>2, StutterDocInv DEF BackInv
<1>4. ASSUME NEW w \in Pullers,
             StartPull(w) \/ SkipOrder(w) \/ ImportOrder(w) \/ LeaveOrder(w) \/ PullFails(w)
      PROVE  BackInv'
  <2>1. UNCHANGED docVars
      BY <1>4 DEF StartPull, SkipOrder, ImportOrder, LeaveOrder, PullFails
  <2>2. MarketInv'
      BY <1>1, <1>4, StartPullMarketInv, SkipMarketInv, ImportMarketInv, LeaveMarketInv,
         FailMarketInv
  <2>3. QED
      BY <1>1, <1>2, <2>1, <2>2, StutterDocInv DEF BackInv
<1>5. ASSUME NEW w \in Pullers, CommitPull(w) PROVE BackInv'
    BY <1>1, <1>2, <1>5, CommitDocInv, CommitMarketInv DEF BackInv
<1>6. QED
    BY <1>3, <1>4, <1>5 DEF MarketStep, MarketNext

\* Reports change what they read and the book of sales, and nothing else here.
LEMMA ReportsReadOnly == RepNext => UNCHANGED docVars
BY DEF RepNext, Tick, RecordSale, ReturnUnits, SetDefaultRate, SetOwnRate, ReadSales,
       ReadRefunds, ReadLines, EndReport

LEMMA StutterMarketInv ==
    ASSUME MarketInv, UNCHANGED marketVars, UNCHANGED docVars
    PROVE  MarketInv'
<1>1. channelOn \in BOOLEAN /\ ListingsOK(listings)
    BY DEF MarketInv, MarketTypeOK
<1>2. UNCHANGED <<stock, market, taken, pulls, channelOn, listings>>
    BY DEF marketVars, docVars
<1>3. QED
    BY <1>1, <1>2, ListingMarketInv

LEMMA NextBackInv == BackInv /\ [BackNext]_backVars => BackInv'
<1> SUFFICES ASSUME BackInv, [BackNext]_backVars PROVE BackInv'
    OBVIOUS
<1>1. DocInv /\ MarketInv /\ RegInv /\ RepInv
    BY DEF BackInv
<1>2. CASE DocumentStep
  <2>1. DocNext /\ WaitsForPulls /\ UNCHANGED marketVars /\ UNCHANGED reportVars /\ UNCHANGED regVars
      BY <1>2 DEF DocumentStep
  <2>2. DocInv'
      BY <1>1, <2>1, NextDocInv
  <2>3. \A p \in Products : stock[p] \in Nat /\ stock'[p] \in Nat
      BY <1>1, <2>2 DEF DocInv, DocTypeOK
  <2>4. RepInv'
    <3>1. PaidIsDated'
        BY <1>1, <2>1, StepKeepsDated DEF RepInv
    <3>2. QED
        BY <1>1, <2>1, <3>1, StutterRepInv
  <2>5. QED
      BY <1>1, <2>1, <2>2, <2>3, <2>4, StockMarketInv, StutterRegInv DEF BackInv
<1>3. CASE MarketStep
    BY <1>3, MarketStepBackInv
<1>4. CASE ReportStep
  <2>1. UNCHANGED docVars /\ UNCHANGED marketVars /\ UNCHANGED regVars
      BY <1>4, ReportsReadOnly DEF ReportStep
  <2>2. QED
      BY <1>1, <1>4, <2>1, StutterDocInv, StutterMarketInv, StutterRegInv, StepRepInv
         DEF BackInv, ReportStep
<1>5. CASE RegistryStep
  <2>1. UNCHANGED docVars /\ UNCHANGED marketVars /\ RegNext /\ UNCHANGED <<docs, reportVars>>
      BY <1>5 DEF RegistryStep, docVars
  <2>2. QED
      BY <1>1, <2>1, StutterDocInv, StutterMarketInv, NextRegInv, UnreadRepInv DEF BackInv
<1>6. CASE UNCHANGED backVars
  <2>1. UNCHANGED docVars /\ UNCHANGED marketVars /\ UNCHANGED regVars /\ UNCHANGED <<docs, reportVars>>
      BY <1>6 DEF backVars, docVars
  <2>2. QED
      BY <1>1, <2>1, StutterDocInv, StutterMarketInv, StutterRegInv, UnreadRepInv DEF BackInv
<1>7. QED
    BY <1>2, <1>3, <1>4, <1>5, <1>6 DEF BackNext

-----------------------------------------------------------------------------
\* However documents, pulls, reports and registers interleave, each keeps its
\* inductive invariant: also the documents, whose stock the pulls take from,
\* and the pulls, which the documents' transactions wait for.
THEOREM SpecBackInv == BackSpec => []BackInv
BY InitBackInv, NextBackInv, PTL DEF BackSpec

\* For any feed, any listings and any number of pulls, an order of the channel
\* is applied whole and once, or not at all.
THEOREM SpecOrdersAllOrNothing == BackSpec => []OrdersAllOrNothing
<1>1. BackInv => OrdersAllOrNothing
    BY DEF BackInv, MarketInv
<1>2. QED
    BY <1>1, SpecBackInv, PTL

\* For any sales, returns, entries and rates, and whatever is sold, returned,
\* paid or edited between the reads of the reports of a period, they agree: the
\* figures by sale among themselves and with the export, the figures by product
\* with the revenue of the sales exported, at most what was returned in between
\* below it, the prices suggested with the costs, and the statement by cost
\* center and the export of entries with the cash flow.
THEOREM SpecReportsAgree == BackSpec => []ReportsAgree
<1>1. BackInv => ReportsAgree
    BY SalesReportsFromInv, PricesFromInv, FinanceReportsFromInv DEF BackInv, ReportsAgree
<1>2. QED
    BY <1>1, SpecBackInv, PTL

\* The pulls do not disturb the documents: with them, too, a document that was
\* decided alone has brought about what its status says.
THEOREM BackEffectsMatchStatus == BackSpec => []EffectsMatchStatus
<1>1. BackInv => EffectsMatchStatus
    BY DEF BackInv, DocInv
<1>2. QED
    BY <1>1, SpecBackInv, PTL

\* A step of the back office is one of the documents or leaves them alone.
LEMMA DocsOnlyByDocuments ==
    ASSUME [BackNext]_backVars
    PROVE  [DocNext]_docVars \/ UNCHANGED <<docs, goods>>
<1>1. CASE DocumentStep
    BY <1>1 DEF DocumentStep
<1>2. CASE MarketStep
    BY <1>2 DEF MarketStep, MarketNext, SwitchChannel, SyncProduct, SyncFails, StartPull, SkipOrder,
                ImportOrder, LeaveOrder, CommitPull, PullFails, docVars
<1>3. CASE ReportStep
    BY <1>3, ReportsReadOnly DEF ReportStep
<1>4. CASE RegistryStep
    BY <1>4 DEF RegistryStep
<1>5. CASE UNCHANGED backVars
    BY <1>5 DEF backVars
<1>6. QED
    BY <1>1, <1>2, <1>3, <1>4, <1>5 DEF BackNext

\* No pull, report or register touches a document that was decided alone, and
\* no later request does.
THEOREM BackDecidedIsFrozen == BackSpec => DecidedIsFrozen
<1>1. BackInv /\ [BackNext]_backVars =>
        [\A d \in Docs : Settled(d) => docs'[d] = docs[d] /\ goods'[d] = goods[d]]_docVars
    BY DocsOnlyByDocuments, StepSparesSettled DEF BackInv
<1>2. QED
    BY <1>1, SpecBackInv, PTL DEF BackSpec, DecidedIsFrozen

\* Also with pulls that take units off the shelf, finalizing a count sets the
\* balance of a product that did not move since its tally to what is there.
THEOREM BackFinalizeSetsShelf == BackSpec => FinalizeSetsShelf
<1>1. BackInv /\ [BackNext]_backVars =>
        \A w \in Workers : Finalize(w) =>
          \A p \in Products :
             LET seen == req[w].seen IN
             seen.counted[p] # NotCounted /\ seen.at[p] = shifts[p] => stock'[p] = shelf[p]
    BY FinalizeSetsBalance DEF BackInv
<1>2. QED
    BY <1>1, SpecBackInv, PTL DEF BackSpec, FinalizeSetsShelf

\* The back office as a whole keeps the history its registers refer to.
THEOREM BackHistoryOutlivesRows == BackSpec => HistoryOutlivesRows
<1>1. BackInv /\ [BackNext]_backVars =>
        \A w \in Clerks : Delete(w) =>
          LET i == asks[w].row IN
          i \in overlapped \/ IsA(i, "supplier") \/ (refs'[i] = refs[i] /\ InCategory(i) = {})
    BY DeleteSparesHistory DEF BackInv
<1>2. QED
    BY <1>1, SpecBackInv, PTL DEF BackSpec, HistoryOutlivesRows
=============================================================================
