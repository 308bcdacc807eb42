------------------------- MODULE StockLedger_proofs -------------------------
(***************************************************************************)
(* Theorems about StockLedger, for any set of workers, products and        *)
(* requests.                                                               *)
(***************************************************************************)
EXTENDS StockLedger, SumTheorems

\* The fields of a line of a worker's request.
LEMMA LineFields ==
    ASSUME NEW w \in Workers, TypeOK, LineInRequest, pc[w] # "idle"
    PROVE  /\ req[w] \in Seq(Line)
           /\ line[w] \in 1..Len(req[w])
           /\ Target(w) \in Products
           /\ Delta(w) \in Int
<1>1. req[w] \in Seq(Line) /\ line[w] \in 1..Len(req[w])
    BY DEF TypeOK, LineInRequest
<1>2. req[w][line[w]] \in Line
    BY <1>1
<1>3. QED
    BY <1>1, <1>2 DEF Line, Target, Delta

-----------------------------------------------------------------------------
\* What the lines of a request do to a product.
Effect(r, p, i) == IF r[i].product = p THEN r[i].delta ELSE 0

\* StockBook sums as SumTheorems does.
LEMMA BookSums ==
    ASSUME NEW f, NEW S
    PROVE  Book!SumFunctionOnSet(f, S) = SumFunctionOnSet(f, S)
BY DEF Book!SumFunctionOnSet, Book!FoldFunctionOnSet, Book!MapThenFoldSet,
       SumFunctionOnSet, FoldFunctionOnSet, MapThenFoldSet

LEMMA AfterFacts ==
    ASSUME NEW r \in Seq(Line), NEW p, NEW i \in 0..Len(r)
    PROVE  /\ Book!After(r, p, i) = SumFunctionOnSet(Book!Moves(r, p), 1..i)
           /\ IsFiniteSet(1..i) /\ 1..i \subseteq 1..Len(r)
           /\ \A j \in 1..Len(r) : /\ Book!Moves(r, p)[j] = Effect(r, p, j)
                                   /\ Book!Moves(r, p)[j] \in Int
           /\ Book!After(r, p, i) \in Int
<1>1. Book!After(r, p, i) = SumFunctionOnSet(Book!Moves(r, p), 1..i)
    BY BookSums DEF Book!After
<1>2. IsFiniteSet(1..i) /\ 1..i \subseteq 1..Len(r)
    BY FS_Interval
<1>3. ASSUME NEW j \in 1..Len(r)
      PROVE  Book!Moves(r, p)[j] = Effect(r, p, j) /\ Book!Moves(r, p)[j] \in Int
  <2>1. r[j] \in Line
      BY <1>3
  <2>2. QED
      BY <2>1 DEF Book!Moves, Effect, Line
<1>4. SumFunctionOnSet(Book!Moves(r, p), 1..i) \in Int
    BY <1>2, <1>3, SumInt
<1>5. QED
    BY <1>1, <1>2, <1>3, <1>4

LEMMA AfterNone ==
    ASSUME NEW r \in Seq(Line), NEW p
    PROVE  Book!After(r, p, 0) = 0
<1>1. 1..0 = {}
    OBVIOUS
<1>2. QED
    BY <1>1, AfterFacts, SumEmpty

\* One line more.
LEMMA AfterNext ==
    ASSUME NEW r \in Seq(Line), NEW p, NEW i \in 1..Len(r)
    PROVE  Book!After(r, p, i) = Book!After(r, p, i - 1) + Effect(r, p, i)
<1> DEFINE f == Book!Moves(r, p)
<1>1. i - 1 \in 0..Len(r) /\ i \in 0..Len(r) /\ i \notin 1..(i - 1)
      /\ 1..i = (1..(i - 1)) \cup {i}
    OBVIOUS
<1>2. /\ Book!After(r, p, i) = SumFunctionOnSet(f, 1..i)
      /\ Book!After(r, p, i - 1) = SumFunctionOnSet(f, 1..(i - 1))
      /\ IsFiniteSet(1..(i - 1)) /\ \A j \in 1..(i - 1) : f[j] \in Int
      /\ f[i] \in Int /\ f[i] = Effect(r, p, i)
    BY <1>1, AfterFacts
<1> HIDE DEF f
<1>3. SumFunctionOnSet(f, (1..(i - 1)) \cup {i}) = SumFunctionOnSet(f, 1..(i - 1)) + f[i]
    BY <1>1, <1>2, SumAdd
<1>4. QED
    BY <1>1, <1>2, <1>3

\* Lines of other products leave this one as it is.
LEMMA AfterOthers ==
    ASSUME NEW r \in Seq(Line), NEW p, NEW i \in 0..Len(r),
           \A j \in 1..i : r[j].product # p
    PROVE  Book!After(r, p, i) = 0
<1>1. \A j \in 1..i : Book!Moves(r, p)[j] = 0
    BY AfterFacts DEF Effect
<1>2. QED
    BY <1>1, AfterFacts, SumZero

\* The lines a worker at rest has applied: none.
LEMMA IdleFits ==
    ASSUME NEW w \in Workers, pc[w] = "idle", req[w] = <<>>, dirty[w] = {}, moved[w] = None
    PROVE  AppliedFits(w)
<1>1. Applied(w) = 0
    BY DEF Applied
<1>2. <<>> \in Seq(Line)
    OBVIOUS
<1>6. \A p \in Products : Book!After(<<>>, p, 0) = 0
    BY <1>2, AfterNone
<1>3. \A p \in Products : moved[w][p] = Book!After(req[w], p, Applied(w))
    BY <1>1, <1>6 DEF None
<1>4. 1..0 = {}
    OBVIOUS
<1>5. QED
    BY <1>1, <1>3, <1>4 DEF AppliedFits

LEMMA EndedFits ==
    ASSUME NEW w \in Workers,
           pc'[w] = "idle", req'[w] = <<>>, dirty'[w] = {}, moved'[w] = None
    PROVE  AppliedFits(w)'
<1>1. Applied(w)' = 0
    BY DEF Applied
<1>2. <<>> \in Seq(Line)
    OBVIOUS
<1>6. \A p \in Products : Book!After(<<>>, p, 0) = 0
    BY <1>2, AfterNone
<1>3. \A p \in Products : moved'[w][p] = Book!After(req'[w], p, Applied(w)')
    BY <1>1, <1>6 DEF None
<1>4. 1..0 = {}
    OBVIOUS
<1>5. QED
    BY <1>1, <1>3, <1>4 DEF AppliedFits

\* A step of others that leaves the rows the worker holds alone.
LEMMA OthersFit ==
    ASSUME NEW w \in Workers, AppliedFits(w),
           pc'[w] = pc[w], req'[w] = req[w], line'[w] = line[w], dirty'[w] = dirty[w],
           moved'[w] = moved[w], raced \subseteq raced', \A p \in dirty[w] : stock'[p] = stock[p]
    PROVE  AppliedFits(w)'
<1>1. Applied(w)' = Applied(w)
    BY DEF Applied
<1>2. QED
    BY <1>1 DEF AppliedFits

-----------------------------------------------------------------------------
\* The initial state satisfies the inductive invariant.
LEMMA InitIInv == Init => IInv
<1> SUFFICES ASSUME Init PROVE IInv
    OBVIOUS
<1>1. None \in [Products -> Int]
    BY DEF None
<1>2. TypeOK
    BY <1>1 DEF Init, TypeOK, Phases
<1>3. NoNegativeStock /\ InSyncUnlessRaced
    BY DEF Init, NoNegativeStock, InSyncUnlessRaced, None
<1>4. LineInRequest /\ RowLocks /\ ReadIsFresh
    BY DEF Init, LineInRequest, RowLocks, ReadIsFresh
<1>5. MovedIsDirty /\ DraftFollowsMoves
    BY DEF Init, MovedIsDirty, DraftFollowsMoves, None
<1>6. LinesApplied
    BY IdleFits DEF Init, LinesApplied
<1>7. QED
    BY <1>2, <1>3, <1>4, <1>5, <1>6 DEF IInv

-----------------------------------------------------------------------------
\* What ends a transaction without committing it preserves the invariant.
LEMMA RollbackIInv ==
    ASSUME NEW w \in Workers, IInv, Rollback(w)
    PROVE  IInv'
<1> USE DEF IInv
<1>1. None \in [Products -> Int]
    BY DEF None
<1>2. TypeOK'
    BY <1>1 DEF TypeOK, Rollback, EndTx, Phases
<1>3. NoNegativeStock' /\ InSyncUnlessRaced'
    BY DEF NoNegativeStock, InSyncUnlessRaced, Rollback
<1>4. LineInRequest'
    BY DEF LineInRequest, Rollback, EndTx, TypeOK
<1>5. RowLocks'
    BY DEF RowLocks, Rollback, EndTx, TypeOK
<1>6. MovedIsDirty'
    BY DEF MovedIsDirty, Rollback, EndTx, TypeOK, None
<1>7. DraftFollowsMoves'
    BY DEF DraftFollowsMoves, Rollback, EndTx, TypeOK
<1>8. ReadIsFresh'
    BY DEF ReadIsFresh, Rollback, EndTx, TypeOK, Target, Delta, Visible
<1>9. LinesApplied'
  <2>1. AppliedFits(w)'
    <3>1. pc'[w] = "idle" /\ req'[w] = <<>> /\ dirty'[w] = {} /\ moved'[w] = None
        BY DEF Rollback, EndTx, TypeOK
    <3>2. QED
        BY <3>1, EndedFits
  <2>2. ASSUME NEW v \in Workers, v # w PROVE AppliedFits(v)'
      BY <2>2, OthersFit DEF Rollback, EndTx, TypeOK, LinesApplied
  <2>3. QED
      BY <2>1, <2>2 DEF LinesApplied
<1>10. QED
    BY <1>2, <1>3, <1>4, <1>5, <1>6, <1>7, <1>8, <1>9

\* Opening a transaction.
LEMMA BeginIInv ==
    ASSUME NEW w \in Workers, IInv, Begin(w)
    PROVE  IInv'
<1> USE DEF IInv
<1> PICK r \in RequestsOf[w] : Len(r) > 0 /\ req' = [req EXCEPT ![w] = r]
    BY DEF Begin
<1>1. r \in Seq(Line)
    BY RequestsAssumption
<1>2. TypeOK'
    BY <1>1 DEF TypeOK, Begin, Phases
<1>3. NoNegativeStock' /\ InSyncUnlessRaced'
    BY DEF NoNegativeStock, InSyncUnlessRaced, Begin
<1>4. LineInRequest'
    BY <1>1 DEF LineInRequest, Begin, TypeOK
<1>5. RowLocks'
    BY DEF RowLocks, Begin, TypeOK
<1>6. MovedIsDirty' /\ DraftFollowsMoves'
    BY DEF MovedIsDirty, DraftFollowsMoves, Begin, TypeOK
<1>8. ReadIsFresh'
    BY DEF ReadIsFresh, Begin, TypeOK, Target, Delta, Visible
<1>9. LinesApplied'
  <2>1. AppliedFits(w)'
    <3>1. /\ pc'[w] = "read" /\ req'[w] = r /\ line'[w] = 1
          /\ dirty'[w] = dirty[w] /\ moved'[w] = moved[w] /\ raced' = raced
        BY DEF Begin, TypeOK, LineInRequest
    <3>2. Applied(w) = 0 /\ Applied(w)' = 0
        BY <3>1 DEF Applied, Begin
    <3>3. req[w] \in Seq(Line)
        BY DEF TypeOK
    <3>4. \A p \in Products : moved[w][p] = Book!After(r, p, 0)
        BY <1>1, <3>2, <3>3, AfterNone DEF LinesApplied, AppliedFits
    <3>5. \A p \in dirty[w] \ raced, i \in 0..0 : stock'[p] + Book!After(r, p, i) >= 0
      <4>1. \A p \in dirty[w] : stock'[p] >= 0 /\ stock'[p] \in Int
          BY DEF Begin, TypeOK, NoNegativeStock
      <4>2. QED
          BY <1>1, <4>1, AfterNone
    <3>6. QED
        BY <3>1, <3>2, <3>4, <3>5 DEF AppliedFits
  <2>2. ASSUME NEW v \in Workers, v # w PROVE AppliedFits(v)'
      BY <2>2, OthersFit DEF Begin, TypeOK, LinesApplied
  <2>3. QED
      BY <2>1, <2>2 DEF LinesApplied
<1>10. QED
    BY <1>2, <1>3, <1>4, <1>5, <1>6, <1>8, <1>9

\* The SELECT of a balance that allows the movement.
LEMMA ReadBalanceIInv ==
    ASSUME NEW w \in Workers, IInv, ReadBalance(w)
    PROVE  IInv'
<1> USE DEF IInv
<1>1. Target(w) \in Products /\ Delta(w) \in Int
    BY LineFields DEF ReadBalance
<1>2. Visible(w, Target(w)) \in Int
    BY <1>1 DEF Visible, TypeOK
<1>3. TypeOK'
    BY <1>1, <1>2 DEF TypeOK, ReadBalance, Phases
<1>4. NoNegativeStock' /\ InSyncUnlessRaced'
    BY DEF NoNegativeStock, InSyncUnlessRaced, ReadBalance
<1>5. LineInRequest'
    BY DEF LineInRequest, ReadBalance, TypeOK
<1>6. RowLocks'
    BY DEF RowLocks, ReadBalance, TypeOK
<1>7. MovedIsDirty' /\ DraftFollowsMoves'
    BY DEF MovedIsDirty, DraftFollowsMoves, ReadBalance, TypeOK
<1>8. ReadIsFresh'
    BY DEF ReadIsFresh, ReadBalance, TypeOK, Target, Delta, Visible
<1>9. LinesApplied'
  <2>1. AppliedFits(w)'
    <3>1. Applied(w)' = Applied(w) /\ pc'[w] = "update" /\ pc[w] = "read"
        BY DEF Applied, ReadBalance, TypeOK
    <3>2. AppliedFits(w) /\ UNCHANGED <<stock, req, line, dirty, moved, raced>>
        BY DEF LinesApplied, ReadBalance
    <3>3. QED
        BY <3>1, <3>2 DEF AppliedFits
  <2>2. ASSUME NEW v \in Workers, v # w PROVE AppliedFits(v)'
      BY <2>2, OthersFit DEF ReadBalance, TypeOK, LinesApplied
  <2>3. QED
      BY <2>1, <2>2 DEF LinesApplied
<1>10. QED
    BY <1>3, <1>4, <1>5, <1>6, <1>7, <1>8, <1>9

\* The UPDATE and the INSERT, behind the row's lock.
LEMMA UpdateBalanceIInv ==
    ASSUME NEW w \in Workers, IInv, UpdateBalance(w)
    PROVE  IInv'
<1> USE DEF IInv
<1> DEFINE p == Target(w)
           d == Delta(w)
<1>1. /\ p \in Products /\ d \in Int
      /\ req[w] \in Seq(Line) /\ line[w] \in 1..Len(req[w])
      /\ pc[w] = "update"
    BY LineFields DEF UpdateBalance
<1>2. /\ draft' = [draft EXCEPT ![w][p] = newBalance[w]]
      /\ dirty' = [dirty EXCEPT ![w] = @ \cup {p}]
      /\ moved' = [moved EXCEPT ![w][p] = @ + d]
      /\ \A v \in Workers \ {w} : p \notin dirty[v]
      /\ UNCHANGED <<stock, ledger, req, newBalance, begun, raced>>
      /\ line' \in [Workers -> Nat]
      /\ line' = [line EXCEPT ![w] = IF line[w] < Len(req[w])
                                     THEN line[w] + 1 ELSE line[w]]
      /\ pc' = [pc EXCEPT ![w] = PhaseAfter(req[w], line[w])]
    BY <1>1 DEF UpdateBalance, LockedByOther, TypeOK
<1>3. newBalance[w] >= 0 /\ newBalance[w] \in Int
    BY <1>1 DEF RowLocks, TypeOK
<1>4. PhaseAfter(req[w], line[w]) \in {"read", "commit"}
    BY DEF PhaseAfter
<1> HIDE DEF p, d
<1>5. TypeOK'
    BY <1>1, <1>2, <1>3, <1>4 DEF TypeOK, Phases
<1>6. NoNegativeStock' /\ InSyncUnlessRaced'
    BY <1>2 DEF NoNegativeStock, InSyncUnlessRaced
<1>7. LineInRequest'
    BY <1>1, <1>2, <1>4 DEF LineInRequest, TypeOK
<1>8. RowLocks'
  <2>1. \A u, v \in Workers : u # v => dirty'[u] \cap dirty'[v] = {}
      BY <1>2 DEF RowLocks, TypeOK
  <2>2. \A v \in Workers : \A q \in dirty'[v] : draft'[v][q] >= 0
      BY <1>1, <1>2, <1>3 DEF RowLocks, TypeOK
  <2>3. \A v \in Workers : pc'[v] = "update" => newBalance'[v] >= 0
      BY <1>2, <1>4 DEF RowLocks, TypeOK
  <2>4. QED
      BY <2>1, <2>2, <2>3 DEF RowLocks
<1>9. MovedIsDirty'
    BY <1>1, <1>2 DEF MovedIsDirty, TypeOK
<1>10. DraftFollowsMoves'
  <2> SUFFICES ASSUME NEW v \in Workers, NEW q \in dirty'[v] \ raced'
               PROVE  draft'[v][q] = stock'[q] + moved'[v][q]
      BY DEF DraftFollowsMoves
  <2>1. q \in Products
      BY <1>1, <1>2 DEF TypeOK
  <2>2. CASE v = w /\ q = p
    <3>1. newBalance[w] = Visible(w, p) + d
        BY <1>1, <1>2, <2>2 DEF ReadIsFresh, p, d
    <3>2. Visible(w, p) = stock[p] + moved[w][p]
        BY <1>1, <1>2, <2>2
        DEF Visible, DraftFollowsMoves, MovedIsDirty, TypeOK
    <3>3. draft'[w][p] = newBalance[w] /\ moved'[w][p] = moved[w][p] + d
        BY <1>1, <1>2 DEF TypeOK
    <3>4. stock[p] \in Int /\ moved[w][p] \in Int
        BY <1>1 DEF TypeOK
    <3>5. QED
        BY <1>1, <1>2, <2>2, <3>1, <3>2, <3>3, <3>4
  <2>3. CASE ~ (v = w /\ q = p)
    <3>1. draft'[v][q] = draft[v][q] /\ moved'[v][q] = moved[v][q]
        BY <1>1, <1>2, <2>1, <2>3 DEF TypeOK
    <3>2. q \in dirty[v] \ raced
        BY <1>2, <2>3 DEF TypeOK
    <3>3. QED
        BY <1>2, <3>1, <3>2 DEF DraftFollowsMoves
  <2>4. QED
      BY <2>2, <2>3
<1>11. ReadIsFresh'
  <2> SUFFICES ASSUME NEW v \in Workers, pc'[v] = "update",
                      Target(v)' \notin raced'
               PROVE  newBalance'[v] = Visible(v, Target(v))' + Delta(v)'
      BY DEF ReadIsFresh
  <2>1. v # w
      BY <1>2, <1>4 DEF TypeOK
  <2>2. /\ pc[v] = "update" /\ Target(v)' = Target(v) /\ Delta(v)' = Delta(v)
        /\ Target(v) \notin raced
      BY <1>2, <2>1 DEF TypeOK, Target, Delta
  <2>3. dirty'[v] = dirty[v] /\ draft'[v] = draft[v]
      BY <1>2, <2>1 DEF TypeOK
  <2>4. Visible(v, Target(v))' = Visible(v, Target(v))
      BY <1>2, <2>2, <2>3 DEF Visible
  <2>5. QED
      BY <1>2, <2>2, <2>4 DEF ReadIsFresh
<1>12. AppliedFits(w)'
  <2> DEFINE r == req[w]
             n == line[w]
  <2>1. /\ r \in Seq(Line) /\ n \in 1..Len(r) /\ n \in Nat /\ n - 1 \in Nat
        /\ r[n].product = p /\ r[n].delta = d
      BY <1>1 DEF Target, Delta, p, d
  <2>2. Applied(w) = n - 1 /\ AppliedFits(w)
      BY <1>1 DEF Applied, LinesApplied
  <2>3. Applied(w)' = n /\ (pc'[w] = "commit" => line'[w] = Len(r)) /\ req'[w] = r
    <3>1. CASE n < Len(r)
      <4>1. pc'[w] = "read" /\ line'[w] = n + 1
          BY <1>2, <3>1 DEF TypeOK, PhaseAfter
      <4>2. QED
          BY <1>2, <2>1, <4>1 DEF Applied
    <3>2. CASE n = Len(r)
      <4>1. pc'[w] = "commit" /\ line'[w] = n
          BY <1>2, <3>2 DEF TypeOK, PhaseAfter
      <4>2. QED
          BY <1>2, <3>2, <4>1 DEF Applied
    <3>3. QED
        BY <2>1, <3>1, <3>2
  <2>4. dirty'[w] = dirty[w] \cup {p} /\ stock' = stock /\ raced' = raced
      BY <1>2 DEF TypeOK
  <2>5. \A i \in 1..n : r[i].product \in dirty'[w]
    <3>1. \A i \in 1..n : i = n \/ i \in 1..(n - 1)
        BY <2>1
    <3>2. QED
        BY <2>1, <2>2, <2>4, <3>1 DEF AppliedFits
  <2>6. \A q \in Products : moved'[w][q] = Book!After(r, q, n)
    <3> SUFFICES ASSUME NEW q \in Products PROVE moved'[w][q] = Book!After(r, q, n)
        OBVIOUS
    <3>1. Book!After(r, q, n) = moved[w][q] + Effect(r, q, n)
        BY <2>1, <2>2, AfterNext DEF AppliedFits
    <3>2. CASE q = p
        BY <1>1, <1>2, <2>1, <3>1, <3>2 DEF TypeOK, Effect
    <3>3. CASE q # p
      <4>1. moved'[w][q] = moved[w][q] /\ moved[w][q] \in Int
          BY <1>2, <3>3 DEF TypeOK
      <4>2. Effect(r, q, n) = 0
          BY <2>1, <3>3 DEF Effect
      <4>3. QED
          BY <3>1, <4>1, <4>2
    <3>4. QED
        BY <3>2, <3>3
  <2>7. ASSUME NEW q \in dirty'[w] \ raced', NEW i \in 0..n
        PROVE  stock'[q] + Book!After(r, q, i) >= 0
    <3>1. q \in Products /\ stock[q] \in Int /\ stock[q] >= 0 /\ dirty'[w] \subseteq Products
        BY <1>5, <2>7, <2>4 DEF TypeOK, NoNegativeStock
    <3>2. CASE i = n
      <4>1. draft'[w][q] = stock[q] + moved'[w][q] /\ draft'[w][q] >= 0
          BY <1>8, <1>10, <2>4, <2>7 DEF DraftFollowsMoves, RowLocks
      <4>2. QED
          BY <2>4, <2>6, <3>1, <3>2, <4>1
    <3>3. CASE i # n
      <4>1. i \in 0..(n - 1) /\ i \in 0..Len(r)
          BY <2>1, <2>7, <3>3
      <4>2. CASE q \in dirty[w]
          BY <2>2, <2>4, <2>7, <4>1, <4>2 DEF AppliedFits
      <4>3. CASE q \notin dirty[w]
        <5>1. \A j \in 1..i : r[j].product # q
            BY <2>1, <2>2, <4>1, <4>3 DEF AppliedFits
        <5>2. Book!After(r, q, i) = 0
            BY <2>1, <4>1, <5>1, AfterOthers
        <5>3. QED
            BY <2>4, <3>1, <5>2
      <4>4. QED
          BY <4>2, <4>3
    <3>4. QED
        BY <3>2, <3>3
  <2>8. pc'[w] # "idle" => r \in RequestsOf[w]
      BY <1>1, <2>2 DEF AppliedFits
  <2> HIDE DEF r, n
  <2>9. QED
      BY <2>3, <2>5, <2>6, <2>7, <2>8 DEF AppliedFits
<1>13. LinesApplied'
  <2>1. ASSUME NEW v \in Workers, v # w PROVE AppliedFits(v)'
      BY <1>2, <2>1, OthersFit DEF TypeOK, LinesApplied
  <2>2. QED
      BY <1>12, <2>1 DEF LinesApplied
<1>14. QED
    BY <1>5, <1>6, <1>7, <1>8, <1>9, <1>10, <1>11, <1>13

\* COMMIT: the locks keep the other drafts disjoint from what is published,
\* and a worker whose SELECT it makes stale has its product marked as raced.
LEMMA CommitIInv ==
    ASSUME NEW w \in Workers, IInv, Commit(w)
    PROVE  IInv'
<1> USE DEF IInv
<1>1. /\ pc[w] = "commit"
      /\ stock' = [p \in Products |-> Visible(w, p)]
      /\ ledger' = [p \in Products |-> ledger[p] + moved[w][p]]
      /\ raced' = raced \cup {p \in dirty[w] : HasRead(w, p)}
      /\ EndTx(w) /\ begun' = begun
    BY DEF Commit
<1>2. None \in [Products -> Int]
    BY DEF None
<1>3. \A p \in Products : Visible(w, p) \in Int /\ moved[w][p] \in Int
    BY DEF Visible, TypeOK
<1>4. TypeOK'
  <2>1. stock' \in [Products -> Int] /\ ledger' \in [Products -> Int]
      BY <1>1, <1>3 DEF TypeOK
  <2>2. raced' \in SUBSET Products
      BY <1>1 DEF TypeOK
  <2>3. QED
      BY <1>1, <1>2, <2>1, <2>2 DEF TypeOK, EndTx, Phases
<1>5. NoNegativeStock'
    BY <1>1 DEF NoNegativeStock, Visible, RowLocks
<1>6. InSyncUnlessRaced'
  <2> SUFFICES ASSUME NEW p \in Products \ raced' PROVE stock'[p] = ledger'[p]
      BY DEF InSyncUnlessRaced
  <2>1. stock[p] = ledger[p]
      BY <1>1 DEF InSyncUnlessRaced
  <2>2. Visible(w, p) = stock[p] + moved[w][p]
      BY <1>1 DEF Visible, DraftFollowsMoves, MovedIsDirty, TypeOK
  <2>3. QED
      BY <1>1, <2>1, <2>2
<1>7. LineInRequest'
    BY <1>1 DEF LineInRequest, EndTx, TypeOK
<1>8. RowLocks'
    BY <1>1 DEF RowLocks, EndTx, TypeOK
<1>9. MovedIsDirty'
    BY <1>1 DEF MovedIsDirty, EndTx, TypeOK, None
<1>10. \A v \in Workers \ {w} : \A q \in dirty[v] : stock'[q] = stock[q]
    BY <1>1 DEF RowLocks, Visible, TypeOK
<1>11. DraftFollowsMoves'
  <2> SUFFICES ASSUME NEW v \in Workers, NEW q \in dirty'[v] \ raced'
               PROVE  draft'[v][q] = stock'[q] + moved'[v][q]
      BY DEF DraftFollowsMoves
  <2>1. v # w
      BY <1>1 DEF EndTx, TypeOK
  <2>2. /\ dirty'[v] = dirty[v] /\ draft'[v] = draft[v]
        /\ moved'[v] = moved[v] /\ q \notin raced
      BY <1>1, <2>1 DEF EndTx, TypeOK
  <2>3. QED
      BY <1>10, <2>1, <2>2 DEF DraftFollowsMoves
<1>12. ReadIsFresh'
  <2> SUFFICES ASSUME NEW v \in Workers, pc'[v] = "update",
                      Target(v)' \notin raced'
               PROVE  newBalance'[v] = Visible(v, Target(v))' + Delta(v)'
      BY DEF ReadIsFresh
  <2>1. v # w
      BY <1>1 DEF EndTx, TypeOK
  <2>2. /\ pc[v] = "update" /\ Target(v)' = Target(v) /\ Delta(v)' = Delta(v)
        /\ newBalance'[v] = newBalance[v]
        /\ dirty'[v] = dirty[v] /\ draft'[v] = draft[v]
      BY <1>1, <2>1 DEF EndTx, TypeOK, Target, Delta
  <2>3. Target(v) \in Products
      BY <2>2, LineFields
  <2>4. Target(v) \notin dirty[w]
      BY <1>1, <2>1, <2>2 DEF HasRead
  <2>5. stock'[Target(v)] = stock[Target(v)]
      BY <1>1, <2>3, <2>4 DEF Visible
  <2>6. Visible(v, Target(v))' = Visible(v, Target(v))
      BY <2>2, <2>5 DEF Visible
  <2>7. QED
      BY <1>1, <2>2, <2>6 DEF ReadIsFresh
<1>13. LinesApplied'
  <2>1. AppliedFits(w)'
    <3>1. pc'[w] = "idle" /\ req'[w] = <<>> /\ dirty'[w] = {} /\ moved'[w] = None
        BY <1>1 DEF EndTx, TypeOK
    <3>2. QED
        BY <3>1, EndedFits
  <2>2. ASSUME NEW v \in Workers, v # w PROVE AppliedFits(v)'
    <3>1. /\ pc'[v] = pc[v] /\ req'[v] = req[v] /\ line'[v] = line[v]
          /\ dirty'[v] = dirty[v] /\ moved'[v] = moved[v]
        BY <1>1, <2>2 DEF EndTx, TypeOK
    <3>2. raced \subseteq raced' /\ \A p \in dirty[v] : stock'[p] = stock[p]
        BY <1>1, <1>10, <2>2
    <3>3. QED
        BY <3>1, <3>2, OthersFit DEF LinesApplied
  <2>3. QED
      BY <2>1, <2>2 DEF LinesApplied
<1>14. QED
    BY <1>4, <1>5, <1>6, <1>7, <1>8, <1>9, <1>11, <1>12, <1>13

\* Every step preserves the inductive invariant.
LEMMA NextIInv == IInv /\ [Next]_vars => IInv'
<1> SUFFICES ASSUME IInv, [Next]_vars PROVE IInv'
    OBVIOUS
<1>1. ASSUME NEW w \in Workers, Begin(w) PROVE IInv'
    BY <1>1, BeginIInv
<1>2. ASSUME NEW w \in Workers, ReadBalance(w) PROVE IInv'
    BY <1>2, ReadBalanceIInv
<1>3. ASSUME NEW w \in Workers, UpdateBalance(w) PROVE IInv'
    BY <1>3, UpdateBalanceIInv
<1>4. ASSUME NEW w \in Workers, Commit(w) PROVE IInv'
    BY <1>4, CommitIInv
<1>5. ASSUME NEW w \in Workers, Reject(w) \/ Fail(w) \/ AbortVictim(w)
      PROVE  IInv'
    BY <1>5, RollbackIInv DEF Reject, Fail, AbortVictim
<1>6. CASE UNCHANGED vars
  <2>1. /\ TypeOK' /\ NoNegativeStock' /\ InSyncUnlessRaced' /\ LineInRequest'
        /\ RowLocks' /\ MovedIsDirty' /\ DraftFollowsMoves' /\ ReadIsFresh'
      BY <1>6 DEF vars, txVars, IInv, TypeOK, NoNegativeStock,
         InSyncUnlessRaced, LineInRequest, RowLocks, MovedIsDirty,
         DraftFollowsMoves, ReadIsFresh, Visible, Target, Delta
  <2>2. LinesApplied'
    <3>1. SUFFICES ASSUME NEW w \in Workers PROVE AppliedFits(w)'
        BY DEF LinesApplied
    <3>2. /\ AppliedFits(w) /\ pc' = pc /\ req' = req /\ line' = line /\ dirty' = dirty
          /\ moved' = moved /\ raced' = raced /\ stock' = stock
        BY <1>6 DEF vars, txVars, IInv, LinesApplied
    <3>3. QED
        BY <3>2, OthersFit
  <2>3. QED
      BY <2>1, <2>2 DEF IInv
<1>7. QED
    BY <1>1, <1>2, <1>3, <1>4, <1>5, <1>6 DEF Next, Progress, Done

\* The inductive invariant holds in every reachable state.
THEOREM SpecIInv == Spec => []IInv
<1>1. QED
    BY InitIInv, NextIInv, PTL DEF Spec

\* Stored balances are never negative, whatever the requests and however they
\* interleave, fail or deadlock (stock.service.ts:54-67).
THEOREM SpecNoNegativeStock == Spec => []NoNegativeStock
<1>1. IInv => NoNegativeStock
    BY DEF IInv
<1>2. QED
    BY <1>1, SpecIInv, PTL

\* A balance departs from the sum of its movements only through a commit that
\* falls between another transaction's SELECT and UPDATE of the same product.
THEOREM SpecInSyncUnlessRaced == Spec => []InSyncUnlessRaced
<1>1. IInv => InSyncUnlessRaced
    BY DEF IInv
<1>2. QED
    BY <1>1, SpecIInv, PTL

-----------------------------------------------------------------------------
\* The steps of the workers as steps of the abstract book.

\* A commit adds to the ledger all the lines of the request, each once.
LEMMA CommitMovesWholeRequest ==
    ASSUME IInv, NEW w \in Workers, Commit(w)
    PROVE  /\ pc'[w] = "idle"
           /\ \A p \in Products :
                 /\ moved[w][p] = Book!Total(req[w], p)
                 /\ ledger'[p] = ledger[p] + Book!Total(req[w], p)
<1>1. AppliedFits(w) /\ Applied(w) = Len(req[w])
    BY DEF IInv, LinesApplied, Applied, Commit
<1>2. \A p \in Products : moved[w][p] = Book!Total(req[w], p)
    BY <1>1 DEF AppliedFits, Book!Total
<1>3. \A p \in Products : ledger'[p] = ledger[p] + moved[w][p]
    BY DEF Commit
<1>4. pc'[w] = "idle"
    BY DEF Commit, EndTx, IInv, TypeOK
<1>5. QED
    BY <1>2, <1>3, <1>4

\* The committed balances, and the ledger, change only at a commit.
LEMMA OnlyCommitsWrite ==
    ASSUME IInv, [Next]_vars, \A w \in Workers : ~ Commit(w)
    PROVE  stock' = stock /\ ledger' = ledger
<1>1. ASSUME NEW w \in Workers, Begin(w) \/ ReadBalance(w) \/ UpdateBalance(w)
      PROVE  stock' = stock /\ ledger' = ledger
    BY <1>1 DEF Begin, ReadBalance, UpdateBalance
<1>2. ASSUME NEW w \in Workers, Rollback(w) PROVE stock' = stock /\ ledger' = ledger
    BY <1>2 DEF Rollback
<1>3. CASE UNCHANGED vars
    BY <1>3 DEF vars
<1>4. QED
    BY <1>1, <1>2, <1>3 DEF Next, Progress, Done, Reject, Fail, AbortVictim

\* A commit that finds no row raced is one whole step of the book.
LEMMA CommitImplementsBook ==
    ASSUME IInv, NEW w \in Workers, Commit(w), raced' = {}
    PROVE  Book!Next
<1> DEFINE r == req[w]
<1>1. /\ r \in RequestsOf[w] /\ r \in Seq(Line)
      /\ AppliedFits(w) /\ Applied(w) = Len(r)
    BY DEF IInv, TypeOK, LinesApplied, AppliedFits, Applied, Commit
<1>2. raced = {}
    BY DEF Commit
<1>3. ASSUME NEW p \in Products PROVE stock'[p] = stock[p] + Book!Total(r, p)
  <2>1. moved[w][p] = Book!Total(r, p)
      BY CommitMovesWholeRequest
  <2>2. stock'[p] = Visible(w, p)
      BY DEF Commit
  <2>3. CASE p \in dirty[w]
      BY <2>1, <2>2, <2>3, <1>2 DEF Visible, IInv, DraftFollowsMoves
  <2>4. CASE p \notin dirty[w]
    <3>1. moved[w][p] = 0 /\ stock'[p] = stock[p] /\ stock[p] \in Int
        BY <2>2, <2>4 DEF Visible, IInv, TypeOK, MovedIsDirty
    <3>2. QED
        BY <2>1, <3>1
  <2>5. QED
      BY <2>3, <2>4
<1>4. ASSUME NEW i \in 1..Len(r), NEW p \in Products
      PROVE  stock[p] + Book!After(r, p, i) >= 0
  <2>1. CASE p \in dirty[w]
      BY <2>1, <1>1, <1>2 DEF AppliedFits
  <2>2. CASE p \notin dirty[w]
    <3>1. i \in 0..Len(r) /\ \A j \in 1..i : j \in 1..Len(r)
        BY <1>1
    <3>2. \A j \in 1..i : r[j].product # p
        BY <2>2, <1>1, <3>1 DEF AppliedFits
    <3>3. Book!After(r, p, i) = 0
        BY <1>1, <3>1, <3>2, AfterOthers
    <3>4. stock[p] \in Int /\ stock[p] >= 0
        BY DEF IInv, TypeOK, NoNegativeStock
    <3>5. QED
        BY <3>3, <3>4
  <2>3. QED
      BY <2>1, <2>2
<1>5. Book!Feasible(r)
    BY <1>4 DEF Book!Feasible
<1>6. stock' = [p \in Products |-> stock[p] + Book!Total(r, p)]
    BY <1>3 DEF Commit
<1>7. r \in UNION {RequestsOf[v] : v \in Workers}
    BY <1>1
<1>8. QED
    BY <1>5, <1>6, <1>7 DEF Book!Next, Book!Apply

\* A step that leaves no row raced is a step of the book, or none.
LEMMA StepImplementsBook == IInv /\ [Next]_vars => (raced' = {} => [Book!Next]_stock)
<1> SUFFICES ASSUME IInv, [Next]_vars, raced' = {} PROVE [Book!Next]_stock
    OBVIOUS
<1>1. CASE \E w \in Workers : Commit(w)
    BY <1>1, CommitImplementsBook
<1>2. CASE \A w \in Workers : ~ Commit(w)
    BY <1>2, OnlyCommitsWrite
<1>3. QED
    BY <1>1, <1>2

\* Until a lost update happens the balances change as if the transactions ran
\* one after the other: by all the lines of a request, none of which takes a
\* balance below zero (stock.service.ts:34-35, 47-80).
THEOREM SpecRacelessStepsImplementBook == Spec => RacelessStepsImplementBook
<1>1. QED
    BY SpecIInv, StepImplementsBook, PTL DEF Spec, RacelessStepsImplementBook

\* The ledger gains all the lines of a request or none of them, for every
\* request and every interleaving with failures and deadlock victims.
THEOREM SpecLedgerMovesByWholeRequests == Spec => LedgerMovesByWholeRequests
<1> DEFINE A == ledger' # ledger =>
                    \E w \in Workers :
                        /\ pc[w] = "commit" /\ pc'[w] = "idle"
                        /\ \A p \in Products :
                              ledger'[p] = ledger[p] + Book!Total(req[w], p)
<1>1. IInv /\ [Next]_vars => A
  <2> SUFFICES ASSUME IInv, [Next]_vars, ledger' # ledger
               PROVE  \E w \in Workers :
                        /\ pc[w] = "commit" /\ pc'[w] = "idle"
                        /\ \A p \in Products :
                              ledger'[p] = ledger[p] + Book!Total(req[w], p)
      OBVIOUS
  <2>1. PICK w \in Workers : Commit(w)
      BY OnlyCommitsWrite
  <2>2. pc[w] = "commit"
      BY <2>1 DEF Commit
  <2>3. QED
      BY <2>1, <2>2, CommitMovesWholeRequest
<1>2. QED
    BY <1>1, SpecIInv, PTL DEF Spec, LedgerMovesByWholeRequests

-----------------------------------------------------------------------------
\* The deployment in which the code is right without any caveat: the requests
\* of two workers never name the same product (one worker is such a case).

Touched(w) == UNION {{r[i].product : i \in 1..Len(r)} : r \in RequestsOf[w]}

DisjointRequests ==
    \A v, w \in Workers : v # w => Touched(v) \cap Touched(w) = {}

\* A worker touches the products of its requests only, so no row is raced.
OwnRowsOnly ==
    /\ \A w \in Workers : pc[w] # "idle" => req[w] \in RequestsOf[w]
    /\ \A w \in Workers : dirty[w] \subseteq Touched(w)
    /\ raced = {}

\* The product of the line a worker is at is one it may touch.
LEMMA TargetTouched ==
    ASSUME NEW w \in Workers, IInv, OwnRowsOnly, pc[w] # "idle"
    PROVE  Target(w) \in Touched(w)
<1>1. req[w] \in RequestsOf[w] /\ line[w] \in 1..Len(req[w])
    BY LineFields DEF OwnRowsOnly, IInv
<1>2. QED
    BY <1>1 DEF Touched, Target

\* Steps of workers with disjoint requests preserve OwnRowsOnly.
LEMMA NextOwnRowsOnly ==
    ASSUME DisjointRequests, IInv, OwnRowsOnly, [Next]_vars
    PROVE  OwnRowsOnly'
<1>1. ASSUME NEW w \in Workers, Begin(w) PROVE OwnRowsOnly'
    BY <1>1 DEF Begin, OwnRowsOnly, IInv, TypeOK
<1>2. ASSUME NEW w \in Workers, ReadBalance(w) PROVE OwnRowsOnly'
    BY <1>2 DEF ReadBalance, OwnRowsOnly, IInv, TypeOK
<1>3. ASSUME NEW w \in Workers, UpdateBalance(w) PROVE OwnRowsOnly'
  <2>1. Target(w) \in Touched(w)
      BY <1>3, TargetTouched DEF UpdateBalance
  <2>2. \A v \in Workers : pc'[v] # "idle" => pc[v] # "idle"
      BY <1>3 DEF UpdateBalance, IInv, TypeOK
  <2>3. \A v \in Workers : dirty'[v] \subseteq Touched(v)
      BY <1>3, <2>1 DEF UpdateBalance, OwnRowsOnly, IInv, TypeOK
  <2>4. QED
      BY <1>3, <2>2, <2>3 DEF UpdateBalance, OwnRowsOnly
<1>4. ASSUME NEW w \in Workers, Commit(w) PROVE OwnRowsOnly'
  <2>1. \A p \in dirty[w] : ~ HasRead(w, p)
    <3> SUFFICES ASSUME NEW v \in Workers \ {w}, pc[v] = "update",
                        Target(v) \in dirty[w]
                 PROVE  FALSE
        BY DEF HasRead
    <3>1. Target(v) \in Touched(v)
        BY TargetTouched
    <3>2. Target(v) \in Touched(w)
        BY DEF OwnRowsOnly
    <3>3. QED
        BY <3>1, <3>2 DEF DisjointRequests
  <2>2. raced' = {}
      BY <1>4, <2>1 DEF Commit, OwnRowsOnly
  <2>3. \A v \in Workers : dirty'[v] \subseteq dirty[v]
      BY <1>4 DEF Commit, EndTx, IInv, TypeOK
  <2>4. \A v \in Workers : pc'[v] # "idle" => pc[v] # "idle" /\ req'[v] = req[v]
      BY <1>4 DEF Commit, EndTx, IInv, TypeOK
  <2>5. QED
      BY <2>2, <2>3, <2>4 DEF OwnRowsOnly
<1>5. ASSUME NEW w \in Workers, Rollback(w) PROVE OwnRowsOnly'
    BY <1>5 DEF Rollback, EndTx, OwnRowsOnly, IInv, TypeOK
<1>6. CASE UNCHANGED vars
    BY <1>6 DEF vars, txVars, OwnRowsOnly
<1>7. QED
    BY <1>1, <1>2, <1>3, <1>4, <1>5, <1>6
    DEF Next, Progress, Done, Reject, Fail, AbortVictim

\* With disjoint requests the balance is always the sum of the movements: the
\* claim of products.schema.ts:19-20 holds where no two transactions in flight
\* touch the same product.
THEOREM DisjointKeptInSync ==
    ASSUME DisjointRequests
    PROVE  Spec => []KeptInSync
<1>1. Init => OwnRowsOnly
    BY DEF Init, OwnRowsOnly
<1>2. IInv /\ OwnRowsOnly /\ [Next]_vars => OwnRowsOnly'
    BY NextOwnRowsOnly
<1>3. IInv /\ OwnRowsOnly => KeptInSync
    BY DEF IInv, OwnRowsOnly, InSyncUnlessRaced, KeptInSync
<1>4. QED
    BY <1>1, <1>2, <1>3, SpecIInv, PTL DEF Spec

\* With disjoint requests the whole system implements the book: what the
\* balances show is what they would show had the transactions run one after
\* the other, in the order of their commits.
THEOREM DisjointImplementsBook ==
    ASSUME DisjointRequests
    PROVE  Spec => Book!Spec
<1>1. Init => OwnRowsOnly
    BY DEF Init, OwnRowsOnly
<1>2. IInv /\ OwnRowsOnly /\ [Next]_vars => OwnRowsOnly'
    BY NextOwnRowsOnly
<1>3. Init => Book!Init
    BY DEF Init, Book!Init, None
<1>4. IInv /\ OwnRowsOnly' /\ [Next]_vars => [Book!Next]_stock
    BY StepImplementsBook DEF OwnRowsOnly
<1>5. QED
    BY <1>1, <1>2, <1>3, <1>4, SpecIInv, PTL DEF Spec, Book!Spec
=============================================================================
