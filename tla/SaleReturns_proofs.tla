------------------------- MODULE SaleReturns_proofs -------------------------
(***************************************************************************)
(* Theorems about SaleReturns, for any sale, any returns and any number of *)
(* requests in flight.                                                     *)
(***************************************************************************)
EXTENDS SaleReturns, SumTheorems

LEMMA BodyTyped ==
    ASSUME TypeOK, NEW w \in Workers
    PROVE  /\ req[w].first \in [Items -> Nat] /\ req[w].second \in [Items -> Nat]
           /\ Asked(w) \in [Items -> Nat]
<1>1. req[w] \in Body
    BY ReturnsAssumption DEF TypeOK, Body, NoRequest, Nothing
<1>2. QED
    BY <1>1 DEF Body, Asked

LEMMA SaleTyped ==
    TypeOK => /\ sale.qty \in [Items -> Nat] /\ sale.price \in [Items -> Nat]
              /\ sale.total \in Nat
BY ReturnsAssumption DEF TypeOK, Sale

-----------------------------------------------------------------------------
\* The money of a return, as sums over the items of the sale.

\* Math.round, of a fraction that is not negative.
LEMMA RoundBounded ==
    ASSUME NEW n \in Nat, NEW d \in Nat \ {0}
    PROVE  /\ Round(n, d) \in Nat /\ 2 * d * Round(n, d) <= 2 * n + d
           /\ n = 0 => Round(n, d) = 0
<1> DEFINE a == 2 * n + d
           b == 2 * d
<1>1. a \in Nat /\ b \in Nat /\ b > 0
    OBVIOUS
<1>2. a \div b \in Nat /\ b * (a \div b) <= a /\ a < b => a \div b = 0
  <2> HIDE DEF a, b
  <2>1. QED
      BY <1>1
<1>3. n = 0 => a < b
    OBVIOUS
<1>4. Round(n, d) = a \div b
    BY DEF Round
<1> HIDE DEF a
<1>5. QED
    BY <1>2, <1>3, <1>4 DEF a

LEMMA ProductNat == \A m, n \in Nat : m * n \in Nat
OBVIOUS

LEMMA SubtotalNat == TypeOK => Subtotal \in Nat
<1> SUFFICES ASSUME TypeOK PROVE Subtotal \in Nat
    OBVIOUS
<1>1. \A i \in Items : [j \in Items |-> sale.price[j] * sale.qty[j]][i] \in Nat
    BY SaleTyped, ProductNat
<1>2. QED
    BY <1>1, SumNat, ReturnsAssumption DEF Subtotal, SumOver

\* What a request asks back, at list price.
AskedWorth(w) == SumOver([i \in Items |-> sale.price[i] * Asked(w)[i]])

LEMMA AskedWorthNat ==
    ASSUME TypeOK, NEW w \in Workers
    PROVE  AskedWorth(w) \in Nat
<1>1. \A i \in Items : [j \in Items |-> sale.price[j] * Asked(w)[j]][i] \in Nat
    BY SaleTyped, BodyTyped, ProductNat
<1>2. QED
    BY <1>1, SumNat, ReturnsAssumption DEF AskedWorth, SumOver

LEMMA WorthNat == TypeOK => Worth \in Nat
<1> SUFFICES ASSUME TypeOK PROVE Worth \in Nat
    OBVIOUS
<1>1. \A i \in Items : [j \in Items |-> sale.price[j] * returned[j]][i] \in Nat
    BY SaleTyped, ProductNat DEF TypeOK
<1>2. QED
    BY <1>1, SumNat, ReturnsAssumption DEF Worth, SumOver

\* The worth of an item is a part of the worth of what was sold.
LEMMA WorthWithinSubtotal ==
    ASSUME TypeOK, \A i \in Items : returned[i] <= sale.qty[i]
    PROVE  Worth <= Subtotal
<1> DEFINE f == [i \in Items |-> sale.price[i] * returned[i]]
           g == [i \in Items |-> sale.price[i] * sale.qty[i]]
<1>1. ASSUME NEW m \in Nat, NEW k \in Nat, NEW n \in Nat, k <= n PROVE m * k <= m * n
    BY <1>1
<1>2. ASSUME NEW i \in Items PROVE f[i] \in Int /\ g[i] \in Int /\ f[i] <= g[i]
  <2>1. sale.price[i] \in Nat /\ returned[i] \in Nat /\ sale.qty[i] \in Nat
      BY SaleTyped DEF TypeOK
  <2>2. QED
      BY <1>1, <2>1, ProductNat
<1> HIDE DEF f, g
<1>3. SumFunctionOnSet(f, Items) <= SumFunctionOnSet(g, Items)
    BY <1>2, SumAtMost, ReturnsAssumption
<1>4. QED
    BY <1>3 DEF Worth, Subtotal, SumOver, f, g

\* The refund of a request stays in proportion, to half a cent a line.
LEMMA RefundInProportion ==
    ASSUME TypeOK, NEW w \in Workers, Subtotal > 0
    PROVE  /\ Refund(w) \in Nat
           /\ 2 * Subtotal * Refund(w)
                 <= 2 * sale.total * AskedWorth(w) + Subtotal * LinesOf(w)
<1> DEFINE asked == {i \in Items : Asked(w)[i] > 0}
           refund == [i \in Items |-> RefundOf(i, Asked(w)[i])]
           worth == [i \in Items |-> sale.price[i] * Asked(w)[i]]
           one == [i \in Items |-> IF i \in asked THEN 1 ELSE 0]
           S == Subtotal
           T == sale.total
           left == [i \in Items |-> 2 * S * refund[i]]
           share == [i \in Items |-> 2 * T * worth[i]]
           half == [i \in Items |-> S * one[i]]
           right == [i \in Items |-> share[i] + half[i]]
<1>1. S \in Nat \ {0} /\ T \in Nat /\ 2 * S \in Int /\ 2 * T \in Int
    BY SubtotalNat, SaleTyped
<1>2. ASSUME NEW i \in Items
      PROVE  /\ refund[i] \in Nat /\ worth[i] \in Nat /\ one[i] \in Nat
             /\ left[i] <= right[i]
  <2> DEFINE p == sale.price[i]
             q == Asked(w)[i]
  <2>1. p \in Nat /\ q \in Nat
      BY SaleTyped, BodyTyped
  <2>2. worth[i] = p * q /\ p * q \in Nat /\ p * q * T \in Nat
      BY <1>1, <2>1, ProductNat
  <2>3. refund[i] = Round(p * q * T, S)
      BY <1>1 DEF RefundOf
  <2>4. /\ refund[i] \in Nat /\ 2 * S * refund[i] <= 2 * (p * q * T) + S
        /\ p * q * T = 0 => refund[i] = 0
    <3> DEFINE n == p * q * T
    <3>1. n \in Nat /\ S \in Nat \ {0} /\ refund[i] = Round(n, S)
        BY <1>1, <2>2, <2>3
    <3> HIDE DEF n, S, refund
    <3>2. refund[i] \in Nat /\ 2 * S * refund[i] <= 2 * n + S /\ n = 0 => refund[i] = 0
        BY <3>1, RoundBounded
    <3>3. QED
        BY <3>1, <3>2, RoundBounded DEF n
  <2>5. one[i] = IF q > 0 THEN 1 ELSE 0
      OBVIOUS
  <2>6. right[i] = 2 * T * (p * q) + S * one[i] /\ left[i] = 2 * S * refund[i]
      BY <2>2
  <2>7. CASE q > 0
    <3>1. 2 * T * (p * q) = 2 * (p * q * T)
        BY <1>1, <2>1, <2>2
    <3>2. S * one[i] = S
        BY <1>1, <2>5, <2>7
    <3>3. QED
        BY <2>2, <2>4, <2>5, <2>6, <2>7, <3>1, <3>2
  <2>8. CASE q = 0
    <3>1. p * q = 0 /\ p * q * T = 0 /\ one[i] = 0
        BY <1>1, <2>1, <2>5, <2>8
    <3>2. refund[i] = 0
        BY <2>4, <3>1
    <3>3. left[i] = 0 /\ right[i] = 0
        BY <1>1, <2>6, <3>1, <3>2
    <3>4. QED
        BY <2>2, <3>1, <3>2, <3>3
  <2>9. QED
      BY <2>1, <2>7, <2>8
<1>3. ASSUME NEW i \in Items
      PROVE  /\ refund[i] \in Int /\ worth[i] \in Int /\ one[i] \in Int
             /\ left[i] = (2 * S) * refund[i] /\ share[i] = (2 * T) * worth[i]
             /\ half[i] = S * one[i] /\ right[i] = share[i] + half[i]
             /\ left[i] \in Int /\ share[i] \in Int /\ half[i] \in Int /\ right[i] \in Int
  <2>1. refund[i] \in Nat /\ worth[i] \in Nat /\ one[i] \in Nat
      BY <1>2
  <2>2. /\ left[i] = (2 * S) * refund[i] /\ share[i] = (2 * T) * worth[i]
        /\ half[i] = S * one[i] /\ right[i] = share[i] + half[i]
      OBVIOUS
  <2> HIDE DEF left, share, half, right, refund, worth, one, S, T
  <2>3. QED
      BY <1>1, <2>1, <2>2
<1>4. \A i \in Items : one[i] = IF i \in asked THEN 1 ELSE 0
    OBVIOUS
<1>5. /\ SumFunctionOnSet(refund, Items) = Refund(w)
      /\ SumFunctionOnSet(worth, Items) = AskedWorth(w)
      /\ Cardinality(Items \cap asked) = LinesOf(w)
  <2>1. Items \cap asked = {i \in Items : Asked(w)[i] > 0}
      OBVIOUS
  <2>2. QED
      BY <2>1 DEF Refund, AskedWorth, SumOver, LinesOf
<1>6. IsFiniteSet(Items)
    BY ReturnsAssumption
<1> HIDE DEF left, share, half, right, refund, worth, one, asked, S, T
<1>7. SumFunctionOnSet(left, Items) <= SumFunctionOnSet(right, Items)
    BY <1>2, <1>3, <1>6, SumAtMost
<1>8. SumFunctionOnSet(right, Items)
        = SumFunctionOnSet(share, Items) + SumFunctionOnSet(half, Items)
    BY <1>3, <1>6, SumPlus
<1>9. /\ SumFunctionOnSet(left, Items) = (2 * S) * SumFunctionOnSet(refund, Items)
      /\ SumFunctionOnSet(share, Items) = (2 * T) * SumFunctionOnSet(worth, Items)
      /\ SumFunctionOnSet(half, Items) = S * SumFunctionOnSet(one, Items)
    BY <1>1, <1>3, <1>6, SumScale
<1>10. SumFunctionOnSet(one, Items) = Cardinality(Items \cap asked)
    BY <1>4, <1>6, SumCount
<1>11. SumFunctionOnSet(refund, Items) \in Nat
    BY <1>2, <1>6, SumNat
<1>12. QED
    BY <1>5, <1>7, <1>8, <1>9, <1>10, <1>11 DEF S, T

\* A sale without value is refunded at list price, which is nothing.
LEMMA RefundOfNoValue ==
    ASSUME TypeOK, NEW w \in Workers, ~ (Subtotal > 0)
    PROVE  Refund(w) = AskedWorth(w) /\ Refund(w) \in Nat
<1>1. [i \in Items |-> RefundOf(i, Asked(w)[i])]
        = [i \in Items |-> sale.price[i] * Asked(w)[i]]
    BY DEF RefundOf
<1>2. QED
    BY <1>1, AskedWorthNat DEF Refund, AskedWorth

\* The steps that leave the rows alone leave the proportion as it was.
LEMMA UnpaidInProportion ==
    ASSUME PaidInProportion, UNCHANGED <<sale, returned, refunded, lines>>
    PROVE  PaidInProportion'
<1>1. Subtotal' = Subtotal /\ Worth' = Worth
    BY DEF Subtotal, Worth, SumOver
<1>2. QED
    BY <1>1 DEF PaidInProportion

LEMMA CommitInProportion ==
    ASSUME TypeOK, PaidInProportion, NEW w \in Workers, Commit(w)
    PROVE  PaidInProportion'
<1>1. /\ returned' = [i \in Items |-> returned[i] + Asked(w)[i]]
      /\ refunded' = refunded + Refund(w) /\ lines' = lines + LinesOf(w) /\ sale' = sale
    BY DEF Commit
<1>2. Subtotal' = Subtotal /\ Subtotal \in Nat /\ sale.total \in Nat
    BY <1>1, SubtotalNat, SaleTyped DEF Subtotal, SumOver
<1>3. Worth' = Worth + AskedWorth(w) /\ Worth \in Nat /\ AskedWorth(w) \in Nat
  <2> DEFINE f == [i \in Items |-> sale.price[i] * returned[i]]
             g == [i \in Items |-> sale.price[i] * Asked(w)[i]]
             h == [i \in Items |-> sale.price[i] * (returned[i] + Asked(w)[i])]
  <2>1. \A i \in Items : f[i] \in Int /\ g[i] \in Int /\ h[i] = f[i] + g[i]
    <3>1. ASSUME NEW p \in Nat, NEW a \in Nat, NEW b \in Nat
          PROVE  p * a \in Int /\ p * b \in Int /\ p * (a + b) = p * a + p * b
        OBVIOUS
    <3>2. QED
        BY <3>1, SaleTyped, BodyTyped DEF TypeOK
  <2>2. Worth' = SumFunctionOnSet(h, Items)
    <3>1. [i \in Items |-> sale'.price[i] * returned'[i]] = h
        BY <1>1
    <3>2. QED
        BY <3>1 DEF Worth, SumOver
  <2>3. Worth = SumFunctionOnSet(f, Items) /\ AskedWorth(w) = SumFunctionOnSet(g, Items)
      BY DEF Worth, AskedWorth, SumOver
  <2> HIDE DEF f, g, h
  <2>4. SumFunctionOnSet(h, Items) = SumFunctionOnSet(f, Items) + SumFunctionOnSet(g, Items)
      BY <2>1, SumPlus, ReturnsAssumption
  <2>5. QED
      BY <2>2, <2>3, <2>4, WorthNat, AskedWorthNat
<1>4. LinesOf(w) \in Nat /\ refunded \in Nat /\ lines \in Nat
  <2>1. IsFiniteSet({i \in Items : Asked(w)[i] > 0})
      BY ReturnsAssumption, FS_Subset
  <2>2. QED
      BY <2>1, FS_CardinalityType DEF LinesOf, PaidInProportion
<1> DEFINE S == Subtotal
           T == sale.total
           r == Refund(w)
           n == LinesOf(w)
           v == AskedWorth(w)
           W == Worth
<1>5. CASE S > 0
  <2>1. r \in Nat /\ 2 * S * r <= 2 * T * v + S * n
      BY <1>5, RefundInProportion
  <2>2. 2 * S * refunded <= 2 * T * W + S * lines
      BY <1>5 DEF PaidInProportion
  <2>3. ASSUME NEW a \in Nat, NEW b \in Nat, NEW c \in Nat, NEW d \in Nat,
               NEW e \in Nat, NEW f \in Nat, NEW s \in Nat, NEW t \in Nat,
               2 * s * a <= 2 * t * b + s * c, 2 * s * d <= 2 * t * e + s * f
        PROVE  2 * s * (a + d) <= 2 * t * (b + e) + s * (c + f)
    <3>1. /\ 2 * s * (a + d) = 2 * s * a + 2 * s * d
          /\ 2 * t * (b + e) = 2 * t * b + 2 * t * e
          /\ s * (c + f) = s * c + s * f
        OBVIOUS
    <3>2. /\ 2 * s * a \in Int /\ 2 * s * d \in Int /\ 2 * t * b \in Int
          /\ 2 * t * e \in Int /\ s * c \in Int /\ s * f \in Int
        OBVIOUS
    <3>3. QED
        BY <2>3, <3>1, <3>2
  <2>4. 2 * S * (refunded + r) <= 2 * T * (W + v) + S * (lines + n)
    <3> HIDE DEF S, T, r, n, v, W
    <3>1. /\ S \in Nat /\ T \in Nat /\ r \in Nat /\ n \in Nat /\ v \in Nat /\ W \in Nat
          /\ refunded \in Nat /\ lines \in Nat
        BY <1>2, <1>3, <1>4, <2>1 DEF S, T, n, v, W
    <3>2. QED
        BY <2>1, <2>2, <2>3, <3>1
  <2>5. refunded' \in Nat /\ lines' \in Nat
      BY <1>1, <1>4, <2>1
  <2>6. 2 * Subtotal' * refunded' <= 2 * sale'.total * Worth' + Subtotal' * lines'
      BY <1>1, <1>2, <1>3, <2>4
  <2>7. Subtotal' > 0
      BY <1>2, <1>5
  <2>8. QED
      BY <2>5, <2>6, <2>7 DEF PaidInProportion
<1>6. CASE ~ (S > 0)
  <2>1. r = v /\ r \in Nat
      BY <1>6, RefundOfNoValue
  <2>2. refunded = W
      BY <1>6 DEF PaidInProportion
  <2>3. refunded' \in Nat /\ lines' \in Nat /\ refunded' = Worth'
      BY <1>1, <1>3, <1>4, <2>1, <2>2
  <2>4. ~ (Subtotal' > 0)
      BY <1>2, <1>6
  <2>5. QED
      BY <2>3, <2>4 DEF PaidInProportion
<1>7. QED
    BY <1>5, <1>6

-----------------------------------------------------------------------------

\* The refunds on cards, as a sum over the requests in flight.

LEMMA HeldNat ==
    ASSUME TypeOK, NEW w \in Workers
    PROVE  Refund(w) \in Nat /\ Held(w) \in Nat
<1>1. Refund(w) \in Nat
    BY SubtotalNat, RefundInProportion, RefundOfNoValue, AskedWorthNat
<1>2. QED
    BY <1>1 DEF Held

LEMMA HeldAllNat == TypeOK => \A v \in Workers : Held(v) \in Nat
BY HeldNat

LEMMA HeldNatNext == TypeOK' => \A v \in Workers : Held(v)' \in Nat
<1>1. (TypeOK => \A v \in Workers : Held(v) \in Nat)'
    BY HeldAllNat, PTL
<1>2. QED
    BY <1>1

\* One request moves what it holds, the rows and the provider together.
LEMMA CardRefundsStep ==
    ASSUME TypeOK, TypeOK', CardRefundsMade, NEW w \in Workers, sale' = sale,
           \A v \in Workers \ {w} : pc'[v] = pc[v] /\ req'[v] = req[v],
           onCard' \in Nat, cardRefunds' \in Nat,
           onCard' + Held(w)' - cardRefunds' <= onCard + Held(w) - cardRefunds
    PROVE  CardRefundsMade'
<1> DEFINE f == [v \in Workers |-> Held(v)]
           g == [v \in Workers |-> Held(v)']
<1>1. ASSUME NEW v \in Workers PROVE Held(v) \in Nat /\ Held(v)' \in Nat
    BY <1>1, HeldNat, HeldNatNext
<1>2. ASSUME NEW v \in Workers \ {w} PROVE Held(v)' = Held(v)
  <2>1. /\ pc'[v] = pc[v] /\ req'[v] = req[v] /\ sale' = sale
      OBVIOUS
  <2>2. Asked(v)' = Asked(v)
      BY <2>1 DEF Asked
  <2>3. Subtotal' = Subtotal
      BY DEF Subtotal, SumOver
  <2>4. Refund(v)' = Refund(v)
      BY <2>2, <2>3 DEF Refund, RefundOf, SumOver, Round
  <2>5. QED
      BY <2>1, <2>4 DEF Held, OnCard
<1>3. /\ \A v \in Workers : f[v] \in Int
      /\ f[w] = Held(w) /\ g[w] = Held(w)' /\ g[w] \in Int
      /\ \A v \in Workers \ {w} : g[v] = f[v]
    BY <1>1, <1>2
<1>4. SumFunctionOnSet(f, Workers) + onCard <= cardRefunds
    BY SumInt, <1>3, ReturnsAssumption DEF CardRefundsMade
<1>5. SumFunctionOnSet(f, Workers) \in Int
    BY <1>1, SumNat, ReturnsAssumption
<1>6. CardRefundsMade' = (/\ onCard' \in Nat /\ cardRefunds' \in Nat
                          /\ onCard' + SumFunctionOnSet(g, Workers) <= cardRefunds')
    BY DEF CardRefundsMade
<1> HIDE DEF f, g
<1>7. SumFunctionOnSet(g, Workers) = SumFunctionOnSet(f, Workers) - f[w] + g[w]
    BY <1>3, SumUpdate, ReturnsAssumption
<1>8. onCard \in Nat /\ cardRefunds \in Nat /\ Held(w) \in Nat /\ Held(w)' \in Nat
    BY <1>1 DEF CardRefundsMade
<1>9. QED
    BY <1>3, <1>4, <1>5, <1>6, <1>7, <1>8

LEMMA InitIInv == Init => IInv
<1> SUFFICES ASSUME Init PROVE IInv
    OBVIOUS
<1>1. TypeOK
    BY DEF Init, TypeOK, Nothing, Phases, NoRequest
<1>2. sale.qty \in [Items -> Nat] /\ returned = Nothing
    BY <1>1, SaleTyped DEF Init
<1>3. ReturnedWithinSold /\ CanceledWhenAllReturned
  <2>1. \E i \in Items : sale.qty[i] > 0
      BY ReturnsAssumption DEF Init
  <2>2. returned # sale.qty
      BY <1>2, <2>1 DEF Nothing
  <2>3. QED
      BY <1>2, <2>2
      DEF Init, ReturnedWithinSold, CanceledWhenAllReturned, Nothing
<1>4. LiveNoteIsFlagged
    BY DEF Init, LiveNoteIsFlagged
<1>5. \A w \in Workers : Steady(w)
    BY DEF Init, Steady, SeenIsFresh, AsksSomething, NoteSettled, AfterRead, FiscalDone
<1>6. PaidInProportion
  <2>1. \A i \in Items : [j \in Items |-> sale.price[j] * returned[j]][i] = 0
    <3>1. \A m \in Nat : m * 0 = 0
        OBVIOUS
    <3>2. QED
        BY <1>1, <1>2, <3>1, SaleTyped DEF Nothing
  <2>2. Worth = 0
      BY <2>1, SumZero, ReturnsAssumption DEF Worth, SumOver
  <2>3. refunded = 0 /\ lines = 0 /\ Subtotal \in Nat /\ sale.total \in Nat
      BY <1>1, SubtotalNat, SaleTyped DEF Init
  <2>4. \A m \in Nat : m * 0 = 0 /\ 2 * m \in Nat
      OBVIOUS
  <2>5. QED
      BY <2>2, <2>3, <2>4 DEF PaidInProportion
<1>7. CardRefundsMade
  <2>1. \A w \in Workers : [v \in Workers |-> Held(v)][w] = 0
      BY DEF Init, Held, FiscalDone
  <2>2. SumFunctionOnSet([v \in Workers |-> Held(v)], Workers) = 0
      BY <2>1, SumZero, ReturnsAssumption
  <2>3. QED
      BY <2>2 DEF Init, CardRefundsMade
<1>8. QED
    BY <1>1, <1>3, <1>4, <1>5, <1>6, <1>7 DEF IInv

-----------------------------------------------------------------------------
\* What one worker does to itself leaves the others steady.
LEMMA FrameIInv ==
    ASSUME IInv, TypeOK', NEW w \in Workers,
           UNCHANGED <<rows, overlapped, late>>,
           \A v \in Workers \ {w} : /\ pc'[v] = pc[v] /\ req'[v] = req[v]
                                    /\ seen'[v] = seen[v] /\ verdict'[v] = verdict[v],
           cardRefunds' \in Nat, Held(w)' - cardRefunds' <= Held(w) - cardRefunds,
           Steady(w)'
    PROVE  IInv'
<1>1. ReturnedWithinSold' /\ CanceledWhenAllReturned' /\ LiveNoteIsFlagged'
    BY DEF IInv, rows, ReturnedWithinSold, CanceledWhenAllReturned, LiveNoteIsFlagged
<1>2. ASSUME NEW v \in Workers \ {w} PROVE Steady(v)'
  <2>1. Steady(v)
      BY DEF IInv
  <2>2. Asked(v)' = Asked(v) /\ IsFull(v)' = IsFull(v)
      BY DEF Asked, IsFull, rows
  <2>3. QED
      BY <2>1, <2>2 DEF Steady, SeenIsFresh, AsksSomething, NoteSettled, rows
<1>3. PaidInProportion'
    BY UnpaidInProportion DEF IInv, rows
<1>4. CardRefundsMade'
  <2>1. /\ sale' = sale /\ onCard' = onCard /\ onCard \in Nat /\ cardRefunds \in Nat
      BY DEF rows, IInv, CardRefundsMade
  <2>2. Held(w) \in Nat /\ Held(w)' \in Nat
      BY HeldNat, HeldNatNext DEF IInv
  <2>3. onCard' + Held(w)' - cardRefunds' <= onCard + Held(w) - cardRefunds
      BY <2>1, <2>2
  <2>4. QED
      BY <2>1, <2>3, CardRefundsStep DEF IInv
<1>5. QED
    BY <1>1, <1>2, <1>3, <1>4 DEF IInv

\* A request that ends without a COMMIT.
LEMMA RollbackIInv ==
    ASSUME IInv, NEW w \in Workers, Rollback(w), UNCHANGED cardRefunds
    PROVE  IInv'
<1>1. /\ pc' = [pc EXCEPT ![w] = "idle"] /\ req' = [req EXCEPT ![w] = NoRequest]
      /\ seen' = [seen EXCEPT ![w] = Nothing]
      /\ verdict' = [verdict EXCEPT ![w] = "none"]
      /\ UNCHANGED <<rows, received, overlapped, late>>
    BY DEF Rollback, EndRequest, Goto
<1>2. TypeOK /\ TypeOK'
    BY <1>1 DEF IInv, TypeOK, rows, Phases, Nothing
<1>3. Steady(w)'
    BY <1>1, <1>2
    DEF TypeOK, Steady, SeenIsFresh, AsksSomething, NoteSettled, AfterRead, FiscalDone
<1>4. cardRefunds' \in Nat /\ Held(w)' - cardRefunds' <= Held(w) - cardRefunds
  <2>1. Held(w)' = 0
      BY <1>1, <1>2 DEF TypeOK, Held, FiscalDone
  <2>2. QED
      BY <1>2, <2>1, HeldNat DEF IInv, CardRefundsMade
<1>5. QED
    BY <1>1, <1>2, <1>3, <1>4, FrameIInv DEF TypeOK

\* A request outside the phases of a refund obtained holds nothing before and
\* after its step.
LEMMA HeldNothing ==
    ASSUME IInv, NEW w \in Workers, UNCHANGED cardRefunds,
           pc[w] \notin {"fiscal"} \cup FiscalDone, pc'[w] \notin {"fiscal"} \cup FiscalDone
    PROVE  cardRefunds' \in Nat /\ Held(w)' - cardRefunds' <= Held(w) - cardRefunds
BY DEF Held, FiscalDone, IInv, CardRefundsMade

LEMMA ReceiveIInv ==
    ASSUME IInv, NEW w \in Workers, Receive(w)
    PROVE  IInv'
<1>1. /\ pc[w] = "idle" /\ received' = received + 1
      /\ UNCHANGED <<rows, cardRefunds, seen, verdict, overlapped, late>>
    BY DEF Receive
<1>2. CASE \E r \in Returns : /\ \E i \in Items : r.first[i] > 0
                              /\ req' = [req EXCEPT ![w] = r]
                              /\ Goto(w, "read")
  <2>1. PICK r \in Returns : /\ \E i \in Items : r.first[i] > 0
                             /\ req' = [req EXCEPT ![w] = r]
                             /\ pc' = [pc EXCEPT ![w] = "read"]
      BY <1>2 DEF Goto
  <2>2. TypeOK /\ TypeOK'
      BY <1>1, <2>1 DEF IInv, TypeOK, rows, Phases
  <2>3. pc'[w] = "read" /\ req'[w] = r /\ verdict'[w] = "none"
      BY <1>1, <2>1, <2>2 DEF IInv, Steady, NoteSettled, TypeOK
  <2>4. r \in Body
      BY ReturnsAssumption
  <2>5. Steady(w)'
      BY <2>1, <2>3, <2>4
      DEF Steady, SeenIsFresh, AsksSomething, NoteSettled, Asked, AfterRead, FiscalDone, Body
  <2>6. cardRefunds' \in Nat /\ Held(w)' - cardRefunds' <= Held(w) - cardRefunds
      BY <1>1, <2>3, HeldNothing DEF FiscalDone
  <2>7. QED
      BY <1>1, <2>1, <2>2, <2>5, <2>6, FrameIInv DEF TypeOK
<1>3. CASE Goto(w, "retry") /\ UNCHANGED req
  <2>1. pc' = [pc EXCEPT ![w] = "retry"] /\ req' = req
      BY <1>3 DEF Goto
  <2>2. TypeOK /\ TypeOK'
      BY <1>1, <2>1 DEF IInv, TypeOK, rows, Phases
  <2>3. Steady(w)'
      BY <1>1, <2>1, <2>2
      DEF IInv, TypeOK, Steady, SeenIsFresh, AsksSomething, NoteSettled, AfterRead,
          FiscalDone
  <2>4. cardRefunds' \in Nat /\ Held(w)' - cardRefunds' <= Held(w) - cardRefunds
      BY <1>1, <2>1, <2>2, HeldNothing DEF FiscalDone, TypeOK
  <2>5. QED
      BY <1>1, <2>1, <2>2, <2>3, <2>4, FrameIInv DEF TypeOK
<1>4. QED
    BY <1>2, <1>3 DEF Receive

\* A return reads what has been returned, and is allowed.
LEMMA ReadReturnsIInv ==
    ASSUME IInv, NEW w \in Workers, ReadReturns(w)
    PROVE  IInv'
<1>1. /\ pc[w] = "read" /\ pc' = [pc EXCEPT ![w] = "refund"]
      /\ Allowed(w) /\ seen' = [seen EXCEPT ![w] = returned]
      /\ UNCHANGED <<rows, cardRefunds, req, verdict, received, overlapped, late>>
    BY DEF ReadReturns, Goto
<1>2. TypeOK /\ TypeOK'
    BY <1>1 DEF IInv, TypeOK, rows, Phases, AfterRead
<1>3. pc'[w] = "refund" /\ seen'[w] = returned
    BY <1>1, <1>2 DEF TypeOK
<1>4. Asked(w)' = Asked(w) /\ Steady(w)
    BY <1>1 DEF Asked, IInv
<1>5. Steady(w)'
    BY <1>1, <1>3, <1>4
    DEF Steady, SeenIsFresh, AsksSomething, NoteSettled, Allowed, rows
<1>6. cardRefunds' \in Nat /\ Held(w)' - cardRefunds' <= Held(w) - cardRefunds
    BY <1>1, <1>3, HeldNothing DEF FiscalDone
<1>7. QED
    BY <1>1, <1>2, <1>5, <1>6, FrameIInv DEF TypeOK

\* The steps of a return after it has read, up to its COMMIT.
LEMMA StepIInv ==
    ASSUME IInv, NEW w \in Workers,
           GiveBack(w) \/ SkipFiscal(w) \/ CancelNote(w) \/ VoidNote(w)
    PROVE  IInv'
<1>1. PICK phase \in {"fiscal", "void", "commit"} : pc' = [pc EXCEPT ![w] = phase]
    BY DEF GiveBack, SkipFiscal, CancelNote, VoidNote, Goto
<1>2. /\ pc[w] \in AfterRead
      /\ UNCHANGED <<rows, req, seen, received, overlapped, late>>
    BY DEF GiveBack, SkipFiscal, CancelNote, VoidNote, AfterRead, FiscalDone
<1>3. PICK answer \in {"canceled", "failed", verdict[w]} :
          verdict' = [verdict EXCEPT ![w] = answer]
    BY DEF GiveBack, SkipFiscal, CancelNote, VoidNote, IInv, TypeOK
<1>4. TypeOK /\ TypeOK'
    BY <1>1, <1>2, <1>3 DEF IInv, TypeOK, rows, Phases, AfterRead, FiscalDone
<1>5. pc'[w] = phase /\ verdict'[w] = answer
    BY <1>1, <1>3, <1>4 DEF TypeOK
<1>6. Asked(w)' = Asked(w) /\ IsFull(w)' = IsFull(w) /\ Steady(w)
    BY <1>2 DEF Asked, IsFull, IInv, rows
<1>7. SeenIsFresh(w)' /\ AsksSomething(w)'
    BY <1>2, <1>6 DEF Steady, SeenIsFresh, AsksSomething, rows
<1>8. NoteSettled(w)'
  <2>1. CASE GiveBack(w)
      BY <1>4, <1>6, <2>1 DEF GiveBack, Goto, Steady, NoteSettled, TypeOK
  <2>2. CASE SkipFiscal(w)
      BY <1>4, <1>6, <2>2 DEF SkipFiscal, Goto, Steady, NoteSettled, TypeOK
  <2>3. CASE CancelNote(w)
      BY <1>2, <1>4, <1>6, <2>3
      DEF CancelNote, Goto, Steady, NoteSettled, TypeOK, rows
  <2>4. CASE VoidNote(w)
      BY <1>4, <1>6, <2>4 DEF VoidNote, Goto, Steady, NoteSettled, TypeOK
  <2>5. QED
      BY <2>1, <2>2, <2>3, <2>4
<1>9. Steady(w)'
    BY <1>7, <1>8 DEF Steady
<1>10. cardRefunds' \in Nat /\ Held(w)' - cardRefunds' <= Held(w) - cardRefunds
  <2>1. Refund(w)' = Refund(w) /\ OnCard(w)' = OnCard(w)
    <3>1. Subtotal' = Subtotal /\ sale' = sale
        BY <1>2 DEF rows, Subtotal, SumOver
    <3>2. QED
        BY <1>2, <1>6, <3>1 DEF Refund, RefundOf, SumOver, Round, OnCard
  <2>2. Refund(w) \in Nat /\ Held(w) \in Nat /\ cardRefunds \in Nat
      BY <1>4, HeldNat DEF IInv, CardRefundsMade
  <2>3. Held(w)' = IF OnCard(w) THEN Refund(w) ELSE 0
      BY <1>5, <2>1 DEF Held, FiscalDone
  <2>4. CASE GiveBack(w)
    <3>1. Held(w) = 0
        BY <2>4 DEF GiveBack, Held, FiscalDone
    <3>2. cardRefunds' = IF OnCard(w) THEN cardRefunds + Refund(w) ELSE cardRefunds
        BY <2>4 DEF GiveBack
    <3>3. QED
        BY <2>2, <2>3, <3>1, <3>2
  <2>5. CASE SkipFiscal(w) \/ CancelNote(w) \/ VoidNote(w)
    <3>1. cardRefunds' = cardRefunds /\ pc[w] \in {"fiscal", "void"}
        BY <2>5 DEF SkipFiscal, CancelNote, VoidNote
    <3>2. Held(w) = IF OnCard(w) THEN Refund(w) ELSE 0
        BY <3>1 DEF Held, FiscalDone
    <3>3. QED
        BY <2>2, <2>3, <3>1, <3>2
  <2>6. QED
      BY <2>4, <2>5
<1>11. QED
    BY <1>1, <1>2, <1>3, <1>4, <1>9, <1>10, FrameIInv DEF TypeOK

\* The retry calls the provider, and updates the note.
LEMMA RetryIInv ==
    ASSUME IInv, NEW w \in Workers, Retry(w) \/ Reissue(w)
    PROVE  IInv'
<1>1. PICK phase \in {"reissue", "reissued"}, answer \in {"authorized", "rejected"} :
          /\ pc' = [pc EXCEPT ![w] = phase]
          /\ verdict' = [verdict EXCEPT ![w] = answer]
  <2>1. CASE Retry(w)
      BY <2>1 DEF Retry, Goto
  <2>2. CASE Reissue(w)
      BY <2>2 DEF Reissue, Goto, IInv, TypeOK, Steady, NoteSettled
  <2>3. QED
      BY <2>1, <2>2
<1>2. UNCHANGED <<rows, cardRefunds, req, seen, received, overlapped, late>>
    BY DEF Retry, Reissue
<1>3. TypeOK /\ TypeOK'
    BY <1>1, <1>2 DEF IInv, TypeOK, rows, Phases
<1>4. Steady(w)'
    BY <1>1, <1>3
    DEF TypeOK, Steady, SeenIsFresh, AsksSomething, NoteSettled, AfterRead, FiscalDone
<1>5. cardRefunds' \in Nat /\ Held(w)' - cardRefunds' <= Held(w) - cardRefunds
  <2>1. pc[w] \in {"retry", "reissue"} /\ pc'[w] \in {"reissue", "reissued"}
      BY <1>1, <1>3 DEF Retry, Reissue, TypeOK
  <2>2. QED
      BY <1>2, <2>1, HeldNothing DEF FiscalDone
<1>6. QED
    BY <1>1, <1>2, <1>3, <1>4, <1>5, FrameIInv DEF TypeOK

\* The note takes the answer of the provider: after the sale's own is settled,
\* the retry is late.
LEMMA RetryCommitIInv ==
    ASSUME IInv, NEW w \in Workers, RetryCommit(w)
    PROVE  IInv'
<1>1. /\ pc[w] = "reissued" /\ note' = verdict[w]
      /\ late' = (late \/ /\ verdict[w] = "authorized"
                          /\ \/ status = "canceled"
                             \/ \E v \in Workers : pc[v] \in FiscalDone /\ IsFull(v))
      /\ pc' = [pc EXCEPT ![w] = "idle"] /\ req' = [req EXCEPT ![w] = NoRequest]
      /\ seen' = [seen EXCEPT ![w] = Nothing]
      /\ verdict' = [verdict EXCEPT ![w] = "none"]
      /\ UNCHANGED <<sale, status, returned, refunded, onCard, lines, flagged, cardRefunds,
                     received, overlapped>>
    BY DEF RetryCommit, EndRequest, Goto
<1>2. TypeOK /\ verdict[w] \in {"authorized", "rejected"}
    BY <1>1 DEF IInv, Steady, NoteSettled
<1>3. TypeOK'
    BY <1>1, <1>2 DEF TypeOK, Phases, Nothing
<1>4. ReturnedWithinSold' /\ CanceledWhenAllReturned'
    BY <1>1 DEF IInv, ReturnedWithinSold, CanceledWhenAllReturned
<1>5. LiveNoteIsFlagged'
    BY <1>1, <1>2 DEF LiveNoteIsFlagged
<1>6. ASSUME NEW v \in Workers PROVE Steady(v)'
  <2>1. CASE v = w
      BY <1>1, <1>2, <2>1
      DEF TypeOK, Steady, SeenIsFresh, AsksSomething, NoteSettled, AfterRead, FiscalDone
  <2>2. CASE v # w
    <3>1. /\ pc'[v] = pc[v] /\ req'[v] = req[v]
          /\ seen'[v] = seen[v] /\ verdict'[v] = verdict[v]
        BY <1>1, <1>2, <2>2 DEF TypeOK
    <3>2. Asked(v)' = Asked(v) /\ IsFull(v)' = IsFull(v) /\ Steady(v)
        BY <1>1, <3>1 DEF Asked, IsFull, IInv
    <3>3. SeenIsFresh(v)' /\ AsksSomething(v)'
        BY <1>1, <3>1, <3>2 DEF Steady, SeenIsFresh, AsksSomething
    <3>4. NoteSettled(v)'
        BY <1>1, <1>2, <3>1, <3>2 DEF Steady, NoteSettled, FiscalDone
    <3>5. QED
        BY <3>3, <3>4 DEF Steady
  <2>3. QED
      BY <2>1, <2>2
<1>7. PaidInProportion'
    BY <1>1, UnpaidInProportion DEF IInv
<1>8. CardRefundsMade'
  <2>1. /\ Held(w) = 0 /\ Held(w)' = 0
        /\ \A v \in Workers \ {w} : pc'[v] = pc[v] /\ req'[v] = req[v]
      BY <1>1, <1>2 DEF TypeOK, Held, FiscalDone
  <2>2. onCard \in Nat /\ cardRefunds \in Nat /\ CardRefundsMade
      BY DEF IInv, CardRefundsMade
  <2>3. QED
      BY <1>1, <1>2, <1>3, <2>1, <2>2, CardRefundsStep
<1>9. QED
    BY <1>3, <1>4, <1>5, <1>6, <1>7, <1>8 DEF IInv

\* COMMIT of a return: alone, it decides by the returns as they still are.
LEMMA CommitIInv ==
    ASSUME IInv, NEW w \in Workers, Commit(w)
    PROVE  IInv'
<1>1. /\ pc[w] = "commit"
      /\ returned' = [i \in Items |-> returned[i] + Asked(w)[i]]
      /\ flagged' = (flagged \/ Issue(w))
      /\ status' = IF IsFull(w) THEN "canceled" ELSE status
      /\ note' = IF verdict[w] = "canceled" THEN "canceled" ELSE note
      /\ overlapped' = (overlapped \/ \E v \in Workers \ {w} : pc[v] \in AfterRead)
      /\ pc' = [pc EXCEPT ![w] = "idle"] /\ req' = [req EXCEPT ![w] = NoRequest]
      /\ seen' = [seen EXCEPT ![w] = Nothing]
      /\ verdict' = [verdict EXCEPT ![w] = "none"]
      /\ onCard' = IF OnCard(w) THEN onCard + Refund(w) ELSE onCard
      /\ UNCHANGED <<sale, cardRefunds, received, late>>
    BY DEF Commit, EndRequest, Goto
<1>2. TypeOK /\ Steady(w) /\ pc[w] \in AfterRead
    BY <1>1 DEF IInv, AfterRead, FiscalDone
<1>3. Asked(w) \in [Items -> Nat] /\ sale.qty \in [Items -> Nat]
    BY <1>2, BodyTyped, SaleTyped
<1>4. flagged' \in BOOLEAN
    BY <1>1, <1>2 DEF TypeOK
<1>5. TypeOK'
  <2>1. returned' \in [Items -> Nat]
      BY <1>1, <1>2, <1>3 DEF TypeOK
  <2>2. overlapped' \in BOOLEAN
      BY <1>1, <1>2 DEF TypeOK
  <2>3. QED
      BY <1>1, <1>2, <1>4, <2>1, <2>2 DEF TypeOK, Phases, Nothing
<1>6. ASSUME ~ overlapped'
      PROVE  /\ \A i \in Items : returned'[i] <= sale.qty[i]
             /\ status' = "canceled" <=> returned' = sale.qty
  <2>1. ~ overlapped /\ seen[w] = returned
      BY <1>1, <1>2, <1>6 DEF Steady, SeenIsFresh
  <2>2. \A i \in Items : returned'[i] = returned[i] + Asked(w)[i] /\ returned'[i] <= sale.qty[i]
      BY <1>1, <1>2, <2>1 DEF Steady, SeenIsFresh
  <2>3. CASE IsFull(w)
    <3>1. \A i \in Items : returned'[i] = sale.qty[i]
      <4> SUFFICES ASSUME NEW i \in Items PROVE returned'[i] = sale.qty[i]
          OBVIOUS
      <4>1. returned[i] + Asked(w)[i] >= sale.qty[i]
          BY <2>1, <2>3 DEF IsFull
      <4>2. returned'[i] \in Nat /\ sale.qty[i] \in Nat
          BY <1>3, <1>5 DEF TypeOK
      <4>3. QED
          BY <2>2, <4>1, <4>2
    <3>2. returned' = sale.qty
        BY <1>1, <1>3, <3>1
    <3>3. QED
        BY <1>1, <2>2, <2>3, <3>2
  <2>4. CASE ~ IsFull(w)
    <3>1. PICK i \in Items : ~ (returned'[i] >= sale.qty[i])
        BY <2>1, <2>2, <2>4 DEF IsFull
    <3>2. returned' # sale.qty
        BY <1>3, <3>1
    <3>3. PICK j \in Items : Asked(w)[j] > 0
        BY <1>2 DEF Steady, AsksSomething
    <3>4. returned # sale.qty
        BY <1>2, <1>3, <2>2, <3>3 DEF TypeOK
    <3>5. status # "canceled"
        BY <2>1, <3>4 DEF IInv, CanceledWhenAllReturned
    <3>6. QED
        BY <1>1, <2>2, <2>4, <3>2, <3>5
  <2>5. QED
      BY <2>3, <2>4
<1>7. ReturnedWithinSold' /\ CanceledWhenAllReturned'
    BY <1>1, <1>6 DEF ReturnedWithinSold, CanceledWhenAllReturned
<1>8. LiveNoteIsFlagged'
  <2>1. CASE IsFull(w)
      BY <1>1, <1>2, <2>1 DEF Steady, NoteSettled, LiveNoteIsFlagged, Issue
  <2>2. CASE ~ IsFull(w)
      BY <1>1, <2>2 DEF IInv, LiveNoteIsFlagged
  <2>3. QED
      BY <2>1, <2>2
<1>9. ASSUME NEW v \in Workers PROVE Steady(v)'
  <2>1. CASE v = w
      BY <1>1, <1>2, <2>1
      DEF TypeOK, Steady, SeenIsFresh, AsksSomething, NoteSettled, AfterRead, FiscalDone
  <2>2. CASE v # w
    <3>1. /\ pc'[v] = pc[v] /\ req'[v] = req[v]
          /\ seen'[v] = seen[v] /\ verdict'[v] = verdict[v]
        BY <1>1, <1>2, <2>2 DEF TypeOK
    <3>2. Asked(v)' = Asked(v) /\ IsFull(v)' = IsFull(v) /\ Steady(v)
        BY <1>1, <3>1 DEF Asked, IsFull, IInv
    <3>3. SeenIsFresh(v)' /\ AsksSomething(v)'
        BY <1>1, <2>2, <3>1, <3>2 DEF Steady, SeenIsFresh, AsksSomething
    <3>4. NoteSettled(v)'
        BY <1>1, <3>1, <3>2 DEF Steady, NoteSettled
    <3>5. QED
        BY <3>3, <3>4 DEF Steady
  <2>3. QED
      BY <2>1, <2>2
<1>10. PaidInProportion'
    BY <1>2, CommitInProportion DEF IInv
<1>11. CardRefundsMade'
  <2>1. /\ Held(w) = IF OnCard(w) THEN Refund(w) ELSE 0
        /\ Held(w)' = 0
        /\ \A v \in Workers \ {w} : pc'[v] = pc[v] /\ req'[v] = req[v]
      BY <1>1, <1>2 DEF TypeOK, Held, FiscalDone
  <2>2. onCard \in Nat /\ cardRefunds \in Nat /\ Refund(w) \in Nat /\ CardRefundsMade
      BY <1>2, HeldNat DEF IInv, CardRefundsMade
  <2>3. /\ onCard' \in Nat /\ cardRefunds' \in Nat
        /\ onCard' + Held(w)' - cardRefunds' <= onCard + Held(w) - cardRefunds
      BY <1>1, <2>1, <2>2
  <2>4. QED
      BY <1>1, <1>2, <1>5, <2>1, <2>2, <2>3, CardRefundsStep
<1>12. QED
    BY <1>5, <1>7, <1>8, <1>9, <1>10, <1>11 DEF IInv

LEMMA NextIInv == IInv /\ [Next]_vars => IInv'
<1> SUFFICES ASSUME IInv, [Next]_vars PROVE IInv'
    OBVIOUS
<1>1. ASSUME NEW w \in Workers,
             RefuseExcess(w) \/ RefuseNoSession(w) \/ RefuseRefund(w) \/ Fail(w)
             \/ RetryRefused(w)
      PROVE  IInv'
    BY <1>1, RollbackIInv
    DEF RefuseExcess, RefuseNoSession, RefuseRefund, Fail, RetryRefused
<1>2. ASSUME NEW w \in Workers, Return(w) PROVE IInv'
    BY <1>1, <1>2, ReadReturnsIInv, StepIInv, CommitIInv DEF Return
<1>3. CASE Next
    BY <1>1, <1>2, <1>3, ReceiveIInv, RetryIInv, RetryCommitIInv DEF Next
<1>4. CASE UNCHANGED vars
  <2>1. TypeOK'
      BY <1>4 DEF vars, rows, IInv, TypeOK
  <2>2. ReturnedWithinSold' /\ CanceledWhenAllReturned' /\ LiveNoteIsFlagged'
      BY <1>4
      DEF vars, rows, IInv, ReturnedWithinSold, CanceledWhenAllReturned, LiveNoteIsFlagged
  <2>3. \A w \in Workers : Steady(w)'
      BY <1>4
      DEF vars, rows, IInv, Steady, SeenIsFresh, AsksSomething, NoteSettled, Asked, IsFull
  <2>4. PaidInProportion'
      BY <1>4, UnpaidInProportion DEF vars, rows, IInv
  <2>5. CardRefundsMade'
    <3>1. \A w \in Workers : Held(w)' = Held(w)
        BY <1>4 DEF vars, rows, Held, OnCard, Refund, RefundOf, Asked, Subtotal, SumOver, Round
    <3>2. [w \in Workers |-> Held(w)]' = [w \in Workers |-> Held(w)]
        BY <3>1
    <3>3. QED
        BY <1>4, <3>2 DEF vars, rows, IInv, CardRefundsMade
  <2>6. QED
      BY <2>1, <2>2, <2>3, <2>4, <2>5 DEF IInv
<1>5. QED
    BY <1>3, <1>4

-----------------------------------------------------------------------------
\* The inductive invariant holds in every reachable state.
THEOREM SpecIInv == Spec => []IInv
<1>1. QED
    BY InitIInv, NextIInv, PTL DEF Spec

\* Over any sequence of returns, no item is returned beyond what was sold of
\* it, unless returns overlap.
THEOREM SpecReturnedWithinSold == Spec => []ReturnedWithinSold
<1>1. IInv => ReturnedWithinSold
    BY DEF IInv
<1>2. QED
    BY <1>1, SpecIInv, PTL

\* The sale is canceled exactly when its last item has been returned, unless
\* returns overlap.
THEOREM SpecCanceledWhenAllReturned == Spec => []CanceledWhenAllReturned
<1>1. IInv => CanceledWhenAllReturned
    BY DEF IInv
<1>2. QED
    BY <1>1, SpecIInv, PTL

\* A canceled sale keeps an authorized note only with a return that needs
\* attention, or after a retry that came late.
THEOREM SpecLiveNoteIsFlagged == Spec => []LiveNoteIsFlagged
<1>1. IInv => LiveNoteIsFlagged
    BY DEF IInv
<1>2. QED
    BY <1>1, SpecIInv, PTL

\* What is paid back of a sale exceeds what was paid for it by half a cent a
\* line at most, for every sale, every price and every sequence of returns that
\* do not overlap (sale-returns.service.ts:101-112).
THEOREM SpecRefundWithinRounding == Spec => []RefundWithinRounding
<1>1. IInv => RefundWithinRounding
  <2> SUFFICES ASSUME IInv, ~ overlapped PROVE 2 * refunded <= 2 * sale.total + lines
      BY DEF RefundWithinRounding
  <2>1. /\ TypeOK /\ Worth <= Subtotal /\ Subtotal \in Nat /\ sale.total \in Nat
        /\ refunded \in Nat /\ lines \in Nat
      BY WorthWithinSubtotal, SubtotalNat, SaleTyped
      DEF IInv, ReturnedWithinSold, PaidInProportion
  <2>2. Worth \in Nat
      BY <2>1, WorthNat
  <2>3. CASE Subtotal > 0
    <3>1. ASSUME NEW s \in Nat, NEW a \in Nat, NEW t \in Nat, NEW v \in Nat, NEW n \in Nat,
                 s > 0, v <= s, 2 * s * a <= 2 * t * v + s * n
          PROVE  2 * a <= 2 * t + n
      <4>1. t * v <= t * s
          BY <3>1
      <4>2. s * (2 * a) <= s * (2 * t + n)
          BY <3>1, <4>1
      <4>3. QED
          BY <3>1, <4>2
    <3>2. 2 * Subtotal * refunded <= 2 * sale.total * Worth + Subtotal * lines
        BY <2>3 DEF IInv, PaidInProportion
    <3>3. QED
        BY <2>1, <2>2, <2>3, <3>1, <3>2
  <2>4. CASE ~ (Subtotal > 0)
      BY <2>1, <2>2, <2>4 DEF IInv, PaidInProportion
  <2>5. QED
      BY <2>3, <2>4
<1>2. QED
    BY <1>1, SpecIInv, PTL
=============================================================================
