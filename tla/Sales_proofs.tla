---------------------------- MODULE Sales_proofs ----------------------------
(***************************************************************************)
(* Theorems about Sales, for any set of workers, keys, customers, bodies   *)
(* and loyalty programs.                                                   *)
(***************************************************************************)
EXTENDS Sales, SumTheorems

\* The body a worker carries while it works.
LEMMA Carries ==
    ASSUME TypeOK, NEW w \in Workers, pc[w] # "idle"
    PROVE  input[w] \in Input /\ input[w] \in InputsOf[w]
BY SalesAssumption DEF TypeOK

LEMMA KeyTyped ==
    ASSUME TypeOK, NEW w \in Workers
    PROVE  input[w].key \in Keys \cup {NoKey}
BY SalesAssumption DEF TypeOK, Input, Idle

LEMMA NotReadTyped == NotRead \in Programs
BY SalesAssumption DEF NotRead

\* Totals and points are integers.
LEMMA PointsTyped ==
    ASSUME NEW i \in Input, NEW prog \in Programs
    PROVE  TotalCents(i, prog) \in Int /\ PointsEarned(i, prog) \in Int
<1>1. prog \in Program
    BY SalesAssumption
<1>2. /\ i.subtotal \in Int /\ i.discount \in Int /\ i.redeem \in Int
      /\ prog.redeemValue \in Int /\ prog.earnRate \in Int
    BY <1>1 DEF Input, Program
<1>3. i.redeem * prog.redeemValue \in Int
    BY <1>2
<1>4. TotalCents(i, prog) \in Int
    BY <1>2, <1>3 DEF TotalCents
<1>5. TotalCents(i, prog) \div 100 \in Int
    BY <1>4
<1>6. (TotalCents(i, prog) \div 100) * prog.earnRate \in Int
    BY <1>2, <1>5
<1>7. QED
    BY <1>4, <1>6 DEF PointsEarned

\* A sale whose total is not negative earns no negative points.
LEMMA EarnedPoints ==
    ASSUME NEW i \in Input, NEW prog \in Programs, TotalCents(i, prog) >= 0
    PROVE  PointsEarned(i, prog) \in Nat
<1>1. prog.earnRate \in Nat /\ TotalCents(i, prog) \in Nat
    BY SalesAssumption, PointsTyped DEF Program
<1>2. TotalCents(i, prog) \div 100 \in Nat
    BY <1>1
<1>3. (TotalCents(i, prog) \div 100) * prog.earnRate \in Nat
    BY <1>1, <1>2
<1>4. QED
    BY <1>3 DEF PointsEarned

LEMMA InitKeyed == Init => Keyed
<1> SUFFICES ASSUME Init PROVE Keyed
    OBVIOUS
<1>1. TypeOK
    BY SalesAssumption, NotReadTyped DEF Init, TypeOK, Phases
<1>2. OneSalePerKey /\ PaidInFull /\ OkMeansRecorded
    BY DEF Init, OneSalePerKey, PaidInFull, OkMeansRecorded
<1>3. KeysHeldOnce /\ CardsApproved /\ AttemptNumbered
    BY DEF Init, KeysHeldOnce, CardsApproved, AttemptNumbered, Inserted, Spending
<1>4. TotalsChecked /\ RedeemCovered
    BY DEF Init, TotalsChecked, RedeemCovered, Inserted, Spending
<1>5. QED
    BY <1>1, <1>2, <1>3, <1>4 DEF Keyed

-----------------------------------------------------------------------------
\* A request ends without recording a sale: refused, failed, or answered with
\* a sale that is recorded already.
LEMMA AnswerKeyed ==
    ASSUME Keyed, NEW w \in Workers, NEW r, NEW n, Answer(w, r, n),
           r \in {"ok", "refused", "failed"}, n \in 0..received,
           r = "ok" => \E s \in sales : s.id = n /\ s.key = input[w].key,
           UNCHANGED dbVars,
           UNCHANGED charges, sent' \subseteq sent
    PROVE  Keyed'
<1> USE DEF Keyed
<1>1. /\ answers' = answers \cup {[key |-> input[w].key, result |-> r, id |-> n]}
      /\ pc' = [pc EXCEPT ![w] = "idle"]
      /\ input' = [input EXCEPT ![w] = Idle]
      /\ id' = [id EXCEPT ![w] = 0]
      /\ seen' = [seen EXCEPT ![w] = NotRead]
      /\ received' = received
      /\ UNCHANGED <<sales, points, program, till, clawed, overtaken>>
    BY DEF Answer, Goto, dbVars
<1>2. \A v \in Workers \ {w} : /\ pc'[v] = pc[v] /\ input'[v] = input[v]
                               /\ id'[v] = id[v] /\ seen'[v] = seen[v]
    BY <1>1 DEF TypeOK
<1>3. pc'[w] = "idle"
    BY <1>1 DEF TypeOK
<1>4. TypeOK'
  <2>1. input[w].key \in Keys \cup {NoKey}
      BY KeyTyped
  <2>2. [key |-> input[w].key, result |-> r, id |-> n]
            \in [key : Keys \cup {NoKey}, result : {"ok", "refused", "failed"},
                 id : 0..received]
      BY <2>1
  <2>3. \A v \in Workers : input'[v] \in IF pc'[v] = "idle" THEN {Idle} ELSE InputsOf[v]
      BY <1>1, <1>2 DEF TypeOK
  <2>4. id' \in [Workers -> 0..received'] /\ seen' \in [Workers -> Programs]
      BY <1>1, NotReadTyped DEF TypeOK
  <2>5. QED
      BY <1>1, <2>2, <2>3, <2>4 DEF TypeOK, Phases
<1>5. OneSalePerKey' /\ PaidInFull'
    BY <1>1 DEF OneSalePerKey, PaidInFull
<1>6. OkMeansRecorded'
    BY <1>1 DEF OkMeansRecorded
<1>7. KeysHeldOnce'
    BY <1>1, <1>2, <1>3 DEF KeysHeldOnce, Recorded, Inserted, Spending
<1>8. CardsApproved'
    BY <1>2, <1>3 DEF CardsApproved, Charged
<1>9. AttemptNumbered'
    BY <1>2, <1>3 DEF AttemptNumbered
<1>10. TotalsChecked'
    BY <1>2, <1>3 DEF TotalsChecked, TotalCents, Inserted, Spending
<1>11. RedeemCovered'
    BY <1>1, <1>2, <1>3 DEF RedeemCovered, Redeems, Spending
<1>12. QED
    BY <1>4, <1>5, <1>6, <1>7, <1>8, <1>9, <1>10, <1>11

\* A worker moves between phases without holding a key it did not hold: to the
\* spending ones with its points covered, to the last with its cards approved.
LEMMA MoveKeyed ==
    ASSUME Keyed, NEW w \in Workers, NEW phase \in Phases \ {"idle"},
           Goto(w, phase), pc[w] # "idle",
           phase \in Inserted => pc[w] \in Inserted,
           \/ phase \in Spending => pc[w] \in Spending
           \/ input[w].redeem > 0 => input[w].redeem <= points[input[w].customer],
           phase = "commit" => Charged(w) \subseteq charges,
           phase \in Inserted \cup {"insert"} => TotalCents(input[w], seen'[w]) >= 0,
           seen' \in [Workers -> Programs],
           \A v \in Workers \ {w} : seen'[v] = seen[v],
           sent' \subseteq ChargeOf(received),
           UNCHANGED <<dbVars, charges, input, id, answers, received>>
    PROVE  Keyed'
<1> USE DEF Keyed
<1>1. pc' = [pc EXCEPT ![w] = phase] /\ pc \in [Workers -> Phases]
    BY DEF Goto, TypeOK
<1>2. TypeOK'
    BY <1>1 DEF TypeOK, dbVars
<1>3. OneSalePerKey' /\ PaidInFull' /\ OkMeansRecorded'
    BY DEF OneSalePerKey, PaidInFull, OkMeansRecorded, dbVars
<1>4. KeysHeldOnce'
    BY <1>1 DEF KeysHeldOnce, Recorded, dbVars
<1>5. CardsApproved' /\ AttemptNumbered'
    BY <1>1 DEF CardsApproved, AttemptNumbered, Charged
<1>6. TotalsChecked'
    BY <1>1 DEF TotalsChecked, TotalCents
<1>7. RedeemCovered'
    BY <1>1 DEF RedeemCovered, Redeems, dbVars
<1>8. QED
    BY <1>2, <1>3, <1>4, <1>5, <1>6, <1>7

\* A request arrives at an idle worker, under a new attempt number.
LEMMA ReceiveKeyed ==
    ASSUME Keyed, NEW w \in Workers, Receive(w)
    PROVE  Keyed'
<1> USE DEF Keyed
<1> PICK i \in InputsOf[w] :
        /\ input' = [input EXCEPT ![w] = i]
        /\ Goto(w, IF i.key # NoKey THEN "replay" ELSE "session")
    BY DEF Receive
<1> DEFINE phase == IF i.key # NoKey THEN "replay" ELSE "session"
<1>1. /\ pc' = [pc EXCEPT ![w] = phase]
      /\ received' = received + 1
      /\ id' = [id EXCEPT ![w] = received + 1]
      /\ UNCHANGED <<sales, points, program, till, clawed, overtaken>>
      /\ UNCHANGED <<sent, charges, seen, answers>>
    BY DEF Receive, Goto, dbVars, payVars
<1>2. phase \in {"replay", "session"} /\ i \in Input
    BY SalesAssumption
<1> HIDE DEF phase
<1>3. \A v \in Workers \ {w} : pc'[v] = pc[v] /\ input'[v] = input[v] /\ id'[v] = id[v]
    BY <1>1 DEF TypeOK
<1>4. pc'[w] = phase /\ input'[w] = i /\ id'[w] = received + 1
    BY <1>1 DEF TypeOK
<1>5. received \in Nat
    BY DEF TypeOK
<1>6. TypeOK'
  <2>1. 1..received \subseteq 1..received' /\ 0..received \subseteq 0..received'
      BY <1>1, <1>5
  <2>2. sales' \subseteq [id : 1..received', key : Keys \cup {NoKey},
                          customer : Customers \cup {NoCustomer},
                          redeemed : Nat, cards : Nat, earned : Int]
      BY <1>1, <2>1 DEF TypeOK
  <2>3. /\ sent' \subseteq ChargeOf(received') /\ charges' \subseteq ChargeOf(received')
        /\ answers' \subseteq [key : Keys \cup {NoKey},
                               result : {"ok", "refused", "failed"}, id : 0..received']
      BY <1>1, <2>1 DEF TypeOK, ChargeOf
  <2>4. id' \in [Workers -> 0..received'] /\ received' \in Nat
      BY <1>1, <1>5, <2>1 DEF TypeOK
  <2>5. pc' \in [Workers -> Phases] /\ input' \in [Workers -> Input \cup {Idle}]
      BY <1>1, <1>2 DEF TypeOK, Phases, Before
  <2>6. \A v \in Workers : input'[v] \in IF pc'[v] = "idle" THEN {Idle} ELSE InputsOf[v]
      BY <1>2, <1>3, <1>4 DEF TypeOK
  <2>7. QED
      BY <1>1, <2>2, <2>3, <2>4, <2>5, <2>6 DEF TypeOK
<1>7. OneSalePerKey' /\ PaidInFull' /\ OkMeansRecorded'
    BY <1>1 DEF OneSalePerKey, PaidInFull, OkMeansRecorded
<1>8. KeysHeldOnce'
    BY <1>1, <1>2, <1>3, <1>4 DEF KeysHeldOnce, Recorded, Inserted, Spending
<1>9. CardsApproved' /\ AttemptNumbered'
    BY <1>1, <1>2, <1>3, <1>4, <1>5 DEF CardsApproved, AttemptNumbered, Charged
<1>10. TotalsChecked'
    BY <1>1, <1>2, <1>3, <1>4 DEF TotalsChecked, TotalCents, Inserted, Spending
<1>11. RedeemCovered'
    BY <1>1, <1>2, <1>3, <1>4 DEF RedeemCovered, Redeems, Spending
<1>12. QED
    BY <1>6, <1>7, <1>8, <1>9, <1>10, <1>11

\* The INSERT takes the key when nobody holds it and no sale is recorded.
LEMMA InsertSaleKeyed ==
    ASSUME Keyed, NEW w \in Workers, InsertSale(w)
    PROVE  Keyed'
<1> USE DEF Keyed
<1>1. /\ pc[w] = "insert" /\ pc' = [pc EXCEPT ![w] = "redeem"]
      /\ input[w].key # NoKey => ~ KeyInFlight(input[w].key)
      /\ Recorded(input[w].key) = {}
      /\ UNCHANGED <<sales, points, program, till, clawed, overtaken>>
      /\ UNCHANGED <<sent, charges, input, id, seen, answers, received>>
    BY DEF InsertSale, Goto, dbVars, payVars
<1>2. TypeOK'
    BY <1>1 DEF TypeOK, Phases, Inserted
<1>3. OneSalePerKey' /\ PaidInFull' /\ OkMeansRecorded'
    BY <1>1 DEF OneSalePerKey, PaidInFull, OkMeansRecorded
<1>4. KeysHeldOnce'
  <2> SUFFICES ASSUME NEW u \in Workers, pc'[u] \in Inserted, input[u].key # NoKey
               PROVE  /\ Recorded(input[u].key) = {}
                      /\ \A v \in Workers \ {u} :
                           ~ (pc'[v] \in Inserted /\ input[v].key = input[u].key)
      BY <1>1 DEF KeysHeldOnce, Recorded
  <2>1. \A v \in Workers \ {w} : pc'[v] = pc[v]
      BY <1>1 DEF TypeOK
  <2>2. CASE u = w
      BY <1>1, <2>1, <2>2 DEF KeyInFlight
  <2>3. CASE u # w
    <3>1. /\ Recorded(input[u].key) = {}
          /\ \A v \in Workers \ {u} :
                ~ (pc[v] \in Inserted /\ input[v].key = input[u].key)
        BY <2>1, <2>3 DEF KeysHeldOnce
    <3>2. input[w].key # input[u].key
        BY <1>1, <2>1, <2>3 DEF KeyInFlight
    <3>3. QED
        BY <2>1, <3>1, <3>2
  <2>4. QED
      BY <2>2, <2>3
<1>5. CardsApproved' /\ AttemptNumbered'
    BY <1>1 DEF CardsApproved, AttemptNumbered, Charged, TypeOK
<1>6. RedeemCovered'
    BY <1>1 DEF RedeemCovered, Redeems, Spending, TypeOK
<1>7. TotalsChecked'
    BY <1>1 DEF TotalsChecked, TotalCents, TypeOK
<1>8. QED
    BY <1>2, <1>3, <1>4, <1>5, <1>6, <1>7

\* The charges of an attempt are typed.
LEMMA ChargedTyped ==
    ASSUME TypeOK, AttemptNumbered, NEW w \in Workers, pc[w] # "idle"
    PROVE  Charged(w) \subseteq ChargeOf(received)
<1>1. id[w] \in 1..received
    BY DEF TypeOK, AttemptNumbered
<1>2. input[w].key \in Keys \cup {NoKey} /\ 1..input[w].cards \subseteq Nat
    BY KeyTyped, Carries DEF Input
<1>3. QED
    BY <1>1, <1>2 DEF Charged, ChargeOf

\* Attempts in flight are numbers.
LEMMA CountingTyped ==
    ASSUME TypeOK, NEW c, NEW workers \in SUBSET Workers
    PROVE  Counting(c, workers) \subseteq Nat
<1>1. \A v \in workers : id[v] \in Nat
    BY DEF TypeOK
<1>2. QED
    BY <1>1 DEF Counting

\* COMMIT publishes a sale under a key that no other worker holds and whose
\* cards have all been approved.
LEMMA CommitKeyed ==
    ASSUME Keyed, NEW w \in Workers, Commit(w)
    PROVE  Keyed'
<1> USE DEF Keyed
<1> DEFINE s == SaleOf(w)
<1>1. /\ pc[w] = "commit"
      /\ sales' = sales \cup {s}
      /\ points' = [c \in Customers |-> IF c = input[w].customer
                        THEN points[c] - s.redeemed + s.earned ELSE points[c]]
      /\ overtaken' = overtaken \cup
            UNION {Counting(c, Workers \ {w}) : c \in {m \in Customers : Redeems(w, m)}}
      /\ UNCHANGED <<program, till, clawed, sent, charges, received>>
      /\ pc' = [pc EXCEPT ![w] = "idle"]
      /\ input' = [input EXCEPT ![w] = Idle]
      /\ id' = [id EXCEPT ![w] = 0]
      /\ seen' = [seen EXCEPT ![w] = NotRead]
    BY DEF Commit, Answer, Goto, payVars
<1>2. PICK n \in {0, id[w]}, r \in {"ok", "failed"} :
          /\ answers' = answers \cup {[key |-> input[w].key, result |-> r, id |-> n]}
          /\ r = "ok" => n = id[w]
    BY DEF Commit, Answer
<1>3. input[w] \in Input /\ seen[w] \in Programs /\ id[w] \in 1..received
    BY <1>1, Carries DEF TypeOK, AttemptNumbered
<1>4. /\ s.id = id[w] /\ s.key = input[w].key /\ s.cards = input[w].cards
      /\ s.redeemed = input[w].redeem /\ s.redeemed \in Nat /\ s.earned \in Nat
      /\ s \in [id : 1..received, key : Keys \cup {NoKey},
                customer : Customers \cup {NoCustomer},
                redeemed : Nat, cards : Nat, earned : Int]
  <2>1. TotalCents(input[w], seen[w]) >= 0
      BY <1>1 DEF TotalsChecked, Inserted, Spending
  <2>2. PointsEarned(input[w], seen[w]) \in Nat
      BY <1>3, <2>1, EarnedPoints
  <2>3. QED
      BY <1>3, <2>2 DEF SaleOf, Input
<1> HIDE DEF s
<1>5. \A v \in Workers \ {w} : /\ pc'[v] = pc[v] /\ input'[v] = input[v]
                               /\ id'[v] = id[v] /\ seen'[v] = seen[v]
    BY <1>1 DEF TypeOK
<1>6. pc'[w] = "idle"
    BY <1>1 DEF TypeOK
<1>7. TypeOK'
  <2>1. points' \in [Customers -> Int] /\ overtaken' \subseteq Nat
    <3>1. \A c \in Customers : Counting(c, Workers \ {w}) \subseteq Nat
        BY CountingTyped
    <3>2. overtaken' \subseteq Nat
        BY <1>1, <3>1 DEF TypeOK
    <3>3. points' \in [Customers -> Int]
        BY <1>1, <1>4 DEF TypeOK
    <3>4. QED
        BY <3>2, <3>3
  <2>2. [key |-> input[w].key, result |-> r, id |-> n]
            \in [key : Keys \cup {NoKey}, result : {"ok", "refused", "failed"},
                 id : 0..received]
      BY <1>3, KeyTyped DEF TypeOK
  <2>3. \A v \in Workers : input'[v] \in IF pc'[v] = "idle" THEN {Idle} ELSE InputsOf[v]
      BY <1>1, <1>5 DEF TypeOK
  <2>4. id' \in [Workers -> 0..received'] /\ seen' \in [Workers -> Programs]
      BY <1>1, NotReadTyped DEF TypeOK
  <2>5. QED
      BY <1>1, <1>2, <1>4, <2>1, <2>2, <2>3, <2>4 DEF TypeOK, Phases
<1>8. s.key # NoKey => Recorded(s.key) = {}
    BY <1>1, <1>4 DEF KeysHeldOnce, Inserted, Spending
<1>9. OneSalePerKey'
    BY <1>1, <1>8 DEF OneSalePerKey, Recorded
<1>10. PaidInFull'
  <2>1. \A c \in 1..s.cards : [id |-> s.id, key |-> s.key, card |-> c] \in charges
      BY <1>1, <1>4 DEF CardsApproved, Charged
  <2>2. QED
      BY <1>1, <2>1 DEF PaidInFull
<1>11. OkMeansRecorded'
    BY <1>1, <1>2, <1>4 DEF OkMeansRecorded
<1>12. KeysHeldOnce'
  <2> SUFFICES ASSUME NEW u \in Workers, pc'[u] \in Inserted, input'[u].key # NoKey
               PROVE  /\ \A t \in sales' : t.key # input'[u].key
                      /\ \A v \in Workers \ {u} :
                           ~ (pc'[v] \in Inserted /\ input'[v].key = input'[u].key)
      BY DEF KeysHeldOnce, Recorded
  <2>1. u # w
      BY <1>6 DEF Inserted, Spending
  <2>2. /\ Recorded(input[u].key) = {}
        /\ \A v \in Workers \ {u} :
              ~ (pc[v] \in Inserted /\ input[v].key = input[u].key)
      BY <1>5, <2>1 DEF KeysHeldOnce
  <2>3. s.key # input[u].key
      BY <1>1, <1>4, <2>1, <2>2 DEF Inserted, Spending
  <2>4. \A t \in sales' : t.key # input'[u].key
      BY <1>1, <1>5, <2>1, <2>2, <2>3 DEF Recorded
  <2>5. QED
      BY <1>5, <1>6, <2>1, <2>2, <2>4 DEF Inserted, Spending
<1>13. CardsApproved' /\ AttemptNumbered'
    BY <1>1, <1>5, <1>6 DEF CardsApproved, AttemptNumbered, Charged
<1>14. \A c \in Customers : Redeems(w, c) \/ points'[c] >= points[c]
    BY <1>1, <1>3, <1>4 DEF Redeems, TypeOK, Input
<1>15. TotalsChecked'
    BY <1>5, <1>6 DEF TotalsChecked, TotalCents, Inserted, Spending
<1>16. RedeemCovered'
  <2> SUFFICES ASSUME NEW u \in Workers, NEW c \in Customers,
                      pc'[u] \in Spending, id'[u] \notin overtaken',
                      input'[u].customer = c, input'[u].redeem > 0
               PROVE  input'[u].redeem <= points'[c]
      BY DEF RedeemCovered, Redeems
  <2>1. u # w
      BY <1>6 DEF Spending
  <2>2. Redeems(u, c) /\ pc[u] \in Spending /\ id[u] \notin overtaken
      BY <1>1, <1>5, <2>1 DEF Redeems
  <2>3. input[u].redeem <= points[c]
      BY <2>2 DEF RedeemCovered
  <2>4. ~ Redeems(w, c)
    <3>1. SUFFICES ASSUME Redeems(w, c) PROVE FALSE
        OBVIOUS
    <3>2. id[u] \in Counting(c, Workers \ {w})
        BY <2>1, <2>2 DEF Counting
    <3>3. id[u] \in overtaken'
        BY <1>1, <3>1, <3>2
    <3>4. QED
        BY <1>5, <2>1, <3>3
  <2>5. input[u].redeem \in Int /\ points[c] \in Int /\ points'[c] \in Int
    <3>1. pc[u] # "idle"
        BY <2>2 DEF Spending
    <3>2. input[u] \in Input
        BY <3>1, Carries
    <3>3. QED
        BY <1>7, <3>2 DEF TypeOK, Input
  <2>6. QED
      BY <1>5, <1>14, <2>1, <2>3, <2>4, <2>5
<1>17. QED
    BY <1>7, <1>9, <1>10, <1>11, <1>12, <1>13, <1>15, <1>16

\* A return takes points back; whoever counted on them is overtaken.
LEMMA ReturnKeyed ==
    ASSUME Keyed, NEW s \in sales, NEW n \in 1..s.earned, ReturnSale(s, n)
    PROVE  Keyed'
<1> USE DEF Keyed
<1>1. /\ points' = [points EXCEPT ![s.customer] = @ - n]
      /\ clawed' = [clawed EXCEPT ![s.customer] = @ + n]
      /\ overtaken' = overtaken \cup Counting(s.customer, Workers)
      /\ received' = received + 1
      /\ UNCHANGED <<sales, program, till, sent, charges, pc, input, id, seen, answers>>
    BY DEF ReturnSale, payVars
<1>2. s.customer \in Customers /\ n \in Nat /\ received \in Nat
    BY DEF ReturnSale, TypeOK
<1>3. TypeOK'
  <2>1. 1..received \subseteq 1..received' /\ 0..received \subseteq 0..received'
      BY <1>1, <1>2
  <2>2. /\ sales' \subseteq [id : 1..received', key : Keys \cup {NoKey},
                             customer : Customers \cup {NoCustomer},
                             redeemed : Nat, cards : Nat, earned : Int]
        /\ answers' \subseteq [key : Keys \cup {NoKey},
                               result : {"ok", "refused", "failed"}, id : 0..received']
      BY <1>1, <2>1 DEF TypeOK
  <2>3. sent' \subseteq ChargeOf(received') /\ charges' \subseteq ChargeOf(received')
      BY <1>1, <2>1 DEF TypeOK, ChargeOf
  <2>4. id' \in [Workers -> 0..received'] /\ received' \in Nat
      BY <1>1, <1>2, <2>1 DEF TypeOK
  <2>5. /\ points' \in [Customers -> Int] /\ clawed' \in [Customers -> Nat]
        /\ overtaken' \subseteq Nat
    <3>1. overtaken' \subseteq Nat
        BY <1>1, CountingTyped DEF TypeOK
    <3>2. QED
        BY <1>1, <1>2, <3>1 DEF TypeOK
  <2>6. QED
      BY <1>1, <2>2, <2>3, <2>4, <2>5 DEF TypeOK
<1>4. OneSalePerKey' /\ PaidInFull' /\ OkMeansRecorded'
    BY <1>1 DEF OneSalePerKey, PaidInFull, OkMeansRecorded
<1>5. KeysHeldOnce' /\ CardsApproved' /\ AttemptNumbered'
    BY <1>1 DEF KeysHeldOnce, CardsApproved, AttemptNumbered, Recorded, Charged
<1>6. TotalsChecked'
    BY <1>1 DEF TotalsChecked, TotalCents
<1>7. RedeemCovered'
    BY <1>1, <1>2 DEF RedeemCovered, Redeems, Counting, TypeOK
<1>8. QED
    BY <1>3, <1>4, <1>5, <1>6, <1>7

-----------------------------------------------------------------------------
\* The steps that end a request without recording a sale.
LEMMA EndKeyed ==
    ASSUME Keyed, NEW w \in Workers,
           \/ Replay(w) \/ InsertConflict(w) \/ RefuseInvalid(w)
           \/ RefuseRedeem(w) \/ Fail(w)
           \/ Refuse(w) /\ UNCHANGED charges /\ sent' \subseteq sent
    PROVE  Keyed'
<1> USE DEF Keyed
<1>1. 0 \in 0..received /\ id[w] \in 0..received
    BY DEF TypeOK
<1>2. ASSUME Replay(w) \/ InsertConflict(w) PROVE Keyed'
  <2>1. PICK s \in Recorded(input[w].key) : Answer(w, "ok", s.id) /\ UNCHANGED <<dbVars, payVars>>
      BY <1>2 DEF Replay, InsertConflict
  <2>2. s \in sales /\ s.key = input[w].key
      BY DEF Recorded
  <2>3. s.id \in 0..received
      BY <2>2 DEF TypeOK
  <2>4. QED
      BY <2>1, <2>2, <2>3, AnswerKeyed DEF payVars
<1>3. ASSUME Refuse(w), UNCHANGED charges, sent' \subseteq sent PROVE Keyed'
    BY <1>1, <1>3, AnswerKeyed DEF Refuse
<1>4. ASSUME Fail(w) PROVE Keyed'
    BY <1>1, <1>4, AnswerKeyed DEF Fail, payVars
<1>5. QED
    BY <1>2, <1>3, <1>4 DEF RefuseInvalid, RefuseRedeem, payVars

\* Opening a till, changing the program and an approval of the provider touch
\* no sale.
LEMMA OwnerKeyed ==
    ASSUME Keyed, program' \in Programs, till' \in [Sellers -> BOOLEAN],
           sent' \subseteq sent, charges \subseteq charges',
           charges' \subseteq ChargeOf(received),
           UNCHANGED <<sales, points, clawed, overtaken, requestVars>>
    PROVE  Keyed'
<1> USE DEF Keyed, requestVars
<1>1. TypeOK'
    BY DEF TypeOK
<1>2. OneSalePerKey' /\ PaidInFull' /\ OkMeansRecorded'
    BY DEF OneSalePerKey, PaidInFull, OkMeansRecorded
<1>3. KeysHeldOnce' /\ CardsApproved' /\ AttemptNumbered'
    BY DEF KeysHeldOnce, CardsApproved, AttemptNumbered, Recorded, Charged
<1>4. TotalsChecked' /\ RedeemCovered'
    BY DEF TotalsChecked, TotalCents, RedeemCovered, Redeems
<1>5. QED
    BY <1>1, <1>2, <1>3, <1>4

LEMMA NextKeyed == Keyed /\ [Next]_vars => Keyed'
<1> SUFFICES ASSUME Keyed, [Next]_vars PROVE Keyed'
    OBVIOUS
<1> USE DEF Keyed
<1>1. ASSUME NEW w \in Workers, Progress(w) PROVE Keyed'
  <2>1. CASE Replay(w) \/ InsertConflict(w) \/ RefuseInvalid(w)
             \/ RefuseRedeem(w)
      BY <2>1, EndKeyed
  <2>2. CASE ReplayMiss(w)
      BY <2>2, MoveKeyed
      DEF ReplayMiss, Phases, Before, Inserted, Spending, TypeOK, payVars
  <2>3. CASE CheckSession(w)
    <3>1. CASE Goto(w, "validate")
        BY <2>3, <3>1, MoveKeyed
        DEF CheckSession, Refuse, Answer, Goto, Phases, Before, Inserted, Spending,
            TypeOK, payVars
    <3>2. CASE Refuse(w)
        BY <2>3, <3>2, EndKeyed DEF CheckSession, payVars
    <3>3. QED
        BY <2>3, <3>1, <3>2 DEF CheckSession
  <2>4. CASE Validate(w)
    <3>1. /\ seen' \in [Workers -> Programs]
          /\ seen'[w] = program
          /\ \A v \in Workers \ {w} : seen'[v] = seen[v]
        BY <2>4 DEF Validate, TypeOK
    <3>2. TotalCents(input[w], seen'[w]) >= 0
        BY <2>4, <3>1 DEF Validate, Acceptable
    <3>3. QED
        BY <2>4, <3>1, <3>2, MoveKeyed
        DEF Validate, Phases, Before, Inserted, Spending, payVars, TypeOK
  <2>5. CASE InsertSale(w)
      BY <2>5, InsertSaleKeyed
  <2>6. seen \in [Workers -> Programs] /\ sent \subseteq ChargeOf(received)
      BY DEF TypeOK
  <2>7. pc[w] \in Inserted => TotalCents(input[w], seen[w]) >= 0
      BY DEF TotalsChecked
  <2>8. CASE Redeem(w)
      BY <2>6, <2>7, <2>8, MoveKeyed DEF Redeem, Phases, Inserted, Spending, payVars
  <2>9. CASE ApplyStock(w)
    <3>1. CASE Goto(w, "charge") /\ UNCHANGED <<dbVars, input, id, seen, answers, received>>
        BY <2>6, <2>7, <2>9, <3>1, MoveKeyed
        DEF ApplyStock, Phases, Inserted, Spending, payVars
    <3>2. CASE Refuse(w)
        BY <2>9, <3>2, EndKeyed DEF ApplyStock, payVars
    <3>3. QED
        BY <2>9, <3>1, <3>2 DEF ApplyStock
  <2>10. CASE Charge(w)
    <3>1. sent' \subseteq ChargeOf(received)
        BY <2>6, <2>10, ChargedTyped DEF Charge
    <3>2. QED
        BY <2>6, <2>7, <2>10, <3>1, MoveKeyed DEF Charge, Phases, Inserted, Spending
  <2>11. CASE ChargesApproved(w)
      BY <2>6, <2>7, <2>11, MoveKeyed
      DEF ChargesApproved, Phases, Inserted, Spending, payVars
  <2>12. CASE Commit(w)
      BY <2>12, CommitKeyed
  <2>13. QED
      BY <1>1, <2>1, <2>2, <2>3, <2>4, <2>5, <2>8, <2>9, <2>10, <2>11, <2>12 DEF Progress
<1>2. ASSUME NEW w \in Workers, Receive(w) PROVE Keyed'
    BY <1>2, ReceiveKeyed
<1>3. ASSUME NEW w \in Workers, Fail(w) PROVE Keyed'
    BY <1>3, EndKeyed
<1>4. ASSUME NEW c \in sent, Approve(c) \/ Decline(c) PROVE Keyed'
  <2>1. CASE Approve(c)
      BY <2>1, OwnerKeyed DEF Approve, dbVars, TypeOK
  <2>2. CASE \E w \in Workers : Refuse(w) /\ UNCHANGED charges /\ sent' \subseteq sent
      BY <2>2, EndKeyed
  <2>3. CASE UNCHANGED <<dbVars, requestVars, charges>> /\ sent' \subseteq sent
      BY <2>3, OwnerKeyed DEF dbVars, TypeOK
  <2>4. QED
      BY <1>4, <2>1, <2>2, <2>3 DEF Decline
<1>5. ASSUME NEW s \in sales, NEW n \in 1..s.earned, ReturnSale(s, n) PROVE Keyed'
    BY <1>5, ReturnKeyed
<1>6. ASSUME NEW s \in Sellers, ToggleTill(s) PROVE Keyed'
    BY <1>6, OwnerKeyed DEF ToggleTill, TypeOK, payVars
<1>7. ASSUME NEW p \in Programs, UpdateProgram(p) PROVE Keyed'
    BY <1>7, OwnerKeyed DEF UpdateProgram, TypeOK, payVars
<1>8. CASE UNCHANGED vars
    BY <1>8, OwnerKeyed DEF vars, dbVars, payVars, TypeOK
<1>9. QED
    BY <1>1, <1>2, <1>3, <1>4, <1>5, <1>6, <1>7, <1>8 DEF Next

-----------------------------------------------------------------------------
\* A recorded sale is counted once in the points of its customer.

\* The number of an attempt is new when it is drawn, and stays with it.
LEMMA NextAttemptIsNew ==
    ASSUME Keyed, AttemptIsNew, [Next]_vars
    PROVE  AttemptIsNew'
<1>1. ASSUME NEW w \in Workers, Receive(w) PROVE AttemptIsNew'
  <2>1. /\ id' = [id EXCEPT ![w] = received + 1] /\ sales' = sales
        /\ \A v \in Workers \ {w} : pc'[v] = pc[v]
      BY <1>1 DEF Receive, Goto, dbVars, Keyed, TypeOK
  <2>2. /\ received \in Nat /\ \A s \in sales : s.id \in 1..received
        /\ id \in [Workers -> 0..received]
      BY DEF Keyed, TypeOK
  <2>3. id'[w] = received + 1 /\ \A v \in Workers \ {w} : id'[v] = id[v]
      BY <2>1, <2>2
  <2>4. /\ \A s \in sales : s.id # received + 1
        /\ \A v \in Workers : id[v] # received + 1
      BY <2>2
  <2>5. QED
      BY <2>1, <2>3, <2>4 DEF AttemptIsNew
<1>2. ASSUME NEW w \in Workers, NEW r, NEW n, Answer(w, r, n), sales' = sales
      PROVE  AttemptIsNew'
  <2>1. /\ pc'[w] = "idle"
        /\ \A v \in Workers \ {w} : pc'[v] = pc[v] /\ id'[v] = id[v]
      BY <1>2 DEF Answer, Goto, Keyed, TypeOK
  <2>2. QED
      BY <1>2, <2>1 DEF AttemptIsNew
<1>3. ASSUME NEW w \in Workers, NEW phase, Goto(w, phase), pc[w] # "idle",
             UNCHANGED <<sales, id>>
      PROVE  AttemptIsNew'
  <2>1. \A v \in Workers : pc'[v] # "idle" => pc[v] # "idle"
      BY <1>3 DEF Goto, Keyed, TypeOK
  <2>2. QED
      BY <1>3, <2>1 DEF AttemptIsNew
<1>4. ASSUME NEW w \in Workers, Commit(w) PROVE AttemptIsNew'
  <2>1. /\ pc'[w] = "idle" /\ sales' = sales \cup {SaleOf(w)} /\ SaleOf(w).id = id[w]
        /\ pc[w] # "idle"
        /\ \A v \in Workers \ {w} : pc'[v] = pc[v] /\ id'[v] = id[v]
      BY <1>4 DEF Commit, Answer, Goto, SaleOf, Keyed, TypeOK
  <2>2. QED
      BY <2>1 DEF AttemptIsNew
<1>5. ASSUME UNCHANGED <<sales, pc, id>> PROVE AttemptIsNew'
    BY <1>5 DEF AttemptIsNew
<1>6. ASSUME NEW w \in Workers, Progress(w) \/ Fail(w) PROVE AttemptIsNew'
  <2>1. CASE Replay(w) \/ InsertConflict(w) \/ RefuseInvalid(w) \/ RefuseRedeem(w)
             \/ Fail(w)
      BY <2>1, <1>2
      DEF Replay, InsertConflict, RefuseInvalid, RefuseRedeem, Fail, Refuse, dbVars
  <2>2. CASE ReplayMiss(w) \/ Validate(w) \/ InsertSale(w) \/ Redeem(w) \/ Charge(w)
             \/ ChargesApproved(w)
      BY <2>2, <1>3
      DEF ReplayMiss, Validate, InsertSale, Redeem, Charge, ChargesApproved, dbVars
  <2>3. CASE CheckSession(w) \/ ApplyStock(w)
      BY <2>3, <1>2, <1>3 DEF CheckSession, ApplyStock, Refuse, dbVars
  <2>4. QED
      BY <1>4, <1>6, <2>1, <2>2, <2>3 DEF Progress
<1>7. ASSUME NEW c \in sent, Approve(c) \/ Decline(c) PROVE AttemptIsNew'
  <2>1. CASE \E w \in Workers : Refuse(w)
      BY <2>1, <1>2 DEF Refuse, dbVars
  <2>2. CASE UNCHANGED <<dbVars, requestVars>>
      BY <2>2, <1>5 DEF dbVars, requestVars
  <2>3. QED
      BY <1>7, <2>1, <2>2 DEF Approve, Decline
<1>8. ASSUME NEW s \in sales, NEW n \in 1..s.earned, ReturnSale(s, n) PROVE AttemptIsNew'
    BY <1>5, <1>8 DEF ReturnSale
<1>9. ASSUME NEW s \in Sellers, ToggleTill(s) PROVE AttemptIsNew'
    BY <1>5, <1>9 DEF ToggleTill, requestVars
<1>10. ASSUME NEW p \in Programs, UpdateProgram(p) PROVE AttemptIsNew'
    BY <1>5, <1>10 DEF UpdateProgram, requestVars
<1>11. CASE UNCHANGED vars
    BY <1>5, <1>11 DEF vars, dbVars, requestVars
<1>12. QED
    BY <1>1, <1>6, <1>7, <1>8, <1>9, <1>10, <1>11 DEF Next

\* Only a COMMIT records a sale; only it and a return move points.
LEMMA OnlyCommitsRecord ==
    ASSUME [Next]_vars, \A w \in Workers : ~ Commit(w)
    PROVE  /\ UNCHANGED sales
           /\ \/ UNCHANGED <<points, clawed>>
              \/ \E s \in sales : \E n \in 1..s.earned : ReturnSale(s, n)
<1>1. CASE UNCHANGED vars
    BY <1>1 DEF vars, dbVars
<1>2. ASSUME NEW w \in Workers, Receive(w) \/ Progress(w) \/ Fail(w)
      PROVE  UNCHANGED <<sales, points, clawed>>
    BY <1>2 DEF Progress, Receive, Fail, Replay, ReplayMiss, CheckSession, Validate,
       RefuseInvalid, InsertSale, InsertConflict, Redeem, RefuseRedeem, ApplyStock,
       Charge, ChargesApproved, Refuse, dbVars
<1>3. ASSUME NEW c \in sent, Approve(c) \/ Decline(c)
      PROVE  UNCHANGED <<sales, points, clawed>>
    BY <1>3 DEF Approve, Decline, Refuse, dbVars
<1>4. ASSUME NEW s \in sales, NEW n \in 1..s.earned, ReturnSale(s, n)
      PROVE  UNCHANGED sales
    BY <1>4 DEF ReturnSale
<1>5. ASSUME \/ \E s \in Sellers : ToggleTill(s)
             \/ \E p \in Programs : UpdateProgram(p)
      PROVE  UNCHANGED <<sales, points, clawed>>
    BY <1>5 DEF ToggleTill, UpdateProgram
<1>6. QED
    BY <1>1, <1>2, <1>3, <1>4, <1>5 DEF Next

\* A COMMIT adds the points of the sale to those of its customer.
LEMMA CommitPoints ==
    ASSUME Keyed, Counted, NEW w \in Workers, Commit(w)
    PROVE  IsFiniteSet(sales') /\ PointsExplainedBySales'
<1> DEFINE s == SaleOf(w)
<1>1. /\ sales' = sales \cup {s}
      /\ points' = [c \in Customers |-> IF c = input[w].customer
                        THEN points[c] - s.redeemed + s.earned ELSE points[c]]
      /\ s.customer = input[w].customer /\ s.id = id[w] /\ pc[w] # "idle"
      /\ clawed' = clawed
    BY DEF Commit, SaleOf
<1>2. s \notin sales /\ IsFiniteSet(sales)
    BY <1>1 DEF Counted, AttemptIsNew
<1>3. IsFiniteSet(sales')
    BY <1>1, <1>2, FS_AddElement
<1>4. /\ \A t \in sales' : t.redeemed \in Int /\ t.earned \in Int
      /\ points \in [Customers -> Int] /\ clawed \in [Customers -> Nat]
      /\ InitialPoints \in [Customers -> Int]
    BY CommitKeyed, SalesAssumption DEF Keyed, TypeOK
<1>5. ASSUME NEW c \in Customers
      PROVE  points'[c] = InitialPoints[c] + Gained(c)' - clawed'[c]
  <2> DEFINE gain(t) == IF t.customer = c THEN t.earned - t.redeemed ELSE 0
             f == [t \in sales |-> gain(t)]
             g == [t \in sales' |-> gain(t)]
  <2>1. /\ \A t \in sales : g[t] \in Int /\ f[t] = g[t]
        /\ s \in sales' /\ g[s] \in Int /\ g[s] = gain(s)
      BY <1>1, <1>4
  <2>2. Gained(c) = SumFunctionOnSet(f, sales) /\ Gained(c)' = SumFunctionOnSet(g, sales')
      BY DEF Gained
  <2> HIDE DEF f, g, s
  <2>3. SumFunctionOnSet(g, sales') = SumFunctionOnSet(g, sales) + g[s]
      BY <1>1, <1>2, <2>1, SumAdd
  <2>4. SumFunctionOnSet(f, sales) = SumFunctionOnSet(g, sales)
      BY <1>2, <2>1, SumSame
  <2>5. points[c] = InitialPoints[c] + Gained(c) - clawed[c]
      BY DEF Counted, PointsExplainedBySales
  <2>6. SumFunctionOnSet(g, sales) \in Int
      BY <1>2, <2>1, SumInt
  <2>7. points'[c] = points[c] + g[s]
    <3>1. s.redeemed \in Int /\ s.earned \in Int /\ points[c] \in Int
        BY <1>1, <1>4
    <3>2. points'[c] = IF c = s.customer THEN points[c] - s.redeemed + s.earned ELSE points[c]
        BY <1>1
    <3>3. QED
        BY <2>1, <3>1, <3>2
  <2>8. QED
      BY <1>1, <1>4, <2>1, <2>2, <2>3, <2>4, <2>5, <2>6, <2>7
<1>6. QED
    BY <1>3, <1>5 DEF PointsExplainedBySales

LEMMA InitCounted == Init => Counted
<1> SUFFICES ASSUME Init PROVE Counted
    OBVIOUS
<1>1. /\ sales = {} /\ points = InitialPoints /\ InitialPoints \in [Customers -> Nat]
      /\ clawed = [c \in Customers |-> 0]
    BY SalesAssumption DEF Init
<1>2. \A c \in Customers : Gained(c) = 0
    BY <1>1, SumEmpty DEF Gained
<1>3. AttemptIsNew
    BY DEF Init, AttemptIsNew
<1>4. QED
    BY <1>1, <1>2, <1>3, FS_EmptySet DEF Counted, PointsExplainedBySales

LEMMA NextCounted == Keyed /\ Counted /\ [Next]_vars => Counted'
<1> SUFFICES ASSUME Keyed, Counted, [Next]_vars PROVE Counted'
    OBVIOUS
<1>1. AttemptIsNew'
    BY NextAttemptIsNew DEF Counted
<1>2. CASE \E w \in Workers : Commit(w)
    BY <1>1, <1>2, CommitPoints DEF Counted
<1>3. CASE \A w \in Workers : ~ Commit(w)
  <2>1. sales' = sales
      BY <1>3, OnlyCommitsRecord
  <2>2. \A c \in Customers : Gained(c)' = Gained(c)
      BY <2>1 DEF Gained
  <2>3. CASE UNCHANGED <<points, clawed>>
      BY <1>1, <2>1, <2>2, <2>3 DEF Counted, PointsExplainedBySales
  <2>4. CASE \E s \in sales : \E n \in 1..s.earned : ReturnSale(s, n)
    <3>0. PICK s \in sales : \E n \in 1..s.earned : ReturnSale(s, n)
        BY <2>4
    <3>1. PICK n \in 1..s.earned : ReturnSale(s, n)
        BY <3>0
    <3>2. s.customer \in Customers /\ n \in Nat
        BY <3>1 DEF ReturnSale, Keyed, TypeOK
    <3>3. /\ points' = [points EXCEPT ![s.customer] = @ - n]
          /\ clawed' = [clawed EXCEPT ![s.customer] = @ + n]
        BY <3>1 DEF ReturnSale
    <3>4. \A c \in Customers :
              /\ points[c] \in Int /\ clawed[c] \in Nat /\ InitialPoints[c] \in Nat
              /\ points[c] = InitialPoints[c] + Gained(c) - clawed[c]
        BY SalesAssumption DEF Keyed, TypeOK, Counted, PointsExplainedBySales
    <3>5. \A c \in Customers : Gained(c) \in Int
      <4> SUFFICES ASSUME NEW c \in Customers PROVE Gained(c) \in Int
          OBVIOUS
      <4> DEFINE f == [t \in sales |-> IF t.customer = c THEN t.earned - t.redeemed ELSE 0]
      <4>1. \A t \in sales : f[t] \in Int
          BY DEF Keyed, TypeOK
      <4> HIDE DEF f
      <4>2. SumFunctionOnSet(f, sales) \in Int
          BY <4>1, SumInt DEF Counted
      <4>3. QED
          BY <4>2 DEF Gained, f
    <3>6. \A c \in Customers : points'[c] = InitialPoints[c] + Gained(c) - clawed'[c]
        BY <3>2, <3>3, <3>4, <3>5 DEF Keyed, TypeOK
    <3>7. QED
        BY <1>1, <2>1, <2>2, <3>6 DEF Counted, PointsExplainedBySales
  <2>5. QED
      BY <1>3, <2>3, <2>4, OnlyCommitsRecord
<1>4. QED
    BY <1>2, <1>3

-----------------------------------------------------------------------------
\* The inductive invariant holds in every reachable state.
THEOREM SpecIInv == Spec => []IInv
<1>1. QED
    BY InitKeyed, NextKeyed, InitCounted, NextCounted, PTL DEF Spec, IInv

\* Whatever retries overlap, fail or come back late, one sale at most is
\* recorded under a clientSaleId (sales.service.ts:122-138).
THEOREM SpecOneSalePerKey == Spec => []OneSalePerKey
<1>1. IInv => OneSalePerKey
    BY DEF IInv, Keyed
<1>2. QED
    BY <1>1, SpecIInv, PTL

\* An answer with a sale names a recorded one, so all the answers to a key
\* name the same sale.
THEOREM SpecOkMeansRecorded == Spec => []OkMeansRecorded
<1>1. IInv => OkMeansRecorded
    BY DEF IInv, Keyed
<1>2. QED
    BY <1>1, SpecIInv, PTL

\* A recorded sale has had all its card and Pix payments approved.
THEOREM SpecPaidInFull == Spec => []PaidInFull
<1>1. IInv => PaidInFull
    BY DEF IInv, Keyed
<1>2. QED
    BY <1>1, SpecIInv, PTL

\* The points of a customer are those it began with and those of the recorded
\* sales, less what returns took back: whatever fails, is refused or is answered by a replay leaves none
\* behind, and no retry counts a sale twice (sales.service.ts:231-234).
THEOREM SpecPointsExplainedBySales == Spec => []PointsExplainedBySales
<1>1. IInv => PointsExplainedBySales
    BY DEF IInv, Counted
<1>2. QED
    BY <1>1, SpecIInv, PTL

\* A sale that redeems leaves its customer with no negative balance, unless the
\* balance fell between its check and its COMMIT.
THEOREM SpecRedeemedWithinBalance == Spec => RedeemedWithinBalance
<1> DEFINE Within == \A s \in sales' \ sales, c \in Customers :
                        s.customer = c /\ s.redeemed > 0 /\ s.id \notin overtaken =>
                            points'[c] >= 0
<1>1. ASSUME IInv, NEW w \in Workers, Commit(w) PROVE Within
  <2> SUFFICES ASSUME NEW s \in sales' \ sales, NEW c \in Customers,
                      s.customer = c, s.redeemed > 0, s.id \notin overtaken
               PROVE  points'[c] >= 0
      OBVIOUS
  <2>1. /\ s = SaleOf(w) /\ pc[w] = "commit"
        /\ points'[c] = points[c] - SaleOf(w).redeemed + SaleOf(w).earned
      BY <1>1 DEF Commit, SaleOf
  <2>2. /\ s.redeemed = input[w].redeem /\ input[w].customer = c /\ s.id = id[w]
        /\ s.earned = PointsEarned(input[w], seen[w])
      BY <2>1 DEF SaleOf
  <2>3. input[w].redeem <= points[c]
      BY <1>1, <2>1, <2>2 DEF IInv, Keyed, RedeemCovered, Redeems, Spending
  <2>4. input[w] \in Input /\ seen[w] \in Programs /\ points[c] \in Int
      BY <1>1, <2>1, Carries DEF IInv, Keyed, TypeOK
  <2>5. PointsEarned(input[w], seen[w]) \in Nat
      BY <1>1, <2>1, <2>4, EarnedPoints DEF IInv, Keyed, TotalsChecked, Inserted, Spending
  <2>6. input[w].redeem \in Nat
      BY <2>4 DEF Input
  <2>7. QED
      BY <2>1, <2>2, <2>3, <2>4, <2>5, <2>6
<1>2. IInv /\ [Next]_vars => [Within]_vars
  <2> SUFFICES ASSUME IInv, Next PROVE Within
      OBVIOUS
  <2>1. CASE \E w \in Workers : Commit(w)
      BY <1>1, <2>1
  <2>2. CASE \A w \in Workers : ~ Commit(w)
      BY <2>2, OnlyCommitsRecord
  <2>3. QED
      BY <2>1, <2>2
<1>3. QED
    BY <1>2, SpecIInv, PTL DEF Spec, RedeemedWithinBalance

\* No charge is sent under a clientSaleId that has a recorded sale.
THEOREM SpecNoChargeSentOnceRecorded == Spec => NoChargeSentOnceRecorded
<1> DEFINE Fresh == \A c \in sent' \ sent : Recorded(c.key) = {}
<1>1. ASSUME IInv, NEW w \in Workers, Charge(w) PROVE Fresh
  <2>1. \A c \in sent' \ sent : c.key = input[w].key
      BY <1>1 DEF Charge, Charged
  <2>2. input[w].key = NoKey \/ Recorded(input[w].key) = {}
      BY <1>1 DEF IInv, Keyed, KeysHeldOnce, Inserted, Spending, Charge
  <2>3. QED
      BY <2>1, <2>2 DEF Recorded
<1>2. ASSUME Next, \A w \in Workers : ~ Charge(w) PROVE sent' \subseteq sent
  <2>1. ASSUME NEW w \in Workers, Receive(w) \/ Progress(w) \/ Fail(w)
        PROVE  sent' = sent
      BY <1>2, <2>1
      DEF Progress, Receive, Fail, Replay, ReplayMiss, CheckSession, Validate,
          RefuseInvalid, InsertSale, InsertConflict, Redeem, RefuseRedeem, ApplyStock,
          ChargesApproved, Commit, payVars
  <2>2. ASSUME NEW c \in sent, Approve(c) \/ Decline(c) PROVE sent' \subseteq sent
      BY <2>2 DEF Approve, Decline
  <2>3. QED
      BY <1>2, <2>1, <2>2 DEF Next, ReturnSale, ToggleTill, UpdateProgram, payVars
<1>3. IInv /\ [Next]_vars => [Fresh]_vars
    BY <1>1, <1>2
<1>4. QED
    BY <1>3, SpecIInv, PTL DEF Spec, NoChargeSentOnceRecorded
=============================================================================
