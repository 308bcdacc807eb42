--------------------------- MODULE Platform_proofs ---------------------------
(***************************************************************************)
(* Theorems about Platform, for any accounts, requests, periods and        *)
(* grace: what a subscription stands for, and what sessions, links,        *)
(* invites, locks and roles come to.                                       *)
(***************************************************************************)
EXTENDS Platform, FiniteSetTheorems, TLAPS

(* The subscription. *)

LEMMA DaysTyped ==
    /\ Days(PeriodDays) \in Nat /\ Days(PeriodDays) > 0
    /\ Days(GraceDays) \in Nat /\ Days(TrialDays) \in Nat
<1>1. \A m \in Nat, n \in Nat : m * n \in Nat /\ (m > 0 /\ n > 0 => m * n > 0)
    OBVIOUS
<1>2. DayLength \in Nat /\ DayLength > 0 /\ PeriodDays \in Nat /\ PeriodDays > 0
      /\ GraceDays \in Nat /\ TrialDays \in Nat
    BY BillingAssumption
<1>3. QED
    BY <1>1, <1>2 DEF Days

LEMMA DayTyped == ASSUME NEW m \in Nat PROVE Day(m) \in Nat
BY BillingAssumption DEF Day

\* What the rows of a tenant are when they are there.
LEMMA BillRows ==
    ASSUME BillTypeOK, NEW t \in Tenants
    PROVE  /\ tenants[t] # NoTenant => tenants[t] \in Tenant
           /\ subs[t] # NoSub => subs[t] \in Subscription
           /\ subs[t].status # "none" <=> subs[t] # NoSub
           /\ tenants[t].status # "none" <=> tenants[t] # NoTenant
           /\ subs[t].status \in {"none", "active", "past_due", "canceled"}
           /\ invoices[t] \in Seq(InvoiceRow) /\ renewals[t] \in Seq(Nat)
<1>1. subs[t] \in {NoSub} \cup Subscription /\ tenants[t] \in {NoTenant} \cup Tenant
    BY DEF BillTypeOK
<1>2. /\ NoSub.status = "none" /\ NoTenant.status = "none"
      /\ \A r \in Subscription : r.status \in {"active", "past_due", "canceled"}
      /\ \A r \in Tenant : r.status # "none"
    BY DEF NoSub, NoTenant, Subscription, Tenant
<1>3. QED
    BY <1>1, <1>2 DEF BillTypeOK

\* The run of the job, and the row it has charged.
LEMMA RunFacts ==
    ASSUME BillTypeOK, HoldsRows, job.run # NoRun
    PROVE  /\ job.run \in Run /\ job.run.at \in Nat /\ job.run.due \subseteq Tenants
           /\ job.run.rows \in [Tenants -> {NoSub} \cup Subscription] /\ job.run.at <= clock
           /\ \A t \in job.run.due : job.run.rows[t] \in Subscription /\ subs[t] \in Subscription
           /\ \A t \in Tenants, approved \in BOOLEAN : Answered(t, approved) => t \in job.run.due
<1>1. job.run \in Run
    BY DEF BillTypeOK
<1>2. /\ job.run.at \in Nat /\ job.run.due \subseteq Tenants
      /\ job.run.rows \in [Tenants -> {NoSub} \cup Subscription]
    BY <1>1 DEF Run
<1>3. \A t \in job.run.due : job.run.rows[t] \in Subscription /\ subs[t] \in Subscription
    BY <1>2 DEF HoldsRows, BillTypeOK
<1>4. \A t \in Tenants, approved \in BOOLEAN : Answered(t, approved) => t \in job.run.due
    BY BillingAssumption DEF Answered, HoldsRows
<1>5. QED
    BY <1>1, <1>2, <1>3, <1>4 DEF HoldsRows

LEMMA BillBeginsInv == BillBegins /\ tenants \in [Tenants -> {NoTenant} \cup Tenant]
                       /\ (\A t \in Tenants : tenants[t].status \in {"none", "trial"}) => BillingInv
<1> SUFFICES ASSUME BillBegins, tenants \in [Tenants -> {NoTenant} \cup Tenant],
                    \A t \in Tenants : tenants[t].status \in {"none", "trial"}
             PROVE  BillingInv
    OBVIOUS
<1>1. /\ \A t \in Tenants : subs[t] = NoSub /\ subs[t].status = "none"
      /\ job.run = NoRun /\ \A p \in Payers : pays[p] = NoPay
    BY DEF BillBegins, NoSub
<1>2. BillTypeOK
    BY DEF BillBegins, BillTypeOK, Moments, NoTime
<1>3. QED
    BY <1>1, <1>2 DEF BillingInv, HoldsRows, StatusesAgree

\* The two rows of a tenant written together.
LEMMA StandFacts ==
    ASSUME BillingInv, NEW t \in Tenants, tenants[t] # NoTenant,
           NEW row \in Subscription, NEW status, Stand(t, status, row),
           \/ row.status \in {"active", "canceled"} /\ status = row.status
           \/ row.status = "past_due" /\ status \in {"past_due", "blocked"}
    PROVE  /\ tenants' \in [Tenants -> {NoTenant} \cup Tenant]
           /\ subs' \in [Tenants -> {NoSub} \cup Subscription]
           /\ StatusesAgree'
           /\ subs'[t] = row /\ tenants'[t].status = status /\ subs'[t] # NoSub
           /\ tenants'[t].trialEnds = tenants[t].trialEnds
           /\ \A u \in Tenants \ {t} : subs'[u] = subs[u] /\ tenants'[u] = tenants[u]
           /\ \A u \in Tenants : tenants'[u] = NoTenant <=> tenants[u] = NoTenant
<1>1. BillTypeOK /\ StatusesAgree /\ tenants[t] \in Tenant
    BY BillRows DEF BillingInv
<1> DEFINE standing == [tenants[t] EXCEPT !.status = status]
<1>2. /\ standing \in Tenant /\ standing.status = status /\ standing # NoTenant
      /\ standing.trialEnds = tenants[t].trialEnds
    BY <1>1 DEF Tenant, NoTenant
<1>3. tenants' = [tenants EXCEPT ![t] = standing] /\ subs' = [subs EXCEPT ![t] = row]
    BY DEF Stand
<1> HIDE DEF standing
<1>4. row # NoSub
    BY DEF Subscription, NoSub
<1>5. /\ tenants'[t] = standing /\ subs'[t] = row
      /\ \A u \in Tenants \ {t} : subs'[u] = subs[u] /\ tenants'[u] = tenants[u]
    BY <1>1, <1>3 DEF BillTypeOK
<1>6. /\ tenants' \in [Tenants -> {NoTenant} \cup Tenant]
      /\ subs' \in [Tenants -> {NoSub} \cup Subscription]
    BY <1>1, <1>2, <1>3 DEF BillTypeOK
<1>7. StatusesAgree'
    BY <1>1, <1>2, <1>5 DEF StatusesAgree
<1>8. QED
    BY <1>2, <1>4, <1>5, <1>6, <1>7

\* A step that writes no tenant and no subscription.
LEMMA AsideBillingInv ==
    ASSUME BillingInv, UNCHANGED <<tenants, subs>>, BillTypeOK', HoldsRows'
    PROVE  BillingInv'
BY DEF BillingInv, StatusesAgree

LEMMA TickBillingInv == BillingInv /\ Tick => BillingInv'
<1> SUFFICES ASSUME BillingInv, Tick PROVE BillingInv'
    OBVIOUS
<1>1. clock \in Nat /\ clock' = clock + 1
      /\ UNCHANGED <<tenants, subs, invoices, job, pays, renewals, crossed>>
    BY DEF Tick, BillingInv, BillTypeOK
<1>2. BillTypeOK'
    BY <1>1 DEF BillingInv, BillTypeOK
<1>3. HoldsRows'
    BY <1>1, RunFacts DEF BillingInv, HoldsRows
<1>4. QED
    BY <1>1, <1>2, <1>3, AsideBillingInv

LEMMA TrialTyped ==
    ASSUME clock \in Nat
    PROVE  Trial \in Tenant /\ Trial.status = "trial" /\ Trial # NoTenant
<1>1. clock + Days(TrialDays) \in Nat
    BY DaysTyped
<1>2. QED
    BY <1>1 DEF Trial, Tenant, NoTenant

LEMMA TrialsBillingInv ==
    ASSUME BillingInv, ExpireTrials \/ \E t \in Tenants : OpenTrial(t)
    PROVE  BillingInv'
<1>1. BillTypeOK /\ HoldsRows /\ StatusesAgree
    BY DEF BillingInv
<1>2. CASE ExpireTrials
  <2> DEFINE Ends(t) == tenants[t].status = "trial" /\ TrialOver(t)
             Shut(t) == [tenants[t] EXCEPT !.status = "blocked"]
  <2>1. /\ UNCHANGED <<clock, subs, invoices, job, pays, renewals, crossed>>
        /\ tenants' = [t \in Tenants |-> IF Ends(t) THEN Shut(t) ELSE tenants[t]]
      BY <1>2 DEF ExpireTrials
  <2>2. ASSUME NEW t \in Tenants, Ends(t)
        PROVE  Shut(t) \in Tenant /\ Shut(t).status = "blocked" /\ tenants[t] \in Tenant
      BY <1>1, <2>2, BillRows DEF Tenant
  <2> HIDE DEF Ends, Shut
  <2>3. tenants' \in [Tenants -> {NoTenant} \cup Tenant]
      BY <1>1, <2>1, <2>2 DEF BillTypeOK
  <2>4. \A t \in Tenants : /\ Ends(t) => /\ tenants'[t].status = "blocked"
                                         /\ tenants[t].status = "trial"
                           /\ ~ Ends(t) => tenants'[t] = tenants[t]
                           /\ tenants[t] # NoTenant => tenants'[t] # NoTenant
    <3>1. \A t \in Tenants : Ends(t) => tenants[t].status = "trial"
        BY DEF Ends
    <3>2. NoTenant \notin Tenant
        BY DEF NoTenant, Tenant
    <3>3. QED
        BY <2>1, <2>2, <3>1, <3>2
  <2>5. BillTypeOK'
      BY <1>1, <2>1, <2>3 DEF BillTypeOK
  <2>6. StatusesAgree'
      BY <1>1, <2>1, <2>4, BillRows DEF StatusesAgree
  <2>7. HoldsRows'
    <3>1. \A p \in Payers : pays[p] # NoPay => pays[p].tenant \in Tenants
        BY <1>1 DEF BillTypeOK, Pay
    <3>2. QED
        BY <1>1, <2>1, <2>4, <3>1 DEF HoldsRows
  <2>8. QED
      BY <2>5, <2>6, <2>7 DEF BillingInv
<1>3. ASSUME NEW t \in Tenants, OpenTrial(t) PROVE BillingInv'
  <2>1. /\ UNCHANGED <<clock, subs, invoices, job, pays, renewals, crossed>>
        /\ tenants' = [tenants EXCEPT ![t] = Trial] /\ tenants[t] = NoTenant
      BY <1>3 DEF OpenTrial
  <2>2. Trial \in Tenant /\ Trial.status = "trial" /\ Trial # NoTenant
      BY <1>1, TrialTyped DEF BillTypeOK
  <2>3. BillTypeOK'
      BY <1>1, <2>1, <2>2 DEF BillTypeOK
  <2>4. tenants'[t] = Trial /\ \A u \in Tenants \ {t} : tenants'[u] = tenants[u]
      BY <1>1, <2>1 DEF BillTypeOK
  <2>5. subs[t].status = "none"
      BY <1>1, <2>1, BillRows DEF HoldsRows
  <2>6. StatusesAgree'
      BY <1>1, <2>1, <2>2, <2>4, <2>5 DEF StatusesAgree
  <2>7. HoldsRows'
    <3>1. \A p \in Payers : pays[p] # NoPay => pays[p].tenant \in Tenants
        BY <1>1 DEF BillTypeOK, Pay
    <3>2. QED
        BY <1>1, <2>1, <2>2, <2>4, <3>1 DEF HoldsRows
  <2>8. QED
      BY <2>3, <2>6, <2>7 DEF BillingInv
<1>4. QED
    BY <1>2, <1>3

-----------------------------------------------------------------------------
LEMMA PayFacts ==
    ASSUME BillTypeOK, NEW p \in Payers, pays[p] # NoPay
    PROVE  /\ pays[p] \in Pay /\ pays[p].tenant \in Tenants
           /\ pays[p].step \in {"subscribe", "cancel"}
           /\ pays[p].step = "subscribe" => pays[p].plan \in Plans /\ pays[p].existing \in BOOLEAN
<1>1. pays[p] \in Pay
    BY DEF BillTypeOK
<1>2. QED
    BY <1>1 DEF Pay

\* A request of an owner begins, or ends without a trace.
LEMMA AskBillingInv ==
    ASSUME BillingInv, NEW p \in Payers, NEW t \in Tenants,
           Ask(p, t) \/ FailPay(p)
    PROVE  BillingInv'
<1>1. BillTypeOK /\ HoldsRows
    BY DEF BillingInv
<1>2. PICK pay \in {NoPay} \cup Pay :
         /\ pays' = [pays EXCEPT ![p] = pay]
         /\ pay # NoPay => /\ tenants[pay.tenant] # NoTenant
                           /\ pay.step = "cancel" \/ pay.existing => subs[pay.tenant] # NoSub
  <2>1. CASE AskCancel(p, t)
    <3> DEFINE pay == [step |-> "cancel", tenant |-> t]
    <3>1. pay \in Pay /\ pays' = [pays EXCEPT ![p] = pay] /\ subs[t] # NoSub /\ pay.tenant = t
        BY <1>1, <2>1, BillRows DEF AskCancel, Pay
    <3>2. tenants[t] # NoTenant
        BY <1>1, <3>1 DEF HoldsRows
    <3> HIDE DEF pay
    <3>3. QED
        BY <3>1, <3>2
  <2>2. ASSUME NEW chosen \in Plans, Subscribe(p, t, chosen)
        PROVE  \E pay \in {NoPay} \cup Pay :
                  /\ pays' = [pays EXCEPT ![p] = pay]
                  /\ pay # NoPay => /\ tenants[pay.tenant] # NoTenant
                                    /\ pay.step = "cancel" \/ pay.existing => subs[pay.tenant] # NoSub
    <3> DEFINE pay == [step |-> "subscribe", tenant |-> t, plan |-> chosen,
                       existing |-> subs[t] # NoSub]
    <3>1. /\ pay \in Pay /\ pay.tenant = t /\ pay.step = "subscribe"
          /\ pay.existing => subs[t] # NoSub
      <4>1. (subs[t] # NoSub) \in BOOLEAN
          OBVIOUS
      <4>2. pay \in [step : {"subscribe"}, tenant : Tenants, plan : Plans, existing : BOOLEAN]
          BY <4>1, Zenon
      <4>3. pay.tenant = t /\ pay.step = "subscribe" /\ (pay.existing => subs[t] # NoSub)
          BY Zenon
      <4>4. QED
          BY <4>2, <4>3 DEF Pay
    <3>2. tenants[t] # NoTenant /\ pays' = [pays EXCEPT ![p] = pay]
        BY <2>2 DEF Subscribe
    <3> HIDE DEF pay
    <3>3. QED
        BY <3>1, <3>2
  <2>3. CASE FailPay(p)
      BY <2>3 DEF FailPay
  <2>4. QED
      BY <2>1, <2>2, <2>3 DEF Ask
<1>3. UNCHANGED <<clock, tenants, subs, invoices, job, renewals, crossed>>
    BY DEF Ask, AskCancel, Subscribe, FailPay
<1>4. BillTypeOK'
    BY <1>1, <1>2, <1>3 DEF BillTypeOK
<1>5. pays'[p] = pay /\ \A q \in Payers \ {p} : pays'[q] = pays[q]
    BY <1>1, <1>2 DEF BillTypeOK
<1>6. HoldsRows'
    BY <1>1, <1>2, <1>3, <1>5 DEF HoldsRows
<1>7. QED
    BY <1>3, <1>4, <1>6, AsideBillingInv

\* A step that writes the two rows of t, and invoices of it, keeps what the
\* others hold.
LEMMA StandBillingInv ==
    ASSUME BillingInv, NEW t \in Tenants, tenants[t] # NoTenant,
           NEW row \in Subscription, NEW status, Stand(t, status, row),
           \/ row.status \in {"active", "canceled"} /\ status = row.status
           \/ row.status = "past_due" /\ status \in {"past_due", "blocked"},
           clock' = clock, renewals' = renewals,
           invoices' \in [Tenants -> Seq(InvoiceRow)], crossed' \subseteq Tenants,
           job' = job \/ \E u \in Tenants : job' = [job EXCEPT !.run.due = @ \ {u},
                                                     !.run.answered = [tenant |-> "none"]],
           pays' = pays \/ \E p \in Payers : pays' = [pays EXCEPT ![p] = NoPay]
    PROVE  BillingInv'
<1>1. BillTypeOK /\ HoldsRows
    BY DEF BillingInv
<1>2. /\ tenants' \in [Tenants -> {NoTenant} \cup Tenant]
      /\ subs' \in [Tenants -> {NoSub} \cup Subscription] /\ StatusesAgree'
      /\ subs'[t] # NoSub /\ \A u \in Tenants \ {t} : subs'[u] = subs[u]
      /\ \A u \in Tenants : tenants'[u] = NoTenant <=> tenants[u] = NoTenant
    BY StandFacts
<1>3. \A p \in Payers : pays'[p] = pays[p] \/ pays'[p] = NoPay
    BY <1>1 DEF BillTypeOK
<1>4. pays' \in [Payers -> {NoPay} \cup Pay]
    BY <1>1 DEF BillTypeOK
<1>5. job' = job \/ /\ job' \in [run : {NoRun} \cup Run, lastDay : Moments]
                    /\ job.run # NoRun => /\ job'.run.at = job.run.at /\ job'.run.rows = job.run.rows
                                          /\ job'.run.due \subseteq job.run.due
                                          /\ job'.run.answered.tenant = "none"
                    /\ job.run = NoRun => job'.run = NoRun
  <2>1. SUFFICES ASSUME NEW u \in Tenants,
                        job' = [job EXCEPT !.run.due = @ \ {u}, !.run.answered = [tenant |-> "none"]]
                 PROVE  /\ job' \in [run : {NoRun} \cup Run, lastDay : Moments]
                        /\ job.run # NoRun => /\ job'.run.at = job.run.at
                                              /\ job'.run.rows = job.run.rows
                                              /\ job'.run.due \subseteq job.run.due
                                              /\ job'.run.answered.tenant = "none"
                        /\ job.run = NoRun => job'.run = NoRun
      OBVIOUS
  <2>2. job \in [run : {NoRun} \cup Run, lastDay : Moments]
      BY <1>1 DEF BillTypeOK
  <2>3. CASE job.run = NoRun
      BY <2>1, <2>2, <2>3 DEF NoRun
  <2>4. CASE job.run # NoRun
      BY <2>1, <2>2, <2>4 DEF Run, Answer
  <2>5. QED
      BY <2>3, <2>4
<1>6. BillTypeOK'
    BY <1>1, <1>2, <1>4, <1>5 DEF BillTypeOK
<1>7. HoldsRows'
  <2>1. \A u \in Tenants : subs[u] # NoSub => subs'[u] # NoSub
      BY <1>2
  <2>2. \A u \in Tenants : subs'[u] # NoSub => tenants'[u] # NoTenant
      BY <1>1, <1>2 DEF HoldsRows
  <2>3. ASSUME NEW p \in Payers, pays'[p] # NoPay
        PROVE  /\ tenants'[pays'[p].tenant] # NoTenant
               /\ pays'[p].step = "cancel" \/ pays'[p].existing => subs'[pays'[p].tenant] # NoSub
    <3>1. pays'[p] = pays[p] /\ pays[p] # NoPay
        BY <1>3, <2>3
    <3>2. /\ pays[p].tenant \in Tenants /\ tenants[pays[p].tenant] # NoTenant
          /\ pays[p].step = "cancel" \/ pays[p].existing => subs[pays[p].tenant] # NoSub
        BY <1>1, <3>1, PayFacts DEF HoldsRows
    <3> DEFINE u == pays[p].tenant
    <3>3. tenants'[u] # NoTenant /\ (subs[u] # NoSub => subs'[u] # NoSub)
        BY <1>2, <2>1, <3>2
    <3>4. QED
        BY <3>1, <3>2, <3>3
  <2>4. ASSUME job'.run # NoRun
        PROVE  /\ job'.run.at <= clock'
               /\ \A u \in job'.run.due : job'.run.rows[u] # NoSub /\ subs'[u] # NoSub
               /\ job'.run.answered.tenant # "none" => job'.run.answered.tenant \in job'.run.due
    <3>1. job.run # NoRun
        BY <1>5, <2>4
    <3>2. /\ job.run.at <= clock /\ job.run.due \subseteq Tenants
          /\ \A u \in job.run.due : job.run.rows[u] # NoSub /\ subs[u] # NoSub
          /\ job.run.answered.tenant # "none" => job.run.answered.tenant \in job.run.due
        BY <1>1, <3>1, RunFacts DEF HoldsRows
    <3>3. QED
        BY <1>5, <2>1, <3>1, <3>2
  <2>5. QED
      BY <2>2, <2>3, <2>4 DEF HoldsRows
<1>8. QED
    BY <1>2, <1>6, <1>7 DEF BillingInv

LEMMA InvoiceTyped ==
    ASSUME NEW status \in {"paid", "failed"}, NEW row \in Subscription, NEW tried \in Nat
    PROVE  /\ Invoice(status, row, tried) \in InvoiceRow
           /\ Invoice(status, row, tried) = [status |-> status, start |-> row.start, end |-> row.end,
                                             tried |-> tried]
BY DEF Invoice, InvoiceRow, Subscription

\* One more invoice of t.
LEMMA AppendTyped ==
    ASSUME BillTypeOK, NEW t \in Tenants, NEW invoice \in InvoiceRow
    PROVE  [invoices EXCEPT ![t] = Append(@, invoice)] \in [Tenants -> Seq(InvoiceRow)]
<1> DEFINE s == Append(invoices[t], invoice)
<1>1. s \in Seq(InvoiceRow)
    BY DEF BillTypeOK
<1> HIDE DEF s
<1>2. [invoices EXCEPT ![t] = s] \in [Tenants -> Seq(InvoiceRow)]
    BY <1>1 DEF BillTypeOK
<1>3. QED
    BY <1>2 DEF s

LEMMA CrossedTyped ==
    ASSUME BillTypeOK, NEW t \in Tenants, NEW others, NEW jobToo
    PROVE  /\ Crossed(t, others, jobToo) \subseteq Tenants
           /\ crossed \subseteq Crossed(t, others, jobToo)
           /\ Crossed(t, others, jobToo) \subseteq crossed \cup {t}
BY DEF BillTypeOK, Crossed

\* The row an owner's subscription writes.
PayRow(p) == [status |-> "active", plan |-> pays[p].plan, start |-> clock,
              end |-> clock + Days(PeriodDays), since |-> NoTime]

LEMMA PayRowTyped ==
    ASSUME BillTypeOK, NEW p \in Payers, pays[p] # NoPay, pays[p].step = "subscribe"
    PROVE  /\ PayRow(p) \in Subscription /\ PayRow(p).status = "active"
           /\ PayRow(p).start = clock /\ PayRow(p).end = clock + Days(PeriodDays)
           /\ PayRow(p).since = NoTime /\ PayRow(p).start < PayRow(p).end
<1>1. clock \in Nat /\ clock + Days(PeriodDays) \in Nat /\ clock < clock + Days(PeriodDays)
    BY DaysTyped DEF BillTypeOK
<1>2. pays[p].plan \in Plans
    BY PayFacts
<1>3. QED
    BY <1>1, <1>2 DEF PayRow, Subscription, Moments

LEMMA ActivateBillingInv ==
    ASSUME BillingInv, NEW p \in Payers, Activate(p)
    PROVE  BillingInv'
<1> DEFINE t == pays[p].tenant
<1>1. pays[p] # NoPay /\ pays[p].step = "subscribe" /\ BillTypeOK /\ HoldsRows
    BY DEF Activate, NoPay, BillingInv
<1>2. t \in Tenants /\ tenants[t] # NoTenant /\ clock \in Nat
    BY <1>1, PayFacts DEF HoldsRows, BillTypeOK
<1>3. PayRow(p) \in Subscription /\ PayRow(p).status = "active"
    BY <1>1, PayRowTyped
<1>4. /\ Stand(t, "active", PayRow(p)) /\ clock' = clock /\ renewals' = renewals /\ job' = job
      /\ invoices' = [invoices EXCEPT ![t] = Append(@, Invoice("paid", PayRow(p), clock))]
      /\ pays' = [pays EXCEPT ![p] = NoPay] /\ crossed' = Crossed(t, Payers \ {p}, TRUE)
    BY DEF Activate, PayRow
<1> HIDE DEF t
<1>5. invoices' \in [Tenants -> Seq(InvoiceRow)] /\ crossed' \subseteq Tenants
    BY <1>1, <1>2, <1>3, <1>4, InvoiceTyped, AppendTyped, CrossedTyped
<1>6. QED
    BY <1>2, <1>3, <1>4, <1>5, StandBillingInv

LEMMA CancelBillingInv ==
    ASSUME BillingInv, NEW p \in Payers, CancelSubscription(p)
    PROVE  BillingInv'
<1> DEFINE t == pays[p].tenant
           row == [subs[t] EXCEPT !.status = "canceled"]
<1>1. pays[p] # NoPay /\ pays[p].step = "cancel" /\ BillTypeOK /\ HoldsRows
    BY DEF CancelSubscription, NoPay, BillingInv
<1>2. t \in Tenants /\ tenants[t] # NoTenant /\ subs[t] \in Subscription
    BY <1>1, PayFacts, BillRows DEF HoldsRows
<1>3. row \in Subscription /\ row.status = "canceled"
    BY <1>2 DEF Subscription
<1>4. /\ Stand(t, "canceled", row) /\ clock' = clock /\ renewals' = renewals /\ job' = job
      /\ invoices' = invoices /\ pays' = [pays EXCEPT ![p] = NoPay]
      /\ crossed' = Crossed(t, Payers \ {p}, TRUE)
    BY DEF CancelSubscription
<1> HIDE DEF t, row
<1>5. invoices' \in [Tenants -> Seq(InvoiceRow)] /\ crossed' \subseteq Tenants
    BY <1>1, <1>2, <1>4, CrossedTyped DEF BillTypeOK
<1>6. QED
    BY <1>2, <1>3, <1>4, <1>5, StandBillingInv

-----------------------------------------------------------------------------
LEMMA StartRunBillingInv == ASSUME BillingInv, StartRun PROVE BillingInv'
<1> DEFINE run == [at |-> clock, due |-> {t \in Tenants : Due(t)}, rows |-> subs,
                   answered |-> [tenant |-> "none"]]
<1>1. BillTypeOK /\ HoldsRows
    BY DEF BillingInv
<1>2. job' = [run |-> run, lastDay |-> Day(clock)]
      /\ UNCHANGED <<clock, tenants, subs, invoices, pays, renewals, crossed>>
    BY DEF StartRun
<1>3. clock \in Nat /\ Day(clock) \in Moments
    BY <1>1, DayTyped DEF BillTypeOK, Moments
<1>4. run \in Run /\ \A t \in run.due : subs[t] # NoSub
    BY <1>1, <1>3, BillRows DEF Run, Answer, BillTypeOK, Due
<1>5. /\ run.at = clock /\ run.rows = subs /\ run.answered.tenant = "none"
    OBVIOUS
<1> HIDE DEF run
<1>6. BillTypeOK'
    BY <1>1, <1>2, <1>3, <1>4 DEF BillTypeOK
<1>7. HoldsRows'
    BY <1>1, <1>2, <1>3, <1>4, <1>5 DEF HoldsRows
<1>8. QED
    BY <1>2, <1>6, <1>7, AsideBillingInv

LEMMA ChargeBillingInv ==
    ASSUME BillingInv, NEW t \in Tenants, NEW approved \in BOOLEAN, Charge(t, approved)
    PROVE  BillingInv'
<1> DEFINE run == [job.run EXCEPT !.answered = [tenant |-> t, approved |-> approved]]
<1>1. BillTypeOK /\ HoldsRows /\ job.run # NoRun /\ t \in job.run.due
    BY DEF BillingInv, Charge
<1>2. job' = [job EXCEPT !.run = run]
      /\ UNCHANGED <<clock, tenants, subs, invoices, pays, crossed>>
      /\ renewals' = IF approved
                     THEN [renewals EXCEPT ![t] = Append(@, job.run.rows[t].end)] ELSE renewals
    BY DEF Charge
<1>3. job.run \in Run /\ job.run.rows[t] \in Subscription
    BY <1>1, RunFacts
<1>4. /\ run \in Run /\ run.at = job.run.at /\ run.due = job.run.due /\ run.rows = job.run.rows
      /\ run.answered = [tenant |-> t, approved |-> approved]
    BY <1>3 DEF Run, Answer
<1> HIDE DEF run
<1>5. renewals' \in [Tenants -> Seq(Nat)]
  <2> DEFINE s == Append(renewals[t], job.run.rows[t].end)
  <2>1. s \in Seq(Nat)
      BY <1>1, <1>3 DEF BillTypeOK, Subscription
  <2> HIDE DEF s
  <2>2. [renewals EXCEPT ![t] = s] \in [Tenants -> Seq(Nat)]
      BY <1>1, <2>1 DEF BillTypeOK
  <2>3. QED
      BY <1>1, <1>2, <2>2 DEF BillTypeOK, s
<1>6. job' \in [run : {NoRun} \cup Run, lastDay : Moments] /\ job'.run = run
    BY <1>1, <1>2, <1>4 DEF BillTypeOK
<1>7. BillTypeOK'
    BY <1>1, <1>2, <1>5, <1>6 DEF BillTypeOK
<1>8. HoldsRows'
    BY <1>1, <1>2, <1>4, <1>6 DEF HoldsRows
<1>9. QED
    BY <1>2, <1>7, <1>8, AsideBillingInv

LEMMA EndRunBillingInv == ASSUME BillingInv, EndRun PROVE BillingInv'
<1>1. BillTypeOK /\ HoldsRows /\ job.run # NoRun
    BY DEF BillingInv, EndRun
<1>2. job' = [job EXCEPT !.run = NoRun]
      /\ UNCHANGED <<clock, tenants, subs, invoices, pays, renewals>>
    BY DEF EndRun
<1>3. job' \in [run : {NoRun} \cup Run, lastDay : Moments] /\ job'.run = NoRun
    BY <1>1, <1>2 DEF BillTypeOK
<1>4. crossed' \subseteq Tenants
    BY <1>1, RunFacts DEF EndRun, BillTypeOK, HoldsRows
<1>5. BillTypeOK'
    BY <1>1, <1>2, <1>3, <1>4 DEF BillTypeOK
<1>6. HoldsRows'
    BY <1>1, <1>2, <1>3 DEF HoldsRows
<1>7. QED
    BY <1>2, <1>5, <1>6, AsideBillingInv

\* The rows the job writes: after a charge approved, and after one declined.
RenewRow(t) == [status |-> "active", plan |-> subs[t].plan, start |-> job.run.rows[t].end,
                end |-> job.run.rows[t].end + Days(PeriodDays), since |-> NoTime]
DueSince(t) == PastDueSince(job.run.rows[t], job.run.at)
DueRow(t) == [subs[t] EXCEPT !.status = "past_due", !.since = DueSince(t)]

LEMMA JobRows ==
    ASSUME BillTypeOK, HoldsRows, job.run # NoRun, NEW t \in job.run.due
    PROVE  /\ RenewRow(t) \in Subscription /\ RenewRow(t).status = "active"
           /\ RenewRow(t).start = job.run.rows[t].end /\ RenewRow(t).since = NoTime
           /\ RenewRow(t).start < RenewRow(t).end
           /\ DueRow(t) \in Subscription /\ DueRow(t).status = "past_due"
           /\ DueRow(t).since = DueSince(t) /\ DueSince(t) \in Nat
           /\ DueRow(t).start = subs[t].start /\ DueRow(t).end = subs[t].end
           /\ job.run.rows[t].since = NoTime => DueSince(t) = job.run.at
           /\ job.run.rows[t].since # NoTime => DueSince(t) = job.run.rows[t].since
<1>1. job.run.rows[t] \in Subscription /\ subs[t] \in Subscription /\ job.run.at \in Nat
    BY RunFacts
<1>2. job.run.rows[t].end \in Nat /\ job.run.rows[t].since \in Moments /\ subs[t].plan \in Plans
    BY <1>1 DEF Subscription
<1>3. /\ job.run.rows[t].end + Days(PeriodDays) \in Nat
      /\ job.run.rows[t].end < job.run.rows[t].end + Days(PeriodDays)
    BY <1>2, DaysTyped
<1>4. RenewRow(t) \in Subscription
    BY <1>2, <1>3 DEF RenewRow, Subscription, Moments
<1>5. DueSince(t) \in Nat /\ DueSince(t) \in Moments
    BY <1>1, <1>2 DEF DueSince, PastDueSince, Moments
<1>6. /\ DueRow(t) \in Subscription /\ DueRow(t).status = "past_due"
      /\ DueRow(t).since = DueSince(t)
      /\ DueRow(t).start = subs[t].start /\ DueRow(t).end = subs[t].end
    BY <1>1, <1>5 DEF DueRow, Subscription
<1>7. QED
    BY <1>3, <1>4, <1>5, <1>6 DEF RenewRow, DueSince, PastDueSince

LEMMA NextRowJob ==
    ASSUME NEW t \in Tenants, NextRow(t)
    PROVE  /\ job' = [job EXCEPT !.run.due = @ \ {t}, !.run.answered = [tenant |-> "none"]]
           /\ crossed' = Crossed(t, Payers, FALSE)
           /\ UNCHANGED <<clock, pays, renewals>>
BY DEF NextRow

LEMMA RecordBillingInv ==
    ASSUME BillingInv, NEW t \in Tenants, Renew(t) \/ MarkPastDue(t)
    PROVE  BillingInv'
<1>1. BillTypeOK /\ HoldsRows /\ job.run # NoRun
    BY DEF BillingInv, Renew, MarkPastDue, Answered
<1>2. t \in job.run.due /\ job.run.at \in Nat /\ job.run.rows[t] \in Subscription
    BY <1>1, RunFacts DEF Renew, MarkPastDue
<1>3. subs[t] # NoSub /\ tenants[t] # NoTenant
    BY <1>1, <1>2 DEF HoldsRows
<1>4. NextRow(t)
    BY DEF Renew, MarkPastDue
<1>5. crossed' \subseteq Tenants
  <2>1. crossed' = Crossed(t, Payers, FALSE)
      BY <1>4 DEF NextRow
  <2>2. Crossed(t, Payers, FALSE) \subseteq Tenants
      BY <1>1, CrossedTyped
  <2>3. QED
      BY <2>1, <2>2
<1>6. CASE Renew(t)
  <2>1. /\ Stand(t, "active", RenewRow(t))
        /\ invoices' = [invoices EXCEPT ![t] = Append(@, Invoice("paid", RenewRow(t), job.run.at))]
      BY <1>6 DEF Renew, RenewRow
  <2>2. RenewRow(t) \in Subscription /\ RenewRow(t).status = "active"
      BY <1>1, <1>2, JobRows
  <2>3. invoices' \in [Tenants -> Seq(InvoiceRow)]
      BY <1>1, <1>2, <2>1, <2>2, InvoiceTyped, AppendTyped
  <2>4. QED
      BY <1>3, <1>4, <1>5, <2>1, <2>2, <2>3, NextRowJob, StandBillingInv
<1>7. CASE MarkPastDue(t)
  <2> DEFINE status == IF GraceExpired(DueSince(t), job.run.at) THEN "blocked" ELSE "past_due"
  <2>1. /\ Stand(t, status, DueRow(t))
        /\ invoices' = [invoices EXCEPT ![t] = Append(@, Invoice("failed", job.run.rows[t], job.run.at))]
      BY <1>7 DEF MarkPastDue, DueRow, DueSince
  <2>2. DueRow(t) \in Subscription /\ DueRow(t).status = "past_due"
        /\ status \in {"past_due", "blocked"}
      BY <1>1, <1>2, JobRows
  <2>3. invoices' \in [Tenants -> Seq(InvoiceRow)]
      BY <1>1, <1>2, <2>1, InvoiceTyped, AppendTyped
  <2> HIDE DEF status
  <2>4. QED
      BY <1>3, <1>4, <1>5, <2>1, <2>2, <2>3, NextRowJob, StandBillingInv
<1>8. QED
    BY <1>6, <1>7

LEMMA StutterBillingInv == ASSUME BillingInv, UNCHANGED billVars PROVE BillingInv'
<1>1. UNCHANGED <<clock, tenants, subs, invoices, job, pays, renewals, crossed>>
    BY DEF billVars
<1>2. BillTypeOK'
    BY <1>1 DEF BillingInv, BillTypeOK
<1>3. HoldsRows'
    BY <1>1 DEF BillingInv, HoldsRows
<1>4. QED
    BY <1>1, <1>2, <1>3, AsideBillingInv

LEMMA NextBillingInv == BillingInv /\ [BillNext]_billVars => BillingInv'
<1> SUFFICES ASSUME BillingInv, [BillNext]_billVars PROVE BillingInv'
    OBVIOUS
<1>1. CASE Tick
    BY <1>1, TickBillingInv
<1>2. CASE ExpireTrials \/ \E t \in Tenants : OpenTrial(t)
    BY <1>2, TrialsBillingInv
<1>3. CASE Nightly
    BY <1>3, StartRunBillingInv, EndRunBillingInv, ChargeBillingInv, RecordBillingInv DEF Nightly
<1>4. ASSUME NEW p \in Payers, ServePayer(p) PROVE BillingInv'
  <2>1. CASE FailPay(p)
    <3>1. BillTypeOK
        BY DEF BillingInv
    <3>2. pays[p].tenant \in Tenants
        BY <2>1, <3>1, PayFacts DEF FailPay
    <3>3. QED
        BY <2>1, <3>2, AskBillingInv
  <2>2. QED
      BY <1>4, <2>1, ActivateBillingInv, CancelBillingInv DEF ServePayer
<1>5. ASSUME NEW p \in Payers, NEW t \in Tenants, Ask(p, t) PROVE BillingInv'
    BY <1>5, AskBillingInv
<1>6. CASE UNCHANGED billVars
    BY <1>6, StutterBillingInv
<1>7. QED
    BY <1>1, <1>2, <1>3, <1>4, <1>5, <1>6 DEF BillNext

-----------------------------------------------------------------------------
(* What a tenant stands for is what it paid. *)

\* Invoice i is the last paid one of s, none of them if it is 0.
LastPaidIs(s, i) ==
    /\ i \in 0..Len(s) /\ (i > 0 => s[i].status = "paid")
    /\ \A j \in (i + 1)..Len(s) : s[j].status = "failed"

\* The row is for the period of invoice i.
PeriodOf(row, s, i) ==
    row # NoSub => /\ i > 0 /\ row.start = s[i].start /\ row.end = s[i].end
                   /\ row.start < row.end

\* The status follows from the tries after invoice i.
StatusOf(row, standing, s, i) ==
    /\ row.status = "active" => row.since = NoTime /\ i = Len(s)
    /\ row.status = "past_due" =>
          /\ i < Len(s) /\ row.since = s[i + 1].tried
          /\ standing = "blocked" <=> s[Len(s)].tried - row.since > Days(GraceDays)

\* The approved charges r of the job are for periods that are over, each after
\* the one before; what is paid is recorded, and the period begun, but for the
\* last one while it is pending.
ChargesOf(r, row, s, pending) ==
    \A n \in 1..Len(r) :
        /\ row # NoSub
        /\ \A m \in 1..(n - 1) : r[m] < r[n]
        /\ \/ /\ \E k \in 1..Len(s) : s[k].status = "paid" /\ s[k].start = r[n]
              /\ r[n] <= row.start
           \/ n = Len(r) /\ pending /\ r[n] = row.end

EarnedBy(row, standing, s, r, pending) ==
    /\ ChargesOf(r, row, s, pending)
    /\ \E i \in 0..Len(s) : /\ LastPaidIs(s, i) /\ PeriodOf(row, s, i)
                            /\ StatusOf(row, standing, s, i)

\* The job charges the row as it is, of a period that is over.
HeldAsRead(t) ==
    HeldByJob(t) => /\ job.run.rows[t] = subs[t] /\ subs[t].status \in {"active", "past_due"}
                    /\ subs[t].end <= job.run.at

\* A tenant whose writers have not crossed.
Earned(t) ==
    /\ EarnedBy(subs[t], tenants[t].status, invoices[t], renewals[t], Answered(t, TRUE))
    /\ HeldAsRead(t)
    /\ \A n \in 1..Len(renewals[t]) : renewals[t][n] <= clock

EarnedInv == BillingInv /\ \A t \in Tenants \ crossed : Earned(t)

Rows0 == {NoSub} \cup Subscription

LEMMA InvoiceFields ==
    ASSUME NEW s \in Seq(InvoiceRow), NEW i \in 1..Len(s)
    PROVE  /\ s[i].status \in {"paid", "failed"}
           /\ s[i].start \in Nat /\ s[i].end \in Nat /\ s[i].tried \in Nat
<1>1. s[i] \in InvoiceRow
    OBVIOUS
<1>2. QED
    BY <1>1 DEF InvoiceRow

\* The last paid invoice is PaidAt.
LEMMA PaidAtIs ==
    ASSUME NEW t \in Tenants, invoices[t] \in Seq(InvoiceRow), NEW i, LastPaidIs(invoices[t], i)
    PROVE  PaidAt(t) = i
<1> DEFINE s == invoices[t]
           P(k) == /\ k > 0 => s[k].status = "paid"
                   /\ \A j \in (k + 1)..Len(s) : s[j].status = "failed"
<1>1. Len(s) \in Nat /\ i \in 0..Len(s) /\ P(i)
    BY DEF LastPaidIs
<1>2. ASSUME NEW k \in 0..Len(s), P(k) PROVE k = i
  <2>1. k < i => s[i].status = "failed" /\ s[i].status = "paid"
      BY <1>1, <1>2
  <2>2. i < k => s[k].status = "failed" /\ s[k].status = "paid"
      BY <1>1, <1>2
  <2>3. QED
      BY <1>1, <2>1, <2>2
<1>3. PaidAt(t) = CHOOSE k \in 0..Len(s) : P(k)
    BY DEF PaidAt
<1> HIDE DEF P, s
<1>4. QED
    BY <1>1, <1>2, <1>3

\* A paid invoice is the last paid one; a failed one leaves the last paid one.
LEMMA AppendPaid ==
    ASSUME NEW s \in Seq(InvoiceRow), NEW invoice \in InvoiceRow
    PROVE  /\ Append(s, invoice) \in Seq(InvoiceRow) /\ Len(Append(s, invoice)) = Len(s) + 1
           /\ Append(s, invoice)[Len(s) + 1] = invoice
           /\ \A i \in 1..Len(s) : Append(s, invoice)[i] = s[i]
           /\ invoice.status = "paid" => LastPaidIs(Append(s, invoice), Len(s) + 1)
           /\ invoice.status = "failed" =>
                 \A i : LastPaidIs(s, i) => LastPaidIs(Append(s, invoice), i)
<1> DEFINE a == Append(s, invoice)
<1>1. /\ a \in Seq(InvoiceRow) /\ Len(a) = Len(s) + 1 /\ a[Len(s) + 1] = invoice
      /\ \A i \in 1..Len(s) : a[i] = s[i]
    OBVIOUS
<1>2. Len(s) \in Nat
    OBVIOUS
<1> HIDE DEF a
<1>3. invoice.status = "paid" => LastPaidIs(a, Len(s) + 1)
    BY <1>1, <1>2 DEF LastPaidIs
<1>4. ASSUME invoice.status = "failed", NEW i, LastPaidIs(s, i) PROVE LastPaidIs(a, i)
  <2>1. i \in 0..Len(s)
      BY <1>4 DEF LastPaidIs
  <2>2. i \in 0..Len(a) /\ (i > 0 => a[i].status = "paid")
      BY <1>1, <1>2, <1>4, <2>1 DEF LastPaidIs
  <2>3. ASSUME NEW j \in (i + 1)..Len(a) PROVE a[j].status = "failed"
    <3>1. j \in (i + 1)..Len(s) \/ j = Len(s) + 1
        BY <1>1, <1>2, <2>1
    <3>2. CASE j = Len(s) + 1
        BY <1>1, <1>4, <3>2
    <3>3. CASE j \in (i + 1)..Len(s)
        BY <1>1, <1>2, <1>4, <2>1, <3>3 DEF LastPaidIs
    <3>4. QED
        BY <3>1, <3>2, <3>3
  <2>4. QED
      BY <2>2, <2>3 DEF LastPaidIs
<1>5. QED
    BY <1>1, <1>3, <1>4 DEF a

\* A new period: the invoice of it, and all that is charged recorded and before it.
LEMMA PeriodBegins ==
    ASSUME NEW s \in Seq(InvoiceRow), NEW r \in Seq(Nat), NEW old \in Rows0,
           NEW pending \in BOOLEAN, ChargesOf(r, old, s, pending),
           NEW row \in Subscription, row.status = "active", row.since = NoTime,
           row.start < row.end,
           NEW invoice \in InvoiceRow, invoice.status = "paid",
           invoice.start = row.start, invoice.end = row.end,
           \A n \in 1..Len(r) : r[n] <= row.start,
           pending => row.start = old.end,
           NEW standing
    PROVE  EarnedBy(row, standing, Append(s, invoice), r, FALSE)
<1> DEFINE a == Append(s, invoice)
           i == Len(s) + 1
<1>1. /\ Len(a) = i /\ a[i] = invoice /\ LastPaidIs(a, i)
      /\ \A k \in 1..Len(s) : a[k] = s[k]
    BY AppendPaid
<1>2. Len(s) \in Nat /\ i \in 1..Len(a) /\ i \in 0..Len(a) /\ i > 0
    BY <1>1
<1> HIDE DEF a, i
<1>3. row # NoSub
    BY DEF NoSub, Subscription
<1>4. PeriodOf(row, a, i) /\ StatusOf(row, standing, a, i)
    BY <1>1, <1>2 DEF PeriodOf, StatusOf
<1>5. ASSUME NEW n \in 1..Len(r)
      PROVE  /\ \A m \in 1..(n - 1) : r[m] < r[n]
             /\ \E k \in 1..Len(a) : a[k].status = "paid" /\ a[k].start = r[n]
             /\ r[n] <= row.start
  <2>1. CASE \E k \in 1..Len(s) : s[k].status = "paid" /\ s[k].start = r[n]
    <3>1. PICK k \in 1..Len(s) : s[k].status = "paid" /\ s[k].start = r[n]
        BY <2>1
    <3>2. k \in 1..Len(a) /\ a[k] = s[k]
        BY <1>1, <1>2 DEF i
    <3>3. QED
        BY <3>1, <3>2 DEF ChargesOf
  <2>2. CASE pending /\ r[n] = old.end
      BY <1>1, <1>2, <2>2 DEF ChargesOf
  <2>3. QED
      BY <2>1, <2>2 DEF ChargesOf
<1>6. ChargesOf(r, row, a, FALSE)
    BY <1>3, <1>5 DEF ChargesOf
<1>7. QED
    BY <1>1, <1>2, <1>4, <1>6 DEF EarnedBy, a

\* The charge of the period that follows.
LEMMA PeriodCharged ==
    ASSUME NEW s \in Seq(InvoiceRow), NEW r \in Seq(Nat), NEW row \in Subscription, NEW standing,
           EarnedBy(row, standing, s, r, FALSE)
    PROVE  EarnedBy(row, standing, s, Append(r, row.end), TRUE)
<1> DEFINE a == Append(r, row.end)
<1>1. row.end \in Nat /\ row.start \in Nat /\ row # NoSub
    BY DEF Subscription, NoSub
<1>2. /\ Len(r) \in Nat /\ Len(a) = Len(r) + 1 /\ a[Len(r) + 1] = row.end
      /\ \A n \in 1..Len(r) : a[n] = r[n] /\ r[n] \in Nat
    BY <1>1
<1> HIDE DEF a
<1>3. row.start < row.end
    BY <1>1 DEF EarnedBy, PeriodOf
<1>4. \A n \in 1..Len(r) : r[n] <= row.start
    BY DEF EarnedBy, ChargesOf
<1>5. ASSUME NEW n \in 1..Len(a)
      PROVE  /\ \A m \in 1..(n - 1) : a[m] < a[n]
             /\ \/ /\ \E k \in 1..Len(s) : s[k].status = "paid" /\ s[k].start = a[n]
                   /\ a[n] <= row.start
                \/ n = Len(a) /\ a[n] = row.end
  <2>1. CASE n \in 1..Len(r)
    <3>1. /\ \A m \in 1..(n - 1) : r[m] < r[n]
          /\ \E k \in 1..Len(s) : s[k].status = "paid" /\ s[k].start = r[n]
          /\ r[n] <= row.start
        BY <2>1 DEF EarnedBy, ChargesOf
    <3>2. \A m \in 1..n : a[m] = r[m]
        BY <1>2, <2>1
    <3>3. n \in 1..n /\ \A m \in 1..(n - 1) : m \in 1..n
        BY <2>1
    <3>4. QED
        BY <3>1, <3>2, <3>3
  <2>2. CASE n = Len(r) + 1
    <3>1. ASSUME NEW m \in 1..(n - 1) PROVE a[m] < a[n]
      <4>1. m \in 1..Len(r)
          BY <1>2, <2>2
      <4>2. a[m] = r[m] /\ r[m] \in Nat /\ r[m] <= row.start /\ a[n] = row.end
          BY <1>2, <1>4, <2>2, <4>1
      <4>3. QED
          BY <1>1, <1>3, <4>2
    <3>2. QED
        BY <1>2, <2>2, <3>1
  <2>3. n \in 1..Len(r) \/ n = Len(r) + 1
      BY <1>2
  <2>4. QED
      BY <2>1, <2>2, <2>3
<1>6. ChargesOf(a, row, s, TRUE)
    BY <1>1, <1>5 DEF ChargesOf
<1>7. QED
    BY <1>6 DEF EarnedBy, a

\* A charge declined.
LEMMA PeriodDeclined ==
    ASSUME NEW s \in Seq(InvoiceRow), NEW r \in Seq(Nat), NEW old \in Subscription, NEW before,
           EarnedBy(old, before, s, r, FALSE), old.status = "active" \/ old.status = "past_due",
           NEW row \in Subscription, row.status = "past_due",
           row.start = old.start, row.end = old.end,
           NEW invoice \in InvoiceRow, invoice.status = "failed",
           old.since = NoTime => row.since = invoice.tried,
           old.since # NoTime => row.since = old.since,
           NEW standing,
           standing = "blocked" <=> invoice.tried - row.since > Days(GraceDays)
    PROVE  EarnedBy(row, standing, Append(s, invoice), r, FALSE)
<1> DEFINE a == Append(s, invoice)
<1>1. PICK i \in 0..Len(s) : LastPaidIs(s, i) /\ PeriodOf(old, s, i) /\ StatusOf(old, before, s, i)
    BY DEF EarnedBy
<1>2. old # NoSub /\ row # NoSub
    BY DEF Subscription, NoSub
<1>3. i > 0
    BY <1>1, <1>2 DEF PeriodOf
<1>4. /\ Len(s) \in Nat /\ Len(a) = Len(s) + 1 /\ a[Len(s) + 1] = invoice /\ LastPaidIs(a, i)
      /\ \A k \in 1..Len(s) : a[k] = s[k]
    BY <1>1, AppendPaid
<1> HIDE DEF a
<1>5. i \in 0..Len(a) /\ i < Len(a) /\ a[i] = s[i]
    BY <1>3, <1>4
<1>6. PeriodOf(row, a, i)
    BY <1>1, <1>2, <1>5 DEF PeriodOf
<1>7. row.since = a[i + 1].tried
  <2>1. CASE old.status = "active"
    <3>1. old.since = NoTime /\ i = Len(s)
        BY <1>1, <2>1 DEF StatusOf
    <3>2. QED
        BY <1>4, <3>1
  <2>2. CASE old.status = "past_due"
    <3>1. i < Len(s) /\ old.since = s[i + 1].tried
        BY <1>1, <2>2 DEF StatusOf
    <3>2. i + 1 \in 1..Len(s)
        BY <1>4, <3>1
    <3>3. s[i + 1].tried \in Nat
        BY <3>2, InvoiceFields
    <3>4. QED
        BY <1>4, <3>1, <3>2, <3>3 DEF NoTime
  <2>3. QED
      BY <2>1, <2>2
<1>8. StatusOf(row, standing, a, i)
    BY <1>4, <1>5, <1>7 DEF StatusOf
<1>9. ChargesOf(r, row, a, FALSE)
  <2>1. ASSUME NEW n \in 1..Len(r)
        PROVE  /\ \A m \in 1..(n - 1) : r[m] < r[n]
               /\ \E k \in 1..Len(a) : a[k].status = "paid" /\ a[k].start = r[n]
               /\ r[n] <= row.start
    <3>1. PICK k \in 1..Len(s) : s[k].status = "paid" /\ s[k].start = r[n]
        BY DEF EarnedBy, ChargesOf
    <3>2. k \in 1..Len(a) /\ a[k] = s[k]
        BY <1>4
    <3>3. QED
        BY <3>1, <3>2 DEF EarnedBy, ChargesOf
  <2>2. QED
      BY <1>2, <2>1 DEF ChargesOf
<1>10. QED
    BY <1>4, <1>5, <1>6, <1>8, <1>9 DEF EarnedBy, a

\* What is not in force only keeps its period.
LEMMA PeriodCanceled ==
    ASSUME NEW s \in Seq(InvoiceRow), NEW r \in Seq(Nat), NEW old \in Subscription, NEW before,
           EarnedBy(old, before, s, r, FALSE),
           NEW row \in Subscription, row.status = "canceled",
           row.start = old.start, row.end = old.end, NEW standing
    PROVE  EarnedBy(row, standing, s, r, FALSE)
<1>1. old # NoSub /\ row # NoSub
    BY DEF Subscription, NoSub
<1>2. ChargesOf(r, row, s, FALSE)
    BY <1>1 DEF EarnedBy, ChargesOf
<1>3. QED
    BY <1>1, <1>2 DEF EarnedBy, PeriodOf, StatusOf

-----------------------------------------------------------------------------
(* The steps. *)

LEMMA EarnedFacts ==
    ASSUME EarnedInv
    PROVE  /\ BillingInv /\ BillTypeOK /\ HoldsRows /\ StatusesAgree
           /\ \A t \in Tenants :
                 /\ t \notin crossed => Earned(t)
                 /\ Answered(t, TRUE) => HeldByJob(t)
<1>1. BillingInv /\ BillTypeOK /\ HoldsRows /\ StatusesAgree
    BY DEF EarnedInv, BillingInv
<1>2. \A t \in Tenants : Answered(t, TRUE) => HeldByJob(t)
    BY <1>1, RunFacts DEF Answered, HeldByJob
<1>3. QED
    BY <1>1, <1>2 DEF EarnedInv

\* A step that leaves the rows of t alone.
LEMMA KeepsEarned ==
    ASSUME NEW t \in Tenants, Earned(t), BillTypeOK, BillTypeOK',
           subs'[t] = subs[t], invoices'[t] = invoices[t], renewals'[t] = renewals[t],
           tenants'[t].status = tenants[t].status \/ subs[t].status # "past_due",
           clock <= clock', Answered(t, TRUE)' <=> Answered(t, TRUE), HeldAsRead(t)'
    PROVE  Earned(t)'
<1>1. EarnedBy(subs[t], tenants[t].status, invoices[t], renewals[t], Answered(t, TRUE))
    BY DEF Earned
<1>2. ChargesOf(renewals[t], subs[t], invoices[t], Answered(t, TRUE))'
    BY <1>1 DEF EarnedBy, ChargesOf
<1>3. PICK i \in 0..Len(invoices[t]) :
         /\ LastPaidIs(invoices[t], i) /\ PeriodOf(subs[t], invoices[t], i)
         /\ StatusOf(subs[t], tenants[t].status, invoices[t], i)
    BY <1>1 DEF EarnedBy
<1>4. StatusOf(subs'[t], tenants'[t].status, invoices'[t], i)
    BY <1>3 DEF StatusOf
<1>5. EarnedBy(subs[t], tenants[t].status, invoices[t], renewals[t], Answered(t, TRUE))'
    BY <1>2, <1>3, <1>4 DEF EarnedBy
<1>6. \A n \in 1..Len(renewals'[t]) : renewals'[t][n] <= clock'
  <2>1. renewals[t] \in Seq(Nat) /\ clock \in Nat /\ clock' \in Nat
      BY DEF BillTypeOK
  <2>2. ASSUME NEW n \in 1..Len(renewals[t]) PROVE renewals[t][n] <= clock'
    <3>1. renewals[t][n] \in Nat
        BY <2>1
    <3>2. renewals[t][n] <= clock
        BY DEF Earned
    <3>3. QED
        BY <2>1, <3>1, <3>2
  <2>3. QED
      BY <2>2
<1>7. QED
    BY <1>5, <1>6 DEF Earned

\* What the writer of t leaves.
LEMMA EarnedFrom ==
    ASSUME NEW t \in Tenants, NEW row, NEW standing, NEW s, NEW r, EarnedBy(row, standing, s, r, FALSE),
           subs'[t] = row, tenants'[t].status = standing, invoices'[t] = s, renewals'[t] = r,
           ~ HeldByJob(t)', \A n \in 1..Len(r) : r[n] <= clock'
    PROVE  Earned(t)'
<1>1. \A pending \in BOOLEAN : EarnedBy(row, standing, s, r, pending)
    BY DEF EarnedBy, ChargesOf
<1>2. Answered(t, TRUE)' \in BOOLEAN
    BY Zenon DEF Answered
<1>3. EarnedBy(subs[t], tenants[t].status, invoices[t], renewals[t], Answered(t, TRUE))'
    BY <1>1, <1>2
<1>4. QED
    BY <1>3 DEF Earned, HeldAsRead

\* A step that writes no subscription.
LEMMA AsideEarnedInv ==
    ASSUME EarnedInv, BillingInv', UNCHANGED <<subs, invoices, renewals, job, crossed>>,
           clock <= clock',
           \A t \in Tenants : tenants'[t].status = tenants[t].status \/ subs[t].status # "past_due"
    PROVE  EarnedInv'
<1>1. SUFFICES ASSUME NEW t \in Tenants, t \notin crossed PROVE Earned(t)'
    BY DEF EarnedInv
<1>2. Earned(t) /\ BillTypeOK /\ BillTypeOK'
    BY <1>1, EarnedFacts DEF BillingInv
<1>3. Answered(t, TRUE)' <=> Answered(t, TRUE)
    BY DEF Answered
<1>4. HeldAsRead(t)'
    BY <1>2 DEF Earned, HeldAsRead, HeldByJob
<1>5. QED
    BY <1>2, <1>3, <1>4, KeepsEarned

\* A step of a writer of t.
LEMMA WriterEarnedInv ==
    ASSUME EarnedInv, BillingInv', NEW t \in Tenants,
           \A u \in Tenants \ {t} : /\ subs'[u] = subs[u] /\ tenants'[u] = tenants[u]
                                    /\ invoices'[u] = invoices[u],
           clock' = clock, renewals' = renewals, crossed \subseteq crossed',
           job' = job \/ ((Answered(t, TRUE) \/ Answered(t, FALSE)) /\ NextRow(t)),
           t \notin crossed' => Earned(t)'
    PROVE  EarnedInv'
<1>1. SUFFICES ASSUME NEW u \in Tenants \ {t}, u \notin crossed PROVE Earned(u)'
    BY DEF EarnedInv
<1>2. Earned(u) /\ BillTypeOK /\ BillTypeOK' /\ HoldsRows
    BY <1>1, EarnedFacts DEF BillingInv
<1>3. (Answered(u, TRUE)' <=> Answered(u, TRUE)) /\ HeldAsRead(u)'
  <2>1. CASE job' = job
      BY <1>2, <2>1 DEF Answered, Earned, HeldAsRead, HeldByJob
  <2>2. CASE /\ Answered(t, TRUE) \/ Answered(t, FALSE)
             /\ NextRow(t)
    <3>1. job.run \in Run /\ job \in [run : {NoRun} \cup Run, lastDay : Moments]
        BY <1>2, <2>2, RunFacts DEF Answered, BillTypeOK
    <3>2. job' = [job EXCEPT !.run.due = @ \ {t}, !.run.answered = [tenant |-> "none"]]
        BY <2>2 DEF NextRow
    <3>3. /\ job'.run.due = job.run.due \ {t} /\ job'.run.answered = [tenant |-> "none"]
          /\ job'.run.at = job.run.at /\ job'.run.rows = job.run.rows
        BY <3>1, <3>2 DEF Run
    <3>4. job.run.answered.tenant = t /\ job.run # NoRun
        BY <2>2 DEF Answered
    <3>5. ~ Answered(u, TRUE) /\ ~ Answered(u, TRUE)'
        BY <3>3, <3>4, BillingAssumption DEF Answered
    <3>6. HeldAsRead(u)'
        BY <1>2, <3>3, <3>4 DEF Earned, HeldAsRead, HeldByJob
    <3>7. QED
        BY <3>5, <3>6
  <2>3. QED
      BY <2>1, <2>2
<1>4. clock <= clock'
    BY <1>2 DEF BillTypeOK
<1>5. QED
    BY <1>1, <1>2, <1>3, <1>4, KeepsEarned

LEMMA ActivateEarnedInv ==
    ASSUME EarnedInv, NEW p \in Payers, Activate(p), NEW t \in Tenants, pays[p].tenant = t
    PROVE  EarnedInv'
<1> DEFINE row == PayRow(p)
           invoice == Invoice("paid", row, clock)
<1>1. /\ BillingInv /\ BillTypeOK /\ HoldsRows /\ BillingInv'
      /\ pays[p] # NoPay /\ pays[p].step = "subscribe"
  <2>1. BillingInv /\ BillTypeOK /\ HoldsRows
      BY EarnedFacts
  <2>2. BillingInv'
      BY <2>1, ActivateBillingInv
  <2>3. pays[p] # NoPay /\ pays[p].step = "subscribe"
      BY DEF Activate, NoPay
  <2>4. QED
      BY <2>1, <2>2, <2>3
<1>2. tenants[t] # NoTenant /\ clock \in Nat
    BY <1>1 DEF HoldsRows, BillTypeOK
<1>3. /\ row \in Subscription /\ row.status = "active" /\ row.since = NoTime
      /\ row.start = clock /\ row.start < row.end
    BY <1>1, PayRowTyped
<1>4. /\ Stand(t, "active", row) /\ clock' = clock /\ renewals' = renewals /\ job' = job
      /\ invoices' = [invoices EXCEPT ![t] = Append(@, invoice)]
      /\ crossed' = Crossed(t, Payers \ {p}, TRUE)
    BY DEF Activate, PayRow
<1>5. /\ invoice \in InvoiceRow /\ invoice.status = "paid"
      /\ invoice.start = row.start /\ invoice.end = row.end
    BY <1>2, <1>3, InvoiceTyped
<1> HIDE DEF row, invoice
<1>6. /\ subs'[t] = row /\ tenants'[t].status = "active"
      /\ \A u \in Tenants \ {t} : subs'[u] = subs[u] /\ tenants'[u] = tenants[u]
    BY <1>1, <1>2, <1>3, <1>4, StandFacts
<1>7. /\ invoices'[t] = Append(invoices[t], invoice)
      /\ \A u \in Tenants \ {t} : invoices'[u] = invoices[u]
    BY <1>1, <1>2, <1>4 DEF BillTypeOK
<1>8. crossed \subseteq crossed'
    BY <1>4 DEF Crossed
<1>9. ASSUME t \notin crossed' PROVE Earned(t)'
  <2>1. ~ HeldByJob(t) /\ t \notin crossed
      BY <1>4, <1>9 DEF Crossed
  <2>2. ~ Answered(t, TRUE) /\ Earned(t)
      BY <1>2, <2>1, EarnedFacts
  <2>3. ~ Answered(t, TRUE)' /\ ~ HeldByJob(t)'
      BY <1>4, <2>1, <2>2 DEF Answered, HeldByJob
  <2>4. invoices[t] \in Seq(InvoiceRow) /\ renewals[t] \in Seq(Nat) /\ subs[t] \in Rows0
      BY <1>1, <1>2 DEF BillTypeOK, Rows0
  <2>5. ChargesOf(renewals[t], subs[t], invoices[t], FALSE)
      BY <2>2 DEF Earned, EarnedBy, ChargesOf
  <2>6. \A n \in 1..Len(renewals[t]) : renewals[t][n] <= clock
      BY <2>2 DEF Earned
  <2>7. EarnedBy(row, "active", Append(invoices[t], invoice), renewals[t], FALSE)
      BY <1>3, <1>5, <2>4, <2>5, <2>6, PeriodBegins
  <2>8. QED
      BY <1>4, <1>6, <1>7, <2>3, <2>6, <2>7, EarnedFrom
<1>10. \A u \in Tenants \ {t} : /\ subs'[u] = subs[u] /\ tenants'[u] = tenants[u]
                                 /\ invoices'[u] = invoices[u]
    BY <1>6, <1>7
<1>11. BillingInv' /\ clock' = clock /\ renewals' = renewals /\ job' = job
    BY <1>1, <1>4
<1>12. job' = job \/ ((Answered(t, TRUE) \/ Answered(t, FALSE)) /\ NextRow(t))
    BY <1>11
<1>13. t \notin crossed' => Earned(t)'
    BY <1>9
<1>14. QED
    BY <1>8, <1>10, <1>11, <1>12, <1>13, WriterEarnedInv

LEMMA CancelEarnedInv ==
    ASSUME EarnedInv, NEW p \in Payers, CancelSubscription(p), NEW t \in Tenants, pays[p].tenant = t
    PROVE  EarnedInv'
<1> DEFINE row == [subs[t] EXCEPT !.status = "canceled"]
<1>1. /\ BillingInv /\ BillTypeOK /\ HoldsRows /\ BillingInv'
      /\ pays[p] # NoPay /\ pays[p].step = "cancel"
  <2>1. BillingInv /\ BillTypeOK /\ HoldsRows
      BY EarnedFacts
  <2>2. BillingInv'
      BY <2>1, CancelBillingInv
  <2>3. pays[p] # NoPay /\ pays[p].step = "cancel"
      BY DEF CancelSubscription, NoPay
  <2>4. QED
      BY <2>1, <2>2, <2>3
<1>2. tenants[t] # NoTenant /\ subs[t] \in Subscription
    BY <1>1, BillRows DEF HoldsRows
<1>3. /\ row \in Subscription /\ row.status = "canceled"
      /\ row.start = subs[t].start /\ row.end = subs[t].end
    BY <1>2 DEF Subscription
<1>4. /\ Stand(t, "canceled", row) /\ clock' = clock /\ renewals' = renewals /\ job' = job
      /\ invoices' = invoices /\ crossed' = Crossed(t, Payers \ {p}, TRUE)
    BY DEF CancelSubscription
<1> HIDE DEF row
<1>5. /\ subs'[t] = row /\ tenants'[t].status = "canceled"
      /\ \A u \in Tenants \ {t} : subs'[u] = subs[u] /\ tenants'[u] = tenants[u]
    BY <1>1, <1>2, <1>3, <1>4, StandFacts
<1>6. crossed \subseteq crossed'
    BY <1>4 DEF Crossed
<1>7. ASSUME t \notin crossed' PROVE Earned(t)'
  <2>1. ~ HeldByJob(t) /\ t \notin crossed
      BY <1>4, <1>7 DEF Crossed
  <2>2. ~ Answered(t, TRUE) /\ Earned(t)
      BY <1>2, <2>1, EarnedFacts
  <2>3. ~ Answered(t, TRUE)' /\ ~ HeldByJob(t)'
      BY <1>4, <2>1, <2>2 DEF Answered, HeldByJob
  <2>4. invoices[t] \in Seq(InvoiceRow) /\ renewals[t] \in Seq(Nat)
      BY <1>1, <1>2 DEF BillTypeOK
  <2>5. EarnedBy(subs[t], tenants[t].status, invoices[t], renewals[t], FALSE)
      BY <2>2 DEF Earned, EarnedBy, ChargesOf
  <2>6. EarnedBy(row, "canceled", invoices[t], renewals[t], FALSE)
      BY <1>2, <1>3, <2>4, <2>5, PeriodCanceled
  <2>7. \A n \in 1..Len(renewals[t]) : renewals[t][n] <= clock
      BY <2>2 DEF Earned
  <2>8. QED
      BY <1>4, <1>5, <2>3, <2>6, <2>7, EarnedFrom
<1>8. \A u \in Tenants \ {t} : /\ subs'[u] = subs[u] /\ tenants'[u] = tenants[u]
                                /\ invoices'[u] = invoices[u]
    BY <1>4, <1>5
<1>9. BillingInv' /\ clock' = clock /\ renewals' = renewals /\ job' = job
    BY <1>1, <1>4
<1>10. job' = job \/ ((Answered(t, TRUE) \/ Answered(t, FALSE)) /\ NextRow(t))
    BY <1>9
<1>11. t \notin crossed' => Earned(t)'
    BY <1>7
<1>12. QED
    BY <1>6, <1>8, <1>9, <1>10, <1>11, WriterEarnedInv

\* What the job holds of a tenant whose writers have not crossed.
LEMMA RecordFacts ==
    ASSUME EarnedInv, NEW t \in Tenants, NEW approved \in BOOLEAN, Answered(t, approved), NextRow(t)
    PROVE  /\ BillTypeOK /\ HoldsRows /\ job.run # NoRun /\ t \in job.run.due
           /\ job.run.at \in Nat /\ job.run.at <= clock /\ clock \in Nat
           /\ job.run.rows[t] \in Subscription /\ subs[t] \in Subscription
           /\ tenants[t] # NoTenant
           /\ clock' = clock /\ renewals' = renewals /\ crossed \subseteq crossed'
           /\ ~ HeldByJob(t)' /\ ~ Answered(t, TRUE)'
           /\ Answered(t, TRUE) <=> approved
           /\ t \notin crossed' => Earned(t) /\ job.run.rows[t] = subs[t]
<1>1. BillTypeOK /\ HoldsRows /\ job.run # NoRun
    BY EarnedFacts DEF Answered
<1>2. /\ t \in job.run.due /\ job.run.at \in Nat /\ job.run.at <= clock
      /\ job.run.rows[t] \in Subscription /\ subs[t] \in Subscription /\ job.run \in Run
    BY <1>1, RunFacts
<1>3. tenants[t] # NoTenant /\ clock \in Nat
    BY <1>1, <1>2 DEF HoldsRows, BillTypeOK, NoSub, Subscription
<1>4. /\ clock' = clock /\ renewals' = renewals /\ crossed' = Crossed(t, Payers, FALSE)
      /\ job' = [job EXCEPT !.run.due = @ \ {t}, !.run.answered = [tenant |-> "none"]]
    BY DEF NextRow
<1>5. crossed \subseteq crossed'
    BY <1>4 DEF Crossed
<1>6. job'.run.due = job.run.due \ {t} /\ job'.run.answered = [tenant |-> "none"]
    BY <1>1, <1>2, <1>4 DEF BillTypeOK, Run
<1>7. ~ HeldByJob(t)' /\ ~ Answered(t, TRUE)'
    BY <1>6, BillingAssumption DEF HeldByJob, Answered
<1>8. Answered(t, TRUE) <=> approved
  <2>1. job.run.answered = [tenant |-> t, approved |-> approved]
      BY DEF Answered
  <2>2. job.run.answered.approved = approved
      BY <2>1
  <2>3. CASE approved = TRUE
      BY <1>1, <2>1, <2>3 DEF Answered
  <2>4. CASE approved = FALSE
      BY <2>2, <2>4 DEF Answered
  <2>5. QED
      BY <2>3, <2>4
<1>9. t \notin crossed' => Earned(t) /\ job.run.rows[t] = subs[t]
    BY <1>1, <1>2, <1>5, EarnedFacts DEF Earned, HeldAsRead, HeldByJob
<1>10. QED
    BY <1>1, <1>2, <1>3, <1>4, <1>5, <1>7, <1>8, <1>9

LEMMA RenewEarnedInv ==
    ASSUME EarnedInv, NEW t \in Tenants, Renew(t)
    PROVE  EarnedInv'
<1> DEFINE row == RenewRow(t)
           invoice == Invoice("paid", row, job.run.at)
<1>1. BillingInv /\ BillingInv' /\ Answered(t, TRUE) /\ NextRow(t)
    BY EarnedFacts, RecordBillingInv DEF Renew
<1>2. /\ BillTypeOK /\ HoldsRows /\ job.run # NoRun /\ t \in job.run.due
      /\ job.run.at \in Nat /\ subs[t] \in Subscription /\ tenants[t] # NoTenant
      /\ clock' = clock /\ renewals' = renewals /\ crossed \subseteq crossed'
      /\ ~ HeldByJob(t)' /\ ~ Answered(t, TRUE)'
      /\ t \notin crossed' => Earned(t) /\ job.run.rows[t] = subs[t]
    BY <1>1, RecordFacts
<1>3. /\ row \in Subscription /\ row.status = "active" /\ row.since = NoTime
      /\ row.start = job.run.rows[t].end /\ row.start < row.end
    BY <1>2, JobRows
<1>4. /\ Stand(t, "active", row)
      /\ invoices' = [invoices EXCEPT ![t] = Append(@, invoice)]
    BY DEF Renew, RenewRow
<1>5. /\ invoice \in InvoiceRow /\ invoice.status = "paid"
      /\ invoice.start = row.start /\ invoice.end = row.end
    BY <1>2, <1>3, InvoiceTyped
<1> HIDE DEF row, invoice
<1>6. /\ subs'[t] = row /\ tenants'[t].status = "active"
      /\ \A u \in Tenants \ {t} : subs'[u] = subs[u] /\ tenants'[u] = tenants[u]
    BY <1>1, <1>2, <1>3, <1>4, StandFacts
<1>7. /\ invoices'[t] = Append(invoices[t], invoice)
      /\ \A u \in Tenants \ {t} : invoices'[u] = invoices[u]
    BY <1>2, <1>4 DEF BillTypeOK
<1>8. ASSUME t \notin crossed' PROVE Earned(t)'
  <2>1. Earned(t) /\ row.start = subs[t].end
      BY <1>2, <1>3, <1>8
  <2>2. invoices[t] \in Seq(InvoiceRow) /\ renewals[t] \in Seq(Nat) /\ subs[t] \in Rows0
      BY <1>2 DEF BillTypeOK, Rows0
  <2>3. ChargesOf(renewals[t], subs[t], invoices[t], TRUE) /\ subs[t].start < subs[t].end
    <3>1. ChargesOf(renewals[t], subs[t], invoices[t], TRUE)
        BY <2>1 DEF Earned, EarnedBy, ChargesOf
    <3>2. subs[t] # NoSub
        BY <1>2 DEF Subscription, NoSub
    <3>3. QED
        BY <2>1, <3>1, <3>2 DEF Earned, EarnedBy, PeriodOf
  <2>4. ASSUME NEW n \in 1..Len(renewals[t]) PROVE renewals[t][n] <= row.start
    <3>1. /\ renewals[t][n] \in Nat /\ subs[t].start \in Nat /\ subs[t].end \in Nat
        BY <1>2, <2>2 DEF Subscription
    <3>2. renewals[t][n] <= subs[t].start \/ renewals[t][n] = subs[t].end
        BY <2>3 DEF ChargesOf
    <3>3. QED
        BY <2>1, <2>3, <3>1, <3>2
  <2>5. EarnedBy(row, "active", Append(invoices[t], invoice), renewals[t], FALSE)
      BY <1>3, <1>5, <2>1, <2>2, <2>3, <2>4, PeriodBegins
  <2>6. \A n \in 1..Len(renewals[t]) : renewals[t][n] <= clock
      BY <2>1 DEF Earned
  <2>7. QED
      BY <1>2, <1>6, <1>7, <2>5, <2>6, EarnedFrom
<1>9. QED
    BY <1>1, <1>2, <1>6, <1>7, <1>8, WriterEarnedInv

LEMMA MarkEarnedInv ==
    ASSUME EarnedInv, NEW t \in Tenants, MarkPastDue(t)
    PROVE  EarnedInv'
<1> DEFINE row == DueRow(t)
           standing == IF GraceExpired(DueSince(t), job.run.at) THEN "blocked" ELSE "past_due"
           invoice == Invoice("failed", job.run.rows[t], job.run.at)
<1>1. BillingInv /\ BillingInv' /\ Answered(t, FALSE) /\ NextRow(t)
    BY EarnedFacts, RecordBillingInv DEF MarkPastDue
<1>2. /\ BillTypeOK /\ HoldsRows /\ job.run # NoRun /\ t \in job.run.due
      /\ job.run.at \in Nat /\ subs[t] \in Subscription /\ tenants[t] # NoTenant
      /\ clock' = clock /\ renewals' = renewals /\ crossed \subseteq crossed'
      /\ ~ HeldByJob(t)' /\ ~ Answered(t, TRUE)' /\ ~ Answered(t, TRUE)
      /\ job.run.rows[t] \in Subscription
      /\ t \notin crossed' => Earned(t) /\ job.run.rows[t] = subs[t]
    BY <1>1, RecordFacts
<1>3. /\ row \in Subscription /\ row.status = "past_due" /\ row.since = DueSince(t)
      /\ row.start = subs[t].start /\ row.end = subs[t].end
      /\ job.run.rows[t].since = NoTime => row.since = job.run.at
      /\ job.run.rows[t].since # NoTime => row.since = job.run.rows[t].since
    BY <1>2, JobRows
<1>4. /\ Stand(t, standing, row)
      /\ invoices' = [invoices EXCEPT ![t] = Append(@, invoice)]
    BY DEF MarkPastDue, DueRow, DueSince
<1>5. invoice \in InvoiceRow /\ invoice.status = "failed" /\ invoice.tried = job.run.at
    BY <1>2, InvoiceTyped
<1>6. /\ standing \in {"past_due", "blocked"}
      /\ standing = "blocked" <=> job.run.at - row.since > Days(GraceDays)
    BY <1>3 DEF GraceExpired
<1> HIDE DEF row, invoice, standing
<1>7. /\ subs'[t] = row /\ tenants'[t].status = standing
      /\ \A u \in Tenants \ {t} : subs'[u] = subs[u] /\ tenants'[u] = tenants[u]
    BY <1>1, <1>2, <1>3, <1>4, <1>6, StandFacts
<1>8. /\ invoices'[t] = Append(invoices[t], invoice)
      /\ \A u \in Tenants \ {t} : invoices'[u] = invoices[u]
    BY <1>2, <1>4 DEF BillTypeOK
<1>9. ASSUME t \notin crossed' PROVE Earned(t)'
  <2>1. Earned(t) /\ job.run.rows[t] = subs[t] /\ subs[t].status \in {"active", "past_due"}
      BY <1>2, <1>9 DEF Earned, HeldAsRead, HeldByJob
  <2>2. invoices[t] \in Seq(InvoiceRow) /\ renewals[t] \in Seq(Nat)
      BY <1>2 DEF BillTypeOK
  <2>3. EarnedBy(subs[t], tenants[t].status, invoices[t], renewals[t], FALSE)
      BY <1>2, <2>1 DEF Earned, EarnedBy, ChargesOf
  <2>4. EarnedBy(row, standing, Append(invoices[t], invoice), renewals[t], FALSE)
    <3>1. /\ subs[t].since = NoTime => row.since = invoice.tried
          /\ subs[t].since # NoTime => row.since = subs[t].since
          /\ standing = "blocked" <=> invoice.tried - row.since > Days(GraceDays)
        BY <1>3, <1>5, <1>6, <2>1
    <3>2. /\ subs[t] \in Subscription
          /\ subs[t].status = "active" \/ subs[t].status = "past_due"
          /\ row \in Subscription /\ row.status = "past_due"
          /\ row.start = subs[t].start /\ row.end = subs[t].end
          /\ invoice \in InvoiceRow /\ invoice.status = "failed"
        BY <1>2, <1>3, <1>5, <2>1
    <3>3. QED
        BY <2>2, <2>3, <3>1, <3>2, PeriodDeclined
  <2>5. \A n \in 1..Len(renewals[t]) : renewals[t][n] <= clock
      BY <2>1 DEF Earned
  <2>6. QED
      BY <1>2, <1>7, <1>8, <2>4, <2>5, EarnedFrom
<1>10. QED
    BY <1>1, <1>2, <1>7, <1>8, <1>9, WriterEarnedInv

LEMMA ChargeEarnedInv ==
    ASSUME EarnedInv, NEW t \in Tenants, NEW approved \in BOOLEAN, Charge(t, approved)
    PROVE  EarnedInv'
<1>1. BillingInv /\ BillTypeOK /\ HoldsRows /\ BillingInv'
    BY EarnedFacts, ChargeBillingInv
<1>2. /\ job.run # NoRun /\ t \in job.run.due /\ job.run.answered.tenant = "none"
      /\ job' = [job EXCEPT !.run.answered = [tenant |-> t, approved |-> approved]]
      /\ UNCHANGED <<clock, tenants, subs, invoices, pays, crossed>>
      /\ renewals' = IF approved
                     THEN [renewals EXCEPT ![t] = Append(@, job.run.rows[t].end)] ELSE renewals
    BY DEF Charge
<1>3. /\ job.run \in Run /\ job.run.at \in Nat /\ job.run.at <= clock /\ clock \in Nat
      /\ job \in [run : {NoRun} \cup Run, lastDay : Moments]
    BY <1>1, <1>2, RunFacts DEF BillTypeOK
<1>4. /\ job'.run.answered = [tenant |-> t, approved |-> approved]
      /\ job'.run.due = job.run.due /\ job'.run.rows = job.run.rows /\ job'.run.at = job.run.at
    BY <1>2, <1>3 DEF Run
<1>5. \A u \in Tenants : ~ Answered(u, TRUE)
    BY <1>2, BillingAssumption DEF Answered
<1>6. ASSUME NEW u \in Tenants, u \notin crossed PROVE Earned(u) /\ HeldAsRead(u)'
  <2>1. Earned(u)
      BY <1>6, EarnedFacts
  <2>2. QED
      BY <1>2, <1>4, <2>1 DEF Earned, HeldAsRead, HeldByJob
<1>7. ASSUME NEW u \in Tenants \ {t}, u \notin crossed PROVE Earned(u)'
  <2>1. renewals'[u] = renewals[u] /\ clock <= clock'
      BY <1>1, <1>2, <1>3 DEF BillTypeOK
  <2>2. ~ Answered(u, TRUE)'
      BY <1>4 DEF Answered
  <2>3. BillTypeOK'
      BY <1>1 DEF BillingInv
  <2>4. QED
      BY <1>1, <1>2, <1>5, <1>6, <1>7, <2>1, <2>2, <2>3, KeepsEarned
<1>8. ASSUME t \notin crossed PROVE Earned(t)'
  <2> DEFINE row == subs[t]
  <2>1. /\ Earned(t) /\ HeldAsRead(t)' /\ job.run.rows[t] = row /\ row.end <= job.run.at
        /\ row \in Subscription
      BY <1>1, <1>2, <1>6, <1>8, RunFacts DEF Earned, HeldAsRead, HeldByJob
  <2>2. CASE ~ approved
    <3>1. ~ Answered(t, TRUE)' /\ renewals' = renewals /\ clock <= clock'
      <4>1. job'.run.answered.approved = approved
          BY <1>4
      <4>2. QED
          BY <1>2, <1>3, <2>2, <4>1 DEF Answered
    <3>2. BillTypeOK'
        BY <1>1 DEF BillingInv
    <3>3. QED
        BY <1>1, <1>2, <1>5, <2>1, <3>1, <3>2, KeepsEarned
  <2>3. CASE approved
    <3>1. invoices[t] \in Seq(InvoiceRow) /\ renewals[t] \in Seq(Nat) /\ row.end \in Nat
        BY <1>1, <2>1 DEF BillTypeOK, Subscription
    <3>2. EarnedBy(row, tenants[t].status, invoices[t], renewals[t], FALSE)
        BY <1>5, <2>1 DEF Earned, EarnedBy, ChargesOf
    <3>3. EarnedBy(row, tenants[t].status, invoices[t], Append(renewals[t], row.end), TRUE)
        BY <2>1, <3>1, <3>2, PeriodCharged
    <3>4. Answered(t, TRUE)'
      <4>1. job'.run # NoRun
          BY <1>3, <1>4 DEF NoRun, NoTime
      <4>2. approved = TRUE
          BY <2>3
      <4>3. QED
          BY <1>4, <4>1, <4>2 DEF Answered
    <3>5. renewals'[t] = Append(renewals[t], row.end)
        BY <1>1, <1>2, <2>1, <2>3 DEF BillTypeOK
    <3>6. EarnedBy(subs[t], tenants[t].status, invoices[t], renewals[t], Answered(t, TRUE))'
        BY <1>2, <3>3, <3>4, <3>5 DEF EarnedBy, ChargesOf
    <3>7. ASSUME NEW n \in 1..Len(Append(renewals[t], row.end))
          PROVE  Append(renewals[t], row.end)[n] <= clock
      <4>1. CASE n \in 1..Len(renewals[t])
          BY <2>1, <3>1, <4>1 DEF Earned
      <4>2. CASE n = Len(renewals[t]) + 1
          BY <1>3, <2>1, <3>1, <4>2
      <4>3. QED
          BY <3>1, <4>1, <4>2
    <3>8. QED
        BY <1>2, <2>1, <3>5, <3>6, <3>7 DEF Earned
  <2>4. QED
      BY <2>2, <2>3
<1>9. QED
    BY <1>1, <1>2, <1>7, <1>8 DEF EarnedInv

LEMMA StartRunEarnedInv == ASSUME EarnedInv, StartRun PROVE EarnedInv'
<1>1. BillingInv /\ BillTypeOK /\ BillingInv' /\ BillTypeOK'
    BY EarnedFacts, StartRunBillingInv DEF BillingInv
<1>2. /\ job.run = NoRun /\ UNCHANGED <<clock, tenants, subs, invoices, pays, renewals, crossed>>
      /\ job'.run = [at |-> clock, due |-> {t \in Tenants : Due(t)}, rows |-> subs,
                     answered |-> [tenant |-> "none"]]
    BY DEF StartRun
<1>3. ASSUME NEW t \in Tenants, t \notin crossed PROVE Earned(t)'
  <2>1. Earned(t)
      BY <1>3, EarnedFacts
  <2>2. ~ Answered(t, TRUE) /\ ~ Answered(t, TRUE)'
      BY <1>2 DEF Answered
  <2>3. HeldAsRead(t)'
      BY <1>2 DEF HeldAsRead, HeldByJob, Due
  <2>4. clock <= clock'
      BY <1>1, <1>2 DEF BillTypeOK
  <2>5. QED
      BY <1>1, <1>2, <2>1, <2>2, <2>3, <2>4, KeepsEarned
<1>4. QED
    BY <1>1, <1>2, <1>3 DEF EarnedInv

LEMMA EndRunEarnedInv == ASSUME EarnedInv, EndRun PROVE EarnedInv'
<1>1. BillingInv /\ BillTypeOK /\ BillingInv' /\ BillTypeOK'
    BY EarnedFacts, EndRunBillingInv DEF BillingInv
<1>2. /\ job.run # NoRun /\ UNCHANGED <<clock, tenants, subs, invoices, pays, renewals>>
      /\ job'.run = NoRun
      /\ crossed' = IF job.run.answered.tenant = "none" THEN crossed
                    ELSE crossed \cup {job.run.answered.tenant}
  <2>1. job \in [run : {NoRun} \cup Run, lastDay : Moments]
      BY <1>1 DEF BillTypeOK
  <2>2. QED
      BY <2>1 DEF EndRun
<1>3. ASSUME NEW t \in Tenants, t \notin crossed' PROVE Earned(t)'
  <2>1. t \notin crossed /\ job.run.answered.tenant # t
      BY <1>2, <1>3, BillingAssumption
  <2>2. Earned(t)
      BY <2>1, EarnedFacts
  <2>3. ~ Answered(t, TRUE) /\ ~ Answered(t, TRUE)' /\ HeldAsRead(t)'
      BY <1>2, <2>1 DEF Answered, HeldAsRead, HeldByJob
  <2>4. clock <= clock'
      BY <1>1, <1>2 DEF BillTypeOK
  <2>5. QED
      BY <1>1, <1>2, <2>2, <2>3, <2>4, KeepsEarned
<1>4. QED
    BY <1>1, <1>3 DEF EarnedInv

LEMMA BillBeginsEarned ==
    ASSUME BillBegins, BillingInv
    PROVE  EarnedInv
<1>1. SUFFICES ASSUME NEW t \in Tenants PROVE Earned(t)
    BY DEF EarnedInv
<1>2. subs[t] = NoSub /\ invoices[t] = <<>> /\ renewals[t] = <<>> /\ job.run = NoRun
    BY DEF BillBegins
<1>3. ~ Answered(t, TRUE) /\ HeldAsRead(t)
    BY <1>2 DEF Answered, HeldAsRead, HeldByJob
<1>4. LastPaidIs(<<>>, 0) /\ PeriodOf(NoSub, <<>>, 0) /\ StatusOf(NoSub, tenants[t].status, <<>>, 0)
    BY DEF LastPaidIs, PeriodOf, StatusOf, NoSub
<1>5. ChargesOf(<<>>, NoSub, <<>>, Answered(t, TRUE))
    BY DEF ChargesOf
<1>6. \E i \in 0..Len(invoices[t]) :
         /\ LastPaidIs(invoices[t], i) /\ PeriodOf(subs[t], invoices[t], i)
         /\ StatusOf(subs[t], tenants[t].status, invoices[t], i)
    BY <1>2, <1>4
<1>7. ChargesOf(renewals[t], subs[t], invoices[t], Answered(t, TRUE))
    BY <1>2, <1>5
<1>8. EarnedBy(subs[t], tenants[t].status, invoices[t], renewals[t], Answered(t, TRUE))
    BY <1>6, <1>7 DEF EarnedBy
<1>9. \A n \in 1..Len(renewals[t]) : renewals[t][n] <= clock
  <2>1. Len(renewals[t]) = 0
      BY <1>2
  <2>2. QED
      BY <2>1
<1>10. QED
    BY <1>3, <1>8, <1>9 DEF Earned

LEMMA NextEarnedInv == EarnedInv /\ [BillNext]_billVars => EarnedInv'
<1> SUFFICES ASSUME EarnedInv, [BillNext]_billVars PROVE EarnedInv'
    OBVIOUS
<1>1. BillingInv /\ BillTypeOK /\ StatusesAgree /\ HoldsRows /\ BillingInv'
    BY EarnedFacts, NextBillingInv
<1>2. clock \in Nat
    BY <1>1 DEF BillTypeOK
<1>3. CASE ExpireTrials
  <2>1. UNCHANGED <<clock, subs, invoices, job, renewals, crossed>>
      BY <1>3 DEF ExpireTrials
  <2>2. ASSUME NEW t \in Tenants PROVE tenants'[t].status = tenants[t].status \/ subs[t].status # "past_due"
    <3>1. tenants[t].status # "trial" => tenants'[t] = tenants[t]
        BY <1>3 DEF ExpireTrials
    <3>2. subs[t].status = "past_due" => tenants[t].status # "trial"
        BY <1>1 DEF StatusesAgree
    <3>3. QED
        BY <3>1, <3>2
  <2>3. QED
      BY <1>1, <1>2, <2>1, <2>2, AsideEarnedInv
<1>4. ASSUME NEW t \in Tenants, OpenTrial(t) PROVE EarnedInv'
  <2>1. /\ UNCHANGED <<clock, subs, invoices, job, renewals, crossed>>
        /\ tenants[t] = NoTenant /\ \A u \in Tenants \ {t} : tenants'[u] = tenants[u]
      BY <1>1, <1>4 DEF OpenTrial, BillTypeOK
  <2>2. subs[t] = NoSub
      BY <1>1, <2>1 DEF HoldsRows
  <2>3. \A u \in Tenants : tenants'[u].status = tenants[u].status \/ subs[u].status # "past_due"
      BY <2>1, <2>2 DEF NoSub
  <2>4. QED
      BY <1>1, <1>2, <2>1, <2>3, AsideEarnedInv
<1>5. CASE Nightly
    BY <1>5, StartRunEarnedInv, EndRunEarnedInv, ChargeEarnedInv, RenewEarnedInv, MarkEarnedInv
       DEF Nightly
<1>6. ASSUME NEW p \in Payers, Activate(p) \/ CancelSubscription(p) PROVE EarnedInv'
  <2>1. pays[p] # NoPay
    <3>1. pays[p].step = "subscribe" \/ pays[p].step = "cancel"
        BY <1>6 DEF Activate, CancelSubscription
    <3>2. QED
        BY <3>1 DEF NoPay
  <2>2. pays[p].tenant \in Tenants
      BY <1>1, <2>1, PayFacts
  <2>3. QED
      BY <1>6, <2>2, ActivateEarnedInv, CancelEarnedInv
<1>7. CASE \/ Tick \/ UNCHANGED billVars \/ \E p \in Payers : FailPay(p)
           \/ \E p \in Payers, t \in Tenants : Ask(p, t)
  <2>1. UNCHANGED <<tenants, subs, invoices, job, renewals, crossed>> /\ clock <= clock'
      BY <1>2, <1>7 DEF Tick, billVars, FailPay, Ask, AskCancel, Subscribe
  <2>2. QED
      BY <1>1, <2>1, AsideEarnedInv
<1>8. QED
    BY <1>3, <1>4, <1>5, <1>6, <1>7 DEF BillNext, ServePayer

LEMMA EarnedImplies == EarnedInv => StandingIsEarned
<1> SUFFICES ASSUME EarnedInv, NEW t \in Tenants, t \notin crossed
             PROVE  /\ ChargesRecorded(t)
                    /\ subs[t] # NoSub => PeriodPaid(t)
                    /\ subs[t].status = "active" => Admits(t) /\ PaidAt(t) = Len(invoices[t])
                    /\ subs[t].status = "past_due" => InGrace(t)
    BY DEF StandingIsEarned
<1>1. BillTypeOK /\ StatusesAgree /\ Earned(t)
    BY EarnedFacts
<1>2. PICK i \in 0..Len(invoices[t]) :
         /\ LastPaidIs(invoices[t], i) /\ PeriodOf(subs[t], invoices[t], i)
         /\ StatusOf(subs[t], tenants[t].status, invoices[t], i)
    BY <1>1 DEF Earned, EarnedBy
<1>3. PaidAt(t) = i
    BY <1>1, <1>2, PaidAtIs DEF BillTypeOK
<1>4. ChargesRecorded(t)
    BY <1>1 DEF Earned, EarnedBy, ChargesOf, ChargesRecorded
<1>5. subs[t] # NoSub => PeriodPaid(t)
    BY <1>2, <1>3 DEF PeriodOf, PeriodPaid, LastPaid
<1>6. subs[t].status = "active" => Admits(t) /\ PaidAt(t) = Len(invoices[t])
  <2>1. subs[t].status = "active" => tenants[t].status = "active"
      BY <1>1 DEF StatusesAgree
  <2>2. QED
      BY <1>2, <1>3, <2>1 DEF StatusOf, Admits
<1>7. subs[t].status = "past_due" => InGrace(t)
    BY <1>2, <1>3 DEF StatusOf, InGrace, FirstFailed, Last
<1>8. QED
    BY <1>4, <1>5, <1>6, <1>7

-----------------------------------------------------------------------------
(* Access: rows, typed and referring to accounts there are. *)

Request == {Idle} \cup EnteringReq \cup ManageReq \cup LinkReq \cup NewReq

\* What a request refers to is there.
ReqFits(w) ==
    /\ req[w] \in EnteringReq =>
          /\ IsUser(req[w].user)
          /\ req[w].step = "rotate" => req[w].at \in Sessions
          /\ req[w].step \in {"failed", "clear"} => req[w].at \in Emails
          /\ req[w].at \in Sessions => sessions[req[w].at] # NoSession
    /\ req[w] \in ManageReq => GivenFits(req[w])
    /\ OnStep(w, "reset") => links[req[w].at] # NoLink
    /\ req[w].step \in {"accept", "revoke"} => invites[req[w].at] # NoInvite

RowsFit ==
    /\ \A s \in Sessions : sessions[s] # NoSession => IsUser(sessions[s].user)
    /\ \A l \in Links : links[l] # NoLink => IsUser(links[l].user)
    /\ \A r \in Robots : keys[r] # "none" <=> IsUser(r)

\* No row goes: accounts, sessions, links and invites that are there stay.
RowsStay ==
    /\ \A a \in Accounts : IsUser(a) => IsUser(a)'
    /\ \A s \in Sessions : sessions[s] # NoSession => sessions'[s] # NoSession
    /\ \A l \in Links : links[l] # NoLink => links'[l] # NoLink
    /\ \A i \in Invites : invites[i] # NoInvite => invites'[i] # NoInvite

RowsInv == AccessTypeOK /\ RefersToUsers

\* The kinds of requests are told apart by their steps.
LEMMA Kinds ==
    /\ \A r \in EnteringReq : r.step \in {"failed", "clear", "rotate", "issue"}
    /\ \A r \in ManageReq : r.step \in {"judge", "role", "deactivate", "invite", "key", "override"}
    /\ \A r \in LinkReq : r.step \in {"reset", "revoke"}
    /\ \A r \in NewReq : r.step \in {"accept", "found"}
    /\ Idle.step = "idle"
<1>1. \A r \in LinkReq : r.step \in {"reset", "revoke"}
    BY DEF LinkReq
<1>2. \A r \in NewReq : r.step \in {"accept", "found"}
    BY DEF NewReq
<1>3. QED
    BY <1>1, <1>2 DEF EnteringReq, ManageReq, Managed, Idle

LEMMA RequestKinds ==
    ASSUME NEW r \in Request
    PROVE  /\ r \in EnteringReq <=> r.step \in {"failed", "clear", "rotate", "issue"}
           /\ r \in ManageReq <=> r.step \in {"judge", "role", "deactivate", "invite", "key", "override"}
           /\ r \in LinkReq <=> r.step \in {"reset", "revoke"}
           /\ r \in NewReq <=> r.step \in {"accept", "found"}
           /\ r = Idle <=> r.step = "idle"
BY Kinds DEF Request

LEMMA RequestAt ==
    ASSUME NEW r \in Request, r # Idle
    PROVE  /\ r.at \in Accounts \cup Sessions \cup Links \cup Invites
           /\ r.at \in Links <=> r.step = "reset"
           /\ r.at \in Invites <=> r.step \in {"revoke", "accept"}
           /\ r.at \in Sessions => r.step \in {"failed", "clear", "rotate", "issue"}
<1>1. Emails \subseteq Accounts
    BY DEF Accounts
<1>2. \A k \in LinkReq : (k.step = "reset" /\ k.at \in Links) \/ (k.step = "revoke" /\ k.at \in Invites)
    BY DEF LinkReq
<1>3. \A k \in NewReq : (k.step = "accept" /\ k.at \in Invites) \/ (k.step = "found" /\ k.at \in Emails)
    BY DEF NewReq
<1>4. \A k \in EnteringReq : k.at \in Accounts \cup Sessions
    BY DEF EnteringReq
<1>5. \A k \in ManageReq : k.at \in Accounts
    BY DEF ManageReq
<1>6. QED
    BY <1>1, <1>2, <1>3, <1>4, <1>5, Kinds, AccessAssumption DEF Request

LEMMA UserFacts ==
    /\ NoUser \notin UserRow /\ NoUser.role = "none"
    /\ \A u \in UserRow : u.role \in Roles
    /\ \A role \in Roles : NewUser(role) \in UserRow /\ NewUser(role).active
    /\ "none" \notin Roles
BY DEF NoUser, UserRow, Roles, NewUser

LEMMA PutUser ==
    ASSUME users \in [Accounts -> {NoUser} \cup UserRow],
           NEW a \in Accounts, NEW row \in UserRow, users' = [users EXCEPT ![a] = row]
    PROVE  /\ users' \in [Accounts -> {NoUser} \cup UserRow]
           /\ users'[a] = row /\ IsUser(a)'
           /\ \A b \in Accounts \ {a} : users'[b] = users[b]
           /\ \A b \in Accounts : IsUser(b) => IsUser(b)'
<1>1. users'[a] = row /\ \A b \in Accounts \ {a} : users'[b] = users[b]
    OBVIOUS
<1>2. QED
    BY <1>1, UserFacts DEF IsUser

LEMMA PutReq ==
    ASSUME req \in [Workers -> Request], NEW w \in Workers, NEW r \in Request,
           req' = [req EXCEPT ![w] = r]
    PROVE  /\ req' \in [Workers -> Request] /\ req'[w] = r
           /\ \A v \in Workers \ {w} : req'[v] = req[v]
OBVIOUS

LEMMA TypedReq == AccessTypeOK => req \in [Workers -> Request]
BY DEF AccessTypeOK, Request

LEMMA KeepReqFits ==
    ASSUME req \in [Workers -> Request], NEW w \in Workers, ReqFits(w), req'[w] = req[w], RowsStay
    PROVE  ReqFits(w)'
<1>1. req[w] \in Request
    OBVIOUS
<1>2. CASE req[w] \in EnteringReq
  <2>1. req[w].user \in Accounts
      BY <1>2 DEF EnteringReq
  <2>2. req[w] \notin ManageReq /\ ~ OnStep(w, "reset") /\ req[w].step \notin {"accept", "revoke"}
      BY <1>1, <1>2, RequestKinds DEF OnStep
  <2>3. QED
      BY <1>2, <2>1, <2>2 DEF ReqFits, RowsStay, OnStep
<1>3. CASE req[w] \in ManageReq
  <2>1. req[w].at \in Accounts
      BY <1>3 DEF ManageReq
  <2>2. req[w] \notin EnteringReq /\ ~ OnStep(w, "reset") /\ req[w].step \notin {"accept", "revoke"}
      BY <1>1, <1>3, RequestKinds DEF OnStep
  <2>3. QED
      BY <1>3, <2>1, <2>2 DEF ReqFits, RowsStay, OnStep, GivenFits
<1>4. CASE req[w] \notin EnteringReq /\ req[w] \notin ManageReq
  <2>1. OnStep(w, "reset") => req[w].at \in Links
      BY <1>1, RequestAt, RequestKinds DEF OnStep
  <2>2. req[w].step \in {"accept", "revoke"} => req[w].at \in Invites
      BY <1>1, RequestAt, RequestKinds
  <2>3. QED
      BY <1>4, <2>1, <2>2 DEF ReqFits, RowsStay, OnStep
<1>5. QED
    BY <1>2, <1>3, <1>4

\* A step of one request, after which every row that was there still is.
LEMMA StepRowsInv ==
    ASSUME RowsInv, NEW w \in Workers, \A v \in Workers \ {w} : req'[v] = req[v],
           AccessTypeOK', RowsStay, RowsFit', ReqFits(w)'
    PROVE  RowsInv'
<1>1. \A v \in Workers : ReqFits(v)
    BY DEF RowsInv, RefersToUsers, ReqFits
<1>2. \A v \in Workers : ReqFits(v)'
    BY <1>1, TypedReq, KeepReqFits DEF RowsInv
<1>3. RefersToUsers'
    BY <1>2 DEF RefersToUsers, RowsFit, ReqFits
<1>4. QED
    BY <1>3 DEF RowsInv

\* A step that writes a request and nothing else but the history.
LEMMA ReqRowsInv ==
    ASSUME RowsInv, NEW w \in Workers, NEW r \in Request, req' = [req EXCEPT ![w] = r],
           UNCHANGED <<founded, users, sessions, claims, links, invites, keys, overrides,
                       epoch, raced>>,
           doubled' \subseteq Sessions \cup Links \cup Emails,
           r # Idle => ReqFits(w)'
    PROVE  RowsInv'
<1>1. /\ req' \in [Workers -> Request] /\ req'[w] = r
      /\ \A v \in Workers \ {w} : req'[v] = req[v]
    BY TypedReq, PutReq DEF RowsInv
<1>2. AccessTypeOK'
    BY <1>1 DEF RowsInv, AccessTypeOK, Request
<1>3. RowsStay /\ RowsFit'
    BY DEF RowsInv, RefersToUsers, RowsFit, RowsStay, IsUser
<1>4. ReqFits(w)'
  <2>1. CASE r = Idle
      BY <1>1, <2>1, RequestKinds DEF ReqFits, OnStep, Request
  <2>2. QED
      BY <2>1
<1>5. QED
    BY <1>1, <1>2, <1>3, <1>4, StepRowsInv

LEMMA EndReqRowsInv == ASSUME RowsInv, NEW w \in Workers, FailRequest(w) PROVE RowsInv'
<1>1. /\ UNCHANGED <<founded, users, sessions, claims, links, invites, keys, overrides, epoch, raced>>
      /\ req' = [req EXCEPT ![w] = Idle] /\ doubled' = doubled
    BY DEF FailRequest, Done
<1>2. doubled' \subseteq Sessions \cup Links \cup Emails
    BY <1>1 DEF RowsInv, AccessTypeOK
<1>3. Idle \in Request
    BY DEF Request
<1>4. QED
    BY <1>1, <1>2, <1>3, ReqRowsInv

LEMMA IdsApart ==
    /\ "none" \notin Accounts /\ Emails \subseteq Accounts /\ Robots \subseteq Accounts
    /\ Emails \cap Robots = {}
    /\ \A a \in Accounts : a \notin Sessions /\ a \notin Links /\ a \notin Invites
BY AccessAssumption DEF Accounts

LEMMA UserRows ==
    ASSUME AccessTypeOK, NEW a \in Accounts
    PROVE  /\ IsUser(a) <=> users[a] \in UserRow
           /\ users[a] \in {NoUser} \cup UserRow
           /\ epoch[a] \in Nat
BY UserFacts DEF AccessTypeOK, IsUser

\* A request that begins with an account and a session or an address of it.
LEMMA EnteringFits ==
    ASSUME AccessTypeOK, NEW w \in Workers, NEW a \in Accounts, IsUser(a),
           NEW s \in Accounts \cup Sessions, NEW step \in {"failed", "clear", "rotate", "issue"},
           NEW began \in Nat, NEW strayed \in BOOLEAN,
           step = "rotate" => s \in Sessions,
           step \in {"failed", "clear"} => s \in Emails,
           s \in Sessions => sessions'[s] # NoSession,
           req'[w] = Entering(step, a, s, began, strayed), users' = users
    PROVE  Entering(step, a, s, began, strayed) \in EnteringReq /\ ReqFits(w)'
<1>1. users[a] \in UserRow /\ epoch[a] \in Nat
    BY UserRows
<1>2. Entering(step, a, s, began, strayed) \in EnteringReq
    BY <1>1 DEF Entering, EnteringReq
<1>3. /\ Entering(step, a, s, began, strayed).user = a
      /\ Entering(step, a, s, began, strayed).at = s
      /\ Entering(step, a, s, began, strayed).step = step
    BY DEF Entering
<1>4. IsUser(a)'
    BY DEF IsUser
<1>5. QED
    BY <1>2, <1>3, <1>4, RequestKinds DEF ReqFits, OnStep, Request

LEMMA BeginTyped ==
    ASSUME AccessTypeOK, NEW w \in Workers, NEW r \in Request, Begin(w, r)
    PROVE  req' = [req EXCEPT ![w] = r] /\ req'[w] = r
BY TypedReq, PutReq DEF Begin

LEMMA LoginRowsInv ==
    ASSUME RowsInv, NEW w \in Workers, NEW a \in Emails, NEW right \in BOOLEAN, Login(w, a, right)
    PROVE  RowsInv'
<1> DEFINE step == IF ~ right THEN "failed" ELSE IF users[a].failures > 0 THEN "clear" ELSE "issue"
<1>1. /\ AccessTypeOK /\ a \in Accounts /\ IsUser(a) /\ a \notin Sessions
      /\ Begin(w, Entering(step, a, a, epoch[a], FALSE))
      /\ UNCHANGED <<founded, users, sessions, claims, links, invites, keys, overrides, epoch,
                     raced, doubled>>
    BY IdsApart DEF Login, RowsInv, OnlyReq
<1>2. step \in {"failed", "clear", "rotate", "issue"} /\ step # "rotate"
    OBVIOUS
<1> HIDE DEF step
<1>3. epoch[a] \in Nat
    BY <1>1, UserRows
<1>4. req' = [req EXCEPT ![w] = Entering(step, a, a, epoch[a], FALSE)]
    BY <1>1 DEF Begin
<1>5. req'[w] = Entering(step, a, a, epoch[a], FALSE)
    BY <1>1, <1>4, TypedReq
<1>6. Entering(step, a, a, epoch[a], FALSE) \in EnteringReq /\ ReqFits(w)'
    BY <1>1, <1>2, <1>3, <1>5, EnteringFits
<1>7. doubled' \subseteq Sessions \cup Links \cup Emails
    BY <1>1 DEF AccessTypeOK
<1>8. QED
    BY <1>1, <1>4, <1>6, <1>7, ReqRowsInv DEF Request

LEMMA RefreshRowsInv ==
    ASSUME RowsInv, NEW w \in Workers, NEW s \in Sessions, Refresh(w, s)
    PROVE  RowsInv'
<1> DEFINE r == Entering("rotate", sessions[s].user, s, sessions[s].began, sessions[s].strayed)
<1>1. /\ AccessTypeOK /\ sessions[s] # NoSession /\ Begin(w, r)
      /\ UNCHANGED <<founded, users, sessions, claims, links, invites, keys, overrides, epoch, raced>>
      /\ doubled' = Doubles(w, s)
    BY DEF Refresh, RowsInv
<1>2. sessions[s] \in Token /\ IsUser(sessions[s].user)
    BY <1>1 DEF RowsInv, RefersToUsers, AccessTypeOK
<1>3. sessions[s].user \in Accounts /\ sessions[s].began \in Nat /\ sessions[s].strayed \in BOOLEAN
    BY <1>2 DEF Token
<1>4. req' = [req EXCEPT ![w] = r]
    BY <1>1 DEF Begin
<1>5. req'[w] = r
    BY <1>1, <1>4, TypedReq
<1>6. sessions'[s] # NoSession
    BY <1>1
<1>7. r \in EnteringReq /\ ReqFits(w)'
    BY <1>1, <1>2, <1>3, <1>5, <1>6, EnteringFits
<1>8. doubled' \subseteq Sessions \cup Links \cup Emails
    BY <1>1 DEF AccessTypeOK, Doubles
<1>9. QED
    BY <1>1, <1>4, <1>7, <1>8, ReqRowsInv DEF Request

\* The other requests that begin.
LEMMA PlainFits ==
    ASSUME NEW w \in Workers, NEW r \in LinkReq \cup NewReq, req'[w] = r,
           r.step = "reset" => links'[r.at] # NoLink,
           r.step \in {"accept", "revoke"} => invites'[r.at] # NoInvite
    PROVE  ReqFits(w)'
BY RequestKinds DEF ReqFits, OnStep, Request

LEMMA OpenLinkRowsInv ==
    ASSUME RowsInv, NEW w \in Workers, NEW l \in Links, OpenLink(w, l) PROVE RowsInv'
<1> DEFINE r == [step |-> "reset", at |-> l]
<1>1. /\ AccessTypeOK /\ links[l] # NoLink /\ req' = [req EXCEPT ![w] = r]
      /\ UNCHANGED <<founded, users, sessions, claims, links, invites, keys, overrides, epoch, raced>>
      /\ doubled' = Doubles(w, l)
    BY DEF OpenLink, RowsInv, Begin
<1>2. r \in LinkReq /\ r.step = "reset" /\ r.at = l
    BY DEF LinkReq
<1> HIDE DEF r
<1>3. req'[w] = r
    BY <1>1, TypedReq
<1>4. ReqFits(w)'
    BY <1>1, <1>2, <1>3, PlainFits
<1>5. doubled' \subseteq Sessions \cup Links \cup Emails
    BY <1>1 DEF AccessTypeOK, Doubles
<1>6. QED
    BY <1>1, <1>2, <1>4, <1>5, ReqRowsInv DEF Request

LEMMA InviteFacts ==
    ASSUME AccessTypeOK, NEW i \in Invites, invites[i] \notin {NoInvite, Revoked}
    PROVE  invites[i].email \in Emails /\ invites[i].role \in Roles
BY DEF AccessTypeOK

LEMMA AskInviteRowsInv ==
    ASSUME RowsInv, NEW w \in Workers, NEW i \in Invites,
           OpenInvite(w, i) \/ \E by \in Accounts : FindInvite(w, by, i)
    PROVE  RowsInv'
<1>1. /\ AccessTypeOK /\ invites[i] \notin {NoInvite, Revoked}
      /\ UNCHANGED <<founded, users, sessions, claims, links, invites, keys, overrides, epoch,
                     raced, doubled>>
    BY DEF OpenInvite, FindInvite, RowsInv, OnlyReq
<1>2. invites[i].email \in Emails /\ invites[i].role \in Roles
    BY <1>1, InviteFacts
<1>3. PICK r \in LinkReq \cup NewReq : /\ req' = [req EXCEPT ![w] = r]
                                      /\ r.at = i /\ r.step \in {"accept", "revoke"}
  <2>1. CASE OpenInvite(w, i)
    <3> DEFINE r == [step |-> "accept", at |-> i, email |-> invites[i].email, role |-> invites[i].role]
    <3>1. r \in NewReq /\ r.at = i /\ r.step = "accept"
        BY <1>2 DEF NewReq
    <3>2. req' = [req EXCEPT ![w] = r]
        BY <2>1 DEF OpenInvite, Begin
    <3>3. QED
        BY <3>1, <3>2
  <2>2. CASE \E by \in Accounts : FindInvite(w, by, i)
    <3> DEFINE r == [step |-> "revoke", at |-> i]
    <3>1. r \in LinkReq /\ r.at = i /\ r.step = "revoke"
        BY DEF LinkReq
    <3>2. req' = [req EXCEPT ![w] = r]
        BY <2>2 DEF FindInvite, Begin
    <3>3. QED
        BY <3>1, <3>2
  <2>3. QED
      BY <2>1, <2>2
<1>4. req'[w] = r
    BY <1>1, <1>3, TypedReq
<1>5. ReqFits(w)'
    BY <1>1, <1>3, <1>4, PlainFits
<1>6. doubled' \subseteq Sessions \cup Links \cup Emails
    BY <1>1 DEF AccessTypeOK
<1>7. QED
    BY <1>1, <1>3, <1>5, <1>6, ReqRowsInv DEF Request

LEMMA ApplyRowsInv == ASSUME RowsInv, NEW w \in Workers, NEW a \in Emails, Apply(w, a) PROVE RowsInv'
<1> DEFINE r == [step |-> "found", at |-> a, email |-> a, role |-> "owner"]
<1>1. /\ AccessTypeOK /\ req' = [req EXCEPT ![w] = r]
      /\ UNCHANGED <<founded, users, sessions, claims, links, invites, keys, overrides, epoch,
                     raced, doubled>>
    BY DEF Apply, Begin, OnlyReq, RowsInv
<1>2. r \in NewReq /\ r.step = "found"
    BY DEF NewReq
<1> HIDE DEF r
<1>3. req'[w] = r
    BY <1>1, TypedReq
<1>4. ReqFits(w)'
    BY <1>2, <1>3, PlainFits
<1>5. doubled' \subseteq Sessions \cup Links \cup Emails
    BY <1>1 DEF AccessTypeOK
<1>6. QED
    BY <1>1, <1>2, <1>4, <1>5, ReqRowsInv DEF Request

LEMMA ManagedFits ==
    ASSUME NEW w \in Workers, NEW r \in ManageReq, req'[w] = r, r.step \in {"judge", r.op},
           r.op \in {"role", "invite", "key"} => r.given \in Roles,
           r.op = "override" => r.row \in Rows,
           r.step \in {"role", "deactivate", "override"} => IsUser(r.at)',
           r.step = "invite" => r.at \in Emails, r.step = "key" => r.at \in Robots
    PROVE  ReqFits(w)'
BY RequestKinds DEF ReqFits, OnStep, Request, GivenFits

LEMMA ManageRowsInv ==
    ASSUME RowsInv, NEW w \in Workers, NEW by \in Accounts, NEW op \in Managed, NEW a \in Accounts,
           NEW given \in Roles \cup {"none"}, NEW row \in Rows \cup {NoRow},
           op \in {"role", "invite", "key"} => given \in Roles, op = "override" => row \in Rows,
           Manage(w, by, op, a, given, row)
    PROVE  RowsInv'
<1> DEFINE r == [step |-> "judge", op |-> op, at |-> a, given |-> given,
                 row |-> row, acting |-> users[by].role, takes |-> FALSE]
<1>1. /\ AccessTypeOK /\ IsUser(by) /\ req' = [req EXCEPT ![w] = r]
      /\ UNCHANGED <<founded, users, sessions, claims, links, invites, keys, overrides, epoch,
                     raced, doubled>>
    BY DEF Manage, Begin, OnlyReq, RowsInv
<1>2. users[by].role \in Roles
    BY <1>1, UserRows, UserFacts
<1>3. /\ r \in ManageReq /\ r.step = "judge" /\ r.op = op /\ r.given = given /\ r.row = row
    BY <1>2 DEF ManageReq
<1> HIDE DEF r
<1>4. req'[w] = r
    BY <1>1, TypedReq
<1>6. ReqFits(w)'
    BY <1>3, <1>4, ManagedFits
<1>7. doubled' \subseteq Sessions \cup Links \cup Emails
    BY <1>1 DEF AccessTypeOK
<1>8. QED
    BY <1>1, <1>3, <1>6, <1>7, ReqRowsInv DEF Request

\* A request past its beginning, and what its step says of it.
LEMMA StepKind ==
    ASSUME RowsInv, NEW w \in Workers
    PROVE  /\ req[w] \in Request /\ ReqFits(w)
           /\ req[w].step \in {"failed", "clear", "rotate", "issue"} => req[w] \in EnteringReq
           /\ req[w].step \in {"judge", "role", "deactivate", "invite", "key", "override"}
                 => req[w] \in ManageReq
           /\ req[w].step \in {"reset", "revoke"} => req[w] \in LinkReq
           /\ req[w].step \in {"accept", "found"} => req[w] \in NewReq
           /\ OnStep(w, "reset") => req[w].at \in Links
           /\ OnStep(w, "accept") \/ OnStep(w, "revoke") => req[w].at \in Invites
<1>1. req[w] \in Request /\ ReqFits(w)
    BY TypedReq DEF RowsInv, RefersToUsers, ReqFits
<1>2. \A r \in LinkReq : r.step = "reset" => r.at \in Links
    BY DEF LinkReq
<1>3. \A r \in LinkReq : r.step = "revoke" => r.at \in Invites
    BY DEF LinkReq
<1>4. \A r \in NewReq : r.step = "accept" => r.at \in Invites
    BY DEF NewReq
<1>5. QED
    BY <1>1, <1>2, <1>3, <1>4, RequestKinds DEF OnStep

LEMMA JudgeRowsInv == ASSUME RowsInv, NEW w \in Workers, Judge(w) PROVE RowsInv'
<1>1. PICK takes \in BOOLEAN : req' = [req EXCEPT ![w].step = req[w].op, ![w].takes = takes]
  <2>1. \A x, y : (x \/ y) \in BOOLEAN
      OBVIOUS
  <2>2. QED
      BY <2>1 DEF Judge
<1>2. /\ AccessTypeOK /\ OnStep(w, "judge")
      /\ UNCHANGED <<founded, users, sessions, claims, links, invites, keys, overrides, epoch, raced>>
      /\ req[w].op \in {"role", "deactivate", "override"} => IsUser(req[w].at)
      /\ req[w].op = "invite" => req[w].at \in Emails
      /\ req[w].op = "key" => req[w].at \in Robots
    BY DEF Judge, RowsInv
<1>3. req[w] \in ManageReq /\ GivenFits(req[w])
    BY <1>2, StepKind DEF OnStep, ReqFits
<1>4. PICK r \in ManageReq :
         /\ req' = [req EXCEPT ![w] = r]
         /\ r.step = req[w].op /\ r.op = req[w].op /\ r.given = req[w].given
         /\ r.row = req[w].row /\ r.at = req[w].at
  <2> DEFINE r == [req[w] EXCEPT !.step = req[w].op, !.takes = takes]
  <2>1. /\ r \in ManageReq /\ r.step = req[w].op /\ r.op = req[w].op /\ r.given = req[w].given
        /\ r.row = req[w].row /\ r.at = req[w].at
      BY <1>3 DEF ManageReq
  <2>2. req' = [req EXCEPT ![w] = r]
      BY <1>1
  <2>3. QED
      BY <2>1, <2>2
<1>6. req'[w] = r
    BY <1>2, <1>4, TypedReq
<1>7. IsUser(r.at)' <=> IsUser(r.at)
    BY <1>2 DEF IsUser
<1>8. ReqFits(w)'
    BY <1>2, <1>3, <1>4, <1>6, <1>7, ManagedFits DEF GivenFits
<1>9. doubled' \subseteq Sessions \cup Links \cup Emails
    BY <1>2, <1>3 DEF AccessTypeOK, Judge
<1>10. QED
    BY <1>2, <1>4, <1>8, <1>9, ReqRowsInv DEF Request

\* A step of no request.
LEMMA AsideRowsInv ==
    ASSUME RowsInv, req' = req, AccessTypeOK', RowsStay, RowsFit'
    PROVE  RowsInv'
<1>1. \A v \in Workers : ReqFits(v)
    BY DEF RowsInv, RefersToUsers, ReqFits
<1>2. \A v \in Workers : ReqFits(v)'
    BY <1>1, TypedReq, KeepReqFits DEF RowsInv
<1>3. RefersToUsers'
    BY <1>2 DEF RefersToUsers, RowsFit, ReqFits
<1>4. QED
    BY <1>3 DEF RowsInv

\* The row of an account that is there is written.
LEMMA KeepUsers ==
    ASSUME RowsInv, NEW a \in Accounts, IsUser(a), NEW row \in UserRow,
           users' = [users EXCEPT ![a] = row]
    PROVE  /\ users' \in [Accounts -> {NoUser} \cup UserRow]
           /\ \A b \in Accounts : IsUser(b)' <=> IsUser(b)
           /\ users'[a] = row /\ \A b \in Accounts \ {a} : users'[b] = users[b]
<1>1. users \in [Accounts -> {NoUser} \cup UserRow]
    BY DEF RowsInv, AccessTypeOK
<1>2. /\ users' \in [Accounts -> {NoUser} \cup UserRow] /\ users'[a] = row /\ IsUser(a)'
      /\ \A b \in Accounts \ {a} : users'[b] = users[b]
    BY <1>1, PutUser
<1>3. \A b \in Accounts \ {a} : IsUser(b)' <=> IsUser(b)
    BY <1>2 DEF IsUser
<1>4. QED
    BY <1>2, <1>3

LEMMA KeepRefs ==
    ASSUME RowsInv, \A b \in Accounts : IsUser(b)' <=> IsUser(b),
           UNCHANGED <<sessions, links, invites, keys>>
    PROVE  RowsStay /\ RowsFit'
<1>1. /\ \A s \in Sessions : sessions[s] # NoSession => sessions[s].user \in Accounts
      /\ \A l \in Links : links[l] # NoLink => links[l].user \in Accounts
      /\ Robots \subseteq Accounts
    BY IdsApart DEF RowsInv, AccessTypeOK, Token
<1>2. RowsStay
    BY DEF RowsStay
<1>3. QED
    BY <1>1, <1>2 DEF RowsInv, RefersToUsers, RowsFit

LEMMA UserRowsInv ==
    ASSUME RowsInv, NEW w \in Workers, NEW r \in Request, req' = [req EXCEPT ![w] = r],
           NEW a \in Accounts, IsUser(a), NEW row \in UserRow, users' = [users EXCEPT ![a] = row],
           UNCHANGED <<founded, sessions, claims, links, invites, keys, overrides, epoch, doubled>>,
           raced' \in BOOLEAN, r # Idle => ReqFits(w)'
    PROVE  RowsInv'
<1>1. /\ users' \in [Accounts -> {NoUser} \cup UserRow]
      /\ \A b \in Accounts : IsUser(b)' <=> IsUser(b)
    BY KeepUsers
<1>2. RowsStay /\ RowsFit'
    BY <1>1, KeepRefs
<1>3. /\ req' \in [Workers -> Request] /\ req'[w] = r
      /\ \A v \in Workers \ {w} : req'[v] = req[v]
    BY TypedReq, PutReq DEF RowsInv
<1>4. AccessTypeOK'
    BY <1>1, <1>3 DEF RowsInv, AccessTypeOK, Request
<1>5. ReqFits(w)'
  <2>1. CASE r = Idle
      BY <1>3, <2>1, RequestKinds DEF ReqFits, OnStep, Request
  <2>2. QED
      BY <2>1
<1>6. QED
    BY <1>2, <1>3, <1>4, <1>5, StepRowsInv

\* What an entering request holds.
LEMMA EnteringFacts ==
    ASSUME RowsInv, NEW w \in Workers, req[w] \in EnteringReq
    PROVE  /\ req[w].user \in Accounts /\ req[w].seen \in UserRow /\ IsUser(req[w].user)
           /\ users[req[w].user] \in UserRow /\ req[w].at \in Accounts \cup Sessions
           /\ req[w].epoch \in Nat /\ req[w].began \in Nat /\ req[w].strayed \in BOOLEAN
           /\ epoch[req[w].user] \in Nat
           /\ req[w].step = "rotate" => req[w].at \in Sessions
           /\ req[w].step \in {"failed", "clear"} => req[w].at \in Emails
           /\ req[w].at \in Sessions => sessions[req[w].at] \in Token
<1>1. /\ req[w].user \in Accounts /\ req[w].seen \in UserRow /\ req[w].at \in Accounts \cup Sessions
      /\ req[w].epoch \in Nat /\ req[w].began \in Nat /\ req[w].strayed \in BOOLEAN
    BY DEF EnteringReq
<1>2. /\ IsUser(req[w].user)
      /\ req[w].step = "rotate" => req[w].at \in Sessions
      /\ req[w].step \in {"failed", "clear"} => req[w].at \in Emails
      /\ req[w].at \in Sessions => sessions[req[w].at] # NoSession
    BY DEF RowsInv, RefersToUsers
<1>3. users[req[w].user] \in UserRow /\ epoch[req[w].user] \in Nat
    BY <1>1, <1>2, UserRows DEF RowsInv
<1>4. \A s \in Sessions : sessions[s] \in {NoSession} \cup Token
    BY DEF RowsInv, AccessTypeOK
<1>5. QED
    BY <1>1, <1>2, <1>3, <1>4

LEMMA FailedRowsInv == ASSUME RowsInv, NEW w \in Workers, RegisterFailedLogin(w) PROVE RowsInv'
<1> DEFINE row == [users[req[w].user] EXCEPT !.failures = req[w].seen.failures + 1,
                      !.lock = IF req[w].seen.failures + 1 = LockThreshold THEN "running"
                               ELSE req[w].seen.lock]
<1>1. req[w] \in EnteringReq
    BY StepKind DEF RegisterFailedLogin, OnStep
<1>2. /\ req[w].user \in Accounts /\ req[w].seen \in UserRow /\ IsUser(req[w].user)
      /\ users[req[w].user] \in UserRow
    BY <1>1, EnteringFacts
<1>3. row \in UserRow
  <2>1. /\ req[w].seen.failures + 1 \in Nat
        /\ req[w].seen.lock \in {"none", "running", "over"}
      BY <1>2 DEF UserRow
  <2>2. (IF req[w].seen.failures + 1 = LockThreshold THEN "running" ELSE req[w].seen.lock)
           \in {"none", "running", "over"}
      BY <2>1
  <2>3. QED
      BY <1>2, <2>1, <2>2 DEF UserRow
<1>4. /\ users' = [users EXCEPT ![req[w].user] = row]
      /\ req' = [req EXCEPT ![w] = Idle] /\ raced' = raced
      /\ UNCHANGED <<founded, sessions, claims, links, invites, keys, overrides, epoch, doubled>>
    BY DEF RegisterFailedLogin, Done
<1>5. raced' \in BOOLEAN /\ Idle \in Request
    BY <1>4 DEF RowsInv, AccessTypeOK, Request
<1> HIDE DEF row
<1>6. QED
    BY <1>2, <1>3, <1>4, <1>5, UserRowsInv

LEMMA ClearRowsInv == ASSUME RowsInv, NEW w \in Workers, ClearLoginLockout(w) PROVE RowsInv'
<1> DEFINE row == [users[req[w].user] EXCEPT !.failures = 0, !.lock = "none"]
<1>1. req[w] \in EnteringReq
    BY StepKind DEF ClearLoginLockout, OnStep
<1>2. /\ req[w].user \in Accounts /\ IsUser(req[w].user) /\ users[req[w].user] \in UserRow
      /\ req[w].at \in Sessions => sessions[req[w].at] \in Token
    BY <1>1, EnteringFacts
<1>3. row \in UserRow
    BY <1>2 DEF UserRow
<1>4. PICK r \in EnteringReq : /\ req' = [req EXCEPT ![w] = r] /\ r.step = "issue"
                               /\ r.user = req[w].user /\ r.at = req[w].at
  <2> DEFINE r == [req[w] EXCEPT !.step = "issue"]
  <2>1. r \in EnteringReq /\ r.step = "issue" /\ r.user = req[w].user /\ r.at = req[w].at
      BY <1>1 DEF EnteringReq
  <2>2. req' = [req EXCEPT ![w] = r]
      BY DEF ClearLoginLockout, GoOn
  <2>3. QED
      BY <2>1, <2>2
<1>5. /\ users' = [users EXCEPT ![req[w].user] = row] /\ raced' = raced
      /\ UNCHANGED <<founded, sessions, claims, links, invites, keys, overrides, epoch, doubled>>
    BY DEF ClearLoginLockout
<1>6. raced' \in BOOLEAN
    BY <1>5 DEF RowsInv, AccessTypeOK
<1> HIDE DEF row
<1>7. req'[w] = r
    BY <1>4, TypedReq DEF RowsInv
<1>8. \A b \in Accounts : IsUser(b)' <=> IsUser(b)
    BY <1>2, <1>3, <1>5, KeepUsers
<1>9. r.user \in Accounts /\ IsUser(r.user)'
    BY <1>2, <1>4, <1>8
<1>10. r.at \in Sessions => sessions'[r.at] # NoSession
  <2>1. NoSession \notin Token
      BY IdsApart DEF NoSession, Token
  <2>2. QED
      BY <1>2, <1>4, <1>5, <2>1
<1>11. ReqFits(w)'
    BY <1>4, <1>7, <1>9, <1>10, RequestKinds DEF ReqFits, OnStep, Request
<1>12. QED
    BY <1>2, <1>3, <1>4, <1>5, <1>6, <1>11, UserRowsInv DEF Request

LEMMA LockEndsRowsInv == ASSUME RowsInv, NEW a \in Accounts, LockEnds(a) PROVE RowsInv'
<1> DEFINE row == [users[a] EXCEPT !.lock = "over"]
<1>1. users[a] \in UserRow /\ IsUser(a)
    BY UserRows DEF LockEnds, RowsInv
<1>2. row \in UserRow
    BY <1>1 DEF UserRow
<1>3. /\ users' = [users EXCEPT ![a] = row]
      /\ UNCHANGED <<founded, sessions, claims, links, invites, keys, overrides, req, epoch,
                     doubled, raced>>
    BY DEF LockEnds
<1> HIDE DEF row
<1>4. /\ users' \in [Accounts -> {NoUser} \cup UserRow]
      /\ \A b \in Accounts : IsUser(b)' <=> IsUser(b)
    BY <1>1, <1>2, <1>3, KeepUsers
<1>5. RowsStay /\ RowsFit'
    BY <1>3, <1>4, KeepRefs
<1>6. AccessTypeOK'
    BY <1>3, <1>4 DEF RowsInv, AccessTypeOK
<1>7. QED
    BY <1>3, <1>5, <1>6, AsideRowsInv

LEMMA SetRoleRowsInv == ASSUME RowsInv, NEW w \in Workers, SetRole(w) PROVE RowsInv'
<1> DEFINE row == [users[req[w].at] EXCEPT !.role = req[w].given]
<1>1. req[w] \in ManageReq /\ req[w].step = "role" /\ GivenFits(req[w])
    BY StepKind DEF SetRole, OnStep, ReqFits
<1>2. req[w].at \in Accounts /\ IsUser(req[w].at) /\ req[w].given \in Roles
    BY <1>1 DEF ManageReq, GivenFits
<1>3. users[req[w].at] \in UserRow
    BY <1>2, UserRows DEF RowsInv
<1>4. row \in UserRow
    BY <1>2, <1>3 DEF UserRow
<1>5. /\ users' = [users EXCEPT ![req[w].at] = row] /\ req' = [req EXCEPT ![w] = Idle]
      /\ UNCHANGED <<founded, sessions, claims, links, invites, keys, overrides, epoch, doubled>>
    BY DEF SetRole, Done
<1>6. raced' \in BOOLEAN /\ Idle \in Request
  <2>1. raced \in BOOLEAN
      BY DEF RowsInv, AccessTypeOK
  <2>2. Races(w) \in BOOLEAN
      BY DEF Races
  <2>3. QED
      BY <2>1, <2>2 DEF SetRole, Request
<1> HIDE DEF row
<1>7. QED
    BY <1>2, <1>4, <1>5, <1>6, UserRowsInv

\* Sessions as they were, but that some are revoked.
Revokes == \A s \in Sessions :
    /\ sessions[s] = NoSession => sessions'[s] = NoSession
    /\ sessions[s] # NoSession =>
          /\ sessions'[s] \in Token
          /\ sessions'[s] = sessions[s] \/ sessions'[s] = [sessions[s] EXCEPT !.live = FALSE]

LEMMA NotTokens == NoSession \notin Token /\ NoSession.user = "none" /\ NoSession.user \notin Accounts
BY IdsApart DEF NoSession, Token

LEMMA RevokedFacts ==
    ASSUME AccessTypeOK, sessions' \in [Sessions -> {NoSession} \cup Token], Revokes
    PROVE  \A s \in Sessions :
              /\ sessions'[s] # NoSession <=> sessions[s] # NoSession
              /\ sessions[s] # NoSession =>
                    /\ sessions'[s].user = sessions[s].user /\ sessions'[s].began = sessions[s].began
                    /\ sessions'[s].issued = sessions[s].issued
                    /\ sessions'[s].strayed = sessions[s].strayed
                    /\ sessions'[s].live => sessions[s].live
<1> SUFFICES ASSUME NEW s \in Sessions
             PROVE  /\ sessions'[s] # NoSession <=> sessions[s] # NoSession
                    /\ sessions[s] # NoSession =>
                          /\ sessions'[s].user = sessions[s].user
                          /\ sessions'[s].began = sessions[s].began
                          /\ sessions'[s].issued = sessions[s].issued
                          /\ sessions'[s].strayed = sessions[s].strayed
                          /\ sessions'[s].live => sessions[s].live
    OBVIOUS
<1>1. CASE sessions[s] = NoSession
    BY <1>1 DEF Revokes
<1>2. CASE sessions[s] # NoSession
  <2>1. sessions[s] \in Token /\ sessions'[s] \in Token
      BY <1>2 DEF AccessTypeOK, Revokes
  <2>2. sessions'[s] # NoSession
      BY <2>1, NotTokens
  <2>3. CASE sessions'[s] = sessions[s]
      BY <1>2, <2>2, <2>3
  <2>4. CASE sessions'[s] = [sessions[s] EXCEPT !.live = FALSE]
      BY <1>2, <2>1, <2>2, <2>4 DEF Token
  <2>5. QED
      BY <1>2, <2>3, <2>4 DEF Revokes
<1>3. QED
    BY <1>1, <1>2

LEMMA OffIsToken == \A t \in Token : [t EXCEPT !.live = FALSE] \in Token
BY DEF Token

\* One session revoked, those of an account revoked.
LEMMA RevokeOne ==
    ASSUME AccessTypeOK, NEW s \in Sessions, sessions[s] # NoSession,
           sessions' = [sessions EXCEPT ![s].live = FALSE]
    PROVE  /\ sessions' \in [Sessions -> {NoSession} \cup Token] /\ Revokes
           /\ sessions'[s] = [sessions[s] EXCEPT !.live = FALSE]
           /\ \A t \in Sessions \ {s} : sessions'[t] = sessions[t]
<1>1. /\ sessions \in [Sessions -> {NoSession} \cup Token] /\ sessions[s] \in Token
    BY DEF AccessTypeOK
<1>2. /\ sessions'[s] = [sessions[s] EXCEPT !.live = FALSE] /\ sessions'[s] \in Token
      /\ \A t \in Sessions \ {s} : sessions'[t] = sessions[t]
    BY <1>1, OffIsToken
<1>3. sessions' \in [Sessions -> {NoSession} \cup Token]
  <2>1. sessions' = [t \in Sessions |-> sessions'[t]]
      BY <1>1
  <2>2. QED
      BY <1>1, <1>2, <2>1
<1>4. Revokes
    BY <1>1, <1>2 DEF Revokes
<1>5. QED
    BY <1>2, <1>3, <1>4

LEMMA EndSessionsFacts ==
    ASSUME AccessTypeOK, NEW a \in Accounts, EndSessions(a)
    PROVE  /\ sessions' \in [Sessions -> {NoSession} \cup Token] /\ Revokes
           /\ \A s \in Sessions : sessions[s] # NoSession =>
                 IF sessions[s].user = a THEN ~ sessions'[s].live ELSE sessions'[s] = sessions[s]
           /\ epoch' \in [Accounts -> Nat] /\ epoch'[a] = epoch[a] + 1
           /\ \A b \in Accounts \ {a} : epoch'[b] = epoch[b]
<1>1. /\ sessions \in [Sessions -> {NoSession} \cup Token] /\ epoch \in [Accounts -> Nat]
    BY DEF AccessTypeOK
<1>2. epoch' \in [Accounts -> Nat] /\ epoch'[a] = epoch[a] + 1
      /\ \A b \in Accounts \ {a} : epoch'[b] = epoch[b]
    BY <1>1 DEF EndSessions
<1>3. sessions' = [s \in Sessions |-> IF sessions[s].user = a
                                      THEN [sessions[s] EXCEPT !.live = FALSE] ELSE sessions[s]]
    BY DEF EndSessions
<1>4. ASSUME NEW s \in Sessions, sessions[s] = NoSession PROVE sessions'[s] = NoSession
    BY <1>3, <1>4, NotTokens
<1>5. ASSUME NEW s \in Sessions, sessions[s] # NoSession
      PROVE  /\ sessions'[s] \in Token
             /\ sessions'[s] = sessions[s] \/ sessions'[s] = [sessions[s] EXCEPT !.live = FALSE]
             /\ IF sessions[s].user = a THEN ~ sessions'[s].live ELSE sessions'[s] = sessions[s]
  <2>1. sessions[s] \in Token
      BY <1>1, <1>5
  <2>2. CASE sessions[s].user = a
    <3>1. sessions'[s] = [sessions[s] EXCEPT !.live = FALSE]
        BY <1>3, <2>2
    <3>2. sessions'[s] \in Token
        BY <2>1, <3>1, OffIsToken
    <3>3. ~ sessions'[s].live
        BY <2>1, <3>1 DEF Token
    <3>4. QED
        BY <2>2, <3>1, <3>2, <3>3
  <2>3. CASE sessions[s].user # a
      BY <1>3, <2>1, <2>3
  <2>4. QED
      BY <2>2, <2>3
<1>6. Revokes
    BY <1>4, <1>5 DEF Revokes
<1>7. sessions' \in [Sessions -> {NoSession} \cup Token]
  <2>1. \A s \in Sessions : sessions'[s] \in {NoSession} \cup Token
      BY <1>4, <1>5
  <2>2. QED
      BY <1>3, <2>1
<1>8. QED
    BY <1>2, <1>5, <1>6, <1>7

\* Rows refer to accounts as before when some sessions are revoked.
LEMMA RevokeRefs ==
    ASSUME RowsInv, sessions' \in [Sessions -> {NoSession} \cup Token], Revokes,
           \A b \in Accounts : IsUser(b)' <=> IsUser(b),
           \A l \in Links : links'[l] # NoLink => links[l] # NoLink /\ links'[l].user = links[l].user,
           \A l \in Links : links[l] # NoLink => links'[l] # NoLink,
           UNCHANGED <<invites, keys>>
    PROVE  RowsStay /\ RowsFit'
<1>1. /\ \A s \in Sessions : sessions[s] # NoSession => sessions[s].user \in Accounts
      /\ \A l \in Links : links[l] # NoLink => links[l].user \in Accounts
      /\ Robots \subseteq Accounts
    BY IdsApart DEF RowsInv, AccessTypeOK, Token
<1>2. \A s \in Sessions : /\ sessions'[s] # NoSession <=> sessions[s] # NoSession
                          /\ sessions[s] # NoSession => sessions'[s].user = sessions[s].user
    BY RevokedFacts DEF RowsInv
<1>3. RowsStay
    BY <1>2 DEF RowsStay
<1>4. QED
    BY <1>1, <1>2, <1>3 DEF RowsInv, RefersToUsers, RowsFit

LEMMA RotateDoes ==
    ASSUME RowsInv, NEW w \in Workers, Rotate(w)
    PROVE  /\ req[w] \in EnteringReq /\ req[w].at \in Sessions /\ sessions[req[w].at] # NoSession
           /\ sessions' = [sessions EXCEPT ![req[w].at].live = FALSE]
           /\ UNCHANGED <<founded, users, claims, links, invites, keys, overrides, epoch, doubled, raced>>
           /\ \E r \in {Idle} \cup EnteringReq :
                /\ req' = [req EXCEPT ![w] = r]
                /\ r # Idle => /\ r.step = "issue" /\ r.user = req[w].user /\ r.at = req[w].at
                               /\ r.seen = users[req[w].user] /\ r.epoch = req[w].epoch
                               /\ r.began = req[w].began /\ r.strayed = req[w].strayed
<1>1. req[w] \in EnteringReq /\ req[w].step = "rotate"
    BY StepKind DEF Rotate, OnStep
<1>2. req[w].at \in Sessions /\ sessions[req[w].at] # NoSession /\ users[req[w].user] \in UserRow
    BY <1>1, EnteringFacts, NotTokens
<1>3. CASE users[req[w].user].active
  <2> DEFINE r == [req[w] EXCEPT !.step = "issue", !.seen = users[req[w].user]]
  <2>1. req' = [req EXCEPT ![w] = r]
      BY <1>3 DEF Rotate
  <2>2. /\ r \in EnteringReq /\ r.step = "issue" /\ r.user = req[w].user /\ r.at = req[w].at
        /\ r.seen = users[req[w].user] /\ r.epoch = req[w].epoch
        /\ r.began = req[w].began /\ r.strayed = req[w].strayed
      BY <1>1, <1>2 DEF EnteringReq
  <2>3. QED
      BY <1>1, <1>2, <2>1, <2>2 DEF Rotate
<1>4. CASE ~ users[req[w].user].active
    BY <1>1, <1>2, <1>4 DEF Rotate, Done
<1>5. QED
    BY <1>3, <1>4

LEMMA RotateRowsInv == ASSUME RowsInv, NEW w \in Workers, Rotate(w) PROVE RowsInv'
<1>1. /\ req[w] \in EnteringReq /\ req[w].at \in Sessions /\ sessions[req[w].at] # NoSession
      /\ sessions' = [sessions EXCEPT ![req[w].at].live = FALSE]
      /\ UNCHANGED <<founded, users, claims, links, invites, keys, overrides, epoch, doubled, raced>>
    BY RotateDoes
<1>2. PICK r \in {Idle} \cup EnteringReq :
         /\ req' = [req EXCEPT ![w] = r]
         /\ r # Idle => r.step = "issue" /\ r.user = req[w].user /\ r.at = req[w].at
    BY RotateDoes
<1>3. sessions' \in [Sessions -> {NoSession} \cup Token] /\ Revokes
    BY <1>1, RevokeOne DEF RowsInv
<1>4. \A b \in Accounts : IsUser(b)' <=> IsUser(b)
    BY <1>1 DEF IsUser
<1>5. RowsStay /\ RowsFit'
    BY <1>1, <1>3, <1>4, RevokeRefs
<1>6. /\ req' \in [Workers -> Request] /\ req'[w] = r
      /\ \A v \in Workers \ {w} : req'[v] = req[v]
    BY <1>2, TypedReq, PutReq DEF RowsInv, Request
<1>7. AccessTypeOK'
    BY <1>1, <1>3, <1>6 DEF RowsInv, AccessTypeOK, Request
<1>8. ReqFits(w)'
  <2>1. CASE r = Idle
      BY <1>6, <2>1, RequestKinds DEF ReqFits, OnStep, Request
  <2>2. CASE r # Idle
    <3>1. r.user \in Accounts /\ IsUser(req[w].user)
        BY <1>1, <1>2, <2>2, EnteringFacts
    <3>2. IsUser(r.user)' /\ sessions'[r.at] # NoSession
        BY <1>1, <1>2, <1>4, <1>5, <2>2, <3>1 DEF RowsStay
    <3>3. QED
        BY <1>2, <1>6, <2>2, <3>2, RequestKinds DEF ReqFits, OnStep, Request
  <2>3. QED
      BY <2>1, <2>2
<1>9. QED
    BY <1>5, <1>6, <1>7, <1>8, StepRowsInv

LEMMA LogoutRowsInv == ASSUME RowsInv, NEW s \in Sessions, Logout(s) PROVE RowsInv'
<1>1. /\ sessions[s] # NoSession /\ sessions' = [sessions EXCEPT ![s].live = FALSE]
      /\ UNCHANGED <<founded, users, claims, links, invites, keys, overrides, req, epoch, doubled, raced>>
    BY DEF Logout
<1>2. sessions' \in [Sessions -> {NoSession} \cup Token] /\ Revokes
    BY <1>1, RevokeOne DEF RowsInv
<1>3. \A b \in Accounts : IsUser(b)' <=> IsUser(b)
    BY <1>1 DEF IsUser
<1>4. RowsStay /\ RowsFit'
    BY <1>1, <1>2, <1>3, RevokeRefs
<1>5. AccessTypeOK'
    BY <1>1, <1>2 DEF RowsInv, AccessTypeOK
<1>6. QED
    BY <1>1, <1>4, <1>5, AsideRowsInv

\* A session and an access token are issued.
LEMMA IssueDoes ==
    ASSUME RowsInv, NEW w \in Workers, Issue(w)
    PROVE  /\ req[w] \in EnteringReq /\ req[w].step = "issue"
           /\ UNCHANGED <<founded, users, links, invites, keys, overrides, epoch, doubled, raced>>
           /\ claims' = claims \cup {[user |-> req[w].user, role |-> req[w].seen.role]}
           /\ req' = [req EXCEPT ![w] = Idle]
           /\ sessions' \in [Sessions -> {NoSession} \cup Token]
           /\ \E f \in Sessions :
                 /\ sessions[f] = NoSession /\ f # req[w].at
                 /\ sessions'[f] \in Token /\ sessions'[f].user = req[w].user /\ sessions'[f].live
                 /\ sessions'[f].began = req[w].began /\ sessions'[f].issued = 0
                 /\ sessions'[f].strayed <=> req[w].strayed \/ epoch[req[w].user] > req[w].epoch
                 /\ req[w].at \in Sessions =>
                       sessions'[req[w].at] = [sessions[req[w].at] EXCEPT !.issued = @ + 1]
                 /\ \A s \in Sessions \ {f, req[w].at} : sessions'[s] = sessions[s]
<1>1. req[w] \in EnteringReq /\ req[w].step = "issue"
    BY StepKind DEF Issue, OnStep
<1>2. /\ req[w].user \in Accounts /\ req[w].began \in Nat /\ req[w].strayed \in BOOLEAN
      /\ req[w].epoch \in Nat /\ epoch[req[w].user] \in Nat
      /\ req[w].at \in Sessions => sessions[req[w].at] \in Token
    BY <1>1, EnteringFacts
<1>3. FreshSession \in Sessions /\ sessions[FreshSession] = NoSession
  <2>1. \E s \in Sessions : sessions[s] = NoSession
      BY DEF Issue
  <2>2. QED
      BY <2>1 DEF FreshSession
<1>4. PICK f \in Sessions : f = FreshSession /\ sessions[f] = NoSession
    BY <1>3
<1>5. f # req[w].at
    BY <1>2, <1>4, NotTokens
<1>6. PICK token : token = [user |-> req[w].user, live |-> TRUE, began |-> req[w].began, issued |-> 0,
                  strayed |-> req[w].strayed \/ epoch[req[w].user] > req[w].epoch]
    OBVIOUS
<1>7. sessions' = [s \in Sessions |->
          IF s = f THEN token
          ELSE IF s = req[w].at THEN [sessions[s] EXCEPT !.issued = @ + 1] ELSE sessions[s]]
    BY <1>4, <1>6 DEF Issue
<1>8. /\ token \in Token /\ token.user = req[w].user /\ token.live
      /\ token.began = req[w].began /\ token.issued = 0
      /\ token.strayed <=> req[w].strayed \/ epoch[req[w].user] > req[w].epoch
    BY <1>2, <1>6 DEF Token
<1>9. /\ sessions'[f] = token
      /\ req[w].at \in Sessions =>
            sessions'[req[w].at] = [sessions[req[w].at] EXCEPT !.issued = @ + 1]
      /\ \A s \in Sessions \ {f, req[w].at} : sessions'[s] = sessions[s]
    BY <1>5, <1>7
<1>10. \A t \in Token : [t EXCEPT !.issued = @ + 1] \in Token
    BY DEF Token
<1>11. sessions' \in [Sessions -> {NoSession} \cup Token]
  <2>1. \A s \in Sessions : sessions[s] \in {NoSession} \cup Token
      BY DEF RowsInv, AccessTypeOK
  <2>2. \A s \in Sessions : sessions'[s] \in {NoSession} \cup Token
      BY <1>2, <1>8, <1>9, <1>10, <2>1
  <2>3. QED
      BY <1>7, <2>2
<1>12. /\ UNCHANGED <<founded, users, links, invites, keys, overrides, epoch, doubled, raced>>
       /\ claims' = claims \cup {[user |-> req[w].user, role |-> req[w].seen.role]}
       /\ req' = [req EXCEPT ![w] = Idle]
    BY DEF Issue, Done
<1>13. QED
    BY <1>1, <1>4, <1>5, <1>8, <1>9, <1>11, <1>12

LEMMA IssueRowsInv == ASSUME RowsInv, NEW w \in Workers, Issue(w) PROVE RowsInv'
<1>1. /\ req[w] \in EnteringReq
      /\ UNCHANGED <<founded, users, links, invites, keys, overrides, epoch, doubled, raced>>
      /\ claims' = claims \cup {[user |-> req[w].user, role |-> req[w].seen.role]}
      /\ req' = [req EXCEPT ![w] = Idle] /\ sessions' \in [Sessions -> {NoSession} \cup Token]
    BY IssueDoes
<1>2. PICK f \in Sessions :
         /\ sessions[f] = NoSession /\ f # req[w].at
         /\ sessions'[f] \in Token /\ sessions'[f].user = req[w].user
         /\ req[w].at \in Sessions =>
               sessions'[req[w].at] = [sessions[req[w].at] EXCEPT !.issued = @ + 1]
         /\ \A s \in Sessions \ {f, req[w].at} : sessions'[s] = sessions[s]
    BY IssueDoes
<1>3. /\ req[w].user \in Accounts /\ req[w].seen \in UserRow /\ IsUser(req[w].user)
      /\ req[w].at \in Sessions => sessions[req[w].at] \in Token
    BY <1>1, EnteringFacts
<1>4. /\ req' \in [Workers -> Request] /\ req'[w] = Idle
      /\ \A v \in Workers \ {w} : req'[v] = req[v]
    BY <1>1, TypedReq, PutReq DEF RowsInv, Request
<1>5. AccessTypeOK'
  <2>1. [user |-> req[w].user, role |-> req[w].seen.role] \in [user : Accounts, role : Roles]
      BY <1>3, UserFacts
  <2>2. QED
      BY <1>1, <1>4, <2>1 DEF RowsInv, AccessTypeOK, Request
<1>6. \A t \in Token : /\ [t EXCEPT !.issued = @ + 1] \in Token
                       /\ [t EXCEPT !.issued = @ + 1].user = t.user
    BY DEF Token
<1>7. \A s \in Sessions : /\ sessions[s] # NoSession => sessions'[s] # NoSession
                          /\ sessions'[s] # NoSession => \/ sessions'[s].user = req[w].user
                                                         \/ /\ sessions[s] # NoSession
                                                            /\ sessions'[s].user = sessions[s].user
    BY <1>2, <1>3, <1>6, NotTokens
<1>8. RowsStay
    BY <1>1, <1>7 DEF RowsStay, IsUser
<1>9. RowsFit'
    BY <1>1, <1>3, <1>7 DEF RowsFit, RowsInv, RefersToUsers, IsUser
<1>10. ReqFits(w)'
    BY <1>4, RequestKinds DEF ReqFits, OnStep, Request
<1>11. QED
    BY <1>4, <1>5, <1>8, <1>9, <1>10, StepRowsInv

LEMMA DoneReq ==
    ASSUME RowsInv, NEW w \in Workers, Done(w)
    PROVE  /\ req' \in [Workers -> Request] /\ req'[w] = Idle /\ ReqFits(w)'
           /\ \A v \in Workers \ {w} : req'[v] = req[v]
<1>1. /\ req' \in [Workers -> Request] /\ req'[w] = Idle
      /\ \A v \in Workers \ {w} : req'[v] = req[v]
    BY TypedReq, PutReq DEF RowsInv, Done, Request
<1>2. ReqFits(w)'
    BY <1>1, RequestKinds DEF ReqFits, OnStep, Request
<1>3. QED
    BY <1>1, <1>2

\* The password reset.
LEMMA ResetDoes ==
    ASSUME RowsInv, NEW w \in Workers, ResetPassword(w)
    PROVE  /\ req[w].at \in Links /\ links[req[w].at] # NoLink /\ req[w].step = "reset"
           /\ links[req[w].at].user \in Accounts /\ IsUser(links[req[w].at].user)
           /\ links[req[w].at].used \in Nat
           /\ links' = [links EXCEPT ![req[w].at].used = @ + 1]
           /\ \E row \in UserRow :
                /\ users' = [users EXCEPT ![links[req[w].at].user] = row]
                /\ row.role = users[links[req[w].at].user].role /\ row.failures = 0
                /\ row.lock = "none" /\ row.active = users[links[req[w].at].user].active
           /\ EndSessions(links[req[w].at].user) /\ Done(w)
           /\ UNCHANGED <<founded, claims, invites, keys, overrides, doubled, raced>>
<1>1. req[w].at \in Links /\ links[req[w].at] # NoLink /\ req[w].step = "reset"
    BY StepKind DEF ResetPassword, OnStep, ReqFits
<1>2. links[req[w].at] \in [user : Emails, used : Nat]
    BY <1>1 DEF RowsInv, AccessTypeOK
<1>3. links[req[w].at].user \in Accounts /\ links[req[w].at].used \in Nat
      /\ IsUser(links[req[w].at].user)
    BY <1>1, <1>2, IdsApart DEF RowsInv, RefersToUsers
<1> DEFINE row == [users[links[req[w].at].user] EXCEPT !.failures = 0, !.lock = "none"]
<1>4. users[links[req[w].at].user] \in UserRow
    BY <1>3, UserRows DEF RowsInv
<1>5. /\ row \in UserRow /\ row.role = users[links[req[w].at].user].role /\ row.failures = 0
      /\ row.lock = "none" /\ row.active = users[links[req[w].at].user].active
    BY <1>4 DEF UserRow
<1>6. users' = [users EXCEPT ![links[req[w].at].user] = row]
    BY DEF ResetPassword
<1>7. /\ links' = [links EXCEPT ![req[w].at].used = @ + 1]
      /\ EndSessions(links[req[w].at].user) /\ Done(w)
      /\ UNCHANGED <<founded, claims, invites, keys, overrides, doubled, raced>>
    BY DEF ResetPassword
<1> HIDE DEF row
<1>8. QED
    BY <1>1, <1>3, <1>5, <1>6, <1>7

LEMMA UseLink ==
    ASSUME AccessTypeOK, NEW l \in Links, links[l] # NoLink,
           links' = [links EXCEPT ![l].used = @ + 1]
    PROVE  /\ links' \in [Links -> {NoLink} \cup [user : Emails, used : Nat]]
           /\ links'[l] # NoLink /\ links'[l].user = links[l].user
           /\ links'[l].used = links[l].used + 1
           /\ \A m \in Links \ {l} : links'[m] = links[m]
<1>1. /\ links \in [Links -> {NoLink} \cup [user : Emails, used : Nat]]
      /\ links[l] \in [user : Emails, used : Nat]
    BY DEF AccessTypeOK
<1>2. PICK row : row = [links[l] EXCEPT !.used = @ + 1]
    OBVIOUS
<1>3. /\ row \in [user : Emails, used : Nat] /\ row.user = links[l].user
      /\ row.used = links[l].used + 1
    BY <1>1, <1>2
<1>4. row # NoLink
    BY <1>3, IdsApart DEF NoLink
<1>5. links' = [links EXCEPT ![l] = row]
    BY <1>2
<1>6. links'[l] = row /\ \A m \in Links \ {l} : links'[m] = links[m]
    BY <1>1, <1>5
<1>7. links' \in [Links -> {NoLink} \cup [user : Emails, used : Nat]]
    BY <1>1, <1>3, <1>5
<1>8. QED
    BY <1>3, <1>4, <1>6, <1>7

LEMMA ResetRowsInv == ASSUME RowsInv, NEW w \in Workers, ResetPassword(w) PROVE RowsInv'
<1>1. PICK l \in Links : l = req[w].at
    BY ResetDoes
<1>2. /\ links[l] # NoLink /\ links[l].user \in Accounts /\ IsUser(links[l].user)
      /\ links' = [links EXCEPT ![l].used = @ + 1] /\ EndSessions(links[l].user) /\ Done(w)
      /\ UNCHANGED <<founded, claims, invites, keys, overrides, doubled, raced>>
    BY <1>1, ResetDoes
<1>3. PICK row \in UserRow : users' = [users EXCEPT ![links[l].user] = row]
    BY <1>1, ResetDoes
<1>4. /\ users' \in [Accounts -> {NoUser} \cup UserRow]
      /\ \A b \in Accounts : IsUser(b)' <=> IsUser(b)
    BY <1>2, <1>3, KeepUsers
<1>5. sessions' \in [Sessions -> {NoSession} \cup Token] /\ Revokes /\ epoch' \in [Accounts -> Nat]
    BY <1>2, EndSessionsFacts DEF RowsInv
<1>6. /\ links' \in [Links -> {NoLink} \cup [user : Emails, used : Nat]]
      /\ links'[l] # NoLink /\ links'[l].user = links[l].user
      /\ \A m \in Links \ {l} : links'[m] = links[m]
    BY <1>2, UseLink DEF RowsInv
<1>7. /\ \A m \in Links : links'[m] # NoLink => links[m] # NoLink /\ links'[m].user = links[m].user
      /\ \A m \in Links : links[m] # NoLink => links'[m] # NoLink
    BY <1>2, <1>6
<1>8. RowsStay /\ RowsFit'
    BY <1>2, <1>4, <1>5, <1>7, RevokeRefs
<1>9. /\ req' \in [Workers -> Request] /\ ReqFits(w)'
      /\ \A v \in Workers \ {w} : req'[v] = req[v]
    BY <1>2, DoneReq
<1>10. AccessTypeOK'
    BY <1>2, <1>4, <1>5, <1>6, <1>9 DEF RowsInv, AccessTypeOK, Request
<1>11. QED
    BY <1>8, <1>9, <1>10, StepRowsInv

LEMMA RequestResetRowsInv ==
    ASSUME RowsInv, NEW a \in Emails, NEW l \in Links, RequestReset(a, l) PROVE RowsInv'
<1>1. /\ IsUser(a) /\ links[l] = NoLink /\ links' = [links EXCEPT ![l] = [user |-> a, used |-> 0]]
      /\ UNCHANGED <<founded, users, sessions, claims, invites, keys, overrides, req, epoch, doubled, raced>>
      /\ links \in [Links -> {NoLink} \cup [user : Emails, used : Nat]]
    BY DEF RequestReset, RowsInv, AccessTypeOK
<1>2. PICK row \in [user : Emails, used : Nat] : row.user = a /\ row = [user |-> a, used |-> 0]
    OBVIOUS
<1>3. row # NoLink
    BY IdsApart DEF NoLink
<1>4. links' = [links EXCEPT ![l] = row]
    BY <1>1, <1>2
<1>5. /\ links' \in [Links -> {NoLink} \cup [user : Emails, used : Nat]] /\ links'[l] = row
      /\ \A m \in Links \ {l} : links'[m] = links[m]
    BY <1>1, <1>4
<1>6. AccessTypeOK'
    BY <1>1, <1>5 DEF RowsInv, AccessTypeOK
<1>7. RowsStay
    BY <1>1, <1>3, <1>5 DEF RowsStay, IsUser
<1>8. RowsFit'
    BY <1>1, <1>2, <1>5 DEF RowsFit, RowsInv, RefersToUsers, IsUser
<1>9. QED
    BY <1>1, <1>6, <1>7, <1>8, AsideRowsInv

LEMMA DeactivateDoes ==
    ASSUME RowsInv, NEW w \in Workers, Deactivate(w)
    PROVE  /\ req[w] \in ManageReq /\ req[w].step = "deactivate"
           /\ req[w].at \in Accounts /\ IsUser(req[w].at)
           /\ \E row \in UserRow :
                /\ users' = [users EXCEPT ![req[w].at] = row]
                /\ row.role = users[req[w].at].role /\ row.failures = users[req[w].at].failures
                /\ row.lock = users[req[w].at].lock
           /\ EndSessions(req[w].at) /\ Done(w)
           /\ UNCHANGED <<founded, claims, links, invites, keys, overrides, doubled>>
           /\ raced' \in BOOLEAN
<1>1. req[w] \in ManageReq /\ req[w].step = "deactivate" /\ GivenFits(req[w])
    BY StepKind DEF Deactivate, OnStep, ReqFits
<1>2. req[w].at \in Accounts /\ IsUser(req[w].at)
    BY <1>1 DEF ManageReq, GivenFits
<1>3. users[req[w].at] \in UserRow
    BY <1>2, UserRows DEF RowsInv
<1> DEFINE row == [users[req[w].at] EXCEPT !.active = FALSE]
<1>4. /\ row \in UserRow /\ row.role = users[req[w].at].role
      /\ row.failures = users[req[w].at].failures /\ row.lock = users[req[w].at].lock
    BY <1>3 DEF UserRow
<1>5. users' = [users EXCEPT ![req[w].at] = row]
    BY DEF Deactivate
<1>6. /\ EndSessions(req[w].at) /\ Done(w)
      /\ UNCHANGED <<founded, claims, links, invites, keys, overrides, doubled>>
    BY DEF Deactivate
<1>7. raced' \in BOOLEAN
  <2>1. raced \in BOOLEAN
      BY DEF RowsInv, AccessTypeOK
  <2>2. Races(w) \in BOOLEAN
      BY DEF Races
  <2>3. QED
      BY <2>1, <2>2 DEF Deactivate
<1> HIDE DEF row
<1>8. QED
    BY <1>1, <1>2, <1>4, <1>5, <1>6, <1>7

LEMMA DeactivateRowsInv == ASSUME RowsInv, NEW w \in Workers, Deactivate(w) PROVE RowsInv'
<1>1. PICK a \in Accounts : a = req[w].at
    BY DeactivateDoes
<1>2. /\ IsUser(a) /\ EndSessions(a) /\ Done(w) /\ raced' \in BOOLEAN
      /\ UNCHANGED <<founded, claims, links, invites, keys, overrides, doubled>>
    BY <1>1, DeactivateDoes
<1>3. PICK row \in UserRow : users' = [users EXCEPT ![a] = row]
    BY <1>1, DeactivateDoes
<1>4. /\ users' \in [Accounts -> {NoUser} \cup UserRow]
      /\ \A b \in Accounts : IsUser(b)' <=> IsUser(b)
    BY <1>2, <1>3, KeepUsers
<1>5. sessions' \in [Sessions -> {NoSession} \cup Token] /\ Revokes /\ epoch' \in [Accounts -> Nat]
    BY <1>2, EndSessionsFacts DEF RowsInv
<1>6. RowsStay /\ RowsFit'
    BY <1>2, <1>4, <1>5, RevokeRefs
<1>7. /\ req' \in [Workers -> Request] /\ ReqFits(w)'
      /\ \A v \in Workers \ {w} : req'[v] = req[v]
    BY <1>2, DoneReq
<1>8. AccessTypeOK'
    BY <1>2, <1>4, <1>5, <1>7 DEF RowsInv, AccessTypeOK, Request
<1>9. QED
    BY <1>6, <1>7, <1>8, StepRowsInv

\* Rows that refer to no account are written.
LEMMA PlainRows ==
    ASSUME RowsInv, UNCHANGED <<users, sessions, links>>,
           \A i \in Invites : invites[i] # NoInvite => invites'[i] # NoInvite,
           \A r \in Robots : keys'[r] = "none" <=> keys[r] = "none"
    PROVE  RowsStay /\ RowsFit'
<1>1. RowsStay
    BY DEF RowsStay, IsUser
<1>2. RowsFit'
    BY DEF RowsFit, RowsInv, RefersToUsers, IsUser
<1>3. QED
    BY <1>1, <1>2

LEMMA InvitesTyped ==
    ASSUME AccessTypeOK, NEW i \in Invites,
           NEW row \in {Revoked} \cup [email : Emails, role : Roles, accepted : BOOLEAN],
           invites' = [invites EXCEPT ![i] = row]
    PROVE  /\ invites' \in [Invites -> {NoInvite, Revoked} \cup
                                        [email : Emails, role : Roles, accepted : BOOLEAN]]
           /\ invites'[i] = row /\ row # NoInvite
           /\ \A j \in Invites \ {i} : invites'[j] = invites[j]
           /\ \A j \in Invites : invites[j] # NoInvite => invites'[j] # NoInvite
<1>1. invites \in [Invites -> {NoInvite, Revoked} \cup
                               [email : Emails, role : Roles, accepted : BOOLEAN]]
    BY DEF AccessTypeOK
<1>2. row # NoInvite
  <2>1. NoInvite.email = "none" /\ Revoked.email = "revoked"
      BY DEF NoInvite, Revoked
  <2>2. row \in [email : Emails, role : Roles, accepted : BOOLEAN] => row.email \in Emails
      OBVIOUS
  <2>3. QED
      BY <2>1, <2>2, IdsApart
<1>3. QED
    BY <1>1, <1>2

LEMMA SendDoes ==
    ASSUME RowsInv, NEW w \in Workers, SendInvite(w)
    PROVE  /\ req[w] \in ManageReq /\ req[w].step = "invite" /\ req[w].at \in Emails
           /\ Done(w)
           /\ UNCHANGED <<founded, users, sessions, claims, links, keys, overrides, epoch, doubled, raced>>
           /\ \E i \in Invites, row \in [email : Emails, role : Roles, accepted : BOOLEAN] :
                 /\ invites[i] = NoInvite /\ invites' = [invites EXCEPT ![i] = row]
                 /\ row.email = req[w].at
<1>1. req[w] \in ManageReq /\ req[w].step = "invite" /\ GivenFits(req[w])
    BY StepKind DEF SendInvite, OnStep, ReqFits
<1>2. req[w].at \in Emails /\ req[w].given \in Roles
    BY <1>1 DEF GivenFits
<1>3. PICK i \in Invites : /\ invites[i] = NoInvite
                           /\ invites' = [invites EXCEPT ![i] = [email |-> req[w].at,
                                 role |-> req[w].given, accepted |-> FALSE]]
    BY DEF SendInvite
<1>4. PICK row : row = [email |-> req[w].at, role |-> req[w].given, accepted |-> FALSE]
    OBVIOUS
<1>5. row \in [email : Emails, role : Roles, accepted : BOOLEAN] /\ row.email = req[w].at
    BY <1>2, <1>4
<1>6. QED
    BY <1>1, <1>2, <1>3, <1>4, <1>5 DEF SendInvite

LEMMA RevokeInviteDoes ==
    ASSUME RowsInv, NEW w \in Workers, RevokeInvite(w)
    PROVE  /\ req[w].at \in Invites /\ invites' = [invites EXCEPT ![req[w].at] = Revoked]
           /\ UNCHANGED <<founded, users, sessions, claims, links, keys, overrides, epoch, doubled, raced>>
           /\ Done(w)
BY StepKind DEF RevokeInvite

LEMMA InvitesRowsInv ==
    ASSUME RowsInv, NEW w \in Workers, SendInvite(w) \/ RevokeInvite(w)
    PROVE  RowsInv'
<1>1. /\ UNCHANGED <<founded, users, sessions, claims, links, keys, overrides, epoch, doubled, raced>>
      /\ Done(w)
    BY SendDoes, RevokeInviteDoes
<1>2. PICK i \in Invites, row \in {Revoked} \cup [email : Emails, role : Roles, accepted : BOOLEAN] :
         invites' = [invites EXCEPT ![i] = row]
    BY SendDoes, RevokeInviteDoes
<1>3. /\ invites' \in [Invites -> {NoInvite, Revoked} \cup
                                   [email : Emails, role : Roles, accepted : BOOLEAN]]
      /\ \A j \in Invites : invites[j] # NoInvite => invites'[j] # NoInvite
    BY <1>2, InvitesTyped DEF RowsInv
<1>4. RowsStay /\ RowsFit'
    BY <1>1, <1>3, PlainRows
<1>5. /\ req' \in [Workers -> Request] /\ ReqFits(w)'
      /\ \A v \in Workers \ {w} : req'[v] = req[v]
    BY <1>1, DoneReq
<1>6. AccessTypeOK'
    BY <1>1, <1>3, <1>5 DEF RowsInv, AccessTypeOK, Request
<1>7. QED
    BY <1>4, <1>5, <1>6, StepRowsInv

LEMMA KeyRowsInv == ASSUME RowsInv, NEW w \in Workers, MintKey(w) PROVE RowsInv'
<1>1. req[w] \in ManageReq /\ req[w].step = "key" /\ GivenFits(req[w])
    BY StepKind DEF MintKey, OnStep, ReqFits
<1>2. PICK r \in Robots, role \in Roles : r = req[w].at /\ role = req[w].given
    BY <1>1 DEF GivenFits
<1>3. /\ ~ IsUser(r) /\ Done(w) /\ users' = [users EXCEPT ![r] = NewUser(role)]
      /\ keys' = [keys EXCEPT ![r] = "live"]
      /\ UNCHANGED <<founded, sessions, claims, links, invites, overrides, epoch, doubled, raced>>
      /\ keys \in [Robots -> KeyStates] /\ users \in [Accounts -> {NoUser} \cup UserRow]
    BY <1>2 DEF MintKey, RowsInv, AccessTypeOK
<1>4. NewUser(role) \in UserRow /\ r \in Accounts
    BY IdsApart, UserFacts
<1>5. /\ users' \in [Accounts -> {NoUser} \cup UserRow] /\ IsUser(r)'
      /\ \A b \in Accounts \ {r} : users'[b] = users[b]
      /\ \A b \in Accounts : IsUser(b) => IsUser(b)'
    BY <1>3, <1>4, PutUser
<1>6. /\ keys' \in [Robots -> KeyStates] /\ keys'[r] = "live"
      /\ \A b \in Robots \ {r} : keys'[b] = keys[b]
    BY <1>3 DEF KeyStates
<1>7. RowsStay
    BY <1>3, <1>5 DEF RowsStay
<1>8. RowsFit'
  <2>1. /\ \A s \in Sessions : sessions[s] # NoSession => sessions[s].user \in Accounts
        /\ \A l \in Links : links[l] # NoLink => links[l].user \in Accounts
      BY IdsApart DEF RowsInv, AccessTypeOK, Token
  <2>2. \A b \in Robots \ {r} : IsUser(b)' <=> IsUser(b)
      BY <1>5, IdsApart DEF IsUser
  <2>3. QED
      BY <1>3, <1>5, <1>6, <2>1, <2>2 DEF RowsFit, RowsInv, RefersToUsers
<1>9. /\ req' \in [Workers -> Request] /\ ReqFits(w)'
      /\ \A v \in Workers \ {w} : req'[v] = req[v]
    BY <1>3, DoneReq
<1>10. AccessTypeOK'
    BY <1>3, <1>5, <1>6, <1>9 DEF RowsInv, AccessTypeOK, Request
<1>11. QED
    BY <1>7, <1>8, <1>9, <1>10, StepRowsInv

LEMMA OverrideRowsInv == ASSUME RowsInv, NEW w \in Workers, SetOverride(w) PROVE RowsInv'
<1>1. req[w] \in ManageReq /\ req[w].step = "override" /\ GivenFits(req[w])
    BY StepKind DEF SetOverride, OnStep, ReqFits
<1>2. PICK a \in Accounts, row \in Rows : a = req[w].at /\ row = req[w].row
    BY <1>1 DEF GivenFits, ManageReq
<1>3. PICK kept \in SUBSET Rows : overrides' = [overrides EXCEPT ![a] = kept \cup {row}]
  <2>1. overrides[a] \in SUBSET Rows
      BY DEF RowsInv, AccessTypeOK
  <2>2. {o \in overrides[a] : o.subject # row.subject \/ o.action # row.action} \in SUBSET Rows
      BY <2>1
  <2>3. overrides' = [overrides EXCEPT ![a] =
           {o \in overrides[a] : o.subject # row.subject \/ o.action # row.action} \cup {row}]
      BY <1>2 DEF SetOverride
  <2>4. QED
      BY <2>2, <2>3
<1>4. /\ UNCHANGED <<founded, users, sessions, claims, links, invites, keys, epoch, doubled, raced>>
      /\ Done(w)
    BY DEF SetOverride
<1>5. overrides' \in [Accounts -> SUBSET Rows]
    BY <1>3 DEF RowsInv, AccessTypeOK
<1>6. RowsStay /\ RowsFit'
    BY <1>4, PlainRows
<1>7. /\ req' \in [Workers -> Request] /\ ReqFits(w)'
      /\ \A v \in Workers \ {w} : req'[v] = req[v]
    BY <1>4, DoneReq
<1>8. AccessTypeOK'
    BY <1>4, <1>5, <1>7 DEF RowsInv, AccessTypeOK, Request
<1>9. QED
    BY <1>6, <1>7, <1>8, StepRowsInv

LEMMA RemoveOverrideRowsInv ==
    ASSUME RowsInv, NEW by \in Accounts, NEW a \in Accounts, NEW row \in Rows,
           RemoveOverride(by, a, row)
    PROVE  RowsInv'
<1>1. /\ overrides' = [overrides EXCEPT ![a] = overrides[a] \ {row}]
      /\ UNCHANGED <<founded, users, sessions, claims, links, invites, keys, req, epoch, doubled, raced>>
    BY DEF RemoveOverride
<1>2. AccessTypeOK'
    BY <1>1 DEF RowsInv, AccessTypeOK
<1>3. RowsStay /\ RowsFit'
    BY <1>1, PlainRows
<1>4. QED
    BY <1>1, <1>2, <1>3, AsideRowsInv

LEMMA RevokeKeyRowsInv ==
    ASSUME RowsInv, NEW by \in Accounts, NEW r \in Robots, RevokeKey(by, r) PROVE RowsInv'
<1>1. /\ keys[r] = "live" /\ keys' = [keys EXCEPT ![r] = "revoked"]
      /\ UNCHANGED <<founded, users, sessions, claims, links, invites, overrides, req, epoch, doubled, raced>>
      /\ keys \in [Robots -> KeyStates]
    BY DEF RevokeKey, RowsInv, AccessTypeOK
<1>2. keys' \in [Robots -> KeyStates] /\ \A b \in Robots : keys'[b] = "none" <=> keys[b] = "none"
    BY <1>1 DEF KeyStates
<1>3. AccessTypeOK'
    BY <1>1, <1>2 DEF RowsInv, AccessTypeOK
<1>4. RowsStay /\ RowsFit'
    BY <1>1, <1>2, PlainRows
<1>5. QED
    BY <1>1, <1>3, <1>4, AsideRowsInv

\* The accounts that are made for people.
LEMMA AdmitDoes ==
    ASSUME RowsInv, NEW w \in Workers, Admit(w), req[w] \in NewReq
    PROVE  /\ req[w].email \in Emails /\ req[w].role \in Roles /\ ~ IsUser(req[w].email)
           /\ users' = [users EXCEPT ![req[w].email] = NewUser(req[w].role)]
           /\ \E r \in EnteringReq :
                /\ req' = [req EXCEPT ![w] = r] /\ r.step = "issue" /\ r.user = req[w].email
                /\ r.at = req[w].email /\ r.seen = NewUser(req[w].role)
                /\ r.epoch = epoch[req[w].email] /\ r.began = epoch[req[w].email]
                /\ r.strayed = FALSE
<1>1. req[w].email \in Emails /\ req[w].role \in Roles
    BY DEF NewReq, Roles
<1>2. req[w].email \in Accounts /\ NewUser(req[w].role) \in UserRow
    BY <1>1, IdsApart, UserFacts
<1>3. epoch[req[w].email] \in Nat
    BY <1>2, UserRows DEF RowsInv
<1> DEFINE r == [step |-> "issue", user |-> req[w].email, at |-> req[w].email,
                 seen |-> NewUser(req[w].role), epoch |-> epoch[req[w].email],
                 began |-> epoch[req[w].email], strayed |-> FALSE]
<1>4. /\ r \in EnteringReq /\ r.step = "issue" /\ r.user = req[w].email
      /\ r.at = req[w].email /\ r.seen = NewUser(req[w].role)
      /\ r.epoch = epoch[req[w].email] /\ r.began = epoch[req[w].email] /\ r.strayed = FALSE
    BY <1>2, <1>3 DEF EnteringReq
<1>5. req' = [req EXCEPT ![w] = r]
    BY DEF Admit
<1> HIDE DEF r
<1>6. QED
    BY <1>1, <1>4, <1>5 DEF Admit

LEMMA AdmitRowsInv ==
    ASSUME RowsInv, NEW w \in Workers, AcceptInvite(w) \/ Found(w) PROVE RowsInv'
<1>1. req[w] \in NewReq /\ Admit(w)
    BY StepKind DEF AcceptInvite, Found, OnStep
<1>2. PICK e \in Emails, role \in Roles : e = req[w].email /\ role = req[w].role
    BY <1>1, AdmitDoes
<1>3. /\ ~ IsUser(e) /\ users' = [users EXCEPT ![e] = NewUser(role)]
      /\ UNCHANGED <<sessions, claims, links, keys, overrides, epoch, doubled, raced>>
      /\ founded' \in BOOLEAN /\ users \in [Accounts -> {NoUser} \cup UserRow]
    BY <1>1, <1>2, AdmitDoes DEF AcceptInvite, Found, RowsInv, AccessTypeOK
<1>4. PICK r \in EnteringReq : /\ req' = [req EXCEPT ![w] = r] /\ r.step = "issue"
                               /\ r.user = e /\ r.at = e
    BY <1>1, <1>2, AdmitDoes
<1>5. e \in Accounts /\ e \notin Robots /\ e \notin Sessions /\ NewUser(role) \in UserRow
    BY IdsApart, UserFacts
<1>6. /\ users' \in [Accounts -> {NoUser} \cup UserRow] /\ IsUser(e)'
      /\ \A b \in Accounts \ {e} : users'[b] = users[b]
      /\ \A b \in Accounts : IsUser(b) => IsUser(b)'
    BY <1>3, <1>5, PutUser
<1>7. /\ invites' \in [Invites -> {NoInvite, Revoked} \cup
                                   [email : Emails, role : Roles, accepted : BOOLEAN]]
      /\ \A j \in Invites : invites[j] # NoInvite => invites'[j] # NoInvite
  <2>1. CASE invites' = invites
      BY <2>1 DEF RowsInv, AccessTypeOK
  <2>2. CASE invites' # invites
    <3>1. AcceptInvite(w) /\ req[w].at \in Invites
        BY <2>2, StepKind DEF AcceptInvite, Found
    <3>2. invites[req[w].at] \in [email : Emails, role : Roles, accepted : BOOLEAN]
      <4>1. invites[req[w].at] # NoInvite
          BY <3>1, StepKind DEF AcceptInvite, OnStep, ReqFits
      <4>2. invites[req[w].at] # Revoked
          BY <2>2, <3>1 DEF AcceptInvite
      <4>3. QED
          BY <3>1, <4>1, <4>2 DEF RowsInv, AccessTypeOK
    <3>3. PICK row \in [email : Emails, role : Roles, accepted : BOOLEAN] :
             invites' = [invites EXCEPT ![req[w].at] = row]
      <4> DEFINE row == [invites[req[w].at] EXCEPT !.accepted = TRUE]
      <4>1. row \in [email : Emails, role : Roles, accepted : BOOLEAN]
          BY <3>2
      <4>2. invites' = [invites EXCEPT ![req[w].at] = row]
          BY <2>2, <3>1 DEF AcceptInvite
      <4>3. QED
          BY <4>1, <4>2
    <3>4. QED
        BY <3>1, <3>3, InvitesTyped DEF RowsInv
  <2>3. QED
      BY <2>1, <2>2
<1>8. /\ req' \in [Workers -> Request] /\ req'[w] = r
      /\ \A v \in Workers \ {w} : req'[v] = req[v]
    BY <1>4, TypedReq, PutReq DEF RowsInv, Request
<1>9. AccessTypeOK'
    BY <1>3, <1>6, <1>7, <1>8 DEF RowsInv, AccessTypeOK, Request
<1>10. RowsStay
    BY <1>3, <1>6, <1>7 DEF RowsStay
<1>11. RowsFit'
  <2>1. /\ \A s \in Sessions : sessions[s] # NoSession => sessions[s].user \in Accounts
        /\ \A l \in Links : links[l] # NoLink => links[l].user \in Accounts
      BY IdsApart DEF RowsInv, AccessTypeOK, Token
  <2>2. \A b \in Robots : IsUser(b)' <=> IsUser(b)
      BY <1>5, <1>6, IdsApart DEF IsUser
  <2>3. QED
      BY <1>3, <1>6, <2>1, <2>2 DEF RowsFit, RowsInv, RefersToUsers
<1>12. ReqFits(w)'
    BY <1>4, <1>5, <1>6, <1>8, RequestKinds DEF ReqFits, OnStep, Request
<1>13. QED
    BY <1>8, <1>9, <1>10, <1>11, <1>12, StepRowsInv

LEMMA NextRowsInv == ASSUME RowsInv, [AccessNext]_accessVars PROVE RowsInv'
<1>1. CASE AskGuarded
  <2>1. ASSUME NEW by \in Accounts, NEW w \in Workers, NEW a \in Accounts,
               NEW op \in {"role", "invite", "key"}, NEW role \in OfferedRoles,
               Manage(w, by, op, a, role, NoRow)
        PROVE  RowsInv'
    <3>1. role \in Roles /\ op \in Managed /\ op # "override"
        BY AccessAssumption DEF Managed
    <3>2. QED
        BY <2>1, <3>1, ManageRowsInv
  <2>2. ASSUME NEW by \in Accounts, NEW w \in Workers, NEW a \in Accounts,
               Manage(w, by, "deactivate", a, "none", NoRow)
        PROVE  RowsInv'
    <3>1. "deactivate" \in Managed
        BY DEF Managed
    <3>2. QED
        BY <2>2, <3>1, ManageRowsInv
  <2>3. ASSUME NEW by \in Accounts, NEW w \in Workers, NEW a \in Accounts, NEW row \in Rows,
               Manage(w, by, "override", a, "none", row)
        PROVE  RowsInv'
    <3>1. "override" \in Managed
        BY DEF Managed
    <3>2. QED
        BY <2>3, <3>1, ManageRowsInv
  <2>4. ASSUME NEW by \in Accounts, NEW w \in Workers, NEW i \in Invites, FindInvite(w, by, i)
        PROVE  RowsInv'
      BY <2>4, AskInviteRowsInv
  <2>5. QED
      BY <1>1, <2>1, <2>2, <2>3, <2>4, RevokeKeyRowsInv, RemoveOverrideRowsInv DEF AskGuarded
<1>2. CASE AskPublic
    BY <1>2, IdsApart, ApplyRowsInv, LoginRowsInv, RefreshRowsInv, OpenLinkRowsInv, AskInviteRowsInv,
       LogoutRowsInv, RequestResetRowsInv, LockEndsRowsInv DEF AskPublic
<1>3. ASSUME NEW w \in Workers, ServeAccess(w) \/ Found(w) PROVE RowsInv'
    BY <1>3, FailedRowsInv, ClearRowsInv, RotateRowsInv, IssueRowsInv, ResetRowsInv, JudgeRowsInv,
       SetRoleRowsInv, DeactivateRowsInv, InvitesRowsInv, KeyRowsInv, OverrideRowsInv, AdmitRowsInv,
       EndReqRowsInv DEF ServeAccess
<1>4. CASE UNCHANGED accessVars
  <2>1. UNCHANGED <<founded, users, sessions, claims, links, invites, keys, overrides, req, epoch,
                    doubled, raced>>
      BY <1>4 DEF accessVars
  <2>2. AccessTypeOK'
      BY <2>1 DEF RowsInv, AccessTypeOK
  <2>3. RowsStay /\ RowsFit'
      BY <2>1, PlainRows
  <2>4. QED
      BY <2>1, <2>2, <2>3, AsideRowsInv
<1>5. QED
    BY <1>1, <1>2, <1>3, <1>4 DEF AccessNext

-----------------------------------------------------------------------------
(* What the rows say of each other, past one request. *)

\* A request about to issue a session: see EntriesCurrent.
EntryCurrent(w) ==
    req[w] \in EnteringReq =>
        /\ req[w].epoch <= epoch[req[w].user]
        /\ req[w].strayed \/ req[w].epoch < epoch[req[w].user]
           \/ (users[req[w].user].active /\ req[w].began = epoch[req[w].user])

SessionCurrent(s) ==
    sessions[s] # NoSession /\ sessions[s].live =>
        \/ sessions[s].strayed
        \/ users[sessions[s].user].active /\ sessions[s].began = epoch[sessions[s].user]

CurrentInv == (\A s \in Sessions : SessionCurrent(s)) /\ \A w \in Workers : EntryCurrent(w)

CoreInv == RowsInv /\ CurrentInv /\ UsedOnce /\ LockFollowsFailures /\ OwnersRemain

\* Accounts that were there are as active as before, and none had its sessions ended.
SameStanding ==
    /\ epoch' = epoch
    /\ \A a \in Accounts : IsUser(a) => users'[a].active = users[a].active

LEMMA KeepEntry ==
    ASSUME RowsInv, NEW w \in Workers, EntryCurrent(w), req'[w] = req[w], SameStanding
    PROVE  EntryCurrent(w)'
<1>1. CASE req[w] \in EnteringReq
  <2>1. req[w].user \in Accounts /\ IsUser(req[w].user)
      BY <1>1, EnteringFacts
  <2>2. QED
      BY <1>1, <2>1 DEF EntryCurrent, SameStanding
<1>2. CASE req[w] \notin EnteringReq
    BY <1>2 DEF EntryCurrent
<1>3. QED
    BY <1>1, <1>2

LEMMA KeepSession ==
    ASSUME RowsInv, NEW s \in Sessions, SessionCurrent(s), sessions[s] # NoSession, SameStanding,
           sessions'[s].user = sessions[s].user, sessions'[s].began = sessions[s].began,
           sessions'[s].strayed = sessions[s].strayed, sessions'[s].live => sessions[s].live
    PROVE  SessionCurrent(s)'
<1>1. sessions[s].user \in Accounts /\ IsUser(sessions[s].user)
    BY DEF RowsInv, RefersToUsers, AccessTypeOK, Token
<1>2. QED
    BY <1>1 DEF SessionCurrent, SameStanding

LEMMA KeepsCurrent ==
    ASSUME CoreInv, RowsInv', SameStanding, Revokes,
           \A v \in Workers : req'[v] = req[v] \/ EntryCurrent(v)'
    PROVE  CurrentInv'
<1>1. RowsInv /\ CurrentInv
    BY DEF CoreInv
<1>2. \A v \in Workers : EntryCurrent(v)'
    BY <1>1, KeepEntry DEF CurrentInv
<1>3. \A s \in Sessions : SessionCurrent(s)'
  <2>1. AccessTypeOK /\ sessions' \in [Sessions -> {NoSession} \cup Token]
      BY <1>1 DEF RowsInv, AccessTypeOK
  <2>2. SUFFICES ASSUME NEW s \in Sessions PROVE SessionCurrent(s)'
      OBVIOUS
  <2>3. CASE sessions[s] = NoSession
      BY <2>1, <2>3, RevokedFacts DEF SessionCurrent
  <2>4. CASE sessions[s] # NoSession
      BY <1>1, <2>1, <2>4, RevokedFacts, KeepSession DEF CurrentInv
  <2>5. QED
      BY <2>3, <2>4
<1>4. QED
    BY <1>2, <1>3 DEF CurrentInv

\* A request that ends, goes on with what it had, or begins with no session and
\* no link, and is not about to send an invite.
Shrinks(v) ==
    /\ \/ req'[v] = Idle
       \/ req'[v].at \notin Sessions \cup Links
       \/ req[v] # Idle /\ req'[v].at = req[v].at
    /\ req'[v].step = "issue" => \/ req'[v].at \notin Sessions
                                 \/ ~ sessions'[req'[v].at].live
    /\ req'[v].step # "invite"

Follows(v) == req'[v] = req[v] \/ Shrinks(v)

PendingShrinks ==
    \A i \in Invites : \/ invites'[i] = invites[i] \/ invites'[i] = Revoked
                       \/ invites'[i].accepted /\ invites'[i] # NoInvite

SessionUsed(s) ==
    sessions[s] # NoSession => s \in doubled \/
        /\ sessions[s].issued <= 1
        /\ sessions[s].live \/ At(s) # {} => sessions[s].issued = 0
        /\ AtMostOne(At(s))
        /\ \A w \in At(s) : OnStep(w, "issue") => ~ sessions[s].live

LinkUsed(l) ==
    links[l] # NoLink => l \in doubled \/
        /\ links[l].used <= 1
        /\ At(l) # {} => links[l].used = 0
        /\ AtMostOne(At(l))

InviteUsed(e) ==
    e \in doubled \/ /\ AtMostOne(Pending(e)) /\ AtMostOne(Inviting(e))
                     /\ Inviting(e) # {} => Pending(e) = {}

LEMMA UsedParts ==
    UsedOnce <=> /\ \A s \in Sessions : SessionUsed(s)
                 /\ \A l \in Links : LinkUsed(l)
                 /\ \A e \in Emails : InviteUsed(e)
BY DEF UsedOnce, SessionUsed, LinkUsed, InviteUsed

LEMMA AtShrinks ==
    ASSUME NEW thing \in Sessions \cup Links, \A v \in Workers : Follows(v)
    PROVE  At(thing)' \subseteq At(thing)
BY DEF At, Follows, Shrinks

LEMMA KeepSessionUsed ==
    ASSUME NEW s \in Sessions, SessionUsed(s), sessions[s] # NoSession, doubled \subseteq doubled',
           sessions'[s].issued = sessions[s].issued, sessions'[s].live => sessions[s].live,
           \A v \in Workers : Follows(v)
    PROVE  SessionUsed(s)'
<1>1. At(s)' \subseteq At(s)
    BY AtShrinks
<1>2. ASSUME NEW v \in Workers, v \in At(s)', OnStep(v, "issue")', s \notin doubled
      PROVE  ~ sessions'[s].live
  <2>1. CASE req'[v] = req[v]
      BY <1>1, <1>2, <2>1 DEF SessionUsed, OnStep
  <2>2. CASE Shrinks(v)
      BY <1>2, <2>2 DEF Shrinks, At, OnStep
  <2>3. QED
      BY <2>1, <2>2 DEF Follows
<1>3. At(s)' \subseteq Workers
    BY DEF At
<1>4. QED
    BY <1>1, <1>2, <1>3 DEF SessionUsed, AtMostOne

LEMMA KeepLinkUsed ==
    ASSUME NEW l \in Links, LinkUsed(l), links'[l] = links[l], doubled \subseteq doubled',
           \A v \in Workers : Follows(v)
    PROVE  LinkUsed(l)'
<1>1. At(l)' \subseteq At(l)
    BY AtShrinks
<1>2. QED
    BY <1>1 DEF LinkUsed, AtMostOne

LEMMA PendingFalls ==
    ASSUME NEW e \in Emails, PendingShrinks PROVE Pending(e)' \subseteq Pending(e)
BY IdsApart, AccessAssumption DEF Pending, PendingShrinks, Revoked

LEMMA InvitingFalls ==
    ASSUME NEW e \in Emails, \A v \in Workers : Follows(v) PROVE Inviting(e)' \subseteq Inviting(e)
BY DEF Inviting, Follows, Shrinks, OnStep

LEMMA KeepInviteUsed ==
    ASSUME NEW e \in Emails, InviteUsed(e), doubled \subseteq doubled',
           Pending(e)' \subseteq Pending(e), Inviting(e)' \subseteq Inviting(e)
    PROVE  InviteUsed(e)'
BY DEF InviteUsed, AtMostOne

\* A session that has just been made has no request at it.
LEMMA NobodyAt ==
    ASSUME RowsInv
    PROVE  /\ \A s \in Sessions : sessions[s] = NoSession => At(s) = {}
           /\ \A l \in Links : links[l] = NoLink => At(l) = {}
<1>1. ASSUME NEW v \in Workers, req[v] # Idle
      PROVE  /\ req[v].at \in Sessions => sessions[req[v].at] # NoSession
             /\ req[v].at \in Links => links[req[v].at] # NoLink
  <2>1. req[v] \in Request /\ ReqFits(v)
      BY StepKind
  <2>2. /\ req[v].at \in Sessions => req[v] \in EnteringReq
        /\ req[v].at \in Links => OnStep(v, "reset")
      BY <1>1, <2>1, RequestAt, RequestKinds DEF OnStep
  <2>3. QED
      BY <2>1, <2>2 DEF ReqFits
<1>2. QED
    BY <1>1 DEF At

LEMMA KeepsUsed ==
    ASSUME CoreInv, RowsInv', Revokes, links' = links, PendingShrinks, doubled \subseteq doubled',
           \A v \in Workers : Follows(v)
    PROVE  UsedOnce'
<1>1. /\ \A s \in Sessions : SessionUsed(s)
      /\ \A l \in Links : LinkUsed(l)
      /\ \A e \in Emails : InviteUsed(e)
    BY UsedParts DEF CoreInv
<1>2. AccessTypeOK /\ sessions' \in [Sessions -> {NoSession} \cup Token]
    BY DEF CoreInv, RowsInv, AccessTypeOK
<1>3. \A s \in Sessions : SessionUsed(s)'
  <2>1. SUFFICES ASSUME NEW s \in Sessions PROVE SessionUsed(s)'
      OBVIOUS
  <2>2. CASE sessions[s] = NoSession
      BY <1>2, <2>2, RevokedFacts DEF SessionUsed
  <2>3. CASE sessions[s] # NoSession
      BY <1>1, <1>2, <2>3, RevokedFacts, KeepSessionUsed
  <2>4. QED
      BY <2>2, <2>3
<1>4. \A l \in Links : LinkUsed(l)'
    BY <1>1, KeepLinkUsed
<1>5. \A e \in Emails : InviteUsed(e)'
    BY <1>1, PendingFalls, InvitingFalls, KeepInviteUsed
<1>6. QED
    BY <1>3, <1>4, <1>5 DEF UsedOnce, SessionUsed, LinkUsed, InviteUsed

LEMMA KeepsLocks ==
    ASSUME LockFollowsFailures,
           \A a \in Accounts : users'[a] = users[a] \/ LockFits(users'[a]),
           \A v \in Workers : \/ req'[v] = req[v]
                              \/ req'[v] \in EnteringReq => LockFits(req'[v].seen)
    PROVE  LockFollowsFailures'
BY DEF LockFollowsFailures, LockFits, IsUser

\* Owners stay owners, and active ones active.
OwnersStay ==
    \A a \in Accounts : users[a].role = "owner" =>
        users'[a].role = "owner" /\ (users[a].active => users'[a].active)

LEMMA KeepsOwners ==
    ASSUME OwnersRemain, OwnersStay, raced' = raced, founded' => founded \/ Owners' # {},
           \A v \in Workers : req'[v] = req[v] \/ (req'[v] \in ManageReq => ~ req'[v].takes)
    PROVE  OwnersRemain'
<1>1. Owners \subseteq Owners' /\ ActiveOwners \subseteq ActiveOwners'
    BY DEF Owners, ActiveOwners, OwnersStay
<1>2. CASE raced
    BY <1>2 DEF OwnersRemain
<1>3. CASE ~ raced
  <2>1. founded' => Owners' # {}
      BY <1>1, <1>3 DEF OwnersRemain
  <2>2. ASSUME NEW v \in Workers, req'[v] \in ManageReq, req'[v].takes
        PROVE  /\ OnStep(v, "role")' => Owners' \ {req'[v].at} # {}
               /\ OnStep(v, "deactivate")' => ActiveOwners' \ {req'[v].at} # {}
    <3>1. req'[v] = req[v]
        BY <2>2
    <3>2. /\ OnStep(v, "role") => Owners \ {req[v].at} # {}
          /\ OnStep(v, "deactivate") => ActiveOwners \ {req[v].at} # {}
        BY <1>3, <2>2, <3>1 DEF OwnersRemain
    <3>3. QED
        BY <1>1, <3>1, <3>2 DEF OnStep
  <2>3. QED
      BY <2>1, <2>2 DEF OwnersRemain
<1>4. QED
    BY <1>2, <1>3

\* What a request may do without a doubt about any of it.
Quiet(v) ==
    /\ Shrinks(v)
    /\ req'[v] \in EnteringReq => EntryCurrent(v)' /\ LockFits(req'[v].seen)
    /\ req'[v] \in ManageReq => ~ req'[v].takes

UserQuiet(a) ==
    users'[a] = users[a] \/
        /\ LockFits(users'[a])
        /\ IsUser(a) => users'[a].role = users[a].role /\ users'[a].active = users[a].active

LEMMA QuietStep ==
    ASSUME CoreInv, RowsInv', epoch' = epoch, Revokes, links' = links, PendingShrinks,
           doubled \subseteq doubled', raced' = raced, founded' => founded \/ Owners' # {},
           \A a \in Accounts : UserQuiet(a),
           \A v \in Workers : req'[v] = req[v] \/ Quiet(v)
    PROVE  CoreInv'
<1>1. SameStanding
    BY DEF SameStanding, UserQuiet
<1>2. \A v \in Workers : req'[v] = req[v] \/ EntryCurrent(v)'
    BY DEF Quiet, EntryCurrent
<1>3. CurrentInv'
    BY <1>1, <1>2, KeepsCurrent
<1>4. \A v \in Workers : Follows(v)
    BY DEF Quiet, Follows
<1>5. UsedOnce'
    BY <1>4, KeepsUsed
<1>6. LockFollowsFailures'
  <2>1. LockFollowsFailures
      BY DEF CoreInv
  <2>2. QED
      BY <2>1, KeepsLocks DEF UserQuiet, Quiet
<1>7. OwnersRemain'
  <2>1. OwnersStay
    <3>1. \A a \in Accounts : users[a].role = "owner" => IsUser(a)
        BY UserFacts DEF IsUser, NoUser
    <3>2. QED
        BY <3>1 DEF OwnersStay, UserQuiet
  <2>2. OwnersRemain
      BY DEF CoreInv
  <2>3. QED
      BY <2>1, <2>2, KeepsOwners DEF Quiet
<1>8. QED
    BY <1>3, <1>5, <1>6, <1>7 DEF CoreInv

LEMMA SameSessions == ASSUME AccessTypeOK, sessions' = sessions PROVE Revokes
BY DEF Revokes, AccessTypeOK

\* A quiet step of one request that writes that request only.
LEMMA QuietRequest ==
    ASSUME CoreInv, RowsInv', NEW w \in Workers, NEW r \in Request, req' = [req EXCEPT ![w] = r],
           UNCHANGED <<users, epoch, sessions, links, raced, founded>>, PendingShrinks,
           doubled \subseteq doubled', Quiet(w)
    PROVE  CoreInv'
<1>1. AccessTypeOK /\ \A v \in Workers \ {w} : req'[v] = req[v]
    BY TypedReq DEF CoreInv, RowsInv
<1>2. Revokes
    BY <1>1, SameSessions
<1>3. \A a \in Accounts : UserQuiet(a)
    BY DEF UserQuiet
<1>4. \A v \in Workers : req'[v] = req[v] \/ Quiet(v)
    BY <1>1
<1>5. QED
    BY <1>2, <1>3, <1>4, QuietStep

LEMMA SameInvites == ASSUME invites' = invites PROVE PendingShrinks
BY DEF PendingShrinks

\* A request that is done, or that begins with none of what Quiet asks about.
LEMMA PlainQuiet ==
    ASSUME NEW w \in Workers, NEW r \in Request, req'[w] = r,
           r = Idle \/ r.at \notin Sessions \cup Links, r \notin EnteringReq, r.step # "invite",
           r \in ManageReq => ~ r.takes
    PROVE  Quiet(w)
<1>1. r.step # "issue"
    BY RequestKinds
<1>2. QED
    BY <1>1 DEF Quiet, Shrinks

LEMMA IdleQuiet ==
    ASSUME NEW w \in Workers, req \in [Workers -> Request], req' = [req EXCEPT ![w] = Idle]
    PROVE  Quiet(w) /\ \A v \in Workers \ {w} : req'[v] = req[v]
<1>1. Idle \in Request /\ req'[w] = Idle
    BY DEF Request
<1>2. Idle \notin EnteringReq /\ Idle \notin ManageReq /\ Idle.step # "invite"
    BY <1>1, RequestKinds
<1>3. QED
    BY <1>1, <1>2, PlainQuiet

LEMMA FailCore == ASSUME CoreInv, RowsInv', NEW w \in Workers, FailRequest(w) PROVE CoreInv'
<1>1. /\ UNCHANGED <<users, epoch, sessions, links, invites, raced, founded, doubled>>
      /\ req' = [req EXCEPT ![w] = Idle] /\ Idle \in Request
    BY DEF FailRequest, Done, Request
<1>2. Quiet(w)
    BY <1>1, TypedReq, IdleQuiet DEF CoreInv, RowsInv
<1>3. QED
    BY <1>1, <1>2, SameInvites, QuietRequest

LEMMA OverrideCore == ASSUME CoreInv, RowsInv', NEW w \in Workers, SetOverride(w) PROVE CoreInv'
<1>1. /\ UNCHANGED <<users, epoch, sessions, links, invites, raced, founded, doubled>>
      /\ req' = [req EXCEPT ![w] = Idle] /\ Idle \in Request
    BY DEF SetOverride, Done, Request
<1>2. Quiet(w)
    BY <1>1, TypedReq, IdleQuiet DEF CoreInv, RowsInv
<1>3. QED
    BY <1>1, <1>2, SameInvites, QuietRequest

LEMMA RevokeInviteCore ==
    ASSUME CoreInv, RowsInv', NEW w \in Workers, RevokeInvite(w) PROVE CoreInv'
<1>1. /\ UNCHANGED <<users, epoch, sessions, links, raced, founded, doubled>>
      /\ req' = [req EXCEPT ![w] = Idle] /\ Idle \in Request
      /\ req[w].at \in Invites /\ invites' = [invites EXCEPT ![req[w].at] = Revoked]
    BY RevokeInviteDoes DEF Done, Request, CoreInv
<1>2. Quiet(w)
    BY <1>1, TypedReq, IdleQuiet DEF CoreInv, RowsInv
<1>3. PendingShrinks
    BY <1>1 DEF PendingShrinks, CoreInv, RowsInv, AccessTypeOK
<1>4. QED
    BY <1>1, <1>2, <1>3, QuietRequest

\* A request begins that has a place of its own, and nothing of it is in doubt.
LEMMA BeginCore ==
    ASSUME CoreInv, RowsInv', NEW w \in Workers, NEW r \in LinkReq \cup NewReq \cup ManageReq,
           req' = [req EXCEPT ![w] = r], r.at \notin Sessions \cup Links, r.step # "invite",
           r \in ManageReq => ~ r.takes,
           UNCHANGED <<users, epoch, sessions, links, invites, raced, founded, doubled>>
    PROVE  CoreInv'
<1>1. r \in Request
    BY DEF Request
<1>2. req'[w] = r
    BY <1>1, TypedReq, PutReq DEF CoreInv, RowsInv
<1>3. r \notin EnteringReq
    BY <1>1, RequestKinds
<1>4. Quiet(w)
    BY <1>1, <1>2, <1>3, PlainQuiet
<1>5. QED
    BY <1>1, <1>4, SameInvites, QuietRequest

LEMMA AskInviteCore ==
    ASSUME CoreInv, RowsInv', NEW w \in Workers, NEW i \in Invites,
           OpenInvite(w, i) \/ \E by \in Accounts : FindInvite(w, by, i)
    PROVE  CoreInv'
<1>1. /\ AccessTypeOK /\ invites[i] \notin {NoInvite, Revoked}
      /\ UNCHANGED <<users, epoch, sessions, links, invites, raced, founded, doubled>>
    BY DEF OpenInvite, FindInvite, CoreInv, RowsInv, OnlyReq
<1>2. invites[i].email \in Emails /\ invites[i].role \in Roles
    BY <1>1, InviteFacts
<1>3. i \notin Sessions \cup Links
    BY AccessAssumption
<1>4. CASE OpenInvite(w, i)
  <2> DEFINE r == [step |-> "accept", at |-> i, email |-> invites[i].email, role |-> invites[i].role]
  <2>1. r \in NewReq /\ r.at = i /\ r.step = "accept"
      BY <1>2 DEF NewReq
  <2>2. req' = [req EXCEPT ![w] = r]
      BY <1>4 DEF OpenInvite, Begin
  <2> HIDE DEF r
  <2>3. r \notin ManageReq
      BY <2>1, RequestKinds DEF Request
  <2>4. QED
      BY <1>1, <1>3, <2>1, <2>2, <2>3, BeginCore
<1>5. CASE \E by \in Accounts : FindInvite(w, by, i)
  <2> DEFINE r == [step |-> "revoke", at |-> i]
  <2>1. r \in LinkReq /\ r.at = i /\ r.step = "revoke"
      BY DEF LinkReq
  <2>2. req' = [req EXCEPT ![w] = r]
      BY <1>5 DEF FindInvite, Begin
  <2> HIDE DEF r
  <2>3. r \notin ManageReq
      BY <2>1, RequestKinds DEF Request
  <2>4. QED
      BY <1>1, <1>3, <2>1, <2>2, <2>3, BeginCore
<1>6. QED
    BY <1>4, <1>5

LEMMA ApplyCore == ASSUME CoreInv, RowsInv', NEW w \in Workers, NEW a \in Emails, Apply(w, a) PROVE CoreInv'
<1> DEFINE r == [step |-> "found", at |-> a, email |-> a, role |-> "owner"]
<1>1. /\ req' = [req EXCEPT ![w] = r]
      /\ UNCHANGED <<users, epoch, sessions, links, invites, raced, founded, doubled>>
    BY DEF Apply, Begin, OnlyReq
<1>2. r \in NewReq /\ r.step = "found" /\ r.at = a
    BY DEF NewReq
<1> HIDE DEF r
<1>3. a \notin Sessions \cup Links /\ r \notin ManageReq
    BY <1>2, IdsApart, RequestKinds DEF Request
<1>4. QED
    BY <1>1, <1>2, <1>3, BeginCore

LEMMA ManageCore ==
    ASSUME CoreInv, RowsInv', NEW w \in Workers, NEW by \in Accounts, NEW op \in Managed,
           NEW a \in Accounts, NEW given \in Roles \cup {"none"}, NEW row \in Rows \cup {NoRow},
           Manage(w, by, op, a, given, row)
    PROVE  CoreInv'
<1> DEFINE r == [step |-> "judge", op |-> op, at |-> a, given |-> given,
                 row |-> row, acting |-> users[by].role, takes |-> FALSE]
<1>1. /\ IsUser(by) /\ req' = [req EXCEPT ![w] = r]
      /\ UNCHANGED <<users, epoch, sessions, links, invites, raced, founded, doubled>>
    BY DEF Manage, Begin, OnlyReq
<1>2. users[by].role \in Roles
    BY <1>1, UserRows, UserFacts DEF CoreInv, RowsInv
<1>3. r \in ManageReq /\ r.step = "judge" /\ r.at = a /\ ~ r.takes
    BY <1>2 DEF ManageReq
<1> HIDE DEF r
<1>4. a \notin Sessions \cup Links
    BY IdsApart
<1>5. QED
    BY <1>1, <1>3, <1>4, BeginCore

\* What LockFollowsFailures and EntriesCurrent say of an account and of a request.
LEMMA UserLockFits == ASSUME CoreInv, NEW a \in Accounts, IsUser(a) PROVE LockFits(users[a])
BY DEF CoreInv, LockFollowsFailures

LEMMA SeenLockFits ==
    ASSUME CoreInv, NEW w \in Workers, req[w] \in EnteringReq
    PROVE  LockFits(req[w].seen) /\ EntryCurrent(w)
BY DEF CoreInv, LockFollowsFailures, CurrentInv

LEMMA NewLockFits == \A role : LockFits(NewUser(role))
BY AccessAssumption DEF LockFits, NewUser

\* A login begins.
LEMMA LoginCore ==
    ASSUME CoreInv, RowsInv', NEW w \in Workers, NEW a \in Emails, NEW right \in BOOLEAN, Login(w, a, right)
    PROVE  CoreInv'
<1> DEFINE step == IF ~ right THEN "failed" ELSE IF users[a].failures > 0 THEN "clear" ELSE "issue"
<1>1. /\ RowsInv /\ AccessTypeOK /\ a \in Accounts /\ IsUser(a) /\ users[a].active
      /\ a \notin Sessions /\ a \notin Links
      /\ Begin(w, Entering(step, a, a, epoch[a], FALSE))
      /\ UNCHANGED <<users, epoch, sessions, links, invites, raced, founded, doubled>>
    BY IdsApart DEF Login, CoreInv, RowsInv, OnlyReq
<1>2. step \in {"failed", "clear", "issue"}
    OBVIOUS
<1> HIDE DEF step
<1>3. users[a] \in UserRow /\ epoch[a] \in Nat /\ LockFits(users[a])
    BY <1>1, UserRows, UserLockFits
<1>4. PICK r : r = Entering(step, a, a, epoch[a], FALSE)
    OBVIOUS
<1>5. /\ r \in EnteringReq /\ r.at = a /\ r.user = a /\ r.seen = users[a] /\ r.epoch = epoch[a]
      /\ r.began = epoch[a] /\ r.step = step
    BY <1>1, <1>2, <1>3, <1>4 DEF Entering, EnteringReq
<1>6. req' = [req EXCEPT ![w] = r] /\ r \in Request
    BY <1>1, <1>4, <1>5 DEF Begin, Request
<1>7. req'[w] = r
    BY <1>1, <1>6, TypedReq
<1>8. EntryCurrent(w)'
    BY <1>1, <1>3, <1>5, <1>7 DEF EntryCurrent
<1>9. Quiet(w)
  <2>1. Shrinks(w)
      BY <1>1, <1>2, <1>5, <1>7 DEF Shrinks
  <2>2. r \notin ManageReq
      BY <1>5, <1>6, RequestKinds
  <2>3. QED
      BY <1>3, <1>5, <1>7, <1>8, <2>1, <2>2 DEF Quiet
<1>10. QED
    BY <1>1, <1>6, <1>9, SameInvites, QuietRequest

\* A quiet step that writes one account, and one request at most.
LEMMA QuietUser ==
    ASSUME CoreInv, RowsInv', NEW a \in Accounts, NEW row \in UserRow,
           users' = [users EXCEPT ![a] = row], LockFits(row),
           IsUser(a) => row.role = users[a].role /\ row.active = users[a].active,
           UNCHANGED <<epoch, sessions, links, raced, founded, doubled>>, PendingShrinks,
           \A v \in Workers : req'[v] = req[v] \/ Quiet(v)
    PROVE  CoreInv'
<1>1. AccessTypeOK /\ users \in [Accounts -> {NoUser} \cup UserRow]
    BY DEF CoreInv, RowsInv, AccessTypeOK
<1>2. users'[a] = row /\ \A b \in Accounts \ {a} : users'[b] = users[b]
    BY <1>1, PutUser
<1>3. \A b \in Accounts : UserQuiet(b)
    BY <1>2 DEF UserQuiet
<1>4. Revokes
    BY <1>1, SameSessions
<1>5. QED
    BY <1>3, <1>4, QuietStep

LEMMA FailedCore == ASSUME CoreInv, RowsInv', NEW w \in Workers, RegisterFailedLogin(w) PROVE CoreInv'
<1>1. RowsInv /\ req[w] \in EnteringReq
    BY StepKind DEF RegisterFailedLogin, OnStep, CoreInv
<1>2. /\ req[w].user \in Accounts /\ req[w].seen \in UserRow /\ IsUser(req[w].user)
      /\ users[req[w].user] \in UserRow /\ LockFits(req[w].seen)
    BY <1>1, EnteringFacts, SeenLockFits
<1>3. PICK n, lock : n = req[w].seen.failures + 1
                     /\ lock = IF n = LockThreshold THEN "running" ELSE req[w].seen.lock
    OBVIOUS
<1>4. /\ n \in Nat /\ lock \in {"none", "running", "over"}
      /\ lock = "none" <=> n < LockThreshold
  <2>1. /\ req[w].seen.failures \in Nat /\ req[w].seen.lock \in {"none", "running", "over"}
        /\ LockThreshold \in Nat
        /\ req[w].seen.lock = "none" <=> req[w].seen.failures < LockThreshold
      BY <1>2, AccessAssumption DEF UserRow, LockFits
  <2>2. QED
      BY <1>3, <2>1
<1>5. PICK row : row = [users[req[w].user] EXCEPT !.failures = n, !.lock = lock]
    OBVIOUS
<1>6. /\ row \in UserRow /\ row.role = users[req[w].user].role
      /\ row.active = users[req[w].user].active /\ row.failures = n /\ row.lock = lock
    BY <1>2, <1>4, <1>5 DEF UserRow
<1>7. LockFits(row)
    BY <1>4, <1>6 DEF LockFits
<1>8. /\ users' = [users EXCEPT ![req[w].user] = row] /\ req' = [req EXCEPT ![w] = Idle]
      /\ UNCHANGED <<epoch, sessions, links, raced, founded, doubled, invites>>
    BY <1>3, <1>5 DEF RegisterFailedLogin, Done
<1>9. \A v \in Workers : req'[v] = req[v] \/ Quiet(v)
    BY <1>1, <1>8, TypedReq, IdleQuiet DEF RowsInv
<1>10. QED
    BY <1>2, <1>6, <1>7, <1>8, <1>9, SameInvites, QuietUser

LEMMA ClearCore == ASSUME CoreInv, RowsInv', NEW w \in Workers, ClearLoginLockout(w) PROVE CoreInv'
<1>1. RowsInv /\ req[w] \in EnteringReq /\ req[w].step = "clear"
    BY StepKind DEF ClearLoginLockout, OnStep, CoreInv
<1>2. /\ req[w].user \in Accounts /\ IsUser(req[w].user) /\ users[req[w].user] \in UserRow
      /\ LockFits(req[w].seen) /\ EntryCurrent(w)
    BY <1>1, EnteringFacts, SeenLockFits
<1>3. PICK row : row = [users[req[w].user] EXCEPT !.failures = 0, !.lock = "none"]
    OBVIOUS
<1>4. /\ row \in UserRow /\ row.role = users[req[w].user].role
      /\ row.active = users[req[w].user].active /\ LockFits(row)
  <2>1. /\ row \in UserRow /\ row.role = users[req[w].user].role
        /\ row.active = users[req[w].user].active /\ row.failures = 0 /\ row.lock = "none"
      BY <1>2, <1>3 DEF UserRow
  <2>2. LockFits(row)
      BY <2>1, AccessAssumption DEF LockFits
  <2>3. QED
      BY <2>1, <2>2
<1>5. PICK r \in EnteringReq :
         /\ req' = [req EXCEPT ![w] = r] /\ r.step = "issue" /\ r.user = req[w].user
         /\ r.at = req[w].at /\ r.seen = req[w].seen /\ r.epoch = req[w].epoch
         /\ r.began = req[w].began /\ r.strayed = req[w].strayed
  <2> DEFINE r == [req[w] EXCEPT !.step = "issue"]
  <2>1. /\ r \in EnteringReq /\ r.step = "issue" /\ r.user = req[w].user
        /\ r.at = req[w].at /\ r.seen = req[w].seen /\ r.epoch = req[w].epoch
        /\ r.began = req[w].began /\ r.strayed = req[w].strayed
      BY <1>1 DEF EnteringReq
  <2>2. req' = [req EXCEPT ![w] = r]
      BY DEF ClearLoginLockout, GoOn
  <2>3. QED
      BY <2>1, <2>2
<1>6. /\ users' = [users EXCEPT ![req[w].user] = row]
      /\ UNCHANGED <<epoch, sessions, links, raced, founded, doubled, invites>>
    BY <1>3 DEF ClearLoginLockout
<1>7. req'[w] = r /\ (\A v \in Workers \ {w} : req'[v] = req[v]) /\ r \in Request
    BY <1>1, <1>5, TypedReq DEF RowsInv, Request
<1>8. users'[req[w].user] = row
    BY <1>2, <1>6 DEF CoreInv, RowsInv, AccessTypeOK
<1>9. EntryCurrent(w)'
    BY <1>1, <1>2, <1>4, <1>5, <1>6, <1>7, <1>8 DEF EntryCurrent
<1>10. Shrinks(w)
  <2>1. req[w] # Idle /\ req'[w].at = req[w].at
      BY <1>1, <1>5, <1>7, Kinds
  <2>2. req[w].at \notin Sessions
      BY <1>1, EnteringFacts, IdsApart
  <2>3. QED
      BY <1>5, <1>7, <2>1, <2>2 DEF Shrinks
<1>11. Quiet(w)
  <2>1. r \notin ManageReq
      BY <1>5, <1>7, RequestKinds
  <2>2. QED
      BY <1>2, <1>5, <1>7, <1>9, <1>10, <2>1 DEF Quiet
<1>12. QED
    BY <1>2, <1>4, <1>6, <1>7, <1>11, SameInvites, QuietUser

LEMMA RotateCore == ASSUME CoreInv, RowsInv', NEW w \in Workers, Rotate(w) PROVE CoreInv'
<1>1. RowsInv /\ AccessTypeOK
    BY DEF CoreInv, RowsInv
<1>2. /\ req[w] \in EnteringReq /\ req[w].at \in Sessions /\ sessions[req[w].at] # NoSession
      /\ sessions' = [sessions EXCEPT ![req[w].at].live = FALSE]
      /\ UNCHANGED <<founded, users, links, invites, epoch, doubled, raced>>
    BY <1>1, RotateDoes
<1>3. PICK r \in {Idle} \cup EnteringReq :
         /\ req' = [req EXCEPT ![w] = r]
         /\ r # Idle => /\ r.step = "issue" /\ r.user = req[w].user /\ r.at = req[w].at
                        /\ r.seen = users[req[w].user] /\ r.epoch = req[w].epoch
                        /\ r.began = req[w].began /\ r.strayed = req[w].strayed
    BY <1>1, RotateDoes
<1>4. /\ Revokes /\ sessions'[req[w].at] = [sessions[req[w].at] EXCEPT !.live = FALSE]
      /\ sessions[req[w].at] \in Token
    BY <1>1, <1>2, RevokeOne DEF AccessTypeOK
<1>5. ~ sessions'[req[w].at].live
    BY <1>4 DEF Token
<1>6. /\ req'[w] = r /\ r \in Request /\ \A v \in Workers \ {w} : req'[v] = req[v]
    BY <1>1, <1>3, TypedReq DEF Request
<1>7. Quiet(w)
  <2>1. CASE r = Idle
      BY <1>1, <1>3, <2>1, TypedReq, IdleQuiet
  <2>2. CASE r # Idle
    <3>1. /\ req[w].user \in Accounts /\ IsUser(req[w].user) /\ EntryCurrent(w)
        BY <1>1, <1>2, EnteringFacts, SeenLockFits
    <3>2. LockFits(r.seen)
        BY <1>3, <2>2, <3>1, UserLockFits
    <3>3. EntryCurrent(w)'
        BY <1>2, <1>3, <1>6, <2>2, <3>1 DEF EntryCurrent
    <3>4. Shrinks(w)
      <4>1. req[w] # Idle
          BY <1>2, Kinds
      <4>2. QED
          BY <1>3, <1>5, <1>6, <2>2, <4>1 DEF Shrinks
    <3>5. r \notin ManageReq
        BY <1>3, <1>6, <2>2, RequestKinds
    <3>6. QED
        BY <1>6, <3>2, <3>3, <3>4, <3>5 DEF Quiet
  <2>3. QED
      BY <2>1, <2>2
<1>8. (\A a \in Accounts : UserQuiet(a)) /\ PendingShrinks
    BY <1>2 DEF UserQuiet, PendingShrinks
<1>9. QED
    BY <1>2, <1>4, <1>6, <1>7, <1>8, QuietStep

\* The steps of no request.
LEMMA AsideCore ==
    ASSUME CoreInv, RowsInv',
           \/ \E s \in Sessions : Logout(s)
           \/ \E by, a \in Accounts, row \in Rows : RemoveOverride(by, a, row)
           \/ \E by \in Accounts, r \in Robots : RevokeKey(by, r)
           \/ UNCHANGED accessVars
    PROVE  CoreInv'
<1>1. UNCHANGED <<users, epoch, links, invites, raced, founded, doubled, req>>
    BY DEF Logout, RemoveOverride, RevokeKey, accessVars
<1>2. AccessTypeOK
    BY DEF CoreInv, RowsInv
<1>3. Revokes
  <2>1. CASE \E s \in Sessions : Logout(s)
      BY <1>2, <2>1, RevokeOne DEF Logout
  <2>2. CASE sessions' = sessions
      BY <1>2, <2>2, SameSessions
  <2>3. QED
      BY <2>1, <2>2 DEF RemoveOverride, RevokeKey, accessVars
<1>4. (\A a \in Accounts : UserQuiet(a)) /\ PendingShrinks
    BY <1>1 DEF UserQuiet, PendingShrinks
<1>5. QED
    BY <1>1, <1>3, <1>4, QuietStep

LEMMA LockEndsCore == ASSUME CoreInv, RowsInv', NEW a \in Accounts, LockEnds(a) PROVE CoreInv'
<1>1. users[a] \in UserRow /\ IsUser(a) /\ LockFits(users[a]) /\ users[a].lock = "running"
    BY UserRows, UserLockFits DEF LockEnds, CoreInv, RowsInv
<1>2. PICK row : row = [users[a] EXCEPT !.lock = "over"]
    OBVIOUS
<1>3. /\ row \in UserRow /\ row.role = users[a].role /\ row.active = users[a].active
      /\ row.lock = "over" /\ row.failures = users[a].failures
    BY <1>1, <1>2 DEF UserRow
<1>4. LockFits(row)
    BY <1>1, <1>3 DEF LockFits
<1>5. /\ users' = [users EXCEPT ![a] = row]
      /\ UNCHANGED <<epoch, sessions, links, raced, founded, doubled, invites, req>>
    BY <1>2 DEF LockEnds
<1>6. QED
    BY <1>3, <1>4, <1>5, SameInvites, QuietUser

LEMMA KeyCore == ASSUME CoreInv, RowsInv', NEW w \in Workers, MintKey(w) PROVE CoreInv'
<1>1. RowsInv
    BY DEF CoreInv
<1>2. req[w] \in ManageReq /\ req[w].step = "key" /\ GivenFits(req[w])
    BY <1>1, StepKind DEF MintKey, OnStep, ReqFits
<1>3. PICK r \in Accounts, role \in Roles : r = req[w].at /\ role = req[w].given
    BY <1>2 DEF GivenFits, ManageReq
<1>4. /\ ~ IsUser(r) /\ req' = [req EXCEPT ![w] = Idle] /\ users' = [users EXCEPT ![r] = NewUser(role)]
      /\ UNCHANGED <<founded, sessions, links, invites, epoch, doubled, raced>>
    BY <1>3 DEF MintKey, Done
<1>5. NewUser(role) \in UserRow /\ LockFits(NewUser(role))
    BY UserFacts, NewLockFits
<1>6. \A v \in Workers : req'[v] = req[v] \/ Quiet(v)
    BY <1>1, <1>4, TypedReq, IdleQuiet DEF RowsInv
<1>7. QED
    BY <1>4, <1>5, <1>6, SameInvites, QuietUser

LEMMA AdmitCore ==
    ASSUME CoreInv, RowsInv', NEW w \in Workers, AcceptInvite(w) \/ Found(w) PROVE CoreInv'
<1>1. RowsInv /\ AccessTypeOK
    BY DEF CoreInv, RowsInv
<1>2. req[w] \in NewReq /\ Admit(w)
    BY <1>1, StepKind DEF AcceptInvite, Found, OnStep
<1>3. PICK e \in Emails, role \in Roles : e = req[w].email /\ role = req[w].role
    BY <1>1, <1>2, AdmitDoes
<1>4. /\ ~ IsUser(e) /\ users' = [users EXCEPT ![e] = NewUser(role)]
      /\ UNCHANGED <<sessions, links, epoch, doubled, raced>>
    BY <1>1, <1>2, <1>3, AdmitDoes DEF AcceptInvite, Found
<1>5. PICK r \in EnteringReq :
         /\ req' = [req EXCEPT ![w] = r] /\ r.step = "issue" /\ r.user = e
         /\ r.at = e /\ r.seen = NewUser(role) /\ r.epoch = epoch[e] /\ r.began = epoch[e]
    BY <1>1, <1>2, <1>3, AdmitDoes
<1>6. /\ e \in Accounts /\ e \notin Sessions /\ e \notin Links /\ epoch[e] \in Nat
      /\ NewUser(role) \in UserRow /\ NewUser(role).active /\ LockFits(NewUser(role))
    BY <1>1, IdsApart, UserFacts, NewLockFits, UserRows
<1>7. users'[e] = NewUser(role) /\ \A b \in Accounts \ {e} : users'[b] = users[b]
    BY <1>1, <1>4, <1>6 DEF AccessTypeOK
<1>8. req'[w] = r /\ r \in Request /\ \A v \in Workers \ {w} : req'[v] = req[v]
    BY <1>1, <1>5, TypedReq DEF Request
<1>9. Quiet(w)
  <2>1. EntryCurrent(w)'
      BY <1>4, <1>5, <1>6, <1>7, <1>8 DEF EntryCurrent
  <2>2. Shrinks(w)
      BY <1>5, <1>6, <1>8 DEF Shrinks
  <2>3. r \notin ManageReq
      BY <1>5, <1>8, RequestKinds
  <2>4. QED
      BY <1>5, <1>6, <1>8, <2>1, <2>2, <2>3 DEF Quiet
<1>10. \A a \in Accounts : UserQuiet(a)
    BY <1>4, <1>6, <1>7 DEF UserQuiet
<1>11. PendingShrinks
  <2>1. CASE AcceptInvite(w) /\ invites' # invites
    <3>1. req[w].at \in Invites /\ invites[req[w].at] # NoInvite
        BY <1>1, <2>1, StepKind DEF AcceptInvite, OnStep, ReqFits
    <3>2. /\ invites[req[w].at] # Revoked
          /\ invites' = [invites EXCEPT ![req[w].at].accepted = TRUE]
        BY <2>1 DEF AcceptInvite
    <3>3. invites[req[w].at] \in [email : Emails, role : Roles, accepted : BOOLEAN]
        BY <1>1, <3>1, <3>2 DEF AccessTypeOK
    <3>4. PICK row : row = [invites[req[w].at] EXCEPT !.accepted = TRUE]
        OBVIOUS
    <3>5. row \in [email : Emails, role : Roles, accepted : BOOLEAN] /\ row.accepted
        BY <3>3, <3>4
    <3>6. invites' = [invites EXCEPT ![req[w].at] = row]
        BY <3>2, <3>4
    <3>7. invites'[req[w].at] = row /\ row # NoInvite
          /\ \A j \in Invites \ {req[w].at} : invites'[j] = invites[j]
        BY <1>1, <3>1, <3>5, <3>6, InvitesTyped
    <3>8. QED
        BY <3>5, <3>7 DEF PendingShrinks
  <2>2. CASE invites' = invites
      BY <2>2, SameInvites
  <2>3. QED
      BY <2>1, <2>2 DEF Found
<1>12. founded' => founded \/ Owners' # {}
  <2>1. CASE Found(w)
    <3>1. req[w].step = "found" /\ req[w].role = "owner"
      <4>1. req[w].step = "found"
          BY <2>1 DEF Found, OnStep
      <4>2. QED
          BY <1>2, <4>1 DEF NewReq
    <3>2. users'[e].role = "owner"
        BY <1>3, <1>7, <3>1 DEF NewUser
    <3>3. QED
        BY <1>6, <3>2 DEF Owners
  <2>2. CASE AcceptInvite(w)
      BY <2>2 DEF AcceptInvite
  <2>3. QED
      BY <2>1, <2>2
<1>13. Revokes
    BY <1>1, <1>4, SameSessions
<1>14. QED
    BY <1>4, <1>8, <1>9, <1>10, <1>11, <1>12, <1>13, QuietStep

\* What the history of a session, a link or an address says stays true while no
\* other request comes to it.
LEMMA SameSessionUsed ==
    ASSUME NEW s \in Sessions, SessionUsed(s), sessions'[s] = sessions[s], doubled \subseteq doubled',
           At(s)' \subseteq At(s),
           \A v \in Workers : req'[v] = req[v] \/ req'[v].step # "issue"
    PROVE  SessionUsed(s)'
<1>1. At(s)' \subseteq Workers
    BY DEF At
<1>2. ASSUME NEW v \in Workers, v \in At(s)', OnStep(v, "issue")'
      PROVE  v \in At(s) /\ OnStep(v, "issue")
    BY <1>2 DEF OnStep
<1>3. QED
    BY <1>1, <1>2 DEF SessionUsed, AtMostOne

LEMMA SameLinkUsed ==
    ASSUME NEW l \in Links, LinkUsed(l), links'[l] = links[l], doubled \subseteq doubled',
           At(l)' \subseteq At(l)
    PROVE  LinkUsed(l)'
BY DEF LinkUsed, AtMostOne

\* One request moves, to a place of its own.
LEMMA AtMoves ==
    ASSUME req \in [Workers -> Request], NEW w \in Workers, NEW r \in Request,
           req' = [req EXCEPT ![w] = r], NEW place, r = Idle \/ r.at = place
    PROVE  /\ \A thing : thing # place => At(thing)' \subseteq At(thing)
           /\ At(place)' \subseteq Rivals(w, place) \cup {w}
           /\ r = Idle => \A thing : At(thing)' \subseteq At(thing) \ {w}
           /\ \A e : r.step # "invite" => Inviting(e)' \subseteq Inviting(e) \ {w}
<1>1. req'[w] = r /\ \A v \in Workers \ {w} : req'[v] = req[v]
    BY PutReq
<1>2. ASSUME NEW thing PROVE At(thing)' = {v \in Workers : req'[v] # Idle /\ req'[v].at = thing}
    BY DEF At
<1>3. \A thing : thing # place => At(thing)' \subseteq At(thing)
    BY <1>1, <1>2 DEF At
<1>4. At(place)' \subseteq Rivals(w, place) \cup {w}
    BY <1>1, <1>2 DEF At, Rivals
<1>5. r = Idle => \A thing : At(thing)' \subseteq At(thing) \ {w}
    BY <1>1, <1>2 DEF At
<1>6. ASSUME NEW e, r.step # "invite" PROVE Inviting(e)' \subseteq Inviting(e) \ {w}
    BY <1>1, <1>6 DEF Inviting, OnStep
<1>7. QED
    BY <1>3, <1>4, <1>5, <1>6

LEMMA PartsUsed ==
    ASSUME \A s \in Sessions : SessionUsed(s)', \A l \in Links : LinkUsed(l)',
           \A e \in Emails : InviteUsed(e)'
    PROVE  UsedOnce'
BY DEF UsedOnce, SessionUsed, LinkUsed, InviteUsed

\* Everything else of a step that begins a request at a session or a link.
LEMMA ComeCore ==
    ASSUME CoreInv, RowsInv', NEW w \in Workers, NEW r \in Request, req' = [req EXCEPT ![w] = r],
           UNCHANGED <<users, epoch, sessions, links, invites, raced, founded>>,
           doubled \subseteq doubled', r.step # "invite", r.step # "issue", r \notin ManageReq,
           r \in EnteringReq => LockFits(r.seen), EntryCurrent(w)', UsedOnce'
    PROVE  CoreInv'
<1>1. RowsInv /\ AccessTypeOK /\ req \in [Workers -> Request]
    BY TypedReq DEF CoreInv, RowsInv
<1>2. req'[w] = r /\ \A v \in Workers \ {w} : req'[v] = req[v]
    BY <1>1, PutReq
<1>3. Revokes /\ SameStanding
    BY <1>1, SameSessions DEF SameStanding
<1>4. CurrentInv'
  <2>1. \A v \in Workers : req'[v] = req[v] \/ EntryCurrent(v)'
      BY <1>2
  <2>2. QED
      BY <1>3, <2>1, KeepsCurrent
<1>5. LockFollowsFailures'
  <2>1. LockFollowsFailures
      BY DEF CoreInv
  <2>2. QED
      BY <1>2, <2>1, KeepsLocks
<1>6. OwnersRemain'
  <2>1. OwnersRemain /\ OwnersStay
      BY DEF CoreInv, OwnersStay
  <2>2. QED
      BY <1>2, <2>1, KeepsOwners
<1>7. QED
    BY <1>4, <1>5, <1>6 DEF CoreInv

LEMMA RefreshCore ==
    ASSUME CoreInv, RowsInv', NEW w \in Workers, NEW s \in Sessions, Refresh(w, s) PROVE CoreInv'
<1>1. RowsInv /\ AccessTypeOK /\ req \in [Workers -> Request]
    BY TypedReq DEF CoreInv, RowsInv
<1>2. /\ sessions[s] # NoSession /\ sessions[s].live /\ doubled' = Doubles(w, s)
      /\ UNCHANGED <<users, epoch, sessions, links, invites, raced, founded>>
      /\ Begin(w, Entering("rotate", sessions[s].user, s, sessions[s].began, sessions[s].strayed))
    BY DEF Refresh
<1>3. PICK a \in Accounts : a = sessions[s].user /\ IsUser(a)
    BY <1>1, <1>2 DEF RowsInv, RefersToUsers, AccessTypeOK, Token
<1>4. sessions[s].began \in Nat /\ sessions[s].strayed \in BOOLEAN
    BY <1>1, <1>2 DEF AccessTypeOK, Token
<1>5. users[a] \in UserRow /\ epoch[a] \in Nat /\ LockFits(users[a])
    BY <1>1, <1>3, UserRows, UserLockFits
<1>6. PICK r : r = Entering("rotate", a, s, sessions[s].began, sessions[s].strayed)
    OBVIOUS
<1>7. /\ r \in EnteringReq /\ r.at = s /\ r.user = a /\ r.seen = users[a] /\ r.epoch = epoch[a]
      /\ r.began = sessions[s].began /\ r.strayed = sessions[s].strayed /\ r.step = "rotate"
    BY <1>4, <1>5, <1>6 DEF Entering, EnteringReq
<1>8. req' = [req EXCEPT ![w] = r] /\ r \in Request /\ r \notin ManageReq
  <2>1. req' = [req EXCEPT ![w] = r] /\ r \in Request
      BY <1>2, <1>3, <1>6, <1>7 DEF Begin, Request
  <2>2. QED
      BY <1>7, <2>1, RequestKinds
<1>9. req'[w] = r /\ \A v \in Workers \ {w} : req'[v] = req[v]
    BY <1>1, <1>8, PutReq
<1>10. EntryCurrent(w)'
  <2>1. SessionCurrent(s)
      BY DEF CoreInv, CurrentInv
  <2>2. sessions[s].strayed \/ (users[a].active /\ sessions[s].began = epoch[a])
      BY <1>2, <1>3, <2>1 DEF SessionCurrent
  <2>3. QED
      BY <1>2, <1>5, <1>7, <1>9, <2>2 DEF EntryCurrent
<1>11. doubled \subseteq doubled' /\ (Rivals(w, s) # {} => s \in doubled')
    BY <1>2 DEF Doubles
<1>12. /\ \A thing : thing # s => At(thing)' \subseteq At(thing)
       /\ At(s)' \subseteq Rivals(w, s) \cup {w}
       /\ \A e : Inviting(e)' \subseteq Inviting(e)
    BY <1>1, <1>7, <1>8, AtMoves
<1>13. UsedOnce'
  <2>1. /\ \A t \in Sessions : SessionUsed(t)
        /\ \A l \in Links : LinkUsed(l)
        /\ \A e \in Emails : InviteUsed(e)
      BY UsedParts DEF CoreInv
  <2>2. ASSUME NEW t \in Sessions, t # s PROVE SessionUsed(t)'
    <3>1. \A v \in Workers : req'[v] = req[v] \/ req'[v].step # "issue"
        BY <1>7, <1>9
    <3>2. QED
        BY <1>2, <1>11, <1>12, <2>1, <2>2, <3>1, SameSessionUsed
  <2>3. SessionUsed(s)'
    <3>1. CASE s \in doubled'
        BY <3>1 DEF SessionUsed
    <3>2. CASE s \notin doubled'
      <4>1. At(s)' \subseteq {w} /\ s \notin doubled
          BY <1>11, <1>12, <3>2
      <4>2. sessions[s].issued = 0
          BY <1>2, <2>1, <4>1 DEF SessionUsed
      <4>3. ~ OnStep(w, "issue")'
          BY <1>7, <1>9 DEF OnStep
      <4>4. AtMostOne(At(s))'
          BY <4>1 DEF AtMostOne
      <4>5. QED
          BY <1>2, <4>1, <4>2, <4>3, <4>4 DEF SessionUsed
    <3>3. QED
        BY <3>1, <3>2
  <2>4. \A l \in Links : LinkUsed(l)'
      BY <1>2, <1>11, <1>12, <2>1, SameLinkUsed, AccessAssumption
  <2>5. ASSUME NEW e \in Emails PROVE InviteUsed(e)'
    <3>1. Pending(e)' \subseteq Pending(e)
        BY <1>2, SameInvites, PendingFalls
    <3>2. QED
        BY <1>11, <1>12, <2>1, <3>1, KeepInviteUsed
  <2>6. QED
      BY <2>2, <2>3, <2>4, <2>5, PartsUsed
<1>14. QED
    BY <1>2, <1>5, <1>7, <1>8, <1>10, <1>11, <1>13, ComeCore

LEMMA OpenLinkCore ==
    ASSUME CoreInv, RowsInv', NEW w \in Workers, NEW l \in Links, OpenLink(w, l) PROVE CoreInv'
<1>1. RowsInv /\ AccessTypeOK /\ req \in [Workers -> Request]
    BY TypedReq DEF CoreInv, RowsInv
<1>2. PICK r : r = [step |-> "reset", at |-> l]
    OBVIOUS
<1>3. /\ links[l] # NoLink /\ links[l].used = 0 /\ doubled' = Doubles(w, l)
      /\ UNCHANGED <<users, epoch, sessions, links, invites, raced, founded>>
      /\ req' = [req EXCEPT ![w] = r]
    BY <1>2 DEF OpenLink, Begin
<1>4. r \in LinkReq /\ r.step = "reset" /\ r.at = l
    BY <1>2 DEF LinkReq
<1>5. r \in Request /\ r \notin ManageReq /\ r \notin EnteringReq
    BY <1>4, RequestKinds DEF Request
<1>6. req'[w] = r /\ \A v \in Workers \ {w} : req'[v] = req[v]
    BY <1>1, <1>3, <1>5, PutReq
<1>7. EntryCurrent(w)'
    BY <1>5, <1>6 DEF EntryCurrent
<1>8. doubled \subseteq doubled' /\ (Rivals(w, l) # {} => l \in doubled')
    BY <1>3 DEF Doubles
<1>9. /\ \A thing : thing # l => At(thing)' \subseteq At(thing)
      /\ At(l)' \subseteq Rivals(w, l) \cup {w}
      /\ \A e : Inviting(e)' \subseteq Inviting(e)
    BY <1>1, <1>3, <1>4, <1>5, AtMoves
<1>10. UsedOnce'
  <2>1. /\ \A s \in Sessions : SessionUsed(s)
        /\ \A m \in Links : LinkUsed(m)
        /\ \A e \in Emails : InviteUsed(e)
      BY UsedParts DEF CoreInv
  <2>2. ASSUME NEW s \in Sessions PROVE SessionUsed(s)'
    <3>1. \A v \in Workers : req'[v] = req[v] \/ req'[v].step # "issue"
        BY <1>4, <1>6
    <3>2. s # l
        BY AccessAssumption
    <3>3. QED
        BY <1>3, <1>8, <1>9, <2>1, <3>1, <3>2, SameSessionUsed
  <2>3. LinkUsed(l)'
    <3>1. CASE l \in doubled'
        BY <3>1 DEF LinkUsed
    <3>2. CASE l \notin doubled'
      <4>1. At(l)' \subseteq {w}
          BY <1>8, <1>9, <3>2
      <4>2. AtMostOne(At(l))'
          BY <4>1 DEF AtMostOne
      <4>3. QED
          BY <1>3, <4>2 DEF LinkUsed
    <3>3. QED
        BY <3>1, <3>2
  <2>4. ASSUME NEW m \in Links, m # l PROVE LinkUsed(m)'
      BY <1>3, <1>8, <1>9, <2>1, <2>4, SameLinkUsed
  <2>5. ASSUME NEW e \in Emails PROVE InviteUsed(e)'
    <3>1. Pending(e)' \subseteq Pending(e)
        BY <1>3, SameInvites, PendingFalls
    <3>2. QED
        BY <1>8, <1>9, <2>1, <3>1, KeepInviteUsed
  <2>6. QED
      BY <2>2, <2>3, <2>4, <2>5, PartsUsed
<1>11. QED
    BY <1>3, <1>4, <1>5, <1>7, <1>8, <1>10, ComeCore

\* A step of one request that ends, of which accounts and sessions that are there
\* keep their standing.
LEMMA IssueCore == ASSUME CoreInv, RowsInv', NEW w \in Workers, Issue(w) PROVE CoreInv'
<1>1. RowsInv /\ AccessTypeOK /\ req \in [Workers -> Request] /\ Idle \in Request
    BY TypedReq DEF CoreInv, RowsInv, Request
<1>2. /\ req[w] \in EnteringReq /\ req[w].step = "issue"
      /\ UNCHANGED <<founded, users, links, invites, epoch, doubled, raced>>
      /\ req' = [req EXCEPT ![w] = Idle]
    BY <1>1, IssueDoes
<1>3. PICK f \in Sessions :
         /\ sessions[f] = NoSession /\ f # req[w].at
         /\ sessions'[f] \in Token /\ sessions'[f].user = req[w].user /\ sessions'[f].live
         /\ sessions'[f].began = req[w].began /\ sessions'[f].issued = 0
         /\ sessions'[f].strayed <=> req[w].strayed \/ epoch[req[w].user] > req[w].epoch
         /\ req[w].at \in Sessions =>
               sessions'[req[w].at] = [sessions[req[w].at] EXCEPT !.issued = @ + 1]
         /\ \A s \in Sessions \ {f, req[w].at} : sessions'[s] = sessions[s]
    BY <1>1, IssueDoes
<1>4. PICK place : place = req[w].at
    OBVIOUS
<1>5. /\ req[w].user \in Accounts /\ IsUser(req[w].user) /\ EntryCurrent(w)
      /\ epoch[req[w].user] \in Nat /\ req[w].epoch \in Nat
      /\ place \in Sessions => sessions[place] \in Token
    BY <1>1, <1>2, <1>4, EnteringFacts, SeenLockFits
<1>6. req'[w] = Idle /\ \A v \in Workers \ {w} : req'[v] = req[v]
    BY <1>1, <1>2, PutReq
<1>7. Idle \notin EnteringReq /\ Idle \notin ManageReq /\ Idle.step # "issue" /\ Idle.step # "invite"
      /\ req[w] # Idle
    BY <1>1, <1>2, RequestKinds
<1>8. place \in Sessions =>
         /\ sessions'[place].user = sessions[place].user /\ sessions'[place].began = sessions[place].began
         /\ sessions'[place].strayed = sessions[place].strayed
         /\ sessions'[place].live = sessions[place].live
         /\ sessions'[place].issued = sessions[place].issued + 1
         /\ sessions[place] # NoSession
  <2>1. \A t \in Token : /\ [t EXCEPT !.issued = @ + 1].user = t.user
                         /\ [t EXCEPT !.issued = @ + 1].began = t.began
                         /\ [t EXCEPT !.issued = @ + 1].strayed = t.strayed
                         /\ [t EXCEPT !.issued = @ + 1].live = t.live
                         /\ [t EXCEPT !.issued = @ + 1].issued = t.issued + 1
      BY DEF Token
  <2>2. place \in Sessions => /\ sessions'[place] = [sessions[place] EXCEPT !.issued = @ + 1]
                               /\ sessions[place] \in Token
      BY <1>3, <1>4, <1>5
  <2>3. place \in Sessions => sessions[place] # NoSession
      BY <2>2, NotTokens
  <2>4. QED
      BY <2>1, <2>2, <2>3
<1>9. SameStanding
    BY <1>2 DEF SameStanding
<1>10. CurrentInv'
  <2>1. \A s \in Sessions : SessionCurrent(s)
      BY DEF CoreInv, CurrentInv
  <2>2. SessionCurrent(f)'
      BY <1>2, <1>3, <1>5 DEF SessionCurrent, EntryCurrent
  <2>3. place \in Sessions => SessionCurrent(place)'
      BY <1>1, <1>8, <1>9, <2>1, KeepSession
  <2>4. ASSUME NEW s \in Sessions, s # f, s # place PROVE SessionCurrent(s)'
    <3>1. sessions'[s] = sessions[s]
        BY <1>3, <1>4, <2>4
    <3>2. CASE sessions[s] = NoSession
        BY <3>1, <3>2 DEF SessionCurrent
    <3>3. CASE sessions[s] # NoSession
        BY <1>1, <1>9, <2>1, <3>1, <3>3, KeepSession
    <3>4. QED
        BY <3>2, <3>3
  <2>5. ASSUME NEW v \in Workers PROVE EntryCurrent(v)'
    <3>1. CASE v = w
        BY <1>6, <1>7, <3>1 DEF EntryCurrent
    <3>2. CASE v # w
      <4>1. EntryCurrent(v)
          BY DEF CoreInv, CurrentInv
      <4>2. QED
          BY <1>1, <1>6, <1>9, <3>2, <4>1, KeepEntry
    <3>3. QED
        BY <3>1, <3>2
  <2>6. QED
      BY <2>2, <2>3, <2>4, <2>5 DEF CurrentInv
<1>11. /\ \A thing : At(thing)' \subseteq At(thing) \ {w}
       /\ \A e : Inviting(e)' \subseteq Inviting(e)
    BY <1>1, <1>2, <1>7, AtMoves
<1>12. UsedOnce'
  <2>1. /\ \A s \in Sessions : SessionUsed(s)
        /\ \A l \in Links : LinkUsed(l)
        /\ \A e \in Emails : InviteUsed(e)
      BY UsedParts DEF CoreInv
  <2>2. SessionUsed(f)'
    <3>1. At(f)' = {}
        BY <1>1, <1>3, <1>11, NobodyAt
    <3>2. AtMostOne(At(f))'
        BY <3>1 DEF AtMostOne
    <3>3. QED
        BY <1>3, <3>1, <3>2 DEF SessionUsed
  <2>3. ASSUME place \in Sessions PROVE SessionUsed(place)'
    <3>1. CASE place \in doubled'
        BY <3>1 DEF SessionUsed
    <3>2. CASE place \notin doubled'
      <4>1. w \in At(place) /\ OnStep(w, "issue")
          BY <1>2, <1>4, <1>7 DEF At, OnStep
      <4>2. ~ sessions[place].live /\ sessions[place].issued = 0 /\ AtMostOne(At(place))
          BY <1>2, <1>8, <2>1, <2>3, <3>2, <4>1 DEF SessionUsed
      <4>3. At(place)' = {}
          BY <1>11, <4>1, <4>2 DEF AtMostOne
      <4>4. AtMostOne(At(place))'
          BY <4>3 DEF AtMostOne
      <4>5. sessions'[place].issued = 1 /\ ~ sessions'[place].live
          BY <1>8, <2>3, <4>2
      <4>6. QED
          BY <4>3, <4>4, <4>5 DEF SessionUsed
    <3>3. QED
        BY <3>1, <3>2
  <2>4. ASSUME NEW s \in Sessions, s # f, s # place PROVE SessionUsed(s)'
    <3>1. \A v \in Workers : req'[v] = req[v] \/ req'[v].step # "issue"
        BY <1>6, <1>7
    <3>2. sessions'[s] = sessions[s] /\ doubled \subseteq doubled'
        BY <1>2, <1>3, <1>4, <2>4
    <3>3. QED
        BY <1>11, <2>1, <3>1, <3>2, SameSessionUsed
  <2>5. ASSUME NEW l \in Links PROVE LinkUsed(l)'
      BY <1>2, <1>11, <2>1, SameLinkUsed
  <2>6. ASSUME NEW e \in Emails PROVE InviteUsed(e)'
    <3>1. Pending(e)' \subseteq Pending(e)
        BY <1>2, SameInvites, PendingFalls
    <3>2. QED
        BY <1>2, <1>11, <2>1, <3>1, KeepInviteUsed
  <2>7. QED
      BY <2>2, <2>3, <2>4, <2>5, <2>6, PartsUsed
<1>13. LockFollowsFailures'
  <2>1. LockFollowsFailures
      BY DEF CoreInv
  <2>2. QED
      BY <1>2, <1>6, <1>7, <2>1, KeepsLocks
<1>14. OwnersRemain'
  <2>1. OwnersRemain /\ OwnersStay
      BY <1>2 DEF CoreInv, OwnersStay
  <2>2. QED
      BY <1>2, <1>6, <1>7, <2>1, KeepsOwners
<1>15. QED
    BY <1>10, <1>12, <1>13, <1>14 DEF CoreInv

LEMMA RequestResetCore ==
    ASSUME CoreInv, RowsInv', NEW a \in Emails, NEW l \in Links, RequestReset(a, l) PROVE CoreInv'
<1>1. RowsInv /\ AccessTypeOK
    BY DEF CoreInv, RowsInv
<1>2. /\ links[l] = NoLink /\ links' = [links EXCEPT ![l] = [user |-> a, used |-> 0]]
      /\ UNCHANGED <<founded, users, sessions, invites, req, epoch, doubled, raced>>
    BY DEF RequestReset
<1>3. links'[l].used = 0 /\ \A m \in Links \ {l} : links'[m] = links[m]
    BY <1>1, <1>2 DEF AccessTypeOK
<1>4. Revokes /\ SameStanding
    BY <1>1, <1>2, SameSessions DEF SameStanding
<1>5. CurrentInv'
    BY <1>2, <1>4, KeepsCurrent
<1>6. \A thing : At(thing)' = At(thing) /\ Inviting(thing)' = Inviting(thing)
    BY <1>2 DEF At, Inviting, OnStep
<1>7. UsedOnce'
  <2>1. /\ \A s \in Sessions : SessionUsed(s)
        /\ \A m \in Links : LinkUsed(m)
        /\ \A e \in Emails : InviteUsed(e)
      BY UsedParts DEF CoreInv
  <2>2. \A s \in Sessions : SessionUsed(s)'
      BY <1>2, <1>6, <2>1, SameSessionUsed
  <2>3. LinkUsed(l)'
    <3>1. At(l)' = {}
        BY <1>1, <1>2, <1>6, NobodyAt
    <3>2. AtMostOne(At(l))'
        BY <3>1 DEF AtMostOne
    <3>3. QED
        BY <1>3, <3>2 DEF LinkUsed
  <2>4. ASSUME NEW m \in Links, m # l PROVE LinkUsed(m)'
      BY <1>2, <1>3, <1>6, <2>1, <2>4, SameLinkUsed
  <2>5. ASSUME NEW e \in Emails PROVE InviteUsed(e)'
    <3>1. Pending(e)' \subseteq Pending(e)
        BY <1>2, SameInvites, PendingFalls
    <3>2. QED
        BY <1>2, <1>6, <2>1, <3>1, KeepInviteUsed
  <2>6. QED
      BY <2>2, <2>3, <2>4, <2>5, PartsUsed
<1>8. LockFollowsFailures'
  <2>1. LockFollowsFailures
      BY DEF CoreInv
  <2>2. QED
      BY <1>2, <2>1, KeepsLocks
<1>9. OwnersRemain'
  <2>1. OwnersRemain /\ OwnersStay
      BY <1>2 DEF CoreInv, OwnersStay
  <2>2. QED
      BY <1>2, <2>1, KeepsOwners
<1>10. QED
    BY <1>5, <1>7, <1>8, <1>9 DEF CoreInv

\* An account has its sessions ended: no session of it can be used, and what it
\* has in flight is late.
LEMMA EndedCurrent ==
    ASSUME CoreInv, NEW a \in Accounts, EndSessions(a),
           \A b \in Accounts \ {a} : users'[b] = users[b],
           \A v \in Workers : req'[v] = req[v] \/ req'[v] = Idle
    PROVE  CurrentInv'
<1>1. RowsInv /\ AccessTypeOK
    BY DEF CoreInv, RowsInv
<1>2. /\ sessions' \in [Sessions -> {NoSession} \cup Token] /\ Revokes
      /\ \A s \in Sessions : sessions[s] # NoSession =>
            IF sessions[s].user = a THEN ~ sessions'[s].live ELSE sessions'[s] = sessions[s]
      /\ epoch'[a] = epoch[a] + 1 /\ \A b \in Accounts \ {a} : epoch'[b] = epoch[b]
    BY <1>1, EndSessionsFacts
<1>3. \A s \in Sessions : sessions'[s] # NoSession <=> sessions[s] # NoSession
    BY <1>1, <1>2, RevokedFacts
<1>4. ASSUME NEW s \in Sessions PROVE SessionCurrent(s)'
  <2>1. SessionCurrent(s)
      BY DEF CoreInv, CurrentInv
  <2>2. CASE sessions[s] = NoSession
      BY <1>3, <2>2 DEF SessionCurrent
  <2>3. CASE sessions[s] # NoSession /\ sessions[s].user = a
      BY <1>2, <2>3 DEF SessionCurrent
  <2>4. CASE sessions[s] # NoSession /\ sessions[s].user # a
    <3>1. sessions[s].user \in Accounts
        BY <1>1, <2>4 DEF AccessTypeOK, Token
    <3>2. QED
        BY <1>2, <2>1, <2>4, <3>1 DEF SessionCurrent
  <2>5. QED
      BY <2>2, <2>3, <2>4
<1>5. ASSUME NEW v \in Workers PROVE EntryCurrent(v)'
  <2>1. EntryCurrent(v)
      BY DEF CoreInv, CurrentInv
  <2>2. CASE req'[v] = Idle
      BY <2>2, Kinds DEF EntryCurrent
  <2>3. CASE req'[v] = req[v] /\ req[v] \in EnteringReq
    <3>1. req[v].user \in Accounts /\ req[v].epoch \in Nat /\ epoch[req[v].user] \in Nat
        BY <1>1, <2>3, EnteringFacts
    <3>2. CASE req[v].user = a
        BY <1>2, <2>1, <2>3, <3>1, <3>2 DEF EntryCurrent
    <3>3. CASE req[v].user # a
        BY <1>2, <2>1, <2>3, <3>1, <3>3 DEF EntryCurrent
    <3>4. QED
        BY <3>2, <3>3
  <2>4. CASE req'[v] = req[v] /\ req[v] \notin EnteringReq
      BY <2>4 DEF EntryCurrent
  <2>5. QED
      BY <2>2, <2>3, <2>4
<1>6. QED
    BY <1>4, <1>5 DEF CurrentInv

LEMMA ResetCore == ASSUME CoreInv, RowsInv', NEW w \in Workers, ResetPassword(w) PROVE CoreInv'
<1>1. RowsInv /\ AccessTypeOK /\ req \in [Workers -> Request] /\ Idle \in Request
    BY TypedReq DEF CoreInv, RowsInv, Request
<1>2. PICK l \in Links : l = req[w].at /\ req[w].step = "reset"
    BY <1>1, ResetDoes
<1>3. PICK a \in Accounts : a = links[l].user /\ IsUser(a)
    BY <1>1, <1>2, ResetDoes
<1>4. PICK row \in UserRow :
         /\ users' = [users EXCEPT ![a] = row] /\ row.role = users[a].role /\ row.failures = 0
         /\ row.lock = "none" /\ row.active = users[a].active
    BY <1>1, <1>2, <1>3, ResetDoes
<1>5. /\ links[l] # NoLink /\ links' = [links EXCEPT ![l].used = @ + 1] /\ EndSessions(a)
      /\ req' = [req EXCEPT ![w] = Idle] /\ UNCHANGED <<founded, invites, doubled, raced>>
    BY <1>1, <1>2, <1>3, ResetDoes DEF Done
<1>6. /\ links'[l].used = links[l].used + 1 /\ \A m \in Links \ {l} : links'[m] = links[m]
    BY <1>1, <1>5, UseLink
<1>7. users'[a] = row /\ \A b \in Accounts \ {a} : users'[b] = users[b]
    BY <1>1, <1>3, <1>4, KeepUsers
<1>8. req'[w] = Idle /\ \A v \in Workers \ {w} : req'[v] = req[v]
    BY <1>1, <1>5, PutReq
<1>9. /\ Idle \notin EnteringReq /\ Idle \notin ManageReq /\ Idle.step # "invite" /\ Idle.step # "issue"
      /\ req[w] # Idle
    BY <1>1, <1>2, RequestKinds
<1>10. CurrentInv'
    BY <1>5, <1>7, <1>8, EndedCurrent
<1>11. /\ \A thing : At(thing)' \subseteq At(thing) \ {w}
       /\ \A e : Inviting(e)' \subseteq Inviting(e)
    BY <1>1, <1>5, <1>9, AtMoves
<1>12. UsedOnce'
  <2>1. /\ \A s \in Sessions : SessionUsed(s)
        /\ \A m \in Links : LinkUsed(m)
        /\ \A e \in Emails : InviteUsed(e)
      BY UsedParts DEF CoreInv
  <2>2. sessions' \in [Sessions -> {NoSession} \cup Token] /\ Revokes
      BY <1>1, <1>5, EndSessionsFacts
  <2>3. \A v \in Workers : Follows(v)
      BY <1>8, <1>9 DEF Follows, Shrinks
  <2>4. ASSUME NEW s \in Sessions PROVE SessionUsed(s)'
    <3>1. CASE sessions[s] = NoSession
        BY <1>1, <2>2, <3>1, RevokedFacts DEF SessionUsed
    <3>2. CASE sessions[s] # NoSession
        BY <1>1, <1>5, <2>1, <2>2, <2>3, <3>2, RevokedFacts, KeepSessionUsed
    <3>3. QED
        BY <3>1, <3>2
  <2>5. LinkUsed(l)'
    <3>1. CASE l \in doubled'
        BY <3>1 DEF LinkUsed
    <3>2. CASE l \notin doubled'
      <4>1. w \in At(l)
          BY <1>2, <1>9 DEF At
      <4>2. links[l].used = 0 /\ AtMostOne(At(l))
          BY <1>5, <2>1, <3>2, <4>1 DEF LinkUsed
      <4>3. At(l)' = {}
          BY <1>11, <4>1, <4>2 DEF AtMostOne
      <4>4. AtMostOne(At(l))'
          BY <4>3 DEF AtMostOne
      <4>5. links'[l].used = 1
          BY <1>6, <4>2
      <4>6. QED
          BY <4>3, <4>4, <4>5 DEF LinkUsed
    <3>3. QED
        BY <3>1, <3>2
  <2>6. ASSUME NEW m \in Links, m # l PROVE LinkUsed(m)'
      BY <1>5, <1>6, <1>11, <2>1, <2>6, SameLinkUsed
  <2>7. ASSUME NEW e \in Emails PROVE InviteUsed(e)'
    <3>1. Pending(e)' \subseteq Pending(e)
        BY <1>5, SameInvites, PendingFalls
    <3>2. QED
        BY <1>5, <1>11, <2>1, <3>1, KeepInviteUsed
  <2>8. QED
      BY <2>4, <2>5, <2>6, <2>7, PartsUsed
<1>13. LockFollowsFailures'
  <2>1. LockFollowsFailures
      BY DEF CoreInv
  <2>2. LockFits(row)
      BY <1>4, AccessAssumption DEF LockFits
  <2>3. \A b \in Accounts : users'[b] = users[b] \/ LockFits(users'[b])
      BY <1>7, <2>2
  <2>4. QED
      BY <1>8, <1>9, <2>1, <2>3, KeepsLocks
<1>14. OwnersRemain'
  <2>1. OwnersRemain
      BY DEF CoreInv
  <2>2. OwnersStay
      BY <1>4, <1>7 DEF OwnersStay
  <2>3. QED
      BY <1>5, <1>8, <1>9, <2>1, <2>2, KeepsOwners
<1>15. QED
    BY <1>10, <1>12, <1>13, <1>14 DEF CoreInv

\* The owners, when the one a request was judged to take goes.
LEMMA TakenOwner ==
    ASSUME CoreInv, NEW w \in Workers, req[w] \in ManageReq, NEW a \in Accounts, a = req[w].at,
           req[w].step \in {"role", "deactivate"}, ~ Races(w),
           req' = [req EXCEPT ![w] = Idle], founded' = founded,
           \A b \in Accounts \ {a} : users'[b] = users[b]
    PROVE  OwnersRemain'
<1>1. req \in [Workers -> Request] /\ Idle \in Request
    BY TypedReq DEF CoreInv, RowsInv, Request
<1>2. req'[w] = Idle /\ \A v \in Workers \ {w} : req'[v] = req[v]
    BY <1>1, PutReq
<1>3. ~ raced /\ req[w].takes /\ ~ OthersTake(w)
    BY DEF Races
<1>4. Owners \ {a} # {}
    BY <1>3 DEF CoreInv, OwnersRemain, OnStep, ActiveOwners
<1>5. Owners' # {}
  <2>1. PICK b \in Owners : b # a
      BY <1>4
  <2>2. b \in Accounts /\ users'[b].role = "owner"
      BY <2>1 DEF Owners
  <2>3. QED
      BY <2>2 DEF Owners
<1>6. ASSUME NEW v \in Workers, req'[v] \in ManageReq, req'[v].takes
      PROVE  ~ OnStep(v, "role")' /\ ~ OnStep(v, "deactivate")'
  <2>1. CASE v = w
      BY <1>2, <2>1, Kinds DEF OnStep
  <2>2. CASE v # w
      BY <1>2, <1>3, <1>6, <2>2 DEF OthersTake, OnStep
  <2>3. QED
      BY <2>1, <2>2
<1>7. QED
    BY <1>5, <1>6 DEF OwnersRemain

LEMMA DeactivateCore == ASSUME CoreInv, RowsInv', NEW w \in Workers, Deactivate(w) PROVE CoreInv'
<1>1. RowsInv /\ AccessTypeOK /\ req \in [Workers -> Request] /\ Idle \in Request
    BY TypedReq DEF CoreInv, RowsInv, Request
<1>2. PICK a \in Accounts : a = req[w].at /\ IsUser(a)
    BY <1>1, DeactivateDoes
<1>3. PICK row \in UserRow :
         /\ users' = [users EXCEPT ![a] = row] /\ row.role = users[a].role
         /\ row.failures = users[a].failures /\ row.lock = users[a].lock
    BY <1>1, <1>2, DeactivateDoes
<1>4. /\ req[w] \in ManageReq /\ req[w].step = "deactivate" /\ EndSessions(a)
      /\ req' = [req EXCEPT ![w] = Idle] /\ UNCHANGED <<founded, links, invites, doubled>>
    BY <1>1, <1>2, DeactivateDoes DEF Done
<1>5. users'[a] = row /\ \A b \in Accounts \ {a} : users'[b] = users[b]
    BY <1>1, <1>2, <1>3, KeepUsers
<1>6. req'[w] = Idle /\ \A v \in Workers \ {w} : req'[v] = req[v]
    BY <1>1, <1>4, PutReq
<1>7. Idle \notin EnteringReq /\ Idle \notin ManageReq /\ Idle.step # "invite" /\ Idle.step # "issue"
    BY <1>1, RequestKinds
<1>8. CurrentInv'
    BY <1>4, <1>5, <1>6, EndedCurrent
<1>9. UsedOnce'
  <2>1. Revokes
      BY <1>1, <1>4, EndSessionsFacts
  <2>2. \A v \in Workers : Follows(v)
      BY <1>6, <1>7 DEF Follows, Shrinks
  <2>3. QED
      BY <1>4, <2>1, <2>2, SameInvites, KeepsUsed
<1>10. LockFollowsFailures'
  <2>1. LockFollowsFailures
      BY DEF CoreInv
  <2>2. LockFits(row)
      BY <1>2, <1>3, UserLockFits DEF LockFits
  <2>3. \A b \in Accounts : users'[b] = users[b] \/ LockFits(users'[b])
      BY <1>5, <2>2
  <2>4. QED
      BY <1>6, <1>7, <2>1, <2>3, KeepsLocks
<1>11. OwnersRemain'
  <2>1. CASE users[a].role = "owner"
    <3>1. raced' = Races(w)
        BY <1>2, <2>1 DEF Deactivate
    <3>2. CASE Races(w)
        BY <3>1, <3>2 DEF OwnersRemain
    <3>3. CASE ~ Races(w)
        BY <1>2, <1>4, <1>5, <3>3, TakenOwner
    <3>4. QED
        BY <3>2, <3>3
  <2>2. CASE users[a].role # "owner"
    <3>1. raced' = raced
        BY <1>2, <2>2 DEF Deactivate
    <3>2. OwnersStay /\ OwnersRemain
        BY <1>5, <2>2 DEF OwnersStay, CoreInv
    <3>3. QED
        BY <1>4, <1>6, <1>7, <3>1, <3>2, KeepsOwners
  <2>3. QED
      BY <2>1, <2>2
<1>12. QED
    BY <1>8, <1>9, <1>10, <1>11 DEF CoreInv

LEMMA SetRoleCore == ASSUME CoreInv, RowsInv', NEW w \in Workers, SetRole(w) PROVE CoreInv'
<1>1. RowsInv /\ AccessTypeOK /\ req \in [Workers -> Request] /\ Idle \in Request
    BY TypedReq DEF CoreInv, RowsInv, Request
<1>2. req[w] \in ManageReq /\ req[w].step = "role" /\ GivenFits(req[w])
    BY <1>1, StepKind DEF SetRole, OnStep, ReqFits
<1>3. PICK a \in Accounts, role \in Roles : a = req[w].at /\ role = req[w].given /\ IsUser(a)
    BY <1>2 DEF ManageReq, GivenFits
<1>4. PICK row : row = [users[a] EXCEPT !.role = role]
    OBVIOUS
<1>5. users[a] \in UserRow
    BY <1>1, <1>3, UserRows
<1>6. /\ row \in UserRow /\ row.role = role /\ row.failures = users[a].failures
      /\ row.lock = users[a].lock /\ row.active = users[a].active
    BY <1>4, <1>5 DEF UserRow
<1>7. /\ users' = [users EXCEPT ![a] = row] /\ req' = [req EXCEPT ![w] = Idle]
      /\ UNCHANGED <<founded, sessions, links, invites, epoch, doubled>>
      /\ raced' = IF users[a].role = "owner" /\ role # "owner" THEN Races(w) ELSE raced
    BY <1>3, <1>4 DEF SetRole, Done
<1>8. users'[a] = row /\ \A b \in Accounts \ {a} : users'[b] = users[b]
    BY <1>1, <1>3, <1>6, <1>7, KeepUsers
<1>9. req'[w] = Idle /\ \A v \in Workers \ {w} : req'[v] = req[v]
    BY <1>1, <1>7, PutReq
<1>10. Idle \notin EnteringReq /\ Idle \notin ManageReq /\ Idle.step # "invite" /\ Idle.step # "issue"
    BY <1>1, RequestKinds
<1>11. Revokes /\ SameStanding
    BY <1>1, <1>6, <1>7, <1>8, SameSessions DEF SameStanding
<1>12. CurrentInv'
  <2>1. \A v \in Workers : req'[v] = req[v] \/ EntryCurrent(v)'
      BY <1>9, <1>10 DEF EntryCurrent
  <2>2. QED
      BY <1>11, <2>1, KeepsCurrent
<1>13. UsedOnce'
  <2>1. \A v \in Workers : Follows(v)
      BY <1>9, <1>10 DEF Follows, Shrinks
  <2>2. QED
      BY <1>7, <1>11, <2>1, SameInvites, KeepsUsed
<1>14. LockFollowsFailures'
  <2>1. LockFollowsFailures
      BY DEF CoreInv
  <2>2. LockFits(row)
      BY <1>3, <1>6, UserLockFits DEF LockFits
  <2>3. \A b \in Accounts : users'[b] = users[b] \/ LockFits(users'[b])
      BY <1>8, <2>2
  <2>4. QED
      BY <1>9, <1>10, <2>1, <2>3, KeepsLocks
<1>15. OwnersRemain'
  <2>1. CASE users[a].role = "owner" /\ role # "owner"
    <3>1. raced' = Races(w)
        BY <1>7, <2>1
    <3>2. CASE Races(w)
        BY <3>1, <3>2 DEF OwnersRemain
    <3>3. CASE ~ Races(w)
        BY <1>2, <1>3, <1>7, <1>8, <3>3, TakenOwner
    <3>4. QED
        BY <3>2, <3>3
  <2>2. CASE ~ (users[a].role = "owner" /\ role # "owner")
    <3>1. raced' = raced
        BY <1>7, <2>2
    <3>2. OwnersStay /\ OwnersRemain
        BY <1>6, <1>8, <2>2 DEF OwnersStay, CoreInv
    <3>3. QED
        BY <1>7, <1>9, <1>10, <3>1, <3>2, KeepsOwners
  <2>3. QED
      BY <2>1, <2>2
<1>16. QED
    BY <1>12, <1>13, <1>14, <1>15 DEF CoreInv

LEMMA SendCore == ASSUME CoreInv, RowsInv', NEW w \in Workers, SendInvite(w) PROVE CoreInv'
<1>1. RowsInv /\ AccessTypeOK /\ req \in [Workers -> Request] /\ Idle \in Request
    BY TypedReq DEF CoreInv, RowsInv, Request
<1>2. PICK e \in Emails : e = req[w].at
    BY <1>1, SendDoes
<1>3. /\ req[w] \in ManageReq /\ req[w].step = "invite" /\ req' = [req EXCEPT ![w] = Idle]
      /\ UNCHANGED <<founded, users, sessions, links, epoch, doubled, raced>>
    BY <1>1, SendDoes DEF Done
<1>4. PICK i \in Invites, row \in [email : Emails, role : Roles, accepted : BOOLEAN] :
         invites[i] = NoInvite /\ invites' = [invites EXCEPT ![i] = row] /\ row.email = e
    BY <1>1, <1>2, SendDoes
<1>5. invites'[i] = row /\ \A j \in Invites \ {i} : invites'[j] = invites[j]
    BY <1>1, <1>4, InvitesTyped
<1>6. req'[w] = Idle /\ \A v \in Workers \ {w} : req'[v] = req[v]
    BY <1>1, <1>3, PutReq
<1>7. Idle \notin EnteringReq /\ Idle \notin ManageReq /\ Idle.step # "invite" /\ Idle.step # "issue"
    BY <1>1, RequestKinds
<1>8. Revokes /\ SameStanding
    BY <1>1, <1>3, SameSessions DEF SameStanding
<1>9. CurrentInv'
  <2>1. \A v \in Workers : req'[v] = req[v] \/ EntryCurrent(v)'
      BY <1>6, <1>7 DEF EntryCurrent
  <2>2. QED
      BY <1>8, <2>1, KeepsCurrent
<1>10. /\ \A thing : At(thing)' \subseteq At(thing)
       /\ \A x : Inviting(x)' \subseteq Inviting(x) \ {w}
    BY <1>1, <1>3, <1>7, AtMoves
<1>11. UsedOnce'
  <2>1. /\ \A s \in Sessions : SessionUsed(s)
        /\ \A l \in Links : LinkUsed(l)
        /\ \A x \in Emails : InviteUsed(x)
      BY UsedParts DEF CoreInv
  <2>2. \A s \in Sessions : SessionUsed(s)'
    <3>1. \A v \in Workers : req'[v] = req[v] \/ req'[v].step # "issue"
        BY <1>6, <1>7
    <3>2. QED
        BY <1>3, <1>10, <2>1, <3>1, SameSessionUsed
  <2>3. \A l \in Links : LinkUsed(l)'
      BY <1>3, <1>10, <2>1, SameLinkUsed
  <2>4. InviteUsed(e)'
    <3>1. CASE e \in doubled
        BY <1>3, <3>1 DEF InviteUsed
    <3>2. CASE e \notin doubled
      <4>1. w \in Inviting(e)
          BY <1>2, <1>3 DEF Inviting, OnStep
      <4>2. Pending(e) = {} /\ AtMostOne(Inviting(e))
          BY <2>1, <3>2, <4>1 DEF InviteUsed
      <4>3. Inviting(e)' = {}
          BY <1>10, <4>1, <4>2 DEF AtMostOne
      <4>4. Pending(e)' \subseteq {i}
          BY <1>5, <4>2 DEF Pending
      <4>5. AtMostOne(Pending(e))' /\ AtMostOne(Inviting(e))'
          BY <4>3, <4>4 DEF AtMostOne
      <4>6. QED
          BY <4>3, <4>5 DEF InviteUsed
    <3>3. QED
        BY <3>1, <3>2
  <2>5. ASSUME NEW x \in Emails, x # e PROVE InviteUsed(x)'
    <3>1. Pending(x)' \subseteq Pending(x)
        BY <1>4, <1>5, <2>5 DEF Pending
    <3>2. QED
        BY <1>3, <1>10, <2>1, <3>1, KeepInviteUsed
  <2>6. QED
      BY <2>2, <2>3, <2>4, <2>5, PartsUsed
<1>12. LockFollowsFailures'
  <2>1. LockFollowsFailures
      BY DEF CoreInv
  <2>2. QED
      BY <1>3, <1>6, <1>7, <2>1, KeepsLocks
<1>13. OwnersRemain'
  <2>1. OwnersRemain /\ OwnersStay
      BY <1>3 DEF CoreInv, OwnersStay
  <2>2. QED
      BY <1>3, <1>6, <1>7, <2>1, KeepsOwners
<1>14. QED
    BY <1>9, <1>11, <1>12, <1>13 DEF CoreInv

LEMMA NotTheOnly == \A S : Cardinality(S) > 1 => \A x : S \ {x} # {}
<1> SUFFICES ASSUME NEW S, Cardinality(S) > 1, NEW x, S \ {x} = {} PROVE FALSE
    OBVIOUS
<1>1. S = {} \/ S = {x}
    OBVIOUS
<1>2. Cardinality(S) = 0 \/ Cardinality(S) = 1
    BY <1>1, FS_EmptySet, FS_Singleton
<1>3. QED
    BY <1>2

\* What a judgement says, with the request as it goes on.
LEMMA JudgeDoes ==
    ASSUME CoreInv, NEW w \in Workers, Judge(w)
    PROVE  /\ UNCHANGED <<founded, users, sessions, links, invites, epoch, raced>>
           /\ \E r \in ManageReq :
                /\ req' = [req EXCEPT ![w] = r] /\ r.step = req[w].op
                /\ r.at = req[w].at
                /\ r.takes /\ r.step = "role" => Cardinality(Owners) > 1
                /\ r.takes /\ r.step = "deactivate" => Cardinality(ActiveOwners) > 1
                /\ r.step = "invite" => Pending(r.at) = {}
                /\ doubled' = IF r.step = "invite" /\ \E v \in Rivals(w, r.at) : OnStep(v, "invite")
                              THEN doubled \cup {r.at} ELSE doubled
<1>1. req[w] \in ManageReq
  <2>1. RowsInv
      BY DEF CoreInv
  <2>2. QED
      BY <2>1, StepKind DEF Judge, OnStep
<1>2. PICK takes \in BOOLEAN :
         takes = (\/ req[w].op = "role" /\ users[req[w].at].role = "owner" /\ req[w].given # "owner"
                  \/ req[w].op = "deactivate" /\ users[req[w].at].role = "owner")
    OBVIOUS
<1>3. PICK r : r = [req[w] EXCEPT !.step = req[w].op, !.takes = takes]
    OBVIOUS
<1>4. /\ r \in ManageReq /\ r.step = req[w].op /\ r.at = req[w].at /\ r.takes = takes
    BY <1>1, <1>3 DEF ManageReq
<1>5. req' = [req EXCEPT ![w].step = req[w].op, ![w].takes = takes]
    BY <1>2 DEF Judge
<1>6. req' = [req EXCEPT ![w] = r]
    BY <1>3, <1>5
<1>7. /\ req[w].op = "role" /\ takes => TakesOwner(req[w].acting, Owners)
      /\ req[w].op = "deactivate" /\ takes => TakesOwner(req[w].acting, ActiveOwners)
      /\ req[w].op = "invite" => Pending(req[w].at) = {}
      /\ doubled' = IF req[w].op = "invite" /\ \E v \in Rivals(w, req[w].at) : OnStep(v, "invite")
                    THEN doubled \cup {req[w].at} ELSE doubled
    BY <1>2 DEF Judge
<1>8. UNCHANGED <<founded, users, sessions, links, invites, epoch, raced>>
    BY DEF Judge
<1>9. QED
    BY <1>4, <1>6, <1>7, <1>8 DEF TakesOwner

LEMMA JudgeCore == ASSUME CoreInv, RowsInv', NEW w \in Workers, Judge(w) PROVE CoreInv'
<1>1. RowsInv /\ AccessTypeOK /\ req \in [Workers -> Request]
    BY TypedReq DEF CoreInv, RowsInv
<1>2. UNCHANGED <<founded, users, sessions, links, invites, epoch, raced>>
    BY JudgeDoes
<1>3. PICK r \in ManageReq :
         /\ req' = [req EXCEPT ![w] = r] /\ r.step = req[w].op /\ r.at = req[w].at
         /\ r.takes /\ r.step = "role" => Cardinality(Owners) > 1
         /\ r.takes /\ r.step = "deactivate" => Cardinality(ActiveOwners) > 1
         /\ r.step = "invite" => Pending(r.at) = {}
         /\ doubled' = IF r.step = "invite" /\ \E v \in Rivals(w, r.at) : OnStep(v, "invite")
                       THEN doubled \cup {r.at} ELSE doubled
    BY JudgeDoes
<1>4. r \in Request /\ r \notin EnteringReq /\ r.step # "issue" /\ r.at \in Accounts /\ r # Idle
    BY RequestKinds DEF Request, ManageReq
<1>5. req'[w] = r /\ \A v \in Workers \ {w} : req'[v] = req[v]
    BY <1>1, <1>3, <1>4, PutReq
<1>6. doubled \subseteq doubled'
    BY <1>3
<1>7. Revokes /\ SameStanding
    BY <1>1, <1>2, SameSessions DEF SameStanding
<1>8. CurrentInv'
  <2>1. \A v \in Workers : req'[v] = req[v] \/ EntryCurrent(v)'
      BY <1>4, <1>5 DEF EntryCurrent
  <2>2. QED
      BY <1>7, <2>1, KeepsCurrent
<1>9. \A thing : thing # r.at => At(thing)' \subseteq At(thing)
    BY <1>1, <1>3, <1>4, AtMoves
<1>10. UsedOnce'
  <2>1. /\ \A s \in Sessions : SessionUsed(s)
        /\ \A l \in Links : LinkUsed(l)
        /\ \A x \in Emails : InviteUsed(x)
      BY UsedParts DEF CoreInv
  <2>2. ASSUME NEW s \in Sessions PROVE SessionUsed(s)'
    <3>1. \A v \in Workers : req'[v] = req[v] \/ req'[v].step # "issue"
        BY <1>4, <1>5
    <3>2. s # r.at
        BY <1>4, IdsApart
    <3>3. QED
        BY <1>2, <1>6, <1>9, <2>1, <3>1, <3>2, SameSessionUsed
  <2>3. ASSUME NEW l \in Links PROVE LinkUsed(l)'
    <3>1. l # r.at
        BY <1>4, IdsApart
    <3>2. QED
        BY <1>2, <1>6, <1>9, <2>1, <3>1, SameLinkUsed
  <2>4. ASSUME NEW e \in Emails PROVE InviteUsed(e)'
    <3>1. Pending(e)' = Pending(e)
        BY <1>2 DEF Pending
    <3>2. CASE r.step = "invite" /\ r.at = e
      <4>1. CASE \E v \in Rivals(w, e) : OnStep(v, "invite")
          BY <1>3, <3>2, <4>1 DEF InviteUsed
      <4>2. CASE ~ \E v \in Rivals(w, e) : OnStep(v, "invite")
        <5>1. \A v \in Inviting(e) : v # w => v \in Rivals(w, e) /\ OnStep(v, "invite")
            BY Kinds DEF Inviting, Rivals, At, OnStep
        <5>2. Inviting(e) \subseteq {w}
            BY <4>2, <5>1
        <5>3. Inviting(e)' \subseteq {w}
            BY <1>5, <5>2 DEF Inviting, OnStep
        <5>4. AtMostOne(Pending(e))' /\ AtMostOne(Inviting(e))' /\ Pending(e)' = {}
            BY <1>3, <3>1, <3>2, <5>3 DEF AtMostOne
        <5>5. QED
            BY <5>4 DEF InviteUsed
      <4>3. QED
          BY <4>1, <4>2
    <3>3. CASE ~ (r.step = "invite" /\ r.at = e)
      <4>1. Inviting(e)' \subseteq Inviting(e)
          BY <1>5, <3>3 DEF Inviting, OnStep
      <4>2. QED
          BY <1>6, <2>1, <3>1, <4>1, KeepInviteUsed
    <3>4. QED
        BY <3>2, <3>3
  <2>5. QED
      BY <2>2, <2>3, <2>4, PartsUsed
<1>11. LockFollowsFailures'
  <2>1. LockFollowsFailures
      BY DEF CoreInv
  <2>2. QED
      BY <1>2, <1>4, <1>5, <2>1, KeepsLocks
<1>12. OwnersRemain'
  <2>1. CASE raced
      BY <1>2, <2>1 DEF OwnersRemain
  <2>2. CASE ~ raced
    <3>1. /\ founded => Owners # {}
          /\ \A v \in Workers : req[v] \in ManageReq /\ req[v].takes =>
                /\ OnStep(v, "role") => Owners \ {req[v].at} # {}
                /\ OnStep(v, "deactivate") => ActiveOwners \ {req[v].at} # {}
        BY <2>2 DEF CoreInv, OwnersRemain
    <3>2. Owners' = Owners /\ ActiveOwners' = ActiveOwners /\ founded' = founded
        BY <1>2 DEF Owners, ActiveOwners
    <3>3. ASSUME NEW v \in Workers, req'[v] \in ManageReq, req'[v].takes
          PROVE  /\ OnStep(v, "role")' => Owners' \ {req'[v].at} # {}
                 /\ OnStep(v, "deactivate")' => ActiveOwners' \ {req'[v].at} # {}
      <4>1. CASE v = w
        <5>1. OnStep(v, "role")' => Cardinality(Owners) > 1
            BY <1>3, <1>5, <3>3, <4>1 DEF OnStep
        <5>2. OnStep(v, "deactivate")' => Cardinality(ActiveOwners) > 1
            BY <1>3, <1>5, <3>3, <4>1 DEF OnStep
        <5>3. QED
            BY <3>2, <5>1, <5>2, NotTheOnly
      <4>2. CASE v # w
          BY <1>5, <3>1, <3>2, <3>3, <4>2 DEF OnStep
      <4>3. QED
          BY <4>1, <4>2
    <3>4. QED
        BY <3>1, <3>2, <3>3 DEF OwnersRemain
  <2>3. QED
      BY <2>1, <2>2
<1>13. QED
    BY <1>8, <1>10, <1>11, <1>12 DEF CoreInv

LEMMA NextCoreInv == ASSUME CoreInv, [AccessNext]_accessVars PROVE CoreInv'
<1>1. RowsInv'
    BY NextRowsInv DEF CoreInv
<1>2. CASE AskGuarded
  <2>1. ASSUME NEW by \in Accounts, NEW w \in Workers, NEW a \in Accounts,
               NEW op \in {"role", "invite", "key"}, NEW role \in OfferedRoles,
               Manage(w, by, op, a, role, NoRow)
        PROVE  CoreInv'
    <3>1. role \in Roles /\ op \in Managed
        BY AccessAssumption DEF Managed
    <3>2. QED
        BY <1>1, <2>1, <3>1, ManageCore
  <2>2. ASSUME NEW by \in Accounts, NEW w \in Workers, NEW a \in Accounts,
               NEW op \in {"deactivate", "override"}, NEW row \in Rows \cup {NoRow},
               Manage(w, by, op, a, "none", row)
        PROVE  CoreInv'
    <3>1. op \in Managed
        BY DEF Managed
    <3>2. QED
        BY <1>1, <2>2, <3>1, ManageCore
  <2>3. ASSUME NEW by \in Accounts, NEW w \in Workers, NEW i \in Invites, FindInvite(w, by, i)
        PROVE  CoreInv'
      BY <1>1, <2>3, AskInviteCore
  <2>4. ASSUME NEW by \in Accounts,
               \/ \E r \in Robots : RevokeKey(by, r)
               \/ \E a \in Accounts, row \in Rows : RemoveOverride(by, a, row)
        PROVE  CoreInv'
      BY <1>1, <2>4, AsideCore
  <2>5. QED
      BY <1>2, <2>1, <2>2, <2>3, <2>4 DEF AskGuarded
<1>3. CASE AskPublic
    BY <1>1, <1>3, ApplyCore, LoginCore, RefreshCore, OpenLinkCore, AskInviteCore, AsideCore,
       RequestResetCore, LockEndsCore DEF AskPublic
<1>4. ASSUME NEW w \in Workers, ServeAccess(w) \/ Found(w) PROVE CoreInv'
    BY <1>1, <1>4, FailedCore, ClearCore, RotateCore, IssueCore, ResetCore, JudgeCore, SetRoleCore,
       DeactivateCore, SendCore, KeyCore, OverrideCore, RevokeInviteCore, AdmitCore, FailCore
    DEF ServeAccess
<1>5. CASE UNCHANGED accessVars
    BY <1>1, <1>5, AsideCore
<1>6. QED
    BY <1>2, <1>3, <1>4, <1>5 DEF AccessNext

LEMMA BeginsCoreInv == AccessInit => CoreInv
<1> SUFFICES ASSUME AccessInit PROVE CoreInv
    OBVIOUS
<1>1. PICK start \in Starts : plan = start.plan /\ users = start.staff
    BY DEF AccessInit
<1>2. /\ users \in [Accounts -> {NoUser} \cup {NewUser(r) : r \in Roles}]
      /\ \A r \in Robots : users[r] = NoUser
      /\ IF "register" \in plan THEN \A a \in Accounts : users[a] = NoUser
         ELSE \E a \in Accounts : users[a].role = "owner"
    BY <1>1, AccessAssumption
<1>3. /\ founded = ("register" \notin plan)
      /\ sessions = [s \in Sessions |-> NoSession]
      /\ claims = {[user |-> a, role |-> users[a].role] : a \in {b \in Accounts : IsUser(b)}}
      /\ links = [l \in Links |-> NoLink] /\ invites = [i \in Invites |-> NoInvite]
      /\ keys = [r \in Robots |-> "none"] /\ overrides = [a \in Accounts |-> {}]
      /\ req = [w \in Workers |-> Idle] /\ epoch = [a \in Accounts |-> 0]
      /\ doubled = {} /\ raced = FALSE
    BY DEF AccessInit
<1>4. /\ Idle \notin EnteringReq /\ Idle \notin ManageReq /\ Idle.step = "idle"
    BY Kinds
<1>5. AccessTypeOK
  <2>1. users \in [Accounts -> {NoUser} \cup UserRow]
      BY <1>2, UserFacts
  <2>2. claims \subseteq [user : Accounts, role : Roles]
    <3>1. \A a \in Accounts : IsUser(a) => users[a].role \in Roles
        BY <2>1, UserFacts DEF IsUser
    <3>2. QED
        BY <1>3, <3>1
  <2>3. QED
      BY <1>3, <2>1, <2>2 DEF AccessTypeOK, KeyStates
<1>6. RefersToUsers
  <2>1. \A r \in Robots : ~ IsUser(r)
      BY <1>2 DEF IsUser
  <2>2. QED
      BY <1>3, <1>4, <2>1 DEF RefersToUsers, OnStep
<1>7. CurrentInv
    BY <1>3, <1>4 DEF CurrentInv, SessionCurrent, EntryCurrent
<1>8. UsedOnce
  <2>1. \A e \in Emails : Pending(e) = {} /\ Inviting(e) = {}
      BY <1>3, <1>4, IdsApart DEF Pending, Inviting, OnStep, NoInvite
  <2>2. QED
      BY <1>3, <2>1 DEF UsedOnce, AtMostOne
<1>9. LockFollowsFailures
  <2>1. \A a \in Accounts : IsUser(a) => LockFits(users[a])
      BY <1>2, NewLockFits DEF IsUser
  <2>2. QED
      BY <1>3, <1>4, <2>1 DEF LockFollowsFailures
<1>10. OwnersRemain
    BY <1>2, <1>3, <1>4 DEF OwnersRemain, Owners
<1>11. QED
    BY <1>5, <1>6, <1>7, <1>8, <1>9, <1>10 DEF CoreInv, RowsInv

\* An override is about none of what decides on access.
LEMMA NoneDelegates == AccessTypeOK => AccessIsNotDelegated
<1> SUFFICES ASSUME AccessTypeOK, NEW a \in Accounts, NEW role \in {"financeiro", "operador_caixa"},
                    NEW action \in Actions, NEW subject \in {"UserAccess", "Integration"}
             PROVE  ~ May(role, overrides[a], action, subject)
    BY DEF AccessIsNotDelegated
<1>1. \A o \in overrides[a] : o.subject \in Overridable
  <2>1. \A o \in OverrideRow : o.subject \in Overridable
      BY DEF OverrideRow
  <2>2. QED
      BY <2>1, AccessAssumption DEF AccessTypeOK
<1>2. subject \notin Overridable /\ "all" \notin Overridable
    BY DEF Overridable
<1>3. {o \in overrides[a] : Covers(o, action, subject)} = {}
    BY <1>1, <1>2 DEF Covers
<1>4. \A rule \in RoleRules(role) : rule.subject \in Overridable
  <2>1. \A actions, subjects : \A rule \in Rules(actions, subjects) : rule.subject \in subjects
      BY DEF Rules
  <2>2. CASE role = "financeiro"
    <3>1. RoleRules(role) = Rules({"manage"}, {"FinanceEntry", "CostCenter"})
                            \cup Rules({"read"}, ReadByFinance)
        BY <2>2 DEF RoleRules
    <3>2. {"FinanceEntry", "CostCenter"} \subseteq Overridable /\ ReadByFinance \subseteq Overridable
        BY DEF Overridable, ReadByFinance
    <3>3. QED
        BY <2>1, <3>1, <3>2
  <2>3. CASE role = "operador_caixa"
    <3>1. RoleRules(role) =
             Rules({"create", "read"}, {"Sale", "SaleReturn", "CashSession"})
             \cup Rules({"update"}, {"CashSession"})
             \cup Rules({"read"}, {"Product", "Category", "Customer", "Store"})
        BY <2>3 DEF RoleRules
    <3>2. /\ {"Sale", "SaleReturn", "CashSession"} \subseteq Overridable
          /\ {"CashSession"} \subseteq Overridable
          /\ {"Product", "Category", "Customer", "Store"} \subseteq Overridable
        BY DEF Overridable
    <3>3. QED
        BY <2>1, <3>1, <3>2
  <2>4. QED
      BY <2>2, <2>3
<1>5. QED
    BY <1>2, <1>3, <1>4 DEF May, Covers

LEMMA CoreImplies == CoreInv => AccessInv
<1> SUFFICES ASSUME CoreInv PROVE AccessInv
    OBVIOUS
<1>1. SessionsEndWithAccess
    BY DEF CoreInv, CurrentInv, SessionCurrent, SessionsEndWithAccess
<1>2. EntriesCurrent
    BY DEF CoreInv, CurrentInv, EntryCurrent, EntriesCurrent
<1>3. AccessIsNotDelegated
    BY NoneDelegates DEF CoreInv, RowsInv
<1>4. QED
    BY <1>1, <1>2, <1>3 DEF CoreInv, RowsInv, AccessInv

-----------------------------------------------------------------------------
(* Within the platform. *)

LEMMA PlatformBegins == PlatformInit => EarnedInv
<1> SUFFICES ASSUME PlatformInit PROVE EarnedInv
    OBVIOUS
<1>1. BillBegins /\ clock \in Nat
      /\ tenants = [t \in Tenants |-> IF founded THEN Trial ELSE NoTenant]
    BY DEF PlatformInit, BillBegins
<1>2. Trial \in Tenant /\ Trial.status = "trial" /\ NoTenant.status = "none"
    BY <1>1, TrialTyped DEF NoTenant
<1>3. BillingInv
    BY <1>1, <1>2, BillBeginsInv
<1>4. QED
    BY <1>1, <1>3, BillBeginsEarned

\* What the platform does to the subscription is what Billing does.
LEMMA PlatformBills == [PlatformNext]_platformVars => [BillNext]_billVars
<1> SUFFICES ASSUME [PlatformNext]_platformVars PROVE [BillNext]_billVars
    OBVIOUS
<1>1. Company \in Tenants
    BY PlatformAssumption
<1>2. CASE Guarded \/ Unguarded
    BY <1>2 DEF Guarded, Unguarded
<1>3. CASE AskBilling
    BY <1>1, <1>3 DEF AskBilling, BillNext
<1>4. CASE Time
    BY <1>4 DEF Time, BillNext
<1>5. CASE RunBilling
    BY <1>5 DEF RunBilling, BillNext
<1>6. CASE \E w \in Workers : Register(w)
    BY <1>1, <1>6 DEF Register, BillNext
<1>7. CASE UNCHANGED platformVars
    BY <1>7 DEF platformVars
<1>8. QED
    BY <1>2, <1>3, <1>4, <1>5, <1>6, <1>7 DEF PlatformNext

LEMMA SpecEarnedInv == PlatformSpec => []EarnedInv
<1>1. EarnedInv /\ [PlatformNext]_platformVars => EarnedInv'
    BY PlatformBills, NextEarnedInv
<1>2. QED
    BY <1>1, PlatformBegins, PTL DEF PlatformSpec

\* Whatever owners, the job of the night and the job of the hour do in between,
\* the rows of a tenant stay well formed, what a writer holds stays there, and
\* the status of the tenant is the one its subscription calls for
\* (billing.service.ts, trial-expiry.service.ts).
THEOREM SpecBillingInv == PlatformSpec => []BillingInv
<1>1. EarnedInv => BillingInv
    BY DEF EarnedInv
<1>2. QED
    BY <1>1, SpecEarnedInv, PTL

\* A tenant whose writers have not crossed stands for what it paid: the period of
\* the last paid invoice, the grace counted from the first charge declined after
\* it, the block once that is over, and no period the job charged twice or left
\* unrecorded (processDueBilling, billing.service.ts).
THEOREM SpecStandingIsEarned == PlatformSpec => []StandingIsEarned
<1>1. QED
    BY SpecEarnedInv, EarnedImplies, PTL

\* What the platform does to accounts is what Access does.
LEMMA PlatformAccess == [PlatformNext]_platformVars => [AccessNext]_accessVars
<1> SUFFICES ASSUME [PlatformNext]_platformVars PROVE [AccessNext]_accessVars
    OBVIOUS
<1>1. CASE Guarded
    BY <1>1 DEF Guarded, AccessNext
<1>2. CASE Unguarded
    BY <1>2 DEF Unguarded, AccessNext
<1>3. CASE AskBilling \/ Time \/ RunBilling
    BY <1>3 DEF AskBilling, Time, RunBilling
<1>4. CASE \E w \in Workers : Register(w)
    BY <1>4 DEF Register, AccessNext
<1>5. CASE UNCHANGED platformVars
    BY <1>5 DEF platformVars
<1>6. QED
    BY <1>1, <1>2, <1>3, <1>4, <1>5 DEF PlatformNext

LEMMA SpecCoreInv == PlatformSpec => []CoreInv
<1>1. PlatformInit => CoreInv
    BY BeginsCoreInv DEF PlatformInit
<1>2. CoreInv /\ [PlatformNext]_platformVars => CoreInv'
    BY PlatformAccess, NextCoreInv
<1>3. QED
    BY <1>1, <1>2, PTL DEF PlatformSpec

\* The registration is the only step that founds the tenant, and the only one that
\* makes its row.
Founding == founded <=> tenants[Company] # NoTenant

LEMMA SameFounding ==
    ASSUME BillTypeOK, BillTypeOK', Founding, founded' = founded,
           tenants'[Company].trialEnds = tenants[Company].trialEnds
    PROVE  Founding'
<1>1. Company \in Tenants /\ NoTime \notin Nat
    BY PlatformAssumption DEF NoTime
<1>2. /\ tenants[Company] \in {NoTenant} \cup Tenant
      /\ tenants'[Company] \in {NoTenant} \cup Tenant
    BY <1>1 DEF BillTypeOK
<1>3. \A row \in {NoTenant} \cup Tenant : row = NoTenant <=> row.trialEnds \notin Nat
    BY <1>1 DEF NoTenant, Tenant
<1>4. QED
    BY <1>2, <1>3 DEF Founding

LEMMA WritesKeepTrial ==
    ASSUME BillTypeOK, \/ Tick \/ ExpireTrials \/ Nightly
                       \/ \E p \in Payers : ServePayer(p) \/ Ask(p, Company)
    PROVE  tenants'[Company].trialEnds = tenants[Company].trialEnds
<1>1. Company \in Tenants /\ \A t \in Tenants : t = Company
    BY PlatformAssumption
<1>2. \A row \in {NoTenant} \cup Tenant : \A x : [row EXCEPT !.status = x].trialEnds = row.trialEnds
    BY DEF NoTenant, Tenant
<1>3. tenants \in [Tenants -> {NoTenant} \cup Tenant]
    BY DEF BillTypeOK
<1>4. ASSUME NEW t, NEW status, NEW row, Stand(t, status, row)
      PROVE  tenants'[Company].trialEnds = tenants[Company].trialEnds
    BY <1>1, <1>2, <1>3, <1>4 DEF Stand
<1>5. CASE Tick
    BY <1>5 DEF Tick
<1>6. CASE ExpireTrials
  <2>1. \/ tenants'[Company] = tenants[Company]
        \/ tenants'[Company] = [tenants[Company] EXCEPT !.status = "blocked"]
      BY <1>1, <1>6 DEF ExpireTrials
  <2>2. QED
      BY <1>1, <1>2, <1>3, <2>1
<1>7. CASE Nightly
  <2>1. CASE StartRun \/ EndRun \/ \E t \in Tenants, approved \in BOOLEAN : Charge(t, approved)
      BY <2>1 DEF StartRun, EndRun, Charge
  <2>2. ASSUME NEW t \in Tenants, Renew(t) \/ MarkPastDue(t)
        PROVE  tenants'[Company].trialEnds = tenants[Company].trialEnds
      BY <1>4, <2>2 DEF Renew, MarkPastDue
  <2>3. QED
      BY <1>7, <2>1, <2>2 DEF Nightly
<1>8. ASSUME NEW p \in Payers, ServePayer(p) \/ Ask(p, Company)
      PROVE  tenants'[Company].trialEnds = tenants[Company].trialEnds
  <2>1. CASE Activate(p) \/ CancelSubscription(p)
      BY <1>4, <2>1 DEF Activate, CancelSubscription
  <2>2. CASE FailPay(p) \/ Ask(p, Company)
      BY <2>2 DEF FailPay, Ask, AskCancel, Subscribe
  <2>3. QED
      BY <1>8, <2>1, <2>2 DEF ServePayer
<1>9. QED
    BY <1>5, <1>6, <1>7, <1>8

LEMMA OnlyFoundFounds == AskGuarded \/ AskPublic \/ (\E w \in Workers : ServeAccess(w)) => founded' = founded
<1>1. AskGuarded => founded' = founded
    BY DEF AskGuarded, Manage, FindInvite, RevokeKey, RemoveOverride, OnlyReq
<1>2. AskPublic => founded' = founded
    BY DEF AskPublic, Apply, Login, Refresh, OpenLink, OpenInvite, Logout, RequestReset, LockEnds,
           OnlyReq
<1>3. ASSUME NEW w \in Workers, ServeAccess(w) PROVE founded' = founded
    BY <1>3 DEF ServeAccess, RegisterFailedLogin, ClearLoginLockout, Rotate, Issue, ResetPassword,
           Judge, SetRole, Deactivate, SendInvite, MintKey, SetOverride, RevokeInvite, AcceptInvite,
           FailRequest
<1>4. QED
    BY <1>1, <1>2, <1>3

LEMMA NextFounding == BillTypeOK /\ BillTypeOK' /\ Founding /\ [PlatformNext]_platformVars => Founding'
<1> SUFFICES ASSUME BillTypeOK, BillTypeOK', Founding, [PlatformNext]_platformVars PROVE Founding'
    OBVIOUS
<1>1. CASE Guarded \/ Unguarded
    BY <1>1, OnlyFoundFounds DEF Guarded, Unguarded, billVars, Founding
<1>2. CASE AskBilling \/ Time \/ RunBilling
  <2>1. founded' = founded
      BY <1>2 DEF AskBilling, Time, RunBilling, accessVars
  <2>2. \/ Tick \/ ExpireTrials \/ Nightly
        \/ \E p \in Payers : ServePayer(p) \/ Ask(p, Company)
      BY <1>2 DEF AskBilling, Time, RunBilling
  <2>3. QED
      BY <2>1, <2>2, WritesKeepTrial, SameFounding
<1>3. ASSUME NEW w \in Workers, Register(w) PROVE Founding'
  <2>1. founded' = TRUE /\ tenants' = [tenants EXCEPT ![Company] = Trial]
      BY <1>3 DEF Register, Found, OpenTrial
  <2>2. tenants'[Company] = Trial
      BY <2>1, PlatformAssumption DEF BillTypeOK
  <2>3. Trial # NoTenant
      BY DEF Trial, NoTenant
  <2>4. QED
      BY <2>1, <2>2, <2>3 DEF Founding
<1>4. CASE UNCHANGED platformVars
    BY <1>4 DEF platformVars, accessVars, billVars, Founding
<1>5. QED
    BY <1>1, <1>2, <1>3, <1>4 DEF PlatformNext

\* A session that can still be exchanged is of an active account and began after
\* the sessions of the account were last ended, by a reset of the password or a
\* deactivation, unless a request was in flight then (auth.service.ts, refresh;
\* users.service.ts, deactivate).
THEOREM SpecSessionsEndWithAccess == PlatformSpec => []SessionsEndWithAccess
<1>1. CoreInv => SessionsEndWithAccess
    BY CoreImplies DEF AccessInv
<1>2. QED
    BY <1>1, SpecCoreInv, PTL

\* A session is exchanged once, a link opens one new password, an address has one
\* pending invite, unless two requests had it at a time (auth.service.ts,
\* refresh and resetPassword; users.service.ts, inviteUser).
THEOREM SpecUsedOnce == PlatformSpec => []UsedOnce
<1>1. CoreInv => UsedOnce
    BY CoreImplies DEF AccessInv
<1>2. QED
    BY <1>1, SpecCoreInv, PTL

\* The failures of an account and its lock, written from a row read before, agree
\* whatever attempts overlap: it was locked once exactly since they reached the
\* threshold (users.service.ts, registerFailedLogin).
THEOREM SpecLockFollowsFailures == PlatformSpec => []LockFollowsFailures
<1>1. CoreInv => LockFollowsFailures
    BY CoreImplies DEF AccessInv
<1>2. QED
    BY <1>1, SpecCoreInv, PTL

\* A tenant keeps an owner unless two requests that take one away overlapped
\* (users.service.ts, updateRole and deactivate).
THEOREM SpecOwnersRemain == PlatformSpec => []OwnersRemain
<1>1. CoreInv => OwnersRemain
    BY CoreImplies DEF AccessInv
<1>2. QED
    BY <1>1, SpecCoreInv, PTL

\* The rows of accounts and those of billing agree with each other and among
\* themselves: what names an account names one there is; sessions, links and
\* invites are used once and locks follow failures unless two requests met; a
\* tenant keeps an owner; no override gives away the right to manage access; and
\* a tenant has a standing from the moment it has an owner (registerWithOwner).
THEOREM SpecPlatformInv == PlatformSpec => []PlatformInv
<1>1. PlatformInit => Founding
  <2> SUFFICES ASSUME PlatformInit PROVE Founding
      OBVIOUS
  <2>1. tenants[Company] = IF founded THEN Trial ELSE NoTenant
      BY PlatformAssumption DEF PlatformInit
  <2>2. Trial # NoTenant
      BY DEF Trial, NoTenant
  <2>3. QED
      BY <2>1, <2>2 DEF Founding
<1>2. BillingInv /\ BillingInv' /\ Founding /\ [PlatformNext]_platformVars => Founding'
    BY NextFounding DEF BillingInv
<1>3. PlatformSpec => []Founding
    BY <1>1, <1>2, SpecBillingInv, PTL DEF PlatformSpec
<1>4. CoreInv /\ BillingInv /\ Founding => PlatformInv
    BY CoreImplies DEF PlatformInv, Founding
<1>5. QED
    BY <1>3, <1>4, SpecCoreInv, SpecBillingInv, PTL

=============================================================================
