------------------------------- MODULE Billing -------------------------------
(***************************************************************************)
(* The subscription of a tenant and its standing (BillingService,          *)
(* TrialExpiryService, the tenants table and TenantStatusGuard).           *)
(*                                                                         *)
(* Three writers change the same two rows: the owner, who subscribes and   *)
(* cancels, the job of every night, which charges the periods that are     *)
(* over, and the job of every hour, which ends trials.  The charge of the  *)
(* provider comes between what they read and the transaction that writes   *)
(* the outcome, and that transaction writes whatever the rows hold by then.*)
(*                                                                         *)
(* Time is in moments, DayLength of them a day.                            *)
(***************************************************************************)
EXTENDS Integers, Sequences

CONSTANTS
    Tenants,
    Payers,         \* requests of owners that may be in flight together
    Plans,
    PeriodDays,     \* BILLING_PERIOD_DAYS
    GraceDays,      \* GRACE_PERIOD_DAYS
    TrialDays,
    DayLength,
    LastMoment,     \* bound on the clock
    MaxInvoices     \* bound on the charges of a tenant

ASSUME BillingAssumption ==
    /\ PeriodDays \in Nat \ {0} /\ GraceDays \in Nat /\ TrialDays \in Nat
    /\ DayLength \in Nat \ {0} /\ LastMoment \in Nat /\ MaxInvoices \in Nat
    /\ "none" \notin Tenants

VARIABLES
    clock,
    tenants,   \* tenants.status and trial_ends_at
    subs,      \* subscriptions
    invoices,  \* subscription_invoices, in the order they were made
    job,       \* the run of processDueBilling
    pays,      \* the requests
    \* history
    renewals,  \* approved charges of the job, by the period they were for
    crossed    \* tenants a writer wrote to while another held what it had read

billVars == <<clock, tenants, subs, invoices, job, pays, renewals, crossed>>

NoTime == -1
NoTenant == [status |-> "none", trialEnds |-> NoTime]
NoSub == [status |-> "none"]
NoRun == [at |-> NoTime]
NoPay == [step |-> "idle"]

Days(n) == n * DayLength
Day(moment) == moment \div DayLength

BillBegins ==
    /\ clock = 0
    /\ subs = [t \in Tenants |-> NoSub]
    /\ invoices = [t \in Tenants |-> <<>>]
    /\ job = [run |-> NoRun, lastDay |-> NoTime]
    /\ pays = [p \in Payers |-> NoPay]
    /\ renewals = [t \in Tenants |-> <<>>] /\ crossed = {}

BillInit == BillBegins /\ tenants = [t \in Tenants |-> NoTenant]

Tick ==
    /\ clock < LastMoment /\ clock' = clock + 1
    /\ UNCHANGED <<tenants, subs, invoices, job, pays, renewals, crossed>>

----------------------------------------------------------------------------
(* The tenant. *)

\* registerWithOwner: a trial.
Trial == [status |-> "trial", trialEnds |-> clock + Days(TrialDays)]

OpenTrial(t) ==
    /\ tenants[t] = NoTenant
    /\ tenants' = [tenants EXCEPT ![t] = Trial]
    /\ UNCHANGED <<clock, subs, invoices, job, pays, renewals, crossed>>

TrialOver(t) == tenants[t].trialEnds < clock

\* Mutant: the status is not part of the UPDATE's condition.
ExpireAny ==
    /\ \E t \in Tenants : tenants[t] # NoTenant /\ TrialOver(t)
    /\ tenants' = [t \in Tenants |-> IF tenants[t] # NoTenant /\ TrialOver(t)
                                     THEN [tenants[t] EXCEPT !.status = "blocked"] ELSE tenants[t]]
    /\ UNCHANGED <<clock, subs, invoices, job, pays, renewals, crossed>>

\* expireOverdueTrials: one UPDATE with its condition.
ExpireTrials ==
    /\ \E t \in Tenants : tenants[t].status = "trial" /\ TrialOver(t)
    /\ tenants' = [t \in Tenants |-> IF tenants[t].status = "trial" /\ TrialOver(t)
                                     THEN [tenants[t] EXCEPT !.status = "blocked"] ELSE tenants[t]]
    /\ UNCHANGED <<clock, subs, invoices, job, pays, renewals, crossed>>

\* TenantStatusGuard.
Admits(t) ==
    /\ tenants[t].status \notin {"none", "blocked", "canceled"}
    /\ tenants[t].status = "trial" => ~ TrialOver(t)

----------------------------------------------------------------------------
(* Writers in flight. *)

HeldByJob(t) == job.run # NoRun /\ t \in job.run.due
HeldByPayer(p, t) == pays[p] # NoPay /\ pays[p].tenant = t

\* A writer of t that is not p, or not the job, is between its read and its write.
Crossed(t, others, jobToo) ==
    IF (jobToo /\ HeldByJob(t)) \/ \E p \in others : HeldByPayer(p, t)
    THEN crossed \cup {t} ELSE crossed

Invoice(status, row, tried) ==
    [status |-> status, start |-> row.start, end |-> row.end, tried |-> tried]

Stand(t, status, row) ==
    /\ subs' = [subs EXCEPT ![t] = row]
    /\ tenants' = [tenants EXCEPT ![t].status = status]

----------------------------------------------------------------------------
(* The owner. *)

\* subscribe: whether there is a subscription, then the charge; declined, the
\* request ends without a trace.
Subscribe(p, t, plan) ==
    /\ pays[p] = NoPay /\ tenants[t] # NoTenant /\ Len(invoices[t]) < MaxInvoices
    /\ pays' = [pays EXCEPT ![p] = [step |-> "subscribe", tenant |-> t, plan |-> plan,
                                    existing |-> subs[t] # NoSub]]
    /\ UNCHANGED <<clock, tenants, subs, invoices, job, renewals, crossed>>

\* The row, inserted under the unique index or updated, the invoice and the
\* tenant, in one transaction.
Activate(p) ==
    LET r == pays[p]
        t == r.tenant
        row == [status |-> "active", plan |-> r.plan, start |-> clock,
                end |-> clock + Days(PeriodDays), since |-> NoTime] IN
    /\ r.step = "subscribe"
    /\ r.existing \/ subs[t] = NoSub
    /\ Stand(t, "active", row)
    /\ invoices' = [invoices EXCEPT ![t] = Append(@, Invoice("paid", row, clock))]
    /\ pays' = [pays EXCEPT ![p] = NoPay]
    /\ crossed' = Crossed(t, Payers \ {p}, TRUE)
    /\ UNCHANGED <<clock, job, renewals>>

\* cancel: there is a subscription and it is not canceled.
AskCancel(p, t) ==
    /\ pays[p] = NoPay
    /\ subs[t].status \in {"active", "past_due"}
    /\ pays' = [pays EXCEPT ![p] = [step |-> "cancel", tenant |-> t]]
    /\ UNCHANGED <<clock, tenants, subs, invoices, job, renewals, crossed>>

CancelSubscription(p) ==
    LET t == pays[p].tenant IN
    /\ pays[p].step = "cancel"
    /\ Stand(t, "canceled", [subs[t] EXCEPT !.status = "canceled"])
    /\ pays' = [pays EXCEPT ![p] = NoPay]
    /\ crossed' = Crossed(t, Payers \ {p}, TRUE)
    /\ UNCHANGED <<clock, invoices, job, renewals>>

\* An exception, a crash, or the insert of a second subscription.
FailPay(p) ==
    /\ pays[p] # NoPay
    /\ pays' = [pays EXCEPT ![p] = NoPay]
    /\ UNCHANGED <<clock, tenants, subs, invoices, job, renewals, crossed>>

----------------------------------------------------------------------------
(* The job of every night. *)

\* processDueBilling: the time, and the rows whose period is over, of tenants
\* that are not blocked.
Due(t) ==
    /\ subs[t].status \in {"active", "past_due"} /\ subs[t].end <= clock
    /\ tenants[t].status # "blocked"

StartRun ==
    /\ job.run = NoRun /\ job.lastDay < Day(clock)
    /\ job' = [run |-> [at |-> clock, due |-> {t \in Tenants : Due(t)}, rows |-> subs,
                        answered |-> [tenant |-> "none"]],
               lastDay |-> Day(clock)]
    /\ UNCHANGED <<clock, tenants, subs, invoices, pays, renewals, crossed>>

\* The next row is charged; approved, the money is taken.
Charge(t, approved) ==
    /\ job.run # NoRun /\ t \in job.run.due /\ job.run.answered.tenant = "none"
    /\ Len(invoices[t]) < MaxInvoices
    /\ job' = [job EXCEPT !.run.answered = [tenant |-> t, approved |-> approved]]
    /\ renewals' = IF approved
                   THEN [renewals EXCEPT ![t] = Append(@, job.run.rows[t].end)] ELSE renewals
    /\ UNCHANGED <<clock, tenants, subs, invoices, pays, crossed>>

Answered(t, approved) ==
    job.run # NoRun /\ job.run.answered = [tenant |-> t, approved |-> approved]

\* The row is done with.
NextRow(t) ==
    /\ job' = [job EXCEPT !.run.due = @ \ {t}, !.run.answered = [tenant |-> "none"]]
    /\ crossed' = Crossed(t, Payers, FALSE)
    /\ UNCHANGED <<clock, pays, renewals>>

\* Approved: the period after the one that was read.
Renew(t) ==
    LET old == job.run.rows[t]
        row == [status |-> "active", plan |-> subs[t].plan, start |-> old.end,
                end |-> old.end + Days(PeriodDays), since |-> NoTime] IN
    /\ Answered(t, TRUE)
    /\ Stand(t, "active", row)
    /\ invoices' = [invoices EXCEPT ![t] = Append(@, Invoice("paid", row, job.run.at))]
    /\ NextRow(t)

\* Mutant: every declined charge begins the grace period anew.
GraceFrom(old, at) == at

\* pastDueSince ?? now.
PastDueSince(old, at) == IF old.since = NoTime THEN at ELSE old.since

GraceExpired(since, at) == at - since > Days(GraceDays)

\* Declined: past due, and the tenant blocked when the grace period is over.
MarkPastDue(t) ==
    LET old == job.run.rows[t]
        since == PastDueSince(old, job.run.at) IN
    /\ Answered(t, FALSE)
    /\ Stand(t, IF GraceExpired(since, job.run.at) THEN "blocked" ELSE "past_due",
             [subs[t] EXCEPT !.status = "past_due", !.since = since])
    /\ invoices' = [invoices EXCEPT ![t] = Append(@, Invoice("failed", old, job.run.at))]
    /\ NextRow(t)

\* The rows are done, or an exception or a crash ends the run: the rest is left
\* to the next night.
EndRun ==
    /\ job.run # NoRun
    /\ job' = [job EXCEPT !.run = NoRun]
    /\ crossed' = IF job.run.answered.tenant = "none" THEN crossed
                  ELSE crossed \cup {job.run.answered.tenant}
    /\ UNCHANGED <<clock, tenants, subs, invoices, pays, renewals>>

Nightly == StartRun \/ EndRun \/ \E t \in Tenants : Renew(t) \/ MarkPastDue(t)
                                     \/ \E approved \in BOOLEAN : Charge(t, approved)

ServePayer(p) == Activate(p) \/ CancelSubscription(p) \/ FailPay(p)

Ask(p, t) == AskCancel(p, t) \/ \E chosen \in Plans : Subscribe(p, t, chosen)

BillNext ==
    \/ Tick \/ ExpireTrials \/ Nightly
    \/ \E t \in Tenants : OpenTrial(t)
    \/ \E p \in Payers : ServePayer(p) \/ \E t \in Tenants : Ask(p, t)

BillSpec == BillInit /\ [][BillNext]_billVars

----------------------------------------------------------------------------
Moments == Nat \cup {NoTime}
Tenant == [status : {"trial", "active", "past_due", "blocked", "canceled"}, trialEnds : Nat]
Subscription == [status : {"active", "past_due", "canceled"}, plan : Plans,
                 start : Nat, end : Nat, since : Moments]
InvoiceRow == [status : {"paid", "failed"}, start : Nat, end : Nat, tried : Nat]
Answer == {[tenant |-> "none"]} \cup [tenant : Tenants, approved : BOOLEAN]
Run == [at : Nat, due : SUBSET Tenants, rows : [Tenants -> {NoSub} \cup Subscription],
        answered : Answer]
Pay == [step : {"subscribe"}, tenant : Tenants, plan : Plans, existing : BOOLEAN]
       \cup [step : {"cancel"}, tenant : Tenants]

BillTypeOK ==
    /\ clock \in Nat
    /\ tenants \in [Tenants -> {NoTenant} \cup Tenant]
    /\ subs \in [Tenants -> {NoSub} \cup Subscription]
    /\ invoices \in [Tenants -> Seq(InvoiceRow)]
    /\ job \in [run : {NoRun} \cup Run, lastDay : Moments]
    /\ pays \in [Payers -> {NoPay} \cup Pay]
    /\ renewals \in [Tenants -> Seq(Nat)]
    /\ crossed \subseteq Tenants

\* What a writer holds is there: rows are never deleted.
HoldsRows ==
    /\ \A t \in Tenants : subs[t] # NoSub => tenants[t] # NoTenant
    /\ \A p \in Payers : pays[p] # NoPay =>
          /\ tenants[pays[p].tenant] # NoTenant
          /\ pays[p].step = "cancel" \/ pays[p].existing => subs[pays[p].tenant] # NoSub
    /\ job.run # NoRun =>
          /\ job.run.at <= clock
          /\ \A t \in job.run.due : job.run.rows[t] # NoSub /\ subs[t] # NoSub
          /\ job.run.answered.tenant # "none" => job.run.answered.tenant \in job.run.due

\* The two rows agree on the status, whoever wrote last: they are written in one
\* transaction, and the trials job touches no tenant that has subscribed.
StatusesAgree ==
    \A t \in Tenants :
        LET sub == subs[t].status
            standing == tenants[t].status IN
        CASE sub = "none"     -> standing \in {"none", "trial", "blocked"}
          [] sub = "past_due" -> standing \in {"past_due", "blocked"}
          [] OTHER            -> standing = sub

Last(s) == s[Len(s)]

\* The tries after the last paid invoice, and that invoice.
PaidAt(t) == CHOOSE i \in 0..Len(invoices[t]) :
                /\ i > 0 => invoices[t][i].status = "paid"
                /\ \A j \in (i + 1)..Len(invoices[t]) : invoices[t][j].status = "failed"
LastPaid(t) == invoices[t][PaidAt(t)]
FirstFailed(t) == invoices[t][PaidAt(t) + 1]

\* The subscription is for the period paid last.
PeriodPaid(t) ==
    /\ PaidAt(t) > 0
    /\ subs[t].start = LastPaid(t).start /\ subs[t].end = LastPaid(t).end

\* The grace period began with the first charge declined since, and the tenant
\* is blocked exactly if it was over at the last one.
InGrace(t) ==
    /\ PaidAt(t) < Len(invoices[t])
    /\ subs[t].since = FirstFailed(t).tried
    /\ tenants[t].status = "blocked" <=> Last(invoices[t]).tried - subs[t].since > Days(GraceDays)

\* The periods the job has charged, each once and each with its paid invoice,
\* but for the one it is about to record.
ChargesRecorded(t) ==
    \A i \in 1..Len(renewals[t]) :
        /\ \A j \in 1..(i - 1) : renewals[t][j] < renewals[t][i]
        /\ \/ \E k \in 1..Len(invoices[t]) :
                 invoices[t][k].status = "paid" /\ invoices[t][k].start = renewals[t][i]
           \/ i = Len(renewals[t]) /\ Answered(t, TRUE)

\* What a tenant stands for is what it paid: a subscription in force covers the
\* period of the last paid invoice and lets the tenant in; past due, it counts its
\* grace from the first charge declined after that, and the tenant is shut out once
\* it is over; and the job charges no period twice or without an invoice (of the
\* charge that subscribe makes, billing.service.ts:71, it says nothing).  Two writers
\* that crossed, or a run that died between a charge and its record, void it.
StandingIsEarned ==
    \A t \in Tenants \ crossed :
        /\ ChargesRecorded(t)
        /\ subs[t] # NoSub => PeriodPaid(t)
        /\ subs[t].status = "active" => Admits(t) /\ PaidAt(t) = Len(invoices[t])
        /\ subs[t].status = "past_due" => InGrace(t)

BillingInv == BillTypeOK /\ HoldsRows /\ StatusesAgree

=============================================================================
