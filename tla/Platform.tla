------------------------------ MODULE Platform -------------------------------
(***************************************************************************)
(* Access and Billing together, for one tenant: the registration opens the *)
(* trial in the transaction that makes the first owner, the guard of every *)
(* route but login, registration and billing asks for the tenant's         *)
(* standing, and only the token of an owner subscribes or cancels.         *)
(***************************************************************************)
EXTENDS Access, Billing

CONSTANT Company

ASSUME PlatformAssumption == Tenants = {Company}

platformVars == <<accessVars, billVars>>

\* A tenant that is there from the start has begun its trial.
PlatformInit ==
    /\ AccessInit /\ BillBegins
    /\ tenants = [t \in Tenants |-> IF founded THEN Trial ELSE NoTenant]

\* registerWithOwner.
Register(w) == Found(w) /\ OpenTrial(Company)

\* Requests behind the TenantStatusGuard.
Guarded == AskGuarded /\ Admits(Company) /\ UNCHANGED billVars

Unguarded == (AskPublic \/ \E w \in Workers : ServeAccess(w)) /\ UNCHANGED billVars

\* @Roles('owner') @SkipTenantStatusCheck.
AskBilling ==
    /\ "bill" \in plan
    /\ \E by \in Accounts, p \in Payers : Bears(by, "owner") /\ Ask(p, Company)
    /\ UNCHANGED accessVars

Time == "trial" \in plan /\ (Tick \/ ExpireTrials) /\ UNCHANGED accessVars

RunBilling ==
    /\ "bill" \in plan
    /\ Nightly \/ \E p \in Payers : ServePayer(p)
    /\ UNCHANGED accessVars

PlatformNext ==
    Guarded \/ Unguarded \/ AskBilling \/ Time \/ RunBilling \/ \E w \in Workers : Register(w)

PlatformSpec == PlatformInit /\ [][PlatformNext]_platformVars

----------------------------------------------------------------------------
\* The rows of both sides agree with each other and among themselves: accounts,
\* sessions, links, invites and keys (AccessInv), tenants, subscriptions and
\* invoices (BillingInv), and a tenant with accounts is one with a standing.
PlatformInv ==
    /\ AccessInv /\ BillingInv
    /\ founded <=> tenants[Company] # NoTenant

=============================================================================
