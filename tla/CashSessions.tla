---------------------------- MODULE CashSessions ----------------------------
(***************************************************************************)
(* The cash sessions of apps/api and the stores they are opened in:        *)
(* CashSessionsService and StoresService, with the sales and cash refunds  *)
(* that look for the user's open session and later write into it.          *)
(*                                                                         *)
(* Every handler reads in one transaction and writes in another, or reads  *)
(* and writes in one without a lock; a worker is one request in flight,    *)
(* and its phases are the places between such a read and its write.        *)
(*                                                                         *)
(* The connections of the pool are counted: a transaction holds one, and   *)
(* the plan of the tenant is read on a second one (hasMultiStoreAccess)    *)
(* while the transaction of the store holds the first.                     *)
(***************************************************************************)
EXTENDS Integers, Sequences, FiniteSets

CONSTANTS
    Workers,     \* requests that may be in flight together
    Users,
    Amounts,     \* amounts counted at a closing
    NotCounted,  \* the closing amount of an open session
    RequestsOf,  \* the requests each worker may handle
    InitStores,  \* number of stores at the start, the first created at registration
    PoolSize,    \* connections of the pool
    MaxRequests  \* bound on the requests received in a behaviour

\* Sessions and stores are numbered in order of opening and creation.
Request ==
    [kind : {"open"}, user : Users, store : Nat]
    \cup [kind : {"close"}, user : Users, session : Nat, amount : Amounts]
    \cup [kind : {"movement"}, session : Nat]
    \cup [kind : {"sale"}, user : Users]     \* or a cash refund
    \cup [kind : {"create"}]
    \cup [kind : {"update"}, store : Nat, active : BOOLEAN]

ASSUME SessionsAssumption ==
    /\ \A w \in Workers : RequestsOf[w] \subseteq Request
    /\ NotCounted \notin Amounts
    /\ InitStores \in Nat \ {0} /\ PoolSize \in Nat /\ MaxRequests \in Nat

VARIABLES
    \* committed rows
    active,     \* stores.active
    multi,      \* an active subscription to a plan of several stores
    sessions,   \* who opened each session, where, and what was counted
    \* the requests
    pc, req,
    at,         \* the session a movement or sale goes to
    id, received,
    \* history
    raced,      \* users two of whose opens overlapped
    contested,  \* sessions two of whose closes overlapped
    inFlight,   \* requests that held a session when it was closed
    late,       \* requests that wrote into a session after it was closed
    lapsed,     \* opens whose store ceased to be usable after it was checked
    crossed     \* two updates of stores overlapped

rows == <<active, multi, sessions>>
history == <<raced, contested, inFlight, late, lapsed, crossed>>
vars == <<rows, pc, req, at, id, received, history>>

\* Phases that keep a transaction, and with it a connection, open.
InTx == {"plan", "add", "count", "set"}
Phases == {"idle", "start", "store", "insert", "close", "entry"} \cup InTx

NoRequest == [kind |-> "none"]

Init ==
    /\ active = [i \in 1..InitStores |-> TRUE]
    /\ multi \in BOOLEAN
    /\ sessions = <<>>
    /\ pc = [w \in Workers |-> "idle"]
    /\ req = [w \in Workers |-> NoRequest]
    /\ at = [w \in Workers |-> 0]
    /\ id = [w \in Workers |-> 0]
    /\ received = 0
    /\ raced = {} /\ contested = {} /\ inFlight = {} /\ late = {} /\ lapsed = {}
    /\ crossed = FALSE

----------------------------------------------------------------------------
Stores == 1..Len(active)
IsOpen(s) == sessions[s].count = NotCounted
OpenOf(u) == {s \in 1..Len(sessions) : sessions[s].user = u /\ IsOpen(s)}

\* getCurrentOpenSession: the open session of the user that was opened last.
Current(u) == CHOOSE s \in OpenOf(u) : \A t \in OpenOf(u) : t <= s

\* assertUsable: the plan covers the store created first, or all of them.
Covered(s, plan) == s = 1 \/ plan
Usable(s) == active[s] /\ Covered(s, multi)

Connection == Cardinality({w \in Workers : pc[w] \in InTx}) < PoolSize

Goto(w, phase) == pc' = [pc EXCEPT ![w] = phase]
Handles(w, kind) == pc[w] = "start" /\ req[w].kind = kind

\* The request is answered, and the connection given back.
Answer(w) ==
    /\ Goto(w, "idle")
    /\ req' = [req EXCEPT ![w] = NoRequest]
    /\ at' = [at EXCEPT ![w] = 0]
    /\ UNCHANGED <<id, received>>

\* It is answered with an error and leaves no row behind.
Refuse(w) == Answer(w) /\ UNCHANGED <<rows, history>>

\* It goes on, having read.
Continue(w, phase) ==
    Goto(w, phase) /\ UNCHANGED <<rows, req, id, received, history>>

Receive(w) ==
    /\ pc[w] = "idle" /\ received < MaxRequests
    /\ \E r \in RequestsOf[w] : req' = [req EXCEPT ![w] = r]
    /\ Goto(w, "start")
    /\ received' = received + 1
    /\ id' = [id EXCEPT ![w] = received']
    /\ UNCHANGED <<rows, at, history>>

----------------------------------------------------------------------------
\* Mutant: the session the user has open is not looked at.
OpenUnchecked(w) ==
    /\ Handles(w, "open") /\ Connection
    /\ Continue(w, "store") /\ UNCHANGED at

\* open: nobody who has an open session opens another.
OpenCheck(w) ==
    /\ Handles(w, "open") /\ Connection
    /\ OpenOf(req[w].user) = {}
    /\ Continue(w, "store") /\ UNCHANGED at

RefuseOpen(w) ==
    /\ Handles(w, "open") /\ Connection
    /\ OpenOf(req[w].user) # {}
    /\ Refuse(w)

\* Mutant: the plan is asked about at the creation of a store only.
StoreCheckNoPlan(w) ==
    /\ pc[w] = "store" /\ Connection
    /\ req[w].store \in Stores /\ active[req[w].store]
    /\ Continue(w, "insert") /\ UNCHANGED at

\* assertUsable: the store is active, and the first one or in need of the plan.
StoreCheck(w) ==
    /\ pc[w] = "store" /\ Connection
    /\ req[w].store \in Stores /\ active[req[w].store]
    /\ Continue(w, IF req[w].store = 1 THEN "insert" ELSE "plan") /\ UNCHANGED at

RefuseStore(w) ==
    /\ pc[w] = "store" /\ Connection
    /\ ~ (req[w].store \in Stores /\ active[req[w].store])
    /\ Refuse(w)

\* hasMultiStoreAccess, for an open or for the creation of a store.
ReadPlan(w) ==
    /\ pc[w] = "plan" /\ Connection
    /\ multi
    /\ Continue(w, IF req[w].kind = "open" THEN "insert" ELSE "add") /\ UNCHANGED at

RefusePlan(w) ==
    /\ pc[w] = "plan" /\ Connection
    /\ ~ multi
    /\ Refuse(w)

\* An open that has found no open session, and has none yet.
Opening(w) ==
    /\ pc[w] \in {"store", "plan", "insert"}
    /\ req[w].kind = "open"

InsertSession(w) ==
    /\ pc[w] = "insert" /\ Connection
    /\ sessions' = Append(sessions, [user |-> req[w].user, store |-> req[w].store,
                                     count |-> NotCounted])
    /\ raced' = raced \cup {u \in {req[w].user} : \E v \in Workers \ {w} :
                                Opening(v) /\ req[v].user = u}
    /\ Answer(w)
    /\ UNCHANGED <<active, multi, contested, inFlight, late, lapsed, crossed>>

----------------------------------------------------------------------------
MayClose(r) ==
    /\ r.session \in 1..Len(sessions)
    /\ IsOpen(r.session)
    /\ sessions[r.session].user = r.user

\* Mutant: the status of the session is not looked at.
CloseAnyOwn(w) ==
    /\ Handles(w, "close") /\ Connection
    /\ req[w].session \in 1..Len(sessions)
    /\ sessions[req[w].session].user = req[w].user
    /\ Continue(w, "close") /\ UNCHANGED at

\* close reads the session and its owner ...
CloseCheck(w) ==
    /\ Handles(w, "close") /\ Connection
    /\ MayClose(req[w])
    /\ Continue(w, "close") /\ UNCHANGED at

RefuseClose(w) ==
    /\ Handles(w, "close") /\ Connection
    /\ ~ MayClose(req[w])
    /\ Refuse(w)

\* ... and sets status and amount, whatever they are by now.
Close(w) ==
    LET s == req[w].session IN
    /\ pc[w] = "close" /\ Connection
    /\ sessions' = [sessions EXCEPT ![s].count = req[w].amount]
    /\ contested' = contested \cup {t \in {s} : \E v \in Workers \ {w} :
                                       pc[v] = "close" /\ req[v].session = t}
    /\ inFlight' = inFlight \cup
          {id[v] : v \in {v \in Workers : pc[v] = "entry" /\ at[v] = s}}
    /\ Answer(w)
    /\ UNCHANGED <<active, multi, raced, late, lapsed, crossed>>

----------------------------------------------------------------------------
\* Mutant: whether the session is open is left to the screen.
MovementUnchecked(w) ==
    /\ Handles(w, "movement") /\ Connection
    /\ req[w].session \in 1..Len(sessions)
    /\ Continue(w, "entry")
    /\ at' = [at EXCEPT ![w] = req[w].session]

\* A movement names its session; a sale or refund takes the current one.
\* What they check is that it is open.
MovementCheck(w) ==
    /\ Handles(w, "movement") /\ Connection
    /\ req[w].session \in 1..Len(sessions) /\ IsOpen(req[w].session)
    /\ Continue(w, "entry")
    /\ at' = [at EXCEPT ![w] = req[w].session]

RefuseMovement(w) ==
    /\ Handles(w, "movement") /\ Connection
    /\ ~ (req[w].session \in 1..Len(sessions) /\ IsOpen(req[w].session))
    /\ Refuse(w)

SaleCheck(w) ==
    /\ Handles(w, "sale") /\ Connection
    /\ OpenOf(req[w].user) # {}
    /\ Continue(w, "entry")
    /\ at' = [at EXCEPT ![w] = Current(req[w].user)]

RefuseSale(w) ==
    /\ Handles(w, "sale") /\ Connection
    /\ OpenOf(req[w].user) = {}
    /\ Refuse(w)

\* The row is inserted, open as the session may be or not.
Enter(w) ==
    /\ pc[w] = "entry" /\ Connection
    /\ late' = late \cup {n \in {id[w]} : ~ IsOpen(at[w])}
    /\ Answer(w)
    /\ UNCHANGED <<rows, raced, contested, inFlight, lapsed, crossed>>

----------------------------------------------------------------------------
\* The opens that have checked a store that ceases to be usable.
Lapsing(stores, plan) ==
    {id[w] : w \in {w \in Workers :
        /\ pc[w] \in {"plan", "insert"} /\ req[w].kind = "open"
        /\ \/ ~ stores[req[w].store]
           \/ pc[w] = "insert" /\ ~ Covered(req[w].store, plan)}}

\* create: the tenant was registered with a store, so that the plan decides.
CreateRead(w) ==
    /\ Handles(w, "create") /\ Connection
    /\ Continue(w, "plan") /\ UNCHANGED at

AddStore(w) ==
    /\ pc[w] = "add"
    /\ active' = Append(active, TRUE)
    /\ Answer(w)
    /\ UNCHANGED <<multi, sessions, history>>

\* update reads the store, and counts the active ones before it takes one away.
UpdateRead(w) ==
    LET r == req[w] IN
    /\ Handles(w, "update") /\ Connection
    /\ r.store \in Stores
    /\ Continue(w, IF ~ r.active /\ active[r.store] THEN "count" ELSE "set")
    /\ UNCHANGED at

RefuseUpdate(w) ==
    /\ Handles(w, "update") /\ Connection
    /\ req[w].store \notin Stores
    /\ Refuse(w)

ActiveStores == {s \in Stores : active[s]}

\* Mutant: the store that is about to go is counted as one that stays.
CountActiveOneLess(w) ==
    /\ pc[w] = "count"
    /\ Cardinality(ActiveStores) >= 1
    /\ Continue(w, "set") /\ UNCHANGED at

\* Mutant: the stores are listed in a transaction of their own (list), while
\* that of the update is open.
CountActiveApart(w) ==
    /\ pc[w] = "count" /\ Connection
    /\ Cardinality(ActiveStores) > 1
    /\ Continue(w, "set") /\ UNCHANGED at

CountActive(w) ==
    /\ pc[w] = "count"
    /\ Cardinality(ActiveStores) > 1
    /\ Continue(w, "set") /\ UNCHANGED at

RefuseLast(w) ==
    /\ pc[w] = "count"
    /\ Cardinality(ActiveStores) <= 1
    /\ Refuse(w)

SetActive(w) ==
    /\ pc[w] = "set"
    /\ active' = [active EXCEPT ![req[w].store] = req[w].active]
    /\ crossed' = (crossed \/ \E v \in Workers \ {w} : pc[v] \in {"count", "set"})
    /\ lapsed' = lapsed \cup Lapsing(active', multi)
    /\ Answer(w)
    /\ UNCHANGED <<multi, sessions, raced, contested, inFlight, late>>

\* subscribe, cancel, or a charge of the cron that is declined.
ChangePlan ==
    /\ multi' = ~ multi
    /\ lapsed' = lapsed \cup Lapsing(active, multi')
    /\ UNCHANGED <<active, sessions, pc, req, at, id, received, raced, contested,
                   inFlight, late, crossed>>

\* A statement fails, or the request is lost.
Fail(w) == pc[w] # "idle" /\ Refuse(w)

Progress(w) ==
    \/ OpenCheck(w) \/ RefuseOpen(w) \/ StoreCheck(w) \/ RefuseStore(w)
    \/ ReadPlan(w) \/ RefusePlan(w) \/ InsertSession(w)
    \/ CloseCheck(w) \/ RefuseClose(w) \/ Close(w)
    \/ MovementCheck(w) \/ RefuseMovement(w) \/ SaleCheck(w) \/ RefuseSale(w)
    \/ Enter(w)
    \/ CreateRead(w) \/ AddStore(w)
    \/ UpdateRead(w) \/ RefuseUpdate(w) \/ CountActive(w) \/ RefuseLast(w) \/ SetActive(w)

Next ==
    \/ \E w \in Workers : Receive(w) \/ Progress(w) \/ Fail(w)
    \/ ChangePlan

Spec == Init /\ [][Next]_vars

\* A request in flight runs on; who waits for a connection gets one in turn.
Fairness == \A w \in Workers : SF_vars(Progress(w))
FairSpec == Spec /\ Fairness

----------------------------------------------------------------------------
TypeOK ==
    /\ active \in Seq(BOOLEAN) /\ multi \in BOOLEAN
    /\ sessions \in Seq([user : Users, store : Nat, count : Amounts \cup {NotCounted}])
    /\ pc \in [Workers -> Phases]
    /\ req \in [Workers -> Request \cup {NoRequest}]
    /\ \A w \in Workers : req[w] \in IF pc[w] = "idle" THEN {NoRequest} ELSE RequestsOf[w]
    /\ at \in [Workers -> Nat] /\ id \in [Workers -> 0..received]
    /\ received \in Nat
    /\ raced \subseteq Users /\ contested \subseteq Nat
    /\ inFlight \subseteq 1..received /\ late \subseteq 1..received
    /\ lapsed \subseteq 1..received /\ crossed \in BOOLEAN

\* A user has one open session at most, so that sales and refunds have one
\* drawer to go to, unless two opens of the user overlap: each finds none
\* (cash-sessions.service.ts:55-58, nothing in the schema forbids a second).
OneOpenPerUser ==
    \A u \in Users \ raced : \A s, t \in OpenOf(u) : s = t

\* What was counted when a session closed is final, whatever closes, movements
\* and sales still come, unless two closes of the session overlap: the second
\* overwrites the first (cash-sessions.service.ts:88-106).
CountIsFinal ==
    [][\A s \in 1..Len(sessions) : ~ IsOpen(s) /\ s \notin contested' =>
          sessions'[s] = sessions[s]]_vars

\* Whatever is written into a session after it was closed had found it open: a
\* closed session takes the requests in flight at its closing, and no more
\* (cash-sessions.service.ts:121-127, sales.service.ts:59-114,
\* sale-returns.service.ts:43-187).
LateEntriesWereInFlight == late \subseteq inFlight

\* A session opens in a store that is active and that the plan covers ("on
\* every cash session open", cash-sessions.service.ts:60-63), unless the store
\* or the plan changed after the open had checked it.
OpensWhereUsable ==
    [][Len(sessions') > Len(sessions) =>
          \E w \in Workers :
              /\ pc[w] = "insert" /\ pc'[w] = "idle"
              /\ sessions'[Len(sessions')].store = req[w].store
              /\ Usable(req[w].store) \/ id[w] \in lapsed]_vars

\* The tenant keeps an active store, unless two updates of stores overlap: each
\* counts the store the other is about to deactivate (stores.service.ts:102-109).
LastStoreStays == crossed \/ ActiveStores # {}

\* Every connection is held by a transaction that waits for a second one.
PoolExhausted == Cardinality({w \in Workers : pc[w] = "plan"}) = PoolSize

\* Every request is answered, whoever waits for a connection meanwhile, but when
\* the pool is exhausted by opens and creations that read the plan on a second
\* connection, and stays so: nothing else leaves a request waiting for good
\* (stores.service.ts:34, 76, 87).
EveryRequestAnswered ==
    \A w \in Workers : pc[w] # "idle" ~> pc[w] = "idle" \/ []PoolExhausted

----------------------------------------------------------------------------
\* The strengthening that makes the properties above inductive: what a request
\* has read still holds at its write, or the history says what changed it.

\* A request is in a phase of its handler.
PhaseOfKind(w) ==
    /\ pc[w] = "plan" => req[w].kind \in {"open", "create"}
    /\ pc[w] \in {"store", "insert"} => req[w].kind = "open"
    /\ pc[w] = "close" => req[w].kind = "close"
    /\ pc[w] \in {"count", "set"} => req[w].kind = "update" /\ req[w].store \in Stores
    /\ pc[w] = "count" => ~ req[w].active
    /\ pc[w] # "idle" => id[w] # 0

\* While a user opens a session there is none yet.
OpensAlone(w) ==
    Opening(w) /\ req[w].user \notin raced => OpenOf(req[w].user) = {}

\* The session that is about to be closed is open.
ClosesOnce(w) ==
    pc[w] = "close" =>
        /\ req[w].session \in 1..Len(sessions)
        /\ req[w].session \in contested \/ IsOpen(req[w].session)

\* The session that is about to be written into is open, or was closed meanwhile.
EntersOpen(w) ==
    pc[w] = "entry" =>
        /\ at[w] \in 1..Len(sessions)
        /\ IsOpen(at[w]) \/ id[w] \in inFlight

\* The store of an open is as it was checked, or has lapsed.
StoreChecked(w) ==
    Opening(w) /\ pc[w] # "store" =>
        /\ req[w].store \in Stores
        /\ id[w] \in lapsed \/ (active[req[w].store]
                                /\ (pc[w] = "insert" => Covered(req[w].store, multi)))

\* A store that is about to be deactivated leaves another one.
LeavesAnother(w) ==
    pc[w] = "set" /\ ~ req[w].active /\ ~ crossed /\ active[req[w].store] =>
        \E s \in Stores \ {req[w].store} : active[s]

Sound(w) == /\ PhaseOfKind(w) /\ OpensAlone(w) /\ ClosesOnce(w) /\ EntersOpen(w)
            /\ StoreChecked(w) /\ LeavesAnother(w)

IInv == /\ TypeOK /\ OneOpenPerUser /\ LateEntriesWereInFlight /\ LastStoreStays
        /\ \A w \in Workers : Sound(w)
=============================================================================
