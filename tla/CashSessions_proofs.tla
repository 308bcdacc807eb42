------------------------ MODULE CashSessions_proofs ------------------------
(***************************************************************************)
(* Theorems about CashSessions, for any users, stores, requests and size   *)
(* of the pool.                                                            *)
(***************************************************************************)
EXTENDS CashSessions, FiniteSetTheorems, WellFoundedInduction, TLAPS

\* What a request at work carries, by its kind.
LEMMA RequestTyped ==
    ASSUME TypeOK, NEW w \in Workers, pc[w] # "idle"
    PROVE  /\ req[w].kind = "open" => req[w].user \in Users /\ req[w].store \in Nat
           /\ req[w].kind = "close" => req[w].amount \in Amounts
           /\ req[w].kind = "update" => req[w].active \in BOOLEAN
<1>1. req[w] \in Request
    BY SessionsAssumption DEF TypeOK
<1>2. QED
    BY <1>1 DEF Request

LEMMA InitIInv == Init => IInv
<1> SUFFICES ASSUME Init PROVE IInv
    OBVIOUS
<1>1. active \in Seq(BOOLEAN) /\ Len(active) = InitStores /\ \A s \in Stores : active[s]
    BY SessionsAssumption DEF Init, Stores
<1>2. TypeOK
  <2>1. sessions \in Seq([user : Users, store : Nat, count : Amounts \cup {NotCounted}])
      BY DEF Init
  <2>2. id \in [Workers -> 0..received] /\ at \in [Workers -> Nat]
      BY DEF Init
  <2>3. pc \in [Workers -> Phases]
      BY DEF Init, Phases
  <2>4. req \in [Workers -> Request \cup {NoRequest}]
      BY DEF Init
  <2>5. \A w \in Workers : req[w] \in IF pc[w] = "idle" THEN {NoRequest} ELSE RequestsOf[w]
      BY DEF Init
  <2>6. QED
      BY <1>1, <2>1, <2>2, <2>3, <2>4, <2>5 DEF Init, TypeOK
<1>3. OneOpenPerUser /\ LateEntriesWereInFlight
    BY DEF Init, OneOpenPerUser, OpenOf, LateEntriesWereInFlight
<1>4. LastStoreStays
    BY <1>1, SessionsAssumption DEF LastStoreStays, ActiveStores, Stores
<1>5. \A w \in Workers : Sound(w)
    BY DEF Init, Sound, PhaseOfKind, OpensAlone, Opening, ClosesOnce, EntersOpen,
           StoreChecked, LeavesAnother
<1>6. QED
    BY <1>2, <1>3, <1>4, <1>5 DEF IInv

-----------------------------------------------------------------------------
\* What one worker does to itself leaves the others sound.
LEMMA FrameIInv ==
    ASSUME IInv, TypeOK', NEW w \in Workers,
           UNCHANGED <<rows, history>>,
           \A v \in Workers \ {w} : /\ pc'[v] = pc[v] /\ req'[v] = req[v]
                                    /\ at'[v] = at[v] /\ id'[v] = id[v],
           Sound(w)'
    PROVE  IInv'
<1>1. OneOpenPerUser' /\ LateEntriesWereInFlight' /\ LastStoreStays'
    BY DEF IInv, rows, history, OneOpenPerUser, OpenOf, IsOpen,
           LateEntriesWereInFlight, LastStoreStays, ActiveStores, Stores
<1>2. ASSUME NEW v \in Workers \ {w} PROVE Sound(v)'
  <2>1. Sound(v)
      BY DEF IInv
  <2>2. PhaseOfKind(v)' /\ ClosesOnce(v)' /\ EntersOpen(v)'
      BY <2>1 DEF Sound, PhaseOfKind, ClosesOnce, EntersOpen, IsOpen, Stores, rows, history
  <2>3. OpensAlone(v)'
      BY <2>1 DEF Sound, OpensAlone, Opening, OpenOf, IsOpen, rows, history
  <2>4. StoreChecked(v)' /\ LeavesAnother(v)'
      BY <2>1 DEF Sound, StoreChecked, Opening, LeavesAnother, Covered, Stores, rows, history
  <2>5. QED
      BY <2>2, <2>3, <2>4 DEF Sound
<1>3. QED
    BY <1>1, <1>2 DEF IInv

\* A worker that has answered is sound.
LEMMA IdleSound ==
    ASSUME NEW w \in Workers, pc'[w] = "idle"
    PROVE  Sound(w)'
BY DEF Sound, PhaseOfKind, OpensAlone, Opening, ClosesOnce, EntersOpen, StoreChecked,
       LeavesAnother

\* An answer leaves the answering worker idle and the rest as it was.
LEMMA AnswerFrame ==
    ASSUME TypeOK, NEW w \in Workers, Answer(w)
    PROVE  /\ pc'[w] = "idle" /\ req'[w] = NoRequest /\ at'[w] = 0
           /\ \A v \in Workers \ {w} : pc'[v] = pc[v] /\ req'[v] = req[v] /\ at'[v] = at[v]
           /\ id' = id /\ received' = received
           /\ pc' \in [Workers -> Phases] /\ at' \in [Workers -> Nat]
           /\ req' \in [Workers -> Request \cup {NoRequest}]
           /\ \A v \in Workers :
                 req'[v] \in IF pc'[v] = "idle" THEN {NoRequest} ELSE RequestsOf[v]
<1>1. /\ pc' = [pc EXCEPT ![w] = "idle"] /\ req' = [req EXCEPT ![w] = NoRequest]
      /\ at' = [at EXCEPT ![w] = 0]
    BY DEF Answer, Goto
<1>2. pc \in [Workers -> Phases] /\ at \in [Workers -> Nat]
    BY DEF TypeOK
<1>3. QED
    BY <1>1, <1>2 DEF TypeOK, Phases, Answer

\* A request that ends without a row keeps the invariant.
LEMMA RefuseIInv ==
    ASSUME IInv, NEW w \in Workers, Refuse(w)
    PROVE  IInv'
<1>1. TypeOK /\ Answer(w) /\ UNCHANGED <<rows, history>>
    BY DEF IInv, Refuse
<1>2. TypeOK'
    BY <1>1, AnswerFrame DEF TypeOK, rows, history
<1>3. Sound(w)'
    BY <1>1, AnswerFrame, IdleSound
<1>4. QED
    BY <1>1, <1>2, <1>3, AnswerFrame, FrameIInv

\* A request that reads and goes on changes its own phase alone.
LEMMA ContinueFrame ==
    ASSUME TypeOK, NEW w \in Workers, NEW phase \in Phases \ {"idle"}, pc[w] # "idle",
           Continue(w, phase)
    PROVE  /\ pc'[w] = phase /\ \A v \in Workers \ {w} : pc'[v] = pc[v]
           /\ req' = req /\ id' = id /\ UNCHANGED <<rows, history>>
           /\ at' \in [Workers -> Nat] => TypeOK'
<1>1. pc' = [pc EXCEPT ![w] = phase] /\ pc \in [Workers -> Phases]
    BY DEF Continue, Goto, TypeOK
<1>2. pc'[w] = phase /\ \A v \in Workers \ {w} : pc'[v] = pc[v]
    BY <1>1
<1>3. ASSUME at' \in [Workers -> Nat] PROVE TypeOK'
  <2>1. \A v \in Workers :
            req'[v] \in IF pc'[v] = "idle" THEN {NoRequest} ELSE RequestsOf[v]
      BY <1>2 DEF TypeOK, Continue
  <2>2. QED
      BY <1>1, <1>3, <2>1 DEF TypeOK, Continue, rows, history
<1>4. QED
    BY <1>2, <1>3 DEF Continue

\* It keeps the invariant if it has read what its new phase relies on.
LEMMA ContinueIInv ==
    ASSUME IInv, NEW w \in Workers, NEW phase \in Phases \ {"idle"}, pc[w] # "idle",
           Continue(w, phase), at' \in [Workers -> Nat],
           \A v \in Workers \ {w} : at'[v] = at[v],
           Sound(w)'
    PROVE  IInv'
<1>1. TypeOK
    BY DEF IInv
<1>2. TypeOK'
    BY <1>1, ContinueFrame
<1>3. QED
    BY <1>1, <1>2, ContinueFrame, FrameIInv

-----------------------------------------------------------------------------
LEMMA ReceiveIInv ==
    ASSUME IInv, NEW w \in Workers, Receive(w)
    PROVE  IInv'
<1>1. TypeOK
    BY DEF IInv
<1>2. PICK r \in RequestsOf[w] : req' = [req EXCEPT ![w] = r]
    BY DEF Receive
<1>3. r \in Request
    BY SessionsAssumption
<1>4. /\ pc' = [pc EXCEPT ![w] = "start"] /\ received' = received + 1
      /\ id' = [id EXCEPT ![w] = received + 1] /\ at' = at
      /\ UNCHANGED <<rows, history>>
    BY DEF Receive, Goto
<1>5. /\ pc'[w] = "start" /\ req'[w] = r /\ id'[w] = received + 1
      /\ \A v \in Workers \ {w} : /\ pc'[v] = pc[v] /\ req'[v] = req[v]
                                  /\ at'[v] = at[v] /\ id'[v] = id[v]
    BY <1>1, <1>2, <1>4 DEF TypeOK
<1>6. TypeOK'
  <2>1. received \in Nat /\ received' \in Nat /\ received' # 0
      BY <1>1, <1>4 DEF TypeOK
  <2>2. id' \in [Workers -> 0..received']
      BY <1>1, <1>4, <2>1 DEF TypeOK
  <2>3. pc' \in [Workers -> Phases] /\ req' \in [Workers -> Request \cup {NoRequest}]
      BY <1>1, <1>2, <1>3, <1>4 DEF TypeOK, Phases
  <2>4. \A v \in Workers :
            req'[v] \in IF pc'[v] = "idle" THEN {NoRequest} ELSE RequestsOf[v]
      BY <1>1, <1>5 DEF TypeOK
  <2>5. /\ inFlight' \subseteq 1..received' /\ late' \subseteq 1..received'
        /\ lapsed' \subseteq 1..received'
      BY <1>1, <1>4, <2>1 DEF TypeOK, history
  <2>6. QED
      BY <1>1, <1>4, <2>1, <2>2, <2>3, <2>4, <2>5 DEF TypeOK, rows, history
<1>7. Sound(w)'
    BY <1>1, <1>5 DEF Sound, PhaseOfKind, OpensAlone, Opening, ClosesOnce, EntersOpen,
                      StoreChecked, LeavesAnother, TypeOK
<1>8. QED
    BY <1>4, <1>5, <1>6, <1>7, FrameIInv

\* open and assertUsable: what they read is what OpensAlone and StoreChecked ask.
LEMMA OpenCheckIInv ==
    ASSUME IInv, NEW w \in Workers, OpenCheck(w)
    PROVE  IInv'
<1>1. TypeOK /\ Sound(w) /\ pc[w] = "start" /\ req[w].kind = "open"
      /\ OpenOf(req[w].user) = {} /\ Continue(w, "store") /\ at' = at
    BY DEF IInv, OpenCheck, Handles
<1>2. pc'[w] = "store" /\ req' = req /\ id' = id /\ UNCHANGED <<rows, history>>
    BY <1>1, ContinueFrame DEF Phases
<1>3. Sound(w)'
    BY <1>1, <1>2 DEF Sound, PhaseOfKind, OpensAlone, Opening, OpenOf, IsOpen, ClosesOnce,
                      EntersOpen, StoreChecked, LeavesAnother, rows
<1>4. QED
    BY <1>1, <1>3, ContinueIInv DEF TypeOK, Phases

LEMMA StoreCheckIInv ==
    ASSUME IInv, NEW w \in Workers, StoreCheck(w)
    PROVE  IInv'
<1> DEFINE phase == IF req[w].store = 1 THEN "insert" ELSE "plan"
<1>1. TypeOK /\ Sound(w) /\ pc[w] = "store" /\ Continue(w, phase) /\ at' = at
      /\ req[w].store \in Stores /\ active[req[w].store]
    BY DEF IInv, StoreCheck
<1>2. phase \in Phases \ {"idle"}
    BY DEF Phases, InTx
<1>3. pc'[w] = phase /\ req' = req /\ id' = id /\ UNCHANGED <<rows, history>>
    BY <1>1, <1>2, ContinueFrame
<1>4. PhaseOfKind(w)' /\ ClosesOnce(w)' /\ EntersOpen(w)' /\ LeavesAnother(w)'
    BY <1>1, <1>3 DEF Sound, PhaseOfKind, ClosesOnce, EntersOpen, LeavesAnother
<1>5. OpensAlone(w)'
    BY <1>1, <1>3 DEF Sound, OpensAlone, Opening, OpenOf, IsOpen, rows, history
<1>6. StoreChecked(w)'
    BY <1>1, <1>3 DEF StoreChecked, Opening, Covered, Stores, rows
<1>7. QED
    BY <1>1, <1>2, <1>4, <1>5, <1>6, ContinueIInv DEF TypeOK, Sound

LEMMA ReadPlanIInv ==
    ASSUME IInv, NEW w \in Workers, ReadPlan(w)
    PROVE  IInv'
<1> DEFINE phase == IF req[w].kind = "open" THEN "insert" ELSE "add"
<1>1. TypeOK /\ Sound(w) /\ pc[w] = "plan" /\ Continue(w, phase) /\ at' = at /\ multi
    BY DEF IInv, ReadPlan
<1>2. phase \in Phases \ {"idle"}
    BY DEF Phases, InTx
<1>3. pc'[w] = phase /\ req' = req /\ id' = id /\ UNCHANGED <<rows, history>>
    BY <1>1, <1>2, ContinueFrame
<1>4. PhaseOfKind(w)' /\ ClosesOnce(w)' /\ EntersOpen(w)' /\ LeavesAnother(w)'
    BY <1>1, <1>3 DEF Sound, PhaseOfKind, ClosesOnce, EntersOpen, LeavesAnother
<1>5. OpensAlone(w)'
    BY <1>1, <1>3 DEF Sound, OpensAlone, Opening, OpenOf, IsOpen, rows, history
<1>6. StoreChecked(w)'
    BY <1>1, <1>3 DEF Sound, StoreChecked, Opening, Covered, Stores, rows, history
<1>7. QED
    BY <1>1, <1>2, <1>4, <1>5, <1>6, ContinueIInv DEF TypeOK, Sound

-----------------------------------------------------------------------------
\* close, a movement and a sale: the session they found is open.
LEMMA CloseCheckIInv ==
    ASSUME IInv, NEW w \in Workers, CloseCheck(w)
    PROVE  IInv'
<1>1. TypeOK /\ Sound(w) /\ pc[w] = "start" /\ req[w].kind = "close"
      /\ MayClose(req[w]) /\ Continue(w, "close") /\ at' = at
    BY DEF IInv, CloseCheck, Handles
<1>2. pc'[w] = "close" /\ req' = req /\ id' = id /\ UNCHANGED <<rows, history>>
    BY <1>1, ContinueFrame DEF Phases
<1>3. Sound(w)'
    BY <1>1, <1>2 DEF Sound, PhaseOfKind, OpensAlone, Opening, MayClose, IsOpen, ClosesOnce,
                      EntersOpen, StoreChecked, LeavesAnother, rows
<1>4. QED
    BY <1>1, <1>3, ContinueIInv DEF TypeOK, Phases

\* An entry into an open session.
LEMMA EntryIInv ==
    ASSUME IInv, NEW w \in Workers, pc[w] = "start", Continue(w, "entry"),
           NEW s \in 1..Len(sessions), IsOpen(s), at' = [at EXCEPT ![w] = s]
    PROVE  IInv'
<1>1. TypeOK /\ Sound(w) /\ Len(sessions) \in Nat
    BY DEF IInv, TypeOK
<1>2. pc'[w] = "entry" /\ req' = req /\ id' = id /\ UNCHANGED <<rows, history>>
    BY <1>1, ContinueFrame DEF Phases
<1>3. at' \in [Workers -> Nat] /\ at'[w] = s /\ \A v \in Workers \ {w} : at'[v] = at[v]
    BY <1>1 DEF TypeOK
<1>4. Sound(w)'
    BY <1>1, <1>2, <1>3 DEF Sound, PhaseOfKind, OpensAlone, Opening, IsOpen, ClosesOnce,
                            EntersOpen, StoreChecked, LeavesAnother, rows
<1>5. QED
    BY <1>1, <1>3, <1>4, ContinueIInv DEF Phases

\* The last of the open sessions of a user is one of them.
LEMMA CurrentIsOpen ==
    ASSUME TypeOK, NEW u, OpenOf(u) # {}
    PROVE  Current(u) \in OpenOf(u)
<1>1. OpenOf(u) \subseteq 1..Len(sessions) /\ Len(sessions) \in Nat
    BY DEF OpenOf, TypeOK
<1> DEFINE Ago == {Len(sessions) - t : t \in OpenOf(u)}
<1>2. Ago \subseteq Nat /\ Ago # {}
    BY <1>1
<1> DEFINE Less == OpToRel(<, Nat)
<1>3. IsWellFoundedOn(Less, Nat)
    BY NatLessThanWellFounded
<1>4. \A x, y \in Nat : y < x => <<y, x>> \in Less
    BY DEF OpToRel
<1> HIDE DEF Ago, Less
<1>5. PICK x \in Ago : \A y \in Ago : ~ (<<y, x>> \in Less)
    BY <1>2, <1>3, WFMin
<1>6. ASSUME NEW y \in Ago PROVE x <= y
  <2>1. x \in Nat /\ y \in Nat
      BY <1>2
  <2>2. ~ (y < x)
      BY <1>4, <1>5, <2>1
  <2>3. QED
      BY <2>1, <2>2
<1>7. PICK m \in OpenOf(u) : x = Len(sessions) - m
    BY DEF Ago
<1>8. ASSUME NEW t \in OpenOf(u) PROVE t <= m
  <2>1. Len(sessions) - t \in Ago
      BY DEF Ago
  <2>2. x <= Len(sessions) - t
      BY <1>6, <2>1
  <2>3. QED
      BY <1>1, <1>7, <2>2
<1>9. QED
    BY <1>8 DEF Current

LEMMA MovementCheckIInv ==
    ASSUME IInv, NEW w \in Workers, MovementCheck(w)
    PROVE  IInv'
BY EntryIInv DEF MovementCheck, Handles

LEMMA SaleCheckIInv ==
    ASSUME IInv, NEW w \in Workers, SaleCheck(w)
    PROVE  IInv'
<1>1. Current(req[w].user) \in OpenOf(req[w].user)
    BY CurrentIsOpen DEF SaleCheck, IInv
<1>2. QED
    BY <1>1, EntryIInv DEF SaleCheck, Handles, OpenOf

-----------------------------------------------------------------------------
LEMMA CreateReadIInv ==
    ASSUME IInv, NEW w \in Workers, CreateRead(w)
    PROVE  IInv'
<1>1. TypeOK /\ Sound(w) /\ pc[w] = "start" /\ req[w].kind = "create"
      /\ Continue(w, "plan") /\ at' = at
    BY DEF IInv, CreateRead, Handles
<1>2. pc'[w] = "plan" /\ req' = req /\ id' = id /\ UNCHANGED <<rows, history>>
    BY <1>1, ContinueFrame DEF Phases, InTx
<1>3. Sound(w)'
    BY <1>1, <1>2 DEF Sound, PhaseOfKind, OpensAlone, Opening, ClosesOnce,
                      EntersOpen, StoreChecked, LeavesAnother
<1>4. QED
    BY <1>1, <1>3, ContinueIInv DEF TypeOK, Phases, InTx

LEMMA UpdateReadIInv ==
    ASSUME IInv, NEW w \in Workers, UpdateRead(w)
    PROVE  IInv'
<1> DEFINE r == req[w]
           phase == IF ~ r.active /\ active[r.store] THEN "count" ELSE "set"
<1>1. TypeOK /\ Sound(w) /\ pc[w] = "start" /\ r.kind = "update"
      /\ r.store \in Stores /\ Continue(w, phase) /\ at' = at
    BY DEF IInv, UpdateRead, Handles
<1>2. phase \in Phases \ {"idle"}
    BY DEF Phases, InTx
<1>3. pc'[w] = phase /\ req' = req /\ id' = id /\ UNCHANGED <<rows, history>>
    BY <1>1, <1>2, ContinueFrame
<1>4. PhaseOfKind(w)'
    BY <1>1, <1>3 DEF Sound, PhaseOfKind, Stores, rows
<1>5. /\ OpensAlone(w)' /\ ClosesOnce(w)' /\ EntersOpen(w)' /\ StoreChecked(w)'
      /\ LeavesAnother(w)'
    BY <1>1, <1>3 DEF OpensAlone, Opening, ClosesOnce, EntersOpen, StoreChecked,
                      LeavesAnother, rows
<1>6. QED
    BY <1>1, <1>2, <1>4, <1>5, ContinueIInv DEF TypeOK, Sound

\* More than one active store: one that is not the store about to go.
LEMMA CountActiveIInv ==
    ASSUME IInv, NEW w \in Workers, CountActive(w)
    PROVE  IInv'
<1>1. TypeOK /\ Sound(w) /\ pc[w] = "count" /\ Continue(w, "set") /\ at' = at
      /\ Cardinality(ActiveStores) > 1
    BY DEF IInv, CountActive
<1>2. pc'[w] = "set" /\ req' = req /\ id' = id /\ UNCHANGED <<rows, history>>
    BY <1>1, ContinueFrame DEF Phases, InTx
<1>3. \E s \in Stores \ {req[w].store} : active[s]
  <2>1. SUFFICES ASSUME ActiveStores \subseteq {req[w].store} PROVE FALSE
      BY DEF ActiveStores
  <2>2. /\ IsFiniteSet({req[w].store}) /\ Cardinality({req[w].store}) = 1
      BY FS_Singleton
  <2>3. IsFiniteSet(ActiveStores) /\ Cardinality(ActiveStores) <= 1
      BY <2>1, <2>2, FS_Subset
  <2>4. Cardinality(ActiveStores) \in Nat
      BY <2>3, FS_CardinalityType
  <2>5. QED
      BY <1>1, <2>3, <2>4
<1>4. PhaseOfKind(w)' /\ LeavesAnother(w)'
    BY <1>1, <1>2, <1>3 DEF Sound, PhaseOfKind, LeavesAnother, Stores, rows
<1>5. OpensAlone(w)' /\ ClosesOnce(w)' /\ EntersOpen(w)' /\ StoreChecked(w)'
    BY <1>2 DEF OpensAlone, Opening, ClosesOnce, EntersOpen, StoreChecked
<1>6. QED
    BY <1>1, <1>4, <1>5, ContinueIInv DEF TypeOK, Sound, Phases, InTx

-----------------------------------------------------------------------------
\* The INSERT of a session: the user had none, or two opens overlapped.
LEMMA InsertSessionIInv ==
    ASSUME IInv, NEW w \in Workers, InsertSession(w)
    PROVE  IInv'
<1> DEFINE u == req[w].user
           row == [user |-> u, store |-> req[w].store, count |-> NotCounted]
           new == Len(sessions) + 1
<1>1. /\ TypeOK /\ Answer(w) /\ pc[w] = "insert" /\ sessions' = Append(sessions, row)
      /\ raced' = raced \cup {x \in {u} : \E v \in Workers \ {w} :
                                  Opening(v) /\ req[v].user = x}
      /\ UNCHANGED <<active, multi, contested, inFlight, late, lapsed, crossed>>
      /\ Sound(w)
    BY DEF IInv, InsertSession
<1>2. u \in Users /\ req[w].store \in Nat /\ req[w].kind = "open"
    BY <1>1, RequestTyped DEF Sound, PhaseOfKind
<1>3. sessions \in Seq([user : Users, store : Nat, count : Amounts \cup {NotCounted}])
    BY <1>1 DEF TypeOK
<1>4. row \in [user : Users, store : Nat, count : Amounts \cup {NotCounted}]
    BY <1>2
<1>5. /\ sessions' \in Seq([user : Users, store : Nat, count : Amounts \cup {NotCounted}])
      /\ Len(sessions) \in Nat /\ Len(sessions') = new /\ sessions'[new] = row
      /\ \A s \in 1..Len(sessions) : sessions'[s] = sessions[s]
    BY <1>1, <1>3, <1>4
<1>6. TypeOK'
    BY <1>1, <1>2, <1>5, AnswerFrame DEF TypeOK
<1>7. \A x : OpenOf(x)' \subseteq OpenOf(x) \cup {s \in {new} : x = u}
    BY <1>5 DEF OpenOf, IsOpen
<1>8. \A s \in 1..Len(sessions) : s \in 1..Len(sessions)' /\ IsOpen(s)' = IsOpen(s)
    BY <1>5 DEF IsOpen
<1>9. OneOpenPerUser'
  <2>1. ASSUME u \notin raced PROVE OpenOf(u) = {}
      BY <1>1, <1>2, <2>1 DEF Sound, OpensAlone, Opening
  <2>2. QED
      BY <1>1, <1>7, <2>1 DEF IInv, OneOpenPerUser
<1>10. LateEntriesWereInFlight' /\ LastStoreStays'
    BY <1>1 DEF IInv, LateEntriesWereInFlight, LastStoreStays, ActiveStores, Stores
<1>11. ASSUME NEW v \in Workers \ {w} PROVE Sound(v)'
  <2>1. Sound(v) /\ pc'[v] = pc[v] /\ req'[v] = req[v] /\ at'[v] = at[v] /\ id' = id
      BY <1>1, AnswerFrame DEF IInv
  <2>2. PhaseOfKind(v)' /\ LeavesAnother(v)'
      BY <1>1, <2>1 DEF Sound, PhaseOfKind, LeavesAnother, Stores
  <2>3. StoreChecked(v)'
      BY <1>1, <2>1 DEF Sound, StoreChecked, Opening, Covered, Stores
  <2>4. ClosesOnce(v)' /\ EntersOpen(v)'
      BY <1>1, <1>8, <2>1 DEF Sound, ClosesOnce, EntersOpen
  <2>5. OpensAlone(v)'
      BY <1>1, <1>7, <2>1 DEF Sound, OpensAlone, Opening
  <2>6. QED
      BY <2>2, <2>3, <2>4, <2>5 DEF Sound
<1>12. Sound(w)'
    BY <1>1, AnswerFrame, IdleSound
<1>13. QED
    BY <1>6, <1>9, <1>10, <1>11, <1>12 DEF IInv

\* The UPDATE that closes: those who had found the session open are in the history.
LEMMA CloseIInv ==
    ASSUME IInv, NEW w \in Workers, Close(w)
    PROVE  IInv'
<1> DEFINE s == req[w].session
<1>1. /\ TypeOK /\ Answer(w) /\ pc[w] = "close" /\ Sound(w)
      /\ sessions' = [sessions EXCEPT ![s].count = req[w].amount]
      /\ contested' = contested \cup {t \in {s} : \E v \in Workers \ {w} :
                                          pc[v] = "close" /\ req[v].session = t}
      /\ inFlight' = inFlight \cup
             {id[v] : v \in {v \in Workers : pc[v] = "entry" /\ at[v] = s}}
      /\ UNCHANGED <<active, multi, raced, late, lapsed, crossed>>
    BY DEF IInv, Close
<1>2. s \in 1..Len(sessions) /\ s \in Nat /\ req[w].amount \in Amounts
    BY <1>1, RequestTyped DEF Sound, ClosesOnce, PhaseOfKind
<1>3. sessions \in Seq([user : Users, store : Nat, count : Amounts \cup {NotCounted}])
    BY <1>1 DEF TypeOK
<1>4. /\ sessions' \in Seq([user : Users, store : Nat, count : Amounts \cup {NotCounted}])
      /\ Len(sessions') = Len(sessions) /\ Len(sessions) \in Nat
      /\ \A t \in 1..Len(sessions) : sessions'[t].user = sessions[t].user
      /\ \A t \in 1..Len(sessions) \ {s} : sessions'[t] = sessions[t]
      /\ sessions'[s].count = req[w].amount
  <2> DEFINE Row == [user : Users, store : Nat, count : Amounts \cup {NotCounted}]
             closed == [sessions[s] EXCEPT !.count = req[w].amount]
  <2>1. sessions \in Seq(Row)
      BY <1>3
  <2>2. sessions' = [sessions EXCEPT ![s] = closed]
      BY <1>1
  <2> HIDE DEF Row
  <2>3. sessions[s] \in Row
      BY <1>2, <2>1
  <2>4. closed \in Row /\ closed.user = sessions[s].user /\ closed.count = req[w].amount
      BY <1>2, <2>3 DEF Row
  <2> HIDE DEF closed
  <2>5. sessions' \in Seq(Row) /\ Len(sessions') = Len(sessions)
      BY <1>2, <2>1, <2>2, <2>4
  <2>6. sessions'[s] = closed /\ \A t \in 1..Len(sessions) \ {s} : sessions'[t] = sessions[t]
      BY <1>2, <2>1, <2>2
  <2>7. \A t \in 1..Len(sessions) : sessions'[t].user = sessions[t].user
      BY <2>4, <2>6
  <2>8. Len(sessions) \in Nat
      BY <2>1
  <2>9. QED
      BY <2>4, <2>5, <2>6, <2>7, <2>8 DEF Row
<1>5. \A t \in 1..Len(sessions) : IsOpen(t)' = (t # s /\ IsOpen(t))
    BY <1>2, <1>4, SessionsAssumption DEF IsOpen
<1>6. \A x : OpenOf(x)' \subseteq OpenOf(x)
    BY <1>4, <1>5 DEF OpenOf
<1>7. TypeOK'
  <2>1. contested' \subseteq Nat
      BY <1>1, <1>2 DEF TypeOK
  <2>2. ASSUME NEW v \in Workers, pc[v] = "entry" PROVE id[v] \in 1..received
      BY <1>1, <2>2 DEF IInv, Sound, PhaseOfKind, TypeOK
  <2>3. inFlight' \subseteq 1..received
      BY <1>1, <2>2 DEF TypeOK
  <2>4. QED
      BY <1>1, <1>4, <2>1, <2>3, AnswerFrame DEF TypeOK
<1>8. OneOpenPerUser'
    BY <1>1, <1>6 DEF IInv, OneOpenPerUser
<1>9. LateEntriesWereInFlight' /\ LastStoreStays'
    BY <1>1 DEF IInv, LateEntriesWereInFlight, LastStoreStays, ActiveStores, Stores
<1>10. ASSUME NEW v \in Workers \ {w} PROVE Sound(v)'
  <2>1. Sound(v) /\ pc'[v] = pc[v] /\ req'[v] = req[v] /\ at'[v] = at[v] /\ id' = id
      BY <1>1, AnswerFrame DEF IInv
  <2>2. PhaseOfKind(v)' /\ LeavesAnother(v)'
      BY <1>1, <2>1 DEF Sound, PhaseOfKind, LeavesAnother, Stores
  <2>3. StoreChecked(v)'
      BY <1>1, <2>1 DEF Sound, StoreChecked, Opening, Covered, Stores
  <2>4. ClosesOnce(v)'
      BY <1>1, <1>4, <1>5, <2>1 DEF Sound, ClosesOnce
  <2>5. EntersOpen(v)'
    <3>1. SUFFICES ASSUME pc[v] = "entry"
                   PROVE  /\ at[v] \in 1..Len(sessions')
                          /\ sessions'[at[v]].count = NotCounted \/ id[v] \in inFlight'
        BY <2>1 DEF EntersOpen, IsOpen
    <3>2. at[v] \in 1..Len(sessions) /\ (IsOpen(at[v]) \/ id[v] \in inFlight)
        BY <2>1, <3>1 DEF Sound, EntersOpen
    <3>3. at[v] = s => id[v] \in inFlight'
        BY <1>1, <3>1
    <3>4. QED
        BY <1>1, <1>4, <1>5, <3>2, <3>3 DEF IsOpen
  <2>6. OpensAlone(v)'
      BY <1>1, <1>6, <2>1 DEF Sound, OpensAlone, Opening
  <2>7. QED
      BY <2>2, <2>3, <2>4, <2>5, <2>6 DEF Sound
<1>11. Sound(w)'
    BY <1>1, AnswerFrame, IdleSound
<1>12. QED
    BY <1>7, <1>8, <1>9, <1>10, <1>11 DEF IInv

\* The INSERT of a movement, or of the payments of a sale or refund.
LEMMA EnterIInv ==
    ASSUME IInv, NEW w \in Workers, Enter(w)
    PROVE  IInv'
<1>1. /\ TypeOK /\ Answer(w) /\ pc[w] = "entry" /\ Sound(w)
      /\ late' = late \cup {n \in {id[w]} : ~ IsOpen(at[w])}
      /\ UNCHANGED <<rows, raced, contested, inFlight, lapsed, crossed>>
    BY DEF IInv, Enter
<1>2. IsOpen(at[w]) \/ id[w] \in inFlight
    BY <1>1 DEF Sound, EntersOpen
<1>3. LateEntriesWereInFlight'
    BY <1>1, <1>2 DEF IInv, LateEntriesWereInFlight
<1>4. TypeOK'
    BY <1>1, <1>2, AnswerFrame DEF TypeOK, rows
<1>5. OneOpenPerUser' /\ LastStoreStays'
    BY <1>1 DEF IInv, OneOpenPerUser, OpenOf, IsOpen, LastStoreStays, ActiveStores,
                Stores, rows
<1>6. ASSUME NEW v \in Workers \ {w} PROVE Sound(v)'
  <2>1. Sound(v) /\ pc'[v] = pc[v] /\ req'[v] = req[v] /\ at'[v] = at[v] /\ id' = id
      BY <1>1, AnswerFrame DEF IInv
  <2>2. PhaseOfKind(v)' /\ ClosesOnce(v)' /\ EntersOpen(v)' /\ LeavesAnother(v)'
      BY <1>1, <2>1 DEF Sound, PhaseOfKind, ClosesOnce, EntersOpen, LeavesAnother,
                        IsOpen, Stores, rows
  <2>3. OpensAlone(v)'
      BY <1>1, <2>1 DEF Sound, OpensAlone, Opening, OpenOf, IsOpen, rows
  <2>4. StoreChecked(v)'
      BY <1>1, <2>1 DEF Sound, StoreChecked, Opening, Covered, Stores, rows
  <2>5. QED
      BY <2>2, <2>3, <2>4 DEF Sound
<1>7. Sound(w)'
    BY <1>1, AnswerFrame, IdleSound
<1>8. QED
    BY <1>3, <1>4, <1>5, <1>6, <1>7 DEF IInv

-----------------------------------------------------------------------------
\* A change of stores or of the plan touches no session.
LEMMA StoresFrame ==
    ASSUME IInv, TypeOK', LastStoreStays', id' = id,
           UNCHANGED <<sessions, raced, contested, inFlight, late>>,
           \A v \in Workers : \/ pc'[v] = "idle"
                             \/ /\ pc'[v] = pc[v] /\ req'[v] = req[v] /\ at'[v] = at[v]
                                /\ PhaseOfKind(v)' /\ StoreChecked(v)' /\ LeavesAnother(v)'
    PROVE  IInv'
<1>1. OneOpenPerUser' /\ LateEntriesWereInFlight'
    BY DEF IInv, OneOpenPerUser, OpenOf, IsOpen, LateEntriesWereInFlight
<1>2. ASSUME NEW v \in Workers, pc'[v] # "idle" PROVE Sound(v)'
  <2>1. /\ Sound(v) /\ pc'[v] = pc[v] /\ req'[v] = req[v] /\ at'[v] = at[v]
        /\ PhaseOfKind(v)' /\ StoreChecked(v)' /\ LeavesAnother(v)'
      BY <1>2 DEF IInv
  <2>2. ClosesOnce(v)' /\ EntersOpen(v)'
      BY <2>1 DEF Sound, ClosesOnce, EntersOpen, IsOpen
  <2>3. OpensAlone(v)'
      BY <2>1 DEF Sound, OpensAlone, Opening, OpenOf, IsOpen
  <2>4. QED
      BY <2>1, <2>2, <2>3 DEF Sound
<1>3. \A v \in Workers : Sound(v)'
    BY <1>2, IdleSound
<1>4. QED
    BY <1>1, <1>3 DEF IInv

\* The INSERT of a store takes no store away.
LEMMA AddStoreIInv ==
    ASSUME IInv, NEW w \in Workers, AddStore(w)
    PROVE  IInv'
<1>1. /\ TypeOK /\ Answer(w) /\ active' = Append(active, TRUE)
      /\ UNCHANGED <<multi, sessions, history>>
    BY DEF IInv, AddStore
<1>2. /\ active' \in Seq(BOOLEAN) /\ Len(active') = Len(active) + 1 /\ Len(active) \in Nat
      /\ \A s \in Stores : active'[s] = active[s]
    BY <1>1 DEF TypeOK, Stores
<1>3. \A s \in Stores : s \in Stores' /\ (active'[s] <=> active[s])
    BY <1>2 DEF Stores
<1>4. TypeOK'
    BY <1>1, <1>2, AnswerFrame DEF TypeOK, history
<1>5. LastStoreStays'
  <2>1. ActiveStores \subseteq ActiveStores'
      BY <1>3 DEF ActiveStores
  <2>2. QED
      BY <1>1, <2>1 DEF IInv, LastStoreStays, history
<1>6. ASSUME NEW v \in Workers \ {w}
      PROVE  /\ pc'[v] = pc[v] /\ req'[v] = req[v] /\ at'[v] = at[v]
             /\ PhaseOfKind(v)' /\ StoreChecked(v)' /\ LeavesAnother(v)'
  <2>1. Sound(v) /\ pc'[v] = pc[v] /\ req'[v] = req[v] /\ at'[v] = at[v] /\ id' = id
      BY <1>1, AnswerFrame DEF IInv
  <2>2. PhaseOfKind(v)'
      BY <1>3, <2>1 DEF Sound, PhaseOfKind
  <2>3. StoreChecked(v)'
      BY <1>1, <1>3, <2>1 DEF Sound, StoreChecked, Opening, Covered, history
  <2>4. LeavesAnother(v)'
      BY <1>1, <1>3, <2>1 DEF Sound, PhaseOfKind, LeavesAnother, history
  <2>5. QED
      BY <2>1, <2>2, <2>3, <2>4
<1>7. QED
    BY <1>1, <1>4, <1>5, <1>6, AnswerFrame, StoresFrame DEF history

\* The opens that a change takes the store from are requests received.
LEMMA LapsingReceived ==
    ASSUME IInv, NEW stores, NEW plan
    PROVE  Lapsing(stores, plan) \subseteq 1..received
<1>1. ASSUME NEW v \in Workers, pc[v] \in {"plan", "insert"} PROVE id[v] \in 1..received
    BY <1>1 DEF IInv, TypeOK, Sound, PhaseOfKind
<1>2. QED
    BY <1>1 DEF Lapsing

\* The UPDATE of a store: nobody else is about to take one away, or they overlap.
LEMMA SetActiveIInv ==
    ASSUME IInv, NEW w \in Workers, SetActive(w)
    PROVE  IInv'
<1> DEFINE r == req[w]
<1>1. /\ TypeOK /\ Sound(w) /\ Answer(w) /\ pc[w] = "set"
      /\ active' = [active EXCEPT ![r.store] = r.active]
      /\ crossed' = (crossed \/ \E v \in Workers \ {w} : pc[v] \in {"count", "set"})
      /\ lapsed' = lapsed \cup Lapsing(active', multi)
      /\ UNCHANGED <<multi, sessions, raced, contested, inFlight, late>>
    BY DEF IInv, SetActive
<1>2. r.kind = "update" /\ r.store \in Stores /\ r.active \in BOOLEAN
    BY <1>1, RequestTyped DEF Sound, PhaseOfKind
<1>3. active \in Seq(BOOLEAN)
    BY <1>1 DEF TypeOK
<1>4. /\ active' \in Seq(BOOLEAN) /\ Stores' = Stores
      /\ active'[r.store] = r.active
      /\ \A s \in Stores \ {r.store} : active'[s] = active[s]
    BY <1>1, <1>2, <1>3 DEF Stores
<1>5. TypeOK'
  <2>1. lapsed' \subseteq 1..received
      BY <1>1, LapsingReceived DEF TypeOK
  <2>2. crossed' \in BOOLEAN
      BY <1>1 DEF TypeOK
  <2>3. QED
      BY <1>1, <1>4, <2>1, <2>2, AnswerFrame DEF TypeOK
<1>6. LastStoreStays'
  <2>1. SUFFICES ASSUME ~ crossed' PROVE \E s \in Stores : active'[s]
      BY <1>4 DEF LastStoreStays, ActiveStores
  <2>2. ~ crossed /\ \E s \in Stores : active[s]
      BY <1>1, <2>1 DEF IInv, LastStoreStays, ActiveStores
  <2>3. CASE r.active
      BY <1>2, <1>4, <2>3
  <2>4. CASE ~ r.active /\ active[r.store]
    <3>1. PICK s \in Stores \ {r.store} : active[s]
        BY <1>1, <2>2, <2>4 DEF Sound, LeavesAnother
    <3>2. QED
        BY <1>4, <3>1
  <2>5. CASE ~ r.active /\ ~ active[r.store]
      BY <1>4, <2>2, <2>5
  <2>6. QED
      BY <2>3, <2>4, <2>5
<1>7. ASSUME NEW v \in Workers \ {w}
      PROVE  /\ pc'[v] = pc[v] /\ req'[v] = req[v] /\ at'[v] = at[v]
             /\ PhaseOfKind(v)' /\ StoreChecked(v)' /\ LeavesAnother(v)'
  <2>1. Sound(v) /\ pc'[v] = pc[v] /\ req'[v] = req[v] /\ at'[v] = at[v] /\ id' = id
      BY <1>1, AnswerFrame DEF IInv
  <2>2. PhaseOfKind(v)'
      BY <1>4, <2>1 DEF Sound, PhaseOfKind
  <2>3. LeavesAnother(v)'
      BY <1>1, <2>1 DEF LeavesAnother
  <2>4. StoreChecked(v)'
    <3>1. SUFFICES ASSUME Opening(v), pc[v] # "store", id[v] \notin lapsed'
                   PROVE  /\ req[v].store \in Stores /\ active'[req[v].store]
                          /\ pc[v] = "insert" => Covered(req[v].store, multi)
        BY <1>1, <1>4, <2>1 DEF StoreChecked, Opening, Covered, Sound
    <3>2. pc[v] \in {"plan", "insert"} /\ req[v].kind = "open"
        BY <3>1 DEF Opening
    <3>3. id[v] \notin Lapsing(active', multi) /\ id[v] \notin lapsed
        BY <1>1, <3>1
    <3>4. QED
        BY <2>1, <3>1, <3>2, <3>3 DEF Lapsing, Sound, StoreChecked
  <2>5. QED
      BY <2>1, <2>2, <2>3, <2>4
<1>8. QED
    BY <1>1, <1>5, <1>6, <1>7, AnswerFrame, StoresFrame

\* The plan changes: an open that relied on it has lapsed.
LEMMA ChangePlanIInv ==
    ASSUME IInv, ChangePlan
    PROVE  IInv'
<1>1. /\ TypeOK /\ multi' = ~ multi /\ lapsed' = lapsed \cup Lapsing(active, multi')
      /\ UNCHANGED <<active, sessions, pc, req, at, id, received, raced, contested,
                     inFlight, late, crossed>>
    BY DEF IInv, ChangePlan
<1>2. TypeOK'
  <2>1. lapsed' \subseteq 1..received /\ multi' \in BOOLEAN
      BY <1>1, LapsingReceived DEF TypeOK
  <2>2. QED
      BY <1>1, <2>1 DEF TypeOK
<1>3. LastStoreStays'
    BY <1>1 DEF IInv, LastStoreStays, ActiveStores, Stores
<1>4. ASSUME NEW v \in Workers
      PROVE  PhaseOfKind(v)' /\ StoreChecked(v)' /\ LeavesAnother(v)'
  <2>1. Sound(v)
      BY DEF IInv
  <2>2. PhaseOfKind(v)' /\ LeavesAnother(v)'
      BY <1>1, <2>1 DEF Sound, PhaseOfKind, LeavesAnother, Stores
  <2>3. StoreChecked(v)'
    <3>1. SUFFICES ASSUME Opening(v), pc[v] # "store", id[v] \notin lapsed'
                   PROVE  /\ req[v].store \in Stores /\ active[req[v].store]
                          /\ pc[v] = "insert" => Covered(req[v].store, multi')
        BY <1>1, <2>1 DEF StoreChecked, Opening, Covered, Sound, Stores
    <3>2. pc[v] \in {"plan", "insert"} /\ req[v].kind = "open"
        BY <3>1 DEF Opening
    <3>3. id[v] \notin Lapsing(active, multi') /\ id[v] \notin lapsed
        BY <1>1, <3>1
    <3>4. QED
        BY <2>1, <3>1, <3>2, <3>3 DEF Lapsing, Sound, StoreChecked
  <2>4. QED
      BY <2>2, <2>3
<1>5. QED
    BY <1>1, <1>2, <1>3, <1>4, StoresFrame

-----------------------------------------------------------------------------
\* Every way to be refused, and a failure, is an answer without a row.
LEMMA RefusedIInv ==
    ASSUME IInv, NEW w \in Workers,
           \/ RefuseOpen(w) \/ RefuseStore(w) \/ RefusePlan(w) \/ RefuseClose(w)
           \/ RefuseMovement(w) \/ RefuseSale(w) \/ RefuseUpdate(w) \/ RefuseLast(w)
           \/ Fail(w)
    PROVE  IInv'
<1>1. Refuse(w)
    BY DEF RefuseOpen, RefuseStore, RefusePlan, RefuseClose, RefuseMovement, RefuseSale,
           RefuseUpdate, RefuseLast, Fail
<1>2. QED
    BY <1>1, RefuseIInv

LEMMA NextIInv == IInv /\ [Next]_vars => IInv'
<1> SUFFICES ASSUME IInv, [Next]_vars PROVE IInv'
    OBVIOUS
<1>1. ASSUME NEW w \in Workers, Receive(w) PROVE IInv'
    BY <1>1, ReceiveIInv
<1>2. ASSUME NEW w \in Workers, Progress(w) PROVE IInv'
  <2>1. CASE OpenCheck(w) \/ StoreCheck(w) \/ ReadPlan(w) \/ InsertSession(w)
      BY <2>1, OpenCheckIInv, StoreCheckIInv, ReadPlanIInv, InsertSessionIInv
  <2>2. CASE CloseCheck(w) \/ Close(w)
      BY <2>2, CloseCheckIInv, CloseIInv
  <2>3. CASE MovementCheck(w) \/ SaleCheck(w) \/ Enter(w)
      BY <2>3, MovementCheckIInv, SaleCheckIInv, EnterIInv
  <2>4. CASE CreateRead(w) \/ AddStore(w)
      BY <2>4, CreateReadIInv, AddStoreIInv
  <2>5. CASE UpdateRead(w) \/ CountActive(w) \/ SetActive(w)
      BY <2>5, UpdateReadIInv, CountActiveIInv, SetActiveIInv
  <2>6. CASE \/ RefuseOpen(w) \/ RefuseStore(w) \/ RefusePlan(w) \/ RefuseClose(w)
             \/ RefuseMovement(w) \/ RefuseSale(w) \/ RefuseUpdate(w) \/ RefuseLast(w)
      BY <2>6, RefusedIInv
  <2>7. QED
      BY <1>2, <2>1, <2>2, <2>3, <2>4, <2>5, <2>6 DEF Progress
<1>3. ASSUME NEW w \in Workers, Fail(w) PROVE IInv'
    BY <1>3, RefusedIInv
<1>4. CASE ChangePlan
    BY <1>4, ChangePlanIInv
<1>5. CASE UNCHANGED vars
    BY <1>5 DEF IInv, vars, rows, history, TypeOK, OneOpenPerUser, OpenOf, IsOpen,
                LateEntriesWereInFlight, LastStoreStays, ActiveStores, Stores, Sound,
                PhaseOfKind, OpensAlone, Opening, ClosesOnce, EntersOpen, StoreChecked,
                Covered, LeavesAnother
<1>6. QED
    BY <1>1, <1>2, <1>3, <1>4, <1>5 DEF Next

-----------------------------------------------------------------------------
\* What a request has read holds at its write, or the history says what
\* changed it: checks and writes apart, as in cash-sessions.service.ts:54-168
\* and stores.service.ts:37-124.
THEOREM SpecIInv == Spec => []IInv
BY InitIInv, NextIInv, PTL DEF Spec

\* A user has one open session at most, unless two of the user's opens overlap
\* (cash-sessions.service.ts:55-79).
THEOREM SpecOneOpenPerUser == Spec => []OneOpenPerUser
BY SpecIInv, PTL DEF IInv

\* A closed session takes the entries in flight at its closing, and no more
\* (cash-sessions.service.ts:121-168, sales.service.ts:59-114).
THEOREM SpecLateEntriesWereInFlight == Spec => []LateEntriesWereInFlight
BY SpecIInv, PTL DEF IInv

\* The tenant keeps an active store, unless two updates of stores overlap
\* (stores.service.ts:91-124).
THEOREM SpecLastStoreStays == Spec => []LastStoreStays
BY SpecIInv, PTL DEF IInv

\* Only the INSERT of an open and the UPDATE of a close write sessions.
LEMMA OthersKeepSessions ==
    ASSUME [Next]_vars, \A w \in Workers : ~ InsertSession(w) /\ ~ Close(w)
    PROVE  sessions' = sessions
<1>1. ASSUME NEW w \in Workers, Receive(w) PROVE sessions' = sessions
    BY <1>1 DEF Receive, rows
<1>2. ASSUME NEW w \in Workers, Fail(w) PROVE sessions' = sessions
    BY <1>2 DEF Fail, Refuse, rows
<1>3. ASSUME NEW w \in Workers, Progress(w) PROVE sessions' = sessions
  <2>1. CASE \/ OpenCheck(w) \/ StoreCheck(w) \/ ReadPlan(w) \/ CloseCheck(w)
             \/ MovementCheck(w) \/ SaleCheck(w) \/ CreateRead(w) \/ UpdateRead(w)
             \/ CountActive(w)
      BY <2>1 DEF OpenCheck, StoreCheck, ReadPlan, CloseCheck, MovementCheck, SaleCheck,
                  CreateRead, UpdateRead, CountActive, Continue, rows
  <2>2. CASE \/ RefuseOpen(w) \/ RefuseStore(w) \/ RefusePlan(w) \/ RefuseClose(w)
             \/ RefuseMovement(w) \/ RefuseSale(w) \/ RefuseUpdate(w) \/ RefuseLast(w)
      BY <2>2 DEF RefuseOpen, RefuseStore, RefusePlan, RefuseClose, RefuseMovement,
                  RefuseSale, RefuseUpdate, RefuseLast, Refuse, rows
  <2>3. CASE Enter(w) \/ AddStore(w) \/ SetActive(w)
      BY <2>3 DEF Enter, AddStore, SetActive, rows
  <2>4. QED
      BY <1>3, <2>1, <2>2, <2>3 DEF Progress
<1>4. QED
    BY <1>1, <1>2, <1>3 DEF Next, ChangePlan, vars, rows

\* What was counted is final, unless two closes of the session overlap
\* (cash-sessions.service.ts:88-106).
THEOREM SpecCountIsFinal == Spec => CountIsFinal
<1> DEFINE Final == \A s \in 1..Len(sessions) : ~ IsOpen(s) /\ s \notin contested' =>
                        sessions'[s] = sessions[s]
<1>1. IInv /\ [Next]_vars => [Final]_vars
  <2> SUFFICES ASSUME IInv, [Next]_vars PROVE Final
      OBVIOUS
  <2>1. ASSUME NEW w \in Workers, InsertSession(w) PROVE Final
    <3>1. sessions \in Seq([user : Users, store : Nat, count : Amounts \cup {NotCounted}])
        BY DEF IInv, TypeOK
    <3>2. PICK row : sessions' = Append(sessions, row)
        BY <2>1 DEF InsertSession
    <3>3. \A s \in 1..Len(sessions) : sessions'[s] = sessions[s]
        BY <3>1, <3>2
    <3>4. QED
        BY <3>3
  <2>2. ASSUME NEW w \in Workers, Close(w) PROVE Final
    <3>1. /\ sessions' = [sessions EXCEPT ![req[w].session].count = req[w].amount]
          /\ contested \subseteq contested' /\ pc[w] = "close"
        BY <2>2 DEF Close
    <3>2. req[w].session \in contested \/ IsOpen(req[w].session)
        BY <3>1 DEF IInv, Sound, ClosesOnce
    <3>3. sessions \in Seq([user : Users, store : Nat, count : Amounts \cup {NotCounted}])
        BY DEF IInv, TypeOK
    <3>4. \A s \in 1..Len(sessions) \ {req[w].session} : sessions'[s] = sessions[s]
        BY <3>1, <3>3
    <3>5. QED
        BY <3>1, <3>2, <3>4
  <2>3. CASE \A w \in Workers : ~ InsertSession(w) /\ ~ Close(w)
      BY <2>3, OthersKeepSessions
  <2>4. QED
      BY <2>1, <2>2, <2>3
<1>2. QED
    BY <1>1, SpecIInv, PTL DEF Spec, CountIsFinal

\* A session opens in a usable store, unless the store or the plan changed after
\* it was checked (cash-sessions.service.ts:60-63, stores.service.ts:55-84).
THEOREM SpecOpensWhereUsable == Spec => OpensWhereUsable
<1> DEFINE Where ==
        Len(sessions') > Len(sessions) =>
            \E w \in Workers :
                /\ pc[w] = "insert" /\ pc'[w] = "idle"
                /\ sessions'[Len(sessions')].store = req[w].store
                /\ Usable(req[w].store) \/ id[w] \in lapsed
<1>1. IInv /\ [Next]_vars => [Where]_vars
  <2> SUFFICES ASSUME IInv, [Next]_vars PROVE Where
      OBVIOUS
  <2>1. sessions \in Seq([user : Users, store : Nat, count : Amounts \cup {NotCounted}])
      BY DEF IInv, TypeOK
  <2>2. ASSUME NEW w \in Workers, InsertSession(w) PROVE Where
    <3>1. pc[w] = "insert" /\ Answer(w) /\ TypeOK /\ Sound(w)
        BY <2>2 DEF InsertSession, IInv
    <3>2. pc'[w] = "idle"
        BY <3>1, AnswerFrame
    <3>3. Usable(req[w].store) \/ id[w] \in lapsed
        BY <3>1 DEF Sound, PhaseOfKind, StoreChecked, Opening, Usable
    <3>4. sessions' = Append(sessions, [user |-> req[w].user, store |-> req[w].store,
                                        count |-> NotCounted])
        BY <2>2 DEF InsertSession
    <3>5. sessions'[Len(sessions')].store = req[w].store
        BY <2>1, <3>4
    <3>6. QED
        BY <3>1, <3>2, <3>3, <3>5
  <2>3. ASSUME NEW w \in Workers, Close(w) PROVE Where
    <3>1. Len(sessions') = Len(sessions)
        BY <2>1, <2>3 DEF Close
    <3>2. QED
        BY <2>1, <3>1
  <2>4. CASE \A w \in Workers : ~ InsertSession(w) /\ ~ Close(w)
      BY <2>1, <2>4, OthersKeepSessions
  <2>5. QED
      BY <2>2, <2>3, <2>4
<1>2. QED
    BY <1>1, SpecIInv, PTL DEF Spec, OpensWhereUsable
=============================================================================
