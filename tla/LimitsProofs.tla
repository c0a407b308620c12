---------------------------- MODULE LimitsProofs ----------------------------
(***************************************************************************)
(* Proofs about Credentials, Coupons, LicenceKeys, Deliveries and          *)
(* Idempotency, for any number of calls, keys, buyers, devices and links.  *)
(* All are about the gap between a read and the write that depends on it,  *)
(* so each invariant says what a call in the gap may rely on: a call about *)
(* to store holds the tenant's key, one about to exchange has consumed its *)
(* state alone, one about to add a use was counted among those the limit   *)
(* may give way to, one about to record has run what it records.           *)
(***************************************************************************)
EXTENDS MCLimits, Integers, FiniteSetTheorems, TLAPS

-----------------------------------------------------------------------------
(* Credentials: the tenant's key and the authorization states *)

Job == [next : {"idle", "confirming", "resolving"}, row : Credential \cup {0},
        key : Call \cup {"none"}, state : State \cup {"none"}, shown : BOOLEAN]

JobType == job \in [Call -> Job]

\* A stored credential has the tenant's key; a call about to store one holds it; and a
\* call about to store a key has generated it itself.
KeyInv ==
    /\ KeyIsKept
    /\ \A c \in Call :
        /\ pc[c] = "storing" => job[c].key = dek /\ dek # "none"
        /\ pc[c] = "making" => job[c].key = c

Holds(c, s) == pc[c] = "exchanging" /\ job[c].state = s

\* A state that has not been consumed was not exchanged and nobody is about to; one
\* that has is with one call at most, until it is exchanged.
StateInv ==
    /\ \A c \in Call : pc[c] \in {"consuming", "exchanging"} => job[c].state \in State
    /\ \A s \in State : honoured[s] \in 0..1
    /\ \A s \in State : state[s] # "consumed" => honoured[s] = 0
    /\ \A s \in State, c \in Call : Holds(c, s) => state[s] = "consumed" /\ honoured[s] = 0
    /\ \A s \in State, c, d \in Call : Holds(c, s) /\ Holds(d, s) => c = d

IInv == TypeOK /\ JobType /\ KeyInv /\ StateInv

-----------------------------------------------------------------------------
(* How a call moves on *)

\* What Goto leaves of the other calls.
Moved(c, stage, work) ==
    /\ pc'[c] = stage /\ job'[c] = work
    /\ \A d \in Call \ {c} : pc'[d] = pc[d] /\ job'[d] = job[d]

CallsTyped == pc \in [Call -> Stage] /\ job \in [Call -> Job]

LEMMA GotoMoves ==
    ASSUME CallsTyped, NEW c \in Call, NEW stage \in Stage, NEW work \in Job,
           Goto(c, stage, work)
    PROVE  Moved(c, stage, work) /\ CallsTyped'
  BY DEF Goto, Moved, CallsTyped

LEMMA NoJobIsAJob == NoJob \in Job
  BY DEF NoJob, Holding, Job

LEMMA HoldingIsAJob ==
    ASSUME NEW n \in {"idle", "confirming", "resolving"}, NEW r \in Credential \cup {0},
           NEW s \in State \cup {"none"}, NEW x \in BOOLEAN
    PROVE  Holding(n, r, "none", s, x) \in Job
  BY DEF Holding, Job

LEMMA KeyedJobIsAJob ==
    ASSUME NEW j \in Job, NEW k \in Call \cup {"none"}
    PROVE  /\ [j EXCEPT !.key = k] \in Job
           /\ [j EXCEPT !.key = k].key = k
           /\ [j EXCEPT !.key = k].state = j.state
  BY DEF Job

\* Every step is one of these: a call moves, or nobody does and a state is opened.
Begins(c) ==
    \/ \E s \in State : FindState(c, s)
    \/ Save(c) \/ Test(c) \/ Disconnect(c)
    \/ \E r \in Credential : FindExpiring(c, r)
Continues(c) ==
    \/ Consume(c) \/ Declined(c) \/ Exchange(c) \/ DeactivateAll(c) \/ FindDek(c)
    \/ CreateDek(c) \/ Store(c) \/ Confirm(c) \/ Refresh(c) \/ Resolve(c) \/ Tested(c)
    \/ Part(c) \/ Abandon(c)

LEMMA NextIsAMove ==
    Next => \/ \E c \in Call : Begins(c) \/ Continues(c)
            \/ \E s \in State : StartOAuth(s)
  BY DEF Next, Begins, Continues

-----------------------------------------------------------------------------
(* What a step does to the call that takes it, to the rows and to the states *)

Quiet == UNCHANGED <<made, keyOf, dek>>      \* no row is made, and no key
Calm == UNCHANGED <<state, honoured>>        \* no state changes

\* The stages between which nothing is said of a call.
Plain == Stage \ {"consuming", "exchanging", "making", "storing"}

\* The moves of a call, by what the invariant has to say of them.
Effect(c) ==
    \/ /\ pc'[c] \in Plain /\ Quiet /\ Calm
    \/ /\ pc'[c] = "consuming" /\ job'[c].state \in State /\ Quiet /\ Calm
    \/ /\ pc[c] = "consuming" /\ pc'[c] = "exchanging" /\ job'[c] = job[c]
       /\ state[job[c].state] = "open"
       /\ state' = [state EXCEPT ![job[c].state] = "consumed"]
       /\ Quiet /\ UNCHANGED honoured
    \/ /\ pc[c] = "exchanging" /\ pc'[c] = "saving"
       /\ honoured' = [honoured EXCEPT ![job[c].state] = @ + 1]
       /\ Quiet /\ UNCHANGED state
    \/ /\ pc'[c] = "storing" /\ job'[c].key = dek /\ dek # "none" /\ Quiet /\ Calm
    \/ /\ pc'[c] = "making" /\ job'[c].key = c /\ dek = "none" /\ Quiet /\ Calm
    \/ /\ pc[c] = "making" /\ pc'[c] = "storing" /\ job'[c] = job[c]
       /\ dek = "none" /\ dek' = c /\ UNCHANGED <<made, keyOf>> /\ Calm
    \/ /\ pc[c] = "storing" /\ pc'[c] \in Plain
       /\ made < MaxCredentials /\ made' = made + 1
       /\ keyOf' = [keyOf EXCEPT ![made + 1] = job[c].key]
       /\ UNCHANGED dek /\ Calm

Alone(c) == \A d \in Call \ {c} : pc'[d] = pc[d] /\ job'[d] = job[d]

Shape(c) == CallsTyped' /\ Alone(c) /\ Effect(c)

LEMMA BeginShape ==
    ASSUME TypeOK, JobType, NEW c \in Call, Begins(c)
    PROVE  Shape(c)
  <1>0. CallsTyped
    BY DEF TypeOK, JobType, CallsTyped
  <1>1. ASSUME NEW s \in State, FindState(c, s)
        PROVE  Shape(c)
    <2>1. Holding("confirming", 0, "none", s, FALSE) \in Job
      BY HoldingIsAJob
    <2>2. "consuming" \in Stage /\ Goto(c, "consuming", Holding("confirming", 0, "none", s, FALSE))
      BY <1>1 DEF FindState, Stage
    <2>3. Moved(c, "consuming", Holding("confirming", 0, "none", s, FALSE)) /\ CallsTyped'
      BY <1>0, <2>1, <2>2, GotoMoves
    <2>4. job'[c].state \in State
      BY <2>3 DEF Moved, Holding
    <2> QED
      BY <1>1, <2>3, <2>4 DEF FindState, Shape, Alone, Effect, Moved, Quiet, Calm, rows, oauth
  <1>2. CASE Save(c)
    <2>1. Holding("resolving", 0, "none", "none", FALSE) \in Job
      BY HoldingIsAJob
    <2>2. "saving" \in Plain /\ "saving" \in Stage
      BY DEF Stage, Plain, Changing
    <2>3. Moved(c, "saving", Holding("resolving", 0, "none", "none", FALSE)) /\ CallsTyped'
      BY <1>0, <1>2, <2>1, <2>2, GotoMoves DEF Save
    <2> QED
      BY <1>2, <2>2, <2>3 DEF Save, Shape, Alone, Effect, Moved, Quiet, Calm, rows, oauth
  <1>3. CASE Test(c)
    <2>2. "resolving" \in Plain /\ "resolving" \in Stage
      BY DEF Stage, Plain, Changing
    <2>3. Moved(c, "resolving", NoJob) /\ CallsTyped'
      BY <1>0, <1>3, <2>2, NoJobIsAJob, GotoMoves DEF Test
    <2> QED
      BY <1>3, <2>2, <2>3 DEF Test, Shape, Alone, Effect, Moved, Quiet, Calm, rows, oauth
  <1>4. CASE Disconnect(c)
    <2>2. "parting" \in Plain /\ "parting" \in Stage
      BY DEF Stage, Plain, Changing
    <2>3. Moved(c, "parting", NoJob) /\ CallsTyped'
      BY <1>0, <1>4, <2>2, NoJobIsAJob, GotoMoves DEF Disconnect
    <2> QED
      BY <1>4, <2>2, <2>3 DEF Disconnect, Shape, Alone, Effect, Moved, Quiet, Calm, oauth
  <1>5. ASSUME NEW r \in Credential, FindExpiring(c, r)
        PROVE  Shape(c)
    <2>1. Holding("idle", r, "none", "none", FALSE) \in Job
      BY HoldingIsAJob
    <2>2. "refreshing" \in Plain /\ "refreshing" \in Stage
      BY DEF Stage, Plain, Changing
    <2>3. Moved(c, "refreshing", Holding("idle", r, "none", "none", FALSE)) /\ CallsTyped'
      BY <1>0, <1>5, <2>1, <2>2, GotoMoves DEF FindExpiring
    <2> QED
      BY <1>5, <2>2, <2>3 DEF FindExpiring, Shape, Alone, Effect, Moved, Quiet, Calm, rows, oauth
  <1> QED
    BY <1>1, <1>2, <1>3, <1>4, <1>5 DEF Begins

\* The steps that end a call.
LEMMA EndShape ==
    ASSUME CallsTyped, NEW c \in Call, End(c), Quiet, Calm
    PROVE  Shape(c)
  <1>1. "idle" \in Stage /\ "idle" \in Plain
    BY DEF Stage, Plain
  <1>2. Moved(c, "idle", NoJob) /\ CallsTyped'
    BY <1>1, NoJobIsAJob, GotoMoves DEF End
  <1> QED
    BY <1>1, <1>2 DEF Shape, Alone, Effect, Moved

\* The steps that go on with the same work.
LEMMA StayShape ==
    ASSUME CallsTyped, NEW c \in Call, NEW stage \in Plain, Goto(c, stage, job[c]), Quiet, Calm
    PROVE  Shape(c)
  <1>1. stage \in Stage /\ job[c] \in Job
    BY DEF Plain, CallsTyped
  <1>2. Moved(c, stage, job[c]) /\ CallsTyped'
    BY <1>1, GotoMoves
  <1> QED
    BY <1>1, <1>2 DEF Shape, Alone, Effect, Moved

LEMMA ConsumeShape ==
    ASSUME TypeOK, JobType, StateInv, NEW c \in Call, Consume(c)
    PROVE  Shape(c)
  <1>0. CallsTyped /\ job[c] \in Job
    BY DEF TypeOK, JobType, CallsTyped
  <1>1. CASE state[job[c].state] = "open" /\ Goto(c, "exchanging", job[c])
             /\ state' = [state EXCEPT ![job[c].state] = "consumed"]
    <2>1. "exchanging" \in Stage
      BY DEF Stage
    <2>2. Moved(c, "exchanging", job[c]) /\ CallsTyped'
      BY <1>0, <1>1, <2>1, GotoMoves
    <2> QED
      BY <1>1, <2>2 DEF Consume, Shape, Alone, Effect, Moved, Quiet, Calm, rows
  <1>2. CASE UNCHANGED state /\ End(c)
    BY <1>0, <1>2, EndShape DEF Consume, Quiet, Calm, rows
  <1> QED
    BY <1>1, <1>2 DEF Consume

LEMMA ExchangeShape ==
    ASSUME TypeOK, JobType, NEW c \in Call, Exchange(c)
    PROVE  Shape(c)
  <1>0. CallsTyped /\ job[c] \in Job /\ "saving" \in Stage
    BY DEF TypeOK, JobType, CallsTyped, Stage, Changing
  <1>1. Moved(c, "saving", job[c]) /\ CallsTyped'
    BY <1>0, GotoMoves DEF Exchange
  <1> QED
    BY <1>1 DEF Exchange, Shape, Alone, Effect, Moved, Quiet, Calm, rows

LEMMA FindDekShape ==
    ASSUME TypeOK, JobType, NEW c \in Call, FindDek(c)
    PROVE  Shape(c)
  <1>0. CallsTyped /\ job[c] \in Job /\ "storing" \in Stage /\ "making" \in Stage
    BY DEF TypeOK, JobType, CallsTyped, Stage, Changing
  <1>1. CASE dek # "none" /\ Goto(c, "storing", [job[c] EXCEPT !.key = dek])
    <2>1. dek \in Call \cup {"none"}
      BY DEF TypeOK
    <2>2. [job[c] EXCEPT !.key = dek] \in Job /\ [job[c] EXCEPT !.key = dek].key = dek
      BY <1>0, <2>1, KeyedJobIsAJob
    <2>3. Moved(c, "storing", [job[c] EXCEPT !.key = dek]) /\ CallsTyped'
      BY <1>0, <1>1, <2>2, GotoMoves
    <2> QED
      BY <1>1, <2>2, <2>3 DEF FindDek, Shape, Alone, Effect, Moved, Quiet, Calm, rows, oauth
  <1>2. CASE dek = "none" /\ Goto(c, "making", [job[c] EXCEPT !.key = c])
    <2>2. [job[c] EXCEPT !.key = c] \in Job /\ [job[c] EXCEPT !.key = c].key = c
      BY <1>0, KeyedJobIsAJob
    <2>3. Moved(c, "making", [job[c] EXCEPT !.key = c]) /\ CallsTyped'
      BY <1>0, <1>2, <2>2, GotoMoves
    <2> QED
      BY <1>2, <2>2, <2>3 DEF FindDek, Shape, Alone, Effect, Moved, Quiet, Calm, rows, oauth
  <1> QED
    BY <1>1, <1>2 DEF FindDek

LEMMA CreateDekShape ==
    ASSUME TypeOK, JobType, NEW c \in Call, CreateDek(c)
    PROVE  Shape(c)
  <1>0. CallsTyped /\ job[c] \in Job /\ "storing" \in Stage
    BY DEF TypeOK, JobType, CallsTyped, Stage, Changing
  <1>1. Moved(c, "storing", job[c]) /\ CallsTyped'
    BY <1>0, GotoMoves DEF CreateDek
  <1> QED
    BY <1>1 DEF CreateDek, Shape, Alone, Effect, Moved, Calm, oauth

LEMMA StoreShape ==
    ASSUME TypeOK, JobType, NEW c \in Call, Store(c)
    PROVE  Shape(c)
  <1>0. CallsTyped /\ job[c].next \in {"idle", "confirming", "resolving"}
    BY DEF TypeOK, JobType, CallsTyped, Job
  <1>1. job[c].next \in Stage /\ job[c].next \in Plain
    BY <1>0 DEF Stage, Plain, Changing
  <1>2. Moved(c, job[c].next, NoJob) /\ CallsTyped'
    BY <1>0, <1>1, NoJobIsAJob, GotoMoves DEF Store
  <1> QED
    BY <1>1, <1>2 DEF Store, Shape, Alone, Effect, Moved, Calm, oauth

LEMMA ContinueShape ==
    ASSUME TypeOK, JobType, StateInv, NEW c \in Call, Continues(c)
    PROVE  Shape(c)
  <1>0. CallsTyped
    BY DEF TypeOK, JobType, CallsTyped
  <1>1. CASE Declined(c)
    BY <1>0, <1>1, EndShape DEF Declined, Quiet, Calm, oauth
  <1>2. CASE DeactivateAll(c)
    <2>1. "keying" \in Plain
      BY DEF Stage, Plain, Changing
    <2> QED
      BY <1>0, <1>2, <2>1, StayShape DEF DeactivateAll, Quiet, Calm, oauth
  <1>3. CASE Confirm(c)
    BY <1>0, <1>3, EndShape DEF Confirm, Quiet, Calm, oauth
  <1>4. CASE Refresh(c)
    <2>1. "keying" \in Plain
      BY DEF Stage, Plain, Changing
    <2> QED
      BY <1>0, <1>4, <2>1, StayShape DEF Refresh, Quiet, Calm, oauth
  <1>5. CASE Resolve(c)
    <2>1. Holding("idle", 0, "none", "none", HasActive) \in Job
      BY HoldingIsAJob DEF HasActive
    <2>2. "testing" \in Stage /\ "testing" \in Plain
      BY DEF Stage, Plain, Changing
    <2>3. Moved(c, "testing", Holding("idle", 0, "none", "none", HasActive)) /\ CallsTyped'
      BY <1>0, <1>5, <2>1, <2>2, GotoMoves DEF Resolve
    <2> QED
      BY <1>5, <2>2, <2>3 DEF Resolve, Shape, Alone, Effect, Moved, Quiet, Calm, rows, oauth
  <1>6. CASE Tested(c)
    BY <1>0, <1>6, EndShape DEF Tested, Quiet, Calm, oauth
  <1>7. CASE Part(c)
    BY <1>0, <1>7, EndShape DEF Part, Quiet, Calm, oauth
  <1>8. CASE Abandon(c)
    BY <1>0, <1>8, EndShape DEF Abandon, Quiet, Calm, rows, oauth
  <1> QED
    BY <1>1, <1>2, <1>3, <1>4, <1>5, <1>6, <1>7, <1>8,
       ConsumeShape, ExchangeShape, FindDekShape, CreateDekShape, StoreShape DEF Continues

-----------------------------------------------------------------------------
(* The tenant's key *)

LEMMA KeyStep ==
    ASSUME TypeOK, JobType, KeyInv, NEW c \in Call, Shape(c)
    PROVE  KeyInv'
  <1> USE DEF KeyInv, KeyIsKept
  <1>0. c # "none" /\ MaxCredentials \in Nat
    BY CredentialsAssumption
  <1>1. \A d \in Call \ {c} : pc'[d] = pc[d] /\ job'[d] = job[d]
    BY DEF Shape, Alone
  <1>2. ASSUME UNCHANGED dek, UNCHANGED <<made, keyOf>>,
               pc'[c] = "storing" => job'[c].key = dek /\ dek # "none",
               pc'[c] = "making" => job'[c].key = c
        PROVE  KeyInv'
    <2>1. KeyIsKept'
      BY <1>2
    <2>2. \A d \in Call : /\ pc'[d] = "storing" => job'[d].key = dek' /\ dek' # "none"
                          /\ pc'[d] = "making" => job'[d].key = d
      BY <1>1, <1>2
    <2> QED
      BY <2>1, <2>2
  <1>3. CASE /\ pc[c] = "making" /\ pc'[c] = "storing" /\ job'[c] = job[c]
             /\ dek = "none" /\ dek' = c /\ UNCHANGED <<made, keyOf>>
    <2>1. \A r \in Credential : ~(r <= made)
      BY <1>3
    <2>2. \A d \in Call : pc[d] # "storing"
      BY <1>3
    <2>3. job'[c].key = c
      BY <1>3
    <2>4. KeyIsKept'
      BY <1>3, <2>1
    <2>5. \A d \in Call : /\ pc'[d] = "storing" => job'[d].key = dek' /\ dek' # "none"
                          /\ pc'[d] = "making" => job'[d].key = d
      BY <1>0, <1>1, <1>3, <2>2, <2>3
    <2> QED
      BY <2>4, <2>5
  <1>4. CASE /\ pc[c] = "storing" /\ pc'[c] \in Plain
             /\ made < MaxCredentials /\ made' = made + 1
             /\ keyOf' = [keyOf EXCEPT ![made + 1] = job[c].key]
             /\ UNCHANGED dek
    <2>1. job[c].key = dek /\ dek # "none"
      BY <1>4
    <2>2. made \in 0..MaxCredentials /\ keyOf \in [Credential -> Call \cup {"none"}]
      BY DEF TypeOK
    <2>3. KeyIsKept'
      BY <1>0, <1>4, <2>1, <2>2 DEF Credential
    <2>4. \A d \in Call : /\ pc'[d] = "storing" => job'[d].key = dek' /\ dek' # "none"
                          /\ pc'[d] = "making" => job'[d].key = d
      BY <1>1, <1>4 DEF Plain
    <2> QED
      BY <2>3, <2>4
  <1> QED
    BY <1>2, <1>3, <1>4 DEF Shape, Effect, Quiet, Plain

-----------------------------------------------------------------------------
(* The authorization states *)

\* Nothing happens to the states, and the call is not about to exchange one.
LEMMA CalmStep ==
    ASSUME StateInv, NEW c \in Call, Alone(c), Calm, pc'[c] # "exchanging",
           pc'[c] = "consuming" => job'[c].state \in State
    PROVE  StateInv'
  <1>1. \A d \in Call \ {c} : pc'[d] = pc[d] /\ job'[d] = job[d]
    BY DEF Alone
  <1>2. \A d \in Call, s \in State : Holds(d, s)' => Holds(d, s)
    BY <1>1 DEF Holds
  <1>3. \A d \in Call : pc'[d] \in {"consuming", "exchanging"} => job'[d].state \in State
    BY <1>1 DEF StateInv
  <1> QED
    BY <1>2, <1>3 DEF StateInv, Calm

LEMMA StateStep ==
    ASSUME TypeOK, JobType, StateInv, NEW c \in Call, Shape(c)
    PROVE  StateInv'
  <1>1. Alone(c) /\ \A d \in Call \ {c} : pc'[d] = pc[d] /\ job'[d] = job[d]
    BY DEF Shape, Alone
  <1>2. ASSUME Calm, pc'[c] # "exchanging", pc'[c] = "consuming" => job'[c].state \in State
        PROVE  StateInv'
    BY <1>1, <1>2, CalmStep
  <1>3. CASE /\ pc[c] = "consuming" /\ pc'[c] = "exchanging" /\ job'[c] = job[c]
             /\ state[job[c].state] = "open"
             /\ state' = [state EXCEPT ![job[c].state] = "consumed"]
             /\ UNCHANGED honoured
    <2> DEFINE t == job[c].state
    <2>1. t \in State /\ state \in [State -> {"none", "open", "consumed"}]
      BY <1>3 DEF StateInv, TypeOK
    <2>2. \A d \in Call : ~Holds(d, t)
      BY <1>3, <2>1 DEF StateInv
    <2>3. honoured[t] = 0
      BY <1>3, <2>1 DEF StateInv
    <2>4. \A d \in Call, s \in State : Holds(d, s)' => Holds(d, s) \/ (d = c /\ s = t)
      BY <1>1, <1>3 DEF Holds
    <2>5. \A s \in State : state'[s] = IF s = t THEN "consumed" ELSE state[s]
      BY <1>3, <2>1
    <2> HIDE DEF t
    <2>6. \A d \in Call : pc'[d] \in {"consuming", "exchanging"} => job'[d].state \in State
      BY <1>1, <1>3 DEF StateInv
    <2>7. \A s \in State : honoured'[s] \in 0..1 /\ (state'[s] # "consumed" => honoured'[s] = 0)
      BY <1>3, <2>5 DEF StateInv
    <2>8. \A s \in State, d \in Call : Holds(d, s)' => state'[s] = "consumed" /\ honoured'[s] = 0
      BY <1>3, <2>3, <2>4, <2>5 DEF StateInv
    <2>9. \A s \in State, d, e \in Call : Holds(d, s)' /\ Holds(e, s)' => d = e
      BY <2>2, <2>4 DEF StateInv
    <2> QED
      BY <2>6, <2>7, <2>8, <2>9 DEF StateInv
  <1>4. CASE /\ pc[c] = "exchanging" /\ pc'[c] = "saving"
             /\ honoured' = [honoured EXCEPT ![job[c].state] = @ + 1]
             /\ UNCHANGED state
    <2> DEFINE t == job[c].state
    <2>1. t \in State /\ honoured \in [State -> Nat] /\ Holds(c, t)
      BY <1>4 DEF StateInv, TypeOK, Holds
    <2>2. honoured[t] = 0 /\ state[t] = "consumed"
      BY <2>1 DEF StateInv
    <2>3. \A s \in State : honoured'[s] = IF s = t THEN 1 ELSE honoured[s]
      BY <1>4, <2>1, <2>2
    <2>4. \A d \in Call, s \in State : Holds(d, s)' => Holds(d, s) /\ d # c
      BY <1>1, <1>4 DEF Holds
    <2> HIDE DEF t
    <2>0. \A d, e \in Call : Holds(d, t) /\ Holds(e, t) => d = e
      BY <2>1 DEF StateInv
    <2>5. \A d \in Call, s \in State : Holds(d, s)' => s # t
      BY <2>0, <2>1, <2>4
    <2>6. \A d \in Call : pc'[d] \in {"consuming", "exchanging"} => job'[d].state \in State
      BY <1>1, <1>4 DEF StateInv
    <2>7. \A s \in State : honoured'[s] \in 0..1 /\ (state'[s] # "consumed" => honoured'[s] = 0)
      BY <1>4, <2>2, <2>3 DEF StateInv
    <2>8. \A s \in State, d \in Call : Holds(d, s)' => state'[s] = "consumed" /\ honoured'[s] = 0
      <3> SUFFICES ASSUME NEW s \in State, NEW d \in Call, Holds(d, s)'
                   PROVE  state'[s] = "consumed" /\ honoured'[s] = 0
        OBVIOUS
      <3>1. s # t
        BY <2>5
      <3>2. Holds(d, s)
        BY <2>4
      <3>3. state[s] = "consumed" /\ honoured[s] = 0
        BY <3>2 DEF StateInv
      <3> QED
        BY <1>4, <2>3, <3>1, <3>3
    <2>9. \A s \in State, d, e \in Call : Holds(d, s)' /\ Holds(e, s)' => d = e
      BY <2>4 DEF StateInv
    <2> QED
      BY <2>6, <2>7, <2>8, <2>9 DEF StateInv
  <1> QED
    BY <1>2, <1>3, <1>4 DEF Shape, Effect, Plain

-----------------------------------------------------------------------------
(* Types *)

LEMMA RowsStep ==
    ASSUME TypeOK, JobType, NEW c \in Call, Begins(c) \/ Continues(c)
    PROVE  /\ status' \in {"PENDING", "CONNECTED", "ERROR", "DISCONNECTED"}
           /\ made' \in 0..MaxCredentials
           /\ active' \in [Credential -> BOOLEAN]
           /\ \A r \in Credential : active'[r] => r <= made'
           /\ keyOf' \in [Credential -> Call \cup {"none"}]
           /\ dek' \in Call \cup {"none"}
  <1>0. MaxCredentials \in Nat
    BY CredentialsAssumption
  <1>1. CASE Store(c)
    <2>1. job[c].key \in Call \cup {"none"}
      BY DEF JobType, Job
    <2> QED
      BY <1>0, <1>1, <2>1 DEF Store, TypeOK, Credential
  <1>2. CASE Consume(c) \/ Exchange(c) \/ FindDek(c) \/ Resolve(c) \/ Abandon(c) \/ Save(c) \/ Test(c)
             \/ (\E s \in State : FindState(c, s)) \/ (\E r \in Credential : FindExpiring(c, r))
    <2>1. UNCHANGED rows
      BY <1>2 DEF Consume, Exchange, FindDek, Resolve, Abandon, Save, Test, FindState, FindExpiring
    <2> QED
      BY <2>1 DEF rows, TypeOK
  <1>3. CASE Declined(c) \/ Confirm(c) \/ Tested(c) \/ Part(c)
    <2>1. UNCHANGED <<made, active, keyOf, dek>>
      BY <1>3 DEF Declined, Confirm, Tested, Part
    <2>2. status' \in {"PENDING", "CONNECTED", "ERROR", "DISCONNECTED"}
      BY <1>3 DEF Declined, Confirm, Tested, Part
    <2> QED
      BY <2>1, <2>2 DEF TypeOK
  <1>4. CASE DeactivateAll(c) \/ Disconnect(c)
    <2>1. UNCHANGED <<status, made, keyOf, dek>> /\ active' = [r \in Credential |-> FALSE]
      BY <1>4 DEF DeactivateAll, Disconnect, NoneActive
    <2> QED
      BY <2>1 DEF TypeOK
  <1>5. CASE Refresh(c)
    <2>1. UNCHANGED <<status, made, keyOf, dek>>
          /\ active' = [active EXCEPT ![job[c].row] = FALSE]
      BY <1>5 DEF Refresh
    <2> QED
      BY <2>1 DEF TypeOK
  <1>6. CASE CreateDek(c)
    BY <1>6 DEF CreateDek, TypeOK
  <1> QED
    BY <1>1, <1>2, <1>3, <1>4, <1>5, <1>6 DEF Begins, Continues

LEMMA OtherStep ==
    ASSUME TypeOK, JobType, StateInv, NEW c \in Call, Begins(c) \/ Continues(c)
    PROVE  /\ state' \in [State -> {"none", "open", "consumed"}]
           /\ honoured' \in [State -> Nat]
           /\ overlapped' \in BOOLEAN /\ broken' \in BOOLEAN
           /\ pc' \in [Call -> Stage] /\ JobType'
  <1>1. Shape(c)
    BY BeginShape, ContinueShape
  <1>2. pc' \in [Call -> Stage] /\ JobType'
    BY <1>1 DEF Shape, CallsTyped, JobType
  <1>3. state' \in [State -> {"none", "open", "consumed"}]
    BY <1>1 DEF Shape, Effect, Calm, TypeOK
  <1>4. honoured' \in [State -> Nat]
    BY <1>1 DEF Shape, Effect, Calm, TypeOK
  <1>5. overlapped' \in BOOLEAN
    <2>1. CASE Enter(c)
      BY <2>1 DEF Enter, TypeOK
    <2>2. CASE UNCHANGED overlapped
      BY <2>2 DEF TypeOK
    <2> QED
      BY <2>1, <2>2 DEF Begins, Continues, FindState, Save, Test, Disconnect, FindExpiring, Consume,
         Declined, Exchange, DeactivateAll, FindDek, CreateDek, Store, Confirm, Refresh, Resolve,
         Tested, Part, Abandon
  <1>6. broken' \in BOOLEAN
    <2>1. CASE Abandon(c)
      BY <2>1 DEF Abandon, TypeOK
    <2>2. CASE UNCHANGED broken
      BY <2>2 DEF TypeOK
    <2> QED
      BY <2>1, <2>2 DEF Begins, Continues, FindState, Save, Test, Disconnect, FindExpiring, Consume,
         Declined, Exchange, DeactivateAll, FindDek, CreateDek, Store, Confirm, Refresh, Resolve,
         Tested, Part
  <1> QED
    BY <1>2, <1>3, <1>4, <1>5, <1>6

-----------------------------------------------------------------------------
(* The invariant *)

\* Initially nothing is stored, opened or in flight.
LEMMA Initial == Init => IInv
  <1> SUFFICES ASSUME Init PROVE IInv
    OBVIOUS
  <1>0. MaxCredentials \in Nat
    BY CredentialsAssumption
  <1>1. TypeOK
    <2>1. made = 0 /\ made \in 0..MaxCredentials
      BY <1>0 DEF Init
    <2>2. active \in [Credential -> BOOLEAN] /\ keyOf \in [Credential -> Call \cup {"none"}]
      BY DEF Init
    <2>3. honoured \in [State -> Nat] /\ state \in [State -> {"none", "open", "consumed"}]
      BY DEF Init
    <2>4. pc \in [Call -> Stage]
      BY DEF Init, Stage
    <2>5. \A r \in Credential : active[r] => r <= made
      BY DEF Init
    <2> QED
      BY <2>1, <2>2, <2>3, <2>4, <2>5 DEF Init, TypeOK
  <1>2. JobType
    BY NoJobIsAJob DEF Init, JobType
  <1>3. KeyInv
    BY <1>0 DEF Init, KeyInv, KeyIsKept, Credential
  <1>4. StateInv
    BY DEF Init, StateInv, Holds
  <1> QED
    BY <1>1, <1>2, <1>3, <1>4 DEF IInv

\* No step breaks it: a call moves, a state is opened, or nothing happens.
LEMMA Preserved == IInv /\ [Next]_vars => IInv'
  <1> SUFFICES ASSUME IInv, [Next]_vars PROVE IInv'
    OBVIOUS
  <1>0. TypeOK /\ JobType /\ KeyInv /\ StateInv
    BY DEF IInv
  <1>1. ASSUME NEW c \in Call, Begins(c) \/ Continues(c)
        PROVE  IInv'
    <2>1. Shape(c)
      BY <1>0, <1>1, BeginShape, ContinueShape
    <2>2. TypeOK' /\ JobType'
      BY <1>0, <1>1, RowsStep, OtherStep DEF TypeOK
    <2>3. KeyInv' /\ StateInv'
      BY <1>0, <2>1, KeyStep, StateStep
    <2> QED
      BY <2>2, <2>3 DEF IInv
  <1>2. ASSUME NEW s \in State, StartOAuth(s)
        PROVE  IInv'
    <2>0. /\ state[s] = "none" /\ state' = [state EXCEPT ![s] = "open"]
          /\ UNCHANGED <<status, made, active, keyOf, dek, honoured, overlapped, broken, pc, job>>
      BY <1>2 DEF StartOAuth, rows
    <2>1. TypeOK' /\ JobType' /\ KeyInv'
      BY <1>0, <2>0 DEF TypeOK, JobType, KeyInv, KeyIsKept
    <2>2. \A t \in State : state'[t] = IF t = s THEN "open" ELSE state[t]
      BY <1>0, <2>0 DEF TypeOK
    <2>3. \A t \in State, c \in Call : Holds(c, t)' = Holds(c, t)
      BY <2>0 DEF Holds
    <2>4. \A c \in Call : ~Holds(c, s)
      BY <1>0, <2>0 DEF StateInv
    <2>5. StateInv'
      BY <1>0, <2>0, <2>2, <2>3, <2>4 DEF StateInv
    <2> QED
      BY <2>1, <2>5 DEF IInv
  <1>3. CASE UNCHANGED vars
    BY <1>0, <1>3 DEF IInv, vars, rows, oauth, TypeOK, JobType, KeyInv, KeyIsKept, StateInv, Holds
  <1> QED
    BY <1>1, <1>2, <1>3, NextIsAMove

LEMMA Invariant == Spec => []IInv
  BY Initial, Preserved, PTL DEF Spec

\* Every variable keeps its type, for any number of calls and states.
THEOREM TypeCorrect == Spec => []TypeOK
  <1>1. IInv => TypeOK
    BY DEF IInv
  <1> QED
    BY <1>1, Invariant, PTL

\* Every credential there has ever been can be decrypted with the tenant's one data
\* key, however many first saves race for it (getOrCreateTenantDek).
THEOREM EveryCredentialReadable == Spec => []KeyIsKept
  <1>1. IInv => KeyIsKept
    BY DEF IInv, KeyInv
  <1> QED
    BY <1>1, Invariant, PTL

\* A provider's authorization is exchanged at most once, however many callbacks
\* bring it (ConnectorOAuthStateRepository.consume).
THEOREM AuthorizationOnce == Spec => []StateOnce
  <1>1. IInv => StateOnce
    BY DEF IInv, StateInv, StateOnce, TypeOK
  <1> QED
    BY <1>1, Invariant, PTL

-----------------------------------------------------------------------------
(* The active credential and the status *)

Deep == Changing \ {"saving", "refreshing"}   \* Changing, and it has written something

Excused == overlapped \/ broken      \* nor, of the status, after one that ended half-way

OnlyOne == \A r, x \in Credential : active[r] /\ active[x] => r = x

Agree == /\ status = "CONNECTED" => HasActive
         /\ status = "DISCONNECTED" => ~HasActive

\* What a call may rely on while it is the only one to change the connection.
Alright(c) ==
    /\ pc[c] \in {"keying", "making", "storing"} => ~HasActive
    /\ pc[c] = "refreshing" => \A r \in Credential : active[r] => r = job[c].row

\* What it has to bring about, or has read, before it writes the status.
Intends(c) ==
    /\ pc[c] \in {"refreshing", "keying", "making", "storing"} /\ job[c].next = "idle"
           => status # "DISCONNECTED"
    /\ pc[c] = "confirming" => HasActive
    /\ pc[c] = "testing" /\ job[c].shown => HasActive
    /\ pc[c] = "parting" => ~HasActive

\* A callback confirms, and a save tests, once the credential is stored.
NextFits(c) ==
    /\ pc[c] \in {"consuming", "exchanging"} => job[c].next = "confirming"
    /\ pc[c] = "saving" => job[c].next # "idle"

AtRest == \A c \in Call : pc[c] \notin Deep

ChangeInv ==
    /\ \A c, d \in Call : pc[c] \in Changing /\ pc[d] \in Changing => c = d \/ overlapped
    /\ \A c \in Call : NextFits(c)
    /\ overlapped \/ (OnlyOne /\ \A c \in Call : Alright(c))
    /\ Excused \/ \A c \in Call : Intends(c)
    /\ Excused \/ (AtRest => Agree)

\* A call that changes the connection by itself: what is left to show is its own part.
LEMMA OneCall ==
    ASSUME ChangeInv, NEW c \in Call, Alone(c),
           overlapped => overlapped', broken => broken',
           pc[c] \in Changing \/ overlapped' = (overlapped \/ \E d \in Call \ {c} : pc[d] \in Changing),
           NextFits(c)',
           ~overlapped' => OnlyOne' /\ Alright(c)',
           ~Excused' => Intends(c)' /\ (pc'[c] \notin Deep => Agree')
    PROVE  ChangeInv'
  <1>1. \A d \in Call \ {c} : pc[d] \in Changing => overlapped'
    BY DEF ChangeInv
  <1>2. \A d \in Call \ {c} : pc'[d] = pc[d] /\ job'[d] = job[d]
    BY DEF Alone
  <1>3. \A d, e \in Call : pc'[d] \in Changing /\ pc'[e] \in Changing => d = e \/ overlapped'
    BY <1>1, <1>2
  <1>4. \A d \in Call : NextFits(d)'
    BY <1>2 DEF ChangeInv, NextFits
  <1>5. ASSUME ~overlapped', NEW d \in Call \ {c}
        PROVE  Alright(d)' /\ Intends(d)'
    <2>1. pc'[d] \notin Changing
      BY <1>1, <1>2, <1>5
    <2> QED
      BY <2>1 DEF Alright, Intends, Changing
  <1>6. overlapped' \/ (OnlyOne' /\ \A d \in Call : Alright(d)')
    BY <1>5
  <1>7. Excused' \/ \A d \in Call : Intends(d)'
    BY <1>5 DEF Excused
  <1>8. Excused' \/ (AtRest' => Agree')
    BY DEF AtRest
  <1> QED
    BY <1>3, <1>4, <1>6, <1>7, <1>8 DEF ChangeInv

\* A step of a call that is not changing the connection, or of none.
LEMMA NoChange ==
    ASSUME ChangeInv, UNCHANGED <<status, active, overlapped>>, broken => broken',
           \A d \in Call : \/ pc'[d] = pc[d] /\ job'[d] = job[d]
                           \/ pc'[d] \notin Changing /\ NextFits(d)' /\ (pc[d] \in Deep => broken')
    PROVE  ChangeInv'
  <1>1. \A d \in Call : pc'[d] \in Changing => pc'[d] = pc[d] /\ job'[d] = job[d]
    OBVIOUS
  <1>2. \A d \in Call : NextFits(d)'
    BY DEF ChangeInv, NextFits
  <1>3. HasActive' = HasActive
    BY DEF HasActive
  <1>4. \A d \in Call : Alright(d) => Alright(d)'
    BY <1>1, <1>3 DEF Alright, Changing
  <1>5. \A d \in Call : Intends(d) => Intends(d)'
    BY <1>1, <1>3 DEF Intends, Changing
  <1>6. ~broken' /\ AtRest' => AtRest
    BY DEF AtRest
  <1>7. overlapped' \/ (OnlyOne' /\ \A d \in Call : Alright(d)')
    BY <1>4 DEF ChangeInv, OnlyOne
  <1>8. Excused' \/ \A d \in Call : Intends(d)'
    BY <1>5 DEF ChangeInv, Excused
  <1>9. Excused' \/ (AtRest' => Agree')
    BY <1>3, <1>6 DEF ChangeInv, Excused, Agree
  <1>10. \A c, d \in Call : pc'[c] \in Changing /\ pc'[d] \in Changing => c = d \/ overlapped'
    BY <1>1 DEF ChangeInv
  <1> QED
    BY <1>2, <1>7, <1>8, <1>9, <1>10 DEF ChangeInv

\* Before a call enters by itself nobody is at work, so the status agrees.
LEMMA Entered ==
    ASSUME ChangeInv, NEW c \in Call, Enter(c), ~overlapped', pc[c] \notin Changing
    PROVE  ~overlapped /\ OnlyOne /\ (broken \/ Agree)
  <1>1. ~overlapped /\ \A d \in Call : pc[d] \notin Changing
    BY DEF Enter
  <1> QED
    BY <1>1 DEF ChangeInv, Excused, AtRest, Deep

\* What Goto does to the call that goes.
LEMMA Goes ==
    ASSUME TypeOK, JobType, NEW c \in Call, NEW stage \in Stage, NEW work \in Job,
           Goto(c, stage, work)
    PROVE  pc'[c] = stage /\ job'[c] = work /\ Alone(c)
  BY GotoMoves DEF TypeOK, JobType, CallsTyped, Moved, Alone

LEMMA Ends ==
    ASSUME TypeOK, JobType, NEW c \in Call, End(c)
    PROVE  pc'[c] = "idle" /\ job'[c] = NoJob /\ Alone(c)
  BY Goes, NoJobIsAJob DEF End, Stage

LEMMA NoneIsActive ==
    ASSUME active' = NoneActive
    PROVE  ~HasActive' /\ OnlyOne'
  BY DEF NoneActive, HasActive, OnlyOne

LEMMA ChangeStep == TypeOK /\ JobType /\ ChangeInv /\ Next => ChangeInv'
  <1> SUFFICES ASSUME TypeOK, JobType, ChangeInv, Next PROVE ChangeInv'
    OBVIOUS
  <1> USE DEF rows, oauth
  <1>0. \A c \in Call : job[c] \in Job
    BY DEF JobType
  <1>1. ASSUME NEW s \in State, StartOAuth(s) PROVE ChangeInv'
    BY <1>1, NoChange DEF StartOAuth
  <1>2. ASSUME NEW c \in Call, NEW s \in State, FindState(c, s) PROVE ChangeInv'
    <2> DEFINE work == Holding("confirming", 0, "none", s, FALSE)
    <2>1. work \in Job /\ work.next = "confirming" /\ "consuming" \in Stage
      BY HoldingIsAJob DEF Stage, Holding
    <2>2. pc'[c] = "consuming" /\ job'[c] = work /\ Alone(c) /\ pc[c] = "idle"
      BY <1>2, <2>1, Goes DEF FindState
    <2> HIDE DEF work
    <2>3. NextFits(c)' /\ pc'[c] \notin Changing /\ pc[c] \notin Deep
      BY <2>1, <2>2 DEF NextFits, Changing, Deep
    <2> QED
      BY <1>2, <2>2, <2>3, NoChange DEF FindState, Alone
  <1>3. ASSUME NEW c \in Call, Consume(c) PROVE ChangeInv'
    <2>1. /\ pc[c] = "consuming" /\ Alone(c)
          /\ \/ pc'[c] = "exchanging" /\ job'[c] = job[c]
             \/ pc'[c] = "idle"
      BY <1>0, <1>3, Goes, Ends DEF Consume, Stage
    <2>2. NextFits(c)' /\ pc'[c] \notin Changing /\ pc[c] \notin Deep
      BY <2>1 DEF ChangeInv, NextFits, Changing, Deep
    <2> QED
      BY <1>3, <2>1, <2>2, NoChange DEF Consume, Alone
  <1>4. ASSUME NEW c \in Call, Declined(c) PROVE ChangeInv'
    <2>1. pc[c] = "exchanging" /\ pc'[c] = "idle" /\ Alone(c)
      BY <1>4, Ends DEF Declined
    <2>2. /\ status' = "ERROR" /\ UNCHANGED <<active, broken>> /\ Enter(c)
          /\ pc[c] \notin Changing
      BY <1>4, <2>1 DEF Declined, Changing
    <2>3. NextFits(c)' /\ Alright(c)' /\ Intends(c)' /\ Agree'
      BY <2>1, <2>2 DEF NextFits, Alright, Intends, Agree
    <2>4. ~overlapped' => OnlyOne'
      BY <2>2, Entered DEF OnlyOne
    <2> QED
      BY <2>1, <2>2, <2>3, <2>4, OneCall DEF Enter
  <1>5. ASSUME NEW c \in Call, Exchange(c) PROVE ChangeInv'
    <2>1. pc[c] = "exchanging" /\ pc'[c] = "saving" /\ job'[c] = job[c] /\ Alone(c)
      BY <1>0, <1>5, Goes DEF Exchange, Stage, Changing
    <2>2. UNCHANGED <<status, active, broken>> /\ Enter(c) /\ pc[c] \notin Changing
      BY <1>5, <2>1 DEF Exchange, Changing
    <2>3. NextFits(c)' /\ Alright(c)' /\ Intends(c)'
      BY <2>1 DEF ChangeInv, NextFits, Alright, Intends
    <2>4. ~overlapped' => OnlyOne' /\ (broken' \/ Agree')
      BY <2>2, Entered DEF OnlyOne, Agree, HasActive
    <2> QED
      BY <2>1, <2>2, <2>3, <2>4, OneCall DEF Enter, Excused
  <1>6. ASSUME NEW c \in Call, Save(c) PROVE ChangeInv'
    <2> DEFINE work == Holding("resolving", 0, "none", "none", FALSE)
    <2>1. work \in Job /\ work.next = "resolving" /\ "saving" \in Stage
      BY HoldingIsAJob DEF Stage, Holding, Changing
    <2>2. pc[c] = "idle" /\ pc'[c] = "saving" /\ job'[c] = work /\ Alone(c)
      BY <1>6, <2>1, Goes DEF Save
    <2> HIDE DEF work
    <2>3. UNCHANGED <<status, active, broken>> /\ Enter(c) /\ pc[c] \notin Changing
      BY <1>6, <2>2 DEF Save, Changing
    <2>4. NextFits(c)' /\ Alright(c)' /\ Intends(c)'
      BY <2>1, <2>2 DEF NextFits, Alright, Intends
    <2>5. ~overlapped' => OnlyOne' /\ (broken' \/ Agree')
      BY <2>3, Entered DEF OnlyOne, Agree, HasActive
    <2> QED
      BY <2>2, <2>3, <2>4, <2>5, OneCall DEF Enter, Excused
  <1>7. ASSUME NEW c \in Call, DeactivateAll(c) PROVE ChangeInv'
    <2>1. pc[c] = "saving" /\ pc'[c] = "keying" /\ job'[c] = job[c] /\ Alone(c)
      BY <1>0, <1>7, Goes DEF DeactivateAll, Stage, Changing
    <2>2. /\ UNCHANGED <<status, overlapped, broken>> /\ ~HasActive' /\ OnlyOne'
          /\ pc[c] \in Changing
      BY <1>7, <2>1, NoneIsActive DEF DeactivateAll, Changing
    <2>3. NextFits(c)' /\ Alright(c)' /\ Intends(c)' /\ pc'[c] \in Deep
      BY <2>1, <2>2 DEF ChangeInv, NextFits, Alright, Intends, Deep, Changing
    <2> QED
      BY <2>1, <2>2, <2>3, OneCall
  \* The steps before a credential is stored leave the rows as they are.
  <1>8. ASSUME NEW c \in Call, FindDek(c) \/ CreateDek(c) PROVE ChangeInv'
    <2>1. /\ pc[c] \in {"keying", "making"} /\ pc'[c] \in {"making", "storing"} /\ Alone(c)
          /\ job'[c].next = job[c].next
      <3>1. CASE FindDek(c)
        <4>1. PICK stage \in {"making", "storing"}, k \in Call \cup {"none"} :
                Goto(c, stage, [job[c] EXCEPT !.key = k])
          BY <3>1 DEF FindDek, TypeOK
        <4>2. [job[c] EXCEPT !.key = k] \in Job /\ stage \in Stage
          BY <1>0, KeyedJobIsAJob DEF Stage, Changing
        <4>3. [job[c] EXCEPT !.key = k].next = job[c].next
          BY <1>0 DEF Job
        <4> QED
          BY <3>1, <4>1, <4>2, <4>3, Goes DEF FindDek
      <3>2. CASE CreateDek(c)
        <4>1. pc'[c] = "storing" /\ job'[c] = job[c] /\ Alone(c) /\ pc[c] = "making"
          BY <1>0, <3>2, Goes DEF CreateDek, Stage, Changing
        <4> QED
          BY <4>1
      <3> QED
        BY <1>8, <3>1, <3>2
    <2>2. UNCHANGED <<status, active, overlapped, broken>> /\ pc[c] \in Changing
      BY <1>8, <2>1 DEF FindDek, CreateDek, Changing
    <2>3. NextFits(c)' /\ pc'[c] \in Deep
      BY <2>1 DEF NextFits, Deep, Changing
    <2>4. ~overlapped' => OnlyOne' /\ Alright(c)'
      BY <2>1, <2>2 DEF ChangeInv, OnlyOne, Alright, HasActive
    <2>5. ~Excused' => Intends(c)'
      BY <2>1, <2>2 DEF ChangeInv, Excused, Intends
    <2> QED
      BY <2>1, <2>2, <2>3, <2>4, <2>5, OneCall
  <1>9. ASSUME NEW c \in Call, Store(c) PROVE ChangeInv'
    <2>1. /\ pc[c] = "storing" /\ pc'[c] = job[c].next /\ job'[c] = NoJob /\ Alone(c)
          /\ job[c].next \in {"idle", "confirming", "resolving"}
      <3>1. job[c].next \in {"idle", "confirming", "resolving"}
        BY <1>0 DEF Job
      <3> QED
        BY <3>1, <1>9, Goes, NoJobIsAJob DEF Store, Stage, Changing
    <2>2. UNCHANGED <<status, overlapped, broken>> /\ pc[c] \in Changing
      BY <1>9, <2>1 DEF Store, Changing
    <2>3. made + 1 \in Credential /\ active'[made + 1]
          /\ \A r \in Credential \ {made + 1} : active'[r] = active[r]
      BY <1>9, CredentialsAssumption DEF Store, TypeOK, Credential
    <2>4. HasActive'
      BY <2>3 DEF HasActive
    <2>5. NextFits(c)' /\ Alright(c)' /\ Intends(c)'
      BY <2>1, <2>4 DEF NextFits, Alright, Intends, NoJob, Holding
    <2>6. ~overlapped => OnlyOne'
      BY <2>1, <2>3 DEF ChangeInv, Alright, HasActive, OnlyOne
    <2>7. ~Excused /\ job[c].next = "idle" => status # "DISCONNECTED"
      BY <2>1 DEF ChangeInv, Intends
    <2>8. ~Excused' /\ pc'[c] \notin Deep => Agree'
      BY <2>1, <2>2, <2>4, <2>7 DEF Agree, Excused, Deep, Changing
    <2> QED
      BY <2>1, <2>2, <2>5, <2>6, <2>8, OneCall
  <1>10. ASSUME NEW c \in Call, Confirm(c) PROVE ChangeInv'
    <2>1. pc[c] = "confirming" /\ pc'[c] = "idle" /\ Alone(c)
      BY <1>10, Ends DEF Confirm
    <2>2. /\ status' = "CONNECTED" /\ UNCHANGED <<active, overlapped, broken>>
          /\ pc[c] \in Changing
      BY <1>10, <2>1 DEF Confirm, Changing
    <2>3. NextFits(c)' /\ Alright(c)' /\ Intends(c)'
      BY <2>1 DEF NextFits, Alright, Intends
    <2>4. ~overlapped' => OnlyOne'
      BY <2>2 DEF ChangeInv, OnlyOne
    <2>5. ~Excused' => Agree'
      BY <2>1, <2>2 DEF ChangeInv, Excused, Intends, Agree, HasActive
    <2> QED
      BY <2>1, <2>2, <2>3, <2>4, <2>5, OneCall
  <1>11. ASSUME NEW c \in Call, NEW r \in Credential, FindExpiring(c, r) PROVE ChangeInv'
    <2> DEFINE work == Holding("idle", r, "none", "none", FALSE)
    <2>1. work \in Job /\ work.next = "idle" /\ work.row = r /\ "refreshing" \in Stage
      BY HoldingIsAJob DEF Stage, Holding, Changing
    <2>2. pc[c] = "idle" /\ pc'[c] = "refreshing" /\ job'[c] = work /\ Alone(c)
      BY <1>11, <2>1, Goes DEF FindExpiring
    <2> HIDE DEF work
    <2>3. UNCHANGED <<status, active, broken>> /\ Enter(c) /\ pc[c] \notin Changing /\ active[r]
      BY <1>11, <2>2 DEF FindExpiring, Changing
    <2>4. NextFits(c)'
      BY <2>2 DEF NextFits
    <2>5. ~overlapped' => OnlyOne' /\ (broken' \/ Agree')
      BY <2>3, Entered DEF OnlyOne, Agree, HasActive
    <2>6. ~overlapped' => Alright(c)'
      BY <2>1, <2>2, <2>3, <2>5 DEF Alright, OnlyOne
    <2>7. ~Excused' => Intends(c)'
      BY <2>1, <2>2, <2>3, <2>5 DEF Intends, Excused, Agree, HasActive
    <2> QED
      BY <2>2, <2>3, <2>4, <2>5, <2>6, <2>7, OneCall DEF Enter, Excused
  <1>12. ASSUME NEW c \in Call, Refresh(c) PROVE ChangeInv'
    <2>1. pc[c] = "refreshing" /\ pc'[c] = "keying" /\ job'[c] = job[c] /\ Alone(c)
      BY <1>0, <1>12, Goes DEF Refresh, Stage, Changing
    <2>2. UNCHANGED <<status, overlapped, broken>> /\ pc[c] \in Changing
      BY <1>12, <2>1 DEF Refresh, Changing
    <2>3. \A r \in Credential : active'[r] => active[r] /\ r # job[c].row
      BY <1>12 DEF Refresh, TypeOK
    <2>4. NextFits(c)' /\ pc'[c] \in Deep
      BY <2>1 DEF NextFits, Deep, Changing
    <2>5. ~overlapped => ~HasActive'
      BY <2>1, <2>3 DEF ChangeInv, Alright, HasActive
    <2>6. ~overlapped' => OnlyOne' /\ Alright(c)'
      BY <2>1, <2>2, <2>5 DEF OnlyOne, Alright, HasActive
    <2>7. ~Excused' => Intends(c)'
      BY <2>1, <2>2 DEF ChangeInv, Excused, Intends
    <2> QED
      BY <2>1, <2>2, <2>4, <2>6, <2>7, OneCall
  <1>13. ASSUME NEW c \in Call, Test(c) PROVE ChangeInv'
    <2>1. pc[c] = "idle" /\ pc'[c] = "resolving" /\ Alone(c)
      BY <1>13, Goes, NoJobIsAJob DEF Test, Stage, Changing
    <2>2. /\ UNCHANGED <<status, active, broken>> /\ Enter(c)
          /\ pc[c] \notin Changing /\ pc'[c] \in Deep
      BY <1>13, <2>1 DEF Test, Changing, Deep
    <2>3. NextFits(c)' /\ Alright(c)' /\ Intends(c)'
      BY <2>1 DEF NextFits, Alright, Intends
    <2>4. ~overlapped' => OnlyOne'
      BY <2>2, Entered DEF OnlyOne
    <2> QED
      BY <2>1, <2>2, <2>3, <2>4, OneCall DEF Enter
  <1>14. ASSUME NEW c \in Call, Resolve(c) PROVE ChangeInv'
    <2> DEFINE work == Holding("idle", 0, "none", "none", HasActive)
    <2>1. work \in Job /\ (work.shown => HasActive) /\ "testing" \in Stage
      BY HoldingIsAJob DEF Stage, Holding, Changing, HasActive
    <2>2. pc[c] = "resolving" /\ pc'[c] = "testing" /\ job'[c] = work /\ Alone(c)
      BY <1>14, <2>1, Goes DEF Resolve
    <2> HIDE DEF work
    <2>3. UNCHANGED <<status, active, overlapped, broken>> /\ pc[c] \in Changing /\ pc'[c] \in Deep
      BY <1>14, <2>2 DEF Resolve, Changing, Deep
    <2>4. NextFits(c)' /\ Alright(c)'
      BY <2>2 DEF NextFits, Alright
    <2>5. Intends(c)'
      BY <2>1, <2>2, <2>3 DEF Intends, HasActive
    <2>6. ~overlapped' => OnlyOne'
      BY <2>3 DEF ChangeInv, OnlyOne
    <2> QED
      BY <2>2, <2>3, <2>4, <2>5, <2>6, OneCall
  <1>15. ASSUME NEW c \in Call, Tested(c) PROVE ChangeInv'
    <2>1. pc[c] = "testing" /\ pc'[c] = "idle" /\ Alone(c)
      BY <1>15, Ends DEF Tested
    <2>2. /\ status' \in {"CONNECTED", "ERROR"} /\ (status' = "CONNECTED" => job[c].shown)
          /\ UNCHANGED <<active, overlapped, broken>> /\ pc[c] \in Changing
      BY <1>15, <2>1 DEF Tested, Changing
    <2>3. NextFits(c)' /\ Alright(c)' /\ Intends(c)'
      BY <2>1 DEF NextFits, Alright, Intends
    <2>4. ~overlapped' => OnlyOne'
      BY <2>2 DEF ChangeInv, OnlyOne
    <2>5. ~Excused' => Agree'
      BY <2>1, <2>2 DEF ChangeInv, Excused, Intends, Agree, HasActive
    <2> QED
      BY <2>1, <2>2, <2>3, <2>4, <2>5, OneCall
  <1>16. ASSUME NEW c \in Call, Disconnect(c) PROVE ChangeInv'
    <2>1. pc[c] = "idle" /\ pc'[c] = "parting" /\ Alone(c)
      BY <1>16, Goes, NoJobIsAJob DEF Disconnect, Stage, Changing
    <2>2. /\ UNCHANGED <<status, broken>> /\ Enter(c) /\ ~HasActive' /\ OnlyOne' /\ pc'[c] \in Deep
      BY <1>16, <2>1, NoneIsActive DEF Disconnect, Changing, Deep
    <2>3. NextFits(c)' /\ Alright(c)' /\ Intends(c)'
      BY <2>1, <2>2 DEF NextFits, Alright, Intends
    <2> QED
      BY <2>1, <2>2, <2>3, OneCall DEF Enter
  <1>17. ASSUME NEW c \in Call, Part(c) PROVE ChangeInv'
    <2>1. pc[c] = "parting" /\ pc'[c] = "idle" /\ Alone(c)
      BY <1>17, Ends DEF Part
    <2>2. /\ status' = "DISCONNECTED" /\ UNCHANGED <<active, overlapped, broken>>
          /\ pc[c] \in Changing
      BY <1>17, <2>1 DEF Part, Changing
    <2>3. NextFits(c)' /\ Alright(c)' /\ Intends(c)'
      BY <2>1 DEF NextFits, Alright, Intends
    <2>4. ~overlapped' => OnlyOne'
      BY <2>2 DEF ChangeInv, OnlyOne
    <2>5. ~Excused' => Agree'
      BY <2>1, <2>2 DEF ChangeInv, Excused, Intends, Agree, HasActive
    <2> QED
      BY <2>1, <2>2, <2>3, <2>4, <2>5, OneCall
  <1>18. ASSUME NEW c \in Call, Abandon(c) PROVE ChangeInv'
    <2>1. pc'[c] = "idle" /\ Alone(c)
      BY <1>18, Ends DEF Abandon
    <2>2. /\ UNCHANGED <<status, active, overlapped>>
          /\ broken' = (broken \/ pc[c] \in Deep)
      BY <1>18 DEF Abandon, Deep
    <2>3. NextFits(c)' /\ pc'[c] \notin Changing
      BY <2>1 DEF NextFits, Changing
    <2> QED
      BY <2>1, <2>2, <2>3, NoChange DEF Alone
  <1> QED
    BY <1>1, <1>2, <1>3, <1>4, <1>5, <1>6, <1>7, <1>8, <1>9, <1>10, <1>11, <1>12, <1>13, <1>14,
       <1>15, <1>16, <1>17, <1>18 DEF Next

LEMMA ChangeInvariant == Spec => []ChangeInv
  <1>1. Init => ChangeInv
    BY DEF Init, ChangeInv, NextFits, OnlyOne, Alright, Intends, Excused, AtRest, Agree, HasActive,
       Changing, Deep
  <1>2. ChangeInv /\ UNCHANGED vars => ChangeInv'
    BY DEF vars, rows, oauth, ChangeInv, NextFits, OnlyOne, Alright, Intends, Excused, AtRest,
       Agree, HasActive
  <1>3. IInv => TypeOK /\ JobType
    BY DEF IInv
  <1> QED
    BY <1>1, <1>2, <1>3, ChangeStep, Invariant, PTL DEF Spec

\* One row at most is active, and the status agrees when nobody is at work.
LEMMA ChangeImplies ==
    ASSUME TypeOK, ChangeInv
    PROVE  OneActive /\ StatusAgrees
  <1>1. OneActive
    <2> SUFFICES ASSUME ~overlapped PROVE Cardinality({r \in Credential : active[r]}) <= 1
      BY DEF OneActive
    <2>1. OnlyOne
      BY DEF ChangeInv
    <2>2. CASE {r \in Credential : active[r]} = {}
      BY <2>2, FS_EmptySet
    <2>3. CASE {r \in Credential : active[r]} # {}
      <3>1. PICK r \in Credential : active[r]
        BY <2>3
      <3>2. {x \in Credential : active[x]} = {r}
        BY <2>1, <3>1 DEF OnlyOne
      <3> QED
        BY <3>2, FS_Singleton
    <2> QED
      BY <2>2, <2>3
  <1>2. StatusAgrees
    BY DEF StatusAgrees, ChangeInv, Excused, AtRest, Deep, Agree
  <1> QED
    BY <1>1, <1>2

-----------------------------------------------------------------------------
(* How many calls are at a stage *)

\* Each instance has a Cardinality of its own, by the same definition.
LEMMA SameCounts ==
    \A S : /\ C!Cardinality(S) = Cardinality(S) /\ L!Cardinality(S) = Cardinality(S)
           /\ D!Cardinality(S) = Cardinality(S) /\ I!Cardinality(S) = Cardinality(S)
           /\ C!IsFiniteSet(S) <=> IsFiniteSet(S)
  <1>1. \A S : C!Cardinality(S) = Cardinality(S)
    BY DEF C!Cardinality, Cardinality
  <1>2. \A S : L!Cardinality(S) = Cardinality(S)
    BY DEF L!Cardinality, Cardinality
  <1>3. \A S : D!Cardinality(S) = Cardinality(S)
    BY DEF D!Cardinality, Cardinality
  <1>4. \A S : I!Cardinality(S) = Cardinality(S)
    BY DEF I!Cardinality, Cardinality
  <1>5. \A S : C!IsFiniteSet(S) <=> IsFiniteSet(S)
    BY DEF C!IsFiniteSet, IsFiniteSet
  <1> QED
    BY <1>1, <1>2, <1>3, <1>4, <1>5

LEMMA CallsFinite ==
    /\ IsFiniteSet(Call) /\ Cardinality(Call) \in Nat /\ Cardinality(Call) >= 1
    /\ \A S \in SUBSET Call : /\ IsFiniteSet(S) /\ Cardinality(S) \in Nat
                              /\ Cardinality(S) <= Cardinality(Call)
  <1>1. IsFiniteSet(Call) /\ Call # {}
    BY PartsAssumption, SameCounts DEF C!CouponsAssumption
  <1>2. Cardinality(Call) \in Nat /\ Cardinality(Call) # 0
    BY <1>1, FS_CardinalityType, FS_EmptySet
  <1>3. ASSUME NEW S \in SUBSET Call
        PROVE  IsFiniteSet(S) /\ Cardinality(S) \in Nat /\ Cardinality(S) <= Cardinality(Call)
    BY <1>1, FS_Subset, FS_CardinalityType
  <1> QED
    BY <1>1, <1>2, <1>3

\* A set of calls that changes by one call at most, counted again.
LEMMA Recount ==
    ASSUME NEW c \in Call, NEW S \in SUBSET Call, NEW T \in SUBSET Call,
           \A d \in Call \ {c} : d \in S <=> d \in T
    PROVE  /\ Cardinality(S) \in Nat /\ Cardinality(T) \in Nat
           /\ (c \in S <=> c \in T) => Cardinality(T) = Cardinality(S)
           /\ c \in S /\ c \notin T => Cardinality(T) = Cardinality(S) - 1
           /\ c \notin S /\ c \in T => Cardinality(T) = Cardinality(S) + 1
  <1>1. IsFiniteSet(S) /\ Cardinality(S) \in Nat /\ Cardinality(T) \in Nat
    BY CallsFinite
  <1>2. CASE c \in S <=> c \in T
    <2>1. S = T
      BY <1>2
    <2> QED
      BY <1>1, <1>2, <2>1
  <1>3. CASE c \in S /\ c \notin T
    <2>1. T = S \ {c}
      BY <1>3
    <2>2. Cardinality(T) = Cardinality(S) - 1
      BY <1>1, <1>3, <2>1, FS_RemoveElement
    <2> QED
      BY <1>1, <1>3, <2>2
  <1>4. CASE c \notin S /\ c \in T
    <2>1. T = S \cup {c}
      BY <1>4
    <2>2. Cardinality(T) = Cardinality(S) + 1
      BY <1>1, <1>4, <2>1, FS_AddElement
    <2> QED
      BY <1>1, <1>4, <2>2
  <1> QED
    BY <1>2, <1>3, <1>4

\* A finite set that gains or loses one element.
LEMMA Gains ==
    ASSUME NEW S, IsFiniteSet(S), NEW x, x \notin S, NEW T, T = S \cup {x}
    PROVE  /\ IsFiniteSet(T) /\ Cardinality(T) = Cardinality(S) + 1
           /\ Cardinality(S) \in Nat
  BY FS_AddElement, FS_CardinalityType

LEMMA Loses ==
    ASSUME NEW S, IsFiniteSet(S), NEW x \in S, NEW T, T = S \ {x}
    PROVE  /\ IsFiniteSet(T) /\ Cardinality(T) = Cardinality(S) - 1
           /\ Cardinality(S) \in Nat
  BY FS_RemoveElement, FS_CardinalityType

-----------------------------------------------------------------------------
(* Download links *)

DStage == {"idle", "issuing", "counting", "signing"}
Counted(t) == {c \in Call : deliveryPc[c] \in {"counting"} /\ deliveryJob[c] = t}
Signed(t) == {c \in Call : deliveryPc[c] \in {"signing"} /\ deliveryJob[c] = t}

DInv ==
    /\ D!TypeOK
    /\ \A c \in Call : deliveryPc[c] \in {"counting", "signing"} => deliveryJob[c] \in Token
    /\ D!DownloadsWithinCap

\* The call goes on, and the others stay where they are.
DTurns(c, stage, t) ==
    /\ deliveryPc' \in [Call -> DStage] /\ deliveryJob' \in [Call -> Token \cup {"none"}]
    /\ deliveryPc'[c] = stage /\ deliveryJob'[c] = t
    /\ \A d \in Call \ {c} : deliveryPc'[d] = deliveryPc[d] /\ deliveryJob'[d] = deliveryJob[d]

LEMMA DMoves ==
    ASSUME D!TypeOK, NEW c \in Call, NEW stage \in DStage, NEW t \in Token \cup {"none"},
           D!Goto(c, stage, t)
    PROVE  DTurns(c, stage, t)
  BY DEF D!TypeOK, D!Goto, D!NoToken, DStage, DTurns

LEMMA DEnds ==
    ASSUME D!TypeOK, NEW c \in Call, D!End(c)
    PROVE  DTurns(c, "idle", "none")
  BY DMoves DEF D!End, D!NoToken, DStage

Capped ==
    \A t \in Token :
        /\ urls[t] + Cardinality(Signed(t)) <= downloadCount[t]
        /\ downloadCount[t] + Cardinality(Counted(t)) < maxDownloads + Cardinality(Call)

LEMMA CapInSets == (D!DownloadsWithinCap <=> Capped) /\ (D!DownloadsWithinCap' <=> Capped')
  BY SameCounts DEF D!DownloadsWithinCap, D!InHand, Counted, Signed, Capped

\* Of the calls at work on a link, one at most is another than before.
LEMMA DRecount ==
    ASSUME NEW c \in Call, NEW stage, NEW x, DTurns(c, stage, x), NEW t \in Token
    PROVE  /\ Cardinality(Counted(t)) \in Nat /\ Cardinality(Signed(t)) \in Nat
           /\ Cardinality(Counted(t)') =
                Cardinality(Counted(t)) - (IF c \in Counted(t) THEN 1 ELSE 0)
                                        + (IF stage = "counting" /\ x = t THEN 1 ELSE 0)
           /\ Cardinality(Signed(t)') =
                Cardinality(Signed(t)) - (IF c \in Signed(t) THEN 1 ELSE 0)
                                       + (IF stage = "signing" /\ x = t THEN 1 ELSE 0)
  <1>1. /\ Counted(t) \in SUBSET Call /\ Counted(t)' \in SUBSET Call
        /\ \A d \in Call \ {c} : d \in Counted(t) <=> d \in Counted(t)'
        /\ c \in Counted(t)' <=> stage = "counting" /\ x = t
    BY DEF Counted, DTurns
  <1>2. /\ Signed(t) \in SUBSET Call /\ Signed(t)' \in SUBSET Call
        /\ \A d \in Call \ {c} : d \in Signed(t) <=> d \in Signed(t)'
        /\ c \in Signed(t)' <=> stage = "signing" /\ x = t
    BY DEF Signed, DTurns
  <1> QED
    BY <1>1, <1>2, Recount

LEMMA DStep == DInv /\ D!Next => DInv'
  <1> SUFFICES ASSUME DInv, D!Next PROVE DInv'
    OBVIOUS
  <1>0. /\ D!TypeOK /\ maxDownloads \in Nat /\ Cardinality(Call) \in Nat /\ Cardinality(Call) >= 1
        /\ \A t \in Token : downloadCount[t] \in Nat /\ urls[t] \in Nat
    BY PartsAssumption, CallsFinite DEF DInv, D!TypeOK, D!DeliveriesAssumption
  <1>1. \A t \in Token :
            /\ urls[t] + Cardinality(Signed(t)) <= downloadCount[t]
            /\ downloadCount[t] + Cardinality(Counted(t)) < maxDownloads + Cardinality(Call)
    BY CapInSets DEF DInv, Capped
  <1>2. ASSUME UNCHANGED <<downloadCount, urls, deliveryPc, deliveryJob>>, D!TypeOK' PROVE DInv'
    <2>1. \A t \in Token : Counted(t)' = Counted(t) /\ Signed(t)' = Signed(t)
      BY <1>2 DEF Counted, Signed
    <2>2. D!DownloadsWithinCap'
      BY <1>1, <1>2, <2>1, CapInSets DEF Capped
    <2> QED
      BY <1>2, <2>2 DEF DInv
  <1>3. CASE D!Revoke
    <2>1. D!TypeOK'
      BY <1>0, <1>3 DEF D!Revoke, D!TypeOK
    <2> QED
      BY <1>2, <1>3, <2>1 DEF D!Revoke
  <1>4. ASSUME NEW t \in Token, D!Expire(t) PROVE DInv'
    <2>1. D!TypeOK'
      BY <1>0, <1>4 DEF D!Expire, D!TypeOK
    <2> QED
      BY <1>2, <1>4, <2>1 DEF D!Expire
  \* A call that counts and signs nothing, and does not set out to.
  <1>5. ASSUME NEW c \in Call, NEW stage \in {"idle", "issuing"}, DTurns(c, stage, "none"),
               UNCHANGED <<downloadCount, urls>>, entitled' \in BOOLEAN,
               token' \in [Token -> {"none", "open", "expired"}]
        PROVE  DInv'
    <2>1. D!TypeOK'
      BY <1>0, <1>5 DEF D!TypeOK, DTurns, DStage, D!NoToken
    <2>2. ASSUME NEW t \in Token
          PROVE  /\ Cardinality(Counted(t)') <= Cardinality(Counted(t))
                 /\ Cardinality(Signed(t)') <= Cardinality(Signed(t))
                 /\ Cardinality(Counted(t)') \in Int /\ Cardinality(Signed(t)') \in Int
                 /\ Cardinality(Counted(t)) \in Nat /\ Cardinality(Signed(t)) \in Nat
      BY <1>5, DRecount
    <2>3. ASSUME NEW t \in Token
          PROVE  /\ urls'[t] + Cardinality(Signed(t)') <= downloadCount'[t]
                 /\ downloadCount'[t] + Cardinality(Counted(t)') < maxDownloads + Cardinality(Call)
      BY <1>0, <1>1, <1>5, <2>2
    <2>4. D!DownloadsWithinCap'
      BY <2>3, CapInSets DEF Capped
    <2> QED
      BY <1>5, <2>1, <2>4 DEF DInv, DTurns
  <1>6. ASSUME NEW c \in Call, D!BeginIssue(c) \/ D!Abandon(c) \/ (\E t \in Token : D!Issue(c, t))
        PROVE  DInv'
    <2>1. UNCHANGED <<downloadCount, urls>> /\ entitled' \in BOOLEAN
          /\ token' \in [Token -> {"none", "open", "expired"}]
      BY <1>0, <1>6 DEF D!BeginIssue, D!Abandon, D!Issue, D!TypeOK
    <2>2. \E stage \in {"idle", "issuing"} : DTurns(c, stage, "none")
      BY <1>0, <1>6, DEnds, DMoves DEF D!BeginIssue, D!Abandon, D!Issue, D!NoToken, DStage
    <2> QED
      BY <1>5, <2>1, <2>2
  <1>7. ASSUME NEW c \in Call, NEW t \in Token, D!BeginRedeem(c, t) PROVE DInv'
    <2>1. /\ DTurns(c, "counting", t) /\ UNCHANGED <<entitled, token, downloadCount, urls>>
          /\ deliveryPc[c] = "idle" /\ downloadCount[t] < maxDownloads
      BY <1>0, <1>7, DMoves DEF D!BeginRedeem, DStage
    <2>2. D!TypeOK'
      BY <1>0, <2>1 DEF D!TypeOK, DTurns, DStage, D!NoToken
    <2>3. ASSUME NEW x \in Token
          PROVE  /\ urls'[x] + Cardinality(Signed(x)') <= downloadCount'[x]
                 /\ downloadCount'[x] + Cardinality(Counted(x)') < maxDownloads + Cardinality(Call)
      <3>1. c \notin Counted(x) /\ c \notin Signed(x)
        BY <2>1 DEF Counted, Signed
      <3>2. Cardinality(Signed(x)') = Cardinality(Signed(x))
        BY <2>1, <3>1, DRecount
      <3>3. Counted(x)' \in SUBSET Call
        BY DEF Counted
      <3>4. Cardinality(Counted(x)') \in Nat /\ Cardinality(Counted(x)') <= Cardinality(Call)
        BY <3>3, CallsFinite
      <3>5. x # t => Cardinality(Counted(x)') = Cardinality(Counted(x))
        BY <2>1, <3>1, DRecount
      <3> QED
        BY <1>0, <1>1, <2>1, <3>2, <3>4, <3>5
    <2>4. D!DownloadsWithinCap'
      BY <2>3, CapInSets DEF Capped
    <2> QED
      BY <2>1, <2>2, <2>4 DEF DInv, DTurns
  <1>8. ASSUME NEW c \in Call, D!Count(c) PROVE DInv'
    <2> DEFINE t == deliveryJob[c]
    <2>1. t \in Token
      BY <1>8 DEF D!Count, DInv
    <2>2. /\ DTurns(c, "signing", t) /\ UNCHANGED <<entitled, token, urls>>
          /\ deliveryPc[c] = "counting"
          /\ downloadCount' = [downloadCount EXCEPT ![t] = @ + 1]
      BY <1>0, <1>8, <2>1, DMoves DEF D!Count, DStage
    <2>3. c \in Counted(t) /\ c \notin Signed(t)
      BY <2>2 DEF Counted, Signed
    <2>4. \A x \in Token \ {t} : c \notin Counted(x) /\ c \notin Signed(x)
      BY DEF Counted, Signed
    <2> HIDE DEF t
    <2>5. D!TypeOK'
      <3>1. downloadCount' \in [Token -> Nat]
        BY <1>0, <2>1, <2>2 DEF D!TypeOK
      <3> QED
        BY <1>0, <2>2, <3>1 DEF D!TypeOK, DTurns, DStage, D!NoToken
    <2>6. ASSUME NEW x \in Token
          PROVE  /\ urls'[x] + Cardinality(Signed(x)') <= downloadCount'[x]
                 /\ downloadCount'[x] + Cardinality(Counted(x)') < maxDownloads + Cardinality(Call)
      <3>0. Cardinality(Counted(x)) \in Nat /\ Cardinality(Signed(x)) \in Nat
        BY <2>2, DRecount
      <3>1. CASE x = t
        <4>1. Cardinality(Signed(x)') = Cardinality(Signed(x)) + 1
          BY <2>2, <2>3, <3>1, DRecount
        <4>2. Cardinality(Counted(x)') = Cardinality(Counted(x)) - 1
          BY <2>2, <2>3, <3>1, DRecount
        <4>3. downloadCount'[x] = downloadCount[x] + 1
          BY <1>0, <2>2, <3>1 DEF D!TypeOK
        <4> QED
          BY <1>0, <1>1, <2>2, <3>0, <4>1, <4>2, <4>3
      <3>2. CASE x # t
        <4>1. Cardinality(Signed(x)') = Cardinality(Signed(x))
          BY <2>2, <2>4, <3>2, DRecount
        <4>2. Cardinality(Counted(x)') = Cardinality(Counted(x))
          BY <2>2, <2>4, <3>2, DRecount
        <4>3. downloadCount'[x] = downloadCount[x]
          BY <1>0, <2>2, <3>2 DEF D!TypeOK
        <4> QED
          BY <1>0, <1>1, <2>2, <4>1, <4>2, <4>3
      <3> QED
        BY <3>1, <3>2
    <2>7. D!DownloadsWithinCap'
      BY <2>6, CapInSets DEF Capped
    <2> QED
      BY <2>1, <2>2, <2>5, <2>7 DEF DInv, DTurns
  <1>9. ASSUME NEW c \in Call, D!Sign(c) PROVE DInv'
    <2> DEFINE t == deliveryJob[c]
    <2>1. t \in Token
      BY <1>9 DEF D!Sign, DInv
    <2>2. /\ DTurns(c, "idle", "none") /\ UNCHANGED <<entitled, token, downloadCount>>
          /\ deliveryPc[c] = "signing"
          /\ urls' = [urls EXCEPT ![t] = @ + 1]
      BY <1>0, <1>9, <2>1, DEnds DEF D!Sign
    <2>3. c \notin Counted(t) /\ c \in Signed(t)
      BY <2>2 DEF Counted, Signed
    <2>4. \A x \in Token \ {t} : c \notin Counted(x) /\ c \notin Signed(x)
      BY DEF Counted, Signed
    <2> HIDE DEF t
    <2>5. D!TypeOK'
      <3>1. urls' \in [Token -> Nat]
        BY <1>0, <2>1, <2>2 DEF D!TypeOK
      <3> QED
        BY <1>0, <2>2, <3>1 DEF D!TypeOK, DTurns, DStage, D!NoToken
    <2>6. ASSUME NEW x \in Token
          PROVE  /\ urls'[x] + Cardinality(Signed(x)') <= downloadCount'[x]
                 /\ downloadCount'[x] + Cardinality(Counted(x)') < maxDownloads + Cardinality(Call)
      <3>0. Cardinality(Counted(x)) \in Nat /\ Cardinality(Signed(x)) \in Nat
        BY <2>2, DRecount
      <3>1. CASE x = t
        <4>1. Cardinality(Signed(x)') = Cardinality(Signed(x)) - 1
          BY <2>2, <2>3, <3>1, DRecount
        <4>2. Cardinality(Counted(x)') = Cardinality(Counted(x))
          BY <2>2, <2>3, <3>1, DRecount
        <4>3. urls'[x] = urls[x] + 1
          BY <1>0, <2>2, <3>1 DEF D!TypeOK
        <4> QED
          BY <1>0, <1>1, <2>2, <3>0, <4>1, <4>2, <4>3
      <3>2. CASE x # t
        <4>1. Cardinality(Signed(x)') = Cardinality(Signed(x))
          BY <2>2, <2>4, <3>2, DRecount
        <4>2. Cardinality(Counted(x)') = Cardinality(Counted(x))
          BY <2>2, <2>4, <3>2, DRecount
        <4>3. urls'[x] = urls[x]
          BY <1>0, <2>2, <3>2 DEF D!TypeOK
        <4> QED
          BY <1>0, <1>1, <2>2, <4>1, <4>2, <4>3
      <3> QED
        BY <3>1, <3>2
    <2>7. D!DownloadsWithinCap'
      BY <2>6, CapInSets DEF Capped
    <2> QED
      BY <2>2, <2>5, <2>7 DEF DInv, DTurns
  <1> QED
    BY <1>3, <1>4, <1>6, <1>7, <1>8, <1>9 DEF D!Next

LEMMA DInvariant == D!Spec => []DInv
  <1>1. D!Init => DInv
    <2> SUFFICES ASSUME D!Init PROVE DInv
      OBVIOUS
    <2>1. maxDownloads \in Nat /\ Cardinality(Call) \in Nat /\ Cardinality(Call) >= 1
      BY PartsAssumption, CallsFinite DEF D!DeliveriesAssumption
    <2>2. \A t \in Token : Counted(t) = {} /\ Signed(t) = {}
      BY DEF D!Init, Counted, Signed
    <2>3. D!TypeOK
      BY DEF D!Init, D!TypeOK, D!NoToken
    <2>4. \A t \in Token : urls[t] = 0 /\ downloadCount[t] = 0
      BY DEF D!Init
    <2>5. \A t \in Token : Cardinality(Counted(t)) = 0 /\ Cardinality(Signed(t)) = 0
      BY <2>2, FS_EmptySet
    <2>6. 0 + 0 <= 0 /\ 0 + 0 < maxDownloads + Cardinality(Call)
      BY <2>1
    <2>7. D!DownloadsWithinCap
      BY <2>4, <2>5, <2>6, CapInSets DEF Capped
    <2> QED
      BY <2>3, <2>7 DEF D!Init, DInv
  <1>2. DInv /\ UNCHANGED D!vars => DInv'
    BY DEF D!vars, DInv, D!TypeOK, D!DownloadsWithinCap, D!InHand
  <1> QED
    BY <1>1, <1>2, DStep, PTL DEF D!Spec

-----------------------------------------------------------------------------
(* Requests with an Idempotency-Key *)

IStage == {"idle", "running", "recording"}
IJob == [key : Key \cup {"none"}, body : Body \cup {"none"}]
HasKey(c, k) == requestPc[c] # "idle" /\ requestJob[c].key = k

\* Two requests under one key are what unsettled notes; one that is alone on a settled
\* key runs its operation first and records it before it ends.
RequestInv ==
    /\ \A c \in Call : requestPc[c] # "idle" => requestJob[c].key \in Key /\ requestJob[c].body \in Body
    /\ \A c \in Call : requestPc[c] = "recording" => requestJob[c].body \in ranFor[requestJob[c].key]
    /\ \A k \in Key : record[k] # "none" => record[k] \in ranFor[k]
    /\ \A k \in Key \ unsettled :
        /\ \A c, d \in Call : HasKey(c, k) /\ HasKey(d, k) => c = d
        /\ \A c \in Call : HasKey(c, k) /\ requestPc[c] = "running" => ran[k] = 0
        /\ \/ ran[k] = 0 /\ ranFor[k] = {}
           \/ /\ ran[k] = 1 /\ \E b \in Body : ranFor[k] = {b}
              /\ record[k] = "none" => \E c \in Call : HasKey(c, k) /\ requestPc[c] = "recording"

ReqInv == I!TypeOK /\ RequestInv

\* The call goes on, and the others stay where they are.
ITurns(c, stage, work) ==
    /\ requestPc' \in [Call -> IStage] /\ requestJob' \in [Call -> IJob]
    /\ requestPc'[c] = stage /\ requestJob'[c] = work
    /\ \A d \in Call \ {c} : requestPc'[d] = requestPc[d] /\ requestJob'[d] = requestJob[d]

LEMMA IMoves ==
    ASSUME I!TypeOK, NEW c \in Call, NEW stage \in IStage, NEW work \in IJob,
           I!Goto(c, stage, work)
    PROVE  ITurns(c, stage, work)
  BY DEF I!TypeOK, I!Goto, I!Free, IStage, IJob, ITurns

LEMMA IEnds ==
    ASSUME I!TypeOK, NEW c \in Call, I!End(c)
    PROVE  ITurns(c, "idle", I!NoJob)
  <1>1. I!NoJob \in IJob
    BY DEF I!NoJob, I!Free, IJob
  <1> QED
    BY <1>1, IMoves DEF I!End, IStage

LEMMA IStep == ReqInv /\ I!Next => ReqInv'
  <1> SUFFICES ASSUME ReqInv, I!Next PROVE ReqInv'
    OBVIOUS
  <1>0. I!TypeOK /\ RequestInv /\ "none" \notin Body
    BY PartsAssumption DEF ReqInv, I!IdempotencyAssumption, I!Free
  <1>1. ASSUME NEW c \in Call, NEW k \in Key, NEW b \in Body, I!FindRecord(c, k, b)
        PROVE  ReqInv'
    <2> DEFINE work == [key |-> k, body |-> b]
    <2>1. work \in IJob /\ work.key = k /\ work.body = b
      BY DEF IJob
    <2>2. ITurns(c, "running", work)
      BY <1>0, <1>1, <2>1, IMoves DEF I!FindRecord, IStage
    <2> HIDE DEF work
    <2>3. /\ requestPc[c] = "idle" /\ record[k] = "none" /\ UNCHANGED <<record, ran, ranFor>>
          /\ unsettled \subseteq unsettled' /\ unsettled' \subseteq Key
          /\ k \notin unsettled' => \A d \in Call : ~HasKey(d, k)
      BY <1>0, <1>1 DEF I!FindRecord, I!Free, I!TypeOK, HasKey
    <2>4. I!TypeOK'
      BY <1>0, <2>2, <2>3 DEF I!TypeOK, ITurns, IStage, IJob, I!Free
    <2>5. \A d \in Call, x \in Key : HasKey(d, x)' <=> IF d = c THEN x = k ELSE HasKey(d, x)
      BY <2>1, <2>2 DEF HasKey, ITurns
    <2>6. \A x \in Key, d \in Call : HasKey(d, x) => d # c
      BY <2>3 DEF HasKey
    <2>7. \A d \in Call : requestPc'[d] = IF d = c THEN "running" ELSE requestPc[d]
      BY <2>2 DEF ITurns
    <2>8. ASSUME NEW x \in Key \ unsettled'
          PROVE  /\ \A d, e \in Call : HasKey(d, x)' /\ HasKey(e, x)' => d = e
                 /\ \A d \in Call : HasKey(d, x)' /\ requestPc'[d] = "running" => ran[x] = 0
                 /\ \/ ran[x] = 0 /\ ranFor[x] = {}
                    \/ /\ ran[x] = 1 /\ \E y \in Body : ranFor[x] = {y}
                       /\ record[x] = "none" =>
                            \E d \in Call : HasKey(d, x)' /\ requestPc'[d] = "recording"
      <3>0. x \in Key \ unsettled
        BY <2>3
      <3>1. CASE x = k
        <4>1. \A d \in Call : ~HasKey(d, k)
          BY <2>3, <2>8, <3>1
        <4>2. ran[k] = 0 /\ ranFor[k] = {}
          BY <1>0, <2>3, <3>0, <3>1, <4>1 DEF RequestInv
        <4> QED
          BY <2>5, <3>1, <4>1, <4>2
      <3>2. CASE x # k
        <4>1. \A d \in Call : HasKey(d, x)' <=> HasKey(d, x)
          BY <2>5, <2>6, <3>2
        <4>2. \A d \in Call : HasKey(d, x) => requestPc'[d] = requestPc[d]
          BY <2>6, <2>7
        <4> QED
          BY <1>0, <3>0, <4>1, <4>2 DEF RequestInv
      <3> QED
        BY <3>1, <3>2
    <2>9. \A d \in Call : requestPc'[d] # "idle" => requestJob'[d].key \in Key /\ requestJob'[d].body \in Body
      BY <1>0, <2>1, <2>2 DEF RequestInv, ITurns
    <2>10. \A d \in Call : requestPc'[d] = "recording" => requestJob'[d].body \in ranFor[requestJob'[d].key]
      BY <1>0, <2>2 DEF RequestInv, ITurns
    <2> QED
      BY <1>0, <2>3, <2>4, <2>8, <2>9, <2>10 DEF ReqInv, RequestInv
  <1>2. ASSUME NEW c \in Call, I!Run(c) PROVE ReqInv'
    <2>0. PICK work \in IJob : requestJob[c] = work
      BY <1>0 DEF I!TypeOK, IJob, I!Free
    <2>1. PICK k \in Key, b \in Body : work.key = k /\ work.body = b
      BY <1>0, <1>2, <2>0 DEF I!Run, RequestInv
    <2>2. ITurns(c, "recording", work) /\ requestPc[c] = "running" /\ UNCHANGED <<record, unsettled>>
      BY <1>0, <1>2, <2>0, IMoves DEF I!Run, IStage
    <2>3. ran' = [ran EXCEPT ![k] = @ + 1] /\ ranFor' = [ranFor EXCEPT ![k] = @ \cup {b}]
      BY <1>2, <2>0, <2>1 DEF I!Run
    <2>4. /\ ran[k] \in Nat /\ ran'[k] = ran[k] + 1 /\ ranFor'[k] = ranFor[k] \cup {b}
          /\ \A x \in Key \ {k} : ran'[x] = ran[x] /\ ranFor'[x] = ranFor[x]
      BY <1>0, <2>3 DEF I!TypeOK
    <2>5. I!TypeOK'
      <3>1. ran' \in [Key -> Nat]
        BY <1>0, <2>3 DEF I!TypeOK
      <3>2. ranFor' \in [Key -> SUBSET Body]
        BY <1>0, <2>3 DEF I!TypeOK
      <3> QED
        BY <1>0, <2>2, <3>1, <3>2 DEF I!TypeOK, ITurns, IStage, IJob, I!Free
    <2>6. HasKey(c, k)
      BY <2>0, <2>1, <2>2 DEF HasKey
    <2>7. \A d \in Call, x \in Key : HasKey(d, x)' <=> HasKey(d, x)
      BY <2>0, <2>2 DEF HasKey, ITurns
    <2>8. \A d \in Call : requestPc'[d] = (IF d = c THEN "recording" ELSE requestPc[d])
                          /\ requestJob'[d] = requestJob[d]
      BY <2>0, <2>2 DEF ITurns
    <2>9. ASSUME NEW x \in Key \ unsettled
          PROVE  /\ \A d, e \in Call : HasKey(d, x)' /\ HasKey(e, x)' => d = e
                 /\ \A d \in Call : HasKey(d, x)' /\ requestPc'[d] = "running" => ran'[x] = 0
                 /\ \/ ran'[x] = 0 /\ ranFor'[x] = {}
                    \/ /\ ran'[x] = 1 /\ \E y \in Body : ranFor'[x] = {y}
                       /\ record[x] = "none" =>
                            \E d \in Call : HasKey(d, x)' /\ requestPc'[d] = "recording"
      <3>1. CASE x = k
        <4>1. \A d \in Call : HasKey(d, k) => d = c
          BY <1>0, <2>6, <2>9, <3>1 DEF RequestInv
        <4>2. ran[k] = 0
          BY <1>0, <2>2, <2>6, <2>9, <3>1 DEF RequestInv
        <4>3. ranFor[k] = {}
          BY <1>0, <2>9, <3>1, <4>2 DEF RequestInv
        <4>4. ran'[k] = 1 /\ ranFor'[k] = {b}
          BY <2>4, <4>2, <4>3
        <4> QED
          BY <2>6, <2>7, <2>8, <3>1, <4>1, <4>4
      <3>2. CASE x # k
        <4>1. \A d \in Call : HasKey(d, x) => d # c
          BY <2>6, <3>2 DEF HasKey
        <4>2. \A d \in Call : HasKey(d, x) => requestPc'[d] = requestPc[d]
          BY <2>8, <4>1
        <4>3. ran'[x] = ran[x] /\ ranFor'[x] = ranFor[x]
          BY <2>4, <3>2
        <4> QED
          BY <1>0, <2>7, <2>9, <4>2, <4>3 DEF RequestInv
      <3> QED
        BY <3>1, <3>2
    <2>10. \A d \in Call : requestPc'[d] # "idle" => requestJob'[d].key \in Key /\ requestJob'[d].body \in Body
      BY <1>0, <2>2, <2>8 DEF RequestInv
    <2>11. \A x \in Key : ranFor[x] \subseteq ranFor'[x]
      BY <2>4
    <2>12. \A d \in Call : requestPc'[d] = "recording" => requestJob'[d].body \in ranFor'[requestJob'[d].key]
      <3>1. requestJob'[c].body \in ranFor'[requestJob'[c].key]
        BY <2>0, <2>1, <2>4, <2>8
      <3>2. ASSUME NEW d \in Call \ {c}, requestPc'[d] = "recording"
            PROVE  requestJob'[d].body \in ranFor'[requestJob'[d].key]
        <4>1. requestPc[d] = "recording" /\ requestJob'[d] = requestJob[d]
          BY <2>8, <3>2
        <4>2. requestJob[d].key \in Key /\ requestJob[d].body \in ranFor[requestJob[d].key]
          BY <1>0, <4>1 DEF RequestInv
        <4> QED
          BY <2>11, <4>1, <4>2
      <3> QED
        BY <3>1, <3>2
    <2>13. \A x \in Key : record'[x] # "none" => record'[x] \in ranFor'[x]
      BY <1>0, <2>2, <2>11 DEF RequestInv
    <2> QED
      BY <2>2, <2>5, <2>9, <2>10, <2>12, <2>13 DEF ReqInv, RequestInv
  \* A call ends: on a settled key it had not run its operation, or records it.
  <1>3. ASSUME NEW c \in Call, ITurns(c, "idle", I!NoJob), requestPc[c] # "idle",
               UNCHANGED <<ran, ranFor>>, unsettled \subseteq unsettled', unsettled' \subseteq Key,
               record' \in [Key -> Body \cup {"none"}],
               \A x \in Key : \/ record'[x] = record[x]
                              \/ record[x] = "none" /\ record'[x] \in ranFor[x],
               \A x \in Key \ unsettled' :
                    requestPc[c] = "recording" /\ HasKey(c, x) => record'[x] # "none"
        PROVE  ReqInv'
    <2>1. I!TypeOK'
      BY <1>0, <1>3 DEF I!TypeOK, ITurns, IStage, IJob, I!Free
    <2>2. \A d \in Call, x \in Key : HasKey(d, x)' <=> (d # c /\ HasKey(d, x))
      BY <1>3 DEF HasKey, ITurns
    <2>3. \A d \in Call \ {c} : requestPc'[d] = requestPc[d] /\ requestJob'[d] = requestJob[d]
      BY <1>3 DEF ITurns
    <2>4. requestPc'[c] = "idle"
      BY <1>3 DEF ITurns
    <2>5. ASSUME NEW x \in Key \ unsettled'
          PROVE  /\ \A d, e \in Call : HasKey(d, x)' /\ HasKey(e, x)' => d = e
                 /\ \A d \in Call : HasKey(d, x)' /\ requestPc'[d] = "running" => ran[x] = 0
                 /\ \/ ran[x] = 0 /\ ranFor[x] = {}
                    \/ /\ ran[x] = 1 /\ \E y \in Body : ranFor[x] = {y}
                       /\ record'[x] = "none" =>
                            \E d \in Call : HasKey(d, x)' /\ requestPc'[d] = "recording"
      <3>0. x \in Key \ unsettled
        BY <1>3
      <3>1. /\ \A d, e \in Call : HasKey(d, x)' /\ HasKey(e, x)' => d = e
            /\ \A d \in Call : HasKey(d, x)' /\ requestPc'[d] = "running" => ran[x] = 0
        BY <1>0, <2>2, <2>3, <3>0 DEF RequestInv
      <3>2. ASSUME ran[x] # 0, record'[x] = "none"
            PROVE  \E d \in Call : HasKey(d, x)' /\ requestPc'[d] = "recording"
        <4>1. record[x] = "none"
          BY <1>3, <3>2
        <4>2. PICK d \in Call : HasKey(d, x) /\ requestPc[d] = "recording"
          BY <1>0, <3>0, <3>2, <4>1 DEF RequestInv
        <4>3. d # c
          BY <1>3, <2>5, <3>2, <4>2
        <4> QED
          BY <2>2, <2>3, <4>2, <4>3
      <3> QED
        BY <1>0, <3>0, <3>1, <3>2 DEF RequestInv
    <2>6. \A d \in Call : requestPc'[d] # "idle" => requestJob'[d].key \in Key /\ requestJob'[d].body \in Body
      BY <1>0, <2>3, <2>4 DEF RequestInv
    <2>7. \A d \in Call : requestPc'[d] = "recording" => requestJob'[d].body \in ranFor[requestJob'[d].key]
      BY <1>0, <2>3, <2>4 DEF RequestInv
    <2>8. \A x \in Key : record'[x] # "none" => record'[x] \in ranFor[x]
      BY <1>0, <1>3 DEF RequestInv
    <2> QED
      BY <1>3, <2>1, <2>5, <2>6, <2>7, <2>8 DEF ReqInv, RequestInv
  <1>4. ASSUME NEW c \in Call, I!Record(c) PROVE ReqInv'
    <2>0. PICK work \in IJob : requestJob[c] = work
      BY <1>0 DEF I!TypeOK, IJob, I!Free
    <2>1. PICK k \in Key, b \in Body : work.key = k /\ work.body = b /\ b \in ranFor[k]
      BY <1>0, <1>4, <2>0 DEF I!Record, RequestInv
    <2>2. /\ ITurns(c, "idle", I!NoJob) /\ requestPc[c] = "recording"
          /\ UNCHANGED <<ran, ranFor, unsettled>>
          /\ record' = [record EXCEPT ![k] = IF record[k] = "none" THEN b ELSE record[k]]
      BY <1>0, <1>4, <2>0, <2>1, IEnds DEF I!Record, I!Free
    <2>3. record \in [Key -> Body \cup {"none"}] /\ unsettled \subseteq Key
      BY <1>0 DEF I!TypeOK, I!Free
    <2>4. record' \in [Key -> Body \cup {"none"}]
      BY <2>2, <2>3
    <2>5. \A x \in Key : \/ record'[x] = record[x]
                         \/ record[x] = "none" /\ record'[x] \in ranFor[x]
      BY <2>1, <2>2, <2>3
    <2>6. record'[k] # "none"
      BY <1>0, <2>2, <2>3
    <2>7. \A x \in Key : HasKey(c, x) => x = k
      BY <2>0, <2>1 DEF HasKey
    <2> QED
      BY <1>3, <2>2, <2>3, <2>4, <2>5, <2>6, <2>7
  <1>5. ASSUME NEW c \in Call, I!Abandon(c) PROVE ReqInv'
    <2>1. /\ ITurns(c, "idle", I!NoJob) /\ requestPc[c] # "idle" /\ UNCHANGED <<record, ran, ranFor>>
          /\ unsettled' = IF requestPc[c] = "recording"
                          THEN unsettled \cup {requestJob[c].key} ELSE unsettled
      BY <1>0, <1>5, IEnds DEF I!Abandon
    <2>2. requestJob[c].key \in Key /\ unsettled \subseteq Key /\ record \in [Key -> Body \cup {"none"}]
      BY <1>0, <2>1 DEF RequestInv, I!TypeOK, I!Free
    <2>3. \A x \in Key \ unsettled' : ~(requestPc[c] = "recording" /\ HasKey(c, x))
      BY <2>1 DEF HasKey
    <2> QED
      BY <1>3, <2>1, <2>2, <2>3
  <1> QED
    BY <1>1, <1>2, <1>4, <1>5 DEF I!Next

LEMMA IInvariant == I!Spec => []ReqInv
  <1>1. I!Init => ReqInv
    <2> SUFFICES ASSUME I!Init PROVE ReqInv
      OBVIOUS
    <2>1. I!NoJob \in IJob
      BY DEF I!NoJob, I!Free, IJob
    <2>2. I!TypeOK
      BY <2>1 DEF I!Init, I!TypeOK, I!Free, IJob
    <2>3. RequestInv
      BY DEF I!Init, RequestInv, HasKey, I!Free
    <2> QED
      BY <2>2, <2>3 DEF ReqInv
  <1>2. ReqInv /\ UNCHANGED I!vars => ReqInv'
    BY DEF I!vars, ReqInv, I!TypeOK, RequestInv, HasKey
  <1> QED
    BY <1>1, <1>2, IStep, PTL DEF I!Spec

LEMMA RunsAreOnce == ReqInv => I!RunsOnce
  <1> SUFFICES ASSUME ReqInv, NEW k \in Key
               PROVE  /\ k \notin unsettled => ran[k] <= 1 /\ Cardinality(ranFor[k]) <= 1
                      /\ record[k] # "none" => record[k] \in ranFor[k]
    BY SameCounts DEF I!RunsOnce, I!Free
  <1>1. ASSUME k \notin unsettled
        PROVE  ran[k] <= 1 /\ Cardinality(ranFor[k]) <= 1
    <2>1. CASE ran[k] = 0 /\ ranFor[k] = {}
      BY <2>1, FS_EmptySet
    <2>2. CASE ran[k] = 1 /\ \E b \in Body : ranFor[k] = {b}
      BY <2>2, FS_Singleton
    <2> QED
      BY <1>1, <2>1, <2>2 DEF ReqInv, RequestInv
  <1> QED
    BY <1>1 DEF ReqInv, RequestInv

-----------------------------------------------------------------------------
(* Licence keys *)

LStage == {"idle", "looking", "activating", "counting", "deactivating", "uncounting"}
Growing == {"looking", "activating", "counting"}
InUse == {d \in Device : activation[d] = "active"}
Doing(stages) == {c \in Call : licencePc[c] \in stages}

CountAgrees == drifted \/ activationCount = Cardinality(InUse) - Cardinality(Doing({"counting"}))
                                            + Cardinality(Doing({"uncounting"}))
RoomLeft == activationCount + Cardinality(Doing(Growing)) < activationLimit + Cardinality(Call)

\* A device that a call is about to deactivate is active, and no other call is about to,
\* unless drifted notes it.
LicenceInv ==
    /\ \A c \in Call : licencePc[c] # "idle" => licenceJob[c] \in Device
    /\ IsFiniteSet(InUse)
    /\ \A c \in Call : licencePc[c] = "deactivating" => drifted \/ activation[licenceJob[c]] = "active"
    /\ \A c, d \in Call :
        licencePc[c] = "deactivating" /\ licencePc[d] = "deactivating" /\ licenceJob[c] = licenceJob[d]
            => c = d \/ drifted
    /\ CountAgrees
    /\ RoomLeft

LInv == L!TypeOK /\ LicenceInv

LTurns(c, stage, x) ==
    /\ licencePc' \in [Call -> LStage] /\ licenceJob' \in [Call -> Device \cup {"none"}]
    /\ licencePc'[c] = stage /\ licenceJob'[c] = x
    /\ \A d \in Call \ {c} : licencePc'[d] = licencePc[d] /\ licenceJob'[d] = licenceJob[d]

LEMMA LMoves ==
    ASSUME L!TypeOK, NEW c \in Call, NEW stage \in LStage, NEW x \in Device \cup {"none"},
           L!Goto(c, stage, x)
    PROVE  LTurns(c, stage, x)
  BY DEF L!TypeOK, L!Goto, L!NoDevice, L!Stage, LStage, LTurns

LEMMA LEnds ==
    ASSUME L!TypeOK, NEW c \in Call, L!End(c)
    PROVE  LTurns(c, "idle", "none")
  BY LMoves DEF L!End, L!NoDevice, LStage

LEMMA LRecount ==
    ASSUME NEW c \in Call, NEW stage, NEW x, LTurns(c, stage, x), NEW stages
    PROVE  /\ Cardinality(Doing(stages)) \in Nat /\ Cardinality(Doing(stages)') \in Nat
           /\ Cardinality(Doing(stages)') =
                Cardinality(Doing(stages)) - (IF licencePc[c] \in stages THEN 1 ELSE 0)
                                           + (IF stage \in stages THEN 1 ELSE 0)
  <1>1. /\ Doing(stages) \in SUBSET Call /\ Doing(stages)' \in SUBSET Call
        /\ \A d \in Call \ {c} : d \in Doing(stages) <=> d \in Doing(stages)'
        /\ c \in Doing(stages) <=> licencePc[c] \in stages
        /\ c \in Doing(stages)' <=> stage \in stages
    BY DEF Doing, LTurns
  <1> QED
    BY <1>1, Recount

\* The three numbers of calls that the invariant speaks of, after a call has moved.
LEMMA LCounts ==
    ASSUME NEW c \in Call, NEW stage, NEW x, LTurns(c, stage, x)
    PROVE  /\ \A s \in {{"counting"}, {"uncounting"}, Growing} :
                Cardinality(Doing(s)) \in Nat /\ Cardinality(Doing(s)') \in Nat
           /\ Cardinality(Doing({"counting"})') = Cardinality(Doing({"counting"}))
                - (IF licencePc[c] = "counting" THEN 1 ELSE 0) + (IF stage = "counting" THEN 1 ELSE 0)
           /\ Cardinality(Doing({"uncounting"})') = Cardinality(Doing({"uncounting"}))
                - (IF licencePc[c] = "uncounting" THEN 1 ELSE 0) + (IF stage = "uncounting" THEN 1 ELSE 0)
           /\ Cardinality(Doing(Growing)') = Cardinality(Doing(Growing))
                - (IF licencePc[c] \in Growing THEN 1 ELSE 0) + (IF stage \in Growing THEN 1 ELSE 0)
  <1>1. Cardinality(Doing({"counting"})') = Cardinality(Doing({"counting"}))
            - (IF licencePc[c] = "counting" THEN 1 ELSE 0) + (IF stage = "counting" THEN 1 ELSE 0)
    BY LRecount
  <1>2. Cardinality(Doing({"uncounting"})') = Cardinality(Doing({"uncounting"}))
            - (IF licencePc[c] = "uncounting" THEN 1 ELSE 0) + (IF stage = "uncounting" THEN 1 ELSE 0)
    BY LRecount
  <1>3. Cardinality(Doing(Growing)') = Cardinality(Doing(Growing))
            - (IF licencePc[c] \in Growing THEN 1 ELSE 0) + (IF stage \in Growing THEN 1 ELSE 0)
    BY LRecount
  <1>4. \A s \in {{"counting"}, {"uncounting"}, Growing} :
            Cardinality(Doing(s)) \in Nat /\ Cardinality(Doing(s)') \in Nat
    BY LRecount
  <1> QED
    BY <1>1, <1>2, <1>3, <1>4

LEMMA LStep == LInv /\ L!Next => LInv'
  <1> SUFFICES ASSUME LInv, L!Next PROVE LInv'
    OBVIOUS
  <1>0. /\ L!TypeOK /\ LicenceInv /\ activationCount \in Int /\ activationLimit \in Nat
        /\ Cardinality(Call) \in Nat /\ Cardinality(InUse) \in Nat
        /\ drifted \in BOOLEAN
    BY PartsAssumption, CallsFinite, FS_CardinalityType
       DEF LInv, LicenceInv, L!TypeOK, L!LicenceKeysAssumption
  <1>1. CASE L!Revoke
    <2>1. UNCHANGED <<activationCount, activation, drifted, licencePc, licenceJob>> /\ licence' = "REVOKED"
      BY <1>1 DEF L!Revoke
    <2>2. L!TypeOK'
      BY <1>0, <2>1 DEF L!TypeOK
    <2>3. InUse' = InUse /\ \A s : Doing(s)' = Doing(s)
      BY <2>1 DEF InUse, Doing
    <2>4. CountAgrees' /\ RoomLeft'
      BY <1>0, <2>1, <2>3 DEF LicenceInv, CountAgrees, RoomLeft
    <2> QED
      BY <1>0, <2>1, <2>2, <2>3, <2>4 DEF LInv, LicenceInv
  \* What a step leaves to show: the numbers, and what the call that moves holds.
  <1>2. ASSUME NEW c \in Call, NEW stage, NEW x, LTurns(c, stage, x),
               stage # "idle" => x \in Device,
               stage = "deactivating" => /\ activation'[x] = "active"
                                         /\ \A d \in Call : licencePc[d] = "deactivating" /\ licenceJob[d] = x
                                                               => drifted',
               \A d \in Call \ {c} : licencePc[d] = "deactivating" /\ activation[licenceJob[d]] = "active"
                                        => drifted' \/ activation'[licenceJob[d]] = "active",
               drifted => drifted', L!TypeOK', IsFiniteSet(InUse'), CountAgrees', RoomLeft'
        PROVE  LInv'
    <2>1. \A d \in Call \ {c} : licencePc'[d] = licencePc[d] /\ licenceJob'[d] = licenceJob[d]
      BY <1>2 DEF LTurns
    <2>2. licencePc'[c] = stage /\ licenceJob'[c] = x
      BY <1>2 DEF LTurns
    <2>3. \A d \in Call : licencePc'[d] # "idle" => licenceJob'[d] \in Device
      BY <1>0, <1>2, <2>1, <2>2 DEF LicenceInv
    <2>4. ASSUME NEW d \in Call, licencePc'[d] = "deactivating"
          PROVE  drifted' \/ activation'[licenceJob'[d]] = "active"
      <3>1. CASE d = c
        BY <1>2, <2>2, <2>4, <3>1
      <3>2. CASE d # c
        BY <1>0, <1>2, <2>1, <2>4, <3>2 DEF LicenceInv
      <3> QED
        BY <3>1, <3>2
    <2>5. ASSUME NEW d \in Call, NEW e \in Call, licencePc'[d] = "deactivating",
                 licencePc'[e] = "deactivating", licenceJob'[d] = licenceJob'[e], d # e
          PROVE  drifted'
      <3>1. CASE d = c
        BY <1>2, <2>1, <2>2, <2>5, <3>1
      <3>2. CASE e = c
        BY <1>2, <2>1, <2>2, <2>5, <3>2
      <3>3. CASE d # c /\ e # c
        BY <1>0, <1>2, <2>1, <2>5, <3>3 DEF LicenceInv
      <3> QED
        BY <3>1, <3>2, <3>3
    <2>6. LicenceInv'
      BY <1>2, <2>3, <2>4, <2>5 DEF LicenceInv
    <2> QED
      BY <1>2, <2>6 DEF LInv
  <1>3. ASSUME UNCHANGED activation
        PROVE  InUse' = InUse /\ IsFiniteSet(InUse') /\ activation' = activation
    BY <1>0, <1>3 DEF InUse, LicenceInv
  <1>4. ASSUME NEW c \in Call, NEW d \in Device, L!FindKey(c, d) PROVE LInv'
    <2>1. /\ LTurns(c, "looking", d) /\ UNCHANGED <<licence, activationCount, activation, drifted>>
          /\ licencePc[c] = "idle" /\ activationCount < activationLimit
      BY <1>0, <1>4, LMoves DEF L!FindKey, L!licence, LStage
    <2>2. L!TypeOK'
      BY <1>0, <2>1 DEF L!TypeOK, LTurns, LStage, L!Stage, L!NoDevice
    <2>3. CountAgrees'
      BY <1>0, <1>3, <2>1, LCounts DEF LicenceInv, CountAgrees
    <2>4. RoomLeft'
      <3>1. Doing(Growing)' \in SUBSET Call
        BY DEF Doing
      <3>2. Cardinality(Doing(Growing)') \in Nat /\ Cardinality(Doing(Growing)') <= Cardinality(Call)
        BY <3>1, CallsFinite
      <3> QED
        BY <1>0, <2>1, <3>2 DEF RoomLeft
    <2> QED
      BY <1>2, <1>3, <2>1, <2>2, <2>3, <2>4
  <1>5. ASSUME NEW c \in Call, L!FindActivation(c) PROVE LInv'
    <2> DEFINE d == licenceJob[c]
    <2>1. d \in Device
      BY <1>0, <1>5 DEF L!FindActivation, LicenceInv
    <2>2. /\ LTurns(c, "activating", d) /\ UNCHANGED <<licence, activationCount, activation, drifted>>
          /\ licencePc[c] = "looking"
      BY <1>0, <1>5, <2>1, LMoves DEF L!FindActivation, L!licence, LStage
    <2>3. L!TypeOK'
      BY <1>0, <2>2 DEF L!TypeOK, LTurns, LStage, L!Stage, L!NoDevice
    <2> HIDE DEF d
    <2>4. CountAgrees'
      BY <1>0, <1>3, <2>2, LCounts DEF LicenceInv, CountAgrees
    <2>5. RoomLeft'
      BY <1>0, <2>2, LCounts DEF LicenceInv, RoomLeft, Growing
    <2> QED
      BY <1>2, <1>3, <2>1, <2>2, <2>3, <2>4, <2>5
  <1>6. ASSUME NEW c \in Call, L!CreateActivation(c) PROVE LInv'
    <2> DEFINE d == licenceJob[c]
    <2>1. d \in Device
      BY <1>0, <1>6 DEF L!CreateActivation, LicenceInv
    <2>2. /\ LTurns(c, "counting", d) /\ UNCHANGED <<licence, activationCount, drifted>>
          /\ licencePc[c] = "activating" /\ activation[d] = "none"
          /\ activation' = [activation EXCEPT ![d] = "active"]
      BY <1>0, <1>6, <2>1, LMoves DEF L!CreateActivation, LStage
    <2> HIDE DEF d
    <2>3. InUse' = InUse \cup {d} /\ d \notin InUse
      BY <1>0, <2>1, <2>2 DEF InUse, L!TypeOK
    <2>4. IsFiniteSet(InUse') /\ Cardinality(InUse') = Cardinality(InUse) + 1
      BY <1>0, <2>3, Gains DEF LicenceInv
    <2>5. L!TypeOK'
      BY <1>0, <2>1, <2>2 DEF L!TypeOK, LTurns, LStage, L!Stage, L!NoDevice
    <2>6. CountAgrees'
      BY <1>0, <2>2, <2>4, LCounts DEF LicenceInv, CountAgrees
    <2>7. RoomLeft'
      BY <1>0, <2>2, LCounts DEF LicenceInv, RoomLeft, Growing
    <2>8. \A x \in Device : activation[x] = "active" => activation'[x] = "active"
      BY <1>0, <2>2 DEF L!TypeOK
    <2>9. \A e \in Call \ {c} : licencePc[e] = "deactivating" /\ activation[licenceJob[e]] = "active"
                                    => drifted' \/ activation'[licenceJob[e]] = "active"
      BY <1>0, <2>8 DEF LicenceInv
    <2> QED
      BY <1>2, <2>1, <2>2, <2>4, <2>5, <2>6, <2>7, <2>9
  <1>7. ASSUME NEW c \in Call, L!Count(c) PROVE LInv'
    <2>1. /\ LTurns(c, "idle", "none") /\ UNCHANGED <<licence, activation, drifted>>
          /\ licencePc[c] = "counting" /\ activationCount' = activationCount + 1
      BY <1>0, <1>7, LEnds DEF L!Count
    <2>2. L!TypeOK'
      BY <1>0, <2>1 DEF L!TypeOK, LTurns, LStage, L!Stage, L!NoDevice
    <2>3. CountAgrees'
      BY <1>0, <1>3, <2>1, LCounts DEF LicenceInv, CountAgrees
    <2>4. RoomLeft'
      BY <1>0, <2>1, LCounts DEF LicenceInv, RoomLeft, Growing
    <2> QED
      BY <1>2, <1>3, <2>1, <2>2, <2>3, <2>4
  <1>8. ASSUME NEW c \in Call, NEW d \in Device, L!FindActive(c, d) PROVE LInv'
    <2>1. /\ LTurns(c, "deactivating", d) /\ UNCHANGED <<licence, activationCount, activation>>
          /\ licencePc[c] = "idle" /\ activation[d] = "active"
      BY <1>0, <1>8, LMoves DEF L!FindActive, L!licence, LStage
    <2>2. /\ drifted => drifted'
          /\ \A e \in Call : licencePc[e] = "deactivating" /\ licenceJob[e] = d => drifted'
          /\ drifted' \in BOOLEAN
      BY <1>0, <1>8 DEF L!FindActive
    <2>3. L!TypeOK'
      BY <1>0, <2>1, <2>2 DEF L!TypeOK, LTurns, LStage, L!Stage, L!NoDevice
    <2>4. CountAgrees'
      BY <1>0, <1>3, <2>1, <2>2, LCounts DEF LicenceInv, CountAgrees
    <2>5. RoomLeft'
      BY <1>0, <2>1, LCounts DEF LicenceInv, RoomLeft, Growing
    <2> QED
      BY <1>2, <1>3, <2>1, <2>2, <2>3, <2>4, <2>5
  <1>9. ASSUME NEW c \in Call, L!Deactivate(c) PROVE LInv'
    <2> DEFINE d == licenceJob[c]
    <2>1. d \in Device
      BY <1>0, <1>9 DEF L!Deactivate, LicenceInv
    <2>2. /\ LTurns(c, "uncounting", d) /\ UNCHANGED <<licence, activationCount, drifted>>
          /\ licencePc[c] = "deactivating"
          /\ activation' = [activation EXCEPT ![d] = "deactivated"]
      BY <1>0, <1>9, <2>1, LMoves DEF L!Deactivate, LStage
    <2>3. drifted \/ activation[d] = "active"
      BY <1>0, <2>2 DEF LicenceInv
    <2>4. \A e \in Call \ {c} : licencePc[e] = "deactivating" /\ licenceJob[e] = d => drifted
      BY <1>0, <2>2 DEF LicenceInv
    <2> HIDE DEF d
    <2>5. InUse' = InUse \ {d} /\ (d \in InUse <=> activation[d] = "active")
      BY <1>0, <2>1, <2>2 DEF InUse, L!TypeOK
    <2>6. IsFiniteSet(InUse')
      BY <1>0, <2>5, FS_RemoveElement DEF LicenceInv
    <2>7. L!TypeOK'
      BY <1>0, <2>1, <2>2 DEF L!TypeOK, LTurns, LStage, L!Stage, L!NoDevice
    <2>8. CountAgrees'
      <3>1. CASE drifted
        BY <2>2, <3>1 DEF CountAgrees
      <3>2. CASE ~drifted
        <4>1. Cardinality(InUse') = Cardinality(InUse) - 1
          BY <1>0, <2>3, <2>5, <3>2, Loses DEF LicenceInv
        <4> QED
          BY <1>0, <2>2, <3>2, <4>1, LCounts DEF LicenceInv, CountAgrees
      <3> QED
        BY <3>1, <3>2
    <2>9. RoomLeft'
      BY <1>0, <2>2, LCounts DEF LicenceInv, RoomLeft, Growing
    <2>10. \A x \in Device \ {d} : activation'[x] = activation[x]
      BY <1>0, <2>2 DEF L!TypeOK
    <2>11. \A e \in Call \ {c} : licencePc[e] = "deactivating" /\ activation[licenceJob[e]] = "active"
                                    => drifted' \/ activation'[licenceJob[e]] = "active"
      BY <1>0, <2>2, <2>4, <2>10 DEF LicenceInv
    <2> QED
      BY <1>2, <2>1, <2>2, <2>6, <2>7, <2>8, <2>9, <2>11
  <1>10. ASSUME NEW c \in Call, L!Uncount(c) PROVE LInv'
    <2>1. /\ LTurns(c, "idle", "none") /\ UNCHANGED <<licence, activation, drifted>>
          /\ licencePc[c] = "uncounting" /\ activationCount' = activationCount - 1
      BY <1>0, <1>10, LEnds DEF L!Uncount
    <2>2. L!TypeOK'
      BY <1>0, <2>1 DEF L!TypeOK, LTurns, LStage, L!Stage, L!NoDevice
    <2>3. CountAgrees'
      BY <1>0, <1>3, <2>1, LCounts DEF LicenceInv, CountAgrees
    <2>4. RoomLeft'
      BY <1>0, <2>1, LCounts DEF LicenceInv, RoomLeft, Growing
    <2> QED
      BY <1>2, <1>3, <2>1, <2>2, <2>3, <2>4
  <1>11. ASSUME NEW c \in Call, L!Abandon(c) PROVE LInv'
    <2>1. /\ LTurns(c, "idle", "none") /\ UNCHANGED <<licence, activationCount, activation>>
      BY <1>0, <1>11, LEnds DEF L!Abandon, L!licence
    <2>2. /\ drifted => drifted'
          /\ drifted' \in BOOLEAN
          /\ licencePc[c] \in {"counting", "uncounting"} => drifted'
      BY <1>0, <1>11 DEF L!Abandon
    <2>3. L!TypeOK'
      BY <1>0, <2>1, <2>2 DEF L!TypeOK, LTurns, LStage, L!Stage, L!NoDevice
    <2>4. CountAgrees'
      BY <1>0, <1>3, <2>1, <2>2, LCounts DEF LicenceInv, CountAgrees
    <2>5. RoomLeft'
      BY <1>0, <2>1, LCounts DEF LicenceInv, RoomLeft, Growing
    <2> QED
      BY <1>2, <1>3, <2>1, <2>2, <2>3, <2>4, <2>5
  <1> QED
    BY <1>1, <1>4, <1>5, <1>6, <1>7, <1>8, <1>9, <1>10, <1>11 DEF L!Next

LEMMA LInvariant == L!Spec => []LInv
  <1>1. L!Init => LInv
    <2> SUFFICES ASSUME L!Init PROVE LInv
      OBVIOUS
    <2>1. activationLimit \in Nat /\ Cardinality(Call) \in Nat /\ Cardinality(Call) >= 1
      BY PartsAssumption, CallsFinite DEF L!LicenceKeysAssumption
    <2>2. InUse = {} /\ Doing({"counting"}) = {} /\ Doing({"uncounting"}) = {} /\ Doing(Growing) = {}
      BY DEF L!Init, InUse, Doing, Growing
    <2>3. L!TypeOK
      <3>0. activationCount = 0 /\ drifted = FALSE /\ licence = "ACTIVE"
        BY Zenon DEF L!Init
      <3>1. activationCount \in Int /\ drifted \in BOOLEAN /\ licence \in {"ACTIVE", "REVOKED"}
        <4>1. 0 \in Int
          OBVIOUS
        <4>2. drifted \in BOOLEAN /\ licence \in {"ACTIVE", "REVOKED"}
          BY <3>0
        <4> QED
          BY <3>0, <4>1, <4>2
      <3>2. licencePc \in [Call -> L!Stage] /\ licenceJob \in [Call -> Device \cup {L!NoDevice}]
        BY DEF L!Init, L!Stage
      <3>3. activation \in [Device -> {"none", "active", "deactivated"}]
        BY DEF L!Init
      <3> QED
        BY <3>1, <3>2, <3>3 DEF L!TypeOK
    <2>4. IsFiniteSet(InUse) /\ Cardinality(InUse) = 0 /\ Cardinality(Doing({"counting"})) = 0
          /\ Cardinality(Doing({"uncounting"})) = 0 /\ Cardinality(Doing(Growing)) = 0
      BY <2>2, FS_EmptySet
    <2>5. CountAgrees /\ RoomLeft
      BY <2>1, <2>4 DEF L!Init, CountAgrees, RoomLeft
    <2> QED
      BY <2>3, <2>4, <2>5 DEF L!Init, LInv, LicenceInv
  <1>2. LInv /\ UNCHANGED L!vars => LInv'
    BY DEF L!vars, L!licence, LInv, L!TypeOK, LicenceInv, InUse, Doing, CountAgrees, RoomLeft
  <1> QED
    BY <1>1, <1>2, LStep, PTL DEF L!Spec

LEMMA LicencesAreCounted == LInv => L!CountIsActivations /\ L!ActivationsWithinLimit
  <1> SUFFICES ASSUME LInv PROVE L!CountIsActivations /\ L!ActivationsWithinLimit
    OBVIOUS
  <1>1. CountAgrees /\ RoomLeft
    BY DEF LInv, LicenceInv
  <1>2. L!CountIsActivations
    BY <1>1, SameCounts DEF CountAgrees, L!CountIsActivations, L!At, InUse, Doing
  <1>3. L!ActivationsWithinLimit
    BY <1>1, SameCounts DEF RoomLeft, L!ActivationsWithinLimit, L!At, Doing, Growing
  <1> QED
    BY <1>2, <1>3

-----------------------------------------------------------------------------
(* Coupons *)

CStage == {"idle", "checking", "redeeming"}
CJob == [key : Key \cup {"unused"}, buyer : Buyer \cup {"unused"}]
UsedKeys == {k \in Key : redeemed[k] # "unused"}
KeysOf(b) == {k \in Key : redeemed[k] = b}
Granting == {c \in Call : couponPc[c] \in {"redeeming"}}
GrantingTo(b) == {c \in Call : couponPc[c] \in {"redeeming"} /\ couponJob[c].buyer = b}

CouponInv ==
    /\ \A c \in Call : couponPc[c] # "idle" => couponJob[c].key \in Key /\ couponJob[c].buyer \in Buyer
    /\ \A k \in Key : granted[k] <= (IF redeemed[k] = "unused" THEN 0 ELSE 1)
    /\ usageCount = Cardinality(UsedKeys)
    /\ usageCount + Cardinality(Granting) < highest + Cardinality(Call)
    /\ \A b \in Buyer : Cardinality(KeysOf(b)) + Cardinality(GrantingTo(b)) <= Cardinality(Call)

CInv == C!TypeOK /\ CouponInv

LEMMA KeysFinite ==
    \A S \in SUBSET Key : IsFiniteSet(S) /\ Cardinality(S) \in Nat
  <1>1. IsFiniteSet(Key)
    BY PartsAssumption, SameCounts DEF C!CouponsAssumption
  <1> QED
    BY <1>1, FS_Subset, FS_CardinalityType

\* The call goes on, and the others stay where they are.
CTurns(c, stage, work) ==
    /\ couponPc' \in [Call -> CStage] /\ couponJob' \in [Call -> CJob]
    /\ couponPc'[c] = stage /\ couponJob'[c] = work
    /\ \A d \in Call \ {c} : couponPc'[d] = couponPc[d] /\ couponJob'[d] = couponJob[d]

LEMMA CMoves ==
    ASSUME C!TypeOK, NEW c \in Call, NEW stage \in CStage, NEW work \in CJob,
           C!Goto(c, stage, work)
    PROVE  CTurns(c, stage, work)
  BY DEF C!TypeOK, C!Goto, C!Unused, CStage, CJob, CTurns

LEMMA CEnds ==
    ASSUME C!TypeOK, NEW c \in Call, C!End(c)
    PROVE  CTurns(c, "idle", C!NoJob)
  <1>1. C!NoJob \in CJob
    BY DEF C!NoJob, C!Unused, CJob
  <1> QED
    BY <1>1, CMoves DEF C!End, CStage

\* Of the calls that are redeeming, one at most is another than before.
LEMMA CRecount ==
    ASSUME NEW c \in Call, NEW stage, NEW work, CTurns(c, stage, work)
    PROVE  /\ Cardinality(Granting) \in Nat /\ Cardinality(Granting') \in Nat
           /\ Cardinality(Granting') = Cardinality(Granting)
                - (IF couponPc[c] = "redeeming" THEN 1 ELSE 0) + (IF stage = "redeeming" THEN 1 ELSE 0)
           /\ \A b \in Buyer :
                /\ Cardinality(GrantingTo(b)) \in Nat /\ Cardinality(GrantingTo(b)') \in Nat
                /\ Cardinality(GrantingTo(b)') = Cardinality(GrantingTo(b))
                     - (IF couponPc[c] = "redeeming" /\ couponJob[c].buyer = b THEN 1 ELSE 0)
                     + (IF stage = "redeeming" /\ work.buyer = b THEN 1 ELSE 0)
  <1>1. /\ Granting \in SUBSET Call /\ Granting' \in SUBSET Call
        /\ \A d \in Call \ {c} : d \in Granting <=> d \in Granting'
        /\ c \in Granting <=> couponPc[c] = "redeeming"
        /\ c \in Granting' <=> stage = "redeeming"
    BY DEF Granting, CTurns
  <1>2. ASSUME NEW b \in Buyer
        PROVE  /\ Cardinality(GrantingTo(b)) \in Nat /\ Cardinality(GrantingTo(b)') \in Nat
               /\ Cardinality(GrantingTo(b)') = Cardinality(GrantingTo(b))
                    - (IF couponPc[c] = "redeeming" /\ couponJob[c].buyer = b THEN 1 ELSE 0)
                    + (IF stage = "redeeming" /\ work.buyer = b THEN 1 ELSE 0)
    <2>1. /\ GrantingTo(b) \in SUBSET Call /\ GrantingTo(b)' \in SUBSET Call
          /\ \A d \in Call \ {c} : d \in GrantingTo(b) <=> d \in GrantingTo(b)'
          /\ c \in GrantingTo(b) <=> (couponPc[c] = "redeeming" /\ couponJob[c].buyer = b)
          /\ c \in GrantingTo(b)' <=> (stage = "redeeming" /\ work.buyer = b)
      BY DEF GrantingTo, CTurns
    <2> QED
      BY <2>1, Recount
  <1>3. /\ Cardinality(Granting) \in Nat /\ Cardinality(Granting') \in Nat
        /\ Cardinality(Granting') = Cardinality(Granting)
             - (IF couponPc[c] = "redeeming" THEN 1 ELSE 0) + (IF stage = "redeeming" THEN 1 ELSE 0)
    BY <1>1, Recount
  <1> QED
    BY <1>2, <1>3

LEMMA CStep == CInv /\ C!Next => CInv'
  <1> SUFFICES ASSUME CInv, C!Next PROVE CInv'
    OBVIOUS
  <1>0. /\ C!TypeOK /\ CouponInv /\ MaxLimit \in Nat /\ "unused" \notin Buyer
        /\ Cardinality(Call) \in Nat /\ usageCount \in Nat /\ usageLimit \in Nat /\ highest \in Nat
        /\ usageLimit <= highest
        /\ \A k \in Key : granted[k] \in Nat
    BY PartsAssumption, CallsFinite DEF CInv, C!TypeOK, C!CouponsAssumption, C!Unused
  <1>1. /\ UsedKeys \in SUBSET Key /\ \A b : KeysOf(b) \in SUBSET Key
        /\ Granting \in SUBSET Call /\ \A b : GrantingTo(b) \in SUBSET Call
    BY DEF UsedKeys, KeysOf, Granting, GrantingTo
  <1>2. ASSUME NEW n \in 0..MaxLimit, NEW b \in BOOLEAN, C!Update(n, b) PROVE CInv'
    <2>1. /\ UNCHANGED <<usageCount, redeemed, granted, couponPc, couponJob>>
          /\ usageLimit' = n /\ isActive' = b
          /\ highest' = IF n > highest THEN n ELSE highest
      BY <1>2 DEF C!Update
    <2>2. C!TypeOK'
      BY <1>0, <2>1 DEF C!TypeOK
    <2>3. UsedKeys' = UsedKeys /\ Granting' = Granting
      BY <2>1 DEF UsedKeys, Granting
    <2>4. \A x : KeysOf(x)' = KeysOf(x) /\ GrantingTo(x)' = GrantingTo(x)
      BY <2>1 DEF KeysOf, GrantingTo
    <2>5. Cardinality(Granting) \in Nat
      BY <1>1, CallsFinite
    <2>6. usageCount + Cardinality(Granting) < highest' + Cardinality(Call)
      BY <1>0, <2>1, <2>5 DEF CouponInv
    <2> QED
      BY <1>0, <2>1, <2>2, <2>3, <2>4, <2>6 DEF CInv, CouponInv
  \* A call that redeems nothing: what is left to show is what it holds and the numbers.
  <1>3. ASSUME NEW c \in Call, NEW stage \in CStage, NEW work \in CJob, CTurns(c, stage, work),
               UNCHANGED <<usageLimit, usageCount, isActive, redeemed, granted, highest>>,
               stage # "idle" => work.key \in Key /\ work.buyer \in Buyer,
               usageCount + Cardinality(Granting') < highest + Cardinality(Call),
               \A b \in Buyer : Cardinality(KeysOf(b)) + Cardinality(GrantingTo(b)') <= Cardinality(Call)
        PROVE  CInv'
    <2>1. C!TypeOK'
      BY <1>0, <1>3 DEF C!TypeOK, CTurns, CStage, CJob, C!Unused
    <2>2. UsedKeys' = UsedKeys /\ \A b : KeysOf(b)' = KeysOf(b)
      BY <1>3 DEF UsedKeys, KeysOf
    <2>3. \A d \in Call : couponPc'[d] # "idle" => couponJob'[d].key \in Key /\ couponJob'[d].buyer \in Buyer
      BY <1>0, <1>3 DEF CouponInv, CTurns
    <2> QED
      BY <1>0, <1>3, <2>1, <2>2, <2>3 DEF CInv, CouponInv
  <1>4. ASSUME NEW c \in Call, NEW k \in Key, NEW b \in Buyer, C!Begin(c, k, b) PROVE CInv'
    <2> DEFINE work == [key |-> k, buyer |-> b]
    <2>1. work \in CJob /\ work.key = k /\ work.buyer = b
      BY DEF CJob
    <2>2. /\ CTurns(c, "checking", work) /\ couponPc[c] = "idle"
          /\ UNCHANGED <<usageLimit, usageCount, isActive, redeemed, granted, highest>>
      BY <1>0, <1>4, <2>1, CMoves DEF C!Begin, C!coupon, CStage
    <2> HIDE DEF work
    <2>3. /\ Cardinality(Granting') = Cardinality(Granting)
          /\ \A x \in Buyer : Cardinality(GrantingTo(x)') = Cardinality(GrantingTo(x))
      BY <2>2, CRecount
    <2> QED
      BY <1>0, <1>3, <2>1, <2>2, <2>3 DEF CouponInv, CStage
  <1>5. ASSUME NEW c \in Call, C!Check(c) PROVE CInv'
    <2>0. PICK work \in CJob : couponJob[c] = work
      BY <1>0 DEF C!TypeOK, CJob, C!Unused
    <2>1. /\ CTurns(c, "redeeming", work) /\ couponPc[c] = "checking"
          /\ usageCount < usageLimit
          /\ UNCHANGED <<usageLimit, usageCount, isActive, redeemed, granted, highest>>
      BY <1>0, <1>5, <2>0, CMoves DEF C!Check, C!coupon, CStage
    <2>2. work.key \in Key /\ work.buyer \in Buyer
      BY <1>0, <2>0, <2>1 DEF CouponInv
    <2>3. KeysOf(work.buyer) \in SUBSET Key /\ Cardinality(KeysOf(work.buyer)) < 1
      BY <1>1, <1>5, <2>0, SameCounts DEF C!Check, C!UsesOf, KeysOf
    <2>4. Cardinality(KeysOf(work.buyer)) = 0
      BY <2>3, KeysFinite
    <2>5. Granting' \in SUBSET Call /\ \A x \in Buyer : GrantingTo(x)' \in SUBSET Call
      BY DEF Granting, GrantingTo
    <2>6. Cardinality(Granting') \in Nat /\ Cardinality(Granting') <= Cardinality(Call)
      BY <2>5, CallsFinite
    <2>7. usageCount + Cardinality(Granting') < highest + Cardinality(Call)
      BY <1>0, <2>1, <2>6
    <2>8. ASSUME NEW x \in Buyer
          PROVE  Cardinality(KeysOf(x)) + Cardinality(GrantingTo(x)') <= Cardinality(Call)
      <3>1. CASE x = work.buyer
        <4>1. Cardinality(GrantingTo(x)') \in Nat /\ Cardinality(GrantingTo(x)') <= Cardinality(Call)
          BY <2>5, CallsFinite
        <4> QED
          BY <1>0, <2>4, <3>1, <4>1
      <3>2. CASE x # work.buyer
        <4>1. Cardinality(GrantingTo(x)') = Cardinality(GrantingTo(x))
          BY <2>1, <3>2, CRecount
        <4> QED
          BY <1>0, <4>1 DEF CouponInv
      <3> QED
        BY <3>1, <3>2
    <2> QED
      BY <1>3, <2>1, <2>2, <2>7, <2>8 DEF CStage
  <1>6. ASSUME NEW c \in Call, C!Abandon(c) PROVE CInv'
    <2>1. /\ CTurns(c, "idle", C!NoJob)
          /\ UNCHANGED <<usageLimit, usageCount, isActive, redeemed, granted, highest>>
      BY <1>0, <1>6, CEnds DEF C!Abandon, C!coupon
    <2>2. C!NoJob \in CJob /\ "idle" \in CStage
      BY DEF C!NoJob, C!Unused, CJob, CStage
    <2>3. /\ Cardinality(Granting') <= Cardinality(Granting)
          /\ Cardinality(Granting') \in Nat /\ Cardinality(Granting) \in Nat
      BY <2>1, CRecount
    <2>4. usageCount + Cardinality(Granting') < highest + Cardinality(Call)
      BY <1>0, <2>3 DEF CouponInv
    <2>5. ASSUME NEW b \in Buyer
          PROVE  Cardinality(KeysOf(b)) + Cardinality(GrantingTo(b)') <= Cardinality(Call)
      <3>1. /\ Cardinality(GrantingTo(b)') <= Cardinality(GrantingTo(b))
            /\ Cardinality(GrantingTo(b)') \in Nat /\ Cardinality(GrantingTo(b)) \in Nat
        BY <2>1, CRecount
      <3>2. Cardinality(KeysOf(b)) \in Nat
        BY <1>1, KeysFinite
      <3> QED
        BY <1>0, <3>1, <3>2 DEF CouponInv
    <2> QED
      BY <1>3, <2>1, <2>2, <2>4, <2>5
  <1>7. ASSUME NEW c \in Call, C!Redeem(c) PROVE CInv'
    <2>0. PICK work \in CJob : couponJob[c] = work
      BY <1>0 DEF C!TypeOK, CJob, C!Unused
    <2>1. PICK k \in Key, b \in Buyer : work.key = k /\ work.buyer = b
      BY <1>0, <1>7, <2>0 DEF C!Redeem, CouponInv
    <2>2. /\ CTurns(c, "idle", C!NoJob) /\ couponPc[c] = "redeeming"
          /\ redeemed[k] = "unused" /\ redeemed' = [redeemed EXCEPT ![k] = b]
          /\ granted' = [granted EXCEPT ![k] = @ + 1] /\ usageCount' = usageCount + 1
          /\ UNCHANGED <<usageLimit, isActive, highest>>
      BY <1>0, <1>7, <2>0, <2>1, CEnds DEF C!Redeem, C!Unused
    <2>3. /\ redeemed'[k] = b /\ granted'[k] = granted[k] + 1
          /\ \A x \in Key \ {k} : redeemed'[x] = redeemed[x] /\ granted'[x] = granted[x]
          /\ redeemed' \in [Key -> Buyer \cup {"unused"}]
      BY <1>0, <2>2 DEF C!TypeOK, C!Unused
    <2>4. C!TypeOK'
      <3>1. granted' \in [Key -> Nat]
        BY <1>0, <2>2 DEF C!TypeOK
      <3> QED
        BY <1>0, <2>2, <2>3, <3>1 DEF C!TypeOK, CTurns, CStage, CJob, C!Unused
    <2>5. UsedKeys' = UsedKeys \cup {k} /\ k \notin UsedKeys
      BY <1>0, <2>2, <2>3 DEF UsedKeys
    <2>6. Cardinality(UsedKeys') = Cardinality(UsedKeys) + 1
      BY <1>1, <2>5, KeysFinite, Gains
    <2>7. /\ Cardinality(Granting') = Cardinality(Granting) - 1
          /\ Cardinality(Granting) \in Nat
      BY <2>2, CRecount
    <2>8. usageCount' + Cardinality(Granting') < highest + Cardinality(Call)
      BY <1>0, <2>2, <2>7 DEF CouponInv
    <2>9. ASSUME NEW x \in Buyer
          PROVE  Cardinality(KeysOf(x)') + Cardinality(GrantingTo(x)') <= Cardinality(Call)
      <3>0. /\ Cardinality(KeysOf(x)) + Cardinality(GrantingTo(x)) <= Cardinality(Call)
            /\ Cardinality(KeysOf(x)) \in Nat /\ Cardinality(GrantingTo(x)) \in Nat
        BY <1>0, <1>1, KeysFinite, CallsFinite DEF CouponInv
      <3>1. CASE x = b
        <4>1. KeysOf(x)' = KeysOf(x) \cup {k} /\ k \notin KeysOf(x)
          BY <1>0, <2>2, <2>3, <3>1 DEF KeysOf
        <4>2. Cardinality(KeysOf(x)') = Cardinality(KeysOf(x)) + 1
          BY <1>1, <4>1, KeysFinite, Gains
        <4>3. Cardinality(GrantingTo(x)') = Cardinality(GrantingTo(x)) - 1
          BY <2>0, <2>1, <2>2, <3>1, CRecount
        <4> QED
          BY <1>0, <3>0, <4>2, <4>3
      <3>2. CASE x # b
        <4>1. KeysOf(x)' = KeysOf(x)
          BY <1>0, <2>2, <2>3, <3>2 DEF KeysOf
        <4>2. Cardinality(GrantingTo(x)') = Cardinality(GrantingTo(x))
          BY <2>0, <2>1, <2>2, <3>2, CRecount
        <4> QED
          BY <3>0, <4>1, <4>2
      <3> QED
        BY <3>1, <3>2
    <2>10. \A d \in Call : couponPc'[d] # "idle" => couponJob'[d].key \in Key /\ couponJob'[d].buyer \in Buyer
      BY <1>0, <2>2 DEF CouponInv, CTurns
    <2>11. \A x \in Key : granted'[x] <= (IF redeemed'[x] = "unused" THEN 0 ELSE 1)
      <3>1. granted'[k] <= 1 /\ redeemed'[k] # "unused"
        BY <1>0, <2>2, <2>3 DEF CouponInv
      <3> QED
        BY <1>0, <2>3, <3>1 DEF CouponInv
    <2> QED
      BY <1>0, <2>2, <2>4, <2>6, <2>8, <2>9, <2>10, <2>11 DEF CInv, CouponInv
  <1> QED
    BY <1>2, <1>4, <1>5, <1>6, <1>7 DEF C!Next

LEMMA CInvariant == C!Spec => []CInv
  <1>1. C!Init => CInv
    <2> SUFFICES ASSUME C!Init PROVE CInv
      OBVIOUS
    <2>1. MaxLimit \in Nat /\ "unused" \notin Buyer
          /\ Cardinality(Call) \in Nat /\ Cardinality(Call) >= 1
      BY PartsAssumption, CallsFinite DEF C!CouponsAssumption, C!Unused
    <2>2. UsedKeys = {} /\ Granting = {} /\ \A b \in Buyer : KeysOf(b) = {} /\ GrantingTo(b) = {}
      BY <2>1 DEF C!Init, C!Unused, UsedKeys, Granting, KeysOf, GrantingTo
    <2>3. C!NoJob \in CJob
      BY DEF C!NoJob, C!Unused, CJob
    <2>4. C!TypeOK
      BY <2>1, <2>3 DEF C!Init, C!TypeOK, C!Unused, CJob
    <2>5. /\ Cardinality(UsedKeys) = 0 /\ Cardinality(Granting) = 0
          /\ \A b \in Buyer : Cardinality(KeysOf(b)) = 0 /\ Cardinality(GrantingTo(b)) = 0
      BY <2>2, FS_EmptySet
    <2>6. CouponInv
      BY <2>1, <2>5 DEF C!Init, C!Unused, CouponInv
    <2> QED
      BY <2>4, <2>6 DEF CInv
  <1>2. CInv /\ UNCHANGED C!vars => CInv'
    <2> SUFFICES ASSUME CInv, UNCHANGED C!vars PROVE CInv'
      OBVIOUS
    <2>1. UsedKeys' = UsedKeys /\ Granting' = Granting
      BY DEF C!vars, C!coupon, UsedKeys, Granting
    <2>2. \A b : KeysOf(b)' = KeysOf(b) /\ GrantingTo(b)' = GrantingTo(b)
      BY DEF C!vars, C!coupon, KeysOf, GrantingTo
    <2> QED
      BY <2>1, <2>2 DEF C!vars, C!coupon, CInv, C!TypeOK, CouponInv
  <1> QED
    BY <1>1, <1>2, CStep, PTL DEF C!Spec

LEMMA CouponsAreCounted ==
    CInv => C!CountIsRedemptions /\ C!RedeemedOnce /\ C!UsesWithinLimit /\ C!BuyerWithinLimit
  <1> SUFFICES ASSUME CInv
               PROVE  C!CountIsRedemptions /\ C!RedeemedOnce /\ C!UsesWithinLimit /\ C!BuyerWithinLimit
    OBVIOUS
  <1>0. C!TypeOK /\ CouponInv
    BY DEF CInv
  <1>1. C!CountIsRedemptions
    BY <1>0, SameCounts DEF CouponInv, C!CountIsRedemptions, UsedKeys, C!Unused
  <1>2. C!RedeemedOnce
    <2>1. \A k \in Key : granted[k] \in Nat
      BY <1>0 DEF C!TypeOK
    <2> QED
      BY <1>0, <2>1 DEF CouponInv, C!RedeemedOnce
  <1>3. C!Redeeming = Granting /\ \A b : {c \in C!Redeeming : couponJob[c].buyer = b} = GrantingTo(b)
    BY DEF C!Redeeming, Granting, GrantingTo
  <1>4. C!UsesWithinLimit
    BY <1>0, <1>3, SameCounts DEF CouponInv, C!UsesWithinLimit
  <1>5. C!BuyerWithinLimit
    BY <1>0, <1>3, SameCounts DEF CouponInv, C!BuyerWithinLimit, C!UsesOf, KeysOf
  <1> QED
    BY <1>1, <1>2, <1>4, <1>5

-----------------------------------------------------------------------------
(* The five side by side *)

\* A behaviour of the composition is one of each of its parts.
THEOREM SideBySide == MCSpec => Spec /\ C!Spec /\ L!Spec /\ D!Spec /\ I!Spec
  <1>1. MCInit => Init /\ C!Init /\ L!Init /\ D!Init /\ I!Init
    BY DEF MCInit
  <1>2. [MCNext]_<<part, connectionVars, couponVars, licenceVars, deliveryVars, requestVars>> =>
            [Next]_vars /\ [C!Next]_C!vars /\ [L!Next]_L!vars /\ [D!Next]_D!vars /\ [I!Next]_I!vars
    BY DEF MCNext, connectionVars, couponVars, licenceVars, deliveryVars, requestVars, vars,
       C!vars, C!coupon, L!vars, L!licence, D!vars, I!vars
  <1> QED
    BY <1>1, <1>2, PTL DEF MCSpec, Spec, C!Spec, L!Spec, D!Spec, I!Spec

\* A connection has one active credential at most, and its status says whether it has
\* one, unless two changes overlapped or one ended half-way (replaceActiveCredential,
\* saveCredential, disconnect, refreshToken).
THEOREM CredentialAgreesHolds == MCSpec => []CredentialAgrees
  <1>1. IInv /\ ChangeInv => CredentialAgrees
    BY ChangeImplies DEF IInv, CredentialAgrees
  <1> QED
    BY <1>1, SideBySide, Invariant, ChangeInvariant, PTL

\* What the coupon, the licence and the download link count is what their rows say, and
\* a limit gives way by the calls that were at work together and by no more (redeem,
\* activate, redeemToken).
THEOREM LimitsAreHeld == MCSpec => []LimitsHold
  <1>1. IInv /\ CInv /\ LInv /\ DInv /\ ReqInv => LimitsHold
    BY CouponsAreCounted, LicencesAreCounted
       DEF IInv, CInv, LInv, DInv, ReqInv, LimitsHold, MCTypeOK
  <1> QED
    BY <1>1, SideBySide, Invariant, CInvariant, LInvariant, DInvariant, IInvariant, PTL

\* A coupon is redeemed once under a key, and a request that carries a key runs its
\* operation once, unless it is repeated while the first is at work or had its answer
\* lost; what is recorded under a key was run for it (redeem, IdempotencyService).
THEOREM KeysAreOnce == MCSpec => []OncePerKey
  <1>1. CInv /\ ReqInv => OncePerKey
    BY CouponsAreCounted, RunsAreOnce DEF OncePerKey
  <1> QED
    BY <1>1, SideBySide, CInvariant, IInvariant, PTL

=============================================================================
