---------------------------- MODULE OrdersProofs ----------------------------
(***************************************************************************)
(* Proofs about Orders, for any number of calls, keys and redemptions and  *)
(* any amounts.  A call runs through the stages of one operation while any *)
(* other call may write the order; so the proofs first say how a step      *)
(* moves the call that takes it (Called, Moved, Ended: StepShape) and what *)
(* it does to the shared rows (Effect: StepEffect), and never look at a    *)
(* single action again.  From these two follows, conjunct by conjunct,     *)
(* that every step preserves IInv, and from IInv the theorems at the end.  *)
(***************************************************************************)
EXTENDS Orders, ColumnSumsProofs

-----------------------------------------------------------------------------
(* What has been refunded *)

LEMMA MinorType ==
    ASSUME refund \in [RefundKey -> RefundRow]
    PROVE  CompletedMinor \in [RefundKey -> 0..MaxAmount]
  BY MaxAmountAssumption DEF CompletedMinor, RefundRow

LEMMA RefundedType ==
    ASSUME refund \in [RefundKey -> RefundRow]
    PROVE  Refunded \in Nat
  BY MinorType, OrdersAssumption, TotalOfCredits DEF Refunded

\* A refund that is completed adds its amount; one that is not adds nothing.
LEMMA RefundedUpdate ==
    ASSUME refund \in [RefundKey -> RefundRow],
           NEW k \in RefundKey, NEW s, NEW n \in 0..MaxAmount,
           refund[k].status # "COMPLETED",
           refund' = [refund EXCEPT ![k] = [status |-> s, amount |-> n]]
    PROVE  Refunded' = IF s = "COMPLETED" THEN Refunded + n ELSE Refunded
  <1> DEFINE f == CompletedMinor
             m == IF s = "COMPLETED" THEN n ELSE 0
  <1>1. f \in [RefundKey -> 0..MaxAmount] /\ f[k] = 0
    BY MinorType DEF CompletedMinor
  <1>2. CompletedMinor' = [f EXCEPT ![k] = m]
    BY DEF CompletedMinor
  <1>3. m \in Int
    BY MaxAmountAssumption
  <1> HIDE DEF f, m
  <1>4. f \in [RefundKey -> Int]
    <2>1. \A n1 \in 0..MaxAmount : n1 \in Int
      BY MaxAmountAssumption
    <2> QED
      BY <1>1, <2>1
  <1>5. Total(f) \in Int
    BY <1>4, OrdersAssumption, TotalType
  <1>6. Total([f EXCEPT ![k] = m]) = Total(f) - f[k] + m
    BY <1>3, <1>4, OrdersAssumption, TotalUpdate
  <1> QED
    BY <1>1, <1>2, <1>3, <1>5, <1>6 DEF Refunded, f, m

-----------------------------------------------------------------------------
(* How a call moves on *)

Step(t) == /\ Transition(t) \/ Fulfil(t) \/ Track(t) \/ PayBack(t) \/ Fail(t)
           /\ NoteCrowd

\* What a step leaves of the calls that do not take it.
Alone(t) == \A s \in Call \ {t} : pc'[s] = pc[s] /\ job'[s] = job[s] /\ seen'[s] = seen[s]

CallsTyped == /\ pc \in [Call -> Stage]
              /\ job \in [Call -> Job]
              /\ seen \in [Call -> [status : Status, sum : Nat]]

LEMMA BeginShape ==
    ASSUME CallsTyped, NEW t \in Call, NEW new \in Job, NEW from \in Status,
           NEW stage \in Stage, Begin(t, new, from, stage)
    PROVE  /\ CallsTyped' /\ Alone(t)
           /\ pc[t] = "idle" /\ pc'[t] = stage /\ job'[t] = new
           /\ seen'[t].status = from /\ seen'[t].sum = seen[t].sum
  BY DEF CallsTyped, Begin, Alone

LEMMA GotoShape ==
    ASSUME CallsTyped, NEW t \in Call, NEW stage \in Stage, Goto(t, stage)
    PROVE  /\ CallsTyped' /\ Alone(t)
           /\ pc'[t] = stage
           /\ stage = "idle" => job'[t] = NoJob /\ seen'[t] = NothingSeen
           /\ stage # "idle" => job' = job /\ seen' = seen
  <1>1. NoJob \in Job /\ NothingSeen \in [status : Status, sum : Nat]
    BY MaxAmountAssumption DEF NoJob, Work, NothingSeen, Job, Status
  <1> QED
    BY <1>1 DEF CallsTyped, Goto, Alone

Starting(t) == \/ Hold(t) \/ Cancel(t) \/ Release(t) \/ Sync(t)
               \/ Submit(t) \/ Ship(t) \/ Deliver(t) \/ IssueRefund(t)

\* A call begins: nothing but the call itself changes.
Now(t, op, to, stage) == job'[t].op = op /\ job'[t].to = to /\ pc'[t] = stage
Called(t) ==
    /\ CallsTyped' /\ Alone(t) /\ UNCHANGED <<channel, status, heldFrom, tables>>
    /\ pc[t] = "idle" /\ seen'[t].sum = seen[t].sum
    /\ \/ /\ Now(t, "hold", "ON_HOLD", "writing")
          /\ CanTransition(status, "ON_HOLD") /\ seen'[t].status = status
       \/ Now(t, "cancel", "CANCELLED", "writing") /\ seen'[t].status = status
       \/ Now(t, "release", "NEW", "looking") /\ seen'[t].status = "NEW"
       \/ /\ channel /\ seen'[t].status = "NEW"
          /\ \E s \in ChannelStatus : Now(t, "sync", s, "writing")
       \/ /\ Now(t, "fulfil", "NEW", "creating") /\ seen'[t].status = status
          /\ job'[t].key \in FulfilmentKey
       \/ /\ Now(t, "ship", "SHIPPED", "packing") /\ seen'[t].status = "NEW"
          /\ job'[t].key \in FulfilmentKey
       \/ /\ Now(t, "deliver", "DELIVERED", "delivering") /\ seen'[t].status = "NEW"
          /\ job'[t].key \in FulfilmentKey
       \/ /\ Now(t, "refund", "REFUNDED", "summing") /\ seen'[t].status = status
          /\ job'[t].key \in RefundKey

LEMMA StartShape ==
    ASSUME TypeOK, NEW t \in Call, Starting(t)
    PROVE  Called(t)
  <1>1. CallsTyped /\ status \in Status
    BY DEF TypeOK, CallsTyped
  <1>2. \A o \in Operations, s \in Status, n \in 0..MaxAmount,
           k \in RefundKey \cup FulfilmentKey \cup {"none"} : Work(o, s, k, n) \in Job
    BY DEF Work, Job
  <1>3. 0 \in 0..MaxAmount /\ "NEW" \in Status /\ NothingSeen.status = "NEW"
    BY MaxAmountAssumption DEF Status, NothingSeen
  <1>4. CASE Hold(t)
    <2>1. Begin(t, Work("hold", "ON_HOLD", "none", 0), status, "writing")
      BY <1>4 DEF Hold
    <2>2. Work("hold", "ON_HOLD", "none", 0) \in Job /\ "writing" \in Stage
      BY <1>2, <1>3 DEF Operations, Status, Stage
    <2>3. /\ CallsTyped' /\ Alone(t)
          /\ pc[t] = "idle" /\ pc'[t] = "writing" /\ job'[t] = Work("hold", "ON_HOLD", "none", 0)
          /\ seen'[t].status = status /\ seen'[t].sum = seen[t].sum
      BY <1>1, <1>3, <2>1, <2>2, BeginShape
    <2> QED
      BY <1>4, <2>3 DEF Called, Now, Work, Hold
  <1>5. CASE Cancel(t)
    <2>1. Begin(t, Work("cancel", "CANCELLED", "none", 0), status, "writing")
      BY <1>5 DEF Cancel
    <2>2. Work("cancel", "CANCELLED", "none", 0) \in Job /\ "writing" \in Stage
      BY <1>2, <1>3 DEF Operations, Status, Stage
    <2>3. /\ CallsTyped' /\ Alone(t)
          /\ pc[t] = "idle" /\ pc'[t] = "writing" /\ job'[t] = Work("cancel", "CANCELLED", "none", 0)
          /\ seen'[t].status = status /\ seen'[t].sum = seen[t].sum
      BY <1>1, <1>3, <2>1, <2>2, BeginShape
    <2> QED
      BY <1>5, <2>3 DEF Called, Now, Work, Cancel
  <1>6. CASE Release(t)
    <2>1. Begin(t, Work("release", "NEW", "none", 0), "NEW", "looking")
      BY <1>3, <1>6 DEF Release
    <2>2. Work("release", "NEW", "none", 0) \in Job /\ "looking" \in Stage
      BY <1>2, <1>3 DEF Operations, Stage
    <2>3. /\ CallsTyped' /\ Alone(t)
          /\ pc[t] = "idle" /\ pc'[t] = "looking" /\ job'[t] = Work("release", "NEW", "none", 0)
          /\ seen'[t].status = "NEW" /\ seen'[t].sum = seen[t].sum
      BY <1>1, <1>3, <2>1, <2>2, BeginShape
    <2> QED
      BY <1>6, <2>3 DEF Called, Now, Work, Release
  <1>7. CASE Sync(t)
    <2>1. PICK s \in ChannelStatus : Begin(t, Work("sync", s, "none", 0), "NEW", "writing")
      BY <1>3, <1>7 DEF Sync
    <2>2. Work("sync", s, "none", 0) \in Job /\ "writing" \in Stage
      BY <1>2, <1>3 DEF Operations, ChannelStatus, Stage
    <2>3. /\ CallsTyped' /\ Alone(t)
          /\ pc[t] = "idle" /\ pc'[t] = "writing" /\ job'[t] = Work("sync", s, "none", 0)
          /\ seen'[t].status = "NEW" /\ seen'[t].sum = seen[t].sum
      BY <1>1, <1>3, <2>1, <2>2, BeginShape
    <2> QED
      BY <1>7, <2>3 DEF Called, Now, Work, Sync
  <1>8. CASE Submit(t)
    <2>1. PICK k \in FulfilmentKey : Begin(t, Work("fulfil", "NEW", k, 0), status, "creating")
      BY <1>8 DEF Submit
    <2>2. Work("fulfil", "NEW", k, 0) \in Job /\ "creating" \in Stage
      BY <1>2, <1>3 DEF Operations, Stage
    <2>3. /\ CallsTyped' /\ Alone(t)
          /\ pc[t] = "idle" /\ pc'[t] = "creating" /\ job'[t] = Work("fulfil", "NEW", k, 0)
          /\ seen'[t].status = status /\ seen'[t].sum = seen[t].sum
      BY <1>1, <1>3, <2>1, <2>2, BeginShape
    <2> QED
      BY <1>8, <2>3 DEF Called, Now, Work, Submit
  <1>9. CASE Ship(t)
    <2>1. PICK k \in FulfilmentKey : Begin(t, Work("ship", "SHIPPED", k, 0), "NEW", "packing")
      BY <1>3, <1>9 DEF Ship
    <2>2. Work("ship", "SHIPPED", k, 0) \in Job /\ "packing" \in Stage
      BY <1>2, <1>3 DEF Operations, Status, Stage
    <2>3. /\ CallsTyped' /\ Alone(t)
          /\ pc[t] = "idle" /\ pc'[t] = "packing" /\ job'[t] = Work("ship", "SHIPPED", k, 0)
          /\ seen'[t].status = "NEW" /\ seen'[t].sum = seen[t].sum
      BY <1>1, <1>3, <2>1, <2>2, BeginShape
    <2> QED
      BY <1>9, <2>3 DEF Called, Now, Work, Ship
  <1>10. CASE Deliver(t)
    <2>1. PICK k \in FulfilmentKey :
             Begin(t, Work("deliver", "DELIVERED", k, 0), "NEW", "delivering")
      BY <1>3, <1>10 DEF Deliver
    <2>2. Work("deliver", "DELIVERED", k, 0) \in Job /\ "delivering" \in Stage
      BY <1>2, <1>3 DEF Operations, Status, Stage
    <2>3. /\ CallsTyped' /\ Alone(t)
          /\ pc[t] = "idle" /\ pc'[t] = "delivering" /\ job'[t] = Work("deliver", "DELIVERED", k, 0)
          /\ seen'[t].status = "NEW" /\ seen'[t].sum = seen[t].sum
      BY <1>1, <1>3, <2>1, <2>2, BeginShape
    <2> QED
      BY <1>10, <2>3 DEF Called, Now, Work, Deliver
  <1>11. CASE IssueRefund(t)
    <2>1. PICK k \in RefundKey, n \in 1..MaxAmount :
             Begin(t, Work("refund", "REFUNDED", k, n), status, "summing")
      BY <1>11 DEF IssueRefund
    <2>2. n \in 0..MaxAmount
      BY MaxAmountAssumption
    <2>3. Work("refund", "REFUNDED", k, n) \in Job /\ "summing" \in Stage
      BY <1>2, <2>2 DEF Operations, Status, Stage
    <2>4. /\ CallsTyped' /\ Alone(t)
          /\ pc[t] = "idle" /\ pc'[t] = "summing" /\ job'[t] = Work("refund", "REFUNDED", k, n)
          /\ seen'[t].status = status /\ seen'[t].sum = seen[t].sum
      BY <1>1, <1>3, <2>1, <2>3, BeginShape
    <2> QED
      BY <1>11, <2>4 DEF Called, Now, Work, IssueRefund
  <1> QED
    BY <1>4, <1>5, <1>6, <1>7, <1>8, <1>9, <1>10, <1>11 DEF Starting

\* A call gives up, fails or is through, and forgets everything.
Ended(t) ==
    /\ CallsTyped' /\ Alone(t)
    /\ pc[t] # "idle" /\ pc'[t] = "idle" /\ job'[t] = NoJob /\ seen'[t] = NothingSeen

Path == {<<"looking", "reading">>, <<"reading", "writing">>, <<"writing", "logging">>,
         <<"logging", "listing">>, <<"listing", "restoring">>, <<"restoring", "restoring">>,
         <<"creating", "sending">>, <<"sending", "accepted">>, <<"sending", "failing">>,
         <<"accepted", "producing">>, <<"accepted", "failing">>, <<"producing", "failing">>,
         <<"packing", "packed">>, <<"packed", "reading">>,
         <<"delivering", "delivered">>, <<"delivered", "reading">>,
         <<"summing", "inserting">>, <<"inserting", "completing">>, <<"completing", "reading">>}

\* A call goes one step along its path: what it does stays what it was, but for
\* a release, which learns where to.
Moved(t) ==
    /\ CallsTyped' /\ Alone(t) /\ <<pc[t], pc'[t]>> \in Path
    /\ job'[t].op = job[t].op /\ job'[t].key = job[t].key /\ job'[t].amount = job[t].amount
    /\ job'[t].to = IF pc[t] = "looking" THEN ReleaseTarget(heldFrom) ELSE job[t].to
    /\ pc[t] \notin {"reading", "summing"} => seen'[t] = seen[t]
    /\ pc[t] = "reading" => CanTransition(status, job[t].to) /\ seen'[t] = NothingSeen
    /\ pc[t] = "writing" => job[t].op \notin {"sync", "ship", "deliver"}
    /\ pc[t] = "summing" => /\ Refunded + job[t].amount <= TotalMinor
                            /\ seen'[t].sum = Refunded /\ seen'[t].status = seen[t].status
    /\ pc[t] = "inserting" => refund[job[t].key].status = "none"
    /\ pc[t] = "creating" => fulfilment[job[t].key] = "none"
    /\ pc[t] = "completing" => seen[t].sum + job[t].amount >= TotalMinor

LEMMA GotoEnds ==
    ASSUME CallsTyped, NEW t \in Call, pc[t] # "idle", Goto(t, "idle")
    PROVE  Ended(t)
  BY GotoShape DEF Ended, Stage

LEMMA GotoMoves ==
    ASSUME CallsTyped, NEW t \in Call, NEW stage \in Stage \ {"idle"}, Goto(t, stage)
    PROVE  /\ CallsTyped' /\ Alone(t)
           /\ pc'[t] = stage /\ job' = job /\ seen' = seen
  BY GotoShape

LEMMA TransitionShape ==
    ASSUME TypeOK, NEW t \in Call, Transition(t)
    PROVE  Called(t) \/ Moved(t) \/ Ended(t)
  <1>1. CallsTyped /\ heldFrom \in Status \cup {"none"}
    BY DEF TypeOK, CallsTyped
  <1> USE DEF Path, Stage
  <1>2. CASE Hold(t) \/ Cancel(t) \/ Release(t) \/ Sync(t)
    BY <1>2, StartShape DEF Starting
  <1>3. CASE FindHold(t)
    <2>1. ReleaseTarget(heldFrom) \in Status
      BY <1>1 DEF ReleaseTarget, Status
    <2> QED
      BY <1>1, <1>3, <2>1 DEF FindHold, Moved, CallsTyped, Alone, Job
  <1>4. CASE Read(t)
    <2>1. CASE CanTransition(status, job[t].to)
      <3>1. NothingSeen \in [status : Status, sum : Nat]
        BY DEF NothingSeen, Status
      <3> QED
        BY <1>1, <1>4, <2>1, <3>1 DEF Read, Moved, CallsTyped, Alone
    <2>2. CASE ~ CanTransition(status, job[t].to)
      BY <1>1, <1>4, <2>2, GotoEnds DEF Read
    <2> QED
      BY <2>1, <2>2
  <1>5. CASE Write(t)
    <2>1. CASE job[t].op \in {"sync", "ship", "deliver"}
      BY <1>1, <1>5, <2>1, GotoEnds DEF Write
    <2>2. CASE job[t].op \notin {"sync", "ship", "deliver"}
      BY <1>1, <1>5, <2>2, GotoMoves DEF Write, Moved
    <2> QED
      BY <2>1, <2>2
  <1>6. CASE Log(t)
    <2>1. CASE job[t].to \in {"CANCELLED", "REFUNDED"}
      BY <1>1, <1>6, <2>1, GotoMoves DEF Log, Moved
    <2>2. CASE job[t].to \notin {"CANCELLED", "REFUNDED"}
      BY <1>1, <1>6, <2>2, GotoEnds DEF Log
    <2> QED
      BY <2>1, <2>2
  <1>7. CASE ListRedemptions(t)
    <2>1. CASE Confirmed = {}
      BY <1>1, <1>7, <2>1, GotoEnds DEF ListRedemptions
    <2>2. CASE Confirmed # {}
      <3>1. Confirmed \in SUBSET Purchase
        BY DEF Confirmed
      <3>2. /\ pc[t] = "listing" /\ pc' = [pc EXCEPT ![t] = "restoring"]
            /\ job' = [job EXCEPT ![t].todo = Confirmed] /\ seen' = seen
        BY <1>7, <2>2 DEF ListRedemptions
      <3>3. CallsTyped' /\ Alone(t)
        BY <1>1, <3>1, <3>2 DEF CallsTyped, Alone, Job
      <3> QED
        BY <1>1, <3>2, <3>3 DEF Moved, CallsTyped, Job
    <2> QED
      BY <2>1, <2>2
  <1>8. CASE Restore(t)
    <2>1. PICK p \in job[t].todo :
             IF purchase[p] = "CONFIRMED" /\ job[t].todo # {p}
             THEN /\ job' = [job EXCEPT ![t].todo = @ \ {p}]
                  /\ UNCHANGED <<pc, seen>>
             ELSE Goto(t, "idle")
      BY <1>8 DEF Restore
    <2>2. CASE purchase[p] = "CONFIRMED" /\ job[t].todo # {p}
      BY <1>1, <1>8, <2>1, <2>2 DEF Restore, Moved, CallsTyped, Alone, Job
    <2>3. CASE ~ (purchase[p] = "CONFIRMED" /\ job[t].todo # {p})
      BY <1>1, <1>8, <2>1, <2>3, GotoEnds DEF Restore
    <2> QED
      BY <2>2, <2>3
  <1> QED
    BY <1>2, <1>3, <1>4, <1>5, <1>6, <1>7, <1>8 DEF Transition

LEMMA FulfilShape ==
    ASSUME TypeOK, NEW t \in Call, Fulfil(t)
    PROVE  Called(t) \/ Moved(t) \/ Ended(t)
  <1>1. CallsTyped
    BY DEF TypeOK, CallsTyped
  <1> USE DEF Path, Stage
  <1>2. CASE Submit(t)
    BY <1>2, StartShape DEF Starting
  <1>3. CASE CreateFulfilment(t)
    <2>1. CASE fulfilment[job[t].key] = "none"
      BY <1>1, <1>3, <2>1, GotoMoves DEF CreateFulfilment, Moved
    <2>2. CASE fulfilment[job[t].key] # "none"
      BY <1>1, <1>3, <2>2, GotoEnds DEF CreateFulfilment
    <2> QED
      BY <2>1, <2>2
  <1>4. CASE Send(t)
    BY <1>1, <1>4, GotoMoves DEF Send, Moved
  <1>5. CASE MarkSubmitted(t)
    <2>1. CASE Goto(t, "idle")
      BY <1>1, <1>5, <2>1, GotoEnds DEF MarkSubmitted
    <2>2. CASE Goto(t, "producing") \/ Goto(t, "failing")
      BY <1>1, <1>5, <2>2, GotoMoves DEF MarkSubmitted, Moved
    <2> QED
      BY <1>5, <2>1, <2>2 DEF MarkSubmitted
  <1>6. CASE StartProduction(t)
    BY <1>1, <1>6, GotoEnds, GotoMoves DEF StartProduction, Moved
  <1>7. CASE Throw(t)
    BY <1>1, <1>7, GotoMoves DEF Throw, Moved
  <1>8. CASE MarkFailed(t)
    BY <1>1, <1>8, GotoEnds DEF MarkFailed
  <1> QED
    BY <1>2, <1>3, <1>4, <1>5, <1>6, <1>7, <1>8 DEF Fulfil

LEMMA TrackShape ==
    ASSUME TypeOK, NEW t \in Call, Track(t)
    PROVE  Called(t) \/ Moved(t) \/ Ended(t)
  <1>1. CallsTyped
    BY DEF TypeOK, CallsTyped
  <1> USE DEF Path, Stage
  <1>2. CASE Ship(t) \/ Deliver(t)
    BY <1>2, StartShape DEF Starting
  <1>3. CASE CreateShipment(t)
    BY <1>1, <1>3, GotoMoves DEF CreateShipment, Moved
  <1>4. CASE DeliverShipment(t)
    BY <1>1, <1>4, GotoMoves DEF DeliverShipment, Moved
  <1>5. CASE FollowShipment(t)
    BY <1>1, <1>5, GotoMoves DEF FollowShipment, Moved
  <1> QED
    BY <1>2, <1>3, <1>4, <1>5 DEF Track

LEMMA PayBackShape ==
    ASSUME TypeOK, NEW t \in Call, PayBack(t)
    PROVE  Called(t) \/ Moved(t) \/ Ended(t)
  <1>1. CallsTyped
    BY DEF TypeOK, CallsTyped
  <1> USE DEF Path, Stage
  <1>2. CASE IssueRefund(t)
    BY <1>2, StartShape DEF Starting
  <1>3. CASE SumRefunds(t)
    <2>1. CASE Refunded + job[t].amount > TotalMinor
      BY <1>1, <1>3, <2>1, GotoEnds DEF SumRefunds
    <2>2. CASE ~ (Refunded + job[t].amount > TotalMinor)
      <3>1. Refunded \in Nat /\ job[t].amount \in Int
        BY RefundedType, MaxAmountAssumption DEF TypeOK, Job
      <3>2. /\ pc[t] = "summing" /\ pc' = [pc EXCEPT ![t] = "inserting"]
            /\ seen' = [seen EXCEPT ![t].sum = Refunded] /\ job' = job
        BY <1>3, <2>2 DEF SumRefunds
      <3>3. CallsTyped' /\ Alone(t) /\ seen'[t].sum = Refunded /\ seen'[t].status = seen[t].status
        BY <1>1, <3>1, <3>2 DEF CallsTyped, Alone
      <3>4. Refunded + job[t].amount <= TotalMinor
        BY <2>2, <3>1, OrdersAssumption
      <3>5. pc'[t] = "inserting"
        BY <1>1, <3>2 DEF CallsTyped
      <3> HIDE DEF Stage
      <3> QED
        BY <3>2, <3>3, <3>4, <3>5 DEF Moved
    <2> QED
      BY <2>1, <2>2
  <1>4. CASE InsertRefund(t)
    <2>1. CASE refund[job[t].key].status = "none"
      BY <1>1, <1>4, <2>1, GotoMoves DEF InsertRefund, Moved
    <2>2. CASE refund[job[t].key].status # "none"
      BY <1>1, <1>4, <2>2, GotoEnds DEF InsertRefund
    <2> QED
      BY <2>1, <2>2
  <1>5. CASE CompleteRefund(t)
    <2>1. CASE seen[t].sum + job[t].amount >= TotalMinor /\ seen[t].status # "REFUNDED"
      BY <1>1, <1>5, <2>1, GotoMoves DEF CompleteRefund, Moved
    <2>2. CASE ~ (seen[t].sum + job[t].amount >= TotalMinor /\ seen[t].status # "REFUNDED")
      BY <1>1, <1>5, <2>2, GotoEnds DEF CompleteRefund
    <2> QED
      BY <2>1, <2>2
  <1> QED
    BY <1>2, <1>3, <1>4, <1>5 DEF PayBack

LEMMA StepShape ==
    ASSUME TypeOK, NEW t \in Call, Step(t)
    PROVE  Called(t) \/ Moved(t) \/ Ended(t)
  <1>1. CASE Fail(t)
    <2>1. CallsTyped
      BY DEF TypeOK, CallsTyped
    <2> QED
      BY <1>1, <2>1, GotoEnds DEF Fail
  <1> QED
    BY <1>1, TransitionShape, FulfilShape, TrackShape, PayBackShape DEF Step

-----------------------------------------------------------------------------
(* What a call does to the order *)

Shared(t) ==
    /\ channel' = channel
    /\ \/ status' = status
       \/ pc[t] = "writing" /\ status' = job[t].to
       \/ pc[t] = "producing" /\ status' = "IN_PRODUCTION"
    /\ \/ heldFrom' = heldFrom
       \/ pc[t] = "logging" /\ job[t].to = "ON_HOLD" /\ heldFrom' = seen[t].status
    /\ purchase' \in [Purchase -> {"none", "CONFIRMED", "REFUNDED"}]

\* Fulfilments, submissions, shipments and refunds change only under the key of
\* the call, and at the places of its path named here.
FulfilmentEffect(t) ==
    IF pc'[t] # "idle" /\ pc[t] \in {"creating", "packed", "delivered"}
    THEN \E v \in FulfilmentStatus \ {"none"} : SetFulfilment(t, v)
    ELSE \/ fulfilment' = fulfilment
         \/ /\ pc[t] \in {"accepted", "failing"}
            /\ \E v \in FulfilmentStatus \ {"none"} : SetFulfilment(t, v)
AcceptedEffect(t) ==
    \/ accepted' = accepted
    \/ /\ pc[t] = "sending" /\ pc'[t] \in {"accepted", "failing"}
       /\ accepted' = [accepted EXCEPT ![job[t].key] = @ + 1]
ShipmentEffect(t) ==
    CASE pc[t] = "packing" /\ pc'[t] = "packed" ->
            shipment' = [shipment EXCEPT ![job[t].key] = IF @ = "none" THEN "IN_TRANSIT" ELSE @]
      [] pc[t] = "delivering" /\ pc'[t] = "delivered" ->
            shipment' = [shipment EXCEPT ![job[t].key] = "DELIVERED"]
      [] OTHER -> shipment' = shipment
RefundEffect(t) ==
    CASE pc[t] = "inserting" /\ pc'[t] = "completing" ->
            SetRefund(t, "PENDING") /\ refund[job[t].key].status = "none"
      [] pc[t] = "completing" -> IF pc'[t] = "idle" THEN refund' = refund \/ SetRefund(t, "COMPLETED")
                                 ELSE SetRefund(t, "COMPLETED")
      [] OTHER -> refund' = refund

Effect(t) == /\ Shared(t) /\ FulfilmentEffect(t) /\ AcceptedEffect(t)
             /\ ShipmentEffect(t) /\ RefundEffect(t)

LEMMA PlainEffect ==
    ASSUME TypeOK, NEW t \in Call,
           UNCHANGED <<channel, status, heldFrom, refund, fulfilment, accepted, shipment>>,
           purchase' \in [Purchase -> {"none", "CONFIRMED", "REFUNDED"}],
           pc'[t] = "idle" \/ pc[t] \notin {"creating", "packing", "packed", "delivering",
                                           "delivered", "inserting", "completing"}
    PROVE  Effect(t)
  BY DEF Effect, Shared, FulfilmentEffect, AcceptedEffect, ShipmentEffect, RefundEffect

LEMMA StepEffect ==
    ASSUME TypeOK, JobShape, NEW t \in Call, Step(t)
    PROVE  Effect(t)
  <1>1. Shaped(t) /\ purchase \in [Purchase -> {"none", "CONFIRMED", "REFUNDED"}]
    BY DEF JobShape, TypeOK
  <1>2. CASE Hold(t) \/ Cancel(t) \/ Release(t) \/ Sync(t) \/ Submit(t) \/ Ship(t)
             \/ Deliver(t) \/ IssueRefund(t)
    <2>1. Called(t)
      BY <1>2, StartShape DEF Starting
    <2> QED
      BY <1>1, <2>1, PlainEffect DEF Called, tables
  <1>3. CASE FindHold(t) \/ Read(t) \/ ListRedemptions(t)
    BY <1>1, <1>3, PlainEffect DEF FindHold, Read, ListRedemptions, tables
  <1>4. CASE Throw(t) \/ SumRefunds(t)
    BY <1>1, <1>4, PlainEffect DEF Throw, SumRefunds, tables
  <1>5. CASE Fail(t)
    <2>1. pc'[t] = "idle"
      BY <1>5 DEF Fail, Goto, TypeOK
    <2> QED
      BY <1>1, <1>5, <2>1, PlainEffect DEF Fail, tables
  <1>6. CASE Restore(t)
    BY <1>1, <1>6, PlainEffect DEF Restore
  <1> USE DEF Effect, Shared, FulfilmentEffect, AcceptedEffect, ShipmentEffect, RefundEffect
  <1>7. CASE Write(t) \/ Log(t) \/ StartProduction(t)
    BY <1>1, <1>7 DEF Write, Log, StartProduction, tables
  <1>8. CASE CreateFulfilment(t)
    BY <1>1, <1>8 DEF CreateFulfilment, Goto, FulfilmentStatus, TypeOK
  <1>9. CASE Send(t)
    BY <1>1, <1>9 DEF Send, Goto, TypeOK
  <1>10. CASE MarkSubmitted(t) \/ MarkFailed(t)
    BY <1>1, <1>10 DEF MarkSubmitted, MarkFailed, FulfilmentStatus
  <1>11. CASE CreateShipment(t) \/ DeliverShipment(t)
    BY <1>1, <1>11 DEF CreateShipment, DeliverShipment, Goto, TypeOK
  <1>12. CASE FollowShipment(t)
    <2>1. job[t].to \in FulfilmentStatus \ {"none"}
      BY <1>1, <1>12 DEF FollowShipment, FulfilmentStatus, Shaped
    <2>2. pc'[t] # "idle"
      BY <1>12, GotoMoves DEF FollowShipment, Stage, TypeOK, CallsTyped
    <2> QED
      BY <1>1, <1>12, <2>1, <2>2 DEF FollowShipment
  <1>13. CASE InsertRefund(t)
    BY <1>1, <1>13 DEF InsertRefund, Goto, TypeOK
  <1>14. CASE CompleteRefund(t)
    BY <1>1, <1>14 DEF CompleteRefund
  <1> QED
    BY <1>2, <1>3, <1>4, <1>5, <1>6, <1>7, <1>8, <1>9, <1>10, <1>11, <1>12, <1>13, <1>14
       DEF Step, Transition, Fulfil, Track, PayBack

-----------------------------------------------------------------------------
(* Every step preserves the invariant *)

LEMMA UnsettledFinite ==
    /\ IsFiniteSet(Unsettled) /\ Cardinality(Unsettled) \in Nat
    /\ IsFiniteSet(Unsettled') /\ Cardinality(Unsettled') \in Nat
  <1>1. Unsettled \in SUBSET Call /\ Unsettled' \in SUBSET Call
    BY DEF Unsettled
  <1> QED
    BY <1>1, OrdersAssumption, FS_Subset, FS_CardinalityType

\* The crowd is what it was, or what is unsettled now if that is more.
LEMMA CrowdGrows ==
    ASSUME crowd \in Nat, NoteCrowd
    PROVE  /\ crowd' \in Nat /\ crowd' >= crowd /\ crowd' >= Cardinality(Unsettled')
           /\ Cardinality(Unsettled') <= crowd => crowd' = crowd
  BY UnsettledFinite DEF NoteCrowd

LEMMA TypeStep ==
    ASSUME TypeOK, JobShape, NEW t \in Call, Step(t)
    PROVE  TypeOK'
  <1>1. Effect(t)
    BY StepEffect
  <1>2. Called(t) \/ Moved(t) \/ Ended(t)
    BY StepShape
  <1>3. job[t] \in Job /\ seen[t].status \in Status
    BY DEF TypeOK
  <1>4. channel' \in BOOLEAN /\ purchase' \in [Purchase -> {"none", "CONFIRMED", "REFUNDED"}]
    BY <1>1 DEF Effect, Shared, TypeOK
  <1>5. status' \in Status
    BY <1>1, <1>3 DEF Effect, Shared, TypeOK, Job, Status
  <1>6. heldFrom' \in Status \cup {"none"}
    BY <1>1, <1>3 DEF Effect, Shared, TypeOK
  <1>7. fulfilment' \in [FulfilmentKey -> FulfilmentStatus]
    BY <1>1 DEF Effect, FulfilmentEffect, SetFulfilment, TypeOK
  <1>8. accepted' \in [FulfilmentKey -> Nat]
    BY <1>1 DEF Effect, AcceptedEffect, TypeOK
  <1>9. shipment' \in [FulfilmentKey -> {"none", "IN_TRANSIT", "DELIVERED"}]
    BY <1>1 DEF Effect, ShipmentEffect, TypeOK
  <1>10. refund' \in [RefundKey -> RefundRow]
    <2>1. \A v \in {"PENDING", "COMPLETED"} : SetRefund(t, v) => refund' \in [RefundKey -> RefundRow]
      <3>1. ASSUME NEW v \in {"PENDING", "COMPLETED"}, SetRefund(t, v)
            PROVE  refund' \in [RefundKey -> RefundRow]
        <4>1. [status |-> v, amount |-> job[t].amount] \in RefundRow
          BY <1>3 DEF RefundRow, Job
        <4> QED
          BY <3>1, <4>1 DEF SetRefund, TypeOK
      <3> QED
        BY <3>1
    <2> QED
      BY <1>1, <2>1 DEF Effect, RefundEffect, TypeOK
  <1>11. CallsTyped'
    BY <1>2 DEF Called, Moved, Ended
  <1>12. crowd' \in Nat
    BY CrowdGrows DEF TypeOK, Step
  <1> QED
    BY <1>4, <1>5, <1>6, <1>7, <1>8, <1>9, <1>10, <1>11, <1>12 DEF TypeOK, CallsTyped

LEMMA ShapeStep ==
    ASSUME TypeOK, JobShape, HoldsAreAsserted, NEW t \in Call, Step(t)
    PROVE  JobShape'
  <1>1. Called(t) \/ Moved(t) \/ Ended(t)
    BY StepShape
  <1>2. \A s \in Call \ {t} : Shaped(s)'
    BY <1>1 DEF Called, Moved, Ended, Alone, JobShape, Shaped
  <1>3. Shaped(t)'
    <2>1. CASE Called(t)
      BY <2>1 DEF Called, Now, Shaped, Holdable
    <2>2. CASE Moved(t)
      <3>1. Shaped(t) /\ ReleaseTarget(heldFrom) \in Holdable
        BY DEF JobShape, HoldsAreAsserted, Holdable, ReleaseTarget
      <3> QED
        BY <2>2, <3>1 DEF Moved, Path, Shaped
    <2>3. CASE Ended(t)
      BY <2>3 DEF Ended, Shaped, NoJob, Work
    <2> QED
      BY <1>1, <2>1, <2>2, <2>3
  <1> QED
    BY <1>2, <1>3 DEF JobShape

LEMMA HoldStep ==
    ASSUME TypeOK, JobShape, HoldsAreAsserted, NEW t \in Call, Step(t)
    PROVE  HoldsAreAsserted'
  <1>1. Called(t) \/ Moved(t) \/ Ended(t)
    BY StepShape
  <1>2. Shaped(t) /\ (job[t].op = "hold" => seen[t].status \in Holdable)
    BY DEF JobShape, HoldsAreAsserted
  <1>3. heldFrom' \in Holdable \cup {"none"}
    <2>1. CASE heldFrom' = heldFrom
      BY <2>1 DEF HoldsAreAsserted
    <2>2. CASE pc[t] = "logging" /\ job[t].to = "ON_HOLD" /\ heldFrom' = seen[t].status
      <3>1. job[t].op \in Operations \cup {"none"}
        BY DEF TypeOK, Job
      <3>2. job[t].op = "hold"
        BY <1>2, <2>2, <3>1 DEF Shaped, Operations, Holdable
      <3> QED
        BY <1>2, <2>2, <3>2
    <2>3. Shared(t)
      BY StepEffect DEF Effect
    <2> QED
      BY <2>1, <2>2, <2>3 DEF Shared
  <1>4. \A s \in Call \ {t} : job'[s].op = "hold" => seen'[s].status \in Holdable
    BY <1>1 DEF Called, Moved, Ended, Alone, HoldsAreAsserted
  <1>5. job'[t].op = "hold" => seen'[t].status \in Holdable
    <2>1. CASE Called(t)
      BY <2>1 DEF Called, Now, CanTransition, Transitions, TypeOK, Status, Holdable
    <2>2. CASE Moved(t)
      BY <1>2, <2>2 DEF Moved, NothingSeen, Holdable, Shaped
    <2>3. CASE Ended(t)
      BY <2>3 DEF Ended, NoJob, Work
    <2> QED
      BY <1>1, <2>1, <2>2, <2>3
  <1> QED
    BY <1>3, <1>4, <1>5 DEF HoldsAreAsserted

LEMMA SenderStep ==
    ASSUME TypeOK, JobShape, SenderOwnsKey, NEW t \in Call, Step(t)
    PROVE  SenderOwnsKey'
  <1>1. Called(t) \/ Moved(t) \/ Ended(t)
    BY StepShape
  <1>2. FulfilmentEffect(t) /\ AcceptedEffect(t)
    BY StepEffect DEF Effect
  <1>3. fulfilment \in [FulfilmentKey -> FulfilmentStatus] /\ accepted \in [FulfilmentKey -> Nat]
    BY DEF TypeOK
  <1>4. \A s \in Call : pc[s] \in {"sending", "creating"} => job[s].key \in FulfilmentKey
    BY DEF JobShape, Shaped
  \* A fulfilment that exists stays.
  <1>5. \A k \in FulfilmentKey : fulfilment[k] # "none" => fulfilment'[k] # "none"
    BY <1>2, <1>3 DEF FulfilmentEffect, SetFulfilment
  \* What is accepted is what the call was sending.
  <1>6. \A k \in FulfilmentKey :
           \/ accepted'[k] = accepted[k]
           \/ accepted'[k] = accepted[k] + 1 /\ pc[t] = "sending" /\ k = job[t].key
    BY <1>2, <1>3 DEF AcceptedEffect
  <1>7. ASSUME NEW k \in FulfilmentKey
        PROVE  accepted'[k] \in {0, 1} /\ (fulfilment'[k] = "none" => accepted'[k] = 0)
    <2>1. accepted[k] \in {0, 1} /\ (fulfilment[k] = "none" => accepted[k] = 0)
      BY DEF SenderOwnsKey
    <2>2. CASE accepted'[k] = accepted[k]
      BY <1>5, <2>1, <2>2
    <2>3. CASE /\ accepted'[k] = accepted[k] + 1 /\ pc[t] = "sending" /\ k = job[t].key
      <3>1. accepted[k] = 0 /\ fulfilment[k] # "none"
        BY <2>3 DEF SenderOwnsKey
      <3>2. fulfilment'[k] # "none"
        BY <1>5, <3>1
      <3> QED
        BY <2>3, <3>1, <3>2
    <2> QED
      BY <1>6, <2>2, <2>3
  \* Other calls that are sending keep what they have.
  <1>8. ASSUME NEW s \in Call \ {t}, pc'[s] = "sending"
        PROVE  /\ pc[s] = "sending" /\ job'[s].key = job[s].key
               /\ fulfilment'[job'[s].key] # "none" /\ accepted'[job'[s].key] = 0
    <2>1. pc[s] = "sending" /\ job'[s].key = job[s].key
      BY <1>1, <1>8 DEF Called, Moved, Ended, Alone
    <2>2. /\ fulfilment[job[s].key] # "none" /\ accepted[job[s].key] = 0
          /\ pc[t] = "sending" => job[t].key # job[s].key
      BY <2>1 DEF SenderOwnsKey
    <2> QED
      BY <1>4, <1>5, <1>6, <2>1, <2>2
  \* The call itself, if it goes on to send, has just inserted the fulfilment.
  <1>9. ASSUME pc'[t] = "sending"
        PROVE  /\ pc[t] = "creating" /\ job'[t].key = job[t].key
               /\ fulfilment[job[t].key] = "none"
               /\ fulfilment'[job'[t].key] # "none" /\ accepted'[job'[t].key] = 0
    <2>1. Moved(t)
      BY <1>1, <1>9 DEF Called, Now, Ended
    <2>2. pc[t] = "creating" /\ job'[t].key = job[t].key /\ fulfilment[job[t].key] = "none"
      BY <1>9, <2>1 DEF Moved, Path
    <2>3. fulfilment'[job[t].key] # "none"
      BY <1>2, <1>3, <1>4, <1>9, <2>2 DEF FulfilmentEffect, SetFulfilment
    <2>4. accepted'[job[t].key] = 0
      <3>1. job[t].key \in FulfilmentKey /\ pc[t] # "sending"
        BY <1>4, <2>2
      <3>2. accepted[job[t].key] = 0
        BY <2>2, <3>1 DEF SenderOwnsKey
      <3> QED
        BY <1>6, <3>1, <3>2
    <2> QED
      BY <2>2, <2>3, <2>4
  <1>10. ASSUME NEW s \in Call, pc'[s] = "sending", NEW r \in Call \ {s}, pc'[r] = "sending"
         PROVE  job'[r].key # job'[s].key
    <2>1. CASE s # t /\ r # t
      BY <1>8, <1>10, <2>1 DEF SenderOwnsKey
    <2>2. CASE s = t
      BY <1>8, <1>9, <1>10, <2>2 DEF SenderOwnsKey
    <2>3. CASE r = t
      BY <1>8, <1>9, <1>10, <2>3 DEF SenderOwnsKey
    <2> QED
      BY <2>1, <2>2, <2>3
  <1>11. \A s \in Call : pc'[s] = "sending" =>
            fulfilment'[job'[s].key] # "none" /\ accepted'[job'[s].key] = 0
    BY <1>8, <1>9
  <1> QED
    BY <1>7, <1>10, <1>11 DEF SenderOwnsKey

LEMMA RefunderStep ==
    ASSUME TypeOK, JobShape, RefunderOwnsKey, NEW t \in Call, Step(t)
    PROVE  RefunderOwnsKey'
  <1>1. Called(t) \/ Moved(t) \/ Ended(t)
    BY StepShape
  <1>2. RefundEffect(t)
    BY StepEffect DEF Effect
  <1>3. refund \in [RefundKey -> RefundRow]
    BY DEF TypeOK
  <1>4. \A s \in Call : pc[s] \in {"inserting", "completing"} => job[s].key \in RefundKey
    BY DEF JobShape, Shaped
  <1>5. ASSUME NEW s \in Call \ {t}, pc'[s] = "completing"
        PROVE  /\ pc[s] = "completing" /\ job'[s].key = job[s].key
               /\ refund'[job'[s].key].status = "PENDING"
    <2>1. pc[s] = "completing" /\ job'[s].key = job[s].key
      BY <1>1, <1>5 DEF Called, Moved, Ended, Alone
    <2>2. /\ refund[job[s].key].status = "PENDING"
          /\ pc[t] = "completing" => job[t].key # job[s].key
      BY <2>1 DEF RefunderOwnsKey
    <2> QED
      BY <1>2, <1>3, <1>4, <2>1, <2>2 DEF RefundEffect, SetRefund
  <1>6. ASSUME pc'[t] = "completing"
        PROVE  /\ pc[t] = "inserting" /\ job'[t].key = job[t].key
               /\ refund[job[t].key].status = "none"
               /\ refund'[job'[t].key].status = "PENDING"
    <2>1. Moved(t)
      BY <1>1, <1>6 DEF Called, Now, Ended
    <2>2. pc[t] = "inserting" /\ job'[t].key = job[t].key /\ refund[job[t].key].status = "none"
      BY <1>6, <2>1 DEF Moved, Path
    <2> QED
      BY <1>2, <1>3, <1>4, <1>6, <2>2 DEF RefundEffect, SetRefund
  <1>7. ASSUME NEW s \in Call, pc'[s] = "completing", NEW r \in Call \ {s}, pc'[r] = "completing"
        PROVE  job'[r].key # job'[s].key
    <2>1. CASE s # t /\ r # t
      BY <1>5, <1>7, <2>1 DEF RefunderOwnsKey
    <2>2. CASE s = t
      BY <1>5, <1>6, <1>7, <2>2 DEF RefunderOwnsKey
    <2>3. CASE r = t
      BY <1>5, <1>6, <1>7, <2>3 DEF RefunderOwnsKey
    <2> QED
      BY <2>1, <2>2, <2>3
  <1>8. \A s \in Call : pc'[s] = "completing" => refund'[job'[s].key].status = "PENDING"
    BY <1>5, <1>6
  <1> QED
    BY <1>7, <1>8 DEF RefunderOwnsKey

\* What is refunded grows, and by the amount of the call that completes a refund.
LEMMA RefundedStep ==
    ASSUME TypeOK, JobShape, RefunderOwnsKey, NEW t \in Call, Step(t)
    PROVE  /\ Refunded \in Nat /\ Refunded' \in Nat /\ job[t].amount \in Nat
           /\ \/ Refunded' = Refunded /\ (pc[t] = "completing" => pc'[t] = "idle")
              \/ pc[t] = "completing" /\ Refunded' = Refunded + job[t].amount
           /\ Refunded <= Refunded'
  <1>1. RefundEffect(t)
    BY StepEffect DEF Effect
  <1>2. refund \in [RefundKey -> RefundRow] /\ refund' \in [RefundKey -> RefundRow]
    BY TypeStep DEF TypeOK
  <1>3. Refunded \in Nat /\ Refunded' \in Nat
    <2>1. CompletedMinor' \in [RefundKey -> 0..MaxAmount]
      BY <1>2, MaxAmountAssumption DEF CompletedMinor, RefundRow
    <2>2. Total(CompletedMinor') \in Nat
      BY <2>1, OrdersAssumption, TotalOfCredits
    <2> QED
      BY <1>2, <2>2, RefundedType DEF Refunded
  <1>4. job[t].amount \in 0..MaxAmount /\ job[t].amount \in Nat
    BY MaxAmountAssumption DEF TypeOK, Job
  <1>5. CASE refund' = refund
    <2>1. Refunded' = Refunded
      BY <1>5 DEF Refunded, CompletedMinor
    <2>2. CASE pc[t] = "completing" /\ pc'[t] # "idle"
      <3>1. SetRefund(t, "COMPLETED")
        BY <1>1, <2>2 DEF RefundEffect
      <3>2. job[t].key \in RefundKey /\ refund[job[t].key].status = "PENDING"
        BY <2>2 DEF RefunderOwnsKey, JobShape, Shaped
      <3> QED
        BY <1>2, <1>5, <3>1, <3>2 DEF SetRefund
    <2> QED
      BY <1>3, <1>4, <2>1, <2>2
  <1>6. CASE refund' # refund
    <2>1. CASE pc[t] = "inserting"
      <3>1. /\ job[t].key \in RefundKey /\ refund[job[t].key].status # "COMPLETED"
            /\ SetRefund(t, "PENDING")
        BY <1>1, <1>6, <2>1 DEF RefundEffect, JobShape, Shaped
      <3>2. Refunded' = Refunded
        <4>1. refund' = [refund EXCEPT ![job[t].key] = [status |-> "PENDING", amount |-> job[t].amount]]
          BY <3>1 DEF SetRefund
        <4>2. Refunded' = IF "PENDING" = "COMPLETED" THEN Refunded + job[t].amount ELSE Refunded
          BY <1>2, <1>4, <3>1, <4>1, RefundedUpdate
        <4> QED
          BY <4>2
      <3> QED
        BY <1>3, <1>4, <2>1, <3>2
    <2>2. CASE pc[t] = "completing"
      <3>1. /\ job[t].key \in RefundKey /\ refund[job[t].key].status # "COMPLETED"
            /\ SetRefund(t, "COMPLETED")
        BY <1>1, <1>6, <2>2 DEF RefundEffect, JobShape, Shaped, RefunderOwnsKey
      <3>2. Refunded' = Refunded + job[t].amount
        <4>1. refund' = [refund EXCEPT ![job[t].key] = [status |-> "COMPLETED", amount |-> job[t].amount]]
          BY <3>1 DEF SetRefund
        <4>2. Refunded' = IF "COMPLETED" = "COMPLETED" THEN Refunded + job[t].amount ELSE Refunded
          BY <1>2, <1>4, <3>1, <4>1, RefundedUpdate
        <4> QED
          BY <4>2
      <3> QED
        BY <1>3, <1>4, <2>2, <3>2
    <2> QED
      BY <1>1, <1>6, <2>1, <2>2 DEF RefundEffect
  <1> QED
    BY <1>5, <1>6

LEMMA OwedType ==
    ASSUME TypeOK
    PROVE  /\ Owed \in [Call -> Nat] /\ Total(Owed) \in Nat
           /\ (\A s \in Unsettled : job[s].amount <= TotalMinor) =>
                 Total(Owed) <= TotalMinor * Cardinality(Unsettled)
  <1>1. \A s \in Call : job[s].amount \in Nat
    BY MaxAmountAssumption DEF TypeOK, Job
  <1>2. Owed \in [Call -> Nat]
    BY <1>1 DEF Owed
  <1>3. Unsettled \in SUBSET Call
    BY DEF Unsettled
  <1>4. ASSUME \A s \in Unsettled : job[s].amount <= TotalMinor
        PROVE  Total(Owed) <= TotalMinor * Cardinality(Unsettled)
    <2>1. /\ \A s \in Unsettled : Owed[s] <= TotalMinor
          /\ \A s \in Call \ Unsettled : Owed[s] = 0
      BY <1>3, <1>4 DEF Owed
    <2> QED
      BY <1>2, <1>3, <2>1, OrdersAssumption, TotalIsSmall
  <1> QED
    BY <1>2, <1>4, OrdersAssumption, TotalOfCredits

\* What a step changes in what is owed: the amount of the call that takes it.
LEMMA OwedStep ==
    ASSUME TypeOK, NEW t \in Call, Alone(t), NEW n \in Nat,
           n = IF t \in Unsettled' THEN job'[t].amount ELSE 0
    PROVE  Total(Owed') = Total(Owed) - Owed[t] + n
  <1>1. Owed \in [Call -> Int]
    BY OwedType
  <1>2. \A s \in Call \ {t} : Owed'[s] = Owed[s]
    BY DEF Owed, Unsettled, Alone
  <1>3. Owed' = [Owed EXCEPT ![t] = n]
    BY <1>2 DEF Owed
  <1>4. n \in Int
    OBVIOUS
  <1>5. Total([Owed EXCEPT ![t] = n]) = Total(Owed) - Owed[t] + n
    BY <1>1, <1>4, OrdersAssumption, TotalUpdate
  <1> QED
    BY <1>3, <1>5

\* As many totals as there are calls past the check, one more each time.
LEMMA MoreRoom ==
    ASSUME NEW n \in Nat, NEW m \in Nat, n <= m
    PROVE  /\ TotalMinor * n \in Nat /\ TotalMinor * n <= TotalMinor * m
           /\ TotalMinor * (n + 1) = TotalMinor * n + TotalMinor
  <1>1. PICK d \in Nat : m = n + d
    <2>1. m - n \in Nat /\ m = n + (m - n)
      OBVIOUS
    <2> QED
      BY <2>1
  <1>2. TotalMinor * n \in Nat /\ TotalMinor * d \in Nat
    BY OrdersAssumption
  <1>3. TotalMinor * m = TotalMinor * n + TotalMinor * d
    BY <1>1, OrdersAssumption
  <1>4. TotalMinor * (n + 1) = TotalMinor * n + TotalMinor
    BY OrdersAssumption
  <1> QED
    BY <1>2, <1>3, <1>4

LEMMA RoomStep ==
    ASSUME TypeOK, JobShape, RefunderOwnsKey, RoomIsLeft, NEW t \in Call, Step(t)
    PROVE  RoomIsLeft'
  <1>1. (Called(t) \/ Moved(t) \/ Ended(t)) /\ Alone(t)
    BY StepShape DEF Called, Moved, Ended
  <1>2. /\ Refunded \in Nat /\ Refunded' \in Nat /\ job[t].amount \in Nat /\ TotalMinor \in Nat
        /\ Refunded' = Refunded \/ (pc[t] = "completing" /\ Refunded' = Refunded + job[t].amount)
    BY RefundedStep, OrdersAssumption
  <1>3. /\ Refunded + Total(Owed) <= TotalMinor * crowd
        /\ crowd \in Nat /\ crowd >= 1 /\ Cardinality(Unsettled) <= crowd
        /\ \A s \in Unsettled : job[s].amount <= TotalMinor
    BY DEF RoomIsLeft, TypeOK
  <1>4. /\ crowd' \in Nat /\ crowd' >= crowd /\ Cardinality(Unsettled') <= crowd'
    BY <1>3, CrowdGrows, UnsettledFinite DEF Step
  <1>5. /\ Total(Owed) \in Nat /\ Owed[t] \in Nat
        /\ Total(Owed) <= TotalMinor * Cardinality(Unsettled)
    BY <1>3, OwedType
  <1>6. /\ \A s \in Call \ {t} : s \in Unsettled' <=> s \in Unsettled
        /\ \A s \in Call \ {t} : job'[s] = job[s]
        /\ Unsettled \subseteq Call /\ Unsettled' \subseteq Call
    BY <1>1 DEF Unsettled, Alone
  <1>7. TotalMinor * crowd <= TotalMinor * crowd' /\ TotalMinor * crowd' \in Nat
    BY <1>3, <1>4, MoreRoom
  <1>8. CASE t \in Unsettled' /\ t \notin Unsettled
    <2>1. Moved(t) /\ pc[t] = "summing"
      BY <1>1, <1>8 DEF Unsettled, Called, Now, Moved, Path, Ended
    <2>2. Refunded + job[t].amount <= TotalMinor /\ job'[t].amount = job[t].amount
      BY <2>1 DEF Moved
    <2>3. Owed[t] = 0 /\ Refunded' = Refunded
      BY <1>2, <1>8, <2>1 DEF Owed
    <2>4. Total(Owed') = Total(Owed) - Owed[t] + job[t].amount
      BY <1>1, <1>2, <1>8, <2>2, OwedStep
    <2>5. Unsettled' = Unsettled \cup {t}
      BY <1>6, <1>8
    <2>6. Cardinality(Unsettled') = Cardinality(Unsettled) + 1
      BY <1>8, <2>5, UnsettledFinite, FS_AddElement
    <2>7. TotalMinor * Cardinality(Unsettled') = TotalMinor * Cardinality(Unsettled) + TotalMinor
      BY <2>6, UnsettledFinite, MoreRoom
    <2>8. TotalMinor * Cardinality(Unsettled') <= TotalMinor * crowd'
      BY <1>4, UnsettledFinite, MoreRoom
    <2>9. TotalMinor * Cardinality(Unsettled) \in Nat
      BY UnsettledFinite, MoreRoom
    <2>10. Refunded' + Total(Owed') <= TotalMinor * crowd'
      <3> DEFINE a == TotalMinor * Cardinality(Unsettled)
                 b == TotalMinor * Cardinality(Unsettled')
                 c == TotalMinor * crowd'
                 o == Total(Owed)
                 p == Total(Owed')
      <3>1. p = o + job[t].amount /\ o <= a /\ a \in Nat /\ b = a + TotalMinor /\ b <= c
            /\ c \in Nat /\ o \in Nat
        BY <1>2, <1>5, <1>7, <2>3, <2>4, <2>7, <2>8, <2>9
      <3> HIDE DEF a, b, c, o, p
      <3>2. Refunded' + p <= c
        BY <1>2, <2>2, <2>3, <3>1
      <3> QED
        BY <3>2 DEF c, p
    <2>11. \A s \in Unsettled' : job'[s].amount <= TotalMinor
      BY <1>2, <1>3, <1>6, <2>2
    <2> QED
      BY <1>3, <1>4, <2>10, <2>11 DEF RoomIsLeft
  <1>9. CASE t \in Unsettled' => t \in Unsettled
    <2>1. t \in Unsettled' => /\ pc[t] = "inserting" /\ pc'[t] = "completing"
                              /\ job'[t].amount = job[t].amount
      BY <1>1, <1>9 DEF Unsettled, Called, Now, Moved, Path, Ended
    <2>2. Owed[t] = IF t \in Unsettled THEN job[t].amount ELSE 0
      BY DEF Owed
    <2>3. pc[t] = "completing" => t \in Unsettled /\ t \notin Unsettled'
      BY <1>1, <2>1 DEF Unsettled
    <2>4. Refunded' + Total(Owed') <= Refunded + Total(Owed)
      <3> DEFINE n == IF t \in Unsettled' THEN job'[t].amount ELSE 0
      <3>1. n \in Nat
        BY <1>2, <2>1
      <3>2. Total(Owed') = Total(Owed) - Owed[t] + n
        BY <1>1, <3>1, OwedStep
      <3>3. CASE pc[t] = "completing"
        <4>1. n = 0 /\ Owed[t] = job[t].amount
          BY <2>2, <2>3, <3>3
        <4> HIDE DEF n
        <4> QED
          BY <1>2, <1>5, <3>2, <4>1
      <3>4. CASE pc[t] # "completing"
        <4>1. n <= Owed[t]
          BY <1>2, <1>9, <2>1, <2>2
        <4> HIDE DEF n
        <4> QED
          BY <1>2, <1>5, <3>1, <3>2, <3>4, <4>1
      <3> QED
        BY <3>3, <3>4
    <2>5. Total(Owed') \in Int
      <3> DEFINE n == IF t \in Unsettled' THEN job'[t].amount ELSE 0
      <3>1. n \in Nat
        BY <1>2, <2>1
      <3>2. Total(Owed') = Total(Owed) - Owed[t] + n
        BY <1>1, <3>1, OwedStep
      <3> HIDE DEF n
      <3> QED
        BY <1>5, <3>1, <3>2
    <2>6. Refunded' + Total(Owed') <= TotalMinor * crowd'
      <3> DEFINE c == TotalMinor * crowd
                 d == TotalMinor * crowd'
                 before == Refunded + Total(Owed)
                 after == Refunded' + Total(Owed')
      <3>1. /\ before <= c /\ c <= d /\ after <= before
            /\ c \in Int /\ d \in Int /\ before \in Int /\ after \in Int
        BY <1>2, <1>3, <1>5, <1>7, <2>4, <2>5, MoreRoom
      <3> HIDE DEF c, d, before, after
      <3>2. after <= d
        BY <3>1
      <3> QED
        BY <3>2 DEF d, after
    <2>7. \A s \in Unsettled' : job'[s].amount <= TotalMinor
      BY <1>3, <1>6, <1>9, <2>1
    <2> QED
      BY <1>3, <1>4, <2>6, <2>7 DEF RoomIsLeft
  <1> QED
    BY <1>8, <1>9

LEMMA SumsStep ==
    ASSUME TypeOK, JobShape, RefunderOwnsKey, SumsGrow, NEW t \in Call, Step(t)
    PROVE  SumsGrow'
  <1>1. Called(t) \/ Moved(t) \/ Ended(t)
    BY StepShape
  <1>2. /\ Refunded \in Nat /\ Refunded' \in Nat /\ job[t].amount \in Nat /\ TotalMinor \in Nat
        /\ \/ Refunded' = Refunded /\ (pc[t] = "completing" => pc'[t] = "idle")
           \/ pc[t] = "completing" /\ Refunded' = Refunded + job[t].amount
        /\ Refunded <= Refunded'
    BY RefundedStep, OrdersAssumption
  <1>3. \A s \in Call : seen[s].sum \in Nat /\ seen[s].sum <= Refunded
    BY DEF SumsGrow, TypeOK
  <1>4. ASSUME NEW s \in Call \ {t}
        PROVE  /\ seen'[s].sum <= Refunded'
               /\ job'[s].op = "refund" /\ pc'[s] \in {"reading", "writing"} =>
                     Refunded' >= TotalMinor
    <2>1. pc'[s] = pc[s] /\ job'[s] = job[s] /\ seen'[s] = seen[s]
      BY <1>1 DEF Called, Moved, Ended, Alone
    <2>2. job[s].op = "refund" /\ pc[s] \in {"reading", "writing"} => Refunded >= TotalMinor
      BY DEF SumsGrow
    <2> QED
      BY <1>2, <1>3, <2>1, <2>2
  <1>5. seen'[t].sum <= Refunded'
    <2>1. seen'[t].sum \in {seen[t].sum, Refunded, 0}
      BY <1>1 DEF Called, Moved, Ended, NothingSeen
    <2> QED
      BY <1>2, <1>3, <2>1
  <1>6. ASSUME job'[t].op = "refund", pc'[t] \in {"reading", "writing"}
        PROVE  Refunded' >= TotalMinor
    <2>1. Moved(t)
      BY <1>1, <1>6 DEF Called, Now, Ended
    <2>2. job[t].op = "refund" /\ Shaped(t)
      BY <1>6, <2>1 DEF Moved, JobShape
    <2>3. pc[t] \in {"reading", "completing"}
      BY <1>6, <2>1, <2>2 DEF Moved, Path, Shaped
    <2>4. CASE pc[t] = "reading"
      <3>1. Refunded >= TotalMinor
        BY <2>2, <2>4 DEF SumsGrow
      <3> QED
        BY <1>2, <3>1
    <2>5. CASE pc[t] = "completing"
      <3>1. seen[t].sum + job[t].amount >= TotalMinor
        BY <2>1, <2>5 DEF Moved
      <3>2. Refunded' = Refunded + job[t].amount
        BY <1>2, <1>6, <2>5
      <3> QED
        BY <1>2, <1>3, <3>1, <3>2
    <2> QED
      BY <2>3, <2>4, <2>5
  <1> QED
    BY <1>4, <1>5, <1>6 DEF SumsGrow

\* The statuses nothing has to have been shipped or paid back for.
Plain == {"NEW", "CONFIRMED", "IN_PRODUCTION", "ON_HOLD", "CANCELLED"}

LEMMA PlainIsEarned == Plain \subseteq Earned /\ Plain \subseteq Earned'
  BY DEF Plain, Earned, Status

\* What was earned stays earned: shipments and refunds are never undone.
LEMMA EarnedGrows ==
    ASSUME TypeOK, JobShape, RefunderOwnsKey, NEW t \in Call, Step(t)
    PROVE  Earned \subseteq Earned'
  <1>1. Refunded \in Nat /\ Refunded' \in Nat /\ Refunded <= Refunded' /\ TotalMinor \in Nat
    BY RefundedStep, OrdersAssumption
  <1>2. \A k \in FulfilmentKey :
           /\ shipment[k] # "none" => shipment'[k] # "none"
           /\ shipment[k] = "DELIVERED" => shipment'[k] = "DELIVERED"
    <2>1. ShipmentEffect(t) /\ shipment \in [FulfilmentKey -> {"none", "IN_TRANSIT", "DELIVERED"}]
      BY StepEffect DEF Effect, TypeOK
    <2> QED
      BY <2>1 DEF ShipmentEffect
  <1> SUFFICES ASSUME NEW s \in Earned
               PROVE  s \in Earned'
    OBVIOUS
  <1>3. Refunded >= TotalMinor => Refunded' >= TotalMinor
    BY <1>1
  <1> QED
    BY <1>2, <1>3 DEF Earned

LEMMA UnearnedStep ==
    ASSUME TypeOK, JobShape, HoldsAreAsserted, RefunderOwnsKey, SumsGrow, NothingUnearned,
           NEW t \in Call, Step(t)
    PROVE  NothingUnearned'
  <1> SUFFICES ASSUME ~ channel
               PROVE  /\ status' \in Earned' /\ heldFrom' \in Earned' \cup {"none"}
                      /\ \A s \in Call :
                            /\ job'[s].op # "sync"
                            /\ seen'[s].status \in Earned'
                            /\ pc'[s] \in {"packed", "delivered", "reading", "writing"}
                                  /\ job'[s].op \in {"release", "ship", "deliver"} =>
                               job'[s].to \in Earned'
                            /\ pc'[s] = "writing" => job'[s].to \in Earned'
    BY StepEffect DEF NothingUnearned, Effect, Shared
  <1>1. Called(t) \/ Moved(t) \/ Ended(t)
    BY StepShape
  <1>2. Earned \subseteq Earned' /\ Plain \subseteq Earned'
    BY EarnedGrows, PlainIsEarned
  <1>3. /\ status \in Earned /\ heldFrom \in Earned \cup {"none"}
        /\ \A s \in Call :
              /\ job[s].op # "sync"
              /\ seen[s].status \in Earned
              /\ pc[s] \in {"packed", "delivered", "reading", "writing"}
                    /\ job[s].op \in {"release", "ship", "deliver"} => job[s].to \in Earned
              /\ pc[s] = "writing" => job[s].to \in Earned
    BY DEF NothingUnearned
  <1>4. Shaped(t) /\ job[t].op \in Operations \cup {"none"}
    BY DEF JobShape, TypeOK, Job
  <1>5. status' \in Earned' /\ heldFrom' \in Earned' \cup {"none"}
    <2>1. Shared(t)
      BY StepEffect DEF Effect
    <2> QED
      BY <1>2, <1>3, <2>1 DEF Shared, Plain
  <1>6. ASSUME NEW s \in Call \ {t}
        PROVE  pc'[s] = pc[s] /\ job'[s] = job[s] /\ seen'[s] = seen[s]
    BY <1>1 DEF Called, Moved, Ended, Alone
  <1>7. job'[t].op # "sync"
    BY <1>1, <1>3 DEF Called, Now, Moved, Ended, NoJob, Work
  <1>8. seen'[t].status \in Earned'
    <2>1. seen'[t].status \in {status, seen[t].status, "NEW"}
      BY <1>1 DEF Called, Moved, Ended, NothingSeen
    <2> QED
      BY <1>2, <1>3, <2>1 DEF Plain
  <1>9. ASSUME pc'[t] \in {"packed", "delivered", "reading", "writing"},
               job'[t].op \in {"release", "ship", "deliver"}
        PROVE  job'[t].to \in Earned'
    <2>1. Moved(t)
      BY <1>1, <1>9 DEF Called, Now, Ended
    <2>2. pc[t] \in {"looking", "packing", "packed", "delivering", "delivered", "reading"}
      BY <1>4, <1>9, <2>1 DEF Moved, Path, Shaped
    <2>3. CASE pc[t] = "looking"
      <3>1. ReleaseTarget(heldFrom) \in Earned'
        BY <1>2, <1>3 DEF ReleaseTarget, Plain
      <3> QED
        BY <2>1, <2>3, <3>1 DEF Moved
    <2>4. CASE pc[t] \in {"packing", "delivering"}
      <3>1. ShipmentEffect(t) /\ shipment \in [FulfilmentKey -> {"none", "IN_TRANSIT", "DELIVERED"}]
        BY StepEffect DEF Effect, TypeOK
      <3>2. job[t].key \in FulfilmentKey
        BY <1>4, <2>4 DEF Shaped
      <3>3. CASE pc[t] = "packing"
        <4>1. shipment'[job[t].key] # "none"
          BY <2>1, <3>1, <3>2, <3>3 DEF ShipmentEffect, Moved, Path
        <4>2. "SHIPPED" \in Earned'
          BY <3>2, <4>1 DEF Earned, Status
        <4> QED
          BY <1>4, <2>1, <3>3, <4>2 DEF Moved, Shaped
      <3>4. CASE pc[t] = "delivering"
        <4>1. shipment'[job[t].key] = "DELIVERED"
          BY <2>1, <3>1, <3>2, <3>4 DEF ShipmentEffect, Moved, Path
        <4>2. "DELIVERED" \in Earned'
          BY <3>2, <4>1 DEF Earned, Status
        <4> QED
          BY <1>4, <2>1, <3>4, <4>2 DEF Moved, Shaped
      <3> QED
        BY <2>4, <3>3, <3>4
    <2>5. CASE pc[t] \in {"packed", "delivered", "reading"}
      BY <1>2, <1>3, <1>9, <2>1, <2>5 DEF Moved
    <2> QED
      BY <2>2, <2>3, <2>4, <2>5
  <1>10. ASSUME pc'[t] = "writing"
         PROVE  job'[t].to \in Earned'
    <2>1. CASE Called(t)
      BY <1>2, <1>7, <1>10, <2>1 DEF Called, Now, Plain
    <2>2. CASE Moved(t)
      <3>1. pc[t] = "reading" /\ job'[t].to = job[t].to /\ CanTransition(status, job[t].to)
        BY <1>10, <2>2 DEF Moved, Path
      <3>2. CASE job[t].op \in {"release", "ship", "deliver"}
        BY <1>2, <1>3, <3>1, <3>2
      <3>3. CASE job[t].op = "refund"
        <4>1. job[t].to = "REFUNDED" /\ Refunded >= TotalMinor
          BY <1>4, <3>1, <3>3 DEF SumsGrow, Shaped
        <4>2. status \in {"DELIVERED", "CLOSED"}
          BY <3>1, <4>1 DEF CanTransition, Transitions, Earned, TypeOK, Status
        <4>3. "REFUNDED" \in Earned
          BY <1>3, <4>1, <4>2 DEF Earned, Status
        <4> QED
          BY <1>2, <3>1, <4>1, <4>3
      <3>4. CASE job[t].op \in {"hold", "cancel", "fulfil"}
        BY <1>2, <1>4, <3>1, <3>4 DEF Shaped, Plain
      <3> QED
        BY <1>3, <1>4, <3>1, <3>2, <3>3, <3>4 DEF Shaped, Operations
    <2>3. CASE Ended(t)
      BY <1>10, <2>3 DEF Ended
    <2> QED
      BY <1>1, <2>1, <2>2, <2>3
  <1>11. ASSUME NEW s \in Call
         PROVE  /\ job'[s].op # "sync"
                /\ seen'[s].status \in Earned'
                /\ pc'[s] \in {"packed", "delivered", "reading", "writing"}
                      /\ job'[s].op \in {"release", "ship", "deliver"} =>
                   job'[s].to \in Earned'
                /\ pc'[s] = "writing" => job'[s].to \in Earned'
    <2>1. CASE s = t
      BY <1>7, <1>8, <1>9, <1>10, <2>1
    <2>2. CASE s # t
      BY <1>2, <1>3, <1>6, <2>2
    <2> QED
      BY <2>1, <2>2
  <1> QED
    BY <1>5, <1>11

\* Redeeming points, and giving them back, concerns nobody else.
LEMMA PurchaseStep ==
    ASSUME IInv, purchase' \in [Purchase -> {"none", "CONFIRMED", "REFUNDED"}],
           UNCHANGED <<channel, status, heldFrom, refund, fulfilment, accepted, shipment,
                       pc, job, seen, crowd>>
    PROVE  IInv'
  <1>1. Refunded' = Refunded
    BY DEF Refunded, CompletedMinor
  <1>2. Earned' = Earned
    BY <1>1 DEF Earned
  <1>3. TypeOK' /\ JobShape' /\ SenderOwnsKey'
    BY DEF IInv, TypeOK, JobShape, Shaped, SenderOwnsKey
  <1>4. HoldsAreAsserted' /\ RefunderOwnsKey'
    BY DEF IInv, HoldsAreAsserted, RefunderOwnsKey
  <1>5. Unsettled' = Unsettled /\ Owed' = Owed
    BY DEF Unsettled, Owed
  <1>6. RoomIsLeft' /\ SumsGrow'
    BY <1>1, <1>5 DEF IInv, RoomIsLeft, SumsGrow
  <1>7. NothingUnearned'
    BY <1>2 DEF IInv, NothingUnearned
  <1> QED
    BY <1>3, <1>4, <1>6, <1>7 DEF IInv

\* Nobody passes the check, so the crowd stays what it is.
LEMMA CrowdStays ==
    ASSUME IInv, pc' = pc, NoteCrowd
    PROVE  crowd' = crowd
  <1>1. Unsettled' = Unsettled
    BY DEF Unsettled
  <1> QED
    BY <1>1, CrowdGrows DEF IInv, TypeOK, RoomIsLeft

-----------------------------------------------------------------------------
(* The theorems *)

LEMMA InitHolds == Init => IInv
  <1> SUFFICES ASSUME Init
               PROVE  IInv
    OBVIOUS
  <1>1. \A t \in Call : pc[t] = "idle" /\ job[t] = NoJob /\ seen[t] = NothingSeen
    BY DEF Init
  <1>2. 0 \in 0..MaxAmount /\ TotalMinor \in Nat
    BY MaxAmountAssumption, OrdersAssumption
  <1>3. NoJob \in Job /\ NothingSeen \in [status : Status, sum : Nat]
    BY <1>2 DEF NoJob, Work, NothingSeen, Job, Status
  <1>4. Refunded = 0
    <2>1. CompletedMinor = [k \in RefundKey |-> 0]
      BY DEF Init, CompletedMinor
    <2> QED
      BY <2>1, TotalOfNothing DEF Refunded
  <1>5. TypeOK
    <2>1. refund \in [RefundKey -> RefundRow]
      BY <1>2 DEF Init, RefundRow
    <2>2. /\ pc \in [Call -> Stage] /\ job \in [Call -> Job]
          /\ seen \in [Call -> [status : Status, sum : Nat]]
      BY <1>3 DEF Init, Stage
    <2>3. channel \in BOOLEAN /\ status \in Status /\ heldFrom \in Status \cup {"none"}
      BY OrdersAssumption DEF Init, Status, ChannelStatus
    <2> QED
      BY <2>1, <2>2, <2>3 DEF TypeOK, Init, FulfilmentStatus
  <1>6. JobShape
    BY <1>1 DEF JobShape, Shaped, NoJob, Work
  <1>7. SenderOwnsKey /\ HoldsAreAsserted /\ RefunderOwnsKey
    BY <1>1 DEF Init, SenderOwnsKey, HoldsAreAsserted, RefunderOwnsKey, NoJob, Work
  <1>8. RoomIsLeft /\ SumsGrow
    <2>1. Unsettled = {} /\ crowd = 1
      BY <1>1 DEF Unsettled, Init
    <2>2. Owed = [t \in Call |-> 0]
      BY <2>1 DEF Owed
    <2>3. Total(Owed) = 0 /\ Cardinality(Unsettled) = 0
      BY <2>1, <2>2, TotalOfNothing, FS_EmptySet
    <2> QED
      BY <1>1, <1>2, <1>4, <2>1, <2>3 DEF RoomIsLeft, SumsGrow, NoJob, Work, NothingSeen
  <1>9. NothingUnearned
    <2>1. ~ channel => status = "NEW" /\ heldFrom = "none"
      BY DEF Init
    <2> QED
      BY <1>1, <2>1, PlainIsEarned DEF NothingUnearned, NoJob, Work, NothingSeen, Plain
  <1> QED
    BY <1>5, <1>6, <1>7, <1>8, <1>9 DEF IInv

LEMMA StepHolds == IInv /\ [Next]_vars => IInv'
  <1> SUFFICES ASSUME IInv, [Next]_vars
               PROVE  IInv'
    OBVIOUS
  <1>1. purchase \in [Purchase -> {"none", "CONFIRMED", "REFUNDED"}]
    BY DEF IInv, TypeOK
  <1>2. ASSUME NEW t \in Call, Step(t)
        PROVE  IInv'
    <2>1. /\ TypeOK /\ JobShape /\ SenderOwnsKey /\ HoldsAreAsserted /\ RefunderOwnsKey
          /\ RoomIsLeft /\ SumsGrow /\ NothingUnearned
      BY DEF IInv
    <2>2. TypeOK' /\ JobShape' /\ SenderOwnsKey' /\ HoldsAreAsserted' /\ RefunderOwnsKey'
      BY <1>2, <2>1, TypeStep, ShapeStep, SenderStep, HoldStep, RefunderStep
    <2>3. RoomIsLeft' /\ SumsGrow' /\ NothingUnearned'
      BY <1>2, <2>1, RoomStep, SumsStep, UnearnedStep
    <2> QED
      BY <2>2, <2>3 DEF IInv
  <1>3. ASSUME NEW p \in Purchase, Redeem(p) \/ GiveBack(p), NoteCrowd
        PROVE  IInv'
    BY <1>1, <1>3, PurchaseStep, CrowdStays DEF Redeem, GiveBack
  <1>4. CASE Rest \/ UNCHANGED vars
    BY <1>1, <1>4, PurchaseStep DEF Rest, vars, tables
  <1> QED
    BY <1>2, <1>3, <1>4 DEF Next, Step

\* In every state that the calls of Orders reach, the invariant above holds.
THEOREM Invariance == Spec => []IInv
  <1> QED
    BY InitHolds, StepHolds, PTL DEF Spec

\* Whatever the number of calls and keys, the state is of its type.
THEOREM TypeCorrect == Spec => []TypeOK
  <1>1. IInv => TypeOK
    BY DEF IInv
  <1> QED
    BY <1>1, Invariance, PTL

\* An order created by hand is SHIPPED, DELIVERED, CLOSED or REFUNDED only with
\* the shipments, deliveries and refunds of the whole amount that this takes,
\* for any number of calls that hold, release, ship, deliver, refund and fail.
THEOREM EndStatesEarned == Spec => []EndStatesAreEarned
  <1>1. IInv => EndStatesAreEarned
    BY DEF IInv, NothingUnearned, EndStatesAreEarned
  <1> QED
    BY <1>1, Invariance, PTL

\* The unique Idempotency-Key of a fulfilment lets one call at most through to
\* the provider, once, for any number of racing submissions.
THEOREM SubmittedOnce == Spec => []SubmittedOncePerKey
  <1>1. IInv => SubmittedOncePerKey
    BY DEF IInv, SenderOwnsKey, SubmittedOncePerKey
  <1> QED
    BY <1>1, Invariance, PTL

\* A held order can always be released, whoever wrote which event when.
THEOREM ReleaseAllowed == Spec => []HeldCanBeReleased
  <1>1. IInv => HeldCanBeReleased
    BY DEF IInv, HoldsAreAsserted, Holdable, HeldCanBeReleased, ReleaseTarget,
           CanTransition, Transitions
  <1> QED
    BY <1>1, Invariance, PTL

\* Refunds never exceed as many totals of the order as there were refunds past
\* the check at once, for any number of calls, any amounts, keys and failures and
\* races with everything else: one total if they never raced.
THEOREM RefundsBounded == Spec => []RefundsWithinTotal
  <1>1. IInv => RefundsWithinTotal
    <2> SUFFICES ASSUME IInv
                 PROVE  RefundsWithinTotal
      OBVIOUS
    <2>1. TypeOK /\ Refunded + Total(Owed) <= TotalMinor * crowd /\ crowd \in Nat
      BY DEF IInv, RoomIsLeft, TypeOK
    <2>2. Refunded \in Nat /\ Total(Owed) \in Nat /\ TotalMinor * crowd \in Nat
      BY <2>1, OwedType, RefundedType, MoreRoom DEF TypeOK
    <2> QED
      BY <2>1, <2>2 DEF RefundsWithinTotal
  <1> QED
    BY <1>1, Invariance, PTL

\* An order becomes REFUNDED only by its channel's word or when the whole
\* amount has been paid back.
THEOREM RefundedPaidBack == Spec => RefundedIsPaidBack
  <1> DEFINE A == status' = "REFUNDED" /\ status # "REFUNDED" =>
                     \/ Refunded >= TotalMinor
                     \/ \E t \in Call : pc[t] = "writing" /\ job[t].op = "sync"
  <1>1. ASSUME IInv, [Next]_vars
        PROVE  [A]_vars
    <2>1. CASE status' = status
      BY <2>1
    <2>2. ASSUME NEW t \in Call, Step(t), status' # status
          PROVE  A
      <3>1. Shared(t) /\ Shaped(t) /\ job[t].op \in Operations \cup {"none"}
        BY <1>1, <2>2, StepEffect DEF Effect, IInv, JobShape, TypeOK, Job
      <3>2. CASE status' # "REFUNDED"
        BY <3>2
      <3>3. CASE status' = "REFUNDED"
        <4>1. pc[t] = "writing" /\ job[t].to = "REFUNDED"
          BY <2>2, <3>1, <3>3 DEF Shared
        <4>2. job[t].op \in {"sync", "refund"}
          BY <3>1, <4>1 DEF Shaped, Operations, Holdable
        <4>3. job[t].op = "refund" => Refunded >= TotalMinor
          BY <1>1, <4>1 DEF IInv, SumsGrow
        <4> QED
          BY <4>1, <4>2, <4>3
      <3> QED
        BY <3>2, <3>3
    <2>3. CASE \E p \in Purchase : Redeem(p) \/ GiveBack(p)
      BY <2>1, <2>3 DEF Redeem, GiveBack
    <2>4. CASE Rest \/ UNCHANGED vars
      BY <2>4 DEF Rest
    <2> HIDE DEF A
    <2> QED
      BY <1>1, <2>1, <2>2, <2>3, <2>4 DEF Next, Step
  <1>2. IInv /\ [Next]_vars => [A]_vars
    BY <1>1
  <1> QED
    BY <1>2, Invariance, PTL DEF Spec, RefundedIsPaidBack

=============================================================================
