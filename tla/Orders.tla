------------------------------- MODULE Orders -------------------------------
(***************************************************************************)
(* One order and everything that writes its status                         *)
(* (apps/api/src/orders): hold, release and cancel, the sync of the        *)
(* channel it came from, fulfilment, shipment and delivery, and refunds,   *)
(* with the points redeemed on it.  No two of these share a transaction    *)
(* or a lock: every await is a step, a status is asserted against the row  *)
(* read earlier and written by id alone, and a call may fail in between.   *)
(*                                                                         *)
(* RedemptionService's confirm and refund are one step each: PointsWallet  *)
(* shows them to be all or nothing.  OrderExceptionService.open has no     *)
(* caller, so there are no exceptions to resolve.                          *)
(***************************************************************************)
EXTENDS ColumnSums

CONSTANTS Call,
          MaxAmount,       \* no single refund asks for more than this
          RefundKey,       \* idempotency keys of refunds: each names its row
          FulfilmentKey,   \* idempotency keys of fulfilments, likewise
          Purchase,        \* redemptions of points that may be made on the order
          TotalMinor,      \* Order.totalMinor
          Ops,             \* the operations that are called
          Channels         \* {FALSE}: orders created by hand; {TRUE}: from a channel

Operations == {"hold", "release", "cancel", "sync", "fulfil", "ship", "deliver", "refund"}

ASSUME MaxAmountAssumption == MaxAmount \in Nat

ASSUME OrdersAssumption ==
    /\ IsFiniteSet(RefundKey)
    /\ TotalMinor \in Nat
    /\ IsFiniteSet(Call)
    /\ Ops \subseteq Operations
    /\ Channels \subseteq BOOLEAN

VARIABLES
    channel,      \* the order was ingested from a channel, not created by hand
    status,       \* Order.status
    heldFrom,     \* from where the last event "... -> ON_HOLD" says the order came
    refund,       \* Refund rows
    fulfilment,   \* Fulfilment.status
    accepted,     \* how often the provider has accepted a fulfilment
    shipment,     \* how far the tracking events of a fulfilment's shipments have got
    purchase,     \* ProductPurchaseWithPoints.status
    pc,           \* where each call is
    job,          \* what each call does
    seen,         \* what each call has read: the order's status, the sum refunded
    crowd         \* history: the most refunds that were ever past their check at once

tables == <<refund, fulfilment, accepted, shipment, purchase>>
vars == <<channel, status, heldFrom, refund, fulfilment, accepted, shipment, purchase,
          pc, job, seen, crowd>>

Status == {"NEW", "CONFIRMED", "IN_PRODUCTION", "SHIPPED", "DELIVERED", "CLOSED",
           "ON_HOLD", "CANCELLED", "REFUNDED"}

\* order-status.machine.ts, TRANSITIONS.
Transitions ==
    [NEW           |-> {"CONFIRMED", "ON_HOLD", "CANCELLED"},
     CONFIRMED     |-> {"IN_PRODUCTION", "ON_HOLD", "CANCELLED"},
     IN_PRODUCTION |-> {"SHIPPED", "ON_HOLD", "CANCELLED"},
     SHIPPED       |-> {"DELIVERED", "ON_HOLD"},
     DELIVERED     |-> {"CLOSED", "REFUNDED"},
     CLOSED        |-> {"REFUNDED"},
     ON_HOLD       |-> {"NEW", "CONFIRMED", "IN_PRODUCTION", "SHIPPED", "CANCELLED"},
     CANCELLED     |-> {},
     REFUNDED      |-> {}]
CanTransition(from, to) == to \in Transitions[from]

\* releaseTarget, of the status an order was held in; CONFIRMED if no event tells.
ReleaseTarget(previous) ==
    IF previous = "none" THEN "CONFIRMED"
    ELSE IF previous \in {"ON_HOLD", "CANCELLED", "REFUNDED"} THEN "NEW"
    ELSE previous

\* The statuses mapExternalOrderStatus can return.
ChannelStatus == Status \ {"CLOSED"}

RefundRow == [status : {"none", "PENDING", "COMPLETED"}, amount : 0..MaxAmount]
FulfilmentStatus == {"none", "PENDING", "SUBMITTED", "FAILED", "SHIPPED", "DELIVERED"}
Stage == {"idle", "looking", "reading", "writing", "logging", "listing", "restoring",
          "creating", "sending", "accepted", "producing", "failing",
          "packing", "packed", "delivering", "delivered",
          "summing", "inserting", "completing"}
Job == [op : Operations \cup {"none"}, to : Status,
        key : RefundKey \cup FulfilmentKey \cup {"none"}, amount : 0..MaxAmount,
        todo : SUBSET Purchase]

Work(op, to, key, n) == [op |-> op, to |-> to, key |-> key, amount |-> n, todo |-> {}]
NoJob == Work("none", "NEW", "none", 0)
NothingSeen == [status |-> "NEW", sum |-> 0]

\* createManualOrder, or the first time upsertNormalisedOrder meets the order.
Init == /\ channel \in Channels
        /\ status \in IF channel THEN ChannelStatus ELSE {"NEW"}
        /\ heldFrom = "none"
        /\ refund = [k \in RefundKey |-> [status |-> "none", amount |-> 0]]
        /\ fulfilment = [k \in FulfilmentKey |-> "none"]
        /\ accepted = [k \in FulfilmentKey |-> 0]
        /\ shipment = [k \in FulfilmentKey |-> "none"]
        /\ purchase = [p \in Purchase |-> "none"]
        /\ pc = [t \in Call |-> "idle"]
        /\ job = [t \in Call |-> NoJob]
        /\ seen = [t \in Call |-> NothingSeen]
        /\ crowd = 1

-----------------------------------------------------------------------------
(* Calls *)

\* A call begins with a read; `from` is what it keeps of the order's status.
Begin(t, new, from, stage) ==
    /\ new.op \in Ops
    /\ pc[t] = "idle"
    /\ pc' = [pc EXCEPT ![t] = stage]
    /\ job' = [job EXCEPT ![t] = new]
    /\ seen' = [seen EXCEPT ![t].status = from]

\* A call that is over forgets what it did and read.
Goto(t, stage) ==
    /\ pc' = [pc EXCEPT ![t] = stage]
    /\ IF stage = "idle" THEN /\ job' = [job EXCEPT ![t] = NoJob]
                              /\ seen' = [seen EXCEPT ![t] = NothingSeen]
                         ELSE UNCHANGED <<job, seen>>

\* Mutant of Hold: transition does not assert.
HoldUnasserted(t) ==
    /\ Begin(t, Work("hold", "ON_HOLD", "none", 0), status, "writing")
    /\ UNCHANGED <<channel, status, heldFrom, tables>>

\* OrdersService.hold and cancel: transition's read and its assertion.
Hold(t) ==
    /\ CanTransition(status, "ON_HOLD")
    /\ Begin(t, Work("hold", "ON_HOLD", "none", 0), status, "writing")
    /\ UNCHANGED <<channel, status, heldFrom, tables>>
Cancel(t) ==
    /\ CanTransition(status, "CANCELLED")
    /\ Begin(t, Work("cancel", "CANCELLED", "none", 0), status, "writing")
    /\ UNCHANGED <<channel, status, heldFrom, tables>>

\* OrdersService.release looks for a held order, then for the event that held it.
Release(t) ==
    /\ status = "ON_HOLD"
    /\ Begin(t, Work("release", "NEW", "none", 0), NothingSeen.status, "looking")
    /\ UNCHANGED <<channel, status, heldFrom, tables>>
FindHold(t) ==
    /\ pc[t] = "looking"
    /\ job' = [job EXCEPT ![t].to = ReleaseTarget(heldFrom)]
    /\ pc' = [pc EXCEPT ![t] = "reading"]
    /\ UNCHANGED <<channel, status, heldFrom, tables, seen>>

\* upsertNormalisedOrder of an order that is known already.
Sync(t) == \E s \in ChannelStatus :
    /\ channel
    /\ s # status
    /\ Begin(t, Work("sync", s, "none", 0), NothingSeen.status, "writing")
    /\ UNCHANGED <<channel, status, heldFrom, tables>>

\* transition's read and assertion, for release and for a full refund; the
\* shipment service's, for a shipment and for a delivery.  None of these needs
\* the status later: only a hold is ever looked up in the events.
Read(t) ==
    /\ pc[t] = "reading"
    /\ IF CanTransition(status, job[t].to)
       THEN /\ pc' = [pc EXCEPT ![t] = "writing"]
            /\ seen' = [seen EXCEPT ![t] = NothingSeen]
            /\ UNCHANGED job
       ELSE Goto(t, "idle")
    /\ UNCHANGED <<channel, status, heldFrom, tables>>

\* orders.update(tenantId, id, { status }): whatever the row holds by now.
Write(t) ==
    /\ pc[t] = "writing"
    /\ status' = job[t].to
    /\ Goto(t, IF job[t].op \in {"sync", "ship", "deliver"} THEN "idle" ELSE "logging")
    /\ UNCHANGED <<channel, heldFrom, tables>>

\* transition's STATUS_CHANGE event "from -> to".  The events of a sync end
\* otherwise, and a shipment writes none of that type.
Log(t) ==
    /\ pc[t] = "logging"
    /\ heldFrom' = IF job[t].to = "ON_HOLD" THEN seen[t].status ELSE heldFrom
    /\ Goto(t, IF job[t].to \in {"CANCELLED", "REFUNDED"} THEN "listing" ELSE "idle")
    /\ UNCHANGED <<channel, status, tables>>

Confirmed == {p \in Purchase : purchase[p] = "CONFIRMED"}

\* findConfirmedByOrderId, then one RedemptionService.refund after the other;
\* one that is not CONFIRMED any more throws.
ListRedemptions(t) ==
    /\ pc[t] = "listing"
    /\ IF Confirmed = {} THEN Goto(t, "idle")
       ELSE /\ pc' = [pc EXCEPT ![t] = "restoring"]
            /\ job' = [job EXCEPT ![t].todo = Confirmed]
            /\ UNCHANGED seen
    /\ UNCHANGED <<channel, status, heldFrom, tables>>
Restore(t) == \E p \in job[t].todo :
    /\ pc[t] = "restoring"
    /\ IF purchase[p] = "CONFIRMED" /\ job[t].todo # {p}
       THEN /\ job' = [job EXCEPT ![t].todo = @ \ {p}]
            /\ UNCHANGED <<pc, seen>>
       ELSE Goto(t, "idle")
    /\ purchase' = [purchase EXCEPT ![p] = "REFUNDED"]
    /\ UNCHANGED <<channel, status, heldFrom, refund, fulfilment, accepted, shipment>>

\* RedemptionService.confirm on the order, and refund by an administrator.
Redeem(p) ==
    /\ purchase[p] = "none"
    /\ purchase' = [purchase EXCEPT ![p] = "CONFIRMED"]
    /\ UNCHANGED <<channel, status, heldFrom, refund, fulfilment, accepted, shipment, pc, job, seen>>
GiveBack(p) ==
    /\ purchase[p] = "CONFIRMED"
    /\ purchase' = [purchase EXCEPT ![p] = "REFUNDED"]
    /\ UNCHANGED <<channel, status, heldFrom, refund, fulfilment, accepted, shipment, pc, job, seen>>

-----------------------------------------------------------------------------
(* Fulfilment and shipment *)

SetFulfilment(t, to) == fulfilment' = [fulfilment EXCEPT ![job[t].key] = to]

\* FulfilmentService.submit: findByIdempotencyKey finds nothing (or the call
\* returns what it found), then the order is read ...
Submit(t) == \E k \in FulfilmentKey :
    /\ fulfilment[k] = "none"
    /\ Begin(t, Work("fulfil", "NEW", k, 0), status, "creating")
    /\ UNCHANGED <<channel, status, heldFrom, tables>>

\* Mutant of CreateFulfilment: the key is not unique.
CreateFulfilmentUnkeyed(t) ==
    /\ pc[t] = "creating"
    /\ SetFulfilment(t, "PENDING")
    /\ Goto(t, "sending")
    /\ UNCHANGED <<channel, status, heldFrom, refund, accepted, shipment, purchase>>

\* ... a PENDING row is inserted under a key unique to the tenant ...
CreateFulfilment(t) ==
    /\ pc[t] = "creating"
    /\ IF fulfilment[job[t].key] = "none"
       THEN SetFulfilment(t, "PENDING") /\ Goto(t, "sending")
       ELSE UNCHANGED fulfilment /\ Goto(t, "idle")
    /\ UNCHANGED <<channel, status, heldFrom, refund, accepted, shipment, purchase>>

\* ... the provider accepts it, and its answer arrives or is lost ...
Send(t) == \E answer \in {"accepted", "failing"} :
    /\ pc[t] = "sending"
    /\ accepted' = [accepted EXCEPT ![job[t].key] = @ + 1]
    /\ Goto(t, answer)
    /\ UNCHANGED <<channel, status, heldFrom, refund, fulfilment, shipment, purchase>>

\* ... and the order, as it was read, goes into production.  The event and the
\* audit that follow may still throw.
MarkSubmitted(t) ==
    /\ pc[t] = "accepted"
    /\ SetFulfilment(t, "SUBMITTED")
    /\ \/ seen[t].status \notin {"NEW", "CONFIRMED"} /\ Goto(t, "idle")
       \/ /\ seen[t].status \in {"NEW", "CONFIRMED"}
          /\ CanTransition(seen[t].status, "IN_PRODUCTION")
          /\ Goto(t, "producing")
       \/ Goto(t, "failing")
    /\ UNCHANGED <<channel, status, heldFrom, refund, accepted, shipment, purchase>>
StartProduction(t) == \E next \in {"idle", "failing"} :
    /\ pc[t] = "producing"
    /\ status' = "IN_PRODUCTION"
    /\ Goto(t, next)
    /\ UNCHANGED <<channel, heldFrom, tables>>

\* Whatever throws once the row exists is caught, and the row marked FAILED.
Throw(t) ==
    /\ pc[t] \in {"sending", "accepted", "producing"}
    /\ Goto(t, "failing")
    /\ UNCHANGED <<channel, status, heldFrom, tables>>
MarkFailed(t) ==
    /\ pc[t] = "failing"
    /\ SetFulfilment(t, "FAILED")
    /\ Goto(t, "idle")
    /\ UNCHANGED <<channel, status, heldFrom, refund, accepted, shipment, purchase>>

\* ShipmentService.recordShipped, of a fulfilment in any status ...
Ship(t) == \E k \in FulfilmentKey :
    /\ fulfilment[k] # "none"
    /\ Begin(t, Work("ship", "SHIPPED", k, 0), NothingSeen.status, "packing")
    /\ UNCHANGED <<channel, status, heldFrom, tables>>
CreateShipment(t) ==
    /\ pc[t] = "packing"
    /\ shipment' = [shipment EXCEPT ![job[t].key] = IF @ = "none" THEN "IN_TRANSIT" ELSE @]
    /\ Goto(t, "packed")
    /\ UNCHANGED <<channel, status, heldFrom, refund, fulfilment, accepted, purchase>>

\* Mutant of DeliverShipment: an event of any status moves fulfilment and order.
DeliverOnAnyEvent(t) ==
    /\ pc[t] = "delivering"
    /\ Goto(t, "delivered")
    /\ UNCHANGED <<channel, status, heldFrom, tables>>

\* ... and addTrackingEvent with the status DELIVERED.  Shipment.status, which
\* update may set to anything, is read by nobody: what counts is the event.
Deliver(t) == \E k \in FulfilmentKey :
    /\ shipment[k] # "none"
    /\ Begin(t, Work("deliver", "DELIVERED", k, 0), NothingSeen.status, "delivering")
    /\ UNCHANGED <<channel, status, heldFrom, tables>>
DeliverShipment(t) ==
    /\ pc[t] = "delivering"
    /\ shipment' = [shipment EXCEPT ![job[t].key] = "DELIVERED"]
    /\ Goto(t, "delivered")
    /\ UNCHANGED <<channel, status, heldFrom, refund, fulfilment, accepted, purchase>>

\* The fulfilment follows its shipment, and then (Read, Write) the order.
FollowShipment(t) ==
    /\ pc[t] \in {"packed", "delivered"}
    /\ SetFulfilment(t, job[t].to)
    /\ Goto(t, "reading")
    /\ UNCHANGED <<channel, status, heldFrom, refund, accepted, shipment, purchase>>

-----------------------------------------------------------------------------
(* Refunds *)

\* sumCompletedRefunds
CompletedMinor ==
    [k \in RefundKey |-> IF refund[k].status = "COMPLETED" THEN refund[k].amount ELSE 0]
Refunded == Total(CompletedMinor)

SetRefund(t, to) ==
    refund' = [refund EXCEPT ![job[t].key] = [status |-> to, amount |-> job[t].amount]]

\* ReturnsRefundsService.issueRefund: the key is looked up, the order read ...
IssueRefund(t) == \E k \in RefundKey, n \in 1..MaxAmount :
    /\ refund[k].status = "none"
    /\ Begin(t, Work("refund", "REFUNDED", k, n), status, "summing")
    /\ UNCHANGED <<channel, status, heldFrom, tables>>

\* Mutant of SumRefunds: earlier refunds are left out of the comparison.
SumRefundsAlone(t) ==
    /\ pc[t] = "summing"
    /\ IF job[t].amount > TotalMinor THEN Goto(t, "idle")
       ELSE /\ pc' = [pc EXCEPT ![t] = "inserting"]
            /\ seen' = [seen EXCEPT ![t].sum = Refunded]
            /\ UNCHANGED job
    /\ UNCHANGED <<channel, status, heldFrom, tables>>

\* ... what was refunded before must leave room for it ...
SumRefunds(t) ==
    /\ pc[t] = "summing"
    /\ IF Refunded + job[t].amount > TotalMinor THEN Goto(t, "idle")
       ELSE /\ pc' = [pc EXCEPT ![t] = "inserting"]
            /\ seen' = [seen EXCEPT ![t].sum = Refunded]
            /\ UNCHANGED job
    /\ UNCHANGED <<channel, status, heldFrom, tables>>

\* ... a PENDING row is inserted under its unique key and completed at once ...
InsertRefund(t) ==
    /\ pc[t] = "inserting"
    /\ IF refund[job[t].key].status = "none"
       THEN SetRefund(t, "PENDING") /\ Goto(t, "completing")
       ELSE UNCHANGED refund /\ Goto(t, "idle")
    /\ UNCHANGED <<channel, status, heldFrom, fulfilment, accepted, shipment, purchase>>

\* Mutant of CompleteRefund: any refund makes the order REFUNDED.
CompleteRefundPartly(t) ==
    /\ pc[t] = "completing"
    /\ SetRefund(t, "COMPLETED")
    /\ Goto(t, IF seen[t].status # "REFUNDED" THEN "reading" ELSE "idle")
    /\ UNCHANGED <<channel, status, heldFrom, fulfilment, accepted, shipment, purchase>>

\* ... and a full refund moves the order, by a transition of its own.
CompleteRefund(t) ==
    /\ pc[t] = "completing"
    /\ SetRefund(t, "COMPLETED")
    /\ Goto(t, IF seen[t].sum + job[t].amount >= TotalMinor /\ seen[t].status # "REFUNDED"
               THEN "reading" ELSE "idle")
    /\ UNCHANGED <<channel, status, heldFrom, fulfilment, accepted, shipment, purchase>>

\* Refunds that have passed the check and are not COMPLETED yet.
Unsettled == {t \in Call : pc[t] \in {"inserting", "completing"}}
NoteCrowd == crowd' = IF Cardinality(Unsettled') > crowd THEN Cardinality(Unsettled') ELSE crowd

-----------------------------------------------------------------------------

\* A statement fails outside submit's try, or the process dies.
Fail(t) ==
    /\ pc[t] # "idle"
    /\ Goto(t, "idle")
    /\ UNCHANGED <<channel, status, heldFrom, tables>>

Transition(t) == \/ Hold(t) \/ Cancel(t) \/ Release(t) \/ FindHold(t) \/ Sync(t)
                 \/ Read(t) \/ Write(t) \/ Log(t) \/ ListRedemptions(t) \/ Restore(t)
Fulfil(t) == \/ Submit(t) \/ CreateFulfilment(t) \/ Send(t) \/ MarkSubmitted(t)
             \/ StartProduction(t) \/ Throw(t) \/ MarkFailed(t)
Track(t) == \/ Ship(t) \/ CreateShipment(t) \/ Deliver(t) \/ DeliverShipment(t)
            \/ FollowShipment(t)
PayBack(t) == IssueRefund(t) \/ SumRefunds(t) \/ InsertRefund(t) \/ CompleteRefund(t)

\* No call is under way.
Rest == (\A t \in Call : pc[t] = "idle") /\ UNCHANGED vars

Next == /\ \/ \E t \in Call : Transition(t) \/ Fulfil(t) \/ Track(t) \/ PayBack(t) \/ Fail(t)
           \/ \E p \in Purchase : Redeem(p) \/ GiveBack(p)
           \/ Rest
        /\ NoteCrowd

Spec == Init /\ [][Next]_vars

-----------------------------------------------------------------------------
(* Properties *)

TypeOK ==
    /\ channel \in BOOLEAN
    /\ status \in Status
    /\ heldFrom \in Status \cup {"none"}
    /\ refund \in [RefundKey -> RefundRow]
    /\ fulfilment \in [FulfilmentKey -> FulfilmentStatus]
    /\ accepted \in [FulfilmentKey -> Nat]
    /\ shipment \in [FulfilmentKey -> {"none", "IN_TRANSIT", "DELIVERED"}]
    /\ purchase \in [Purchase -> {"none", "CONFIRMED", "REFUNDED"}]
    /\ pc \in [Call -> Stage]
    /\ job \in [Call -> Job]
    /\ seen \in [Call -> [status : Status, sum : Nat]]
    /\ crowd \in Nat

\* The statuses the order may have by what was shipped, delivered and paid back.
Earned == {s \in Status :
    /\ s \in {"SHIPPED", "DELIVERED", "CLOSED", "REFUNDED"} =>
          \E k \in FulfilmentKey : shipment[k] # "none"
    /\ s \in {"DELIVERED", "CLOSED", "REFUNDED"} =>
          \E k \in FulfilmentKey : shipment[k] = "DELIVERED"
    /\ s = "REFUNDED" => Refunded >= TotalMinor}

\* However holds, releases, stale writes, failures and refunds interleave, an
\* order created by hand is SHIPPED, DELIVERED or REFUNDED only if it was: with
\* a shipment, a delivered shipment, and refunds of the whole amount besides.
EndStatesAreEarned == ~ channel => status \in Earned

\* A channel's order becomes REFUNDED here by the channel's word, or when the
\* refunds made here are complete (docs/API.md: "a full refund transitions the
\* order to REFUNDED"; a partial one does not).
RefundedIsPaidBack ==
    [][status' = "REFUNDED" /\ status # "REFUNDED" =>
          \/ Refunded >= TotalMinor
          \/ \E t \in Call : pc[t] = "writing" /\ job[t].op = "sync"]_vars

\* A held order can be released: what the event log offers as its former status,
\* written after the row and perhaps by a call that read long before, is always
\* one the machine lets a held order return to (order-status.machine.ts: the
\* fallback of releaseTarget "should never actually be reached").
HeldCanBeReleased ==
    /\ heldFrom \notin {"ON_HOLD", "CANCELLED", "REFUNDED"}
    /\ CanTransition("ON_HOLD", ReleaseTarget(heldFrom))

\* A provider is never sent a fulfilment twice under one Idempotency-Key, not
\* even when requests race, answers are lost or the process dies in between.
SubmittedOncePerKey == \A k \in FulfilmentKey : accepted[k] <= 1

\* What the check in issueRefund ("Refund would exceed the order total") is worth
\* when refunds race: it compares with the COMPLETED refunds alone, so every call
\* past it at the same time may pay the whole total once more, and that is all.
\* Refunds never exceed as many totals as there were such calls at once, however
\* many follow one another, reuse keys or fail half-way; if no two ever were,
\* they keep within the order's total.
RefundsWithinTotal == Refunded <= TotalMinor * crowd

-----------------------------------------------------------------------------
(* Why the properties hold: what is true of a call between its awaits *)

Holdable == {"NEW", "CONFIRMED", "IN_PRODUCTION", "SHIPPED"}

\* What a call is at tells what it does, and what it does where it leads.
Shaped(t) ==
    /\ pc[t] = "looking" => job[t].op = "release"
    /\ pc[t] \in {"creating", "sending", "accepted", "producing", "failing"} =>
          job[t].op = "fulfil"
    /\ pc[t] \in {"packing", "packed"} => job[t].op = "ship"
    /\ pc[t] \in {"delivering", "delivered"} => job[t].op = "deliver"
    /\ pc[t] \in {"summing", "inserting", "completing"} => job[t].op = "refund"
    /\ pc[t] = "logging" => job[t].op # "sync"
    /\ job[t].op = "hold" => job[t].to = "ON_HOLD"
    /\ job[t].op = "cancel" => job[t].to = "CANCELLED"
    /\ job[t].op = "release" => job[t].to \in Holdable
    /\ job[t].op = "sync" => pc[t] = "writing"
    /\ job[t].op = "ship" => job[t].to = "SHIPPED" /\ job[t].key \in FulfilmentKey
    /\ job[t].op = "deliver" => job[t].to = "DELIVERED" /\ job[t].key \in FulfilmentKey
    /\ job[t].op = "fulfil" => job[t].to = "NEW" /\ job[t].key \in FulfilmentKey
    /\ job[t].op = "refund" => job[t].to = "REFUNDED" /\ job[t].key \in RefundKey
    /\ job[t].op = "none" <=> pc[t] = "idle"
JobShape == \A t \in Call : Shaped(t)

\* Only the call that inserted a fulfilment sends it, and it has not yet.
SenderOwnsKey ==
    /\ \A k \in FulfilmentKey : /\ accepted[k] \in {0, 1}
                                /\ fulfilment[k] = "none" => accepted[k] = 0
    /\ \A t \in Call : pc[t] = "sending" =>
          /\ fulfilment[job[t].key] # "none"
          /\ accepted[job[t].key] = 0
          /\ \A s \in Call \ {t} : pc[s] = "sending" => job[s].key # job[t].key

\* An event that names a hold was written by one that had asserted it.
HoldsAreAsserted ==
    /\ heldFrom \in Holdable \cup {"none"}
    /\ \A t \in Call : job[t].op = "hold" => seen[t].status \in Holdable

\* Only the call that inserted a refund completes it.
RefunderOwnsKey ==
    \A t \in Call : pc[t] = "completing" =>
        /\ refund[job[t].key].status = "PENDING"
        /\ \A s \in Call \ {t} : pc[s] = "completing" => job[s].key # job[t].key

\* What is about to be refunded counts as well: a call that passes the check
\* leaves the completed refunds and its own within one total, and every other
\* call past it has asked for one total at most.
Owed == [t \in Call |-> IF t \in Unsettled THEN job[t].amount ELSE 0]
RoomIsLeft ==
    /\ Refunded + Total(Owed) <= TotalMinor * crowd
    /\ crowd >= 1 /\ Cardinality(Unsettled) <= crowd
    /\ \A t \in Unsettled : job[t].amount <= TotalMinor

\* A sum that was read can only have grown, and REFUNDED is asked for when it
\* has reached the total.
SumsGrow ==
    \A t \in Call :
        /\ seen[t].sum <= Refunded
        /\ job[t].op = "refund" /\ pc[t] \in {"reading", "writing"} => Refunded >= TotalMinor

\* No status of an order made by hand is read, remembered or about to be written
\* that is not earned.
NothingUnearned ==
    ~ channel =>
        /\ status \in Earned /\ heldFrom \in Earned \cup {"none"}
        /\ \A t \in Call :
              /\ job[t].op # "sync"
              /\ seen[t].status \in Earned
              /\ pc[t] \in {"packed", "delivered", "reading", "writing"}
                    /\ job[t].op \in {"release", "ship", "deliver"} => job[t].to \in Earned
              /\ pc[t] = "writing" => job[t].to \in Earned

IInv == /\ TypeOK /\ JobShape /\ SenderOwnsKey /\ HoldsAreAsserted /\ RefunderOwnsKey
        /\ RoomIsLeft /\ SumsGrow /\ NothingUnearned

=============================================================================
