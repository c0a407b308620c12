--------------------------- MODULE OrderIngestion ---------------------------
(***************************************************************************)
(* How the orders of one channel reach the database                        *)
(* (apps/api/src/orders/order-ingestion.service.ts): a webhook, delivered  *)
(* at least once, or the polling sweep pulls one page at the stored        *)
(* cursor, stores each order of the page and then moves the cursor.        *)
(* Nothing keeps two pulls apart, each await is a step, and a call may     *)
(* fail or its process die after any of them.                              *)
(*                                                                         *)
(* A status is a version: the n-th status the channel gave the order.  The *)
(* other writers of Order.status are in module Orders.                     *)
(***************************************************************************)
EXTENDS Naturals, Sequences

CONSTANTS Call,
          Event,         \* externalEventId of the channel's webhooks
          MaxOrders, MaxVersion, MaxFailures,   \* bounds
          PageSize       \* orders on a page (20 at Printful, 25 at Etsy)

ASSUME IngestionAssumption ==
    /\ {MaxOrders, MaxFailures} \subseteq Nat
    /\ {MaxVersion, PageSize} \subseteq Nat \ {0}
    /\ "none" \notin Event

Order == 1..MaxOrders       \* in the order they were placed
Version == 0..MaxVersion    \* 0: no such order

VARIABLES
    newestFirst,   \* the direction in which the channel lists its orders
    placed,        \* how many orders the channel has
    version,       \* their present statuses
    stored,        \* Order.status, 0 for no row
    cursor,        \* OrderPollCursor.cursor, 0 for null or no row
    event,         \* OrderWebhookEvent
    pc, job,       \* where each call is, and what it holds
    failures       \* how many calls have failed

channel == <<newestFirst, placed, version>>
vars == <<newestFirst, placed, version, stored, cursor, event, pc, job, failures>>

Item == [order : Order, version : Version \ {0}]
NoJob == [event |-> "none", at |-> 0, page |-> <<>>, next |-> 0, found |-> 0]
Stage == {"idle", "resolved", "pulling", "looking", "writing", "marking"}
EventState == {"none", "recorded", "processed", "failed"}

Init ==
    /\ newestFirst \in BOOLEAN
    /\ placed = 0
    /\ version = [o \in Order |-> 0]
    /\ stored = [o \in Order |-> 0]
    /\ cursor = 0
    /\ event = [e \in Event |-> "none"]
    /\ pc = [c \in Call |-> "idle"]
    /\ job = [c \in Call |-> NoJob]
    /\ failures = 0

(* The channel ************************************************************)

Place ==
    /\ placed < MaxOrders
    /\ placed' = placed + 1
    /\ version' = [version EXCEPT ![placed + 1] = 1]
    /\ UNCHANGED <<newestFirst, stored, cursor, event, pc, job, failures>>

Change(o) ==
    /\ version[o] \in 1..(MaxVersion - 1)
    /\ version' = [version EXCEPT ![o] = @ + 1]
    /\ UNCHANGED <<newestFirst, placed, stored, cursor, event, pc, job, failures>>

\* pullOrders: the orders behind the first k, as they are now, and the next cursor.
Listed(i) == IF newestFirst THEN placed + 1 - i ELSE i
PageEnd(k) == IF k + PageSize <= placed THEN k + PageSize ELSE placed
PageAt(k) == [i \in 1..(IF k < placed THEN PageEnd(k) - k ELSE 0) |->
                 [order |-> Listed(k + i), version |-> version[Listed(k + i)]]]
NextCursor(k) == IF Len(PageAt(k)) = PageSize THEN k + PageSize ELSE 0

(* Calls ******************************************************************)

Goto(c, stage, work) ==
    /\ pc' = [pc EXCEPT ![c] = stage]
    /\ job' = [job EXCEPT ![c] = work]
End(c) == Goto(c, "idle", NoJob)

\* handleWebhook: a delivery is dropped if its event has been recorded before.
Receive(c, e) ==
    /\ pc[c] = "idle"
    /\ event[e] = "none"
    /\ event' = [event EXCEPT ![e] = "recorded"]
    /\ Goto(c, "resolved", [NoJob EXCEPT !.event = e])
    /\ UNCHANGED <<channel, stored, cursor, failures>>

\* runPollSweep comes to this connection and reads its cursor.
Poll(c) ==
    /\ pc[c] = "idle"
    /\ Goto(c, "pulling", [NoJob EXCEPT !.at = cursor])
    /\ UNCHANGED <<channel, stored, cursor, event, failures>>

ReadCursor(c) ==
    /\ pc[c] = "resolved"
    /\ Goto(c, "pulling", [job[c] EXCEPT !.at = cursor])
    /\ UNCHANGED <<channel, stored, cursor, event, failures>>

\* Mutant: the cursor moves before the page is stored.
PullAndSave(c) ==
    /\ pc[c] = "pulling"
    /\ Goto(c, "looking", [job[c] EXCEPT !.page = PageAt(job[c].at), !.next = NextCursor(job[c].at)])
    /\ cursor' = NextCursor(job[c].at)
    /\ UNCHANGED <<channel, stored, event, failures>>

Pull(c) ==
    /\ pc[c] = "pulling"
    /\ Goto(c, "looking", [job[c] EXCEPT !.at = 0, !.page = PageAt(job[c].at),
                                               !.next = NextCursor(job[c].at)])
    /\ UNCHANGED <<channel, stored, cursor, event, failures>>

\* upsertNormalisedOrder looks for the first order of what is left of the page ...
Look(c) ==
    /\ pc[c] = "looking"
    /\ job[c].page # <<>>
    /\ Goto(c, "writing", [job[c] EXCEPT !.found = stored[Head(job[c].page).order]])
    /\ UNCHANGED <<channel, stored, cursor, event, failures>>

\* ... and creates it, or gives it the page's status if it had another one.
Write(c) ==
    LET item == Head(job[c].page)
    IN /\ pc[c] = "writing"
       /\ job[c].found = 0 => stored[item.order] = 0      \* else the unique key refuses it
       /\ stored' = IF job[c].found = item.version THEN stored
                    ELSE [stored EXCEPT ![item.order] = item.version]
       /\ Goto(c, "looking", [job[c] EXCEPT !.page = Tail(@), !.found = 0])
       /\ UNCHANGED <<channel, cursor, event, failures>>

\* Mutant: a null nextCursor leaves the stored cursor as it is.
SaveCursorIfAny(c) ==
    /\ pc[c] = "looking"
    /\ job[c].page = <<>>
    /\ cursor' = IF job[c].next = 0 THEN cursor ELSE job[c].next
    /\ IF job[c].event = "none" THEN End(c) ELSE Goto(c, "marking", [job[c] EXCEPT !.next = 0])
    /\ UNCHANGED <<channel, stored, event, failures>>

SaveCursor(c) ==
    /\ pc[c] = "looking"
    /\ job[c].page = <<>>
    /\ cursor' = job[c].next
    /\ IF job[c].event = "none" THEN End(c) ELSE Goto(c, "marking", [job[c] EXCEPT !.next = 0])
    /\ UNCHANGED <<channel, stored, event, failures>>

MarkProcessed(c) ==
    /\ pc[c] = "marking"
    /\ event' = [event EXCEPT ![job[c].event] = "processed"]
    /\ End(c)
    /\ UNCHANGED <<channel, stored, cursor, failures>>

\* A statement or the channel's API fails; an event's error is then written.
Fail(c) ==
    /\ pc[c] # "idle"
    /\ failures < MaxFailures
    /\ failures' = failures + 1
    /\ event' = IF job[c].event = "none" THEN event
                ELSE [event EXCEPT ![job[c].event] = "failed"]
    /\ End(c)
    /\ UNCHANGED <<channel, stored, cursor>>

\* Two pulls create one order: the unique key refuses the second.
Refused(c) ==
    /\ pc[c] = "writing"
    /\ job[c].found = 0
    /\ stored[Head(job[c].page).order] # 0
    /\ event' = IF job[c].event = "none" THEN event
                ELSE [event EXCEPT ![job[c].event] = "failed"]
    /\ End(c)
    /\ UNCHANGED <<channel, stored, cursor, failures>>

\* The process dies: not even the error is written.
Crash(c) ==
    /\ pc[c] # "idle"
    /\ failures < MaxFailures
    /\ failures' = failures + 1
    /\ End(c)
    /\ UNCHANGED <<channel, stored, cursor, event>>

Continue(c) ==
    \/ ReadCursor(c) \/ Pull(c) \/ Look(c) \/ Write(c) \/ SaveCursor(c)
    \/ MarkProcessed(c) \/ Refused(c)

Next ==
    \/ Place
    \/ \E o \in Order : Change(o)
    \/ \E c \in Call :
        \/ \E e \in Event : Receive(c, e)
        \/ Poll(c)
        \/ Continue(c)
        \/ Fail(c)
        \/ Crash(c)

Spec == Init /\ [][Next]_vars

\* What has begun goes on: Node runs the continuations of answered awaits.
FairSpec == Spec /\ \A c \in Call : WF_vars(Continue(c))

(* Properties *************************************************************)

TypeOK ==
    /\ newestFirst \in BOOLEAN
    /\ placed \in 0..MaxOrders
    /\ version \in [Order -> Version]
    /\ stored \in [Order -> Version]
    /\ cursor \in 0..(MaxOrders + PageSize)
    /\ event \in [Event -> EventState]
    /\ pc \in [Call -> Stage]
    /\ job \in [Call -> [event : Event \cup {"none"}, at : 0..(MaxOrders + PageSize),
                         page : Seq(Item), next : 0..(MaxOrders + PageSize), found : Version]]
    /\ failures \in 0..MaxFailures

\* The orders a channel lists before the stored cursor are in the database,
\* whatever pulls overlap, fail or die: the cursor never passes an order that
\* was not stored (pollConnectionOnce moves it last).  Where new orders are
\* listed at the front, it is the orders up to a position that may have moved
\* back, so the claim is made for the other direction.
NothingIsPassed ==
    ~newestFirst => \A o \in Order : o <= cursor => stored[o] # 0

\* A webhook event is worked on by one call only, and by none once its fate is
\* recorded, however often it is delivered (recordWebhookEventIfNew).
EventTakenOnce ==
    /\ \A c \in Call : job[c].event # "none" => event[job[c].event] = "recorded"
    /\ \A c, d \in Call : job[c].event = job[d].event /\ job[c].event # "none" => c = d

\* The types, the cursor's claim and the events'.
IngestionIsSound == TypeOK /\ NothingIsPassed /\ EventTakenOnce

\* Pulling heals: if the polling sweep keeps coming and calls fail only
\* finitely often, every order of a channel that has come to rest is stored
\* with its status for good, after lost webhooks, failed pages, cursors put
\* back and stale pages; the null cursor of the last page starts a new pass.
PollingCatchesUp ==
    []<><<\E c \in Call : Poll(c)>>_vars => <>[](stored = version)

=============================================================================
