--------------------------- MODULE ChannelsProofs ---------------------------
(***************************************************************************)
(* What goes between the program and the outside, for every number of      *)
(* calls and every bound.                                                  *)
(*   OrderIngestion: however many pulls overlap, fail or die, the cursor   *)
(* never passes an order that was not stored, and every event is worked on *)
(* once.                                                                   *)
(*   Publishing: a listing agrees with its items, its packs and its queue, *)
(* and an approval stands.                                                 *)
(*   StudioAssets: a chunk is appended once, and an asset points at its    *)
(* latest version.                                                         *)
(*   OfflineQueue: what was queued is in one place until it is sent or     *)
(* dismissed.                                                              *)
(*   The last section puts them together.                                  *)
(***************************************************************************)
EXTENDS MCChannels, FiniteSetTheorems, TLAPS
-----------------------------------------------------------------------------
(* Orders: what is true of a call between its awaits *)

\* The channel gives a status to the orders it has, and to no other.
PlacedHaveStatus == \A o \in Order : version[o] # 0 <=> o <= placed

\* A call that writes has an order to write, and if its lookup found a row the
\* row is still there.
WriterHasOrder ==
    \A c \in Call : pc[c] = "writing" =>
        /\ job[c].page # <<>>
        /\ job[c].found # 0 => stored[Head(job[c].page).order] # 0

\* The orders before the cursor a call pulls at are stored; those before the
\* cursor it is going to save are stored or still on its page.
OnPage(page, o) == \E i \in 1..Len(page) : page[i].order = o
PullsAreCovered ==
    ~newestFirst => \A c \in Call : \A o \in Order :
        /\ pc[c] = "pulling" /\ o <= job[c].at => stored[o] # 0
        /\ pc[c] \in {"looking", "writing"} /\ o <= job[c].next
             => stored[o] # 0 \/ OnPage(job[c].page, o)

IInv == /\ TypeOK /\ PlacedHaveStatus /\ WriterHasOrder /\ PullsAreCovered
        /\ NothingIsPassed /\ EventTakenOnce

Job == [event : Event \cup {"none"}, at : 0..(MaxOrders + PageSize),
        page : Seq(Item), next : 0..(MaxOrders + PageSize), found : Version]
-----------------------------------------------------------------------------
(* What a call holds *)

LEMMA JobUpdate ==
    ASSUME NEW j \in Job, NEW n \in 0..(MaxOrders + PageSize), NEW page \in Seq(Item)
    PROVE  /\ [j EXCEPT !.at = n] \in Job
           /\ [j EXCEPT !.next = n] \in Job
           /\ [j EXCEPT !.at = 0, !.page = page, !.next = n] \in Job
           /\ [j EXCEPT !.page = page, !.found = 0] \in Job
  <1>1. 0 \in 0..(MaxOrders + PageSize) /\ 0 \in Version
    BY IngestionAssumption DEF Version
  <1>2. [j EXCEPT !.at = n] \in Job /\ [j EXCEPT !.next = n] \in Job
    BY DEF Job
  <1>3. [j EXCEPT !.at = 0, !.page = page, !.next = n] \in Job
    <2>1. [j EXCEPT !.at = 0] \in Job
      BY <1>1 DEF Job
    <2> QED
      BY <2>1 DEF Job
  <1>4. [j EXCEPT !.page = page, !.found = 0] \in Job
    BY <1>1 DEF Job
  <1> QED
    BY <1>2, <1>3, <1>4
-----------------------------------------------------------------------------
(* The channel's pages *)

LEMMA Sizes ==
    /\ MaxOrders \in Nat /\ MaxVersion \in Nat /\ MaxVersion > 0
    /\ PageSize \in Nat /\ PageSize > 0
  BY IngestionAssumption

LEMMA PageLength ==
    ASSUME TypeOK, NEW k \in 0..(MaxOrders + PageSize)
    PROVE  /\ Len(PageAt(k)) \in Nat
           /\ PageAt(k) = [i \in 1..Len(PageAt(k)) |->
                 [order |-> Listed(k + i), version |-> version[Listed(k + i)]]]
           /\ k + Len(PageAt(k)) <= placed \/ Len(PageAt(k)) = 0
           /\ Len(PageAt(k)) <= PageSize
  <1> DEFINE n == IF k < placed THEN PageEnd(k) - k ELSE 0
  <1>1. placed \in 0..MaxOrders /\ k \in Nat
    BY Sizes DEF TypeOK
  <1>2. n \in Nat /\ n <= PageSize /\ (k + n <= placed \/ n = 0)
    BY <1>1, Sizes DEF PageEnd
  <1>3. PageAt(k) = [i \in 1..n |->
            [order |-> Listed(k + i), version |-> version[Listed(k + i)]]]
    BY DEF PageAt
  <1> HIDE DEF n
  <1>4. Len(PageAt(k)) = n
    BY <1>2, <1>3
  <1> QED
    BY <1>2, <1>3, <1>4

LEMMA PageType ==
    ASSUME TypeOK, PlacedHaveStatus, NEW k \in 0..(MaxOrders + PageSize)
    PROVE  PageAt(k) \in Seq(Item) /\ NextCursor(k) \in 0..(MaxOrders + PageSize)
  <1> DEFINE n == Len(PageAt(k))
  <1>1. /\ n \in Nat /\ (k + n <= placed \/ n = 0) /\ n <= PageSize
        /\ PageAt(k) = [i \in 1..n |->
              [order |-> Listed(k + i), version |-> version[Listed(k + i)]]]
    BY PageLength
  <1>2. placed \in 0..MaxOrders /\ k \in Nat
    BY Sizes DEF TypeOK
  <1>3. ASSUME NEW i \in 1..n
        PROVE  [order |-> Listed(k + i), version |-> version[Listed(k + i)]] \in Item
    <2>1. k + i \in 1..placed
      BY <1>1, <1>2
    <2>2. Listed(k + i) \in Order /\ Listed(k + i) <= placed
      BY <1>2, <2>1, Sizes DEF Listed, Order
    <2>3. version[Listed(k + i)] \in Version \ {0}
      BY <2>2 DEF PlacedHaveStatus, TypeOK
    <2> QED
      BY <2>2, <2>3 DEF Item
  <1>4. PageAt(k) \in Seq(Item)
    BY <1>1, <1>3
  <1>5. NextCursor(k) = IF n = PageSize THEN k + PageSize ELSE 0
    BY DEF NextCursor
  <1>6. n \in Nat /\ (k + n <= placed \/ n = 0)
    BY <1>1
  <1> HIDE DEF n
  <1>7. NextCursor(k) \in 0..(MaxOrders + PageSize)
    BY <1>2, <1>5, <1>6, Sizes
  <1> QED
    BY <1>4, <1>7

\* Oldest first, a page pulled at k holds every order from k to the next cursor.
LEMMA PageCovers ==
    ASSUME TypeOK, ~newestFirst, NEW k \in 0..(MaxOrders + PageSize),
           NEW o \in Order, o > k, o <= NextCursor(k)
    PROVE  OnPage(PageAt(k), o)
  <1> DEFINE n == Len(PageAt(k))
  <1>1. /\ n \in Nat
        /\ PageAt(k) = [i \in 1..n |->
              [order |-> Listed(k + i), version |-> version[Listed(k + i)]]]
    BY PageLength
  <1>2. o \in Nat /\ o > 0 /\ k \in Nat
    BY Sizes DEF Order
  <1>3. n = PageSize /\ o - k \in 1..n
    <2>1. NextCursor(k) = IF n = PageSize THEN k + PageSize ELSE 0
      BY DEF NextCursor
    <2> HIDE DEF n
    <2> QED
      BY <1>2, <2>1, Sizes
  <1>4. PageAt(k)[o - k].order = Listed(k + (o - k))
    BY <1>1, <1>3
  <1>5. Listed(k + (o - k)) = o
    BY <1>2 DEF Listed
  <1> QED
    BY <1>3, <1>4, <1>5 DEF OnPage

\* An order on a page is its first or is on the rest.
LEMMA HeadOrTail ==
    ASSUME NEW page \in Seq(Item), page # <<>>, NEW o
    PROVE  /\ Tail(page) \in Seq(Item) /\ Head(page) \in Item
           /\ OnPage(page, o) => Head(page).order = o \/ OnPage(Tail(page), o)
  <1>1. Len(page) \in Nat /\ Len(page) > 0 /\ Tail(page) \in Seq(Item) /\ Head(page) \in Item
        /\ Len(Tail(page)) = Len(page) - 1 /\ Head(page) = page[1]
    OBVIOUS
  <1>2. ASSUME NEW i \in 1..Len(page), page[i].order = o, i # 1
        PROVE  OnPage(Tail(page), o)
    <2>1. i - 1 \in 1..Len(Tail(page))
      BY <1>1, <1>2
    <2>2. Tail(page)[i - 1] = page[i]
      BY <1>1, <1>2, <2>1
    <2> QED
      BY <1>2, <2>1, <2>2 DEF OnPage
  <1> QED
    BY <1>1, <1>2 DEF OnPage
-----------------------------------------------------------------------------
(* The effect of a step *)

\* A call begins, goes on or ends.
CallStep(c) ==
    \/ \E e \in Event : Receive(c, e)
    \/ Poll(c) \/ Continue(c) \/ Fail(c) \/ Crash(c)

LEMMA JobType ==
    ASSUME TypeOK, NEW c \in Call
    PROVE  /\ job[c] \in Job /\ pc[c] \in Stage
           /\ job[c].page \in Seq(Item) /\ job[c].next \in Nat /\ job[c].at \in Nat
           /\ job[c].at \in 0..(MaxOrders + PageSize)
           /\ cursor \in Nat
  BY Sizes DEF TypeOK, Job

\* The order at the head of a page, and its status.
LEMMA HeadType ==
    ASSUME IInv, NEW c \in Call, pc[c] = "writing"
    PROVE  /\ Head(job[c].page).order \in Order
           /\ Head(job[c].page).version \in Version \ {0}
           /\ Tail(job[c].page) \in Seq(Item)
  <1>1. job[c].page \in Seq(Item) /\ job[c].page # <<>>
    BY JobType DEF IInv, WriterHasOrder
  <1>2. Head(job[c].page) \in Item /\ Tail(job[c].page) \in Seq(Item)
    BY <1>1
  <1> QED
    BY <1>2 DEF Item

\* What each way of going on makes of a call.
LEMMA CallEffect ==
    ASSUME IInv, NEW c \in Call, CallStep(c)
    PROVE  /\ UNCHANGED channel
           /\ pc' = [pc EXCEPT ![c] = pc'[c]] /\ pc'[c] \in Stage
           /\ job' = [job EXCEPT ![c] = job'[c]] /\ job'[c] \in Job
  <1> USE DEF IInv, TypeOK, Goto, End
  <1>0. 0 \in 0..(MaxOrders + PageSize)
    BY Sizes
  <1>1. job[c] \in Job /\ NoJob \in Job
    BY JobType, Sizes DEF NoJob, Job, Version
  <1>2. ASSUME NEW e \in Event, Receive(c, e)
        PROVE  /\ pc' = [pc EXCEPT ![c] = "resolved"]
               /\ job' = [job EXCEPT ![c] = [NoJob EXCEPT !.event = e]]
               /\ [NoJob EXCEPT !.event = e] \in Job
    BY <1>1, <1>2, Sizes DEF Receive, NoJob, Job, Version
  <1>3. CASE Poll(c)
    <2>1. [NoJob EXCEPT !.at = cursor] \in Job
      BY <1>1 DEF NoJob, Job
    <2> QED
      BY <1>3, <2>1 DEF Poll, Stage
  <1>4. CASE ReadCursor(c)
    <2>1. [job[c] EXCEPT !.at = cursor] \in Job
      BY <1>1 DEF Job
    <2> QED
      BY <1>4, <2>1 DEF ReadCursor, Stage
  <1>5. CASE Pull(c)
    <2>1. PageAt(job[c].at) \in Seq(Item) /\ NextCursor(job[c].at) \in 0..(MaxOrders + PageSize)
      BY JobType, PageType
    <2> HIDE DEF PageAt, NextCursor
    <2>2. [job[c] EXCEPT !.at = 0, !.page = PageAt(job[c].at), !.next = NextCursor(job[c].at)] \in Job
      BY <1>1, <2>1, JobUpdate
    <2> QED
      BY <1>5, <2>2 DEF Pull, Stage
  <1>6. CASE Look(c)
    <2>1. Head(job[c].page).order \in Order
      BY <1>6, JobType, HeadOrTail DEF Look, Item
    <2>2. [job[c] EXCEPT !.found = stored[Head(job[c].page).order]] \in Job
      BY <1>1, <2>1 DEF Job
    <2> QED
      BY <1>6, <2>2 DEF Look, Stage
  <1>7. CASE Write(c)
    <2>1. Tail(job[c].page) \in Seq(Item)
      BY <1>7, HeadType DEF Write
    <2>2. [job[c] EXCEPT !.page = Tail(@), !.found = 0] \in Job
      BY <1>1, <2>1, JobUpdate
    <2> QED
      BY <1>7, <2>2 DEF Write, Stage
  <1>8. CASE SaveCursor(c)
    <2>1. [job[c] EXCEPT !.next = 0] \in Job
      BY <1>0, <1>1, JobUpdate
    <2> QED
      BY <1>1, <1>8, <2>1 DEF SaveCursor, Stage
  <1>9. CASE MarkProcessed(c) \/ Refused(c) \/ Fail(c) \/ Crash(c)
    BY <1>1, <1>9 DEF MarkProcessed, Refused, Fail, Crash, Stage
  <1>10. CASE \E e \in Event : Receive(c, e)
    <2>1. PICK e \in Event : Receive(c, e)
      BY <1>10
    <2>2. UNCHANGED channel
      BY <2>1 DEF Receive
    <2> QED
      BY <1>2, <2>1, <2>2 DEF Stage
  <1>11. UNCHANGED channel
    BY DEF CallStep, Receive, Poll, Continue, ReadCursor, Pull, Look, Write, SaveCursor,
           MarkProcessed, Refused, Fail, Crash
  <1> QED
    BY <1>3, <1>4, <1>5, <1>6, <1>7, <1>8, <1>9, <1>10, <1>11 DEF CallStep, Continue

\* Nothing deletes an order, and only the cursor of a finished page is saved.
LEMMA StoreEffect ==
    ASSUME IInv, NEW c \in Call, CallStep(c)
    PROVE  /\ stored' \in [Order -> Version]
           /\ \A o \in Order : stored[o] # 0 => stored'[o] # 0
           /\ Write(c) => stored'[Head(job[c].page).order] # 0
           /\ cursor' = cursor \/ (SaveCursor(c) /\ cursor' = job[c].next)
  <1> USE DEF IInv, TypeOK
  <1>1. CASE Write(c)
    <2> DEFINE item == Head(job[c].page)
    <2>1. item.order \in Order /\ item.version \in Version \ {0} /\ cursor' = cursor
      BY <1>1, HeadType DEF Write
    <2>2. \/ stored' = stored /\ job[c].found = item.version
          \/ stored' = [stored EXCEPT ![item.order] = item.version]
      BY <1>1 DEF Write
    <2>3. job[c].found # 0 => stored[item.order] # 0
      BY <1>1 DEF WriterHasOrder, Write
    <2> HIDE DEF item
    <2>4. stored'[item.order] # 0
      BY <2>1, <2>2, <2>3
    <2>5. stored' \in [Order -> Version] /\ \A o \in Order : stored[o] # 0 => stored'[o] # 0
      BY <2>1, <2>2
    <2> QED
      BY <2>1, <2>4, <2>5 DEF item
  <1>2. CASE ~ Write(c)
    BY <1>2 DEF CallStep, Receive, Poll, Continue, ReadCursor, Pull, Look, SaveCursor,
                MarkProcessed, Refused, Fail, Crash
  <1> QED
    BY <1>1, <1>2

\* An event is recorded by the call that takes it, and settled by that call's end.
LEMMA EventEffect ==
    ASSUME IInv, NEW c \in Call, CallStep(c)
    PROVE  /\ event' \in [Event -> EventState] /\ failures' \in 0..MaxFailures
           /\ \/ UNCHANGED event /\ job'[c].event \in {job[c].event, "none"}
              \/ \E e \in Event : /\ event[e] = "none" /\ job'[c].event = e
                                  /\ event' = [event EXCEPT ![e] = "recorded"]
              \/ /\ job[c].event \in Event /\ job'[c].event = "none"
                 /\ \E s \in EventState : event' = [event EXCEPT ![job[c].event] = s]
  <1>1. /\ job[c].event \in Event \cup {"none"} /\ event \in [Event -> EventState]
        /\ failures \in 0..MaxFailures /\ MaxFailures \in Nat
        /\ job \in [Call -> Job] /\ NoJob.event = "none"
    BY JobType, IngestionAssumption DEF Job, NoJob, IInv, TypeOK
  <1>2. ASSUME NEW s \in EventState, event' = [event EXCEPT ![job[c].event] = s],
               job'[c].event = "none"
        PROVE  \/ UNCHANGED event
               \/ /\ job[c].event \in Event
                  /\ \E r \in EventState : event' = [event EXCEPT ![job[c].event] = r]
    <2>1. CASE job[c].event = "none"
      <3>1. event' = event
        BY <1>1, <1>2, <2>1, IngestionAssumption
      <3> QED
        BY <3>1
    <2> QED
      BY <1>1, <1>2, <2>1
  <1>3. ASSUME NEW e \in Event, Receive(c, e)
        PROVE  /\ event[e] = "none" /\ job'[c].event = e
               /\ event' = [event EXCEPT ![e] = "recorded"] /\ failures' = failures
    BY <1>1, <1>3 DEF Receive, Goto, NoJob
  <1>4. CASE Poll(c) \/ ReadCursor(c) \/ Pull(c) \/ Look(c) \/ Write(c) \/ SaveCursor(c)
    <2>1. UNCHANGED <<event, failures>>
      BY <1>4 DEF Poll, ReadCursor, Pull, Look, Write, SaveCursor
    <2>2. job'[c].event \in {job[c].event, "none"}
      BY <1>1, <1>4 DEF Poll, ReadCursor, Pull, Look, Write, SaveCursor, Goto, End, NoJob, Job
    <2> QED
      BY <1>1, <2>1, <2>2
  <1>5. CASE MarkProcessed(c) \/ Refused(c) \/ Fail(c) \/ Crash(c)
    <2>1. job'[c].event = "none"
      BY <1>1, <1>5 DEF MarkProcessed, Refused, Fail, Crash, Goto, End
    <2>2. failures' \in 0..MaxFailures
      BY <1>1, <1>5 DEF MarkProcessed, Refused, Fail, Crash
    <2>3. event' = event \/ \E s \in EventState : event' = [event EXCEPT ![job[c].event] = s]
      BY <1>5 DEF MarkProcessed, Refused, Fail, Crash, EventState
    <2> QED
      BY <1>1, <1>2, <2>1, <2>2, <2>3
  <1>6. "recorded" \in EventState
    BY DEF EventState
  <1> QED
    BY <1>1, <1>3, <1>4, <1>5, <1>6 DEF CallStep, Continue
-----------------------------------------------------------------------------
(* One lemma for each part of the invariant *)

LEMMA TypeStep ==
    ASSUME IInv, NEW c \in Call, CallStep(c)
    PROVE  TypeOK'
  <1> USE DEF IInv, TypeOK
  <1>1. /\ newestFirst' = newestFirst /\ placed' = placed /\ version' = version
        /\ pc' \in [Call -> Stage]
        /\ job' \in [Call -> Job]
    BY CallEffect DEF channel, Job
  <1>2. stored' \in [Order -> Version]
    BY StoreEffect
  <1>3. cursor' \in 0..(MaxOrders + PageSize)
    BY StoreEffect, JobType DEF Job
  <1>4. event' \in [Event -> EventState] /\ failures' \in 0..MaxFailures
    BY EventEffect
  <1> QED
    BY <1>1, <1>2, <1>3, <1>4 DEF Job

LEMMA WriterStep ==
    ASSUME IInv, NEW c \in Call, CallStep(c)
    PROVE  WriterHasOrder'
  <1> USE DEF IInv, TypeOK
  <1> SUFFICES ASSUME NEW d \in Call, pc'[d] = "writing"
               PROVE  /\ job'[d].page # <<>>
                      /\ job'[d].found # 0 => stored'[Head(job'[d].page).order] # 0
    BY DEF WriterHasOrder
  <1>1. CASE pc[d] = "writing" /\ job'[d] = job[d]
    BY <1>1, HeadType, StoreEffect DEF WriterHasOrder
  <1>2. CASE d = c /\ Look(c)
    BY <1>2 DEF Look, Goto, Job
  <1>3. (pc[d] = "writing" /\ job'[d] = job[d]) \/ (d = c /\ Look(c))
    <2>1. CASE d # c
      BY <2>1, CallEffect
    <2>2. CASE d = c
      BY <2>2 DEF CallStep, Receive, Poll, Continue, ReadCursor, Pull, Write, SaveCursor,
                  MarkProcessed, Refused, Fail, Crash, Goto, End
    <2> QED
      BY <2>1, <2>2
  <1> QED
    BY <1>1, <1>2, <1>3

LEMMA CoverStep ==
    ASSUME IInv, NEW c \in Call, CallStep(c)
    PROVE  PullsAreCovered'
  <1> USE DEF IInv
  <1> SUFFICES ASSUME ~newestFirst', NEW d \in Call, NEW o \in Order
               PROVE  /\ pc'[d] = "pulling" /\ o <= job'[d].at => stored'[o] # 0
                      /\ pc'[d] \in {"looking", "writing"} /\ o <= job'[d].next
                           => stored'[o] # 0 \/ OnPage(job'[d].page, o)
    BY DEF PullsAreCovered
  <1>1. /\ ~newestFirst /\ (stored[o] # 0 => stored'[o] # 0)
        /\ d # c => pc'[d] = pc[d] /\ job'[d] = job[d]
        /\ pc[c] \in Stage /\ job[c] \in Job /\ pc \in [Call -> Stage] /\ job \in [Call -> Job]
    BY CallEffect, StoreEffect, JobType DEF channel, TypeOK, Job
  <1>2. CASE d # c
    BY <1>1, <1>2 DEF PullsAreCovered
  <1>3. CASE d = c /\ (Poll(c) \/ ReadCursor(c))
    <2>1. pc'[d] = "pulling" /\ job'[d].at = cursor /\ stored' = stored
      BY <1>1, <1>3 DEF Poll, ReadCursor, Goto, NoJob, Job
    <2> QED
      BY <1>1, <2>1 DEF NothingIsPassed
  <1>4. CASE d = c /\ Pull(c)
    <2> DEFINE k == job[c].at
    <2>1. pc[c] = "pulling" /\ k \in 0..(MaxOrders + PageSize) /\ k \in Nat /\ o \in Nat
      BY <1>1, <1>4, JobType, Sizes DEF Pull, Order, Job
    <2>2. pc'[c] = "looking" /\ job'[c].page = PageAt(k) /\ job'[c].next = NextCursor(k)
          /\ stored' = stored
      BY <1>1, <1>4 DEF Pull, Goto, Job
    <2>3. o <= k => stored[o] # 0
      BY <1>1, <2>1 DEF PullsAreCovered
    <2> HIDE DEF k
    <2>4. o > k /\ o <= NextCursor(k) => OnPage(PageAt(k), o)
      BY <1>1, <2>1, PageCovers
    <2> QED
      BY <1>4, <2>1, <2>2, <2>3, <2>4
  <1>5. CASE d = c /\ Look(c)
    <2>1. pc[c] = "looking" /\ pc'[c] = "writing" /\ job'[c].page = job[c].page
          /\ job'[c].next = job[c].next /\ stored' = stored
      BY <1>1, <1>5 DEF Look, Goto, Job
    <2> QED
      BY <1>1, <1>5, <2>1 DEF PullsAreCovered
  <1>6. CASE d = c /\ Write(c)
    <2>1. pc[c] = "writing" /\ pc'[c] = "looking" /\ job'[c].page = Tail(job[c].page)
          /\ job'[c].next = job[c].next
      BY <1>1, <1>6 DEF Write, Goto, Job
    <2>2. o <= job[c].next => stored[o] # 0 \/ OnPage(job[c].page, o)
      BY <1>1, <2>1 DEF PullsAreCovered
    <2>3. OnPage(job[c].page, o) => Head(job[c].page).order = o \/ OnPage(Tail(job[c].page), o)
      BY <2>1, JobType, HeadOrTail DEF WriterHasOrder
    <2>4. stored'[Head(job[c].page).order] # 0
      BY <1>6, StoreEffect
    <2> QED
      BY <1>1, <1>6, <2>1, <2>2, <2>3, <2>4
  <1>7. CASE d = c /\ ~ (Poll(c) \/ ReadCursor(c) \/ Pull(c) \/ Look(c) \/ Write(c))
    <2>1. pc'[c] \in {"resolved", "marking", "idle"}
      BY <1>1, <1>7 DEF CallStep, Receive, Continue, SaveCursor, MarkProcessed, Refused, Fail,
                        Crash, Goto, End
    <2> QED
      BY <1>7, <2>1
  <1> QED
    BY <1>2, <1>3, <1>4, <1>5, <1>6, <1>7

\* The cursor is saved when nothing is left of the page.
LEMMA PassedStep ==
    ASSUME IInv, NEW c \in Call, CallStep(c)
    PROVE  NothingIsPassed'
  <1> USE DEF IInv
  <1> SUFFICES ASSUME ~newestFirst', NEW o \in Order, o <= cursor'
               PROVE  stored'[o] # 0
    BY DEF NothingIsPassed
  <1>1. ~newestFirst /\ (stored[o] # 0 => stored'[o] # 0)
    BY CallEffect, StoreEffect DEF channel
  <1>2. CASE cursor' = cursor
    BY <1>1, <1>2 DEF NothingIsPassed
  <1>3. CASE SaveCursor(c) /\ cursor' = job[c].next
    <2>1. pc[c] = "looking" /\ job[c].page = <<>>
      BY <1>3 DEF SaveCursor
    <2>2. ~ OnPage(job[c].page, o)
      BY <2>1 DEF OnPage
    <2> QED
      BY <1>1, <1>3, <2>1, <2>2 DEF PullsAreCovered
  <1> QED
    BY <1>2, <1>3, StoreEffect

LEMMA EventStep ==
    ASSUME IInv, NEW c \in Call, CallStep(c)
    PROVE  EventTakenOnce'
  <1>1. /\ \A d \in Call : job[d].event \in Event \cup {"none"}
        /\ \A d \in Call \ {c} : job'[d] = job[d]
        /\ event \in [Event -> EventState]
    BY CallEffect, JobType DEF Job, IInv, TypeOK
  <1>2. /\ \A d \in Call : job[d].event # "none" => event[job[d].event] = "recorded"
        /\ \A d, f \in Call : job[d].event = job[f].event /\ job[d].event # "none" => d = f
    BY DEF IInv, EventTakenOnce
  <1>3. CASE UNCHANGED event /\ job'[c].event \in {job[c].event, "none"}
    BY <1>1, <1>2, <1>3 DEF EventTakenOnce
  <1>4. ASSUME NEW e \in Event, event[e] = "none", job'[c].event = e,
               event' = [event EXCEPT ![e] = "recorded"]
        PROVE  EventTakenOnce'
    <2>1. \A d \in Call : job[d].event # e
      BY <1>2, <1>4, IngestionAssumption
    <2>2. event'[e] = "recorded" /\ \A f \in Event \ {e} : event'[f] = event[f]
      BY <1>1, <1>4
    <2> QED
      BY <1>1, <1>2, <1>4, <2>1, <2>2 DEF EventTakenOnce
  <1>5. ASSUME job[c].event \in Event, job'[c].event = "none",
               NEW s \in EventState, event' = [event EXCEPT ![job[c].event] = s]
        PROVE  EventTakenOnce'
    <2>1. \A f \in Event \ {job[c].event} : event'[f] = event[f]
      BY <1>1, <1>5
    <2>2. \A d \in Call \ {c} : job[d].event # "none" => job[d].event # job[c].event
      BY <1>2
    <2> QED
      BY <1>1, <1>2, <1>5, <2>1, <2>2 DEF EventTakenOnce
  <1> QED
    BY <1>3, <1>4, <1>5, EventEffect
-----------------------------------------------------------------------------

LEMMA InitHolds == Init => IInv
  <1> SUFFICES ASSUME Init PROVE IInv
    OBVIOUS
  <1> USE DEF Init
  <1>1. MaxFailures \in Nat
    BY IngestionAssumption
  <1>2. TypeOK
    BY <1>1, Sizes DEF TypeOK, NoJob, Version, EventState, Stage
  <1>3. PlacedHaveStatus /\ NothingIsPassed
    BY Sizes DEF PlacedHaveStatus, NothingIsPassed, Order
  <1>4. WriterHasOrder /\ PullsAreCovered /\ EventTakenOnce
    BY DEF WriterHasOrder, PullsAreCovered, EventTakenOnce, NoJob
  <1> QED
    BY <1>2, <1>3, <1>4 DEF IInv

\* The channel goes on by itself: it touches nothing of the database.
LEMMA ChannelStep ==
    ASSUME IInv, Place \/ \E o \in Order : Change(o)
    PROVE  IInv'
  <1> USE DEF IInv
  <1>1. /\ UNCHANGED <<newestFirst, stored, cursor, event, pc, job, failures>>
        /\ placed' \in 0..MaxOrders /\ version' \in [Order -> Version]
        /\ PlacedHaveStatus'
    <2>1. CASE Place
      <3>1. placed + 1 \in Order /\ 1 \in Version /\ placed' = placed + 1
            /\ version' = [version EXCEPT ![placed + 1] = 1]
        BY <2>1, Sizes DEF Place, TypeOK, Order, Version
      <3> QED
        BY <2>1, <3>1, Sizes DEF Place, TypeOK, PlacedHaveStatus, Order
    <2>2. ASSUME NEW o \in Order, Change(o)
          PROVE  /\ UNCHANGED <<newestFirst, placed, stored, cursor, event, pc, job, failures>>
                 /\ version' = [version EXCEPT ![o] = version[o] + 1]
                 /\ version[o] # 0 /\ version[o] + 1 \in Version /\ version[o] + 1 # 0
      BY <2>2, Sizes DEF Change, Version
    <2> QED
      BY <2>1, <2>2 DEF TypeOK, PlacedHaveStatus
  <1>2. TypeOK'
    BY <1>1 DEF TypeOK
  <1>3. WriterHasOrder' /\ NothingIsPassed' /\ EventTakenOnce'
    BY <1>1 DEF WriterHasOrder, NothingIsPassed, EventTakenOnce
  <1>4. PullsAreCovered'
    BY <1>1 DEF PullsAreCovered
  <1> QED
    BY <1>1, <1>2, <1>3, <1>4

LEMMA StepHolds == IInv /\ [Next]_vars => IInv'
  <1> SUFFICES ASSUME IInv, [Next]_vars PROVE IInv'
    OBVIOUS
  <1>1. CASE UNCHANGED vars
    BY <1>1 DEF vars, channel, IInv, TypeOK, PlacedHaveStatus, WriterHasOrder, PullsAreCovered,
                NothingIsPassed, EventTakenOnce
  <1>2. CASE Place \/ \E o \in Order : Change(o)
    BY <1>2, ChannelStep
  <1>3. ASSUME NEW c \in Call, CallStep(c)
        PROVE  IInv'
    <2>1. PlacedHaveStatus'
      BY <1>3, CallEffect DEF channel, IInv, PlacedHaveStatus
    <2> QED
      BY <1>3, <2>1, TypeStep, WriterStep, CoverStep, PassedStep, EventStep DEF IInv
  <1> QED
    BY <1>1, <1>2, <1>3 DEF Next, CallStep

THEOREM Invariance == Spec => []IInv
  BY InitHolds, StepHolds, PTL DEF Spec

\* The cursor never passes an order that was not stored, an event is worked on by
\* one call and never again, for any number of overlapping, failing and dying
\* pulls, any page size and either direction of listing.
THEOREM IngestionSound == Spec => []IngestionIsSound
  <1>1. IInv => IngestionIsSound
    BY DEF IInv, IngestionIsSound
  <1> QED
    BY <1>1, Invariance, PTL
-----------------------------------------------------------------------------
(* A listing: what is true of a call between its awaits *)

ListingRow == [status : P!Status, approval : {"NONE", "SUBMITTED", "APPROVED", "REJECTED"},
               deleted : BOOLEAN]
ItemRow == [status : {"QUEUED", "SUCCEEDED", "FAILED"}, queued : BOOLEAN,
            job : {"RUNNING", "COMPLETED", "FAILED"}]
PackStatus == {"GENERATED", "DOWNLOADED", "CONFIRMED"}
Decision == {"none", "SUBMITTED", "APPROVED", "REJECTED"}
ReadStatus == P!Status \cup Decision \cup {"NONE"}
ListingJob == [item : Nat, fresh : BOOLEAN, found : BOOLEAN, pack : Nat, read : ReadStatus,
               decision : Decision]

HasItem == {"routing", "adding", "queueing", "succeeding", "linking", "failing", "failingItem", "counting"}
UserConfirmed == "download" \in raced \/ \E p \in DOMAIN packs : packs[p] = "CONFIRMED"

\* What a call holds is there, what it has written is there, and what it goes by was so
\* when it read it.
Rightly(c) ==
    /\ listingPc[c] \in {"idle", "itemizing", "confirming", "approving"} => listingJob[c].item = 0
    /\ listingPc[c] \in HasItem => listingJob[c].item \in 1..Len(items)
    /\ listingPc[c] \in {"packing", "saving"} => listingJob[c].item \in 0..Len(items)
    /\ listingPc[c] = "saving" => Len(packs) # 0
    /\ listingPc[c] \in {"linking", "queueing"} => queue # {}
    /\ listingPc[c] = "downloading" => listingJob[c].pack \in 1..Len(packs)
    /\ listingPc[c] = "confirming" => UserConfirmed
    /\ listingPc[c] = "approving" => /\ listingJob[c].read # "APPROVED"
                                     /\ listingJob[c].decision # "none"
    /\ listingPc[c] = "deleting" => listingJob[c].read \notin {"PENDING", "QUEUED", "LIVE"}
ListingJobInv == listingJob \in [Call -> ListingJob] /\ \A c \in Call : Rightly(c)

\* A listing that is not created has nothing, and nobody is at work on it.
NothingYet ==
    listing.status = "none" =>
        items = <<>> /\ packs = <<>> /\ \A c \in Call : listingPc[c] = "idle"

\* ... and, unless publications raced, one at most is under way, about the latest item;
\* the listing and the item tell one story except between its steps.
OneStory(latest) == /\ listing.status = "ERROR" => latest = "FAILED"
                    /\ latest = "SUCCEEDED" => listing.status \notin {"DRAFT", "ERROR"}
InStep(c) == /\ listingPc[c] # "itemizing" => listingJob[c].item = Len(items)
             /\ listingPc[c] = "succeeding" => listing.status \notin {"DRAFT", "ERROR"}
             /\ listingPc[c] = "queueing" => items[Len(items)].status = "QUEUED"
             /\ listingPc[c] = "counting" => OneStory(items[Len(items)].status)
OnePublishes ==
    "publish" \in raced \/ listing.deleted \/
    /\ \A c, d \in Call : P!Publishing(c) /\ P!Publishing(d) => c = d
    /\ \A c \in Call : P!Publishing(c) => InStep(c)
    /\ P!UnderWay \/ items = <<>> \/ OneStory(items[Len(items)].status)

ListingInv == /\ P!TypeOK /\ ListingJobInv /\ NothingYet
              /\ P!QueuedHasWork /\ P!LiveIsConfirmed /\ P!DeletedIsIdle /\ OnePublishes
-----------------------------------------------------------------------------
(* A listing: the effect of a step *)

LEMMA ListingMoves ==
    ASSUME P!TypeOK, ListingJobInv, NEW c \in Call, NEW stage \in P!Stage, NEW work \in ListingJob,
           P!Goto(c, stage, work)
    PROVE  /\ listingPc'[c] = stage /\ listingJob'[c] = work
           /\ \A d \in Call : d # c => listingPc'[d] = listingPc[d] /\ listingJob'[d] = listingJob[d]
           /\ listingJob' \in [Call -> ListingJob]
           /\ listingPc' \in [Call -> P!Stage]
  BY DEF P!Goto, P!TypeOK, ListingJobInv

LEMMA NewListingJob ==
    /\ P!NoJob \in ListingJob
    /\ [P!NoJob EXCEPT !.fresh = TRUE] \in ListingJob
    /\ P!NoJob.item = 0
    /\ [P!NoJob EXCEPT !.fresh = TRUE].item = 0
  BY DEF P!NoJob, ListingJob, Decision, ReadStatus, P!Status

LEMMA ListingJobSet ==
    ASSUME NEW j \in ListingJob
    PROVE  /\ j.item \in Nat /\ j.pack \in Nat
           /\ \A f \in BOOLEAN : LET k == [j EXCEPT !.found = f] IN
                 /\ k \in ListingJob /\ k.item = j.item /\ k.pack = j.pack /\ k.fresh = j.fresh
                 /\ k.read = j.read /\ k.decision = j.decision
           /\ \A n \in Nat : [j EXCEPT !.item = n] \in ListingJob /\ [j EXCEPT !.item = n].item = n
           /\ \A n \in Nat : [j EXCEPT !.pack = n] \in ListingJob /\ [j EXCEPT !.pack = n].pack = n
           /\ \A r \in ReadStatus : [j EXCEPT !.read = r] \in ListingJob /\ [j EXCEPT !.read = r].read = r
           /\ \A r \in ReadStatus, d \in Decision :
                 /\ [j EXCEPT !.read = r, !.decision = d] \in ListingJob
                 /\ [j EXCEPT !.read = r, !.decision = d].read = r
                 /\ [j EXCEPT !.read = r, !.decision = d].decision = d
  BY DEF ListingJob

LEMMA HeldListingJob ==
    ASSUME ListingJobInv, NEW c \in Call
    PROVE  /\ listingJob[c] \in ListingJob /\ Rightly(c)
           /\ listingJob[c].item \in Nat /\ listingJob[c].pack \in Nat
           /\ listingJob[c].fresh \in BOOLEAN /\ listingJob[c].found \in BOOLEAN
           /\ listingJob[c].read \in ReadStatus /\ listingJob[c].decision \in Decision
  BY DEF ListingJobInv, ListingJob

\* The updates of an item's row, by name.
WithStatus(s, i, x) == [s EXCEPT ![i].status = x]
WithLink(s, i, x) == [s EXCEPT ![i].status = x, ![i].queued = TRUE]
WithJob(s, i, y) == [s EXCEPT ![i].job = y]

LEMMA RowUpdate ==
    ASSUME NEW s \in Seq(ItemRow), NEW i \in 1..Len(s), NEW r \in ItemRow
    PROVE  /\ [s EXCEPT ![i] = r] \in Seq(ItemRow) /\ Len([s EXCEPT ![i] = r]) = Len(s)
           /\ [s EXCEPT ![i] = r][i] = r
           /\ \A k \in 1..Len(s) : k # i => [s EXCEPT ![i] = r][k] = s[k]
  OBVIOUS

LEMMA StatusUpdate ==
    ASSUME NEW s \in Seq(ItemRow), NEW i \in 1..Len(s), NEW x \in {"QUEUED", "SUCCEEDED", "FAILED"}
    PROVE  /\ WithStatus(s, i, x) \in Seq(ItemRow) /\ Len(WithStatus(s, i, x)) = Len(s)
           /\ WithStatus(s, i, x)[i].status = x
  <1> DEFINE r == [s[i] EXCEPT !.status = x]
  <1>0. s[i] \in ItemRow
    OBVIOUS
  <1>1. r \in ItemRow /\ r.status = x
    BY <1>0 DEF ItemRow
  <1>2. WithStatus(s, i, x) = [s EXCEPT ![i] = r]
    BY DEF WithStatus
  <1> HIDE DEF r
  <1> QED
    BY <1>1, <1>2, RowUpdate

LEMMA LinkUpdate ==
    ASSUME NEW s \in Seq(ItemRow), NEW i \in 1..Len(s), NEW x \in {"QUEUED", "SUCCEEDED", "FAILED"}
    PROVE  /\ WithLink(s, i, x) \in Seq(ItemRow) /\ Len(WithLink(s, i, x)) = Len(s)
           /\ WithLink(s, i, x)[i].status = x
  <1> DEFINE r == [s[i] EXCEPT !.status = x, !.queued = TRUE]
  <1>0. s[i] \in ItemRow
    OBVIOUS
  <1>1. r \in ItemRow /\ r.status = x
    BY <1>0 DEF ItemRow
  <1>2. WithLink(s, i, x) = [s EXCEPT ![i] = r]
    BY DEF WithLink
  <1> HIDE DEF r
  <1> QED
    BY <1>1, <1>2, RowUpdate

LEMMA ItemJobUpdate ==
    ASSUME NEW s \in Seq(ItemRow), NEW i \in 1..Len(s), NEW y \in {"RUNNING", "COMPLETED", "FAILED"}
    PROVE  /\ WithJob(s, i, y) \in Seq(ItemRow) /\ Len(WithJob(s, i, y)) = Len(s)
           /\ \A k \in 1..Len(s) : WithJob(s, i, y)[k].status = s[k].status
  <1> DEFINE r == [s[i] EXCEPT !.job = y]
  <1>0. s[i] \in ItemRow
    OBVIOUS
  <1>1. r \in ItemRow /\ r.status = s[i].status
    BY <1>0 DEF ItemRow
  <1>2. WithJob(s, i, y) = [s EXCEPT ![i] = r]
    BY DEF WithJob
  <1> HIDE DEF r
  <1> QED
    BY <1>1, <1>2, RowUpdate

LEMMA StatusSet ==
    ASSUME listing \in ListingRow, listing.status # "none", NEW c \in Call,
           NEW x \in P!Status \ {"none"}, P!SetStatus(c, x)
    PROVE  /\ listing' \in ListingRow /\ listing'.approval = listing.approval
           /\ listing'.deleted = listing.deleted
           /\ listing'.status \in {listing.status, x}
           /\ listing.deleted => listing' = listing \/ "delete" \in raced'
           /\ ~listing.deleted => listing'.status = x
           /\ raced \subseteq raced' /\ raced' \subseteq raced \cup {"delete"}
  BY DEF ListingRow, P!SetStatus, P!Searched, P!Found, P!Races

\* The rows have their types, and what there is stays there.
ListingRows ==
    /\ automated' \in BOOLEAN /\ listing' \in ListingRow
    /\ items' \in Seq(ItemRow) /\ queue' \subseteq DOMAIN items' /\ packs' \in Seq(PackStatus)
    /\ raced' \subseteq {"publish", "download", "approval", "delete"}
    /\ listing'.status # "none"
    /\ Len(items) \in Nat /\ Len(items)' \in Nat /\ Len(items) <= Len(items)'
    /\ Len(packs) \in Nat /\ Len(packs)' \in Nat /\ Len(packs) <= Len(packs)'
    /\ queue \subseteq queue' /\ raced \subseteq raced'
    /\ UserConfirmed => UserConfirmed'

\* What a call is to hold and to go by at a stage.
RightlyAt(stage, work) ==
    /\ stage \in {"idle", "itemizing", "confirming", "approving"} => work.item = 0
    /\ stage \in HasItem => work.item \in 1..Len(items)'
    /\ stage \in {"packing", "saving"} => work.item \in 0..Len(items)'
    /\ stage = "saving" => Len(packs)' # 0
    /\ stage \in {"linking", "queueing"} => queue' # {}
    /\ stage = "downloading" => work.pack \in 1..Len(packs)'
    /\ stage = "confirming" => UserConfirmed'
    /\ stage = "approving" => work.read # "APPROVED" /\ work.decision # "none"
    /\ stage = "deleting" => work.read \notin {"PENDING", "QUEUED", "LIVE"}

\* A call goes on rightly, and the others do, for what there is stays there.
LEMMA RightlyOn ==
    ASSUME P!TypeOK, ListingJobInv, ListingRows,
           NEW c \in Call, NEW stage \in P!Stage, NEW work \in ListingJob, P!Goto(c, stage, work),
           RightlyAt(stage, work)
    PROVE  P!TypeOK' /\ ListingJobInv' /\ NothingYet'
  <1>1. Rightly(c)'
    BY ListingMoves DEF Rightly, RightlyAt
  <1>2. ASSUME NEW d \in Call, d # c PROVE Rightly(d)'
    <2>1. Rightly(d) /\ listingPc'[d] = listingPc[d] /\ listingJob'[d] = listingJob[d]
      BY <1>2, ListingMoves DEF ListingJobInv
    <2>2. listingJob[d] \in ListingJob
      BY DEF ListingJobInv
    <2>3. listingJob[d].item \in Nat /\ listingJob[d].pack \in Nat
      BY <2>2, ListingJobSet
    <2> QED
      BY <2>1, <2>3 DEF Rightly, ListingRows
  <1>3. P!TypeOK'
    BY ListingMoves DEF ListingRows, P!TypeOK, ListingRow, ItemRow, PackStatus
  <1> QED
    BY <1>1, <1>2, <1>3, ListingMoves DEF ListingJobInv, ListingRows, NothingYet
-----------------------------------------------------------------------------
(* A listing: one publication at a time *)

SameStory ==
    /\ Len(items)' = Len(items)
    /\ items # <<>> => items'[Len(items)].status = items[Len(items)].status
    /\ listing'.status \in {"DRAFT", "ERROR"} => listing'.status = listing.status
OthersPublish(c) ==
    \A d \in Call : d # c => listingPc'[d] = listingPc[d] /\ listingJob'[d] = listingJob[d]
NeverApart == "publish" \in raced \/ listing.deleted

LEMMA Bystander ==
    ASSUME P!TypeOK, P!TypeOK', ListingJobInv, OnePublishes, SameStory, NEW c \in Call, OthersPublish(c),
           ~P!Publishing(c), ~P!Publishing(c)', NeverApart => NeverApart'
    PROVE  OnePublishes'
  <1> SUFFICES ASSUME ~NeverApart' PROVE OnePublishes'
    BY DEF OnePublishes, NeverApart
  <1>1. ~NeverApart
    OBVIOUS
  <1>2. \A d \in Call : P!Publishing(d)' <=> P!Publishing(d)
    BY DEF OthersPublish, P!Publishing
  <1>3. P!UnderWay' <=> P!UnderWay
    BY <1>2 DEF P!UnderWay
  <1>4. (items = <<>>)' <=> items = <<>>
    BY DEF SameStory, P!TypeOK
  <1>5. items # <<>> => (OneStory(items[Len(items)].status) => OneStory(items[Len(items)].status)')
    BY DEF SameStory, OneStory
  <1>6. ASSUME NEW d \in Call, P!Publishing(d), InStep(d) PROVE InStep(d)'
    <2>1. d # c /\ listingPc'[d] = listingPc[d] /\ listingJob'[d] = listingJob[d]
      BY <1>6 DEF OthersPublish
    <2>2. CASE items # <<>>
      BY <1>5, <1>6, <2>1, <2>2 DEF InStep, SameStory
    <2>3. CASE items = <<>>
      <3>1. listingPc[d] \notin {"queueing", "counting", "succeeding"}
        BY <2>3 DEF ListingJobInv, Rightly, HasItem
      <3> QED
        BY <1>6, <2>1, <2>3, <3>1, <1>4 DEF InStep
    <2> QED
      BY <2>2, <2>3
  <1> QED
    BY <1>1, <1>2, <1>3, <1>4, <1>5, <1>6 DEF OnePublishes, NeverApart

LEMMA Publisher ==
    ASSUME P!TypeOK, OnePublishes, NEW c \in Call, OthersPublish(c), P!Publishing(c),
           NeverApart => NeverApart',
           ~NeverApart' => IF P!Publishing(c)' THEN InStep(c)'
                           ELSE (items = <<>> \/ OneStory(items[Len(items)].status))'
    PROVE  OnePublishes'
  <1> SUFFICES ASSUME ~NeverApart' PROVE OnePublishes'
    BY DEF OnePublishes, NeverApart
  <1>1. ~NeverApart /\ \A d \in Call : d # c => ~P!Publishing(d)
    BY DEF OnePublishes, NeverApart
  <1>2. \A d \in Call : d # c => ~P!Publishing(d)'
    BY <1>1 DEF OthersPublish, P!Publishing
  <1>3. (\A d \in Call : P!Publishing(d)' => InStep(d)')
    BY <1>2
  <1>4. P!UnderWay' \/ (items = <<>> \/ OneStory(items[Len(items)].status))'
    BY DEF P!UnderWay
  <1> QED
    BY <1>2, <1>3, <1>4 DEF OnePublishes

LEMMA Starter ==
    ASSUME P!TypeOK, OnePublishes, NEW c \in Call, OthersPublish(c),
           NeverApart => NeverApart',
           ~NeverApart' => ~P!UnderWay,
           P!Publishing(c)', InStep(c)'
    PROVE  OnePublishes'
  <1> SUFFICES ASSUME ~NeverApart' PROVE OnePublishes'
    BY DEF OnePublishes, NeverApart
  <1>1. \A d \in Call : ~P!Publishing(d)
    BY DEF P!UnderWay
  <1>2. \A d \in Call : d # c => ~P!Publishing(d)'
    BY <1>1 DEF OthersPublish, P!Publishing
  <1>3. (\A d \in Call : P!Publishing(d)' => InStep(d)')
    BY <1>2
  <1>4. P!UnderWay'
    BY DEF P!UnderWay
  <1> QED
    BY <1>2, <1>3, <1>4 DEF OnePublishes
-----------------------------------------------------------------------------
(* A listing: each operation keeps the invariant.  In these proofs <1>0 and <1>h   *)
(* say what the call finds and holds, <1>g and <1>r what it does to the rows,      *)
(* <1>2 and <1>w what it holds next; then there is a step per conjunct.            *)

LEMMA PublishStep ==
    ASSUME ListingInv, NEW c \in Call, P!Publish(c)
    PROVE  ListingInv'
  <1> USE DEF ListingInv
  <1> DEFINE stage == "itemizing"
             work == [P!NoJob EXCEPT !.fresh = TRUE]
  <1>0. /\ listingJob[c] \in ListingJob /\ Rightly(c)
        /\ listing \in ListingRow /\ listing.status = "none" /\ items = <<>> /\ packs = <<>>
        /\ items \in Seq(ItemRow) /\ packs \in Seq(PackStatus)
        /\ \A b \in Call : listingPc[b] = "idle"
    BY HeldListingJob DEF P!Publish, NothingYet, P!TypeOK, ItemRow, PackStatus, ListingRow
  <1>1. ListingRows
    BY <1>0 DEF P!Publish, P!Found, P!Races, ListingRows, UserConfirmed, P!TypeOK,
       ListingRow, ItemRow, PackStatus, P!Status, Decision
  <1>2. work \in ListingJob /\ stage \in P!Stage
    BY <1>0, NewListingJob DEF P!Publish, P!Stage, P!Publishes, P!Updates, ReadStatus, Decision, ListingRow, P!NoJob, ListingJob
  <1>w. work.item = 0
    BY <1>0 DEF P!Publish, P!NoJob, ListingJob
  <1>3. P!Goto(c, stage, work)
    BY <1>0 DEF P!Publish, P!End
  <1> HIDE DEF work
  <1>4. RightlyAt(stage, work)
    BY <1>0, <1>1, <1>w
       DEF P!Publish, P!Found, Rightly, RightlyAt, HasItem, ListingRows, UserConfirmed, ReadStatus, Decision, ListingRow
  <1>5. P!TypeOK' /\ ListingJobInv' /\ NothingYet'
    BY <1>1, <1>2, <1>3, <1>4, RightlyOn
  <1>6. P!QueuedHasWork' /\ P!LiveIsConfirmed' /\ P!DeletedIsIdle'
    BY <1>0, <1>1 DEF P!Publish, P!Found, P!Races, Rightly, ListingRows, ListingRow, UserConfirmed,
       P!QueuedHasWork, P!LiveIsConfirmed, P!DeletedIsIdle
  <1>7. /\ OthersPublish(c) /\ listingPc'[c] = stage /\ listingJob'[c] = work
        /\ listingPc[c] \in P!Stage
    BY <1>2, <1>3, ListingMoves DEF OthersPublish, P!TypeOK
  <1>8. (NeverApart => NeverApart') /\ (~NeverApart' => ~P!UnderWay)
    BY <1>0 DEF P!Publish, P!Races, NeverApart, P!UnderWay, P!Publishing, P!Publishes
  <1>a. P!Publishing(c)' /\ InStep(c)'
    BY <1>0, <1>w, <1>7 DEF P!Publish, P!Found, P!Publishing, P!Publishes, InStep
  <1>9. OnePublishes'
    BY <1>7, <1>8, <1>a, Starter
  <1> QED
    BY <1>5, <1>6, <1>9

LEMMA PublishExistingStep ==
    ASSUME ListingInv, NEW c \in Call, P!PublishExisting(c)
    PROVE  ListingInv'
  <1> USE DEF ListingInv
  <1> DEFINE stage == "itemizing"
             work == P!NoJob
  <1>0. /\ listingJob[c] \in ListingJob /\ Rightly(c)
        /\ listingJob[c].item \in Nat /\ listingJob[c].pack \in Nat
        /\ listingJob[c].fresh \in BOOLEAN /\ listingJob[c].found \in BOOLEAN
        /\ listingJob[c].read \in ReadStatus /\ listingJob[c].decision \in Decision
        /\ listing.status # "none" /\ listing \in ListingRow /\ listing.status \in P!Status
        /\ items \in Seq(ItemRow) /\ packs \in Seq(PackStatus)
    BY HeldListingJob DEF P!PublishExisting, P!Found, NothingYet, P!TypeOK, ItemRow, PackStatus, ListingRow
  <1>1. ListingRows
    BY <1>0 DEF P!PublishExisting, P!Found, P!Races, ListingRows, UserConfirmed, P!TypeOK,
       ListingRow, ItemRow, PackStatus, P!Status, Decision
  <1>2. work \in ListingJob /\ stage \in P!Stage
    BY <1>0, NewListingJob DEF P!PublishExisting, P!Stage, P!Publishes, P!Updates, ReadStatus, Decision, ListingRow
  <1>w. work.item = 0
    BY <1>0, NewListingJob DEF P!PublishExisting
  <1>3. P!Goto(c, stage, work)
    BY <1>0 DEF P!PublishExisting, P!End
  <1> HIDE DEF work
  <1>4. RightlyAt(stage, work)
    BY <1>0, <1>1, <1>w
       DEF P!PublishExisting, P!Found, Rightly, RightlyAt, HasItem, ListingRows, UserConfirmed, ReadStatus, Decision, ListingRow
  <1>5. P!TypeOK' /\ ListingJobInv' /\ NothingYet'
    BY <1>1, <1>2, <1>3, <1>4, RightlyOn
  <1>6. P!QueuedHasWork' /\ P!LiveIsConfirmed' /\ P!DeletedIsIdle'
    BY <1>0, <1>1 DEF P!PublishExisting, P!Found, P!Races, Rightly, ListingRows, ListingRow, UserConfirmed,
       P!QueuedHasWork, P!LiveIsConfirmed, P!DeletedIsIdle
  <1>7. /\ OthersPublish(c) /\ listingPc'[c] = stage /\ listingJob'[c] = work
        /\ listingPc[c] \in P!Stage
    BY <1>2, <1>3, ListingMoves DEF OthersPublish, P!TypeOK
  <1>8. (NeverApart => NeverApart') /\ (~NeverApart' => ~P!UnderWay)
    BY <1>0 DEF P!PublishExisting, P!Races, NeverApart, P!UnderWay, P!Publishing, P!Publishes
  <1>a. P!Publishing(c)' /\ InStep(c)'
    BY <1>0, <1>w, <1>7 DEF P!PublishExisting, P!Found, P!Publishing, P!Publishes, InStep
  <1>9. OnePublishes'
    BY <1>7, <1>8, <1>a, Starter
  <1> QED
    BY <1>5, <1>6, <1>9

LEMMA CreateItemStep ==
    ASSUME ListingInv, NEW c \in Call, P!CreateItem(c)
    PROVE  ListingInv'
  <1> USE DEF ListingInv
  <1> DEFINE stage == "routing"
             work == [listingJob[c] EXCEPT !.item = Len(items) + 1]
  <1>0. /\ listingJob[c] \in ListingJob /\ Rightly(c)
        /\ listingJob[c].item \in Nat /\ listingJob[c].pack \in Nat
        /\ listingJob[c].fresh \in BOOLEAN /\ listingJob[c].found \in BOOLEAN
        /\ listingJob[c].read \in ReadStatus /\ listingJob[c].decision \in Decision
        /\ listing.status # "none" /\ listing \in ListingRow /\ listing.status \in P!Status
        /\ items \in Seq(ItemRow) /\ packs \in Seq(PackStatus)
    BY HeldListingJob DEF P!CreateItem, P!Found, NothingYet, P!TypeOK, ItemRow, PackStatus, ListingRow
  <1>r. /\ items' \in Seq(ItemRow) /\ Len(items') = Len(items) + 1
        /\ listing' = listing
        /\ queue' = queue /\ packs' = packs /\ raced' = raced /\ automated' = automated
    BY <1>0 DEF P!CreateItem, ItemRow
  <1>1. ListingRows
    BY <1>0, <1>r DEF ListingRows, UserConfirmed, P!TypeOK
  <1>m. Len(items) + 1 \in Nat
    BY <1>0
  <1>2. work \in ListingJob /\ stage \in P!Stage
    BY <1>0, <1>m DEF P!CreateItem, P!Stage, P!Publishes, P!Updates, ListingJob
  <1>w. work.item = Len(items) + 1
    BY <1>0 DEF P!CreateItem, P!NoJob, ListingJob
  <1>3. P!Goto(c, stage, work)
    BY <1>0 DEF P!CreateItem, P!End
  <1> HIDE DEF work
  <1>4. RightlyAt(stage, work)
    BY <1>0, <1>1, <1>w, <1>r
       DEF P!CreateItem, P!Found, Rightly, RightlyAt, HasItem, ListingRows, UserConfirmed, ReadStatus, Decision, ListingRow
  <1>5. P!TypeOK' /\ ListingJobInv' /\ NothingYet'
    BY <1>1, <1>2, <1>3, <1>4, RightlyOn
  <1>6. P!QueuedHasWork' /\ P!LiveIsConfirmed' /\ P!DeletedIsIdle'
    BY <1>0, <1>1, <1>r DEF P!CreateItem, Rightly, ListingRows, UserConfirmed,
       P!QueuedHasWork, P!LiveIsConfirmed, P!DeletedIsIdle
  <1>7. /\ OthersPublish(c) /\ listingPc'[c] = stage /\ listingJob'[c] = work
        /\ listingPc[c] \in P!Stage
    BY <1>2, <1>3, ListingMoves DEF OthersPublish, P!TypeOK
  <1>8. P!Publishing(c) /\ (NeverApart => NeverApart')
    BY <1>0, <1>r DEF P!CreateItem, NeverApart, P!Publishing, P!Publishes, Rightly, HasItem
  <1>a. ~NeverApart => InStep(c)
    BY <1>8 DEF OnePublishes, NeverApart
  <1>b. ~NeverApart' => IF P!Publishing(c)' THEN InStep(c)'
                        ELSE (items = <<>> \/ OneStory(items[Len(items)].status))'
    BY <1>0, <1>7, <1>8, <1>a, <1>w, <1>r DEF P!CreateItem, NeverApart, P!Publishing, P!Publishes, InStep, OneStory, Rightly, HasItem, ItemRow
  <1>9. OnePublishes'
    BY <1>7, <1>8, <1>b, Publisher
  <1> QED
    BY <1>5, <1>6, <1>9

LEMMA RetryStep ==
    ASSUME ListingInv, NEW c \in Call, P!Retry(c)
    PROVE  ListingInv'
  <1> USE DEF ListingInv
  <1> DEFINE stage == "routing"
             work == [P!NoJob EXCEPT !.item = Len(items)]
  <1>0. /\ listingJob[c] \in ListingJob /\ Rightly(c)
        /\ listingJob[c].item \in Nat /\ listingJob[c].pack \in Nat
        /\ listingJob[c].fresh \in BOOLEAN /\ listingJob[c].found \in BOOLEAN
        /\ listingJob[c].read \in ReadStatus /\ listingJob[c].decision \in Decision
        /\ listing.status # "none" /\ listing \in ListingRow /\ listing.status \in P!Status
        /\ items \in Seq(ItemRow) /\ packs \in Seq(PackStatus)
    BY HeldListingJob DEF P!Retry, P!Found, NothingYet, P!TypeOK, ItemRow, PackStatus, ListingRow
  <1>1. ListingRows
    BY <1>0 DEF P!Retry, P!Found, P!Races, ListingRows, UserConfirmed, P!TypeOK,
       ListingRow, ItemRow, PackStatus, P!Status, Decision
  <1>2. work \in ListingJob /\ stage \in P!Stage
    BY <1>0, NewListingJob DEF P!Retry, P!Stage, P!Publishes, P!Updates, ListingJob
  <1>w. work.item = Len(items)
    BY <1>0 DEF P!Retry, P!NoJob, ListingJob
  <1>3. P!Goto(c, stage, work)
    BY <1>0 DEF P!Retry, P!End
  <1> HIDE DEF work
  <1>4. RightlyAt(stage, work)
    BY <1>0, <1>1, <1>w
       DEF P!Retry, P!Found, Rightly, RightlyAt, HasItem, ListingRows, UserConfirmed, ReadStatus, Decision, ListingRow
  <1>5. P!TypeOK' /\ ListingJobInv' /\ NothingYet'
    BY <1>1, <1>2, <1>3, <1>4, RightlyOn
  <1>6. P!QueuedHasWork' /\ P!LiveIsConfirmed' /\ P!DeletedIsIdle'
    BY <1>0, <1>1 DEF P!Retry, P!Found, P!Races, Rightly, ListingRows, ListingRow, UserConfirmed,
       P!QueuedHasWork, P!LiveIsConfirmed, P!DeletedIsIdle
  <1>7. /\ OthersPublish(c) /\ listingPc'[c] = stage /\ listingJob'[c] = work
        /\ listingPc[c] \in P!Stage
    BY <1>2, <1>3, ListingMoves DEF OthersPublish, P!TypeOK
  <1>8. (NeverApart => NeverApart') /\ (~NeverApart' => ~P!UnderWay)
    BY <1>0 DEF P!Retry, P!Races, NeverApart, P!UnderWay, P!Publishing, P!Publishes
  <1>a. P!Publishing(c)' /\ InStep(c)'
    BY <1>0, <1>w, <1>7 DEF P!Retry, P!Found, P!Publishing, P!Publishes, InStep
  <1>9. OnePublishes'
    BY <1>7, <1>8, <1>a, Starter
  <1> QED
    BY <1>5, <1>6, <1>9

LEMMA FindListingStep ==
    ASSUME ListingInv, NEW c \in Call, P!FindListing(c)
    PROVE  ListingInv'
  <1> USE DEF ListingInv
  <1> DEFINE stage == listingPc[c]
             work == [listingJob[c] EXCEPT !.found = TRUE]
  <1>0. /\ listingJob[c] \in ListingJob /\ Rightly(c)
        /\ listingJob[c].item \in Nat /\ listingJob[c].pack \in Nat
        /\ listingJob[c].fresh \in BOOLEAN /\ listingJob[c].found \in BOOLEAN
        /\ listingJob[c].read \in ReadStatus /\ listingJob[c].decision \in Decision
        /\ listing.status # "none" /\ listing \in ListingRow /\ listing.status \in P!Status
        /\ items \in Seq(ItemRow) /\ packs \in Seq(PackStatus)
    BY HeldListingJob DEF P!FindListing, P!Updates, P!Found, NothingYet, P!TypeOK, ItemRow, PackStatus, ListingRow
  <1>1. ListingRows /\ SameStory
    BY <1>0 DEF P!FindListing, P!Updates, P!Found, P!Races, ListingRows, UserConfirmed, P!TypeOK,
       ListingRow, ItemRow, PackStatus, P!Status, Decision, SameStory
  <1>2. work \in ListingJob /\ stage \in P!Stage
    BY <1>0, ListingJobSet DEF P!FindListing, P!Stage, P!Publishes, P!Updates, ReadStatus, Decision, ListingRow
  <1>w. work.item = listingJob[c].item /\ work.fresh = listingJob[c].fresh /\ work.pack = listingJob[c].pack
        /\ work.read = listingJob[c].read /\ work.decision = listingJob[c].decision
    BY <1>0, ListingJobSet DEF P!FindListing, P!Updates
  <1>3. P!Goto(c, stage, work)
    BY <1>0 DEF P!FindListing, P!Updates, P!Written, P!End
  <1> HIDE DEF work
  <1>4. RightlyAt(stage, work)
    BY <1>0, <1>1, <1>w
       DEF P!FindListing, P!Updates, P!Found, Rightly, RightlyAt, HasItem, ListingRows, UserConfirmed, ReadStatus, Decision, ListingRow
  <1>5. P!TypeOK' /\ ListingJobInv' /\ NothingYet'
    BY <1>1, <1>2, <1>3, <1>4, RightlyOn
  <1>6. P!QueuedHasWork' /\ P!LiveIsConfirmed' /\ P!DeletedIsIdle'
    BY <1>0, <1>1 DEF P!FindListing, P!Updates, P!Found, P!Races, Rightly, ListingRows, ListingRow, UserConfirmed,
       P!QueuedHasWork, P!LiveIsConfirmed, P!DeletedIsIdle
  <1>7. /\ OthersPublish(c) /\ listingPc'[c] = stage /\ listingJob'[c] = work
        /\ listingPc[c] \in P!Stage
    BY <1>2, <1>3, ListingMoves DEF OthersPublish, P!TypeOK
  <1>8. NeverApart => NeverApart'
    BY <1>0 DEF P!FindListing, P!Updates, NeverApart
  <1>9. OnePublishes'
    <2>1. CASE listingJob[c].item = 0
      <3>1. ~P!Publishing(c) /\ ~P!Publishing(c)'
        BY <1>0, <1>7, <1>w, <2>1 DEF P!FindListing, P!Updates, P!Publishing, P!Publishes, Rightly, HasItem
      <3> QED
        BY <1>1, <1>5, <1>7, <1>8, <3>1, Bystander
    <2>2. CASE listingJob[c].item # 0
      <3>1. P!Publishing(c) /\ P!Publishing(c)'
        BY <1>0, <1>7, <1>w, <2>2 DEF P!FindListing, P!Updates, P!Publishing, P!Publishes, Rightly
      <3>2. ~NeverApart => InStep(c)
        BY <3>1 DEF OnePublishes, NeverApart
      <3>3. ~NeverApart' => InStep(c)'
        BY <1>0, <1>7, <1>8, <1>w, <2>2, <3>2 DEF P!FindListing, P!Updates, NeverApart, InStep, Rightly
      <3> QED
        BY <1>7, <1>8, <3>1, <3>3, Publisher
    <2> QED
      BY <2>1, <2>2
  <1> QED
    BY <1>5, <1>6, <1>9

LEMMA FindForPackStep ==
    ASSUME ListingInv, NEW c \in Call, P!FindForPack(c)
    PROVE  ListingInv'
  <1> USE DEF ListingInv
  <1> DEFINE stage == "packing"
             work == listingJob[c]
  <1>0. /\ listingJob[c] \in ListingJob /\ Rightly(c)
        /\ listingJob[c].item \in Nat /\ listingJob[c].pack \in Nat
        /\ listingJob[c].fresh \in BOOLEAN /\ listingJob[c].found \in BOOLEAN
        /\ listingJob[c].read \in ReadStatus /\ listingJob[c].decision \in Decision
        /\ listing.status # "none" /\ listing \in ListingRow /\ listing.status \in P!Status
        /\ items \in Seq(ItemRow) /\ packs \in Seq(PackStatus)
    BY HeldListingJob DEF P!FindForPack, P!Found, NothingYet, P!TypeOK, ItemRow, PackStatus, ListingRow
  <1>1. ListingRows /\ SameStory
    BY <1>0 DEF P!FindForPack, P!Found, P!Races, ListingRows, UserConfirmed, P!TypeOK,
       ListingRow, ItemRow, PackStatus, P!Status, Decision, SameStory
  <1>2. work \in ListingJob /\ stage \in P!Stage
    BY <1>0 DEF P!FindForPack, P!Stage, P!Publishes, P!Updates, ReadStatus, Decision, ListingRow
  <1>w. work = listingJob[c]
    BY <1>0 DEF P!FindForPack
  <1>3. P!Goto(c, stage, work)
    BY <1>0 DEF P!FindForPack, P!End
  <1> HIDE DEF work
  <1>4. RightlyAt(stage, work)
    BY <1>0, <1>1, <1>w
       DEF P!FindForPack, P!Found, Rightly, RightlyAt, HasItem, ListingRows, UserConfirmed, ReadStatus, Decision, ListingRow
  <1>5. P!TypeOK' /\ ListingJobInv' /\ NothingYet'
    BY <1>1, <1>2, <1>3, <1>4, RightlyOn
  <1>6. P!QueuedHasWork' /\ P!LiveIsConfirmed' /\ P!DeletedIsIdle'
    BY <1>0, <1>1 DEF P!FindForPack, P!Found, P!Races, Rightly, ListingRows, ListingRow, UserConfirmed,
       P!QueuedHasWork, P!LiveIsConfirmed, P!DeletedIsIdle
  <1>7. /\ OthersPublish(c) /\ listingPc'[c] = stage /\ listingJob'[c] = work
        /\ listingPc[c] \in P!Stage
    BY <1>2, <1>3, ListingMoves DEF OthersPublish, P!TypeOK
  <1>8. NeverApart => NeverApart'
    BY <1>0 DEF P!FindForPack, NeverApart
  <1>9. OnePublishes'
    <2>1. CASE listingJob[c].item = 0
      <3>1. ~P!Publishing(c) /\ ~P!Publishing(c)'
        BY <1>0, <1>7, <1>w, <2>1 DEF P!FindForPack, P!Publishing, P!Publishes, Rightly, HasItem
      <3> QED
        BY <1>1, <1>5, <1>7, <1>8, <3>1, Bystander
    <2>2. CASE listingJob[c].item # 0
      <3>1. P!Publishing(c) /\ P!Publishing(c)'
        BY <1>0, <1>7, <1>w, <2>2 DEF P!FindForPack, P!Publishing, P!Publishes, Rightly
      <3>2. ~NeverApart => InStep(c)
        BY <3>1 DEF OnePublishes, NeverApart
      <3>3. ~NeverApart' => InStep(c)'
        BY <1>0, <1>7, <1>8, <1>w, <2>2, <3>2 DEF P!FindForPack, NeverApart, InStep, Rightly
      <3> QED
        BY <1>7, <1>8, <3>1, <3>3, Publisher
    <2> QED
      BY <2>1, <2>2
  <1> QED
    BY <1>5, <1>6, <1>9

LEMMA FindForQueueStep ==
    ASSUME ListingInv, NEW c \in Call, P!FindForQueue(c)
    PROVE  ListingInv'
  <1> USE DEF ListingInv
  <1> DEFINE stage == "adding"
             work == listingJob[c]
  <1>0. /\ listingJob[c] \in ListingJob /\ Rightly(c)
        /\ listingJob[c].item \in Nat /\ listingJob[c].pack \in Nat
        /\ listingJob[c].fresh \in BOOLEAN /\ listingJob[c].found \in BOOLEAN
        /\ listingJob[c].read \in ReadStatus /\ listingJob[c].decision \in Decision
        /\ listing.status # "none" /\ listing \in ListingRow /\ listing.status \in P!Status
        /\ items \in Seq(ItemRow) /\ packs \in Seq(PackStatus)
    BY HeldListingJob DEF P!FindForQueue, P!Found, NothingYet, P!TypeOK, ItemRow, PackStatus, ListingRow
  <1>1. ListingRows
    BY <1>0 DEF P!FindForQueue, P!Found, P!Races, ListingRows, UserConfirmed, P!TypeOK,
       ListingRow, ItemRow, PackStatus, P!Status, Decision
  <1>2. work \in ListingJob /\ stage \in P!Stage
    BY <1>0 DEF P!FindForQueue, P!Stage, P!Publishes, P!Updates, ReadStatus, Decision, ListingRow
  <1>w. work = listingJob[c]
    BY <1>0 DEF P!FindForQueue
  <1>3. P!Goto(c, stage, work)
    BY <1>0 DEF P!FindForQueue, P!End
  <1> HIDE DEF work
  <1>4. RightlyAt(stage, work)
    BY <1>0, <1>1, <1>w
       DEF P!FindForQueue, P!Found, Rightly, RightlyAt, HasItem, ListingRows, UserConfirmed, ReadStatus, Decision, ListingRow
  <1>5. P!TypeOK' /\ ListingJobInv' /\ NothingYet'
    BY <1>1, <1>2, <1>3, <1>4, RightlyOn
  <1>6. P!QueuedHasWork' /\ P!LiveIsConfirmed' /\ P!DeletedIsIdle'
    BY <1>0, <1>1 DEF P!FindForQueue, P!Found, P!Races, Rightly, ListingRows, ListingRow, UserConfirmed,
       P!QueuedHasWork, P!LiveIsConfirmed, P!DeletedIsIdle
  <1>7. /\ OthersPublish(c) /\ listingPc'[c] = stage /\ listingJob'[c] = work
        /\ listingPc[c] \in P!Stage
    BY <1>2, <1>3, ListingMoves DEF OthersPublish, P!TypeOK
  <1>8. P!Publishing(c) /\ (NeverApart => NeverApart')
    BY <1>0 DEF P!FindForQueue, NeverApart, P!Publishing, P!Publishes, Rightly, HasItem
  <1>a. ~NeverApart => InStep(c)
    BY <1>8 DEF OnePublishes, NeverApart
  <1>b. ~NeverApart' => IF P!Publishing(c)' THEN InStep(c)'
                        ELSE (items = <<>> \/ OneStory(items[Len(items)].status))'
    BY <1>0, <1>7, <1>8, <1>a, <1>w DEF P!FindForQueue, NeverApart, P!Publishing, P!Publishes, InStep, OneStory, Rightly, HasItem, ItemRow
  <1>9. OnePublishes'
    BY <1>7, <1>8, <1>b, Publisher
  <1> QED
    BY <1>5, <1>6, <1>9

LEMMA CreatePackStep ==
    ASSUME ListingInv, NEW c \in Call, P!CreatePack(c)
    PROVE  ListingInv'
  <1> USE DEF ListingInv
  <1> DEFINE stage == "saving"
             work == listingJob[c]
  <1>0. /\ listingJob[c] \in ListingJob /\ Rightly(c)
        /\ listingJob[c].item \in Nat /\ listingJob[c].pack \in Nat
        /\ listingJob[c].fresh \in BOOLEAN /\ listingJob[c].found \in BOOLEAN
        /\ listingJob[c].read \in ReadStatus /\ listingJob[c].decision \in Decision
        /\ listing.status # "none" /\ listing \in ListingRow /\ listing.status \in P!Status
        /\ items \in Seq(ItemRow) /\ packs \in Seq(PackStatus)
    BY HeldListingJob DEF P!CreatePack, P!Found, NothingYet, P!TypeOK, ItemRow, PackStatus, ListingRow
  <1>r. /\ packs' \in Seq(PackStatus) /\ Len(packs') = Len(packs) + 1
        /\ \A p \in DOMAIN packs : p \in DOMAIN packs' /\ packs'[p] = packs[p]
        /\ listing' = listing /\ items' = items /\ queue' = queue /\ raced' = raced /\ automated' = automated
    BY <1>0 DEF P!CreatePack, PackStatus
  <1>1. ListingRows /\ SameStory
    BY <1>0, <1>r DEF ListingRows, UserConfirmed, P!TypeOK, SameStory
  <1>2. work \in ListingJob /\ stage \in P!Stage
    BY <1>0 DEF P!CreatePack, P!Stage, P!Publishes, P!Updates, ReadStatus, Decision, ListingRow
  <1>w. work = listingJob[c]
    BY <1>0 DEF P!CreatePack
  <1>3. P!Goto(c, stage, work)
    BY <1>0 DEF P!CreatePack, P!End
  <1> HIDE DEF work
  <1>4. RightlyAt(stage, work)
    BY <1>0, <1>1, <1>w, <1>r
       DEF P!CreatePack, P!Found, Rightly, RightlyAt, HasItem, ListingRows, UserConfirmed, ReadStatus, Decision, ListingRow
  <1>5. P!TypeOK' /\ ListingJobInv' /\ NothingYet'
    BY <1>1, <1>2, <1>3, <1>4, RightlyOn
  <1>6. P!QueuedHasWork' /\ P!LiveIsConfirmed' /\ P!DeletedIsIdle'
    BY <1>0, <1>1, <1>r DEF P!CreatePack, Rightly, ListingRows, UserConfirmed,
       P!QueuedHasWork, P!LiveIsConfirmed, P!DeletedIsIdle
  <1>7. /\ OthersPublish(c) /\ listingPc'[c] = stage /\ listingJob'[c] = work
        /\ listingPc[c] \in P!Stage
    BY <1>2, <1>3, ListingMoves DEF OthersPublish, P!TypeOK
  <1>8. NeverApart => NeverApart'
    BY <1>0, <1>r DEF P!CreatePack, NeverApart
  <1>9. OnePublishes'
    <2>1. CASE listingJob[c].item = 0
      <3>1. ~P!Publishing(c) /\ ~P!Publishing(c)'
        BY <1>0, <1>7, <1>w, <2>1 DEF P!CreatePack, P!Publishing, P!Publishes, Rightly, HasItem
      <3> QED
        BY <1>1, <1>5, <1>7, <1>8, <3>1, Bystander
    <2>2. CASE listingJob[c].item # 0
      <3>1. P!Publishing(c) /\ P!Publishing(c)'
        BY <1>0, <1>7, <1>w, <2>2 DEF P!CreatePack, P!Publishing, P!Publishes, Rightly
      <3>2. ~NeverApart => InStep(c)
        BY <3>1 DEF OnePublishes, NeverApart
      <3>3. ~NeverApart' => InStep(c)'
        BY <1>0, <1>7, <1>8, <1>w, <2>2, <1>r, <3>2 DEF P!CreatePack, NeverApart, InStep, Rightly
      <3> QED
        BY <1>7, <1>8, <3>1, <3>3, Publisher
    <2> QED
      BY <2>1, <2>2
  <1> QED
    BY <1>5, <1>6, <1>9

LEMMA SavePackStep ==
    ASSUME ListingInv, NEW c \in Call, P!SavePack(c)
    PROVE  ListingInv'
  <1> USE DEF ListingInv
  <1> DEFINE stage == IF listingJob[c].item = 0 THEN "idle" ELSE "succeeding"
             work == IF listingJob[c].item = 0 THEN P!NoJob ELSE [listingJob[c] EXCEPT !.found = FALSE]
  <1>0. /\ listingJob[c] \in ListingJob /\ Rightly(c)
        /\ listingJob[c].item \in Nat /\ listingJob[c].pack \in Nat
        /\ listingJob[c].fresh \in BOOLEAN /\ listingJob[c].found \in BOOLEAN
        /\ listingJob[c].read \in ReadStatus /\ listingJob[c].decision \in Decision
        /\ listing.status # "none" /\ listing \in ListingRow /\ listing.status \in P!Status
        /\ items \in Seq(ItemRow) /\ packs \in Seq(PackStatus)
    BY HeldListingJob DEF P!SavePack, P!Found, NothingYet, P!TypeOK, ItemRow, PackStatus, ListingRow
  <1>r. /\ listing' \in ListingRow /\ listing'.approval = listing.approval
        /\ listing'.deleted = listing.deleted /\ listing'.status # "none"
        /\ listing'.status \in {listing.status, "QUEUED"}
        /\ listing.deleted => listing' = listing \/ "delete" \in raced'
        /\ ~listing.deleted => listing'.status = "QUEUED"
        /\ raced \subseteq raced' /\ raced' \subseteq raced \cup {"delete"}
        /\ items' = items
        /\ queue' = queue /\ packs' = packs /\ automated' = automated
    BY <1>0, StatusSet DEF P!SavePack, P!Status
  <1>1. ListingRows /\ SameStory
    BY <1>0, <1>r DEF ListingRows, UserConfirmed, P!TypeOK, SameStory
  <1>2. work \in ListingJob /\ stage \in P!Stage
    BY <1>0, NewListingJob, ListingJobSet DEF P!SavePack, P!Stage, P!Publishes, P!Updates, ReadStatus, Decision, ListingRow
  <1>w. work.item = listingJob[c].item
    BY <1>0, NewListingJob, ListingJobSet DEF P!SavePack
  <1>3. P!Goto(c, stage, work)
    BY <1>0 DEF P!SavePack, P!Written, P!End
  <1> HIDE DEF work
  <1>4. RightlyAt(stage, work)
    BY <1>0, <1>1, <1>w, <1>r
       DEF P!SavePack, P!Found, Rightly, RightlyAt, HasItem, ListingRows, UserConfirmed, ReadStatus, Decision, ListingRow
  <1>5. P!TypeOK' /\ ListingJobInv' /\ NothingYet'
    BY <1>1, <1>2, <1>3, <1>4, RightlyOn
  <1>6. P!QueuedHasWork' /\ P!LiveIsConfirmed' /\ P!DeletedIsIdle'
    BY <1>0, <1>1, <1>r DEF P!SavePack, Rightly, ListingRows, UserConfirmed,
       P!QueuedHasWork, P!LiveIsConfirmed, P!DeletedIsIdle
  <1>7. /\ OthersPublish(c) /\ listingPc'[c] = stage /\ listingJob'[c] = work
        /\ listingPc[c] \in P!Stage
    BY <1>2, <1>3, ListingMoves DEF OthersPublish, P!TypeOK
  <1>8. NeverApart => NeverApart'
    BY <1>0, <1>r DEF P!SavePack, NeverApart
  <1>9. OnePublishes'
    <2>1. CASE listingJob[c].item = 0
      <3>1. ~P!Publishing(c) /\ ~P!Publishing(c)'
        BY <1>0, <1>7, <1>w, <2>1 DEF P!SavePack, P!Publishing, P!Publishes, Rightly, HasItem
      <3> QED
        BY <1>1, <1>5, <1>7, <1>8, <3>1, Bystander
    <2>2. CASE listingJob[c].item # 0
      <3>1. P!Publishing(c) /\ P!Publishing(c)'
        BY <1>0, <1>7, <1>w, <2>2 DEF P!SavePack, P!Publishing, P!Publishes, Rightly
      <3>2. ~NeverApart => InStep(c)
        BY <3>1 DEF OnePublishes, NeverApart
      <3>3. ~NeverApart' => InStep(c)'
        BY <1>0, <1>7, <1>8, <1>w, <2>2, <1>r, <3>2 DEF P!SavePack, NeverApart, InStep, Rightly
      <3> QED
        BY <1>7, <1>8, <3>1, <3>3, Publisher
    <2> QED
      BY <2>1, <2>2
  <1> QED
    BY <1>5, <1>6, <1>9

LEMMA SucceedStep ==
    ASSUME ListingInv, NEW c \in Call, P!Succeed(c)
    PROVE  ListingInv'
  <1> USE DEF ListingInv
  <1> DEFINE stage == IF listingJob[c].fresh THEN "counting" ELSE "idle"
             work == IF listingJob[c].fresh THEN listingJob[c] ELSE P!NoJob
  <1>0. /\ listingJob[c] \in ListingJob /\ Rightly(c)
        /\ listingJob[c].item \in Nat /\ listingJob[c].pack \in Nat
        /\ listingJob[c].fresh \in BOOLEAN /\ listingJob[c].found \in BOOLEAN
        /\ listingJob[c].read \in ReadStatus /\ listingJob[c].decision \in Decision
        /\ listing.status # "none" /\ listing \in ListingRow /\ listing.status \in P!Status
        /\ items \in Seq(ItemRow) /\ packs \in Seq(PackStatus)
    BY HeldListingJob DEF P!Succeed, P!Found, NothingYet, P!TypeOK, ItemRow, PackStatus, ListingRow
  <1>h. listingJob[c].item \in 1..Len(items)
    BY <1>0 DEF P!Succeed, Rightly, HasItem, Decision
  <1>g. /\ items' = WithStatus(items, listingJob[c].item, "SUCCEEDED")
        /\ listing' = listing
        /\ queue' = queue /\ packs' = packs /\ raced' = raced /\ automated' = automated
    BY DEF P!Succeed, WithStatus
  <1>r. /\ items' \in Seq(ItemRow) /\ Len(items') = Len(items)
        /\ items'[listingJob[c].item].status = "SUCCEEDED"
        /\ listing' = listing
        /\ queue' = queue /\ packs' = packs /\ raced' = raced /\ automated' = automated
    BY <1>0, <1>h, <1>g, StatusUpdate
  <1>1. ListingRows
    BY <1>0, <1>r, <1>h DEF ListingRows, UserConfirmed, P!TypeOK
  <1>2. work \in ListingJob /\ stage \in P!Stage
    BY <1>0, NewListingJob DEF P!Succeed, P!Stage, P!Publishes, P!Updates, ReadStatus, Decision, ListingRow
  <1>w. IF listingJob[c].fresh THEN work = listingJob[c] ELSE work.item = 0
    BY <1>0, NewListingJob DEF P!Succeed
  <1>3. P!Goto(c, stage, work)
    BY <1>0 DEF P!Succeed, P!End
  <1> HIDE DEF work
  <1>4. RightlyAt(stage, work)
    BY <1>0, <1>1, <1>w, <1>r, <1>h
       DEF P!Succeed, P!Found, Rightly, RightlyAt, HasItem, ListingRows, UserConfirmed, ReadStatus, Decision, ListingRow
  <1>5. P!TypeOK' /\ ListingJobInv' /\ NothingYet'
    BY <1>1, <1>2, <1>3, <1>4, RightlyOn
  <1>6. P!QueuedHasWork' /\ P!LiveIsConfirmed' /\ P!DeletedIsIdle'
    BY <1>0, <1>1, <1>r DEF P!Succeed, Rightly, ListingRows, UserConfirmed,
       P!QueuedHasWork, P!LiveIsConfirmed, P!DeletedIsIdle
  <1>7. /\ OthersPublish(c) /\ listingPc'[c] = stage /\ listingJob'[c] = work
        /\ listingPc[c] \in P!Stage
    BY <1>2, <1>3, ListingMoves DEF OthersPublish, P!TypeOK
  <1>8. P!Publishing(c) /\ (NeverApart => NeverApart')
    BY <1>0, <1>r, <1>h DEF P!Succeed, NeverApart, P!Publishing, P!Publishes, Rightly, HasItem
  <1>a. ~NeverApart => InStep(c)
    BY <1>8 DEF OnePublishes, NeverApart
  <1>b. ~NeverApart' => IF P!Publishing(c)' THEN InStep(c)'
                        ELSE (items = <<>> \/ OneStory(items[Len(items)].status))'
    BY <1>0, <1>7, <1>8, <1>a, <1>w, <1>r, <1>h DEF P!Succeed, NeverApart, P!Publishing, P!Publishes, InStep, OneStory, Rightly, HasItem, ItemRow
  <1>9. OnePublishes'
    BY <1>7, <1>8, <1>b, Publisher
  <1> QED
    BY <1>5, <1>6, <1>9

LEMMA EnqueueStep ==
    ASSUME ListingInv, NEW c \in Call, P!Enqueue(c)
    PROVE  ListingInv'
  <1> USE DEF ListingInv
  <1> DEFINE stage == "linking"
             work == listingJob[c]
  <1>0. /\ listingJob[c] \in ListingJob /\ Rightly(c)
        /\ listingJob[c].item \in Nat /\ listingJob[c].pack \in Nat
        /\ listingJob[c].fresh \in BOOLEAN /\ listingJob[c].found \in BOOLEAN
        /\ listingJob[c].read \in ReadStatus /\ listingJob[c].decision \in Decision
        /\ listing.status # "none" /\ listing \in ListingRow /\ listing.status \in P!Status
        /\ items \in Seq(ItemRow) /\ packs \in Seq(PackStatus)
    BY HeldListingJob DEF P!Enqueue, P!Found, NothingYet, P!TypeOK, ItemRow, PackStatus, ListingRow
  <1>h. listingJob[c].item \in DOMAIN items
    BY <1>0 DEF P!Enqueue, Rightly, HasItem, Decision
  <1>r. /\ queue' \subseteq DOMAIN items /\ queue \subseteq queue' /\ queue' # {}
        /\ listing' = listing /\ items' = items /\ packs' = packs /\ raced' = raced /\ automated' = automated
    BY <1>0, <1>h DEF P!Enqueue, P!TypeOK
  <1>1. ListingRows
    BY <1>0, <1>r, <1>h DEF ListingRows, UserConfirmed, P!TypeOK
  <1>2. work \in ListingJob /\ stage \in P!Stage
    BY <1>0 DEF P!Enqueue, P!Stage, P!Publishes, P!Updates, ReadStatus, Decision, ListingRow
  <1>w. work = listingJob[c]
    BY <1>0 DEF P!Enqueue
  <1>3. P!Goto(c, stage, work)
    BY <1>0 DEF P!Enqueue, P!End
  <1> HIDE DEF work
  <1>4. RightlyAt(stage, work)
    BY <1>0, <1>1, <1>w, <1>r, <1>h
       DEF P!Enqueue, P!Found, Rightly, RightlyAt, HasItem, ListingRows, UserConfirmed, ReadStatus, Decision, ListingRow
  <1>5. P!TypeOK' /\ ListingJobInv' /\ NothingYet'
    BY <1>1, <1>2, <1>3, <1>4, RightlyOn
  <1>6. P!QueuedHasWork' /\ P!LiveIsConfirmed' /\ P!DeletedIsIdle'
    BY <1>0, <1>1, <1>r DEF P!Enqueue, Rightly, ListingRows, UserConfirmed,
       P!QueuedHasWork, P!LiveIsConfirmed, P!DeletedIsIdle
  <1>7. /\ OthersPublish(c) /\ listingPc'[c] = stage /\ listingJob'[c] = work
        /\ listingPc[c] \in P!Stage
    BY <1>2, <1>3, ListingMoves DEF OthersPublish, P!TypeOK
  <1>8. P!Publishing(c) /\ (NeverApart => NeverApart')
    BY <1>0, <1>r, <1>h DEF P!Enqueue, NeverApart, P!Publishing, P!Publishes, Rightly, HasItem
  <1>a. ~NeverApart => InStep(c)
    BY <1>8 DEF OnePublishes, NeverApart
  <1>b. ~NeverApart' => IF P!Publishing(c)' THEN InStep(c)'
                        ELSE (items = <<>> \/ OneStory(items[Len(items)].status))'
    BY <1>0, <1>7, <1>8, <1>a, <1>w, <1>r, <1>h DEF P!Enqueue, NeverApart, P!Publishing, P!Publishes, InStep, OneStory, Rightly, HasItem, ItemRow
  <1>9. OnePublishes'
    BY <1>7, <1>8, <1>b, Publisher
  <1> QED
    BY <1>5, <1>6, <1>9

LEMMA LinkItemStep ==
    ASSUME ListingInv, NEW c \in Call, P!LinkItem(c)
    PROVE  ListingInv'
  <1> USE DEF ListingInv
  <1> DEFINE stage == "queueing"
             work == listingJob[c]
  <1>0. /\ listingJob[c] \in ListingJob /\ Rightly(c)
        /\ listingJob[c].item \in Nat /\ listingJob[c].pack \in Nat
        /\ listingJob[c].fresh \in BOOLEAN /\ listingJob[c].found \in BOOLEAN
        /\ listingJob[c].read \in ReadStatus /\ listingJob[c].decision \in Decision
        /\ listing.status # "none" /\ listing \in ListingRow /\ listing.status \in P!Status
        /\ items \in Seq(ItemRow) /\ packs \in Seq(PackStatus)
    BY HeldListingJob DEF P!LinkItem, P!Found, NothingYet, P!TypeOK, ItemRow, PackStatus, ListingRow
  <1>h. listingJob[c].item \in 1..Len(items)
    BY <1>0 DEF P!LinkItem, Rightly, HasItem, Decision
  <1>g. /\ items' = WithLink(items, listingJob[c].item, "QUEUED")
        /\ listing' = listing
        /\ queue' = queue /\ packs' = packs /\ raced' = raced /\ automated' = automated
    BY DEF P!LinkItem, WithLink
  <1>r. /\ items' \in Seq(ItemRow) /\ Len(items') = Len(items)
        /\ items'[listingJob[c].item].status = "QUEUED"
        /\ listing' = listing
        /\ queue' = queue /\ packs' = packs /\ raced' = raced /\ automated' = automated
    BY <1>0, <1>h, <1>g, LinkUpdate
  <1>1. ListingRows
    BY <1>0, <1>r, <1>h DEF ListingRows, UserConfirmed, P!TypeOK
  <1>2. work \in ListingJob /\ stage \in P!Stage
    BY <1>0 DEF P!LinkItem, P!Stage, P!Publishes, P!Updates, ReadStatus, Decision, ListingRow
  <1>w. work = listingJob[c]
    BY <1>0 DEF P!LinkItem
  <1>3. P!Goto(c, stage, work)
    BY <1>0 DEF P!LinkItem, P!End
  <1> HIDE DEF work
  <1>4. RightlyAt(stage, work)
    BY <1>0, <1>1, <1>w, <1>r, <1>h
       DEF P!LinkItem, P!Found, Rightly, RightlyAt, HasItem, ListingRows, UserConfirmed, ReadStatus, Decision, ListingRow
  <1>5. P!TypeOK' /\ ListingJobInv' /\ NothingYet'
    BY <1>1, <1>2, <1>3, <1>4, RightlyOn
  <1>6. P!QueuedHasWork' /\ P!LiveIsConfirmed' /\ P!DeletedIsIdle'
    BY <1>0, <1>1, <1>r DEF P!LinkItem, Rightly, ListingRows, UserConfirmed,
       P!QueuedHasWork, P!LiveIsConfirmed, P!DeletedIsIdle
  <1>7. /\ OthersPublish(c) /\ listingPc'[c] = stage /\ listingJob'[c] = work
        /\ listingPc[c] \in P!Stage
    BY <1>2, <1>3, ListingMoves DEF OthersPublish, P!TypeOK
  <1>8. P!Publishing(c) /\ (NeverApart => NeverApart')
    BY <1>0, <1>r, <1>h DEF P!LinkItem, NeverApart, P!Publishing, P!Publishes, Rightly, HasItem
  <1>a. ~NeverApart => InStep(c)
    BY <1>8 DEF OnePublishes, NeverApart
  <1>b. ~NeverApart' => IF P!Publishing(c)' THEN InStep(c)'
                        ELSE (items = <<>> \/ OneStory(items[Len(items)].status))'
    BY <1>0, <1>7, <1>8, <1>a, <1>w, <1>r, <1>h DEF P!LinkItem, NeverApart, P!Publishing, P!Publishes, InStep, OneStory, Rightly, HasItem, ItemRow
  <1>9. OnePublishes'
    BY <1>7, <1>8, <1>b, Publisher
  <1> QED
    BY <1>5, <1>6, <1>9

LEMMA MarkQueuedStep ==
    ASSUME ListingInv, NEW c \in Call, P!MarkQueued(c)
    PROVE  ListingInv'
  <1> USE DEF ListingInv
  <1> DEFINE stage == IF listingJob[c].fresh THEN "counting" ELSE "idle"
             work == IF listingJob[c].fresh THEN [listingJob[c] EXCEPT !.found = FALSE] ELSE P!NoJob
  <1>0. /\ listingJob[c] \in ListingJob /\ Rightly(c)
        /\ listingJob[c].item \in Nat /\ listingJob[c].pack \in Nat
        /\ listingJob[c].fresh \in BOOLEAN /\ listingJob[c].found \in BOOLEAN
        /\ listingJob[c].read \in ReadStatus /\ listingJob[c].decision \in Decision
        /\ listing.status # "none" /\ listing \in ListingRow /\ listing.status \in P!Status
        /\ items \in Seq(ItemRow) /\ packs \in Seq(PackStatus)
    BY HeldListingJob DEF P!MarkQueued, P!Found, NothingYet, P!TypeOK, ItemRow, PackStatus, ListingRow
  <1>r. /\ listing' \in ListingRow /\ listing'.approval = listing.approval
        /\ listing'.deleted = listing.deleted /\ listing'.status # "none"
        /\ listing'.status \in {listing.status, "QUEUED"}
        /\ listing.deleted => listing' = listing \/ "delete" \in raced'
        /\ ~listing.deleted => listing'.status = "QUEUED"
        /\ raced \subseteq raced' /\ raced' \subseteq raced \cup {"delete"}
        /\ items' = items
        /\ queue' = queue /\ packs' = packs /\ automated' = automated
    BY <1>0, StatusSet DEF P!MarkQueued, P!Status
  <1>1. ListingRows
    BY <1>0, <1>r DEF ListingRows, UserConfirmed, P!TypeOK
  <1>2. work \in ListingJob /\ stage \in P!Stage
    BY <1>0, NewListingJob, ListingJobSet DEF P!MarkQueued, P!Stage, P!Publishes, P!Updates, ReadStatus, Decision, ListingRow
  <1>w. IF listingJob[c].fresh THEN work.item = listingJob[c].item ELSE work.item = 0
    BY <1>0, NewListingJob, ListingJobSet DEF P!MarkQueued
  <1>3. P!Goto(c, stage, work)
    BY <1>0 DEF P!MarkQueued, P!Written, P!End
  <1> HIDE DEF work
  <1>4. RightlyAt(stage, work)
    BY <1>0, <1>1, <1>w, <1>r
       DEF P!MarkQueued, P!Found, Rightly, RightlyAt, HasItem, ListingRows, UserConfirmed, ReadStatus, Decision, ListingRow
  <1>5. P!TypeOK' /\ ListingJobInv' /\ NothingYet'
    BY <1>1, <1>2, <1>3, <1>4, RightlyOn
  <1>6. P!QueuedHasWork' /\ P!LiveIsConfirmed' /\ P!DeletedIsIdle'
    BY <1>0, <1>1, <1>r DEF P!MarkQueued, Rightly, ListingRows, UserConfirmed,
       P!QueuedHasWork, P!LiveIsConfirmed, P!DeletedIsIdle
  <1>7. /\ OthersPublish(c) /\ listingPc'[c] = stage /\ listingJob'[c] = work
        /\ listingPc[c] \in P!Stage
    BY <1>2, <1>3, ListingMoves DEF OthersPublish, P!TypeOK
  <1>8. P!Publishing(c) /\ (NeverApart => NeverApart')
    BY <1>0, <1>r DEF P!MarkQueued, NeverApart, P!Publishing, P!Publishes, Rightly, HasItem
  <1>a. ~NeverApart => InStep(c)
    BY <1>8 DEF OnePublishes, NeverApart
  <1>b. ~NeverApart' => IF P!Publishing(c)' THEN InStep(c)'
                        ELSE (items = <<>> \/ OneStory(items[Len(items)].status))'
    BY <1>0, <1>7, <1>8, <1>a, <1>w, <1>r DEF P!MarkQueued, NeverApart, P!Publishing, P!Publishes, InStep, OneStory, Rightly, HasItem, ItemRow
  <1>9. OnePublishes'
    BY <1>7, <1>8, <1>b, Publisher
  <1> QED
    BY <1>5, <1>6, <1>9

LEMMA ThrowStep ==
    ASSUME ListingInv, NEW c \in Call, P!Throw(c)
    PROVE  ListingInv'
  <1> USE DEF ListingInv
  <1> DEFINE stage == "failing"
             work == [listingJob[c] EXCEPT !.found = FALSE]
  <1>0. /\ listingJob[c] \in ListingJob /\ Rightly(c)
        /\ listingJob[c].item \in Nat /\ listingJob[c].pack \in Nat
        /\ listingJob[c].fresh \in BOOLEAN /\ listingJob[c].found \in BOOLEAN
        /\ listingJob[c].read \in ReadStatus /\ listingJob[c].decision \in Decision
        /\ listing.status # "none" /\ listing \in ListingRow /\ listing.status \in P!Status
        /\ items \in Seq(ItemRow) /\ packs \in Seq(PackStatus)
    BY HeldListingJob DEF P!Throw, P!Found, NothingYet, P!TypeOK, ItemRow, PackStatus, ListingRow
  <1>1. ListingRows
    BY <1>0 DEF P!Throw, P!Found, P!Races, ListingRows, UserConfirmed, P!TypeOK,
       ListingRow, ItemRow, PackStatus, P!Status, Decision
  <1>2. work \in ListingJob /\ stage \in P!Stage
    BY <1>0, ListingJobSet DEF P!Throw, P!Stage, P!Publishes, P!Updates, ReadStatus, Decision, ListingRow
  <1>w. work.item = listingJob[c].item /\ work.fresh = listingJob[c].fresh
    BY <1>0, ListingJobSet DEF P!Throw
  <1>3. P!Goto(c, stage, work)
    BY <1>0 DEF P!Throw, P!Written, P!End
  <1> HIDE DEF work
  <1>4. RightlyAt(stage, work)
    BY <1>0, <1>1, <1>w
       DEF P!Throw, P!Found, Rightly, RightlyAt, HasItem, ListingRows, UserConfirmed, ReadStatus, Decision, ListingRow
  <1>5. P!TypeOK' /\ ListingJobInv' /\ NothingYet'
    BY <1>1, <1>2, <1>3, <1>4, RightlyOn
  <1>6. P!QueuedHasWork' /\ P!LiveIsConfirmed' /\ P!DeletedIsIdle'
    BY <1>0, <1>1 DEF P!Throw, P!Found, P!Races, Rightly, ListingRows, ListingRow, UserConfirmed,
       P!QueuedHasWork, P!LiveIsConfirmed, P!DeletedIsIdle
  <1>7. /\ OthersPublish(c) /\ listingPc'[c] = stage /\ listingJob'[c] = work
        /\ listingPc[c] \in P!Stage
    BY <1>2, <1>3, ListingMoves DEF OthersPublish, P!TypeOK
  <1>8. P!Publishing(c) /\ (NeverApart => NeverApart')
    BY <1>0 DEF P!Throw, NeverApart, P!Publishing, P!Publishes, Rightly, HasItem
  <1>a. ~NeverApart => InStep(c)
    BY <1>8 DEF OnePublishes, NeverApart
  <1>b. ~NeverApart' => IF P!Publishing(c)' THEN InStep(c)'
                        ELSE (items = <<>> \/ OneStory(items[Len(items)].status))'
    BY <1>0, <1>7, <1>8, <1>a, <1>w DEF P!Throw, NeverApart, P!Publishing, P!Publishes, InStep, OneStory, Rightly, HasItem, ItemRow
  <1>9. OnePublishes'
    BY <1>7, <1>8, <1>b, Publisher
  <1> QED
    BY <1>5, <1>6, <1>9

LEMMA FailListingStep ==
    ASSUME ListingInv, NEW c \in Call, P!FailListing(c)
    PROVE  ListingInv'
  <1> USE DEF ListingInv
  <1> DEFINE stage == "failingItem"
             work == [listingJob[c] EXCEPT !.found = FALSE]
  <1>0. /\ listingJob[c] \in ListingJob /\ Rightly(c)
        /\ listingJob[c].item \in Nat /\ listingJob[c].pack \in Nat
        /\ listingJob[c].fresh \in BOOLEAN /\ listingJob[c].found \in BOOLEAN
        /\ listingJob[c].read \in ReadStatus /\ listingJob[c].decision \in Decision
        /\ listing.status # "none" /\ listing \in ListingRow /\ listing.status \in P!Status
        /\ items \in Seq(ItemRow) /\ packs \in Seq(PackStatus)
    BY HeldListingJob DEF P!FailListing, P!Found, NothingYet, P!TypeOK, ItemRow, PackStatus, ListingRow
  <1>r. /\ listing' \in ListingRow /\ listing'.approval = listing.approval
        /\ listing'.deleted = listing.deleted /\ listing'.status # "none"
        /\ listing'.status \in {listing.status, "ERROR"}
        /\ listing.deleted => listing' = listing \/ "delete" \in raced'
        /\ ~listing.deleted => listing'.status = "ERROR"
        /\ raced \subseteq raced' /\ raced' \subseteq raced \cup {"delete"}
        /\ items' = items
        /\ queue' = queue /\ packs' = packs /\ automated' = automated
    BY <1>0, StatusSet DEF P!FailListing, P!Status
  <1>1. ListingRows
    BY <1>0, <1>r DEF ListingRows, UserConfirmed, P!TypeOK
  <1>2. work \in ListingJob /\ stage \in P!Stage
    BY <1>0, ListingJobSet DEF P!FailListing, P!Stage, P!Publishes, P!Updates, ReadStatus, Decision, ListingRow
  <1>w. work.item = listingJob[c].item /\ work.fresh = listingJob[c].fresh
    BY <1>0, ListingJobSet DEF P!FailListing
  <1>3. P!Goto(c, stage, work)
    BY <1>0 DEF P!FailListing, P!Written, P!End
  <1> HIDE DEF work
  <1>4. RightlyAt(stage, work)
    BY <1>0, <1>1, <1>w, <1>r
       DEF P!FailListing, P!Found, Rightly, RightlyAt, HasItem, ListingRows, UserConfirmed, ReadStatus, Decision, ListingRow
  <1>5. P!TypeOK' /\ ListingJobInv' /\ NothingYet'
    BY <1>1, <1>2, <1>3, <1>4, RightlyOn
  <1>6. P!QueuedHasWork' /\ P!LiveIsConfirmed' /\ P!DeletedIsIdle'
    BY <1>0, <1>1, <1>r DEF P!FailListing, Rightly, ListingRows, UserConfirmed,
       P!QueuedHasWork, P!LiveIsConfirmed, P!DeletedIsIdle
  <1>7. /\ OthersPublish(c) /\ listingPc'[c] = stage /\ listingJob'[c] = work
        /\ listingPc[c] \in P!Stage
    BY <1>2, <1>3, ListingMoves DEF OthersPublish, P!TypeOK
  <1>8. P!Publishing(c) /\ (NeverApart => NeverApart')
    BY <1>0, <1>r DEF P!FailListing, NeverApart, P!Publishing, P!Publishes, Rightly, HasItem
  <1>a. ~NeverApart => InStep(c)
    BY <1>8 DEF OnePublishes, NeverApart
  <1>b. ~NeverApart' => IF P!Publishing(c)' THEN InStep(c)'
                        ELSE (items = <<>> \/ OneStory(items[Len(items)].status))'
    BY <1>0, <1>7, <1>8, <1>a, <1>w, <1>r DEF P!FailListing, NeverApart, P!Publishing, P!Publishes, InStep, OneStory, Rightly, HasItem, ItemRow
  <1>9. OnePublishes'
    BY <1>7, <1>8, <1>b, Publisher
  <1> QED
    BY <1>5, <1>6, <1>9

LEMMA FailItemStep ==
    ASSUME ListingInv, NEW c \in Call, P!FailItem(c)
    PROVE  ListingInv'
  <1> USE DEF ListingInv
  <1> DEFINE stage == IF listingJob[c].fresh THEN "counting" ELSE "idle"
             work == IF listingJob[c].fresh THEN listingJob[c] ELSE P!NoJob
  <1>0. /\ listingJob[c] \in ListingJob /\ Rightly(c)
        /\ listingJob[c].item \in Nat /\ listingJob[c].pack \in Nat
        /\ listingJob[c].fresh \in BOOLEAN /\ listingJob[c].found \in BOOLEAN
        /\ listingJob[c].read \in ReadStatus /\ listingJob[c].decision \in Decision
        /\ listing.status # "none" /\ listing \in ListingRow /\ listing.status \in P!Status
        /\ items \in Seq(ItemRow) /\ packs \in Seq(PackStatus)
    BY HeldListingJob DEF P!FailItem, P!Found, NothingYet, P!TypeOK, ItemRow, PackStatus, ListingRow
  <1>h. listingJob[c].item \in 1..Len(items)
    BY <1>0 DEF P!FailItem, Rightly, HasItem, Decision
  <1>g. /\ items' = WithStatus(items, listingJob[c].item, "FAILED")
        /\ listing' = listing
        /\ queue' = queue /\ packs' = packs /\ raced' = raced /\ automated' = automated
    BY DEF P!FailItem, WithStatus
  <1>r. /\ items' \in Seq(ItemRow) /\ Len(items') = Len(items)
        /\ items'[listingJob[c].item].status = "FAILED"
        /\ listing' = listing
        /\ queue' = queue /\ packs' = packs /\ raced' = raced /\ automated' = automated
    BY <1>0, <1>h, <1>g, StatusUpdate
  <1>1. ListingRows
    BY <1>0, <1>r, <1>h DEF ListingRows, UserConfirmed, P!TypeOK
  <1>2. work \in ListingJob /\ stage \in P!Stage
    BY <1>0, NewListingJob DEF P!FailItem, P!Stage, P!Publishes, P!Updates, ReadStatus, Decision, ListingRow
  <1>w. IF listingJob[c].fresh THEN work = listingJob[c] ELSE work.item = 0
    BY <1>0, NewListingJob DEF P!FailItem
  <1>3. P!Goto(c, stage, work)
    BY <1>0 DEF P!FailItem, P!End
  <1> HIDE DEF work
  <1>4. RightlyAt(stage, work)
    BY <1>0, <1>1, <1>w, <1>r, <1>h
       DEF P!FailItem, P!Found, Rightly, RightlyAt, HasItem, ListingRows, UserConfirmed, ReadStatus, Decision, ListingRow
  <1>5. P!TypeOK' /\ ListingJobInv' /\ NothingYet'
    BY <1>1, <1>2, <1>3, <1>4, RightlyOn
  <1>6. P!QueuedHasWork' /\ P!LiveIsConfirmed' /\ P!DeletedIsIdle'
    BY <1>0, <1>1, <1>r DEF P!FailItem, Rightly, ListingRows, UserConfirmed,
       P!QueuedHasWork, P!LiveIsConfirmed, P!DeletedIsIdle
  <1>7. /\ OthersPublish(c) /\ listingPc'[c] = stage /\ listingJob'[c] = work
        /\ listingPc[c] \in P!Stage
    BY <1>2, <1>3, ListingMoves DEF OthersPublish, P!TypeOK
  <1>8. P!Publishing(c) /\ (NeverApart => NeverApart')
    BY <1>0, <1>r, <1>h DEF P!FailItem, NeverApart, P!Publishing, P!Publishes, Rightly, HasItem
  <1>a. ~NeverApart => InStep(c)
    BY <1>8 DEF OnePublishes, NeverApart
  <1>b. ~NeverApart' => IF P!Publishing(c)' THEN InStep(c)'
                        ELSE (items = <<>> \/ OneStory(items[Len(items)].status))'
    BY <1>0, <1>7, <1>8, <1>a, <1>w, <1>r, <1>h DEF P!FailItem, NeverApart, P!Publishing, P!Publishes, InStep, OneStory, Rightly, HasItem, ItemRow
  <1>9. OnePublishes'
    BY <1>7, <1>8, <1>b, Publisher
  <1> QED
    BY <1>5, <1>6, <1>9

LEMMA RecountStep ==
    ASSUME ListingInv, NEW c \in Call, P!Recount(c)
    PROVE  ListingInv'
  <1> USE DEF ListingInv
  <1> DEFINE stage == "idle"
             work == P!NoJob
  <1>0. /\ listingJob[c] \in ListingJob /\ Rightly(c)
        /\ listingJob[c].item \in Nat /\ listingJob[c].pack \in Nat
        /\ listingJob[c].fresh \in BOOLEAN /\ listingJob[c].found \in BOOLEAN
        /\ listingJob[c].read \in ReadStatus /\ listingJob[c].decision \in Decision
        /\ listing.status # "none" /\ listing \in ListingRow /\ listing.status \in P!Status
        /\ items \in Seq(ItemRow) /\ packs \in Seq(PackStatus)
    BY HeldListingJob DEF P!Recount, P!Found, NothingYet, P!TypeOK, ItemRow, PackStatus, ListingRow
  <1>h. listingJob[c].item \in 1..Len(items)
    BY <1>0 DEF P!Recount, Rightly, HasItem, Decision
  <1>g. /\ items' = WithJob(items, listingJob[c].item, (CASE items[listingJob[c].item].status = "SUCCEEDED" -> "COMPLETED"
                [] items[listingJob[c].item].status = "FAILED" -> "FAILED"
                [] OTHER -> "RUNNING"))
        /\ listing' = listing
        /\ queue' = queue /\ packs' = packs /\ raced' = raced /\ automated' = automated
    BY DEF P!Recount, WithJob
  <1>r. /\ items' \in Seq(ItemRow) /\ Len(items') = Len(items)
        /\ \A k \in 1..Len(items) : items'[k].status = items[k].status
        /\ listing' = listing
        /\ queue' = queue /\ packs' = packs /\ raced' = raced /\ automated' = automated
    BY <1>0, <1>h, <1>g, ItemJobUpdate
  <1>1. ListingRows
    BY <1>0, <1>r, <1>h DEF ListingRows, UserConfirmed, P!TypeOK
  <1>2. work \in ListingJob /\ stage \in P!Stage
    BY <1>0, NewListingJob DEF P!Recount, P!Stage, P!Publishes, P!Updates, ReadStatus, Decision, ListingRow
  <1>w. work.item = 0
    BY <1>0, NewListingJob DEF P!Recount
  <1>3. P!Goto(c, stage, work)
    BY <1>0 DEF P!Recount, P!End
  <1> HIDE DEF work
  <1>4. RightlyAt(stage, work)
    BY <1>0, <1>1, <1>w, <1>r, <1>h
       DEF P!Recount, P!Found, Rightly, RightlyAt, HasItem, ListingRows, UserConfirmed, ReadStatus, Decision, ListingRow
  <1>5. P!TypeOK' /\ ListingJobInv' /\ NothingYet'
    BY <1>1, <1>2, <1>3, <1>4, RightlyOn
  <1>6. P!QueuedHasWork' /\ P!LiveIsConfirmed' /\ P!DeletedIsIdle'
    BY <1>0, <1>1, <1>r DEF P!Recount, Rightly, ListingRows, UserConfirmed,
       P!QueuedHasWork, P!LiveIsConfirmed, P!DeletedIsIdle
  <1>7. /\ OthersPublish(c) /\ listingPc'[c] = stage /\ listingJob'[c] = work
        /\ listingPc[c] \in P!Stage
    BY <1>2, <1>3, ListingMoves DEF OthersPublish, P!TypeOK
  <1>8. P!Publishing(c) /\ (NeverApart => NeverApart')
    BY <1>0, <1>r, <1>h DEF P!Recount, NeverApart, P!Publishing, P!Publishes, Rightly, HasItem
  <1>a. ~NeverApart => InStep(c)
    BY <1>8 DEF OnePublishes, NeverApart
  <1>b. ~NeverApart' => IF P!Publishing(c)' THEN InStep(c)'
                        ELSE (items = <<>> \/ OneStory(items[Len(items)].status))'
    BY <1>0, <1>7, <1>8, <1>a, <1>w, <1>r, <1>h DEF P!Recount, NeverApart, P!Publishing, P!Publishes, InStep, OneStory, Rightly, HasItem, ItemRow
  <1>9. OnePublishes'
    BY <1>7, <1>8, <1>b, Publisher
  <1> QED
    BY <1>5, <1>6, <1>9

LEMMA ConfirmStep ==
    ASSUME ListingInv, NEW c \in Call, NEW p \in 1..MaxPacks, P!Confirm(c, p)
    PROVE  ListingInv'
  <1> USE DEF ListingInv
  <1> DEFINE stage == "confirming"
             work == P!NoJob
  <1>0. /\ listingJob[c] \in ListingJob /\ Rightly(c)
        /\ listingJob[c].item \in Nat /\ listingJob[c].pack \in Nat
        /\ listingJob[c].fresh \in BOOLEAN /\ listingJob[c].found \in BOOLEAN
        /\ listingJob[c].read \in ReadStatus /\ listingJob[c].decision \in Decision
        /\ listing.status # "none" /\ listing \in ListingRow /\ listing.status \in P!Status
        /\ items \in Seq(ItemRow) /\ packs \in Seq(PackStatus)
    BY HeldListingJob DEF P!Confirm, P!Found, NothingYet, P!TypeOK, ItemRow, PackStatus, ListingRow
  <1>1. ListingRows /\ SameStory
    BY <1>0 DEF P!Confirm, P!Found, P!Races, ListingRows, UserConfirmed, P!TypeOK,
       ListingRow, ItemRow, PackStatus, P!Status, Decision, SameStory
  <1>2. work \in ListingJob /\ stage \in P!Stage
    BY <1>0, NewListingJob DEF P!Confirm, P!Stage, P!Publishes, P!Updates, ReadStatus, Decision, ListingRow
  <1>w. work.item = 0
    BY <1>0, NewListingJob DEF P!Confirm
  <1>3. P!Goto(c, stage, work)
    BY <1>0 DEF P!Confirm, P!End
  <1> HIDE DEF work
  <1>4. RightlyAt(stage, work)
    BY <1>0, <1>1, <1>w
       DEF P!Confirm, P!Found, Rightly, RightlyAt, HasItem, ListingRows, UserConfirmed, ReadStatus, Decision, ListingRow
  <1>5. P!TypeOK' /\ ListingJobInv' /\ NothingYet'
    BY <1>1, <1>2, <1>3, <1>4, RightlyOn
  <1>6. P!QueuedHasWork' /\ P!LiveIsConfirmed' /\ P!DeletedIsIdle'
    BY <1>0, <1>1 DEF P!Confirm, P!Found, P!Races, Rightly, ListingRows, ListingRow, UserConfirmed,
       P!QueuedHasWork, P!LiveIsConfirmed, P!DeletedIsIdle
  <1>7. /\ OthersPublish(c) /\ listingPc'[c] = stage /\ listingJob'[c] = work
        /\ listingPc[c] \in P!Stage
    BY <1>2, <1>3, ListingMoves DEF OthersPublish, P!TypeOK
  <1>8. NeverApart => NeverApart'
    BY <1>0 DEF P!Confirm, P!Races, NeverApart
  <1>a. ~P!Publishing(c) /\ ~P!Publishing(c)'
    BY <1>0, <1>w, <1>7 DEF P!Confirm, P!Publishing, P!Publishes
  <1>9. OnePublishes'
    BY <1>1, <1>5, <1>7, <1>8, <1>a, Bystander
  <1> QED
    BY <1>5, <1>6, <1>9

LEMMA GoLiveStep ==
    ASSUME ListingInv, NEW c \in Call, P!GoLive(c)
    PROVE  ListingInv'
  <1> USE DEF ListingInv
  <1> DEFINE stage == "idle"
             work == P!NoJob
  <1>0. /\ listingJob[c] \in ListingJob /\ Rightly(c)
        /\ listingJob[c].item \in Nat /\ listingJob[c].pack \in Nat
        /\ listingJob[c].fresh \in BOOLEAN /\ listingJob[c].found \in BOOLEAN
        /\ listingJob[c].read \in ReadStatus /\ listingJob[c].decision \in Decision
        /\ listing.status # "none" /\ listing \in ListingRow /\ listing.status \in P!Status
        /\ items \in Seq(ItemRow) /\ packs \in Seq(PackStatus)
    BY HeldListingJob DEF P!GoLive, P!Found, NothingYet, P!TypeOK, ItemRow, PackStatus, ListingRow
  <1>r. /\ listing' \in ListingRow /\ listing'.approval = listing.approval
        /\ listing'.deleted = listing.deleted /\ listing'.status # "none"
        /\ listing'.status \in {listing.status, "LIVE"}
        /\ listing.deleted => listing' = listing \/ "delete" \in raced'
        /\ ~listing.deleted => listing'.status = "LIVE"
        /\ raced \subseteq raced' /\ raced' \subseteq raced \cup {"delete"}
        /\ items' = items
        /\ queue' = queue /\ packs' = packs /\ automated' = automated
    BY <1>0, StatusSet DEF P!GoLive, P!Status
  <1>1. ListingRows /\ SameStory
    BY <1>0, <1>r DEF ListingRows, UserConfirmed, P!TypeOK, SameStory
  <1>2. work \in ListingJob /\ stage \in P!Stage
    BY <1>0, NewListingJob DEF P!GoLive, P!Stage, P!Publishes, P!Updates, ReadStatus, Decision, ListingRow
  <1>w. work.item = 0
    BY <1>0, NewListingJob DEF P!GoLive
  <1>3. P!Goto(c, stage, work)
    BY <1>0 DEF P!GoLive, P!End
  <1> HIDE DEF work
  <1>4. RightlyAt(stage, work)
    BY <1>0, <1>1, <1>w, <1>r
       DEF P!GoLive, P!Found, Rightly, RightlyAt, HasItem, ListingRows, UserConfirmed, ReadStatus, Decision, ListingRow
  <1>5. P!TypeOK' /\ ListingJobInv' /\ NothingYet'
    BY <1>1, <1>2, <1>3, <1>4, RightlyOn
  <1>6. P!QueuedHasWork' /\ P!LiveIsConfirmed' /\ P!DeletedIsIdle'
    BY <1>0, <1>1, <1>r DEF P!GoLive, Rightly, ListingRows, UserConfirmed,
       P!QueuedHasWork, P!LiveIsConfirmed, P!DeletedIsIdle
  <1>7. /\ OthersPublish(c) /\ listingPc'[c] = stage /\ listingJob'[c] = work
        /\ listingPc[c] \in P!Stage
    BY <1>2, <1>3, ListingMoves DEF OthersPublish, P!TypeOK
  <1>8. NeverApart => NeverApart'
    BY <1>0, <1>r DEF P!GoLive, P!Races, NeverApart
  <1>a. ~P!Publishing(c) /\ ~P!Publishing(c)'
    BY <1>0, <1>w, <1>7 DEF P!GoLive, P!Publishing, P!Publishes
  <1>9. OnePublishes'
    BY <1>1, <1>5, <1>7, <1>8, <1>a, Bystander
  <1> QED
    BY <1>5, <1>6, <1>9

LEMMA FindPackStep ==
    ASSUME ListingInv, NEW c \in Call, NEW p \in 1..MaxPacks, P!FindPack(c, p)
    PROVE  ListingInv'
  <1> USE DEF ListingInv
  <1> DEFINE stage == "downloading"
             work == [P!NoJob EXCEPT !.pack = p]
  <1>0. /\ listingJob[c] \in ListingJob /\ Rightly(c)
        /\ listingJob[c].item \in Nat /\ listingJob[c].pack \in Nat
        /\ listingJob[c].fresh \in BOOLEAN /\ listingJob[c].found \in BOOLEAN
        /\ listingJob[c].read \in ReadStatus /\ listingJob[c].decision \in Decision
        /\ listing.status # "none" /\ listing \in ListingRow /\ listing.status \in P!Status
        /\ items \in Seq(ItemRow) /\ packs \in Seq(PackStatus)
    BY HeldListingJob DEF P!FindPack, P!Found, NothingYet, P!TypeOK, ItemRow, PackStatus, ListingRow
  <1>1. ListingRows /\ SameStory
    BY <1>0 DEF P!FindPack, P!Found, P!Races, ListingRows, UserConfirmed, P!TypeOK,
       ListingRow, ItemRow, PackStatus, P!Status, Decision, SameStory
  <1>2. work \in ListingJob /\ stage \in P!Stage
    BY <1>0, NewListingJob DEF P!FindPack, P!Stage, P!Publishes, P!Updates, ListingJob
  <1>w. work.item = 0 /\ work.pack = p
    BY <1>0 DEF P!FindPack, P!NoJob, ListingJob
  <1>3. P!Goto(c, stage, work)
    BY <1>0 DEF P!FindPack, P!End
  <1> HIDE DEF work
  <1>4. RightlyAt(stage, work)
    BY <1>0, <1>1, <1>w
       DEF P!FindPack, P!Found, Rightly, RightlyAt, HasItem, ListingRows, UserConfirmed, ReadStatus, Decision, ListingRow
  <1>5. P!TypeOK' /\ ListingJobInv' /\ NothingYet'
    BY <1>1, <1>2, <1>3, <1>4, RightlyOn
  <1>6. P!QueuedHasWork' /\ P!LiveIsConfirmed' /\ P!DeletedIsIdle'
    BY <1>0, <1>1 DEF P!FindPack, P!Found, P!Races, Rightly, ListingRows, ListingRow, UserConfirmed,
       P!QueuedHasWork, P!LiveIsConfirmed, P!DeletedIsIdle
  <1>7. /\ OthersPublish(c) /\ listingPc'[c] = stage /\ listingJob'[c] = work
        /\ listingPc[c] \in P!Stage
    BY <1>2, <1>3, ListingMoves DEF OthersPublish, P!TypeOK
  <1>8. NeverApart => NeverApart'
    BY <1>0 DEF P!FindPack, P!Races, NeverApart
  <1>a. ~P!Publishing(c) /\ ~P!Publishing(c)'
    BY <1>0, <1>w, <1>7 DEF P!FindPack, P!Publishing, P!Publishes
  <1>9. OnePublishes'
    BY <1>1, <1>5, <1>7, <1>8, <1>a, Bystander
  <1> QED
    BY <1>5, <1>6, <1>9

LEMMA DownloadStep ==
    ASSUME ListingInv, NEW c \in Call, P!Download(c)
    PROVE  ListingInv'
  <1> USE DEF ListingInv
  <1> DEFINE stage == "idle"
             work == P!NoJob
  <1>0. /\ listingJob[c] \in ListingJob /\ Rightly(c)
        /\ listingJob[c].item \in Nat /\ listingJob[c].pack \in Nat
        /\ listingJob[c].fresh \in BOOLEAN /\ listingJob[c].found \in BOOLEAN
        /\ listingJob[c].read \in ReadStatus /\ listingJob[c].decision \in Decision
        /\ listing.status # "none" /\ listing \in ListingRow /\ listing.status \in P!Status
        /\ items \in Seq(ItemRow) /\ packs \in Seq(PackStatus)
    BY HeldListingJob DEF P!Download, P!Found, NothingYet, P!TypeOK, ItemRow, PackStatus, ListingRow
  <1>h. listingJob[c].pack \in DOMAIN packs
    BY <1>0 DEF P!Download, Rightly, HasItem, Decision
  <1>r. /\ packs' \in Seq(PackStatus) /\ Len(packs') = Len(packs) /\ DOMAIN packs' = DOMAIN packs
        /\ \A p \in DOMAIN packs : p # listingJob[c].pack => packs'[p] = packs[p]
        /\ raced \subseteq raced' /\ raced' \subseteq raced \cup {"download"}
        /\ packs[listingJob[c].pack] = "CONFIRMED" => "download" \in raced'
        /\ listing' = listing /\ items' = items /\ queue' = queue /\ automated' = automated
    BY <1>0, <1>h DEF P!Download, P!Races, PackStatus
  <1>1. ListingRows /\ SameStory
    BY <1>0, <1>r, <1>h DEF ListingRows, UserConfirmed, P!TypeOK, SameStory
  <1>2. work \in ListingJob /\ stage \in P!Stage
    BY <1>0, NewListingJob DEF P!Download, P!Stage, P!Publishes, P!Updates, ReadStatus, Decision, ListingRow
  <1>w. work.item = 0
    BY <1>0, NewListingJob DEF P!Download
  <1>3. P!Goto(c, stage, work)
    BY <1>0 DEF P!Download, P!End
  <1> HIDE DEF work
  <1>4. RightlyAt(stage, work)
    BY <1>0, <1>1, <1>w, <1>r, <1>h
       DEF P!Download, P!Found, Rightly, RightlyAt, HasItem, ListingRows, UserConfirmed, ReadStatus, Decision, ListingRow
  <1>5. P!TypeOK' /\ ListingJobInv' /\ NothingYet'
    BY <1>1, <1>2, <1>3, <1>4, RightlyOn
  <1>6. P!QueuedHasWork' /\ P!LiveIsConfirmed' /\ P!DeletedIsIdle'
    BY <1>0, <1>1, <1>r DEF P!Download, Rightly, ListingRows, UserConfirmed,
       P!QueuedHasWork, P!LiveIsConfirmed, P!DeletedIsIdle
  <1>7. /\ OthersPublish(c) /\ listingPc'[c] = stage /\ listingJob'[c] = work
        /\ listingPc[c] \in P!Stage
    BY <1>2, <1>3, ListingMoves DEF OthersPublish, P!TypeOK
  <1>8. NeverApart => NeverApart'
    BY <1>0, <1>r, <1>h DEF P!Download, P!Races, NeverApart
  <1>a. ~P!Publishing(c) /\ ~P!Publishing(c)'
    BY <1>0, <1>w, <1>7 DEF P!Download, P!Publishing, P!Publishes
  <1>9. OnePublishes'
    BY <1>1, <1>5, <1>7, <1>8, <1>a, Bystander
  <1> QED
    BY <1>5, <1>6, <1>9

LEMMA FindApprovalStep ==
    ASSUME ListingInv, NEW c \in Call, NEW d \in {"SUBMITTED", "APPROVED", "REJECTED"}, P!FindApproval(c, d)
    PROVE  ListingInv'
  <1> USE DEF ListingInv
  <1> DEFINE stage == "approving"
             work == [P!NoJob EXCEPT !.read = listing.approval, !.decision = d]
  <1>0. /\ listingJob[c] \in ListingJob /\ Rightly(c)
        /\ listingJob[c].item \in Nat /\ listingJob[c].pack \in Nat
        /\ listingJob[c].fresh \in BOOLEAN /\ listingJob[c].found \in BOOLEAN
        /\ listingJob[c].read \in ReadStatus /\ listingJob[c].decision \in Decision
        /\ listing.status # "none" /\ listing \in ListingRow /\ listing.status \in P!Status
        /\ items \in Seq(ItemRow) /\ packs \in Seq(PackStatus)
    BY HeldListingJob DEF P!FindApproval, P!Found, NothingYet, P!TypeOK, ItemRow, PackStatus, ListingRow
  <1>1. ListingRows /\ SameStory
    BY <1>0 DEF P!FindApproval, P!Found, P!Races, ListingRows, UserConfirmed, P!TypeOK,
       ListingRow, ItemRow, PackStatus, P!Status, Decision, SameStory
  <1>2. work \in ListingJob /\ stage \in P!Stage
    BY <1>0, NewListingJob DEF P!FindApproval, P!Stage, P!Publishes, P!Updates, ReadStatus, Decision, ListingRow, P!NoJob, ListingJob
  <1>w. work.item = 0 /\ work.read = listing.approval /\ work.decision = d
    BY <1>0 DEF P!FindApproval, P!NoJob, ListingJob
  <1>3. P!Goto(c, stage, work)
    BY <1>0 DEF P!FindApproval, P!End
  <1> HIDE DEF work
  <1>4. RightlyAt(stage, work)
    BY <1>0, <1>1, <1>w
       DEF P!FindApproval, P!Found, Rightly, RightlyAt, HasItem, ListingRows, UserConfirmed, ReadStatus, Decision, ListingRow
  <1>5. P!TypeOK' /\ ListingJobInv' /\ NothingYet'
    BY <1>1, <1>2, <1>3, <1>4, RightlyOn
  <1>6. P!QueuedHasWork' /\ P!LiveIsConfirmed' /\ P!DeletedIsIdle'
    BY <1>0, <1>1 DEF P!FindApproval, P!Found, P!Races, Rightly, ListingRows, ListingRow, UserConfirmed,
       P!QueuedHasWork, P!LiveIsConfirmed, P!DeletedIsIdle
  <1>7. /\ OthersPublish(c) /\ listingPc'[c] = stage /\ listingJob'[c] = work
        /\ listingPc[c] \in P!Stage
    BY <1>2, <1>3, ListingMoves DEF OthersPublish, P!TypeOK
  <1>8. NeverApart => NeverApart'
    BY <1>0 DEF P!FindApproval, P!Races, NeverApart
  <1>a. ~P!Publishing(c) /\ ~P!Publishing(c)'
    BY <1>0, <1>w, <1>7 DEF P!FindApproval, P!Publishing, P!Publishes
  <1>9. OnePublishes'
    BY <1>1, <1>5, <1>7, <1>8, <1>a, Bystander
  <1> QED
    BY <1>5, <1>6, <1>9

LEMMA DecideApprovalStep ==
    ASSUME ListingInv, NEW c \in Call, P!DecideApproval(c)
    PROVE  ListingInv'
  <1> USE DEF ListingInv
  <1> DEFINE stage == "idle"
             work == P!NoJob
  <1>0. /\ listingJob[c] \in ListingJob /\ Rightly(c)
        /\ listingJob[c].item \in Nat /\ listingJob[c].pack \in Nat
        /\ listingJob[c].fresh \in BOOLEAN /\ listingJob[c].found \in BOOLEAN
        /\ listingJob[c].read \in ReadStatus /\ listingJob[c].decision \in Decision
        /\ listing.status # "none" /\ listing \in ListingRow /\ listing.status \in P!Status
        /\ items \in Seq(ItemRow) /\ packs \in Seq(PackStatus)
    BY HeldListingJob DEF P!DecideApproval, P!Found, NothingYet, P!TypeOK, ItemRow, PackStatus, ListingRow
  <1>h. listingJob[c].decision \in {"SUBMITTED", "APPROVED", "REJECTED"}
    BY <1>0 DEF P!DecideApproval, Rightly, HasItem, Decision
  <1>r. /\ listing' \in ListingRow /\ listing'.deleted = listing.deleted
        /\ listing.deleted => listing' = listing \/ "delete" \in raced'
        /\ listing'.status \in {listing.status, "PENDING", "REJECTED"}
        /\ raced \subseteq raced' /\ raced' \subseteq raced \cup {"approval", "delete"}
        /\ items' = items /\ queue' = queue /\ packs' = packs /\ automated' = automated
    BY <1>0, <1>h DEF P!DecideApproval, P!Searched, P!Found, ListingRow, Decision, P!Status
  <1>1. ListingRows /\ SameStory
    BY <1>0, <1>r, <1>h DEF ListingRows, UserConfirmed, P!TypeOK, SameStory
  <1>2. work \in ListingJob /\ stage \in P!Stage
    BY <1>0, NewListingJob DEF P!DecideApproval, P!Stage, P!Publishes, P!Updates, ReadStatus, Decision, ListingRow
  <1>w. work.item = 0
    BY <1>0, NewListingJob DEF P!DecideApproval
  <1>3. P!Goto(c, stage, work)
    BY <1>0 DEF P!DecideApproval, P!End
  <1> HIDE DEF work
  <1>4. RightlyAt(stage, work)
    BY <1>0, <1>1, <1>w, <1>r, <1>h
       DEF P!DecideApproval, P!Found, Rightly, RightlyAt, HasItem, ListingRows, UserConfirmed, ReadStatus, Decision, ListingRow
  <1>5. P!TypeOK' /\ ListingJobInv' /\ NothingYet'
    BY <1>1, <1>2, <1>3, <1>4, RightlyOn
  <1>6. P!QueuedHasWork' /\ P!LiveIsConfirmed' /\ P!DeletedIsIdle'
    BY <1>0, <1>1, <1>r DEF P!DecideApproval, Rightly, ListingRows, UserConfirmed,
       P!QueuedHasWork, P!LiveIsConfirmed, P!DeletedIsIdle
  <1>7. /\ OthersPublish(c) /\ listingPc'[c] = stage /\ listingJob'[c] = work
        /\ listingPc[c] \in P!Stage
    BY <1>2, <1>3, ListingMoves DEF OthersPublish, P!TypeOK
  <1>8. NeverApart => NeverApart'
    BY <1>0, <1>r, <1>h DEF P!DecideApproval, P!Races, NeverApart
  <1>a. ~P!Publishing(c) /\ ~P!Publishing(c)'
    BY <1>0, <1>w, <1>7 DEF P!DecideApproval, P!Publishing, P!Publishes
  <1>9. OnePublishes'
    BY <1>1, <1>5, <1>7, <1>8, <1>a, Bystander
  <1> QED
    BY <1>5, <1>6, <1>9

LEMMA FindDeletableStep ==
    ASSUME ListingInv, NEW c \in Call, P!FindDeletable(c)
    PROVE  ListingInv'
  <1> USE DEF ListingInv
  <1> DEFINE stage == "deleting"
             work == [P!NoJob EXCEPT !.read = listing.status]
  <1>0. /\ listingJob[c] \in ListingJob /\ Rightly(c)
        /\ listingJob[c].item \in Nat /\ listingJob[c].pack \in Nat
        /\ listingJob[c].fresh \in BOOLEAN /\ listingJob[c].found \in BOOLEAN
        /\ listingJob[c].read \in ReadStatus /\ listingJob[c].decision \in Decision
        /\ listing.status # "none" /\ listing \in ListingRow /\ listing.status \in P!Status
        /\ items \in Seq(ItemRow) /\ packs \in Seq(PackStatus)
    BY HeldListingJob DEF P!FindDeletable, P!Found, NothingYet, P!TypeOK, ItemRow, PackStatus, ListingRow
  <1>1. ListingRows /\ SameStory
    BY <1>0 DEF P!FindDeletable, P!Found, P!Races, ListingRows, UserConfirmed, P!TypeOK,
       ListingRow, ItemRow, PackStatus, P!Status, Decision, SameStory
  <1>2. work \in ListingJob /\ stage \in P!Stage
    BY <1>0, NewListingJob DEF P!FindDeletable, P!Stage, P!Publishes, P!Updates, ReadStatus, Decision, ListingRow, P!NoJob, ListingJob
  <1>w. work.item = 0 /\ work.read = listing.status
    BY <1>0 DEF P!FindDeletable, P!NoJob, ListingJob
  <1>3. P!Goto(c, stage, work)
    BY <1>0 DEF P!FindDeletable, P!End
  <1> HIDE DEF work
  <1>4. RightlyAt(stage, work)
    BY <1>0, <1>1, <1>w
       DEF P!FindDeletable, P!Found, Rightly, RightlyAt, HasItem, ListingRows, UserConfirmed, ReadStatus, Decision, ListingRow
  <1>5. P!TypeOK' /\ ListingJobInv' /\ NothingYet'
    BY <1>1, <1>2, <1>3, <1>4, RightlyOn
  <1>6. P!QueuedHasWork' /\ P!LiveIsConfirmed' /\ P!DeletedIsIdle'
    BY <1>0, <1>1 DEF P!FindDeletable, P!Found, P!Races, Rightly, ListingRows, ListingRow, UserConfirmed,
       P!QueuedHasWork, P!LiveIsConfirmed, P!DeletedIsIdle
  <1>7. /\ OthersPublish(c) /\ listingPc'[c] = stage /\ listingJob'[c] = work
        /\ listingPc[c] \in P!Stage
    BY <1>2, <1>3, ListingMoves DEF OthersPublish, P!TypeOK
  <1>8. NeverApart => NeverApart'
    BY <1>0 DEF P!FindDeletable, P!Races, NeverApart
  <1>a. ~P!Publishing(c) /\ ~P!Publishing(c)'
    BY <1>0, <1>w, <1>7 DEF P!FindDeletable, P!Publishing, P!Publishes
  <1>9. OnePublishes'
    BY <1>1, <1>5, <1>7, <1>8, <1>a, Bystander
  <1> QED
    BY <1>5, <1>6, <1>9

LEMMA DeleteStep ==
    ASSUME ListingInv, NEW c \in Call, P!Delete(c)
    PROVE  ListingInv'
  <1> USE DEF ListingInv
  <1> DEFINE stage == "idle"
             work == P!NoJob
  <1>0. /\ listingJob[c] \in ListingJob /\ Rightly(c)
        /\ listingJob[c].item \in Nat /\ listingJob[c].pack \in Nat
        /\ listingJob[c].fresh \in BOOLEAN /\ listingJob[c].found \in BOOLEAN
        /\ listingJob[c].read \in ReadStatus /\ listingJob[c].decision \in Decision
        /\ listing.status # "none" /\ listing \in ListingRow /\ listing.status \in P!Status
        /\ items \in Seq(ItemRow) /\ packs \in Seq(PackStatus)
    BY HeldListingJob DEF P!Delete, P!Found, NothingYet, P!TypeOK, ItemRow, PackStatus, ListingRow
  <1>r. /\ listing' \in ListingRow /\ listing'.deleted /\ listing'.status = listing.status
        /\ raced \subseteq raced' /\ raced' \subseteq raced \cup {"delete"}
        /\ ~listing.deleted /\ listing.status # listingJob[c].read => "delete" \in raced'
        /\ items' = items /\ queue' = queue /\ packs' = packs /\ automated' = automated
    BY <1>0 DEF P!Delete, P!Races, ListingRow
  <1>1. ListingRows /\ SameStory
    BY <1>0, <1>r DEF ListingRows, UserConfirmed, P!TypeOK, SameStory
  <1>2. work \in ListingJob /\ stage \in P!Stage
    BY <1>0, NewListingJob DEF P!Delete, P!Stage, P!Publishes, P!Updates, ReadStatus, Decision, ListingRow
  <1>w. work.item = 0
    BY <1>0, NewListingJob DEF P!Delete
  <1>3. P!Goto(c, stage, work)
    BY <1>0 DEF P!Delete, P!End
  <1> HIDE DEF work
  <1>4. RightlyAt(stage, work)
    BY <1>0, <1>1, <1>w, <1>r
       DEF P!Delete, P!Found, Rightly, RightlyAt, HasItem, ListingRows, UserConfirmed, ReadStatus, Decision, ListingRow
  <1>5. P!TypeOK' /\ ListingJobInv' /\ NothingYet'
    BY <1>1, <1>2, <1>3, <1>4, RightlyOn
  <1>6. P!QueuedHasWork' /\ P!LiveIsConfirmed' /\ P!DeletedIsIdle'
    BY <1>0, <1>1, <1>r DEF P!Delete, Rightly, ListingRows, UserConfirmed,
       P!QueuedHasWork, P!LiveIsConfirmed, P!DeletedIsIdle
  <1>7. /\ OthersPublish(c) /\ listingPc'[c] = stage /\ listingJob'[c] = work
        /\ listingPc[c] \in P!Stage
    BY <1>2, <1>3, ListingMoves DEF OthersPublish, P!TypeOK
  <1>8. NeverApart => NeverApart'
    BY <1>0, <1>r DEF P!Delete, P!Races, NeverApart
  <1>a. ~P!Publishing(c) /\ ~P!Publishing(c)'
    BY <1>0, <1>w, <1>7 DEF P!Delete, P!Publishing, P!Publishes
  <1>9. OnePublishes'
    BY <1>1, <1>5, <1>7, <1>8, <1>a, Bystander
  <1> QED
    BY <1>5, <1>6, <1>9

LEMMA DieStep ==
    ASSUME ListingInv, NEW c \in Call, P!Die(c)
    PROVE  ListingInv'
  <1> USE DEF ListingInv
  <1> DEFINE stage == "idle"
             work == P!NoJob
  <1>0. /\ listingJob[c] \in ListingJob /\ Rightly(c)
        /\ listingJob[c].item \in Nat /\ listingJob[c].pack \in Nat
        /\ listingJob[c].fresh \in BOOLEAN /\ listingJob[c].found \in BOOLEAN
        /\ listingJob[c].read \in ReadStatus /\ listingJob[c].decision \in Decision
        /\ listing.status # "none" /\ listing \in ListingRow /\ listing.status \in P!Status
        /\ items \in Seq(ItemRow) /\ packs \in Seq(PackStatus)
    BY HeldListingJob DEF P!Die, P!Found, NothingYet, P!TypeOK, ItemRow, PackStatus, ListingRow
  <1>r. /\ raced \subseteq raced' /\ raced' \subseteq raced \cup {"publish"}
        /\ P!Publishing(c) => "publish" \in raced'
        /\ listing' = listing /\ items' = items /\ queue' = queue /\ packs' = packs /\ automated' = automated
    BY <1>0 DEF P!Die, P!Races
  <1>1. ListingRows /\ SameStory
    BY <1>0, <1>r DEF ListingRows, UserConfirmed, P!TypeOK, SameStory
  <1>2. work \in ListingJob /\ stage \in P!Stage
    BY <1>0, NewListingJob DEF P!Die, P!Stage, P!Publishes, P!Updates, ReadStatus, Decision, ListingRow
  <1>w. work.item = 0
    BY <1>0, NewListingJob DEF P!Die
  <1>3. P!Goto(c, stage, work)
    BY <1>0 DEF P!Die, P!End
  <1> HIDE DEF work
  <1>4. RightlyAt(stage, work)
    BY <1>0, <1>1, <1>w, <1>r
       DEF P!Die, P!Found, Rightly, RightlyAt, HasItem, ListingRows, UserConfirmed, ReadStatus, Decision, ListingRow
  <1>5. P!TypeOK' /\ ListingJobInv' /\ NothingYet'
    BY <1>1, <1>2, <1>3, <1>4, RightlyOn
  <1>6. P!QueuedHasWork' /\ P!LiveIsConfirmed' /\ P!DeletedIsIdle'
    BY <1>0, <1>1, <1>r DEF P!Die, Rightly, ListingRows, UserConfirmed,
       P!QueuedHasWork, P!LiveIsConfirmed, P!DeletedIsIdle
  <1>7. /\ OthersPublish(c) /\ listingPc'[c] = stage /\ listingJob'[c] = work
        /\ listingPc[c] \in P!Stage
    BY <1>2, <1>3, ListingMoves DEF OthersPublish, P!TypeOK
  <1>8. NeverApart => NeverApart'
    BY <1>0, <1>r DEF NeverApart
  <1>9. OnePublishes'
    <2>1. CASE P!Publishing(c)
      BY <2>1, <1>r DEF OnePublishes
    <2>2. CASE ~P!Publishing(c)
      <3>1. ~P!Publishing(c)'
        BY <1>7 DEF P!Publishing, P!Publishes
      <3> QED
        BY <1>1, <1>5, <1>7, <1>8, <2>2, <3>1, Bystander
    <2> QED
      BY <2>1, <2>2
  <1> QED
    BY <1>5, <1>6, <1>9

LEMMA CreateDraftStep ==
    ASSUME ListingInv, P!CreateDraft
    PROVE  ListingInv'
  <1> USE DEF ListingInv
  <1>1. /\ items = <<>> /\ packs = <<>> /\ \A c \in Call : listingPc[c] = "idle"
        /\ listing' \in ListingRow /\ listing'.deleted = listing.deleted
        /\ listing'.approval = listing.approval /\ listing'.status = "DRAFT"
        /\ UNCHANGED <<automated, items, queue, packs, raced, listingPc, listingJob>>
    BY DEF P!CreateDraft, NothingYet, P!TypeOK, ListingRow, P!Status
  <1>2. P!TypeOK' /\ ListingJobInv' /\ NothingYet'
    BY <1>1 DEF P!TypeOK, ListingJobInv, Rightly, UserConfirmed, NothingYet, ListingRow
  <1>3. P!QueuedHasWork' /\ P!LiveIsConfirmed' /\ P!DeletedIsIdle'
    BY <1>1 DEF P!QueuedHasWork, P!LiveIsConfirmed, P!DeletedIsIdle
  <1>4. OnePublishes'
    BY <1>1 DEF OnePublishes, P!Publishing, P!Publishes
  <1> QED
    BY <1>2, <1>3, <1>4

\* The invariant of a listing: a step of any call, or none, keeps it.
THEOREM ListingStep ==
    ASSUME ListingInv, [P!Next]_(P!vars)
    PROVE  ListingInv'
  <1>1. CASE P!Next
    <2>1. CASE P!CreateDraft
      BY <2>1, CreateDraftStep
    <2>2. ASSUME NEW c \in Call,
                 \/ P!Publish(c) \/ P!PublishExisting(c) \/ P!CreateItem(c) \/ P!Retry(c)
                 \/ P!FindListing(c) \/ P!FindForPack(c) \/ P!CreatePack(c) \/ P!SavePack(c) \/ P!Succeed(c)
          PROVE  ListingInv'
      BY <2>2, PublishStep, PublishExistingStep, CreateItemStep, RetryStep, FindListingStep,
         FindForPackStep, CreatePackStep, SavePackStep, SucceedStep
    <2>3. ASSUME NEW c \in Call,
                 \/ P!FindForQueue(c) \/ P!Enqueue(c) \/ P!LinkItem(c) \/ P!MarkQueued(c)
                 \/ P!Throw(c) \/ P!FailListing(c) \/ P!FailItem(c) \/ P!Recount(c)
          PROVE  ListingInv'
      BY <2>3, FindForQueueStep, EnqueueStep, LinkItemStep, MarkQueuedStep, ThrowStep, FailListingStep,
         FailItemStep, RecountStep
    <2>4. ASSUME NEW c \in Call, NEW p \in 1..MaxPacks, P!Confirm(c, p) \/ P!FindPack(c, p)
          PROVE  ListingInv'
      BY <2>4, ConfirmStep, FindPackStep
    <2>5. ASSUME NEW c \in Call, NEW d \in {"SUBMITTED", "APPROVED", "REJECTED"}, P!FindApproval(c, d)
          PROVE  ListingInv'
      BY <2>5, FindApprovalStep
    <2>6. ASSUME NEW c \in Call,
                 \/ P!GoLive(c) \/ P!Download(c) \/ P!DecideApproval(c)
                 \/ P!FindDeletable(c) \/ P!Delete(c) \/ P!Die(c)
          PROVE  ListingInv'
      BY <2>6, GoLiveStep, DownloadStep, DecideApprovalStep, FindDeletableStep, DeleteStep, DieStep
    <2> QED
      BY <1>1, <2>1, <2>2, <2>3, <2>4, <2>5, <2>6 DEF P!Next
  <1>2. CASE UNCHANGED P!vars
    <2>1. UNCHANGED <<automated, listing, items, queue, packs, raced, listingPc, listingJob>>
      BY <1>2 DEF P!vars
    <2>2. P!TypeOK' /\ NothingYet' /\ P!QueuedHasWork' /\ P!LiveIsConfirmed' /\ P!DeletedIsIdle'
      BY <2>1 DEF ListingInv, P!TypeOK, NothingYet, P!QueuedHasWork, P!LiveIsConfirmed, P!DeletedIsIdle
    <2>3. ListingJobInv'
      BY <2>1 DEF ListingInv, ListingJobInv, Rightly, UserConfirmed
    <2>4. OnePublishes'
      BY <2>1 DEF ListingInv, OnePublishes, InStep, OneStory, P!Publishing, P!UnderWay
    <2> QED
      BY <2>2, <2>3, <2>4 DEF ListingInv
  <1> QED
    BY <1>1, <1>2

LEMMA ListingInit == P!Init => ListingInv
  <1> SUFFICES ASSUME P!Init PROVE ListingInv
    OBVIOUS
  <1>1. P!TypeOK
    <2>1. listing \in ListingRow
      BY DEF P!Init, ListingRow, P!Status
    <2>2. listingPc \in [Call -> P!Stage]
      BY DEF P!Init, P!Stage
    <2> QED
      BY <2>1, <2>2 DEF P!Init, P!TypeOK, ListingRow
  <1>2. ListingJobInv
    BY NewListingJob DEF P!Init, ListingJobInv, Rightly, HasItem
  <1>3. NothingYet /\ P!QueuedHasWork /\ P!LiveIsConfirmed /\ P!DeletedIsIdle
    BY DEF P!Init, NothingYet, P!QueuedHasWork, P!LiveIsConfirmed, P!DeletedIsIdle
  <1>4. OnePublishes
    BY DEF P!Init, OnePublishes, P!Publishing, P!Publishes
  <1> QED
    BY <1>1, <1>2, <1>3, <1>4 DEF ListingInv

LEMMA ListingInvAgrees == ListingInv => P!ListingAgrees
  <1> SUFFICES ASSUME ListingInv PROVE P!ItemAgrees
    BY DEF ListingInv, P!ListingAgrees
  <1> QED
    BY DEF ListingInv, OnePublishes, OneStory, P!ItemAgrees

\* An approval that has been given stands: a call that decides was let to by another one,
\* which it read (approval.service.ts).
LEMMA ApprovalKept ==
    ASSUME ListingInv, [P!Next]_(P!vars), listing.approval = "APPROVED",
           ~(listing'.approval = "APPROVED" \/ "approval" \in raced')
    PROVE  UNCHANGED P!vars
  <1>1. CASE P!Next
    <2>1. listing'.approval # listing.approval
      OBVIOUS
    <2>2. \/ listing' = listing
          \/ \E x \in P!Status : listing' = [listing EXCEPT !.status = x]
          \/ listing' = [listing EXCEPT !.deleted = TRUE]
          \/ \E c \in Call : P!DecideApproval(c)
      BY <1>1 DEF P!Next, P!CreateDraft, P!Publish, P!PublishExisting, P!CreateItem, P!Retry, P!FindListing,
         P!FindForPack, P!CreatePack, P!FindForQueue,
         P!SavePack, P!Succeed, P!Enqueue, P!LinkItem, P!MarkQueued, P!Throw, P!FailListing, P!FailItem,
         P!Recount, P!Confirm, P!GoLive, P!FindPack, P!Download, P!FindApproval, P!FindDeletable, P!Delete,
         P!Die, P!SetStatus, P!Status
    <2>3. PICK c \in Call : P!DecideApproval(c)
      BY <2>1, <2>2 DEF ListingInv, P!TypeOK
    <2>4. listing.approval # listingJob[c].read
      BY <2>3 DEF P!DecideApproval, ListingInv, ListingJobInv, Rightly
    <2> QED
      BY <2>1, <2>3, <2>4 DEF P!DecideApproval
  <1>2. CASE UNCHANGED P!vars
    BY <1>2
  <1> QED
    BY <1>1, <1>2

\* A listing's invariant holds in every behaviour, however its publications, packs,
\* approvals and deletions overlap and wherever they fail (apps/api/src/publishing).
THEOREM ListingInvariant == P!Spec => []ListingInv
  BY ListingInit, ListingStep, PTL DEF P!Spec

LEMMA ApprovalStays == P!Spec => P!ApprovalStands
  <1> DEFINE Stays == listing.approval = "APPROVED" =>
                          listing'.approval = "APPROVED" \/ "approval" \in raced'
  <1>1. ListingInv /\ [P!Next]_(P!vars) => [Stays]_(P!vars)
    BY ApprovalKept
  <1>2. P!ApprovalStands <=> [][Stays]_(P!vars)
    BY DEF P!ApprovalStands
  <1> HIDE DEF Stays
  <1> QED
    BY <1>1, <1>2, ListingInvariant, PTL DEF P!Spec
-----------------------------------------------------------------------------
(* An asset: what is true of a call between its awaits *)

AssetJob == [chunk : 0..Total, size : Nat, target : 0..MaxAssetVersion, next : 0..MaxAssetVersion]
Appends(c) == assetPc[c] \in {"appending", "noting"}
RollsBack(c) == assetPc[c] \in {"creating", "pointing"}
Newest == Cardinality(versions)

\* Whatever overlaps, a chunk is one of the file's, and the number that a call gives to a
\* version follows one that there is.
AssetJobInv ==
    /\ \A c \in Call :
        /\ assetPc[c] = "appending" => assetJob[c].chunk # 0
        /\ RollsBack(c) => assetJob[c].next - 1 \in versions
        /\ assetPc[c] = "pointing" => assetJob[c].next \in versions
    /\ ~session.linked /\ session.status # "COMPLETE"
    /\ versions = 1..Newest /\ Newest \in Nat

\* Unless chunks tore the file, a call that appends does so where the session stands.
OneAppends ==
    torn \/ session.status # "OPEN" \/
    /\ file = [i \in DOMAIN file |-> i]
    /\ \A c, d \in Call : Appends(c) /\ Appends(d) => c = d
    /\ \A c \in Call : /\ assetPc[c] = "appending" => assetJob[c].chunk = session.received + 1
                       /\ assetPc[c] = "noting" => assetJob[c].size = Len(file)
    /\ (\A c \in Call : assetPc[c] # "noting") => session.received = Len(file)

\* Unless roll-backs went askew, one at most is under way, to the next number; the asset
\* points at the newest version but for its last step, and is READY with a version but
\* between the two steps of a completion.
OneRollsBack ==
    askew \/ asset.deleted \/
    /\ \A c, d \in Call : RollsBack(c) /\ RollsBack(d) => c = d
    /\ \A c \in Call : /\ assetPc[c] = "creating" => assetJob[c].next = Newest + 1
                       /\ assetPc[c] = "pointing" => assetJob[c].next = Newest
    /\ \/ \E c \in Call : assetPc[c] = "pointing"
       \/ asset.current = IF versions = {} THEN 1 ELSE Newest
    /\ \/ \E c \in Call : assetPc[c] = "versioning"
       \/ asset.status = "READY" => versions # {}

AssetInv == A!TypeOK /\ AssetJobInv /\ OneAppends /\ OneRollsBack
-----------------------------------------------------------------------------
(* An asset: the effect of a step *)

AssetStage == {"idle", "appending", "noting", "versioning", "creating", "pointing"}

LEMMA AssetMoves ==
    ASSUME A!TypeOK, NEW c \in Call, NEW stage \in AssetStage, NEW work \in AssetJob,
           A!Goto(c, stage, work)
    PROVE  /\ assetPc'[c] = stage /\ assetJob'[c] = work
           /\ \A d \in Call : d # c => assetPc'[d] = assetPc[d] /\ assetJob'[d] = assetJob[d]
           /\ assetPc' \in [Call -> AssetStage] /\ assetJob' \in [Call -> AssetJob]
  BY DEF A!Goto, A!TypeOK, AssetStage, AssetJob

LEMMA AssetRows ==
    ASSUME A!TypeOK
    PROVE  /\ asset \in [status : {"UPLOADING", "READY"}, deleted : BOOLEAN, current : 1..MaxAssetVersion]
           /\ session \in [status : {"none", "OPEN", "COMPLETE"}, received : Nat, linked : BOOLEAN]
           /\ session.received \in Nat
           /\ file \in Seq(1..Total) /\ Len(file) \in Nat
           /\ versions \subseteq 1..MaxAssetVersion
           /\ \A c \in Call : /\ assetPc[c] \in AssetStage /\ assetJob[c] \in AssetJob
                              /\ assetJob[c].chunk \in 0..Total /\ assetJob[c].size \in Nat
                              /\ assetJob[c].target \in 0..MaxAssetVersion
                              /\ assetJob[c].next \in 0..MaxAssetVersion
  BY DEF A!TypeOK, AssetJob, AssetStage

LEMMA AssetBounds == Total \in Nat \ {0} /\ MaxAssetVersion \in Nat \ {0}
  BY AssetsAssumption DEF A!StudioAssetsAssumption

LEMMA NewAssetJob ==
    /\ A!NoJob \in AssetJob
    /\ \A k \in 0..Total : [A!NoJob EXCEPT !.chunk = k] \in AssetJob
    /\ \A n, m \in 0..MaxAssetVersion : [A!NoJob EXCEPT !.target = n, !.next = m] \in AssetJob
  <1>1. A!NoJob \in AssetJob
    BY AssetBounds DEF A!NoJob, AssetJob
  <1>2. \A j \in AssetJob : \A k \in 0..Total : [j EXCEPT !.chunk = k] \in AssetJob
    BY DEF AssetJob
  <1>3. \A j \in AssetJob : \A n, m \in 0..MaxAssetVersion : [j EXCEPT !.target = n, !.next = m] \in AssetJob
    BY DEF AssetJob
  <1> QED
    BY <1>1, <1>2, <1>3

\* What is to be shown of a step, for the calls one by one.
LEMMA AssetJobOn ==
    ASSUME \A c \in Call : /\ assetPc'[c] = "appending" => assetJob'[c].chunk # 0
                           /\ RollsBack(c)' => assetJob'[c].next - 1 \in versions'
                           /\ assetPc'[c] = "pointing" => assetJob'[c].next \in versions',
           ~session'.linked, session'.status # "COMPLETE",
           versions' = 1..Newest', Newest' \in Nat
    PROVE  AssetJobInv'
  BY DEF AssetJobInv

LEMMA VersionCount ==
    ASSUME NEW n \in Nat
    PROVE  /\ Cardinality(1..n) = n
           /\ A!Cardinality(1..n) = n
           /\ n # 0 => A!Max(1..n) = n
  <1>1. Cardinality(1..n) = n
    <2>1. Cardinality(1..n) = IF 1 > n THEN 0 ELSE n - 1 + 1
      BY FS_Interval
    <2> QED
      BY <2>1
  <1>2. A!Cardinality(1..n) = Cardinality(1..n)
    BY DEF A!Cardinality, Cardinality
  <1>3. ASSUME n # 0 PROVE A!Max(1..n) = n
    <2>1. n \in 1..n /\ \A y \in 1..n : n >= y
      BY <1>3
    <2>2. \A x \in 1..n : (\A y \in 1..n : x >= y) => x = n
      BY <2>1
    <2> QED
      BY <2>1, <2>2 DEF A!Max
  <1> QED
    BY <1>1, <1>2, <1>3

\* The next number makes the versions one more.
LEMMA NextVersion ==
    ASSUME AssetJobInv
    PROVE  /\ versions' = versions \cup {Newest + 1} => versions' = 1..Newest' /\ Newest' = Newest + 1
           /\ versions' = versions => versions' = 1..Newest' /\ Newest' = Newest
           /\ versions = {} <=> Newest = 0
           /\ \A n \in versions : n \in Nat /\ 1 <= n /\ n <= Newest
  <1>1. versions = 1..Newest /\ Newest \in Nat
    BY DEF AssetJobInv
  <1>2. ASSUME versions' = versions \cup {Newest + 1} PROVE versions' = 1..Newest' /\ Newest' = Newest + 1
    <2>1. versions' = 1..(Newest + 1)
      BY <1>1, <1>2
    <2>2. Cardinality(1..(Newest + 1)) = Newest + 1
      BY <1>1, VersionCount
    <2>3. Newest' = Newest + 1
      BY <2>1, <2>2 DEF Newest
    <2> QED
      BY <2>1, <2>3
  <1>3. versions' = versions => Newest' = Newest
    BY DEF Newest
  <1> HIDE DEF Newest
  <1> QED
    BY <1>1, <1>2, <1>3
-----------------------------------------------------------------------------
(* An asset: each operation keeps the invariant *)

LEMMA FindSessionAsset ==
    ASSUME AssetInv, NEW c \in Call, NEW k \in 1..Total, A!FindSession(c, k)
    PROVE  AssetInv'
  <1> USE DEF AssetInv
  <1> DEFINE stage == "appending"
             work == [A!NoJob EXCEPT !.chunk = k]
  <1>0. /\ k \in 0..Total /\ k # 0 /\ k - 1 = session.received
        /\ torn' = (torn \/ \E d \in Call \ {c} : Appends(d))
    BY AssetBounds DEF A!FindSession, A!Others, A!Busy, Appends
  <1>a. k = session.received + 1
    BY <1>0, AssetRows
  <1>1. /\ assetPc[c] = "idle" /\ session.status = "OPEN" /\ k = session.received + 1
        /\ torn' \in BOOLEAN /\ (torn => torn') /\ (~torn' => \A d \in Call \ {c} : ~Appends(d))
        /\ asset' = asset /\ versions' = versions /\ session' = session /\ file' = file /\ askew' = askew
    BY AssetRows, <1>0, <1>a DEF A!FindSession
  <1>2. work \in AssetJob /\ stage \in AssetStage
    BY <1>1, <1>0, AssetRows, AssetBounds, NewAssetJob DEF AssetStage
  <1>3. work.chunk = k
    BY <1>1, AssetRows DEF A!NoJob, AssetJob
  <1>4. A!Goto(c, stage, work)
    BY <1>1 DEF A!FindSession, A!End
  <1> HIDE DEF work
  <1>5. /\ assetPc'[c] = stage /\ assetJob'[c] = work
        /\ \A d \in Call : d # c => assetPc'[d] = assetPc[d] /\ assetJob'[d] = assetJob[d]
        /\ assetPc' \in [Call -> AssetStage] /\ assetJob' \in [Call -> AssetJob]
    BY <1>2, <1>4, AssetMoves
  <1>6. A!TypeOK'
    BY <1>1, <1>5, AssetRows DEF A!TypeOK, AssetStage, AssetJob
  <1>7. AssetJobInv'
    <2>1. versions' = 1..Newest' /\ Newest' \in Nat /\ versions \subseteq versions'
      BY <1>1, NextVersion DEF AssetJobInv
    <2>2. ~session'.linked /\ session'.status # "COMPLETE"
      BY <1>1 DEF AssetJobInv
    <2>3. ASSUME NEW d \in Call, d # c
          PROVE  /\ assetPc'[d] = "appending" => assetJob'[d].chunk # 0
                 /\ RollsBack(d)' => assetJob'[d].next - 1 \in versions'
                 /\ assetPc'[d] = "pointing" => assetJob'[d].next \in versions'
      BY <1>5, <2>1, <2>3 DEF AssetJobInv, RollsBack
    <2>4. /\ assetPc'[c] = "appending" => assetJob'[c].chunk # 0
          /\ RollsBack(c)' => assetJob'[c].next - 1 \in versions'
          /\ assetPc'[c] = "pointing" => assetJob'[c].next \in versions'
      BY <1>1, <1>0, <1>3, <1>5, AssetRows DEF RollsBack
    <2> QED
      BY <2>1, <2>2, <2>3, <2>4, AssetJobOn
  <1>8. OneAppends'
    BY <1>1, <1>3, <1>5, AssetRows DEF OneAppends, Appends
  <1>9. OneRollsBack'
    BY <1>1, <1>3, <1>5, AssetRows, NextVersion DEF OneRollsBack, RollsBack, AssetJobInv
  <1> QED
    BY <1>6, <1>7, <1>8, <1>9

LEMMA AppendFileAsset ==
    ASSUME AssetInv, NEW c \in Call, A!AppendFile(c)
    PROVE  AssetInv'
  <1> USE DEF AssetInv
  <1> DEFINE stage == "noting"
             work == [assetJob[c] EXCEPT !.size = Len(file')]
  <1>1. /\ assetPc[c] = "appending" /\ assetJob[c].chunk \in 1..Total
        /\ file' \in Seq(1..Total) /\ Len(file') = Len(file) + 1 /\ Len(file') \in Nat
        /\ file'[Len(file) + 1] = assetJob[c].chunk
        /\ \A i \in DOMAIN file : file'[i] = file[i]
        /\ asset' = asset /\ versions' = versions /\ session' = session /\ torn' = torn /\ askew' = askew
    BY AssetRows DEF A!AppendFile, AssetJobInv
  <1>2. work \in AssetJob /\ stage \in AssetStage
    BY <1>1, AssetRows, AssetBounds, NewAssetJob DEF AssetStage, AssetJob
  <1>3. work.size = Len(file')
    BY <1>1, AssetRows DEF A!NoJob, AssetJob
  <1>4. A!Goto(c, stage, work)
    BY <1>1 DEF A!AppendFile, A!End
  <1> HIDE DEF work
  <1>5. /\ assetPc'[c] = stage /\ assetJob'[c] = work
        /\ \A d \in Call : d # c => assetPc'[d] = assetPc[d] /\ assetJob'[d] = assetJob[d]
        /\ assetPc' \in [Call -> AssetStage] /\ assetJob' \in [Call -> AssetJob]
    BY <1>2, <1>4, AssetMoves
  <1>6. A!TypeOK'
    BY <1>1, <1>5, AssetRows DEF A!TypeOK, AssetStage, AssetJob
  <1>7. AssetJobInv'
    BY <1>1, <1>3, <1>5, AssetRows, NextVersion DEF AssetJobInv, RollsBack
  <1>8. OneAppends'
    <2> SUFFICES ASSUME ~torn, session.status = "OPEN" PROVE OneAppends'
      BY <1>1 DEF OneAppends
    <2>1. /\ file = [i \in DOMAIN file |-> i]
          /\ \A d \in Call : d # c => ~Appends(d)
          /\ assetJob[c].chunk = session.received + 1
          /\ session.received = Len(file)
      BY <1>1 DEF OneAppends, Appends
    <2>2. \A i \in DOMAIN file' : file'[i] = i
      <3>1. DOMAIN file' = 1..(Len(file) + 1) /\ DOMAIN file = 1..Len(file)
        BY <1>1, AssetRows
      <3>2. \A i \in DOMAIN file : file[i] = i
        BY <2>1
      <3> QED
        BY <1>1, <2>1, <3>1, <3>2, AssetRows
    <2>3. file' = [i \in DOMAIN file' |-> i]
      BY <1>1, <2>2
    <2>4. \A d, e \in Call : Appends(d)' /\ Appends(e)' => d = e
      BY <1>5, <2>1 DEF Appends
    <2>5. \A d \in Call : /\ assetPc'[d] = "appending" => FALSE
                         /\ assetPc'[d] = "noting" => d = c /\ assetJob'[d].size = Len(file')
      BY <1>3, <1>5, <2>1 DEF Appends
    <2> QED
      BY <1>1, <1>5, <2>3, <2>4, <2>5 DEF OneAppends
  <1>9. OneRollsBack'
    BY <1>1, <1>3, <1>5, AssetRows, NextVersion DEF OneRollsBack, RollsBack, AssetJobInv
  <1> QED
    BY <1>6, <1>7, <1>8, <1>9

LEMMA UpdateProgressAsset ==
    ASSUME AssetInv, NEW c \in Call, A!UpdateProgress(c)
    PROVE  AssetInv'
  <1> USE DEF AssetInv
  <1> DEFINE stage == "idle"
             work == A!NoJob
  <1>1. /\ assetPc[c] = "noting"
        /\ session' \in [status : {"none", "OPEN", "COMPLETE"}, received : Nat, linked : BOOLEAN]
        /\ session'.status = session.status /\ session'.linked = session.linked
        /\ session'.received = assetJob[c].size
        /\ asset' = asset /\ versions' = versions /\ file' = file /\ torn' = torn /\ askew' = askew
    BY AssetRows DEF A!UpdateProgress
  <1>2. work \in AssetJob /\ stage \in AssetStage
    BY <1>1, AssetRows, AssetBounds, NewAssetJob DEF AssetStage
  <1>4. A!Goto(c, stage, work)
    BY <1>1 DEF A!UpdateProgress, A!End
  <1> HIDE DEF work
  <1>5. /\ assetPc'[c] = stage /\ assetJob'[c] = work
        /\ \A d \in Call : d # c => assetPc'[d] = assetPc[d] /\ assetJob'[d] = assetJob[d]
        /\ assetPc' \in [Call -> AssetStage] /\ assetJob' \in [Call -> AssetJob]
    BY <1>2, <1>4, AssetMoves
  <1>6. A!TypeOK'
    BY <1>1, <1>5, AssetRows DEF A!TypeOK, AssetStage, AssetJob
  <1>7. AssetJobInv'
    <2>1. versions' = 1..Newest' /\ Newest' \in Nat /\ versions \subseteq versions'
      BY <1>1, NextVersion DEF AssetJobInv
    <2>2. ~session'.linked /\ session'.status # "COMPLETE"
      BY <1>1 DEF AssetJobInv
    <2>3. ASSUME NEW d \in Call, d # c
          PROVE  /\ assetPc'[d] = "appending" => assetJob'[d].chunk # 0
                 /\ RollsBack(d)' => assetJob'[d].next - 1 \in versions'
                 /\ assetPc'[d] = "pointing" => assetJob'[d].next \in versions'
      BY <1>5, <2>1, <2>3 DEF AssetJobInv, RollsBack
    <2>4. /\ assetPc'[c] = "appending" => assetJob'[c].chunk # 0
          /\ RollsBack(c)' => assetJob'[c].next - 1 \in versions'
          /\ assetPc'[c] = "pointing" => assetJob'[c].next \in versions'
      BY <1>1, <1>5, AssetRows DEF RollsBack
    <2> QED
      BY <2>1, <2>2, <2>3, <2>4, AssetJobOn
  <1>8. OneAppends'
    BY <1>1, <1>5, AssetRows DEF OneAppends, Appends
  <1>9. OneRollsBack'
    BY <1>1, <1>5, AssetRows, NextVersion DEF OneRollsBack, RollsBack, AssetJobInv
  <1> QED
    BY <1>6, <1>7, <1>8, <1>9

LEMMA MarkReadyAsset ==
    ASSUME AssetInv, NEW c \in Call, A!MarkReady(c)
    PROVE  AssetInv'
  <1> USE DEF AssetInv
  <1> DEFINE stage == "versioning"
             work == A!NoJob
  <1>1. /\ assetPc[c] = "idle" /\ ~asset.deleted
        /\ asset' \in [status : {"UPLOADING", "READY"}, deleted : BOOLEAN, current : 1..MaxAssetVersion]
        /\ asset'.current = asset.current /\ asset'.deleted = asset.deleted
        /\ versions' = versions /\ session' = session /\ file' = file /\ torn' = torn /\ askew' = askew
    BY AssetRows DEF A!MarkReady
  <1>2. work \in AssetJob /\ stage \in AssetStage
    BY <1>1, AssetRows, AssetBounds, NewAssetJob DEF AssetStage
  <1>4. A!Goto(c, stage, work)
    BY <1>1 DEF A!MarkReady, A!End
  <1> HIDE DEF work
  <1>5. /\ assetPc'[c] = stage /\ assetJob'[c] = work
        /\ \A d \in Call : d # c => assetPc'[d] = assetPc[d] /\ assetJob'[d] = assetJob[d]
        /\ assetPc' \in [Call -> AssetStage] /\ assetJob' \in [Call -> AssetJob]
    BY <1>2, <1>4, AssetMoves
  <1>6. A!TypeOK'
    BY <1>1, <1>5, AssetRows DEF A!TypeOK, AssetStage, AssetJob
  <1>7. AssetJobInv'
    <2>1. versions' = 1..Newest' /\ Newest' \in Nat /\ versions \subseteq versions'
      BY <1>1, NextVersion DEF AssetJobInv
    <2>2. ~session'.linked /\ session'.status # "COMPLETE"
      BY <1>1 DEF AssetJobInv
    <2>3. ASSUME NEW d \in Call, d # c
          PROVE  /\ assetPc'[d] = "appending" => assetJob'[d].chunk # 0
                 /\ RollsBack(d)' => assetJob'[d].next - 1 \in versions'
                 /\ assetPc'[d] = "pointing" => assetJob'[d].next \in versions'
      BY <1>5, <2>1, <2>3 DEF AssetJobInv, RollsBack
    <2>4. /\ assetPc'[c] = "appending" => assetJob'[c].chunk # 0
          /\ RollsBack(c)' => assetJob'[c].next - 1 \in versions'
          /\ assetPc'[c] = "pointing" => assetJob'[c].next \in versions'
      BY <1>1, <1>5, AssetRows DEF RollsBack
    <2> QED
      BY <2>1, <2>2, <2>3, <2>4, AssetJobOn
  <1>8. OneAppends'
    BY <1>1, <1>5, AssetRows DEF OneAppends, Appends
  <1>9. OneRollsBack'
    BY <1>1, <1>5, AssetRows, NextVersion DEF OneRollsBack, RollsBack, AssetJobInv
  <1> QED
    BY <1>6, <1>7, <1>8, <1>9

LEMMA CreateFirstAsset ==
    ASSUME AssetInv, NEW c \in Call, A!CreateFirst(c)
    PROVE  AssetInv'
  <1> USE DEF AssetInv
  <1> DEFINE stage == "idle"
             work == A!NoJob
  <1>1. /\ assetPc[c] = "versioning" /\ versions' = versions \cup {1} /\ 1 \in 1..MaxAssetVersion
        /\ asset' = asset /\ session' = session /\ file' = file /\ torn' = torn /\ askew' = askew
    BY AssetRows, AssetBounds DEF A!CreateFirst
  <1>2. work \in AssetJob /\ stage \in AssetStage
    BY <1>1, AssetRows, AssetBounds, NewAssetJob DEF AssetStage
  <1>4. A!Goto(c, stage, work)
    BY <1>1 DEF A!CreateFirst, A!End
  <1> HIDE DEF work
  <1>5. /\ assetPc'[c] = stage /\ assetJob'[c] = work
        /\ \A d \in Call : d # c => assetPc'[d] = assetPc[d] /\ assetJob'[d] = assetJob[d]
        /\ assetPc' \in [Call -> AssetStage] /\ assetJob' \in [Call -> AssetJob]
    BY <1>2, <1>4, AssetMoves
  <1>6. A!TypeOK'
    BY <1>1, <1>5, AssetRows DEF A!TypeOK, AssetStage, AssetJob
  <1>n. \/ versions = {} /\ Newest = 0 /\ versions' = versions \cup {Newest + 1}
        \/ versions # {} /\ versions' = versions
    BY <1>1, NextVersion DEF AssetJobInv
  <1>m. /\ versions' = 1..Newest' /\ versions' # {}
        /\ \/ versions = {} /\ Newest = 0 /\ Newest' = 1
           \/ versions # {} /\ versions' = versions /\ Newest' = Newest
    <2>1. CASE versions = {} /\ Newest = 0 /\ versions' = versions \cup {Newest + 1}
      BY <2>1, NextVersion
    <2>2. CASE versions # {} /\ versions' = versions
      BY <2>2, NextVersion
    <2> QED
      BY <1>n, <2>1, <2>2
  <1>7. AssetJobInv'
    <2>1. versions' = 1..Newest' /\ Newest' \in Nat /\ versions \subseteq versions'
      BY <1>1, <1>m, NextVersion DEF AssetJobInv
    <2>2. ~session'.linked /\ session'.status # "COMPLETE"
      BY <1>1 DEF AssetJobInv
    <2>3. ASSUME NEW d \in Call, d # c
          PROVE  /\ assetPc'[d] = "appending" => assetJob'[d].chunk # 0
                 /\ RollsBack(d)' => assetJob'[d].next - 1 \in versions'
                 /\ assetPc'[d] = "pointing" => assetJob'[d].next \in versions'
      BY <1>5, <2>1, <2>3 DEF AssetJobInv, RollsBack
    <2>4. /\ assetPc'[c] = "appending" => assetJob'[c].chunk # 0
          /\ RollsBack(c)' => assetJob'[c].next - 1 \in versions'
          /\ assetPc'[c] = "pointing" => assetJob'[c].next \in versions'
      BY <1>1, <1>m, <1>5, AssetRows DEF RollsBack
    <2> QED
      BY <2>1, <2>2, <2>3, <2>4, AssetJobOn
  <1>8. OneAppends'
    BY <1>1, <1>5, AssetRows DEF OneAppends, Appends
  <1>9. OneRollsBack'
    BY <1>1, <1>m, <1>5, AssetRows, NextVersion DEF OneRollsBack, RollsBack, AssetJobInv
  <1> QED
    BY <1>6, <1>7, <1>8, <1>9

LEMMA ReadVersionsAsset ==
    ASSUME AssetInv, NEW c \in Call, NEW n \in 1..MaxAssetVersion, A!ReadVersions(c, n)
    PROVE  AssetInv'
  <1> USE DEF AssetInv
  <1> DEFINE stage == "creating"
             work == [A!NoJob EXCEPT !.target = n, !.next = Newest + 1]
  <1>0. /\ versions # {} /\ Newest \in Nat \ {0} /\ Newest \in versions
        /\ A!Max(versions) = Newest
    <2>1. n \in versions /\ versions = 1..Newest /\ Newest \in Nat
      BY DEF A!ReadVersions, AssetJobInv
    <2> QED
      BY <2>1, VersionCount
  <1>a. askew' = (askew \/ \E d \in Call \ {c} : RollsBack(d))
    BY DEF A!ReadVersions, A!Others, A!Busy, RollsBack
  <1>b. Newest + 1 \in 1..MaxAssetVersion /\ n \in 0..MaxAssetVersion /\ Newest + 1 \in 0..MaxAssetVersion
    BY <1>0, AssetBounds DEF A!ReadVersions
  <1>1. /\ assetPc[c] = "idle" /\ versions # {} /\ Newest \in Nat \ {0} /\ Newest + 1 \in 1..MaxAssetVersion
        /\ Newest \in versions /\ A!Max(versions) = Newest
        /\ askew' \in BOOLEAN /\ (askew => askew') /\ (~askew' => \A d \in Call \ {c} : ~RollsBack(d))
        /\ asset' = asset /\ versions' = versions /\ session' = session /\ file' = file /\ torn' = torn
    BY AssetRows, <1>0, <1>a, <1>b DEF A!ReadVersions
  <1>2. work \in AssetJob /\ stage \in AssetStage
    BY <1>1, <1>b, AssetRows, AssetBounds, NewAssetJob DEF AssetStage
  <1>3. work.next = Newest + 1
    BY <1>1, AssetRows DEF A!NoJob, AssetJob
  <1>4. A!Goto(c, stage, work)
    BY <1>1 DEF A!ReadVersions, A!End
  <1> HIDE DEF work
  <1>5. /\ assetPc'[c] = stage /\ assetJob'[c] = work
        /\ \A d \in Call : d # c => assetPc'[d] = assetPc[d] /\ assetJob'[d] = assetJob[d]
        /\ assetPc' \in [Call -> AssetStage] /\ assetJob' \in [Call -> AssetJob]
    BY <1>2, <1>4, AssetMoves
  <1>6. A!TypeOK'
    BY <1>1, <1>5, AssetRows DEF A!TypeOK, AssetStage, AssetJob
  <1>7. AssetJobInv'
    <2>1. versions' = 1..Newest' /\ Newest' \in Nat /\ versions \subseteq versions'
      BY <1>1, NextVersion DEF AssetJobInv
    <2>2. ~session'.linked /\ session'.status # "COMPLETE"
      BY <1>1 DEF AssetJobInv
    <2>3. ASSUME NEW d \in Call, d # c
          PROVE  /\ assetPc'[d] = "appending" => assetJob'[d].chunk # 0
                 /\ RollsBack(d)' => assetJob'[d].next - 1 \in versions'
                 /\ assetPc'[d] = "pointing" => assetJob'[d].next \in versions'
      BY <1>5, <2>1, <2>3 DEF AssetJobInv, RollsBack
    <2>4. /\ assetPc'[c] = "appending" => assetJob'[c].chunk # 0
          /\ RollsBack(c)' => assetJob'[c].next - 1 \in versions'
          /\ assetPc'[c] = "pointing" => assetJob'[c].next \in versions'
      BY <1>1, <1>0, <1>3, <1>5, AssetRows DEF RollsBack
    <2> QED
      BY <2>1, <2>2, <2>3, <2>4, AssetJobOn
  <1>8. OneAppends'
    BY <1>1, <1>3, <1>5, AssetRows DEF OneAppends, Appends
  <1>9. OneRollsBack'
    BY <1>1, <1>3, <1>5, AssetRows, NextVersion DEF OneRollsBack, RollsBack, AssetJobInv
  <1> QED
    BY <1>6, <1>7, <1>8, <1>9

LEMMA CreateVersionAsset ==
    ASSUME AssetInv, NEW c \in Call, A!CreateVersion(c)
    PROVE  AssetInv'
  <1> USE DEF AssetInv
  <1> DEFINE stage == IF assetJob[c].next \in versions THEN "idle" ELSE "pointing"
             work == IF assetJob[c].next \in versions THEN A!NoJob ELSE assetJob[c]
  <1>0. /\ versions = 1..Newest /\ Newest \in Nat /\ assetPc[c] = "creating"
        /\ assetJob[c].next - 1 \in versions
    BY DEF A!CreateVersion, AssetJobInv, RollsBack
  <1>1. /\ assetPc[c] = "creating" /\ assetJob[c].next - 1 \in versions
        /\ versions' = IF assetJob[c].next \in versions THEN versions ELSE versions \cup {assetJob[c].next}
        /\ assetJob[c].next \notin versions => assetJob[c].next = Newest + 1 /\ assetJob[c].next \in 1..MaxAssetVersion
        /\ asset' = asset /\ session' = session /\ file' = file /\ torn' = torn /\ askew' = askew
    BY AssetRows, <1>0 DEF A!CreateVersion, AssetJobInv, RollsBack
  <1>2. work \in AssetJob /\ stage \in AssetStage
    BY <1>1, AssetRows, AssetBounds, NewAssetJob DEF AssetStage
  <1>3. assetJob[c].next \notin versions => work = assetJob[c]
    BY <1>1, AssetRows DEF A!NoJob
  <1>4. A!Goto(c, stage, work)
    BY <1>1 DEF A!CreateVersion, A!End
  <1> HIDE DEF work
  <1>5. /\ assetPc'[c] = stage /\ assetJob'[c] = work
        /\ \A d \in Call : d # c => assetPc'[d] = assetPc[d] /\ assetJob'[d] = assetJob[d]
        /\ assetPc' \in [Call -> AssetStage] /\ assetJob' \in [Call -> AssetJob]
    BY <1>2, <1>4, AssetMoves
  <1>6. A!TypeOK'
    BY <1>1, <1>5, AssetRows DEF A!TypeOK, AssetStage, AssetJob
  <1>m. /\ versions' = 1..Newest' /\ versions \subseteq versions'
        /\ Newest' = IF assetJob[c].next \in versions THEN Newest ELSE Newest + 1
    BY <1>1, NextVersion DEF AssetJobInv
  <1>7. AssetJobInv'
    <2>1. versions' = 1..Newest' /\ Newest' \in Nat /\ versions \subseteq versions'
      BY <1>1, <1>m, NextVersion DEF AssetJobInv
    <2>2. ~session'.linked /\ session'.status # "COMPLETE"
      BY <1>1 DEF AssetJobInv
    <2>3. ASSUME NEW d \in Call, d # c
          PROVE  /\ assetPc'[d] = "appending" => assetJob'[d].chunk # 0
                 /\ RollsBack(d)' => assetJob'[d].next - 1 \in versions'
                 /\ assetPc'[d] = "pointing" => assetJob'[d].next \in versions'
      BY <1>5, <2>1, <2>3 DEF AssetJobInv, RollsBack
    <2>4. /\ assetPc'[c] = "appending" => assetJob'[c].chunk # 0
          /\ RollsBack(c)' => assetJob'[c].next - 1 \in versions'
          /\ assetPc'[c] = "pointing" => assetJob'[c].next \in versions'
      BY <1>1, <1>0, <1>m, <1>3, <1>5, AssetRows DEF RollsBack
    <2> QED
      BY <2>1, <2>2, <2>3, <2>4, AssetJobOn
  <1>8. OneAppends'
    BY <1>1, <1>3, <1>5, AssetRows DEF OneAppends, Appends
  <1>9. OneRollsBack'
    BY <1>1, <1>m, <1>3, <1>5, AssetRows, NextVersion DEF OneRollsBack, RollsBack, AssetJobInv
  <1> QED
    BY <1>6, <1>7, <1>8, <1>9

LEMMA PointAssetAsset ==
    ASSUME AssetInv, NEW c \in Call, A!PointAsset(c)
    PROVE  AssetInv'
  <1> USE DEF AssetInv
  <1> DEFINE stage == "idle"
             work == A!NoJob
  <1>1. /\ assetPc[c] = "pointing" /\ assetJob[c].next \in versions
        /\ asset' \in [status : {"UPLOADING", "READY"}, deleted : BOOLEAN, current : 1..MaxAssetVersion]
        /\ asset'.deleted = asset.deleted /\ asset'.status = asset.status
        /\ ~asset.deleted => asset'.current = assetJob[c].next
        /\ versions' = versions /\ session' = session /\ file' = file /\ torn' = torn /\ askew' = askew
    BY AssetRows DEF A!PointAsset, AssetJobInv
  <1>2. work \in AssetJob /\ stage \in AssetStage
    BY <1>1, AssetRows, AssetBounds, NewAssetJob DEF AssetStage
  <1>4. A!Goto(c, stage, work)
    BY <1>1 DEF A!PointAsset, A!End
  <1> HIDE DEF work
  <1>5. /\ assetPc'[c] = stage /\ assetJob'[c] = work
        /\ \A d \in Call : d # c => assetPc'[d] = assetPc[d] /\ assetJob'[d] = assetJob[d]
        /\ assetPc' \in [Call -> AssetStage] /\ assetJob' \in [Call -> AssetJob]
    BY <1>2, <1>4, AssetMoves
  <1>6. A!TypeOK'
    BY <1>1, <1>5, AssetRows DEF A!TypeOK, AssetStage, AssetJob
  <1>7. AssetJobInv'
    <2>1. versions' = 1..Newest' /\ Newest' \in Nat /\ versions \subseteq versions'
      BY <1>1, NextVersion DEF AssetJobInv
    <2>2. ~session'.linked /\ session'.status # "COMPLETE"
      BY <1>1 DEF AssetJobInv
    <2>3. ASSUME NEW d \in Call, d # c
          PROVE  /\ assetPc'[d] = "appending" => assetJob'[d].chunk # 0
                 /\ RollsBack(d)' => assetJob'[d].next - 1 \in versions'
                 /\ assetPc'[d] = "pointing" => assetJob'[d].next \in versions'
      BY <1>5, <2>1, <2>3 DEF AssetJobInv, RollsBack
    <2>4. /\ assetPc'[c] = "appending" => assetJob'[c].chunk # 0
          /\ RollsBack(c)' => assetJob'[c].next - 1 \in versions'
          /\ assetPc'[c] = "pointing" => assetJob'[c].next \in versions'
      BY <1>1, <1>5, AssetRows DEF RollsBack
    <2> QED
      BY <2>1, <2>2, <2>3, <2>4, AssetJobOn
  <1>8. OneAppends'
    BY <1>1, <1>5, AssetRows DEF OneAppends, Appends
  <1>9. OneRollsBack'
    BY <1>1, <1>5, AssetRows, NextVersion DEF OneRollsBack, RollsBack, AssetJobInv
  <1> QED
    BY <1>6, <1>7, <1>8, <1>9

LEMMA FailAsset ==
    ASSUME AssetInv, NEW c \in Call, A!Fail(c)
    PROVE  AssetInv'
  <1> USE DEF AssetInv
  <1> DEFINE stage == "idle"
             work == A!NoJob
  <1>1. /\ torn' \in BOOLEAN /\ (torn => torn') /\ (~torn' => assetPc[c] # "noting")
        /\ askew' \in BOOLEAN /\ (askew => askew') /\ (~askew' => assetPc[c] \notin {"versioning", "pointing"})
        /\ asset' = asset /\ versions' = versions /\ session' = session /\ file' = file
    BY AssetRows DEF A!Fail
  <1>2. work \in AssetJob /\ stage \in AssetStage
    BY <1>1, AssetRows, AssetBounds, NewAssetJob DEF AssetStage
  <1>4. A!Goto(c, stage, work)
    BY <1>1 DEF A!Fail, A!End
  <1> HIDE DEF work
  <1>5. /\ assetPc'[c] = stage /\ assetJob'[c] = work
        /\ \A d \in Call : d # c => assetPc'[d] = assetPc[d] /\ assetJob'[d] = assetJob[d]
        /\ assetPc' \in [Call -> AssetStage] /\ assetJob' \in [Call -> AssetJob]
    BY <1>2, <1>4, AssetMoves
  <1>6. A!TypeOK'
    BY <1>1, <1>5, AssetRows DEF A!TypeOK, AssetStage, AssetJob
  <1>7. AssetJobInv'
    <2>1. versions' = 1..Newest' /\ Newest' \in Nat /\ versions \subseteq versions'
      BY <1>1, NextVersion DEF AssetJobInv
    <2>2. ~session'.linked /\ session'.status # "COMPLETE"
      BY <1>1 DEF AssetJobInv
    <2>3. ASSUME NEW d \in Call, d # c
          PROVE  /\ assetPc'[d] = "appending" => assetJob'[d].chunk # 0
                 /\ RollsBack(d)' => assetJob'[d].next - 1 \in versions'
                 /\ assetPc'[d] = "pointing" => assetJob'[d].next \in versions'
      BY <1>5, <2>1, <2>3 DEF AssetJobInv, RollsBack
    <2>4. /\ assetPc'[c] = "appending" => assetJob'[c].chunk # 0
          /\ RollsBack(c)' => assetJob'[c].next - 1 \in versions'
          /\ assetPc'[c] = "pointing" => assetJob'[c].next \in versions'
      BY <1>1, <1>5, AssetRows DEF RollsBack
    <2> QED
      BY <2>1, <2>2, <2>3, <2>4, AssetJobOn
  <1>8. OneAppends'
    BY <1>1, <1>5, AssetRows DEF OneAppends, Appends
  <1>9. OneRollsBack'
    BY <1>1, <1>5, AssetRows, NextVersion DEF OneRollsBack, RollsBack, AssetJobInv
  <1> QED
    BY <1>6, <1>7, <1>8, <1>9

\* completeResumableUpload is never let to: no session has its asset.
LEMMA CompleteResumableAsset ==
    ASSUME AssetInv, NEW c \in Call, A!CompleteResumable(c)
    PROVE  UNCHANGED A!vars
  BY DEF AssetInv, AssetJobInv, A!CompleteResumable, A!vars

LEMMA AssetUnchanged ==
    ASSUME AssetInv, UNCHANGED A!vars
    PROVE  AssetInv'
  <1>1. UNCHANGED <<asset, versions, session, file, torn, askew, assetPc, assetJob>>
    BY DEF A!vars
  <1>2. Newest' = Newest
    BY <1>1 DEF Newest
  <1> QED
    BY <1>1, <1>2 DEF AssetInv, A!TypeOK, AssetJobInv, OneAppends, Appends, OneRollsBack, RollsBack

LEMMA DeleteAsset ==
    ASSUME AssetInv, A!Delete
    PROVE  AssetInv'
  <1>1. /\ asset' \in [status : {"UPLOADING", "READY"}, deleted : BOOLEAN, current : 1..MaxAssetVersion]
        /\ asset'.deleted
        /\ UNCHANGED <<versions, session, file, torn, askew, assetPc, assetJob>>
    BY AssetRows DEF AssetInv, A!Delete
  <1>2. Newest' = Newest
    BY <1>1 DEF Newest
  <1>3. A!TypeOK' /\ AssetJobInv'
    BY <1>1, <1>2 DEF AssetInv, A!TypeOK, AssetJobInv, RollsBack
  <1>4. OneAppends'
    BY <1>1 DEF AssetInv, OneAppends, Appends
  <1>5. OneRollsBack'
    BY <1>1 DEF OneRollsBack
  <1> QED
    BY <1>3, <1>4, <1>5 DEF AssetInv

\* The invariant of an asset: a step of any call, or none, keeps it.
THEOREM AssetStep ==
    ASSUME AssetInv, [A!Next]_(A!vars)
    PROVE  AssetInv'
  <1>1. CASE A!Next
    <2>1. CASE A!Delete
      BY <2>1, DeleteAsset
    <2>2. ASSUME NEW c \in Call, NEW k \in 1..Total, A!FindSession(c, k) PROVE AssetInv'
      BY <2>2, FindSessionAsset
    <2>3. ASSUME NEW c \in Call, NEW n \in 1..MaxAssetVersion, A!ReadVersions(c, n) PROVE AssetInv'
      BY <2>3, ReadVersionsAsset
    <2>4. ASSUME NEW c \in Call, A!CompleteResumable(c) PROVE AssetInv'
      BY <2>4, CompleteResumableAsset, AssetUnchanged
    <2>5. ASSUME NEW c \in Call,
                 \/ A!AppendFile(c) \/ A!UpdateProgress(c) \/ A!MarkReady(c) \/ A!CreateFirst(c)
                 \/ A!CreateVersion(c) \/ A!PointAsset(c) \/ A!Fail(c)
          PROVE  AssetInv'
      BY <2>5, AppendFileAsset, UpdateProgressAsset, MarkReadyAsset, CreateFirstAsset, CreateVersionAsset,
         PointAssetAsset, FailAsset
    <2> QED
      BY <1>1, <2>1, <2>2, <2>3, <2>4, <2>5 DEF A!Next
  <1>2. CASE UNCHANGED A!vars
    BY <1>2, AssetUnchanged
  <1> QED
    BY <1>1, <1>2

LEMMA AssetInit == A!Init => AssetInv
  <1> SUFFICES ASSUME A!Init PROVE AssetInv
    OBVIOUS
  <1>1. versions = 1..0 /\ Newest = 0
    <2>1. versions = 1..0
      BY DEF A!Init
    <2> QED
      BY <2>1, VersionCount DEF Newest
  <1>2. A!TypeOK
    <2>1. assetJob = [c \in Call |-> A!NoJob]
      BY DEF A!Init
    <2>2. assetJob \in [Call -> AssetJob]
      <3>1. A!NoJob \in AssetJob
        BY NewAssetJob, Zenon
      <3> QED
        BY <2>1, <3>1
    <2>3. assetJob \in [Call -> [chunk : 0..Total, size : Nat, target : 0..MaxAssetVersion,
                                 next : 0..MaxAssetVersion]]
      BY <2>2 DEF AssetJob
    <2>4. asset \in [status : {"UPLOADING", "READY"}, deleted : BOOLEAN, current : 1..MaxAssetVersion]
      <3>1. 1 \in 1..MaxAssetVersion
        BY AssetBounds
      <3> QED
        BY <3>1 DEF A!Init
    <2>7. versions \subseteq 1..MaxAssetVersion /\ file \in Seq(1..Total)
      BY DEF A!Init
    <2>8. session \in [status : {"none", "OPEN", "COMPLETE"}, received : Nat, linked : BOOLEAN]
      <3>1. session \in [status : {"none", "OPEN"}, received : {0}, linked : {FALSE}]
        BY Zenon DEF A!Init
      <3>2. \A L : /\ L \subseteq BOOLEAN
                  /\ session \in [status : {"none", "OPEN"}, received : {0}, linked : L]
                  => session \in [status : {"none", "OPEN", "COMPLETE"}, received : Nat, linked : BOOLEAN]
        OBVIOUS
      <3>3. {FALSE} \subseteq BOOLEAN
        OBVIOUS
      <3> QED
        BY <3>1, <3>2, <3>3, Zenon
    <2>5. torn \in BOOLEAN /\ askew \in BOOLEAN
      BY DEF A!Init
    <2>6. assetPc \in [Call -> {"idle", "appending", "noting", "versioning", "creating", "pointing"}]
      BY DEF A!Init
    <2> QED
      BY <2>3, <2>4, <2>5, <2>6, <2>7, <2>8 DEF A!TypeOK
  <1>3. AssetJobInv
    BY <1>1 DEF A!Init, AssetJobInv, RollsBack
  <1>4. OneAppends
    BY DEF A!Init, OneAppends, Appends
  <1>5. OneRollsBack
    BY <1>1 DEF A!Init, OneRollsBack, RollsBack
  <1> QED
    BY <1>2, <1>3, <1>4, <1>5 DEF AssetInv

LEMMA AssetInvSound == AssetInv => A!TypeOK /\ A!AppendedOnce /\ A!CurrentIsLatest
  <1> SUFFICES ASSUME AssetInv PROVE A!AppendedOnce /\ A!CurrentIsLatest
    BY DEF AssetInv
  <1>1. A!AppendedOnce
    BY DEF AssetInv, OneAppends, A!AppendedOnce, A!Busy
  <1>2. versions = 1..Newest /\ Newest \in Nat
    BY DEF AssetInv, AssetJobInv
  <1>3. /\ A!Cardinality(versions) = Newest
        /\ versions # {} => A!Max(versions) = Newest
    <2>1. versions # {} => Newest # 0
      BY <1>2
    <2> QED
      BY <1>2, <2>1, VersionCount
  <1>4. A!CurrentIsLatest
    BY <1>2, <1>3 DEF AssetInv, OneRollsBack, A!CurrentIsLatest, A!Busy
  <1> QED
    BY <1>1, <1>4

\* An asset: its invariant holds in every behaviour.
THEOREM AssetInvariant == A!Spec => []AssetInv
  BY AssetInit, AssetStep, PTL DEF A!Spec
-----------------------------------------------------------------------------
(* The mobile queue: what is true of a call between its awaits *)

MobileJob == [mutation : Mutation \cup {Q!None}, read : Seq(Mutation), todo : Seq(Mutation),
              remaining : Seq(Mutation), readConflicts : SUBSET Mutation,
              conflicts : SUBSET Mutation]
Elements(s) == Q!Elements(s)
Distinct(s) == \A i, j \in DOMAIN s : s[i] = s[j] => i = j
Enqueues(c) == mobilePc[c] \in {"enqueueing", "keeping"}
NewConflicts(c) == mobileJob[c].conflicts \ mobileJob[c].readConflicts
Unsaid(c) == IF mobilePc[c] = "storing" THEN NewConflicts(c) ELSE {}

\* A mutation that is being queued is in one call's hands, and nowhere else.
FreshIsNowhere ==
    /\ \A c \in Call : Enqueues(c) => mobileJob[c].mutation \in given \ kept
    /\ \A c, d \in Call :
          Enqueues(c) /\ Enqueues(d) /\ mobileJob[c].mutation = mobileJob[d].mutation => c = d

\* Everything else that is stored or held has been queued, once.
StoredWasKept ==
    /\ Elements(mutations) \cup conflicts \cup synced \cup discarded \subseteq kept
    /\ Distinct(mutations)
HeldWasKept(c) ==
    /\ Elements(mobileJob[c].read) \subseteq kept /\ Distinct(mobileJob[c].read)
    /\ mobileJob[c].readConflicts \subseteq kept

\* A flush deals with each mutation it has read once: it is still to be sent, stays, was
\* sent with success, or is a conflict.
FlushDealsOnce(c) ==
    LET read == Elements(mobileJob[c].read)
        todo == Elements(mobileJob[c].todo)
        remaining == Elements(mobileJob[c].remaining)
    IN  /\ mobilePc[c] \in {"listing", "sending"} =>
            /\ todo \cup remaining \subseteq read
            /\ read \subseteq todo \cup remaining \cup mobileJob[c].conflicts \cup synced
            /\ Distinct(mobileJob[c].todo) /\ Distinct(mobileJob[c].remaining)
            /\ todo \cap remaining = {}
        /\ mobilePc[c] = "listing" => mobileJob[c].conflicts = {}
        /\ mobilePc[c] = "sending" =>
            /\ NewConflicts(c) \subseteq read
            /\ NewConflicts(c) \cap (todo \cup remaining) = {}
        /\ mobilePc[c] \in {"sending", "storing"} => mobileJob[c].readConflicts \subseteq mobileJob[c].conflicts
        /\ Unsaid(c) \subseteq kept

\* A conflict that a call has read is a conflict still, was dismissed, or was overwritten.
ReadsAreKnown(c) ==
    mobilePc[c] \in {"sending", "storing", "discarding"} =>
        mobileJob[c].readConflicts \subseteq conflicts \cup discarded \cup exposed

\* Unless it was overwritten, a mutation is in one place at most: queued, a conflict,
\* dismissed, or refused in a flush that has yet to say so.
OnePlace ==
    /\ Elements(mutations) \cap conflicts \subseteq exposed
    /\ discarded \cap (Elements(mutations) \cup conflicts) \subseteq exposed
    /\ \A c \in Call : Unsaid(c) \cap (Elements(mutations) \cup conflicts \cup discarded) \subseteq exposed
    /\ \A c, d \in Call : c # d => Unsaid(c) \cap Unsaid(d) \subseteq exposed

\* ... and in one place at least.
SomePlace ==
    \A m \in kept : \/ m \in Elements(mutations) \cup conflicts \cup synced \cup discarded \cup exposed
                    \/ \E c \in Call : m \in Unsaid(c)

MobileJobInv == /\ mobileJob \in [Call -> MobileJob]
                /\ \A c \in Call : HeldWasKept(c) /\ FlushDealsOnce(c) /\ ReadsAreKnown(c)
MobileInv == /\ Q!TypeOK /\ MobileJobInv /\ StoredWasKept
             /\ FreshIsNowhere /\ OnePlace /\ SomePlace
-----------------------------------------------------------------------------
(* The mobile queue: sequences without repetition *)

LEMMA ElementsOf ==
    ASSUME NEW s \in Seq(Mutation)
    PROVE  /\ Elements(s) \subseteq Mutation
           /\ \A m \in Mutation : Append(s, m) \in Seq(Mutation)
           /\ \A m \in Mutation : Elements(Append(s, m)) = Elements(s) \cup {m}
           /\ s # <<>> => /\ Head(s) \in Mutation /\ Tail(s) \in Seq(Mutation)
                          /\ Elements(s) = {Head(s)} \cup Elements(Tail(s))
  <1>1. Elements(s) \subseteq Mutation
    BY DEF Elements, Q!Elements
  <1>2. ASSUME NEW m \in Mutation
        PROVE  Append(s, m) \in Seq(Mutation) /\ Elements(Append(s, m)) = Elements(s) \cup {m}
    <2>1. Append(s, m) \in Seq(Mutation) /\ DOMAIN Append(s, m) = 1..(Len(s) + 1) /\ DOMAIN s = 1..Len(s)
          /\ Len(s) \in Nat
      OBVIOUS
    <2>2. Append(s, m)[Len(s) + 1] = m /\ \A i \in 1..Len(s) : Append(s, m)[i] = s[i]
      OBVIOUS
    <2> QED
      BY <2>1, <2>2 DEF Elements, Q!Elements
  <1>3. ASSUME s # <<>>
        PROVE  /\ Head(s) \in Mutation /\ Tail(s) \in Seq(Mutation)
               /\ Elements(s) = {Head(s)} \cup Elements(Tail(s))
    <2>1. /\ Tail(s) \in Seq(Mutation) /\ Len(s) \in Nat \ {0} /\ DOMAIN s = 1..Len(s)
          /\ DOMAIN Tail(s) = 1..(Len(s) - 1) /\ Head(s) = s[1]
          /\ \A i \in 1..(Len(s) - 1) : Tail(s)[i] = s[i + 1]
      BY <1>3
    <2>2. \A i \in 1..Len(s) : i = 1 \/ (i - 1 \in 1..(Len(s) - 1) /\ (i - 1) + 1 = i)
      BY <2>1
    <2>3. \A i \in 1..Len(s) : s[i] = Head(s) \/ s[i] \in Elements(Tail(s))
      <3>1. ASSUME NEW i \in 1..Len(s), i # 1 PROVE s[i] \in Elements(Tail(s))
        <4>1. i - 1 \in DOMAIN Tail(s) /\ s[i] = Tail(s)[i - 1]
          BY <2>1, <2>2, <3>1
        <4> QED
          BY <4>1 DEF Elements, Q!Elements
      <3> QED
        BY <2>1, <3>1
    <2>4. \A i \in 1..(Len(s) - 1) : Tail(s)[i] \in Elements(s)
      BY <2>1 DEF Elements, Q!Elements
    <2>5. Head(s) \in Elements(s) /\ Head(s) \in Mutation
      BY <2>1 DEF Elements, Q!Elements
    <2>6. Elements(s) \subseteq {Head(s)} \cup Elements(Tail(s))
      BY <2>1, <2>3 DEF Elements, Q!Elements
    <2>7. Elements(Tail(s)) \subseteq Elements(s)
      BY <2>1, <2>4 DEF Elements, Q!Elements
    <2> QED
      BY <2>1, <2>5, <2>6, <2>7
  <1> QED
    BY <1>1, <1>2, <1>3

LEMMA NothingIn == Elements(<<>>) = {} /\ Distinct(<<>>)
  BY DEF Elements, Q!Elements, Distinct

LEMMA DistinctOf ==
    ASSUME NEW s \in Seq(Mutation), Distinct(s)
    PROVE  /\ \A m \in Mutation : m \notin Elements(s) => Distinct(Append(s, m))
           /\ s # <<>> => Distinct(Tail(s)) /\ Head(s) \notin Elements(Tail(s))
  <1>1. ASSUME NEW m \in Mutation, m \notin Elements(s) PROVE Distinct(Append(s, m))
    <2>1. DOMAIN Append(s, m) = 1..(Len(s) + 1) /\ DOMAIN s = 1..Len(s) /\ Len(s) \in Nat
      OBVIOUS
    <2>2. Append(s, m)[Len(s) + 1] = m /\ \A i \in 1..Len(s) : Append(s, m)[i] = s[i] /\ s[i] # m
      BY <1>1, <2>1 DEF Elements, Q!Elements
    <2> QED
      BY <2>1, <2>2 DEF Distinct
  <1>2. ASSUME s # <<>> PROVE Distinct(Tail(s)) /\ Head(s) \notin Elements(Tail(s))
    <2>1. /\ Len(s) \in Nat \ {0} /\ DOMAIN s = 1..Len(s)
          /\ DOMAIN Tail(s) = 1..(Len(s) - 1) /\ Head(s) = s[1]
          /\ \A i \in 1..(Len(s) - 1) : Tail(s)[i] = s[i + 1] /\ i + 1 \in 1..Len(s) /\ i + 1 # 1
      BY <1>2
    <2>2. \A i, j \in 1..(Len(s) - 1) : s[i + 1] = s[j + 1] => i = j
      BY <2>1 DEF Distinct
    <2>3. \A i \in 1..(Len(s) - 1) : s[i + 1] # s[1]
      BY <2>1 DEF Distinct
    <2> QED
      BY <2>1, <2>2, <2>3 DEF Distinct, Elements, Q!Elements
  <1> QED
    BY <1>1, <1>2
-----------------------------------------------------------------------------
(* The mobile queue: the effect of a step *)

LEMMA MobileMoves ==
    ASSUME Q!TypeOK, MobileJobInv, NEW c \in Call, NEW stage \in Q!Stage, NEW work \in MobileJob,
           Q!Goto(c, stage, work)
    PROVE  /\ mobilePc'[c] = stage /\ mobileJob'[c] = work
           /\ \A d \in Call : d # c => mobilePc'[d] = mobilePc[d] /\ mobileJob'[d] = mobileJob[d]
           /\ mobilePc' \in [Call -> Q!Stage] /\ mobileJob' \in [Call -> MobileJob]
  BY DEF Q!Goto, Q!TypeOK, MobileJobInv

LEMMA HeldMobileJob ==
    ASSUME MobileJobInv, NEW c \in Call
    PROVE  /\ mobileJob[c] \in MobileJob
           /\ mobileJob[c].mutation \in Mutation \cup {Q!None}
           /\ mobileJob[c].read \in Seq(Mutation) /\ mobileJob[c].todo \in Seq(Mutation)
           /\ mobileJob[c].remaining \in Seq(Mutation)
           /\ mobileJob[c].readConflicts \subseteq Mutation /\ mobileJob[c].conflicts \subseteq Mutation
           /\ HeldWasKept(c) /\ FlushDealsOnce(c) /\ ReadsAreKnown(c)
  BY DEF MobileJobInv, MobileJob

LEMMA NewMobileJob ==
    /\ Q!NoJob \in MobileJob
    /\ Q!NoJob.read = <<>> /\ Q!NoJob.todo = <<>> /\ Q!NoJob.remaining = <<>>
    /\ Q!NoJob.readConflicts = {} /\ Q!NoJob.conflicts = {}
  BY DEF Q!NoJob, MobileJob

\* The rows have their types, what is history grows, and a conflict does not vanish.
MobileRows ==
    /\ mutations' \in Seq(Mutation) /\ conflicts' \subseteq Mutation
    /\ given \subseteq given' /\ given' \subseteq Mutation
    /\ kept \subseteq kept' /\ kept' \subseteq given'
    /\ synced \subseteq synced' /\ discarded \subseteq discarded'
    /\ exposed \subseteq exposed' /\ exposed' \subseteq Mutation
    /\ conflicts \subseteq conflicts' \cup discarded' \cup exposed'
    /\ StoredWasKept'

OthersRest(c) ==
    \A d \in Call : d # c => mobilePc'[d] = mobilePc[d] /\ mobileJob'[d] = mobileJob[d]

\* What a call holds is as it was when the others move.
LEMMA OthersHold ==
    ASSUME MobileInv, MobileRows, NEW c \in Call, OthersRest(c),
           mobilePc' \in [Call -> Q!Stage], mobileJob' \in [Call -> MobileJob],
           HeldWasKept(c)', FlushDealsOnce(c)', ReadsAreKnown(c)'
    PROVE  Q!TypeOK' /\ MobileJobInv' /\ StoredWasKept'
  <1>1. ASSUME NEW d \in Call, d # c PROVE HeldWasKept(d)' /\ FlushDealsOnce(d)' /\ ReadsAreKnown(d)'
    <2>1. mobilePc'[d] = mobilePc[d] /\ mobileJob'[d] = mobileJob[d]
      BY <1>1 DEF OthersRest
    <2>2. HeldWasKept(d) /\ FlushDealsOnce(d) /\ ReadsAreKnown(d)
      BY DEF MobileInv, MobileJobInv
    <2>3. HeldWasKept(d)'
      BY <2>1, <2>2 DEF HeldWasKept, MobileRows
    <2>4. FlushDealsOnce(d)'
      BY <2>1, <2>2 DEF FlushDealsOnce, MobileRows, NewConflicts, Unsaid
    <2>5. ReadsAreKnown(d)'
      BY <2>1, <2>2 DEF ReadsAreKnown, MobileRows
    <2> QED
      BY <2>3, <2>4, <2>5
  <1>2. MobileJobInv'
    BY <1>1 DEF MobileJobInv
  <1>3. \A d \in Call : mobileJob'[d].mutation \in Mutation \cup {Q!None}
    BY DEF MobileJob
  <1>4. Q!TypeOK'
    BY <1>3 DEF MobileRows, StoredWasKept, Q!TypeOK
  <1> QED
    BY <1>2, <1>4 DEF MobileRows

\* A step that stores nothing, or records a success, leaves what there is where it is.
LEMMA SamePlaces ==
    ASSUME MobileInv, NEW c \in Call, OthersRest(c), Unsaid(c)' = Unsaid(c),
           UNCHANGED <<mutations, conflicts, kept, discarded, exposed>>, synced \subseteq synced'
    PROVE  OnePlace' /\ SomePlace'
  <1>1. \A d \in Call : Unsaid(d)' = Unsaid(d)
    BY DEF OthersRest, Unsaid, NewConflicts
  <1> QED
    BY <1>1 DEF MobileInv, OnePlace, SomePlace

\* A step that keeps nothing, of a call that is not queueing or goes on doing so.
LEMMA SameFresh ==
    ASSUME MobileInv, NEW c \in Call, OthersRest(c), kept' = kept, given \subseteq given',
           Enqueues(c)' => Enqueues(c) /\ mobileJob'[c].mutation = mobileJob[c].mutation
    PROVE  FreshIsNowhere'
  <1>1. \A d \in Call : Enqueues(d)' => Enqueues(d) /\ mobileJob'[d].mutation = mobileJob[d].mutation
    BY DEF OthersRest, Enqueues
  <1> QED
    BY <1>1 DEF MobileInv, FreshIsNowhere
-----------------------------------------------------------------------------
(* The mobile queue: each operation keeps the invariant *)

LEMMA UnansweredMobile ==
    ASSUME MobileInv, NEW c \in Call, NEW m \in Mutation, Q!Unanswered(c, m)
    PROVE  MobileInv'
  <1> USE DEF MobileInv
  <1> DEFINE stage == "enqueueing"
             work == [Q!NoJob EXCEPT !.mutation = m]
  <1>0. /\ mobileJob[c] \in MobileJob
        /\ mobileJob[c].read \in Seq(Mutation) /\ mobileJob[c].todo \in Seq(Mutation)
        /\ mobileJob[c].remaining \in Seq(Mutation)
        /\ mobileJob[c].readConflicts \subseteq Mutation /\ mobileJob[c].conflicts \subseteq Mutation
        /\ HeldWasKept(c) /\ FlushDealsOnce(c) /\ ReadsAreKnown(c)
        /\ mutations \in Seq(Mutation) /\ conflicts \subseteq Mutation
        /\ kept \subseteq given /\ synced \subseteq given /\ discarded \subseteq given /\ given \subseteq Mutation
        /\ exposed \subseteq Mutation
    BY HeldMobileJob DEF Q!TypeOK
  <1>1. /\ given' = given \cup {m} /\ m \notin given /\ mobilePc[c] = "idle"
        /\ mutations' = mutations /\ conflicts' = conflicts /\ kept' = kept /\ synced' = synced /\ discarded' = discarded /\ exposed' = exposed
    BY <1>0 DEF Q!Unanswered, Q!items, Q!history
  <1>2. work \in MobileJob /\ stage \in Q!Stage
    BY <1>0, <1>1, NewMobileJob DEF Q!Stage, MobileJob
  <1>3. /\ work.mutation = m /\ work.read = <<>> /\ work.readConflicts = {}
    BY <1>0, NewMobileJob DEF MobileJob
  <1>4. Q!Goto(c, stage, work)
    BY <1>1 DEF Q!Unanswered, Q!End
  <1> HIDE DEF work
  <1>5. /\ mobilePc'[c] = stage /\ mobileJob'[c] = work /\ OthersRest(c)
        /\ mobilePc' \in [Call -> Q!Stage] /\ mobileJob' \in [Call -> MobileJob]
    BY <1>2, <1>4, MobileMoves DEF OthersRest
  <1>6. MobileRows
    BY <1>0, <1>1, ElementsOf DEF MobileRows, StoredWasKept, HeldWasKept, FlushDealsOnce, Unsaid, NewConflicts
  <1>7. HeldWasKept(c)'
    BY <1>0, <1>1, <1>3, <1>5, NothingIn DEF HeldWasKept, StoredWasKept
  <1>8. FlushDealsOnce(c)'
    BY <1>0, <1>1, <1>3, <1>5, NothingIn DEF FlushDealsOnce, HeldWasKept, StoredWasKept, NewConflicts, Unsaid
  <1>9. ReadsAreKnown(c)'
    BY <1>0, <1>1, <1>3, <1>5 DEF ReadsAreKnown
  <1>10. Q!TypeOK' /\ MobileJobInv' /\ StoredWasKept'
    BY <1>5, <1>6, <1>7, <1>8, <1>9, OthersHold
  <1>11. FreshIsNowhere'
    BY <1>0, <1>1, <1>3, <1>5 DEF FreshIsNowhere, Enqueues, OthersRest
  <1>12. Unsaid(c)' = Unsaid(c)
    BY <1>1, <1>5 DEF Unsaid
  <1>13. OnePlace' /\ SomePlace'
    BY <1>1, <1>5, <1>12, SamePlaces
  <1> QED
    BY <1>10, <1>11, <1>13

LEMMA ReadForEnqueueMobile ==
    ASSUME MobileInv, NEW c \in Call, Q!ReadForEnqueue(c)
    PROVE  MobileInv'
  <1> USE DEF MobileInv
  <1> DEFINE stage == "keeping"
             work == [mobileJob[c] EXCEPT !.read = mutations]
  <1>0. /\ mobileJob[c] \in MobileJob
        /\ mobileJob[c].read \in Seq(Mutation) /\ mobileJob[c].todo \in Seq(Mutation)
        /\ mobileJob[c].remaining \in Seq(Mutation)
        /\ mobileJob[c].readConflicts \subseteq Mutation /\ mobileJob[c].conflicts \subseteq Mutation
        /\ HeldWasKept(c) /\ FlushDealsOnce(c) /\ ReadsAreKnown(c)
        /\ mutations \in Seq(Mutation) /\ conflicts \subseteq Mutation
        /\ kept \subseteq given /\ synced \subseteq given /\ discarded \subseteq given /\ given \subseteq Mutation
        /\ exposed \subseteq Mutation
    BY HeldMobileJob DEF Q!TypeOK
  <1>1. /\ mobilePc[c] = "enqueueing" /\ mutations' = mutations /\ conflicts' = conflicts /\ given' = given /\ kept' = kept /\ synced' = synced /\ discarded' = discarded /\ exposed' = exposed
    BY <1>0 DEF Q!ReadForEnqueue, Q!items, Q!history
  <1>2. work \in MobileJob /\ stage \in Q!Stage
    BY <1>0, <1>1, NewMobileJob DEF Q!Stage, MobileJob
  <1>3. /\ work.mutation = mobileJob[c].mutation /\ work.read = mutations /\ work.readConflicts = mobileJob[c].readConflicts
    BY <1>0, NewMobileJob DEF MobileJob
  <1>4. Q!Goto(c, stage, work)
    BY <1>1 DEF Q!ReadForEnqueue, Q!End
  <1> HIDE DEF work
  <1>5. /\ mobilePc'[c] = stage /\ mobileJob'[c] = work /\ OthersRest(c)
        /\ mobilePc' \in [Call -> Q!Stage] /\ mobileJob' \in [Call -> MobileJob]
    BY <1>2, <1>4, MobileMoves DEF OthersRest
  <1>6. MobileRows
    BY <1>0, <1>1, ElementsOf DEF MobileRows, StoredWasKept, HeldWasKept, FlushDealsOnce, Unsaid, NewConflicts
  <1>7. HeldWasKept(c)'
    BY <1>0, <1>1, <1>3, <1>5, NothingIn DEF HeldWasKept, StoredWasKept
  <1>8. FlushDealsOnce(c)'
    BY <1>0, <1>1, <1>3, <1>5, NothingIn DEF FlushDealsOnce, HeldWasKept, StoredWasKept, NewConflicts, Unsaid
  <1>9. ReadsAreKnown(c)'
    BY <1>0, <1>1, <1>3, <1>5 DEF ReadsAreKnown
  <1>10. Q!TypeOK' /\ MobileJobInv' /\ StoredWasKept'
    BY <1>5, <1>6, <1>7, <1>8, <1>9, OthersHold
  <1>11. FreshIsNowhere'
    BY <1>1, <1>3, <1>5, SameFresh DEF Enqueues
  <1>12. Unsaid(c)' = Unsaid(c)
    BY <1>1, <1>5 DEF Unsaid
  <1>13. OnePlace' /\ SomePlace'
    BY <1>1, <1>5, <1>12, SamePlaces
  <1> QED
    BY <1>10, <1>11, <1>13

LEMMA KeepMobile ==
    ASSUME MobileInv, NEW c \in Call, Q!Keep(c)
    PROVE  MobileInv'
  <1> USE DEF MobileInv
  <1> DEFINE stage == "idle"
             work == Q!NoJob
  <1>0. /\ mobileJob[c] \in MobileJob
        /\ mobileJob[c].read \in Seq(Mutation) /\ mobileJob[c].todo \in Seq(Mutation)
        /\ mobileJob[c].remaining \in Seq(Mutation)
        /\ mobileJob[c].readConflicts \subseteq Mutation /\ mobileJob[c].conflicts \subseteq Mutation
        /\ HeldWasKept(c) /\ FlushDealsOnce(c) /\ ReadsAreKnown(c)
        /\ mutations \in Seq(Mutation) /\ conflicts \subseteq Mutation
        /\ kept \subseteq given /\ synced \subseteq given /\ discarded \subseteq given /\ given \subseteq Mutation
        /\ exposed \subseteq Mutation
    BY HeldMobileJob DEF Q!TypeOK
  <1>h. mobileJob[c].mutation \in given \ kept
    BY DEF Q!Keep, FreshIsNowhere, Enqueues
  <1>1. /\ mobilePc[c] = "keeping" /\ mobileJob[c].mutation \in Mutation
        /\ mutations' = Append(mobileJob[c].read, mobileJob[c].mutation)
        /\ kept' = kept \cup {mobileJob[c].mutation}
        /\ exposed' = exposed \cup (Elements(mutations) \ Elements(mobileJob[c].read))
                             \cup (Elements(mobileJob[c].read) \ Elements(mutations))
        /\ conflicts' = conflicts /\ given' = given /\ synced' = synced /\ discarded' = discarded
    BY <1>0, <1>h DEF Q!Keep, Q!items, Q!history, Q!Overwrites, Elements
  <1>g. /\ mutations' \in Seq(Mutation) /\ Distinct(mutations')
        /\ Elements(mutations') = Elements(mobileJob[c].read) \cup {mobileJob[c].mutation}
    BY <1>0, <1>1, <1>h, ElementsOf, DistinctOf DEF HeldWasKept
  <1>2. work \in MobileJob /\ stage \in Q!Stage
    BY <1>0, <1>1, <1>h, <1>g, NewMobileJob DEF Q!Stage, MobileJob
  <1>3. work.read = <<>> /\ work.readConflicts = {} /\ work.conflicts = {}
    BY NewMobileJob
  <1>4. Q!Goto(c, stage, work)
    BY <1>1 DEF Q!Keep, Q!End
  <1> HIDE DEF work
  <1>5. /\ mobilePc'[c] = stage /\ mobileJob'[c] = work /\ OthersRest(c)
        /\ mobilePc' \in [Call -> Q!Stage] /\ mobileJob' \in [Call -> MobileJob]
    BY <1>2, <1>4, MobileMoves DEF OthersRest
  <1>6. MobileRows
    BY <1>0, <1>1, <1>h, <1>g, ElementsOf DEF MobileRows, StoredWasKept, HeldWasKept, FlushDealsOnce, Unsaid, NewConflicts
  <1>7. HeldWasKept(c)'
    BY <1>0, <1>1, <1>3, <1>5, NothingIn DEF HeldWasKept, StoredWasKept
  <1>8. FlushDealsOnce(c)'
    BY <1>0, <1>1, <1>3, <1>5, <1>h, <1>g, NothingIn DEF FlushDealsOnce, HeldWasKept, StoredWasKept, NewConflicts, Unsaid
  <1>9. ReadsAreKnown(c)'
    BY <1>0, <1>1, <1>3, <1>5 DEF ReadsAreKnown
  <1>10. Q!TypeOK' /\ MobileJobInv' /\ StoredWasKept'
    BY <1>5, <1>6, <1>7, <1>8, <1>9, OthersHold
  <1>11. FreshIsNowhere'
    BY <1>0, <1>1, <1>3, <1>5 DEF FreshIsNowhere, Enqueues, OthersRest
  <1>12. /\ \A d \in Call : d # c => Unsaid(d)' = Unsaid(d)
         /\ Unsaid(c)' = {}
    BY <1>1, <1>3, <1>5 DEF OthersRest, Unsaid, NewConflicts
  <1>13. OnePlace'
    <2>1. \A d \in Call : Unsaid(d) \subseteq kept
      BY DEF MobileJobInv, FlushDealsOnce
    <2>2. Elements(mutations') \subseteq Elements(mutations) \cup exposed' \cup {mobileJob[c].mutation}
      BY <1>1, <1>g
    <2>3. Elements(mutations') \cap conflicts \subseteq exposed'
      BY <1>1, <1>h, <2>2 DEF OnePlace, StoredWasKept
    <2>4. discarded \cap (Elements(mutations') \cup conflicts) \subseteq exposed'
      BY <1>1, <1>h, <2>2 DEF OnePlace, StoredWasKept
    <2>5. \A d \in Call : Unsaid(d)' \subseteq Unsaid(d)
      BY <1>12
    <2>6. \A d \in Call : Unsaid(d) \cap (Elements(mutations') \cup conflicts \cup discarded) \subseteq exposed'
      BY <1>1, <1>h, <2>1, <2>2 DEF OnePlace
    <2>7. \A d, e \in Call : d # e => Unsaid(d)' \cap Unsaid(e)' \subseteq exposed'
      BY <1>1, <2>5 DEF OnePlace
    <2> QED
      BY <1>1, <2>3, <2>4, <2>5, <2>6, <2>7 DEF OnePlace
  <1>14. SomePlace'
    BY <1>0, <1>1, <1>h, <1>g, <1>12 DEF SomePlace, FlushDealsOnce, ReadsAreKnown, NewConflicts, Unsaid
  <1> QED
    BY <1>10, <1>11, <1>13, <1>14

LEMMA ReadForDiscardMobile ==
    ASSUME MobileInv, NEW c \in Call, NEW m \in Mutation, Q!ReadForDiscard(c, m)
    PROVE  MobileInv'
  <1> USE DEF MobileInv
  <1> DEFINE stage == "discarding"
             work == [Q!NoJob EXCEPT !.mutation = m, !.readConflicts = conflicts]
  <1>0. /\ mobileJob[c] \in MobileJob
        /\ mobileJob[c].read \in Seq(Mutation) /\ mobileJob[c].todo \in Seq(Mutation)
        /\ mobileJob[c].remaining \in Seq(Mutation)
        /\ mobileJob[c].readConflicts \subseteq Mutation /\ mobileJob[c].conflicts \subseteq Mutation
        /\ HeldWasKept(c) /\ FlushDealsOnce(c) /\ ReadsAreKnown(c)
        /\ mutations \in Seq(Mutation) /\ conflicts \subseteq Mutation
        /\ kept \subseteq given /\ synced \subseteq given /\ discarded \subseteq given /\ given \subseteq Mutation
        /\ exposed \subseteq Mutation
    BY HeldMobileJob DEF Q!TypeOK
  <1>1. /\ mobilePc[c] = "idle" /\ mutations' = mutations /\ conflicts' = conflicts /\ given' = given /\ kept' = kept /\ synced' = synced /\ discarded' = discarded /\ exposed' = exposed
    BY <1>0 DEF Q!ReadForDiscard, Q!items, Q!history
  <1>2. work \in MobileJob /\ stage \in Q!Stage
    BY <1>0, <1>1, NewMobileJob DEF Q!Stage, MobileJob
  <1>3. /\ work.mutation = m /\ work.read = <<>> /\ work.readConflicts = conflicts
    BY <1>0, NewMobileJob DEF MobileJob
  <1>4. Q!Goto(c, stage, work)
    BY <1>1 DEF Q!ReadForDiscard, Q!End
  <1> HIDE DEF work
  <1>5. /\ mobilePc'[c] = stage /\ mobileJob'[c] = work /\ OthersRest(c)
        /\ mobilePc' \in [Call -> Q!Stage] /\ mobileJob' \in [Call -> MobileJob]
    BY <1>2, <1>4, MobileMoves DEF OthersRest
  <1>6. MobileRows
    BY <1>0, <1>1, ElementsOf DEF MobileRows, StoredWasKept, HeldWasKept, FlushDealsOnce, Unsaid, NewConflicts
  <1>7. HeldWasKept(c)'
    BY <1>0, <1>1, <1>3, <1>5, NothingIn DEF HeldWasKept, StoredWasKept
  <1>8. FlushDealsOnce(c)'
    BY <1>0, <1>1, <1>3, <1>5, NothingIn DEF FlushDealsOnce, HeldWasKept, StoredWasKept, NewConflicts, Unsaid
  <1>9. ReadsAreKnown(c)'
    BY <1>0, <1>1, <1>3, <1>5 DEF ReadsAreKnown
  <1>10. Q!TypeOK' /\ MobileJobInv' /\ StoredWasKept'
    BY <1>5, <1>6, <1>7, <1>8, <1>9, OthersHold
  <1>11. FreshIsNowhere'
    BY <1>1, <1>3, <1>5, SameFresh DEF Enqueues
  <1>12. Unsaid(c)' = Unsaid(c)
    BY <1>1, <1>5 DEF Unsaid
  <1>13. OnePlace' /\ SomePlace'
    BY <1>1, <1>5, <1>12, SamePlaces
  <1> QED
    BY <1>10, <1>11, <1>13

LEMMA DiscardMobile ==
    ASSUME MobileInv, NEW c \in Call, Q!Discard(c)
    PROVE  MobileInv'
  <1> USE DEF MobileInv
  <1> DEFINE stage == "idle"
             work == Q!NoJob
  <1>0. /\ mobileJob[c] \in MobileJob
        /\ mobileJob[c].read \in Seq(Mutation) /\ mobileJob[c].todo \in Seq(Mutation)
        /\ mobileJob[c].remaining \in Seq(Mutation)
        /\ mobileJob[c].readConflicts \subseteq Mutation /\ mobileJob[c].conflicts \subseteq Mutation
        /\ HeldWasKept(c) /\ FlushDealsOnce(c) /\ ReadsAreKnown(c)
        /\ mutations \in Seq(Mutation) /\ conflicts \subseteq Mutation
        /\ kept \subseteq given /\ synced \subseteq given /\ discarded \subseteq given /\ given \subseteq Mutation
        /\ exposed \subseteq Mutation
    BY HeldMobileJob DEF Q!TypeOK
  <1>1. /\ mobilePc[c] = "discarding"
        /\ conflicts' = mobileJob[c].readConflicts \ {mobileJob[c].mutation}
        /\ discarded' = discarded \cup (mobileJob[c].readConflicts \cap {mobileJob[c].mutation})
        /\ exposed' = exposed \cup (conflicts \ mobileJob[c].readConflicts)
                             \cup (mobileJob[c].readConflicts \ conflicts)
        /\ mutations' = mutations /\ given' = given /\ kept' = kept /\ synced' = synced
    BY <1>0 DEF Q!Discard, Q!items, Q!history, Q!Overwrites
  <1>2. work \in MobileJob /\ stage \in Q!Stage
    BY <1>0, <1>1, NewMobileJob DEF Q!Stage, MobileJob
  <1>3. work.read = <<>> /\ work.readConflicts = {} /\ work.conflicts = {}
    BY NewMobileJob
  <1>4. Q!Goto(c, stage, work)
    BY <1>1 DEF Q!Discard, Q!End
  <1> HIDE DEF work
  <1>5. /\ mobilePc'[c] = stage /\ mobileJob'[c] = work /\ OthersRest(c)
        /\ mobilePc' \in [Call -> Q!Stage] /\ mobileJob' \in [Call -> MobileJob]
    BY <1>2, <1>4, MobileMoves DEF OthersRest
  <1>6. MobileRows
    BY <1>0, <1>1, ElementsOf DEF MobileRows, StoredWasKept, HeldWasKept, FlushDealsOnce, Unsaid, NewConflicts
  <1>7. HeldWasKept(c)'
    BY <1>0, <1>1, <1>3, <1>5, NothingIn DEF HeldWasKept, StoredWasKept
  <1>8. FlushDealsOnce(c)'
    BY <1>0, <1>1, <1>3, <1>5, NothingIn DEF FlushDealsOnce, HeldWasKept, StoredWasKept, NewConflicts, Unsaid
  <1>9. ReadsAreKnown(c)'
    BY <1>0, <1>1, <1>3, <1>5 DEF ReadsAreKnown
  <1>10. Q!TypeOK' /\ MobileJobInv' /\ StoredWasKept'
    BY <1>5, <1>6, <1>7, <1>8, <1>9, OthersHold
  <1>11. FreshIsNowhere'
    BY <1>1, <1>3, <1>5, SameFresh DEF Enqueues
  <1>12. /\ \A d \in Call : d # c => Unsaid(d)' = Unsaid(d)
         /\ Unsaid(c)' = {}
    BY <1>1, <1>3, <1>5 DEF OthersRest, Unsaid, NewConflicts
  <1>13. OnePlace'
    BY <1>0, <1>1, <1>12 DEF OnePlace, HeldWasKept, FlushDealsOnce, StoredWasKept, NewConflicts, Unsaid
  <1>14. SomePlace'
    BY <1>0, <1>1, <1>12 DEF SomePlace, FlushDealsOnce, ReadsAreKnown, NewConflicts, Unsaid
  <1> QED
    BY <1>10, <1>11, <1>13, <1>14

LEMMA ReadQueueMobile ==
    ASSUME MobileInv, NEW c \in Call, Q!ReadQueue(c)
    PROVE  MobileInv'
  <1> USE DEF MobileInv
  <1> DEFINE stage == "listing"
             work == [Q!NoJob EXCEPT !.read = mutations, !.todo = mutations]
  <1>0. /\ mobileJob[c] \in MobileJob
        /\ mobileJob[c].read \in Seq(Mutation) /\ mobileJob[c].todo \in Seq(Mutation)
        /\ mobileJob[c].remaining \in Seq(Mutation)
        /\ mobileJob[c].readConflicts \subseteq Mutation /\ mobileJob[c].conflicts \subseteq Mutation
        /\ HeldWasKept(c) /\ FlushDealsOnce(c) /\ ReadsAreKnown(c)
        /\ mutations \in Seq(Mutation) /\ conflicts \subseteq Mutation
        /\ kept \subseteq given /\ synced \subseteq given /\ discarded \subseteq given /\ given \subseteq Mutation
        /\ exposed \subseteq Mutation
    BY HeldMobileJob DEF Q!TypeOK
  <1>1. /\ mobilePc[c] = "idle" /\ mutations' = mutations /\ conflicts' = conflicts /\ given' = given /\ kept' = kept /\ synced' = synced /\ discarded' = discarded /\ exposed' = exposed
    BY <1>0 DEF Q!ReadQueue, Q!items, Q!history
  <1>2. work \in MobileJob /\ stage \in Q!Stage
    BY <1>0, <1>1, NewMobileJob DEF Q!Stage, MobileJob
  <1>3. /\ work.read = mutations /\ work.todo = mutations /\ work.remaining = <<>> /\ work.readConflicts = {} /\ work.conflicts = {}
    BY <1>0, NewMobileJob DEF MobileJob
  <1>4. Q!Goto(c, stage, work)
    BY <1>1 DEF Q!ReadQueue, Q!End
  <1> HIDE DEF work
  <1>5. /\ mobilePc'[c] = stage /\ mobileJob'[c] = work /\ OthersRest(c)
        /\ mobilePc' \in [Call -> Q!Stage] /\ mobileJob' \in [Call -> MobileJob]
    BY <1>2, <1>4, MobileMoves DEF OthersRest
  <1>6. MobileRows
    BY <1>0, <1>1, ElementsOf DEF MobileRows, StoredWasKept, HeldWasKept, FlushDealsOnce, Unsaid, NewConflicts
  <1>7. HeldWasKept(c)'
    BY <1>0, <1>1, <1>3, <1>5, NothingIn DEF HeldWasKept, StoredWasKept
  <1>8. FlushDealsOnce(c)'
    BY <1>0, <1>1, <1>3, <1>5, NothingIn DEF FlushDealsOnce, HeldWasKept, StoredWasKept, NewConflicts, Unsaid
  <1>9. ReadsAreKnown(c)'
    BY <1>0, <1>1, <1>3, <1>5 DEF ReadsAreKnown
  <1>10. Q!TypeOK' /\ MobileJobInv' /\ StoredWasKept'
    BY <1>5, <1>6, <1>7, <1>8, <1>9, OthersHold
  <1>11. FreshIsNowhere'
    BY <1>1, <1>3, <1>5, SameFresh DEF Enqueues
  <1>12. Unsaid(c)' = Unsaid(c)
    BY <1>1, <1>5 DEF Unsaid
  <1>13. OnePlace' /\ SomePlace'
    BY <1>1, <1>5, <1>12, SamePlaces
  <1> QED
    BY <1>10, <1>11, <1>13

LEMMA ReadConflictsMobile ==
    ASSUME MobileInv, NEW c \in Call, Q!ReadConflicts(c)
    PROVE  MobileInv'
  <1> USE DEF MobileInv
  <1> DEFINE stage == "sending"
             work == [mobileJob[c] EXCEPT !.readConflicts = conflicts, !.conflicts = conflicts]
  <1>0. /\ mobileJob[c] \in MobileJob
        /\ mobileJob[c].read \in Seq(Mutation) /\ mobileJob[c].todo \in Seq(Mutation)
        /\ mobileJob[c].remaining \in Seq(Mutation)
        /\ mobileJob[c].readConflicts \subseteq Mutation /\ mobileJob[c].conflicts \subseteq Mutation
        /\ HeldWasKept(c) /\ FlushDealsOnce(c) /\ ReadsAreKnown(c)
        /\ mutations \in Seq(Mutation) /\ conflicts \subseteq Mutation
        /\ kept \subseteq given /\ synced \subseteq given /\ discarded \subseteq given /\ given \subseteq Mutation
        /\ exposed \subseteq Mutation
    BY HeldMobileJob DEF Q!TypeOK
  <1>1. /\ mobilePc[c] = "listing" /\ mutations' = mutations /\ conflicts' = conflicts /\ given' = given /\ kept' = kept /\ synced' = synced /\ discarded' = discarded /\ exposed' = exposed
    BY <1>0 DEF Q!ReadConflicts, Q!items, Q!history
  <1>2. work \in MobileJob /\ stage \in Q!Stage
    BY <1>0, <1>1, NewMobileJob DEF Q!Stage, MobileJob
  <1>3. /\ work.read = mobileJob[c].read /\ work.todo = mobileJob[c].todo /\ work.remaining = mobileJob[c].remaining /\ work.readConflicts = conflicts /\ work.conflicts = conflicts
    BY <1>0, NewMobileJob DEF MobileJob
  <1>4. Q!Goto(c, stage, work)
    BY <1>1 DEF Q!ReadConflicts, Q!End
  <1> HIDE DEF work
  <1>5. /\ mobilePc'[c] = stage /\ mobileJob'[c] = work /\ OthersRest(c)
        /\ mobilePc' \in [Call -> Q!Stage] /\ mobileJob' \in [Call -> MobileJob]
    BY <1>2, <1>4, MobileMoves DEF OthersRest
  <1>6. MobileRows
    BY <1>0, <1>1, ElementsOf DEF MobileRows, StoredWasKept, HeldWasKept, FlushDealsOnce, Unsaid, NewConflicts
  <1>7. HeldWasKept(c)'
    BY <1>0, <1>1, <1>3, <1>5, NothingIn DEF HeldWasKept, StoredWasKept
  <1>8. FlushDealsOnce(c)'
    BY <1>0, <1>1, <1>3, <1>5, NothingIn DEF FlushDealsOnce, HeldWasKept, StoredWasKept, NewConflicts, Unsaid
  <1>9. ReadsAreKnown(c)'
    BY <1>0, <1>1, <1>3, <1>5 DEF ReadsAreKnown
  <1>10. Q!TypeOK' /\ MobileJobInv' /\ StoredWasKept'
    BY <1>5, <1>6, <1>7, <1>8, <1>9, OthersHold
  <1>11. FreshIsNowhere'
    BY <1>1, <1>3, <1>5, SameFresh DEF Enqueues
  <1>12. Unsaid(c)' = Unsaid(c)
    BY <1>1, <1>5 DEF Unsaid
  <1>13. OnePlace' /\ SomePlace'
    BY <1>1, <1>5, <1>12, SamePlaces
  <1> QED
    BY <1>10, <1>11, <1>13

LEMMA SendSucceedsMobile ==
    ASSUME MobileInv, NEW c \in Call, Q!SendSucceeds(c)
    PROVE  MobileInv'
  <1> USE DEF MobileInv
  <1> DEFINE stage == "sending"
             work == [mobileJob[c] EXCEPT !.todo = Tail(@)]
  <1>0. /\ mobileJob[c] \in MobileJob
        /\ mobileJob[c].read \in Seq(Mutation) /\ mobileJob[c].todo \in Seq(Mutation)
        /\ mobileJob[c].remaining \in Seq(Mutation)
        /\ mobileJob[c].readConflicts \subseteq Mutation /\ mobileJob[c].conflicts \subseteq Mutation
        /\ HeldWasKept(c) /\ FlushDealsOnce(c) /\ ReadsAreKnown(c)
        /\ mutations \in Seq(Mutation) /\ conflicts \subseteq Mutation
        /\ kept \subseteq given /\ synced \subseteq given /\ discarded \subseteq given /\ given \subseteq Mutation
        /\ exposed \subseteq Mutation
    BY HeldMobileJob DEF Q!TypeOK
  <1>1. /\ mobilePc[c] = "sending" /\ mobileJob[c].todo # <<>>
        /\ synced' = synced \cup {Head(mobileJob[c].todo)}
        /\ mutations' = mutations /\ conflicts' = conflicts /\ given' = given /\ kept' = kept /\ discarded' = discarded /\ exposed' = exposed
    BY <1>0 DEF Q!SendSucceeds, Q!items, Q!history
  <1>h. /\ Head(mobileJob[c].todo) \in Mutation /\ Tail(mobileJob[c].todo) \in Seq(Mutation)
        /\ Elements(mobileJob[c].todo) = {Head(mobileJob[c].todo)} \cup Elements(Tail(mobileJob[c].todo))
        /\ Distinct(Tail(mobileJob[c].todo)) /\ Head(mobileJob[c].todo) \notin Elements(Tail(mobileJob[c].todo))
    BY <1>0, <1>1, ElementsOf, DistinctOf DEF FlushDealsOnce
  <1>2. work \in MobileJob /\ stage \in Q!Stage
    BY <1>0, <1>1, <1>h, NewMobileJob DEF Q!Stage, MobileJob
  <1>3. /\ work.read = mobileJob[c].read /\ work.remaining = mobileJob[c].remaining /\ work.readConflicts = mobileJob[c].readConflicts /\ work.conflicts = mobileJob[c].conflicts /\ work.todo = Tail(mobileJob[c].todo)
    BY <1>0, NewMobileJob DEF MobileJob
  <1>4. Q!Goto(c, stage, work)
    BY <1>1 DEF Q!SendSucceeds, Q!End
  <1> HIDE DEF work
  <1>5. /\ mobilePc'[c] = stage /\ mobileJob'[c] = work /\ OthersRest(c)
        /\ mobilePc' \in [Call -> Q!Stage] /\ mobileJob' \in [Call -> MobileJob]
    BY <1>2, <1>4, MobileMoves DEF OthersRest
  <1>6. MobileRows
    BY <1>0, <1>1, <1>h, ElementsOf DEF MobileRows, StoredWasKept, HeldWasKept, FlushDealsOnce, Unsaid, NewConflicts
  <1>7. HeldWasKept(c)'
    BY <1>0, <1>1, <1>3, <1>5, NothingIn DEF HeldWasKept, StoredWasKept
  <1>8. FlushDealsOnce(c)'
    BY <1>0, <1>1, <1>3, <1>5, <1>h, NothingIn DEF FlushDealsOnce, HeldWasKept, StoredWasKept, NewConflicts, Unsaid
  <1>9. ReadsAreKnown(c)'
    BY <1>0, <1>1, <1>3, <1>5 DEF ReadsAreKnown
  <1>10. Q!TypeOK' /\ MobileJobInv' /\ StoredWasKept'
    BY <1>5, <1>6, <1>7, <1>8, <1>9, OthersHold
  <1>11. FreshIsNowhere'
    BY <1>1, <1>3, <1>5, SameFresh DEF Enqueues
  <1>12. Unsaid(c)' = Unsaid(c)
    BY <1>1, <1>5 DEF Unsaid
  <1>13. OnePlace' /\ SomePlace'
    BY <1>1, <1>5, <1>12, SamePlaces
  <1> QED
    BY <1>10, <1>11, <1>13

LEMMA SendConflictsMobile ==
    ASSUME MobileInv, NEW c \in Call, Q!SendConflicts(c)
    PROVE  MobileInv'
  <1> USE DEF MobileInv
  <1> DEFINE stage == "sending"
             work == [mobileJob[c] EXCEPT !.todo = Tail(@), !.conflicts = @ \cup {Head(mobileJob[c].todo)}]
  <1>0. /\ mobileJob[c] \in MobileJob
        /\ mobileJob[c].read \in Seq(Mutation) /\ mobileJob[c].todo \in Seq(Mutation)
        /\ mobileJob[c].remaining \in Seq(Mutation)
        /\ mobileJob[c].readConflicts \subseteq Mutation /\ mobileJob[c].conflicts \subseteq Mutation
        /\ HeldWasKept(c) /\ FlushDealsOnce(c) /\ ReadsAreKnown(c)
        /\ mutations \in Seq(Mutation) /\ conflicts \subseteq Mutation
        /\ kept \subseteq given /\ synced \subseteq given /\ discarded \subseteq given /\ given \subseteq Mutation
        /\ exposed \subseteq Mutation
    BY HeldMobileJob DEF Q!TypeOK
  <1>1. /\ mobilePc[c] = "sending" /\ mobileJob[c].todo # <<>>
        /\ mutations' = mutations /\ conflicts' = conflicts /\ given' = given /\ kept' = kept /\ synced' = synced /\ discarded' = discarded /\ exposed' = exposed
    BY <1>0 DEF Q!SendConflicts, Q!items, Q!history
  <1>h. /\ Head(mobileJob[c].todo) \in Mutation /\ Tail(mobileJob[c].todo) \in Seq(Mutation)
        /\ Elements(mobileJob[c].todo) = {Head(mobileJob[c].todo)} \cup Elements(Tail(mobileJob[c].todo))
        /\ Distinct(Tail(mobileJob[c].todo)) /\ Head(mobileJob[c].todo) \notin Elements(Tail(mobileJob[c].todo))
    BY <1>0, <1>1, ElementsOf, DistinctOf DEF FlushDealsOnce
  <1>2. work \in MobileJob /\ stage \in Q!Stage
    BY <1>0, <1>1, <1>h, NewMobileJob DEF Q!Stage, MobileJob
  <1>3. /\ work.read = mobileJob[c].read /\ work.remaining = mobileJob[c].remaining /\ work.readConflicts = mobileJob[c].readConflicts
        /\ work.todo = Tail(mobileJob[c].todo) /\ work.conflicts = mobileJob[c].conflicts \cup {Head(mobileJob[c].todo)}
    BY <1>0, NewMobileJob DEF MobileJob
  <1>4. Q!Goto(c, stage, work)
    BY <1>1 DEF Q!SendConflicts, Q!End
  <1> HIDE DEF work
  <1>5. /\ mobilePc'[c] = stage /\ mobileJob'[c] = work /\ OthersRest(c)
        /\ mobilePc' \in [Call -> Q!Stage] /\ mobileJob' \in [Call -> MobileJob]
    BY <1>2, <1>4, MobileMoves DEF OthersRest
  <1>6. MobileRows
    BY <1>0, <1>1, <1>h, ElementsOf DEF MobileRows, StoredWasKept, HeldWasKept, FlushDealsOnce, Unsaid, NewConflicts
  <1>7. HeldWasKept(c)'
    BY <1>0, <1>1, <1>3, <1>5, NothingIn DEF HeldWasKept, StoredWasKept
  <1>8. FlushDealsOnce(c)'
    BY <1>0, <1>1, <1>3, <1>5, <1>h, NothingIn DEF FlushDealsOnce, HeldWasKept, StoredWasKept, NewConflicts, Unsaid
  <1>9. ReadsAreKnown(c)'
    BY <1>0, <1>1, <1>3, <1>5 DEF ReadsAreKnown
  <1>10. Q!TypeOK' /\ MobileJobInv' /\ StoredWasKept'
    BY <1>5, <1>6, <1>7, <1>8, <1>9, OthersHold
  <1>11. FreshIsNowhere'
    BY <1>1, <1>3, <1>5, SameFresh DEF Enqueues
  <1>12. Unsaid(c)' = Unsaid(c)
    BY <1>1, <1>5 DEF Unsaid
  <1>13. OnePlace' /\ SomePlace'
    BY <1>1, <1>5, <1>12, SamePlaces
  <1> QED
    BY <1>10, <1>11, <1>13

LEMMA SendFailsMobile ==
    ASSUME MobileInv, NEW c \in Call, Q!SendFails(c)
    PROVE  MobileInv'
  <1> USE DEF MobileInv
  <1> DEFINE stage == "sending"
             work == [mobileJob[c] EXCEPT !.todo = Tail(@), !.remaining = Append(@, Head(mobileJob[c].todo))]
  <1>0. /\ mobileJob[c] \in MobileJob
        /\ mobileJob[c].read \in Seq(Mutation) /\ mobileJob[c].todo \in Seq(Mutation)
        /\ mobileJob[c].remaining \in Seq(Mutation)
        /\ mobileJob[c].readConflicts \subseteq Mutation /\ mobileJob[c].conflicts \subseteq Mutation
        /\ HeldWasKept(c) /\ FlushDealsOnce(c) /\ ReadsAreKnown(c)
        /\ mutations \in Seq(Mutation) /\ conflicts \subseteq Mutation
        /\ kept \subseteq given /\ synced \subseteq given /\ discarded \subseteq given /\ given \subseteq Mutation
        /\ exposed \subseteq Mutation
    BY HeldMobileJob DEF Q!TypeOK
  <1>1. /\ mobilePc[c] = "sending" /\ mobileJob[c].todo # <<>>
        /\ mutations' = mutations /\ conflicts' = conflicts /\ given' = given /\ kept' = kept /\ synced' = synced /\ discarded' = discarded /\ exposed' = exposed
    BY <1>0 DEF Q!SendFails, Q!items, Q!history
  <1>h. /\ Head(mobileJob[c].todo) \in Mutation /\ Tail(mobileJob[c].todo) \in Seq(Mutation)
        /\ Elements(mobileJob[c].todo) = {Head(mobileJob[c].todo)} \cup Elements(Tail(mobileJob[c].todo))
        /\ Distinct(Tail(mobileJob[c].todo)) /\ Head(mobileJob[c].todo) \notin Elements(Tail(mobileJob[c].todo))
    BY <1>0, <1>1, ElementsOf, DistinctOf DEF FlushDealsOnce
  <1>g. /\ Append(mobileJob[c].remaining, Head(mobileJob[c].todo)) \in Seq(Mutation)
        /\ Elements(Append(mobileJob[c].remaining, Head(mobileJob[c].todo))) =
               Elements(mobileJob[c].remaining) \cup {Head(mobileJob[c].todo)}
        /\ Distinct(Append(mobileJob[c].remaining, Head(mobileJob[c].todo)))
    BY <1>0, <1>1, <1>h, ElementsOf, DistinctOf DEF FlushDealsOnce
  <1>2. work \in MobileJob /\ stage \in Q!Stage
    BY <1>0, <1>1, <1>h, <1>g, NewMobileJob DEF Q!Stage, MobileJob
  <1>3. /\ work.read = mobileJob[c].read /\ work.readConflicts = mobileJob[c].readConflicts /\ work.conflicts = mobileJob[c].conflicts
        /\ work.todo = Tail(mobileJob[c].todo) /\ work.remaining = Append(mobileJob[c].remaining, Head(mobileJob[c].todo))
    BY <1>0, NewMobileJob DEF MobileJob
  <1>4. Q!Goto(c, stage, work)
    BY <1>1 DEF Q!SendFails, Q!End
  <1> HIDE DEF work
  <1>5. /\ mobilePc'[c] = stage /\ mobileJob'[c] = work /\ OthersRest(c)
        /\ mobilePc' \in [Call -> Q!Stage] /\ mobileJob' \in [Call -> MobileJob]
    BY <1>2, <1>4, MobileMoves DEF OthersRest
  <1>6. MobileRows
    BY <1>0, <1>1, <1>h, <1>g, ElementsOf DEF MobileRows, StoredWasKept, HeldWasKept, FlushDealsOnce, Unsaid, NewConflicts
  <1>7. HeldWasKept(c)'
    BY <1>0, <1>1, <1>3, <1>5, NothingIn DEF HeldWasKept, StoredWasKept
  <1>8. FlushDealsOnce(c)'
    <2> DEFINE first == Head(mobileJob[c].todo)
    <2>1. /\ Elements(work.read) = Elements(mobileJob[c].read)
          /\ Elements(mobileJob[c].todo) = Elements(work.todo) \cup {first} /\ first \notin Elements(work.todo)
          /\ Elements(work.remaining) = Elements(mobileJob[c].remaining) \cup {first}
          /\ Distinct(work.todo) /\ Distinct(work.remaining)
      BY <1>3, <1>h, <1>g
    <2>2. /\ Unsaid(c)' = {} /\ NewConflicts(c)' = NewConflicts(c) /\ synced' = synced
          /\ mobileJob'[c].conflicts = mobileJob[c].conflicts
          /\ mobileJob'[c].readConflicts = mobileJob[c].readConflicts
      BY <1>1, <1>3, <1>5 DEF Unsaid, NewConflicts
    <2> HIDE DEF first
    <2> QED
      BY <1>0, <1>1, <1>5, <2>1, <2>2 DEF FlushDealsOnce
  <1>9. ReadsAreKnown(c)'
    BY <1>0, <1>1, <1>3, <1>5 DEF ReadsAreKnown
  <1>10. Q!TypeOK' /\ MobileJobInv' /\ StoredWasKept'
    BY <1>5, <1>6, <1>7, <1>8, <1>9, OthersHold
  <1>11. FreshIsNowhere'
    BY <1>1, <1>3, <1>5, SameFresh DEF Enqueues
  <1>12. Unsaid(c)' = Unsaid(c)
    BY <1>1, <1>5 DEF Unsaid
  <1>13. OnePlace' /\ SomePlace'
    BY <1>1, <1>5, <1>12, SamePlaces
  <1> QED
    BY <1>10, <1>11, <1>13

LEMMA WriteQueueMobile ==
    ASSUME MobileInv, NEW c \in Call, Q!WriteQueue(c)
    PROVE  MobileInv'
  <1> USE DEF MobileInv
  <1> DEFINE stage == "storing"
             work == mobileJob[c]
  <1>0. /\ mobileJob[c] \in MobileJob
        /\ mobileJob[c].read \in Seq(Mutation) /\ mobileJob[c].todo \in Seq(Mutation)
        /\ mobileJob[c].remaining \in Seq(Mutation)
        /\ mobileJob[c].readConflicts \subseteq Mutation /\ mobileJob[c].conflicts \subseteq Mutation
        /\ HeldWasKept(c) /\ FlushDealsOnce(c) /\ ReadsAreKnown(c)
        /\ mutations \in Seq(Mutation) /\ conflicts \subseteq Mutation
        /\ kept \subseteq given /\ synced \subseteq given /\ discarded \subseteq given /\ given \subseteq Mutation
        /\ exposed \subseteq Mutation
    BY HeldMobileJob DEF Q!TypeOK
  <1>1. /\ mobilePc[c] = "sending" /\ mobileJob[c].todo = <<>> /\ mutations' = mobileJob[c].remaining
        /\ exposed' = exposed \cup (Elements(mutations) \ Elements(mobileJob[c].read))
                             \cup (Elements(mobileJob[c].read) \ Elements(mutations))
        /\ conflicts' = conflicts /\ given' = given /\ kept' = kept /\ synced' = synced /\ discarded' = discarded
    BY <1>0 DEF Q!WriteQueue, Q!items, Q!history, Q!Overwrites, Elements
  <1>g. Elements(mobileJob[c].todo) = {}
    BY <1>1, NothingIn
  <1>2. work \in MobileJob /\ stage \in Q!Stage
    BY <1>0, <1>1, <1>g, NewMobileJob DEF Q!Stage, MobileJob
  <1>3. /\ work = mobileJob[c]
    BY <1>0, NewMobileJob DEF MobileJob
  <1>4. Q!Goto(c, stage, work)
    BY <1>1 DEF Q!WriteQueue, Q!End
  <1> HIDE DEF work
  <1>5. /\ mobilePc'[c] = stage /\ mobileJob'[c] = work /\ OthersRest(c)
        /\ mobilePc' \in [Call -> Q!Stage] /\ mobileJob' \in [Call -> MobileJob]
    BY <1>2, <1>4, MobileMoves DEF OthersRest
  <1>6. MobileRows
    BY <1>0, <1>1, <1>g, ElementsOf DEF MobileRows, StoredWasKept, HeldWasKept, FlushDealsOnce, Unsaid, NewConflicts
  <1>7. HeldWasKept(c)'
    BY <1>0, <1>1, <1>3, <1>5, NothingIn DEF HeldWasKept, StoredWasKept
  <1>8. FlushDealsOnce(c)'
    BY <1>0, <1>1, <1>3, <1>5, <1>g, NothingIn DEF FlushDealsOnce, HeldWasKept, StoredWasKept, NewConflicts, Unsaid
  <1>9. ReadsAreKnown(c)'
    BY <1>0, <1>1, <1>3, <1>5 DEF ReadsAreKnown
  <1>10. Q!TypeOK' /\ MobileJobInv' /\ StoredWasKept'
    BY <1>5, <1>6, <1>7, <1>8, <1>9, OthersHold
  <1>11. FreshIsNowhere'
    BY <1>1, <1>3, <1>5, SameFresh DEF Enqueues
  <1>12. /\ \A d \in Call : d # c => Unsaid(d)' = Unsaid(d)
         /\ Unsaid(c)' = NewConflicts(c)
    BY <1>1, <1>3, <1>5 DEF OthersRest, Unsaid, NewConflicts
  <1>13. OnePlace'
    BY <1>0, <1>1, <1>g, <1>12 DEF OnePlace, HeldWasKept, FlushDealsOnce, StoredWasKept, NewConflicts, Unsaid
  <1>14. SomePlace'
    BY <1>0, <1>1, <1>g, <1>12 DEF SomePlace, FlushDealsOnce, ReadsAreKnown, NewConflicts, Unsaid
  <1> QED
    BY <1>10, <1>11, <1>13, <1>14

LEMMA WriteConflictsMobile ==
    ASSUME MobileInv, NEW c \in Call, Q!WriteConflicts(c)
    PROVE  MobileInv'
  <1> USE DEF MobileInv
  <1> DEFINE stage == "idle"
             work == Q!NoJob
  <1>0. /\ mobileJob[c] \in MobileJob
        /\ mobileJob[c].read \in Seq(Mutation) /\ mobileJob[c].todo \in Seq(Mutation)
        /\ mobileJob[c].remaining \in Seq(Mutation)
        /\ mobileJob[c].readConflicts \subseteq Mutation /\ mobileJob[c].conflicts \subseteq Mutation
        /\ HeldWasKept(c) /\ FlushDealsOnce(c) /\ ReadsAreKnown(c)
        /\ mutations \in Seq(Mutation) /\ conflicts \subseteq Mutation
        /\ kept \subseteq given /\ synced \subseteq given /\ discarded \subseteq given /\ given \subseteq Mutation
        /\ exposed \subseteq Mutation
    BY HeldMobileJob DEF Q!TypeOK
  <1>1. /\ mobilePc[c] = "storing" /\ conflicts' = mobileJob[c].conflicts
        /\ exposed' = exposed \cup (conflicts \ mobileJob[c].readConflicts)
                             \cup (mobileJob[c].readConflicts \ conflicts)
        /\ mutations' = mutations /\ given' = given /\ kept' = kept /\ synced' = synced /\ discarded' = discarded
    BY <1>0 DEF Q!WriteConflicts, Q!items, Q!history, Q!Overwrites
  <1>2. work \in MobileJob /\ stage \in Q!Stage
    BY <1>0, <1>1, NewMobileJob DEF Q!Stage, MobileJob
  <1>3. work.read = <<>> /\ work.readConflicts = {} /\ work.conflicts = {}
    BY NewMobileJob
  <1>4. Q!Goto(c, stage, work)
    BY <1>1 DEF Q!WriteConflicts, Q!End
  <1> HIDE DEF work
  <1>5. /\ mobilePc'[c] = stage /\ mobileJob'[c] = work /\ OthersRest(c)
        /\ mobilePc' \in [Call -> Q!Stage] /\ mobileJob' \in [Call -> MobileJob]
    BY <1>2, <1>4, MobileMoves DEF OthersRest
  <1>6. MobileRows
    BY <1>0, <1>1, ElementsOf DEF MobileRows, StoredWasKept, HeldWasKept, FlushDealsOnce, Unsaid, NewConflicts
  <1>7. HeldWasKept(c)'
    BY <1>0, <1>1, <1>3, <1>5, NothingIn DEF HeldWasKept, StoredWasKept
  <1>8. FlushDealsOnce(c)'
    BY <1>0, <1>1, <1>3, <1>5, NothingIn DEF FlushDealsOnce, HeldWasKept, StoredWasKept, NewConflicts, Unsaid
  <1>9. ReadsAreKnown(c)'
    BY <1>0, <1>1, <1>3, <1>5 DEF ReadsAreKnown
  <1>10. Q!TypeOK' /\ MobileJobInv' /\ StoredWasKept'
    BY <1>5, <1>6, <1>7, <1>8, <1>9, OthersHold
  <1>11. FreshIsNowhere'
    BY <1>1, <1>3, <1>5, SameFresh DEF Enqueues
  <1>12. /\ \A d \in Call : d # c => Unsaid(d)' = Unsaid(d)
         /\ Unsaid(c)' = {}
    BY <1>1, <1>3, <1>5 DEF OthersRest, Unsaid, NewConflicts
  <1>13. OnePlace'
    BY <1>0, <1>1, <1>12 DEF OnePlace, HeldWasKept, FlushDealsOnce, StoredWasKept, NewConflicts, Unsaid
  <1>14. SomePlace'
    BY <1>0, <1>1, <1>12 DEF SomePlace, FlushDealsOnce, ReadsAreKnown, NewConflicts, Unsaid
  <1> QED
    BY <1>10, <1>11, <1>13, <1>14

LEMMA AbandonMobile ==
    ASSUME MobileInv, NEW c \in Call, Q!Abandon(c)
    PROVE  MobileInv'
  <1> USE DEF MobileInv
  <1> DEFINE stage == "idle"
             work == Q!NoJob
  <1>0. /\ mobileJob[c] \in MobileJob
        /\ mobileJob[c].read \in Seq(Mutation) /\ mobileJob[c].todo \in Seq(Mutation)
        /\ mobileJob[c].remaining \in Seq(Mutation)
        /\ mobileJob[c].readConflicts \subseteq Mutation /\ mobileJob[c].conflicts \subseteq Mutation
        /\ HeldWasKept(c) /\ FlushDealsOnce(c) /\ ReadsAreKnown(c)
        /\ mutations \in Seq(Mutation) /\ conflicts \subseteq Mutation
        /\ kept \subseteq given /\ synced \subseteq given /\ discarded \subseteq given /\ given \subseteq Mutation
        /\ exposed \subseteq Mutation
    BY HeldMobileJob DEF Q!TypeOK
  <1>1. /\ exposed' = exposed \cup Unsaid(c)
        /\ mutations' = mutations /\ conflicts' = conflicts /\ given' = given /\ kept' = kept /\ synced' = synced /\ discarded' = discarded
    BY <1>0 DEF Q!Abandon, Q!items, Q!history, Unsaid, NewConflicts
  <1>2. work \in MobileJob /\ stage \in Q!Stage
    BY <1>0, <1>1, NewMobileJob DEF Q!Stage, MobileJob
  <1>3. work.read = <<>> /\ work.readConflicts = {} /\ work.conflicts = {}
    BY NewMobileJob
  <1>4. Q!Goto(c, stage, work)
    BY <1>1 DEF Q!Abandon, Q!End
  <1> HIDE DEF work
  <1>5. /\ mobilePc'[c] = stage /\ mobileJob'[c] = work /\ OthersRest(c)
        /\ mobilePc' \in [Call -> Q!Stage] /\ mobileJob' \in [Call -> MobileJob]
    BY <1>2, <1>4, MobileMoves DEF OthersRest
  <1>6. MobileRows
    BY <1>0, <1>1, ElementsOf DEF MobileRows, StoredWasKept, HeldWasKept, FlushDealsOnce, Unsaid, NewConflicts
  <1>7. HeldWasKept(c)'
    BY <1>0, <1>1, <1>3, <1>5, NothingIn DEF HeldWasKept, StoredWasKept
  <1>8. FlushDealsOnce(c)'
    BY <1>0, <1>1, <1>3, <1>5, NothingIn DEF FlushDealsOnce, HeldWasKept, StoredWasKept, NewConflicts, Unsaid
  <1>9. ReadsAreKnown(c)'
    BY <1>0, <1>1, <1>3, <1>5 DEF ReadsAreKnown
  <1>10. Q!TypeOK' /\ MobileJobInv' /\ StoredWasKept'
    BY <1>5, <1>6, <1>7, <1>8, <1>9, OthersHold
  <1>11. FreshIsNowhere'
    BY <1>1, <1>3, <1>5, SameFresh DEF Enqueues
  <1>12. /\ \A d \in Call : d # c => Unsaid(d)' = Unsaid(d)
         /\ Unsaid(c)' = {}
    BY <1>1, <1>3, <1>5 DEF OthersRest, Unsaid, NewConflicts
  <1>13. OnePlace'
    BY <1>0, <1>1, <1>12 DEF OnePlace, HeldWasKept, FlushDealsOnce, StoredWasKept, NewConflicts, Unsaid
  <1>14. SomePlace'
    BY <1>0, <1>1, <1>12 DEF SomePlace, FlushDealsOnce, ReadsAreKnown, NewConflicts, Unsaid
  <1> QED
    BY <1>10, <1>11, <1>13, <1>14

LEMMA AnsweredMobile ==
    ASSUME MobileInv, NEW m \in Mutation, Q!Answered(m)
    PROVE  MobileInv'
  <1>1. /\ given' = given \cup {m}
        /\ UNCHANGED <<mutations, conflicts, kept, synced, discarded, exposed, mobilePc, mobileJob>>
    BY DEF Q!Answered, Q!items
  <1>2. Q!TypeOK'
    BY <1>1 DEF MobileInv, Q!TypeOK
  <1>3. MobileJobInv' /\ StoredWasKept'
    BY <1>1 DEF MobileInv, MobileJobInv, StoredWasKept, HeldWasKept, FlushDealsOnce, ReadsAreKnown,
       NewConflicts, Unsaid
  <1>4. FreshIsNowhere' /\ OnePlace' /\ SomePlace'
    BY <1>1 DEF MobileInv, FreshIsNowhere, Enqueues, OnePlace, SomePlace, Unsaid, NewConflicts
  <1> QED
    BY <1>2, <1>3, <1>4 DEF MobileInv

LEMMA MobileUnchanged ==
    ASSUME MobileInv, UNCHANGED Q!vars
    PROVE  MobileInv'
  <1>1. UNCHANGED <<mutations, conflicts, given, kept, synced, discarded, exposed, mobilePc, mobileJob>>
    BY DEF Q!vars, Q!items, Q!history
  <1>2. Q!TypeOK'
    BY <1>1 DEF MobileInv, Q!TypeOK
  <1>3. MobileJobInv' /\ StoredWasKept'
    BY <1>1 DEF MobileInv, MobileJobInv, StoredWasKept, HeldWasKept, FlushDealsOnce, ReadsAreKnown,
       NewConflicts, Unsaid
  <1>4. FreshIsNowhere' /\ OnePlace' /\ SomePlace'
    BY <1>1 DEF MobileInv, FreshIsNowhere, Enqueues, OnePlace, SomePlace, Unsaid, NewConflicts
  <1> QED
    BY <1>2, <1>3, <1>4 DEF MobileInv

\* The invariant of the mobile queue: a step of any call, or none, keeps it.
THEOREM MobileStep ==
    ASSUME MobileInv, [Q!Next]_(Q!vars)
    PROVE  MobileInv'
  <1>1. CASE Q!Next
    <2>1. ASSUME NEW m \in Mutation, Q!Answered(m) PROVE MobileInv'
      BY <2>1, AnsweredMobile
    <2>2. ASSUME NEW c \in Call, NEW m \in Mutation, Q!Unanswered(c, m) \/ Q!ReadForDiscard(c, m)
          PROVE  MobileInv'
      BY <2>2, UnansweredMobile, ReadForDiscardMobile
    <2>3. ASSUME NEW c \in Call, Q!ReadForEnqueue(c) \/ Q!Keep(c) \/ Q!Discard(c)
          PROVE  MobileInv'
      BY <2>3, ReadForEnqueueMobile, KeepMobile, DiscardMobile
    <2>4. ASSUME NEW c \in Call,
                 \/ Q!ReadQueue(c) \/ Q!ReadConflicts(c)
                 \/ Q!SendSucceeds(c) \/ Q!SendConflicts(c) \/ Q!SendFails(c)
          PROVE  MobileInv'
      BY <2>4, ReadQueueMobile, ReadConflictsMobile, SendSucceedsMobile, SendConflictsMobile, SendFailsMobile
    <2>5. ASSUME NEW c \in Call, Q!WriteQueue(c) \/ Q!WriteConflicts(c) \/ Q!Abandon(c)
          PROVE  MobileInv'
      BY <2>5, WriteQueueMobile, WriteConflictsMobile, AbandonMobile
    <2> QED
      BY <1>1, <2>1, <2>2, <2>3, <2>4, <2>5 DEF Q!Next
  <1>2. CASE UNCHANGED Q!vars
    BY <1>2, MobileUnchanged
  <1> QED
    BY <1>1, <1>2

LEMMA MobileInit == Q!Init => MobileInv
  <1> SUFFICES ASSUME Q!Init PROVE MobileInv
    OBVIOUS
  <1>1. /\ mutations = <<>> /\ Elements(mutations) = {} /\ Distinct(mutations)
        /\ conflicts = {} /\ given = {} /\ kept = {} /\ synced = {} /\ discarded = {} /\ exposed = {}
        /\ mobilePc = [c \in Call |-> "idle"] /\ mobileJob = [c \in Call |-> Q!NoJob]
    BY NothingIn DEF Q!Init
  <1>2. mobileJob \in [Call -> MobileJob]
    BY <1>1, NewMobileJob
  <1>3. \A c \in Call : mobileJob[c].mutation \in Mutation \cup {Q!None}
    BY <1>2 DEF MobileJob
  <1>4. Q!TypeOK
    BY <1>1, <1>3 DEF Q!TypeOK, Q!Stage
  <1>5. \A c \in Call : HeldWasKept(c) /\ FlushDealsOnce(c) /\ ReadsAreKnown(c) /\ Unsaid(c) = {}
    BY <1>1, NewMobileJob, NothingIn DEF HeldWasKept, FlushDealsOnce, ReadsAreKnown, Unsaid
  <1>6. StoredWasKept /\ FreshIsNowhere /\ OnePlace /\ SomePlace
    BY <1>1, <1>5 DEF StoredWasKept, FreshIsNowhere, Enqueues, OnePlace, SomePlace
  <1> QED
    BY <1>2, <1>4, <1>5, <1>6 DEF MobileInv, MobileJobInv

LEMMA MobileInvKeeps == MobileInv => Q!TypeOK /\ Q!NothingIsDropped /\ Q!DismissedForGood
  <1> SUFFICES ASSUME MobileInv PROVE Q!NothingIsDropped /\ Q!DismissedForGood
    BY DEF MobileInv
  <1>1. \A c \in Call : Unsaid(c) \subseteq Q!InHand
    BY DEF Unsaid, NewConflicts, Q!InHand
  <1>2. Q!NothingIsDropped
    BY <1>1 DEF MobileInv, SomePlace, Q!NothingIsDropped, Elements
  <1>3. Q!DismissedForGood
    BY DEF MobileInv, OnePlace, Q!DismissedForGood, Elements
  <1> QED
    BY <1>2, <1>3

\* The mobile queue: its invariant holds in every behaviour.
THEOREM MobileInvariant == Q!Spec => []MobileInv
  BY MobileInit, MobileStep, PTL DEF Q!Spec
-----------------------------------------------------------------------------
(* The four side by side *)

\* In each behaviour of MCSpec one of the four modules moves and the others stay in
\* their initial states: it is a behaviour of all four.
THEOREM SideBySide == MCSpec => Spec /\ P!Spec /\ A!Spec /\ Q!Spec
  <1>1. MCInit => Init /\ P!Init /\ A!Init /\ Q!Init
    BY DEF MCInit
  <1>2. [MCNext]_<<part, vars, listingVars, assetVars, mobileVars>> =>
            [Next]_vars /\ [P!Next]_(P!vars) /\ [A!Next]_(A!vars) /\ [Q!Next]_(Q!vars)
    BY DEF MCNext, vars, listingVars, assetVars, mobileVars, P!vars, A!vars, Q!vars, Q!items, Q!history
  <1> QED
    BY <1>1, <1>2, PTL DEF MCSpec, Spec, P!Spec, A!Spec, Q!Spec

\* A listing agrees with its items, its packs and its queue: queued, it waits for
\* something; live, a user has said so; its latest item tells the same story; and it is
\* not deleted while it is pending, queued or live; except where two calls overlapped or
\* one ended early (processListingItem, confirm, deleteOne).
THEOREM ListingHolds == MCSpec => []ListingAgrees
  <1>1. ListingInv => ListingAgrees
    BY ListingInvAgrees DEF ListingAgrees
  <1> QED
    BY <1>1, SideBySide, ListingInvariant, PTL

\* An approval stands, unless a submission or a decision under way had read the listing
\* before it (submitForApproval, decideApproval).
THEOREM ApprovalIsKept == MCSpec => ApprovalStands
  BY SideBySide, ApprovalStays, PTL DEF ApprovalStands

\* A chunk that is repeated is appended once, unless two were taken at once or one was not
\* recorded; the versions have no gap and the asset points at the latest, unless two
\* roll-backs overlapped or a call wrote one of two rows (appendChunk, rollbackAsset).
THEOREM AssetsHold == MCSpec => []AssetsAreSound
  <1>1. AssetInv => AssetsAreSound
    BY AssetInvSound DEF AssetsAreSound
  <1> QED
    BY <1>1, SideBySide, AssetInvariant, PTL

\* What the user was told is queued is sent, waits, or shows as a conflict until it is
\* dismissed, and then stays so, unless an item of storage was overwritten under it or a
\* flush died between its two writes (enqueue, flush, discardConflict).
THEOREM MutationsHold == MCSpec => []MutationsAreKept
  <1>1. MobileInv => MutationsAreKept
    BY MobileInvKeeps DEF MutationsAreKept
  <1> QED
    BY <1>1, SideBySide, MobileInvariant, PTL

=============================================================================
