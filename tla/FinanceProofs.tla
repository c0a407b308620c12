--------------------------- MODULE FinanceProofs ---------------------------
(***************************************************************************)
(* The books, for any number of calls, orders, expenses and payouts and    *)
(* any amounts: what a posting call holds stays true of its row until it   *)
(* commits, and every entry adds nothing to the sum of all accounts.       *)
(***************************************************************************)
EXTENDS Finance, ColumnSumsProofs

-----------------------------------------------------------------------------
(* What a call holds at each stage *)

\* A posting call holds the entries of its row, in the order they are checked,
\* and every call is about a row of the kind its stage is for.
Fits(stage, work) ==
    /\ stage = "idle" => work = NoJob
    /\ stage = "posting" =>
        \/ /\ work.on \in Order
           /\ work.posts = OrderEntries(order[work.on])
           /\ Reconciles(order[work.on])
        \/ work.on \in Expense /\ work.posts = <<"expense">>
        \/ /\ work.on \in Payout
           /\ work.amount <= MaxAmount
           /\ work.posts = IF work.amount > 0 THEN <<"payout">> ELSE <<>>
    /\ stage = "rejecting" => work.on \in Expense
    /\ stage \in {"computing", "expecting"} => work.on \in Payout \cup {"period"}
    /\ stage \in {"signing", "recording", "granting", "cancelling", "cancelled"} =>
        work.on = "tenant"
    /\ work.on \in Payout => payout[work.on].status # "none"

JobShape == \A c \in Call : Fits(pc[c], job[c])

Base == TypeOK /\ JobShape

\* What a call has read of its row is still so.
Current(stage, work) ==
    /\ stage = "posting" =>
        /\ work.on \in Order => revenue[work.on] = 0
        /\ work.on \in Expense => expense[work.on] = "PENDING"
        /\ work.on \in Payout => work.expected = payout[work.on].expected
    /\ stage = "rejecting" => expense[work.on] = "PENDING"
    /\ stage \in {"computing", "expecting"} /\ work.on \in Payout =>
        payout[work.on].status = "EXPECTED"

\* A call ends, goes on with its row, or begins on a row no other call works on.
Keeps(c, stage, work) ==
    \/ stage = "idle"
    \/ pc[c] # "idle" /\ work.on = job[c].on
    \/ /\ pc[c] = "idle"
       /\ "overlap" \in ops \/ \A d \in Call : ~SameRow(work.on, job[d].on)

\* A payout that has been created is never uncreated.
Created == \A p \in Payout : payout[p].status # "none" => payout'[p].status # "none"

-----------------------------------------------------------------------------
(* Lemmas *)

\* The amounts of an order are integers, and its fees no debt.
LEMMA RowType ==
    ASSUME NEW row \in OrderRow
    PROVE  /\ {row.subtotal, row.discount, row.tax, row.shipping, row.total} \subseteq Nat
           /\ row.fees["COMMISSION"] \in Nat /\ row.fees["OTHER"] \in Nat
           /\ FeeSum(row) \in Nat /\ NetOf(row) \in Int
  BY DEF OrderRow, FeeSum, NetOf, FeeType

\* What calls are to post: at most two entries.
LEMMA EntriesType ==
    /\ <<>> \in Seq(Source) /\ <<"expense">> \in Seq(Source) /\ <<"payout">> \in Seq(Source)
    /\ Len(<<>>) = 0 /\ Len(<<"expense">>) = 1 /\ Len(<<"payout">>) = 1
    /\ \A row : OrderEntries(row) \in Seq(Source) /\ Len(OrderEntries(row)) \in 1..2
  <1>1. /\ <<>> \in Seq(Source) /\ <<"expense">> \in Seq(Source) /\ <<"payout">> \in Seq(Source)
        /\ <<"order_revenue">> \in Seq(Source)
    BY DEF Source
  <1>2. <<"order_revenue", "order_fees">> \in Seq(Source)
    BY DEF Source
  <1>3. /\ Len(<<>>) = 0 /\ Len(<<"expense">>) = 1 /\ Len(<<"payout">>) = 1
        /\ Len(<<"order_revenue">>) = 1 /\ Len(<<"order_revenue", "order_fees">>) = 2
    OBVIOUS
  <1>4. ASSUME NEW row
        PROVE  OrderEntries(row) \in Seq(Source) /\ Len(OrderEntries(row)) \in 1..2
    <2>1. CASE OrderEntries(row) = <<"order_revenue">>
      BY <1>1, <1>3, <2>1
    <2>2. CASE OrderEntries(row) = <<"order_revenue", "order_fees">>
      BY <1>2, <1>3, <2>2
    <2> QED
      BY <2>1, <2>2 DEF OrderEntries
  <1> QED
    BY <1>1, <1>3, <1>4, Zenon

\* What the channel is to pay is a number.
LEMMA ExpectedType ==
    ASSUME TypeOK
    PROVE  Total([o \in Order |-> IF o \in known THEN NetOf(order[o]) ELSE 0]) \in Int
  <1> DEFINE net == [o \in Order |-> IF o \in known THEN NetOf(order[o]) ELSE 0]
  <1>1. ASSUME NEW o \in Order PROVE NetOf(order[o]) \in Int
    BY FinanceAssumption, RowType DEF TypeOK
  <1>2. net \in [Order -> Int]
    BY <1>1
  <1>3. Total(net) \in Int
    <2> HIDE DEF net
    <2> QED
      BY <1>2, FinanceAssumption, TotalType
  <1> QED
    BY <1>3

\* A call that moves on to a stage its work fits leaves the others fitting.
LEMMA MoveFits ==
    ASSUME Base, NEW c \in Call, NEW stage \in Stage, NEW work \in JobRecord,
           Goto(c, stage, work), order' = order, Created, Fits(stage, work)'
    PROVE  /\ pc' \in [Call -> Stage] /\ job' \in [Call -> JobRecord]
           /\ JobShape'
  <1>1. pc' \in [Call -> Stage] /\ job' \in [Call -> JobRecord]
    BY DEF Base, TypeOK, Goto
  <1>2. ASSUME NEW d \in Call PROVE Fits(pc[d], job[d])'
    <2>1. CASE d = c
      BY <2>1 DEF Base, TypeOK, Goto
    <2>2. CASE d # c
      <3>1. pc'[d] = pc[d] /\ job'[d] = job[d] /\ Fits(pc[d], job[d])
        BY <2>2 DEF Base, TypeOK, JobShape, Goto
      <3> QED
        BY <3>1 DEF Fits, Created
    <2> QED
      BY <2>1, <2>2
  <1> QED
    BY <1>1, <1>2 DEF JobShape

\* The steps that read, or end a call, and write nothing else.
Reads(c) ==
    \/ \E o \in Order : Recognize(c, o)
    \/ \E x \in Expense : Approve(c, x) \/ Reject(c, x)
    \/ \E p \in Payout, amount \in 0..MaxAmount : Reconcile(c, p, amount)
    \/ FindOpen(c) \/ ComputeExpected(c) \/ CheckPeriod(c)
    \/ Subscribe(c) \/ SkipStripe(c) \/ Cancel(c) \/ Fail(c)

LEMMA NoJobFits == NoJob \in JobRecord /\ Fits("idle", NoJob) /\ Fits("idle", NoJob)'
  <1>1. NoJob \in JobRecord /\ NoJob.on = "none"
    BY EntriesType DEF NoJob, JobRecord
  <1>2. "none" \notin Payout
    BY FinanceAssumption
  <1> QED
    BY <1>1, <1>2 DEF Fits

\* A read leaves the call with a job that fits what it has read.
LEMMA ReadMoves ==
    ASSUME Base, NEW c \in Call, Reads(c)
    PROVE  /\ UNCHANGED <<given, known, locked, ordinary, adjustment, rows, billing>>
           /\ \E stage \in Stage, work \in JobRecord :
                /\ Goto(c, stage, work) /\ Fits(stage, work) /\ Keeps(c, stage, work)
                /\ Current(pc[c], job[c]) => Current(stage, work)
  <1>1. \A op, on, amount, expected, posts :
            /\ op \in Operations
            /\ on \in Order \cup Expense \cup Payout \cup {"period", "tenant"}
            /\ amount \in Nat /\ expected \in Int /\ posts \in Seq(Source)
            => Work(op, on, amount, expected, posts) \in JobRecord
    BY DEF Work, JobRecord
  <1>2. job[c] \in JobRecord /\ pc[c] \in Stage /\ Fits(pc[c], job[c])
    BY DEF Base, TypeOK, JobShape
  <1>3. \A work \in JobRecord :
            /\ work.on \notin Payout \/ work.on \notin Order \cup Expense
            /\ work.on \in {"period", "tenant", "none"} => work.on \notin Order \cup Expense \cup Payout
    BY FinanceAssumption
  <1>4. CASE \E o \in Order : Recognize(c, o)
    <2>1. PICK o \in Order : Recognize(c, o)
      BY <1>4
    <2> DEFINE work == Work("recognize", o, 0, 0, OrderEntries(order[o]))
    <2>2. OrderEntries(order[o]) \in Seq(Source)
      BY EntriesType
    <2>3. work \in JobRecord
      BY <1>1, <2>2 DEF Operations
    <2>4. Goto(c, "posting", work) /\ Reconciles(order[o])
      BY <2>1 DEF Recognize
    <2>5. work.on = o /\ work.posts = OrderEntries(order[o]) /\ o \notin Payout
      BY FinanceAssumption DEF Work
    <2> HIDE DEF work
    <2>6. Fits("posting", work)
      BY <2>4, <2>5 DEF Fits
    <2>7. Current("posting", work) /\ Keeps(c, "posting", work)
      BY <2>1, <2>5, FinanceAssumption DEF Recognize, Begin, Current, Keeps
    <2> QED
      BY <2>1, <2>3, <2>4, <2>6, <2>7 DEF Recognize, Stage
  <1>5. CASE \E x \in Expense : Approve(c, x)
    <2>1. PICK x \in Expense : Approve(c, x)
      BY <1>5
    <2> DEFINE work == Work("approve", x, 0, 0, <<"expense">>)
    <2>2. work \in JobRecord
      BY EntriesType DEF Work, JobRecord, Operations
    <2>3. Goto(c, "posting", work)
      BY <2>1 DEF Approve
    <2>4. work.on = x /\ work.posts = <<"expense">> /\ x \notin Payout
      BY FinanceAssumption DEF Work
    <2> HIDE DEF work
    <2>5. Fits("posting", work)
      BY <2>4 DEF Fits
    <2>6. Current("posting", work) /\ Keeps(c, "posting", work)
      BY <2>1, <2>4, FinanceAssumption DEF Approve, Begin, Current, Keeps
    <2> QED
      BY <2>1, <2>2, <2>3, <2>5, <2>6 DEF Approve, Stage
  <1>6. CASE \E x \in Expense : Reject(c, x)
    <2>1. PICK x \in Expense : Reject(c, x)
      BY <1>6
    <2> DEFINE work == Work("reject", x, 0, 0, <<>>)
    <2>2. work \in JobRecord
      BY EntriesType DEF Work, JobRecord, Operations
    <2>3. Goto(c, "rejecting", work)
      BY <2>1 DEF Reject
    <2>4. work.on = x /\ x \notin Payout
      BY FinanceAssumption DEF Work
    <2> HIDE DEF work
    <2>5. Fits("rejecting", work)
      BY <2>4 DEF Fits
    <2>6. Current("rejecting", work) /\ Keeps(c, "rejecting", work)
      BY <2>1, <2>4 DEF Reject, Begin, Current, Keeps
    <2> QED
      BY <2>1, <2>2, <2>3, <2>5, <2>6 DEF Reject, Stage
  <1>7. CASE \E p \in Payout, amount \in 0..MaxAmount : Reconcile(c, p, amount)
    <2>1. PICK p \in Payout, amount \in 0..MaxAmount : Reconcile(c, p, amount)
      BY <1>7
    <2> DEFINE posts == IF amount > 0 THEN <<"payout">> ELSE <<>>
               work == Work("reconcile", p, amount, payout[p].expected, posts)
    <2>2. amount \in Nat /\ amount <= MaxAmount /\ payout[p].expected \in Int /\ posts \in Seq(Source)
      <3>1. amount \in Nat /\ amount <= MaxAmount
        BY FinanceAssumption
      <3>2. payout[p].expected \in Int
        BY DEF Base, TypeOK, PayoutRow
      <3> QED
        BY <3>1, <3>2, EntriesType
    <2>3. work \in JobRecord
      BY <1>1, <2>2 DEF Operations
    <2>4. Goto(c, "posting", work) /\ payout[p].status # "none"
      BY <2>1 DEF Reconcile
    <2>5. /\ work.on = p /\ work.posts = posts
          /\ work.amount = amount /\ work.expected = payout[p].expected
      BY DEF Work
    <2> HIDE DEF work
    <2>6. Fits("posting", work)
      BY <2>2, <2>4, <2>5 DEF Fits
    <2>7. Current("posting", work) /\ Keeps(c, "posting", work)
      BY <2>1, <2>5, FinanceAssumption DEF Reconcile, Begin, Current, Keeps
    <2> QED
      BY <2>1, <2>3, <2>4, <2>6, <2>7 DEF Reconcile, Stage
  <1>8. CASE FindOpen(c)
    <2>1. PICK on \in Payout \cup {"period"} :
            /\ on \in Payout => payout[on].status = "EXPECTED"
            /\ Goto(c, "computing", Work("expect", on, 0, 0, <<>>))
      <3>1. "period" \notin Payout
        BY FinanceAssumption
      <3>2. CASE \E p \in Payout : /\ payout[p].status = "EXPECTED"
                                   /\ Goto(c, "computing", Work("expect", p, 0, 0, <<>>))
        BY <3>2
      <3>3. CASE Goto(c, "computing", Work("expect", "period", 0, 0, <<>>))
        BY <3>1, <3>3
      <3> QED
        BY <1>8, <3>2, <3>3, Zenon DEF FindOpen
    <2> DEFINE work == Work("expect", on, 0, 0, <<>>)
    <2>2. work \in JobRecord
      BY EntriesType DEF Work, JobRecord, Operations
    <2>3. work.on = on
      BY DEF Work
    <2> HIDE DEF work
    <2>4. Fits("computing", work) /\ Current("computing", work)
      BY <2>1, <2>3 DEF Fits, Current
    <2>5. Keeps(c, "computing", work)
      <3>1. pc[c] = "idle" /\ ("overlap" \in ops \/ \A d \in Call : ~SameRow("period", job[d].on))
        BY <1>8 DEF FindOpen, Begin
      <3>2. \A other : SameRow(on, other) => SameRow("period", other)
        BY DEF SameRow
      <3> QED
        BY <2>3, <3>1, <3>2 DEF Keeps
    <2>6. Goto(c, "computing", work)
      BY <2>1 DEF work
    <2> QED
      BY <1>8, <2>2, <2>4, <2>5, <2>6 DEF FindOpen, Stage
  <1>9. CASE ComputeExpected(c)
    <2> DEFINE sum == Total([o \in Order |-> IF o \in known THEN NetOf(order[o]) ELSE 0])
               work == [job[c] EXCEPT !.expected = sum]
    <2>1. sum \in Int
      BY ExpectedType DEF Base
    <2>2. Goto(c, "expecting", work) /\ pc[c] = "computing"
      BY <1>9 DEF ComputeExpected
    <2> HIDE DEF sum
    <2>3. work \in JobRecord /\ work.on = job[c].on
      BY <1>2, <2>1 DEF JobRecord
    <2> HIDE DEF work
    <2>4. Fits("expecting", work)
      BY <1>2, <2>2, <2>3 DEF Fits
    <2>5. Current(pc[c], job[c]) => Current("expecting", work)
      BY <2>2, <2>3 DEF Current
    <2>6. Keeps(c, "expecting", work)
      BY <2>2, <2>3 DEF Keeps
    <2> QED
      BY <1>9, <2>2, <2>3, <2>4, <2>5, <2>6 DEF ComputeExpected, Stage
  <1>10. CASE CheckPeriod(c)
    <2>1. CASE locked
      BY <1>10, <2>1, NoJobFits DEF CheckPeriod, End, Stage, Keeps, Current
    <2>2. CASE ~locked
      <3> DEFINE work == [job[c] EXCEPT !.checked = @ + 1]
      <3>1. pc[c] = "posting" /\ job[c].checked < Len(job[c].posts) /\ Goto(c, "posting", work)
        BY <1>10, <2>2 DEF CheckPeriod
      <3>2. Len(job[c].posts) <= 2
        <4>1. \/ job[c].posts = OrderEntries(order[job[c].on])
              \/ job[c].posts = <<"expense">>
              \/ job[c].posts = <<"payout">>
              \/ job[c].posts = <<>>
          BY <1>2, <3>1 DEF Fits
        <4>2. CASE job[c].posts = OrderEntries(order[job[c].on])
          <5>1. Len(OrderEntries(order[job[c].on])) \in 1..2
            BY EntriesType
          <5>2. Len(job[c].posts) = Len(OrderEntries(order[job[c].on]))
            BY <4>2
          <5> QED
            BY <5>1, <5>2
        <4>3. CASE job[c].posts \in {<<"expense">>, <<"payout">>, <<>>}
          BY <4>3, EntriesType
        <4> QED
          BY <4>1, <4>2, <4>3
      <3>3. job[c].checked + 1 \in 0..2
        BY <1>2, <3>1, <3>2 DEF JobRecord
      <3>4. /\ work \in JobRecord
            /\ work.on = job[c].on /\ work.posts = job[c].posts
            /\ work.amount = job[c].amount /\ work.expected = job[c].expected
        BY <1>2, <3>3 DEF JobRecord
      <3> HIDE DEF work
      <3>5. Fits("posting", work)
        BY <1>2, <3>1, <3>4 DEF Fits
      <3>6. Current(pc[c], job[c]) => Current("posting", work)
        BY <3>1, <3>4 DEF Current
      <3>7. Keeps(c, "posting", work)
        BY <3>1, <3>4 DEF Keeps
      <3> QED
        BY <1>10, <3>1, <3>4, <3>5, <3>6, <3>7 DEF CheckPeriod, Stage
    <2> QED
      BY <2>1, <2>2
  <1>11. CASE Subscribe(c)
    <2> DEFINE work == Work("subscribe", "tenant", 0, 0, <<>>)
    <2>1. work \in JobRecord
      BY EntriesType DEF Work, JobRecord, Operations
    <2>2. work.on = "tenant" /\ "tenant" \notin Payout
      BY FinanceAssumption DEF Work
    <2>3. Goto(c, "signing", work)
      BY <1>11 DEF Subscribe
    <2> HIDE DEF work
    <2>4. Fits("signing", work) /\ Current("signing", work)
      BY <2>2 DEF Fits, Current
    <2>5. Keeps(c, "signing", work)
      BY <1>11, <2>2 DEF Subscribe, Begin, Keeps
    <2> QED
      BY <1>11, <2>1, <2>3, <2>4, <2>5 DEF Subscribe, Stage
  <1>12. CASE Cancel(c)
    <2> DEFINE work == Work("cancel", "tenant", subscription.id, 0, <<>>)
    <2>1. subscription.id \in Nat
      BY DEF Base, TypeOK
    <2>2. work \in JobRecord
      BY <2>1, EntriesType DEF Work, JobRecord, Operations
    <2>3. work.on = "tenant" /\ "tenant" \notin Payout
      BY FinanceAssumption DEF Work
    <2>4. PICK stage \in {"cancelling", "cancelled"} : Goto(c, stage, work)
      BY <1>12 DEF Cancel
    <2> HIDE DEF work
    <2>5. Fits(stage, work) /\ Current(stage, work)
      BY <2>3, <2>4 DEF Fits, Current
    <2>6. Keeps(c, stage, work)
      BY <1>12, <2>3 DEF Cancel, Begin, Keeps
    <2> QED
      BY <1>12, <2>2, <2>4, <2>5, <2>6 DEF Cancel, Stage
  <1>13. CASE Fail(c)
    BY <1>13, NoJobFits DEF Fail, End, Stage, Keeps, Current
  <1>14. CASE SkipStripe(c)
    <2> DEFINE work == Work("subscribe", "tenant", 0, 0, <<>>)
    <2>1. work \in JobRecord
      BY EntriesType DEF Work, JobRecord, Operations
    <2>2. work.on = "tenant" /\ "tenant" \notin Payout
      BY FinanceAssumption DEF Work
    <2>3. Goto(c, "recording", work) /\ pc[c] = "signing"
      BY <1>14 DEF SkipStripe
    <2> HIDE DEF work
    <2>4. Fits("recording", work) /\ Current("recording", work)
      BY <2>2 DEF Fits, Current
    <2>5. Keeps(c, "recording", work)
      <3>1. Fits(pc[c], job[c])
        BY DEF Base, JobShape
      <3>2. job[c].on = "tenant"
        BY <2>3, <3>1 DEF Fits
      <3> QED
        BY <2>2, <2>3, <3>2 DEF Keeps
    <2> QED
      BY <1>14, <2>1, <2>3, <2>4, <2>5 DEF SkipStripe, Stage
  <1> QED
    BY <1>4, <1>5, <1>6, <1>7, <1>8, <1>9, <1>10, <1>11, <1>12, <1>13, <1>14 DEF Reads

\* A reconciled row keeps what it expects, and takes the amount and the variance.
LEMMA ReconciledRow ==
    ASSUME NEW row \in PayoutRow, NEW amount \in Int, NEW expected \in Int
    PROVE  /\ Reconciled(row, amount, expected) \in PayoutRow
           /\ Reconciled(row, amount, expected).expected = row.expected
           /\ Reconciled(row, amount, expected).amount = amount
           /\ Reconciled(row, amount, expected).variance = amount - expected
           /\ Reconciled(row, amount, expected).status \in {"RECONCILED", "VARIANCE_FLAGGED"}
  <1> DEFINE status == IF MajorVariance(amount - expected, expected) THEN "VARIANCE_FLAGGED"
                                                                     ELSE "RECONCILED"
             variance == amount - expected
  <1>1. status \in {"RECONCILED", "VARIANCE_FLAGGED"} /\ variance \in Int
    OBVIOUS
  <1>2. Reconciled(row, amount, expected) =
            [row EXCEPT !.amount = amount, !.variance = variance, !.status = status]
    BY DEF Reconciled
  <1> HIDE DEF status
  <1> QED
    BY <1>1, <1>2 DEF PayoutRow

\* What committing does: the entries its row calls for, and the row.
LEMMA CommitTypes ==
    ASSUME Base, NEW c \in Call, Commit(c)
    PROVE  /\ revenue' \in [Order -> Nat] /\ fee' \in [Order -> Nat]
           /\ paid' \in [Expense -> Nat]
           /\ received' \in [Payout -> Seq(1..MaxAmount)]
           /\ expense' \in [Expense -> {"PENDING", "APPROVED", "REJECTED"}]
           /\ payout' \in [Payout -> PayoutRow]
           /\ \A p \in Payout : payout'[p].status = "none" => received'[p] = <<>>
           /\ Created
  <1>1. job[c] \in JobRecord /\ pc[c] = "posting" /\ Fits("posting", job[c])
    BY DEF Base, TypeOK, JobShape, Commit
  <1>2. revenue' \in [Order -> Nat]
    <2>1. revenue' = [o \in Order |-> revenue[o] + IF job[c].on = o THEN 1 ELSE 0] /\ revenue \in [Order -> Nat]
      BY DEF Base, TypeOK, Commit
    <2> QED
      BY <2>1
  <1>3. fee' \in [Order -> Nat]
    <2>1. /\ fee \in [Order -> Nat]
          /\ fee' = [o \in Order |-> fee[o] + IF job[c].on = o /\ Posted(c, "order_fees") THEN 1 ELSE 0]
      BY DEF Base, TypeOK, Commit
    <2> QED
      BY <2>1
  <1>4. paid' \in [Expense -> Nat]
    <2>1. paid' = [x \in Expense |-> paid[x] + IF job[c].on = x THEN 1 ELSE 0] /\ paid \in [Expense -> Nat]
      BY DEF Base, TypeOK, Commit
    <2> QED
      BY <2>1
  <1>5. ASSUME NEW p \in Payout PROVE received'[p] \in Seq(1..MaxAmount)
    <2>1. received[p] \in Seq(1..MaxAmount)
      BY DEF Base, TypeOK
    <2>2. CASE job[c].on = p /\ Posted(c, "payout")
      <3>1. p \notin Order /\ p \notin Expense
        BY FinanceAssumption
      <3>2. job[c].posts # <<>>
        BY <2>2 DEF Posted
      <3>3. job[c].amount \in 1..MaxAmount
        BY <1>1, <2>2, <3>1, <3>2, FinanceAssumption DEF Fits, JobRecord
      <3>4. received'[p] = Append(received[p], job[c].amount)
        BY <2>2 DEF Commit
      <3> QED
        BY <2>1, <3>3, <3>4
    <2>3. CASE ~(job[c].on = p /\ Posted(c, "payout"))
      BY <2>1, <2>3 DEF Commit
    <2> QED
      BY <2>2, <2>3
  <1>6. received' \in [Payout -> Seq(1..MaxAmount)]
    <2>1. received' = [p \in Payout |-> received'[p]]
      BY DEF Commit
    <2> QED
      BY <1>5, <2>1
  <1>7. expense' \in [Expense -> {"PENDING", "APPROVED", "REJECTED"}]
    BY DEF Base, TypeOK, Commit
  <1>8. ASSUME NEW p \in Payout
        PROVE  /\ payout'[p] \in PayoutRow
               /\ payout[p].status # "none" => payout'[p].status # "none"
               /\ payout'[p].status = "none" => received'[p] = <<>>
    <2>1. /\ payout[p] \in PayoutRow
          /\ payout[p].status = "none" => received[p] = <<>>
      BY DEF Base, TypeOK
    <2>2. CASE job[c].on = p
      <3>1. payout'[p] = Reconciled(payout[p], job[c].amount, job[c].expected)
        BY <2>2 DEF Commit
      <3>2. job[c].amount \in Int /\ job[c].expected \in Int
        BY <1>1 DEF JobRecord
      <3> QED
        BY <2>1, <3>1, <3>2, ReconciledRow DEF PayoutRow
    <2>3. CASE job[c].on # p
      BY <2>1, <2>3 DEF Commit
    <2> QED
      BY <2>2, <2>3
  <1>9. payout' \in [Payout -> PayoutRow]
    <2>1. payout' = [p \in Payout |-> payout'[p]]
      BY DEF Commit
    <2> QED
      BY <1>8, <2>1
  <1> QED
    BY <1>2, <1>3, <1>4, <1>6, <1>7, <1>8, <1>9 DEF Created

LEMMA BaseInit == Init => Base
  <1> SUFFICES ASSUME Init PROVE Base
    OBVIOUS
  <1>1. NoJob \in JobRecord /\ Fits("idle", NoJob)
    BY NoJobFits
  <1>2. TypeOK
    <2>1. <<>> \in Seq(1..MaxAmount)
      OBVIOUS
    <2>2. received \in [Payout -> Seq(1..MaxAmount)] /\ \A p \in Payout : received[p] = <<>>
      BY <2>1 DEF Init
    <2>3. payout \in [Payout -> PayoutRow]
      BY DEF Init, NoPayout, PayoutRow
    <2>4. /\ subscription \in [row : BOOLEAN, id : Nat, cancelling : BOOLEAN]
          /\ stripe \in [created : Nat, cancelling : SUBSET Nat]
          /\ grants \in Nat
      BY DEF Init, NoSubscription
    <2>5. pc \in [Call -> Stage] /\ job \in [Call -> JobRecord]
      BY <1>1 DEF Init, Stage
    <2> QED
      BY <2>2, <2>3, <2>4, <2>5 DEF Init, TypeOK
  <1>3. JobShape
    BY <1>1 DEF Init, JobShape
  <1> QED
    BY <1>2, <1>3 DEF Base

LEMMA BaseStep == Base /\ [Next]_vars => Base'
  <1> SUFFICES ASSUME Base, [Next]_vars PROVE Base'
    OBVIOUS
  <1> USE DEF given, ordinary, rows, billing
  <1>1. ASSUME NEW c \in Call, Reads(c) PROVE Base'
    <2>1. PICK stage \in Stage, work \in JobRecord : Goto(c, stage, work) /\ Fits(stage, work)
      BY <1>1, ReadMoves
    <2>2. UNCHANGED <<given, known, locked, ordinary, adjustment, rows, billing>>
      BY <1>1, ReadMoves
    <2>3. Created /\ Fits(stage, work)'
      BY <2>1, <2>2 DEF Created, Fits
    <2>4. /\ pc' \in [Call -> Stage] /\ job' \in [Call -> JobRecord]
          /\ JobShape'
      BY <2>1, <2>2, <2>3, MoveFits
    <2> QED
      BY <2>2, <2>4 DEF Base, TypeOK
  <1>2. ASSUME NEW c \in Call, Commit(c) PROVE Base'
    <2>1. Goto(c, "idle", NoJob) /\ order' = order
      BY <1>2 DEF Commit, End
    <2>2. NoJob \in JobRecord /\ Fits("idle", NoJob)'
      BY NoJobFits
    <2>3. Created
      BY <1>2, CommitTypes
    <2>4. /\ pc' \in [Call -> Stage] /\ job' \in [Call -> JobRecord]
          /\ JobShape'
      BY <2>1, <2>2, <2>3, MoveFits DEF Stage
    <2>5. TypeOK'
      BY <1>2, <2>4, CommitTypes DEF Base, TypeOK, Commit
    <2> QED
      BY <2>4, <2>5 DEF Base
  <1>3. ASSUME NEW c \in Call, WriteRejected(c) PROVE Base'
    <2>1. Goto(c, "idle", NoJob) /\ order' = order /\ payout' = payout
      BY <1>3 DEF WriteRejected, End
    <2>2. NoJob \in JobRecord /\ Fits("idle", NoJob)' /\ Created
      BY <2>1, NoJobFits DEF Created
    <2>3. /\ pc' \in [Call -> Stage] /\ job' \in [Call -> JobRecord]
          /\ JobShape'
      BY <2>1, <2>2, MoveFits DEF Stage
    <2>4. TypeOK'
      BY <1>3, <2>3 DEF Base, TypeOK, WriteRejected
    <2> QED
      BY <2>3, <2>4 DEF Base
  <1>4. ASSUME NEW c \in Call, WriteExpected(c) PROVE Base'
    <2>1. Goto(c, "idle", NoJob) /\ order' = order
      BY <1>4 DEF WriteExpected, End
    <2>2. /\ job[c].expected \in Int /\ payout \in [Payout -> PayoutRow]
          /\ pc[c] = "expecting" /\ Fits("expecting", job[c])
      BY <1>4 DEF Base, TypeOK, JobShape, JobRecord, WriteExpected
    <2>3. /\ payout' \in [Payout -> PayoutRow] /\ Created
          /\ \A p \in Payout : payout'[p].status = "none" => payout[p].status = "none"
      <3>1. CASE job[c].on \in Payout
        <4>1. payout' = [payout EXCEPT ![job[c].on].expected = job[c].expected]
          BY <1>4, <3>1 DEF WriteExpected
        <4> QED
          BY <2>2, <3>1, <4>1 DEF Created, PayoutRow
      <3>2. CASE job[c].on \notin Payout
        <4>1. PICK p \in Payout : payout' = [payout EXCEPT ![p] =
                [status |-> "EXPECTED", expected |-> job[c].expected, amount |-> 0, variance |-> 0]]
          BY <1>4, <3>2 DEF WriteExpected
        <4> QED
          BY <2>2, <4>1 DEF Created, PayoutRow
      <3> QED
        BY <3>1, <3>2
    <2>4. NoJob \in JobRecord /\ Fits("idle", NoJob)'
      BY NoJobFits
    <2>5. /\ pc' \in [Call -> Stage] /\ job' \in [Call -> JobRecord]
          /\ JobShape'
      BY <2>1, <2>3, <2>4, MoveFits DEF Stage
    <2>6. TypeOK'
      BY <1>4, <2>3, <2>5 DEF Base, TypeOK, WriteExpected
    <2> QED
      BY <2>5, <2>6 DEF Base
  <1>5. ASSUME NEW c \in Call, CreateAtStripe(c) PROVE Base'
    <2>1. PICK work : work = [job[c] EXCEPT !.amount = stripe.created + 1]
      OBVIOUS
    <2>2. Goto(c, "recording", work) /\ pc[c] = "signing" /\ order' = order /\ payout' = payout
      BY <1>5, <2>1 DEF CreateAtStripe
    <2>3. job[c] \in JobRecord /\ Fits("signing", job[c]) /\ stripe.created + 1 \in Nat
      BY <2>2 DEF Base, TypeOK, JobShape
    <2>4. work \in JobRecord /\ work.on = job[c].on
      BY <2>1, <2>3 DEF JobRecord
    <2>5. Fits("recording", work)' /\ Created
      BY <2>2, <2>3, <2>4 DEF Fits, Created
    <2>6. /\ pc' \in [Call -> Stage] /\ job' \in [Call -> JobRecord]
          /\ JobShape'
      BY <2>2, <2>4, <2>5, MoveFits DEF Stage
    <2>7. stripe' \in [created : Nat, cancelling : SUBSET Nat]
      <3>1. stripe \in [created : Nat, cancelling : SUBSET Nat]
        BY DEF Base, TypeOK
      <3>2. stripe' = [stripe EXCEPT !.created = stripe.created + 1]
        BY <1>5 DEF CreateAtStripe
      <3> QED
        BY <2>3, <3>1, <3>2
    <2>8. TypeOK'
      BY <1>5, <2>6, <2>7 DEF Base, TypeOK, CreateAtStripe
    <2> QED
      BY <2>6, <2>8 DEF Base
  <1>6. ASSUME NEW c \in Call, CreateSubscription(c) PROVE Base'
    <2>1. job[c] \in JobRecord /\ Fits("recording", job[c]) /\ payout' = payout /\ order' = order
      BY <1>6 DEF Base, TypeOK, JobShape, CreateSubscription
    <2>2. Created
      BY <2>1 DEF Created
    <2>3. PICK stage \in Stage, work \in JobRecord : Goto(c, stage, work) /\ Fits(stage, work)'
      <3>1. CASE ~subscription.row
        <4>1. PICK work \in JobRecord : work = job[c]
          BY <2>1
        <4>2. Goto(c, "granting", work)
          BY <1>6, <3>1, <4>1 DEF CreateSubscription
        <4>3. Fits("granting", work)'
          BY <2>1, <4>1 DEF Fits
        <4> QED
          BY <4>2, <4>3 DEF Stage
      <3>2. CASE subscription.row
        <4>1. Goto(c, "idle", NoJob) /\ NoJob \in JobRecord /\ Fits("idle", NoJob)'
          BY <1>6, <3>2, NoJobFits DEF CreateSubscription, End
        <4> QED
          BY <4>1 DEF Stage
      <3> QED
        BY <3>1, <3>2
    <2>4. /\ pc' \in [Call -> Stage] /\ job' \in [Call -> JobRecord]
          /\ JobShape'
      BY <2>1, <2>2, <2>3, MoveFits
    <2>5. subscription' \in [row : BOOLEAN, id : Nat, cancelling : BOOLEAN]
      <3>1. subscription \in [row : BOOLEAN, id : Nat, cancelling : BOOLEAN] /\ job[c].amount \in Nat
        BY <2>1 DEF Base, TypeOK, JobRecord
      <3>2. \/ subscription' = [row |-> TRUE, id |-> job[c].amount, cancelling |-> FALSE]
            \/ subscription' = subscription
        BY <1>6 DEF CreateSubscription
      <3>3. [row |-> TRUE, id |-> job[c].amount, cancelling |-> FALSE] \in [row : BOOLEAN, id : Nat, cancelling : BOOLEAN]
        BY <3>1
      <3> QED
        BY <3>1, <3>2, <3>3, Zenon
    <2>6. TypeOK'
      BY <1>6, <2>4, <2>5 DEF Base, TypeOK, CreateSubscription
    <2> QED
      BY <2>4, <2>6 DEF Base
  <1>7. ASSUME NEW c \in Call, Grant(c) \/ RecordCancelled(c) PROVE Base'
    <2>1. Goto(c, "idle", NoJob) /\ order' = order /\ payout' = payout
      BY <1>7 DEF Grant, RecordCancelled, End
    <2>2. NoJob \in JobRecord /\ Fits("idle", NoJob)' /\ Created
      BY <2>1, NoJobFits DEF Created
    <2>3. /\ pc' \in [Call -> Stage] /\ job' \in [Call -> JobRecord]
          /\ JobShape'
      BY <2>1, <2>2, MoveFits DEF Stage
    <2>4. subscription' \in [row : BOOLEAN, id : Nat, cancelling : BOOLEAN] /\ grants' \in Nat
      <3>1. subscription \in [row : BOOLEAN, id : Nat, cancelling : BOOLEAN] /\ grants \in Nat
        BY DEF Base, TypeOK
      <3>2. \/ subscription' = subscription
            \/ subscription' = [subscription EXCEPT !.cancelling = TRUE]
        BY <1>7 DEF Grant, RecordCancelled
      <3>3. grants' \in {grants, grants + 1}
        BY <1>7 DEF Grant, RecordCancelled
      <3>4. [subscription EXCEPT !.cancelling = TRUE] \in [row : BOOLEAN, id : Nat, cancelling : BOOLEAN]
        BY <3>1
      <3>5. subscription' \in [row : BOOLEAN, id : Nat, cancelling : BOOLEAN]
        BY <3>1, <3>2, <3>4, Zenon
      <3> QED
        BY <3>1, <3>3, <3>5
    <2>5. UNCHANGED <<given, known, locked, ordinary, adjustment, rows, stripe>>
      BY <1>7 DEF Grant, RecordCancelled
    <2>6. TypeOK'
      BY <2>3, <2>4, <2>5 DEF Base, TypeOK
    <2> QED
      BY <2>3, <2>6 DEF Base
  <1>8. ASSUME NEW c \in Call, CancelAtStripe(c) PROVE Base'
    <2>1. PICK work : work = job[c]
      OBVIOUS
    <2>2. Goto(c, "cancelled", work) /\ pc[c] = "cancelling" /\ order' = order /\ payout' = payout
      BY <1>8, <2>1 DEF CancelAtStripe
    <2>3. work \in JobRecord /\ Fits("cancelling", work) /\ work.amount \in Nat
      BY <2>1, <2>2 DEF Base, TypeOK, JobShape, JobRecord
    <2>4. Fits("cancelled", work)' /\ Created
      BY <2>2, <2>3 DEF Fits, Created
    <2>5. /\ pc' \in [Call -> Stage] /\ job' \in [Call -> JobRecord]
          /\ JobShape'
      BY <2>2, <2>3, <2>4, MoveFits DEF Stage
    <2>6. stripe' \in [created : Nat, cancelling : SUBSET Nat]
      BY <1>8, <2>1, <2>3 DEF Base, TypeOK, CancelAtStripe
    <2>7. TypeOK'
      BY <1>8, <2>5, <2>6 DEF Base, TypeOK, CancelAtStripe
    <2> QED
      BY <2>5, <2>7 DEF Base
  <1>9. ASSUME \/ \E o \in Order : Ingest(o)
               \/ Lock \/ Unlock
               \/ \E pair \in Adjustments : Correct(pair[1], pair[2])
        PROVE  Base'
    <2>1. UNCHANGED <<order, payout, pc, job>>
      BY <1>9 DEF Ingest, Lock, Unlock, Correct
    <2>2. JobShape'
      BY <2>1 DEF Base, JobShape, Fits
    <2>3. adjustment' \in Adjustments \cup {NoAdjustment}
      <3>1. CASE \E pair \in Adjustments : Correct(pair[1], pair[2])
        <4>1. PICK pair \in Adjustments : Correct(pair[1], pair[2])
          BY <3>1
        <4>2. pair \in Account \X Account
          BY FinanceAssumption
        <4>3. adjustment' = pair
          BY <4>1, <4>2 DEF Correct
        <4> QED
          BY <4>3
      <3>2. CASE ~\E pair \in Adjustments : Correct(pair[1], pair[2])
        BY <1>9, <3>2 DEF Base, TypeOK, Ingest, Lock, Unlock
      <3> QED
        BY <3>1, <3>2
    <2>4. known' \subseteq Order /\ locked' \in BOOLEAN
      BY <1>9 DEF Base, TypeOK, Ingest, Lock, Unlock, Correct
    <2>5. UNCHANGED <<given, ordinary, rows, billing, pc, job>>
      BY <1>9 DEF Ingest, Lock, Unlock, Correct
    <2>6. TypeOK'
      BY <2>3, <2>4, <2>5 DEF Base, TypeOK
    <2> QED
      BY <2>2, <2>6 DEF Base
  <1>10. CASE UNCHANGED vars
    BY <1>10 DEF Base, TypeOK, JobShape, Fits, vars
  <1> QED
    BY <1>1, <1>2, <1>3, <1>4, <1>5, <1>6, <1>7, <1>8, <1>9, <1>10, Zenon DEF Next, Reads

\* Every call holds what its stage needs, and every row is of its type.
THEOREM BaseHolds == Spec => []Base
  <1>1. Init => Base
    BY BaseInit
  <1>2. Base /\ [Next]_vars => Base'
    BY BaseStep
  <1> QED
    BY <1>1, <1>2, PTL DEF Spec

-----------------------------------------------------------------------------
(* What is posted, and when *)

\* Which entries a call holds.
LEMMA EntriesHeld ==
    ASSUME NEW c \in Call, Fits("posting", job[c])
    PROVE  /\ job[c].on \in Order \cup Expense \cup Payout
           /\ job[c].on \in Order =>
                /\ Posted(c, "order_fees") <=> FeeSum(order[job[c].on]) > 0
                /\ Reconciles(order[job[c].on]) /\ job[c].posts # <<>>
           /\ job[c].on \in Expense => job[c].posts # <<>>
           /\ job[c].on \in Payout =>
                /\ Posted(c, "payout") <=> job[c].amount > 0
                /\ job[c].posts # <<>> <=> job[c].amount > 0
  <1>1. job[c].on \in Order \cup Expense \cup Payout
    BY DEF Fits
  <1>2. ASSUME job[c].on \in Order
        PROVE  /\ Posted(c, "order_fees") <=> FeeSum(order[job[c].on]) > 0
               /\ Reconciles(order[job[c].on]) /\ job[c].posts # <<>>
    <2>1. job[c].posts = OrderEntries(order[job[c].on]) /\ Reconciles(order[job[c].on])
      BY <1>2, FinanceAssumption DEF Fits
    <2>2. CASE FeeSum(order[job[c].on]) > 0
      <3>1. job[c].posts = <<"order_revenue", "order_fees">>
        BY <2>1, <2>2 DEF OrderEntries
      <3>2. 2 \in DOMAIN job[c].posts /\ job[c].posts[2] = "order_fees"
        BY <3>1
      <3> QED
        BY <2>1, <2>2, <3>2 DEF Posted
    <2>3. CASE ~(FeeSum(order[job[c].on]) > 0)
      <3>1. job[c].posts = <<"order_revenue">>
        BY <2>1, <2>3 DEF OrderEntries
      <3>2. DOMAIN job[c].posts = {1} /\ job[c].posts[1] = "order_revenue"
        BY <3>1
      <3> QED
        BY <2>1, <2>3, <3>2 DEF Posted
    <2> QED
      BY <2>2, <2>3
  <1>3. ASSUME job[c].on \in Expense PROVE job[c].posts # <<>>
    <2>1. job[c].posts = <<"expense">>
      BY <1>3, FinanceAssumption DEF Fits
    <2> QED
      BY <2>1
  <1>4. ASSUME job[c].on \in Payout
        PROVE  /\ Posted(c, "payout") <=> job[c].amount > 0
               /\ job[c].posts # <<>> <=> job[c].amount > 0
    <2>1. job[c].posts = IF job[c].amount > 0 THEN <<"payout">> ELSE <<>>
      BY <1>4, FinanceAssumption DEF Fits
    <2>2. CASE job[c].amount > 0
      <3>1. job[c].posts = <<"payout">>
        BY <2>1, <2>2
      <3>2. 1 \in DOMAIN job[c].posts /\ job[c].posts[1] = "payout"
        BY <3>1
      <3> QED
        BY <2>2, <3>1, <3>2 DEF Posted
    <2>3. CASE ~(job[c].amount > 0)
      <3>1. job[c].posts = <<>>
        BY <2>1, <2>3
      <3> QED
        BY <2>3, <3>1 DEF Posted
    <2> QED
      BY <2>2, <2>3
  <1> QED
    BY <1>1, <1>2, <1>3, <1>4

\* Only a commit reaches the ledger's ordinary entries.
LEMMA OnlyCommitsPost ==
    ASSUME Base, [Next]_vars, ~\E c \in Call : Commit(c)
    PROVE  UNCHANGED <<given, ordinary>>
  <1> USE DEF given, ordinary
  <1>1. ASSUME NEW c \in Call, Reads(c) PROVE UNCHANGED <<given, ordinary>>
    BY <1>1, ReadMoves
  <1>2. ASSUME NEW c \in Call,
               \/ WriteRejected(c) \/ WriteExpected(c) \/ CreateAtStripe(c) \/ CreateSubscription(c)
               \/ Grant(c) \/ CancelAtStripe(c) \/ RecordCancelled(c)
        PROVE  UNCHANGED <<given, ordinary>>
    BY <1>2 DEF WriteRejected, WriteExpected, CreateAtStripe, CreateSubscription, Grant,
                CancelAtStripe, RecordCancelled
  <1>3. CASE \/ \E o \in Order : Ingest(o)
             \/ Lock \/ Unlock
             \/ \E pair \in Adjustments : Correct(pair[1], pair[2])
    BY <1>3 DEF Ingest, Lock, Unlock, Correct
  <1>4. CASE UNCHANGED vars
    BY <1>4 DEF vars
  <1> QED
    BY <1>1, <1>2, <1>3, <1>4, Zenon DEF Next, Reads

\* An order in the ledger had a total that is the sum of its parts.
RecognizedReconcile == \A o \in Order : revenue[o] > 0 => Reconciles(order[o])

LedgerInv == FeesFollowRevenue /\ RecognizedReconcile

LEMMA LedgerStep == Base /\ LedgerInv /\ [Next]_vars => LedgerInv'
  <1> SUFFICES ASSUME Base, LedgerInv, [Next]_vars PROVE LedgerInv'
    OBVIOUS
  <1>1. ASSUME NEW c \in Call, Commit(c) PROVE LedgerInv'
    <2>1. Fits("posting", job[c]) /\ order' = order
      BY <1>1 DEF Base, JobShape, Commit, given
    <2>2. ASSUME NEW o \in Order
          PROVE  /\ fee'[o] = IF FeeSum(order[o]) > 0 THEN revenue'[o] ELSE 0
                 /\ revenue'[o] > 0 => Reconciles(order[o])
      <3>1. /\ revenue[o] \in Nat /\ fee[o] = IF FeeSum(order[o]) > 0 THEN revenue[o] ELSE 0
            /\ revenue[o] > 0 => Reconciles(order[o])
        BY DEF Base, TypeOK, LedgerInv, FeesFollowRevenue, RecognizedReconcile
      <3>2. /\ revenue'[o] = revenue[o] + IF job[c].on = o THEN 1 ELSE 0
            /\ fee'[o] = fee[o] + IF job[c].on = o /\ Posted(c, "order_fees") THEN 1 ELSE 0
        BY <1>1 DEF Commit
      <3>3. job[c].on = o => Reconciles(order[o]) /\ (Posted(c, "order_fees") <=> FeeSum(order[o]) > 0)
        BY <2>1, EntriesHeld
      <3> QED
        BY <3>1, <3>2, <3>3
    <2> QED
      BY <2>1, <2>2 DEF LedgerInv, FeesFollowRevenue, RecognizedReconcile
  <1>2. CASE ~\E c \in Call : Commit(c)
    <2>1. UNCHANGED <<order, revenue, fee>>
      BY <1>2, OnlyCommitsPost DEF given, ordinary
    <2> QED
      BY <2>1 DEF LedgerInv, FeesFollowRevenue, RecognizedReconcile
  <1> QED
    BY <1>1, <1>2

\* Fees are posted with the revenue they belong to, and only for an order
\* whose total is the sum of its parts.
THEOREM LedgerHolds == Spec => []LedgerInv
  <1>1. Init => LedgerInv
    BY DEF Init, LedgerInv, FeesFollowRevenue, RecognizedReconcile
  <1>2. Base /\ LedgerInv /\ [Next]_vars => LedgerInv'
    BY LedgerStep
  <1> QED
    BY <1>1, <1>2, BaseHolds, PTL DEF Spec

\* In a locked period a call that posts has been answered before the lock.
LEMMA LockStep ==
    Base /\ [Next]_vars =>
        ((locked /\ locked' /\ ~\E c \in Call : Passed(c))
            => ordinary' = ordinary /\ ~\E c \in Call : Passed(c)')
  <1> SUFFICES ASSUME Base, [Next]_vars, locked, ~\E c \in Call : Passed(c)
               PROVE  ordinary' = ordinary /\ ~\E c \in Call : Passed(c)'
    OBVIOUS
  <1>1. ordinary' = ordinary
    <2>1. ASSUME NEW c \in Call, Commit(c) PROVE ordinary' = ordinary
      <3>1. Fits("posting", job[c]) /\ job[c].posts = <<>>
        BY <2>1 DEF Base, JobShape, Commit, Passed
      <3>2. job[c].on \in Payout /\ ~Posted(c, "payout")
        BY <3>1, EntriesHeld
      <3>3. job[c].on \notin Order /\ job[c].on \notin Expense
        BY <3>2, FinanceAssumption
      <3>4. revenue' = revenue
        <4>1. revenue \in [Order -> Nat] /\ revenue' = [o \in Order |-> revenue[o] + IF job[c].on = o THEN 1 ELSE 0]
          BY <2>1 DEF Base, TypeOK, Commit
        <4> QED
          BY <3>3, <4>1
      <3>5. fee' = fee
        <4>1. /\ fee \in [Order -> Nat]
              /\ fee' = [o \in Order |-> fee[o] + IF job[c].on = o /\ Posted(c, "order_fees") THEN 1 ELSE 0]
          BY <2>1 DEF Base, TypeOK, Commit
        <4> QED
          BY <3>3, <4>1
      <3>6. paid' = paid
        <4>1. paid \in [Expense -> Nat] /\ paid' = [x \in Expense |-> paid[x] + IF job[c].on = x THEN 1 ELSE 0]
          BY <2>1 DEF Base, TypeOK, Commit
        <4> QED
          BY <3>3, <4>1
      <3>7. received' = received
        BY <2>1, <3>2 DEF Base, TypeOK, Commit
      <3> QED
        BY <3>4, <3>5, <3>6, <3>7 DEF ordinary
    <2>2. CASE ~\E c \in Call : Commit(c)
      BY <2>2, OnlyCommitsPost
    <2> QED
      BY <2>1, <2>2
  <1>2. ASSUME NEW d \in Call PROVE ~Passed(d)'
    <2>1. ASSUME NEW c \in Call, NEW stage \in Stage, NEW work \in JobRecord,
                 Goto(c, stage, work),
                 stage # "posting" \/ work.posts = <<>> \/ work.checked # Len(work.posts)
          PROVE  ~Passed(d)'
      <3>1. pc \in [Call -> Stage] /\ job \in [Call -> JobRecord]
        BY DEF Base, TypeOK
      <3>2. CASE d = c
        BY <2>1, <3>1, <3>2 DEF Goto, Passed
      <3>3. CASE d # c
        BY <2>1, <3>1, <3>3 DEF Goto, Passed
      <3> QED
        BY <3>2, <3>3
    <2>2. NoJob \in JobRecord
      BY NoJobFits
    <2>3. \A c \in Call : job[c] \in JobRecord
      BY DEF Base, TypeOK
    <2>4. ASSUME NEW c \in Call, Reads(c) PROVE ~Passed(d)'
      <3>1. PICK stage \in Stage, work \in JobRecord : Goto(c, stage, work) /\ Fits(stage, work)
        BY <2>4, ReadMoves
      <3>2. \/ stage # "posting" \/ work.posts = <<>> \/ work.checked # Len(work.posts)
        <4>1. CASE CheckPeriod(c)
          <5>1. pc'[c] = "idle"
            BY <4>1 DEF CheckPeriod, End, Goto, Base, TypeOK
          <5> QED
            BY <3>1, <5>1 DEF Goto, Base, TypeOK
        <4>2. CASE ~CheckPeriod(c)
          <5>1. pc \in [Call -> Stage] /\ job \in [Call -> JobRecord]
            BY DEF Base, TypeOK
          <5>2. pc'[c] = stage /\ job'[c] = work
            BY <3>1, <5>1 DEF Goto
          <5>3. pc'[c] = "posting" => job'[c].checked = 0
            <6>1. ASSUME NEW op, NEW on, NEW amount, NEW expected, NEW posts
                  PROVE  Work(op, on, amount, expected, posts).checked = 0
              BY DEF Work
            <6>2. CASE \E o \in Order : Recognize(c, o)
              BY <5>1, <6>1, <6>2 DEF Recognize, Goto
            <6>3. CASE \E x \in Expense : Approve(c, x)
              BY <5>1, <6>1, <6>3 DEF Approve, Goto
            <6>7. CASE \E x \in Expense : Reject(c, x)
              BY <5>1, <6>7 DEF Reject, Goto
            <6>4. CASE \E p \in Payout, amount \in 0..MaxAmount : Reconcile(c, p, amount)
              BY <5>1, <6>1, <6>4 DEF Reconcile, Goto
            <6>5. CASE FindOpen(c) \/ ComputeExpected(c)
              BY <5>1, <6>5 DEF FindOpen, ComputeExpected, Goto
            <6>6. CASE Subscribe(c) \/ SkipStripe(c) \/ Cancel(c) \/ Fail(c)
              BY <5>1, <6>6 DEF Subscribe, SkipStripe, Cancel, Fail, End, Goto
            <6> QED
              BY <2>4, <4>2, <6>2, <6>3, <6>4, <6>5, <6>6, <6>7 DEF Reads
          <5>4. ASSUME stage = "posting", work.posts # <<>>, work.checked = 0
                PROVE  work.checked # Len(work.posts)
            <6>1. work.posts \in Seq(Source)
              BY DEF JobRecord
            <6> QED
              BY <5>4, <6>1
          <5> QED
            BY <5>2, <5>3, <5>4
        <4> QED
          BY <4>1, <4>2
      <3> QED
        BY <2>1, <3>1, <3>2
    <2>5. ASSUME NEW c \in Call, Commit(c) \/ WriteRejected(c) \/ WriteExpected(c) \/ Grant(c) \/ RecordCancelled(c)
          PROVE  ~Passed(d)'
      <3>1. Goto(c, "idle", NoJob)
        BY <2>5 DEF Commit, WriteRejected, WriteExpected, Grant, RecordCancelled, End
      <3> QED
        BY <2>1, <2>2, <3>1 DEF Stage
    <2>6. ASSUME NEW c \in Call, CreateAtStripe(c) \/ CreateSubscription(c) \/ CancelAtStripe(c)
          PROVE  ~Passed(d)'
      <3>1. pc'[c] # "posting" /\ \A e \in Call \ {c} : pc'[e] = pc[e] /\ job'[e] = job[e]
        <4>1. pc \in [Call -> Stage] /\ job \in [Call -> JobRecord]
          BY DEF Base, TypeOK
        <4>2. CASE CreateAtStripe(c)
          BY <4>1, <4>2 DEF CreateAtStripe, Goto
        <4>3. CASE CreateSubscription(c)
          BY <4>1, <4>3 DEF CreateSubscription, End, Goto
        <4>4. CASE CancelAtStripe(c)
          BY <4>1, <4>4 DEF CancelAtStripe, Goto
        <4> QED
          BY <2>6, <4>2, <4>3, <4>4
      <3> QED
        BY <3>1 DEF Passed
    <2>7. CASE UNCHANGED <<pc, job>>
      BY <2>7 DEF Passed
    <2>8. ASSUME \/ \E o \in Order : Ingest(o)
                 \/ Lock \/ Unlock
                 \/ \E pair \in Adjustments : Correct(pair[1], pair[2])
          PROVE  ~Passed(d)'
      BY <2>7, <2>8 DEF Ingest, Lock, Unlock, Correct
    <2>9. CASE UNCHANGED vars
      BY <2>7, <2>9 DEF vars
    <2> QED
      BY <2>4, <2>5, <2>6, <2>8, <2>9, Zenon DEF Next, Reads
  <1> QED
    BY <1>1, <1>2

\* Once the calls that were answered before the lock have ended, the ordinary
\* entries of a locked period stand still.
THEOREM LockIsKept == Spec => LockHolds
  <1>1. Base /\ [Next]_vars =>
            ((locked /\ locked' /\ ~\E c \in Call : Passed(c))
                => ordinary' = ordinary /\ ~\E c \in Call : Passed(c)')
    BY LockStep
  <1> QED
    BY <1>1, BaseHolds, PTL DEF Spec, LockHolds

-----------------------------------------------------------------------------
(* Calls that do not overlap on a row *)

\* No two calls work on one row, nor on two payouts of the period.
Exclusive == Orderly => \A c, d \in Call :
    c # d /\ pc[c] # "idle" /\ pc[d] # "idle" => ~SameRow(job[c].on, job[d].on)

\* So what a call has read of its row is true until it writes the row.
ReadsAreCurrent == Orderly => \A c \in Call : Current(pc[c], job[c])

OnceInv == Exclusive /\ ReadsAreCurrent /\ PostedOnce /\ ReconciledAgrees

LEMMA KeepsStep ==
    ASSUME Base, [Next]_vars
    PROVE  \/ UNCHANGED <<pc, job>>
           \/ \E c \in Call, stage \in Stage, work \in JobRecord :
                Goto(c, stage, work) /\ Keeps(c, stage, work)
  <1>1. ASSUME NEW c \in Call, Reads(c)
        PROVE  \E stage \in Stage, work \in JobRecord : Goto(c, stage, work) /\ Keeps(c, stage, work)
    BY <1>1, ReadMoves
  <1>2. ASSUME NEW c \in Call, Goto(c, "idle", NoJob)
        PROVE  \E stage \in Stage, work \in JobRecord : Goto(c, stage, work) /\ Keeps(c, stage, work)
    BY <1>2, NoJobFits DEF Keeps, Stage
  <1>3. ASSUME NEW c \in Call, Commit(c) \/ WriteRejected(c) \/ WriteExpected(c) \/ Grant(c) \/ RecordCancelled(c)
        PROVE  Goto(c, "idle", NoJob)
    BY <1>3 DEF Commit, WriteRejected, WriteExpected, Grant, RecordCancelled, End
  <1>4. ASSUME NEW c \in Call PROVE job[c] \in JobRecord
    BY DEF Base, TypeOK
  <1>5. ASSUME NEW c \in Call, CreateAtStripe(c)
        PROVE  \E stage \in Stage, work \in JobRecord : Goto(c, stage, work) /\ Keeps(c, stage, work)
    <2> DEFINE work == [job[c] EXCEPT !.amount = stripe.created + 1]
    <2>1. stripe.created + 1 \in Nat
      BY DEF Base, TypeOK
    <2>2. work \in JobRecord /\ work.on = job[c].on
      BY <1>4, <2>1 DEF JobRecord
    <2>3. Goto(c, "recording", work) /\ pc[c] = "signing"
      BY <1>5 DEF CreateAtStripe
    <2> HIDE DEF work
    <2> QED
      BY <2>2, <2>3 DEF Keeps, Stage
  <1>6. ASSUME NEW c \in Call, CreateSubscription(c)
        PROVE  \E stage \in Stage, work \in JobRecord : Goto(c, stage, work) /\ Keeps(c, stage, work)
    <2>1. CASE ~subscription.row
      <3>1. Goto(c, "granting", job[c]) /\ pc[c] = "recording"
        BY <1>6, <2>1 DEF CreateSubscription
      <3> QED
        BY <1>4, <3>1 DEF Keeps, Stage
    <2>2. CASE subscription.row
      BY <1>2, <1>6, <2>2 DEF CreateSubscription, End
    <2> QED
      BY <2>1, <2>2
  <1>7. ASSUME NEW c \in Call, CancelAtStripe(c)
        PROVE  \E stage \in Stage, work \in JobRecord : Goto(c, stage, work) /\ Keeps(c, stage, work)
    <2>1. Goto(c, "cancelled", job[c]) /\ pc[c] = "cancelling"
      BY <1>7 DEF CancelAtStripe
    <2> QED
      BY <1>4, <2>1 DEF Keeps, Stage
  <1>8. CASE \/ \E o \in Order : Ingest(o)
             \/ Lock \/ Unlock
             \/ \E pair \in Adjustments : Correct(pair[1], pair[2])
    BY <1>8 DEF Ingest, Lock, Unlock, Correct
  <1>9. CASE UNCHANGED vars
    BY <1>9 DEF vars
  <1> QED
    BY <1>1, <1>2, <1>3, <1>5, <1>6, <1>7, <1>8, <1>9, Zenon DEF Next, Reads

\* The operations in use and the amounts of the orders are given.
LEMMA GivenStep ==
    ASSUME Base, [Next]_vars
    PROVE  ops' = ops /\ order' = order
  <1>1. CASE \E c \in Call : Commit(c)
    BY <1>1 DEF Commit, given
  <1>2. CASE ~\E c \in Call : Commit(c)
    BY <1>2, OnlyCommitsPost DEF given
  <1> QED
    BY <1>1, <1>2

LEMMA ExclusiveStep == Base /\ Exclusive /\ [Next]_vars => Exclusive'
  <1> SUFFICES ASSUME Base, Exclusive, [Next]_vars, Orderly',
                      NEW a \in Call, NEW b \in Call, a # b, pc'[a] # "idle", pc'[b] # "idle"
               PROVE  ~SameRow(job'[a].on, job'[b].on)
    BY DEF Exclusive, SameRow
  <1>1. Orderly
    BY GivenStep DEF Orderly
  <1>2. \A c, d \in Call :
            c # d /\ pc[c] # "idle" /\ pc[d] # "idle" => ~SameRow(job[c].on, job[d].on)
    BY <1>1 DEF Exclusive
  <1>3. CASE UNCHANGED <<pc, job>>
    BY <1>2, <1>3
  <1>4. ASSUME NEW c \in Call, NEW stage \in Stage, NEW work \in JobRecord,
               Goto(c, stage, work), Keeps(c, stage, work)
        PROVE  ~SameRow(job'[a].on, job'[b].on)
    <2>1. /\ pc'[c] = stage /\ job'[c] = work
          /\ \A d \in Call \ {c} : pc'[d] = pc[d] /\ job'[d] = job[d]
      BY <1>4 DEF Goto, Base, TypeOK
    <2>2. ASSUME NEW d \in Call, d # c, pc[d] # "idle", stage # "idle"
          PROVE  ~SameRow(work.on, job[d].on)
      <3>1. CASE pc[c] # "idle" /\ work.on = job[c].on
        BY <1>2, <2>2, <3>1
      <3>2. CASE "overlap" \in ops \/ \A e \in Call : ~SameRow(work.on, job[e].on)
        BY <1>1, <3>2 DEF Orderly
      <3> QED
        BY <1>4, <2>2, <3>1, <3>2 DEF Keeps
    <2>3. \A x, y : SameRow(x, y) <=> SameRow(y, x)
      BY DEF SameRow
    <2>4. CASE a = c
      BY <2>1, <2>2, <2>4
    <2>5. CASE b = c
      BY <2>1, <2>2, <2>3, <2>5
    <2>6. CASE a # c /\ b # c
      BY <1>2, <2>1, <2>6
    <2> QED
      BY <2>4, <2>5, <2>6
  <1> QED
    BY <1>3, <1>4, KeepsStep

\* What another call has read is not reached by a write to a row it does not work on.
LEMMA OthersCurrent ==
    ASSUME Base, NEW d \in Call, pc'[d] = pc[d], job'[d] = job[d], Current(pc[d], job[d]),
           job[d].on \in Order => revenue'[job[d].on] = revenue[job[d].on],
           job[d].on \in Expense => expense'[job[d].on] = expense[job[d].on],
           job[d].on \in Payout => payout'[job[d].on] = payout[job[d].on]
    PROVE  Current(pc[d], job[d])'
  <1>1. Fits(pc[d], job[d])
    BY DEF Base, JobShape
  <1> QED
    BY <1>1 DEF Current, Fits

LEMMA OnceStep == Base /\ OnceInv /\ [Next]_vars => OnceInv'
  <1> SUFFICES ASSUME Base, OnceInv, [Next]_vars PROVE OnceInv'
    OBVIOUS
  <1>1. Exclusive'
    BY ExclusiveStep DEF OnceInv
  <1>2. CASE ~Orderly
    <2>1. ~Orderly'
      BY <1>2, GivenStep DEF Orderly
    <2> QED
      BY <1>1, <2>1 DEF OnceInv, ReadsAreCurrent, PostedOnce, ReconciledAgrees
  <1>3. CASE Orderly
    <2>1. /\ \A c \in Call : Current(pc[c], job[c])
          /\ \A o \in Order : revenue[o] <= 1
          /\ \A x \in Expense : paid[x] = IF expense[x] = "APPROVED" THEN 1 ELSE 0
          /\ \A p \in Payout : payout[p].status \in {"RECONCILED", "VARIANCE_FLAGGED"} =>
                /\ payout[p].variance = payout[p].amount - payout[p].expected
                /\ payout[p].amount > 0 => received[p][Len(received[p])] = payout[p].amount
          /\ \A c, d \in Call :
                c # d /\ pc[c] # "idle" /\ pc[d] # "idle" => ~SameRow(job[c].on, job[d].on)
      BY <1>3 DEF OnceInv, Exclusive, ReadsAreCurrent, PostedOnce, ReconciledAgrees
    <2>2. pc \in [Call -> Stage] /\ job \in [Call -> JobRecord] /\ \A c \in Call : Fits(pc[c], job[c])
      BY DEF Base, TypeOK, JobShape
    <2>3. ASSUME NEW c \in Call, Goto(c, "idle", NoJob),
                 \A d \in Call \ {c} : pc[d] # "idle" =>
                    /\ job[d].on \in Order => revenue'[job[d].on] = revenue[job[d].on]
                    /\ job[d].on \in Expense => expense'[job[d].on] = expense[job[d].on]
                    /\ job[d].on \in Payout => payout'[job[d].on] = payout[job[d].on]
          PROVE  ReadsAreCurrent'
      <3>1. ASSUME NEW d \in Call PROVE Current(pc[d], job[d])'
        <4>1. pc'[c] = "idle" /\ (d # c => pc'[d] = pc[d] /\ job'[d] = job[d])
          BY <2>2, <2>3 DEF Goto
        <4>2. CASE pc'[d] = "idle"
          BY <4>2 DEF Current
        <4>3. CASE pc'[d] # "idle"
          <5>1. d # c /\ pc[d] # "idle" /\ pc'[d] = pc[d] /\ job'[d] = job[d]
            BY <4>1, <4>3
          <5> QED
            BY <2>1, <2>3, <5>1, OthersCurrent
        <4> QED
          BY <4>2, <4>3
      <3> QED
        BY <3>1 DEF ReadsAreCurrent
    <2>4. ASSUME NEW c \in Call, NEW stage \in Stage, NEW work \in JobRecord,
                 Goto(c, stage, work), Current(stage, work), UNCHANGED <<revenue, paid, received, expense, payout>>
          PROVE  OnceInv'
      <3>1. ASSUME NEW d \in Call PROVE Current(pc[d], job[d])'
        <4>1. CASE d = c
          <5>1. pc'[d] = stage /\ job'[d] = work
            BY <2>2, <2>4, <4>1 DEF Goto
          <5> QED
            BY <2>4, <5>1 DEF Current
        <4>2. CASE d # c
          <5>1. pc'[d] = pc[d] /\ job'[d] = job[d]
            BY <2>2, <2>4, <4>2 DEF Goto
          <5> QED
            BY <2>1, <2>4, <5>1 DEF Current
        <4> QED
          BY <4>1, <4>2
      <3> QED
        BY <1>1, <2>1, <2>4, <3>1 DEF OnceInv, ReadsAreCurrent, PostedOnce, ReconciledAgrees
    <2>5. ASSUME NEW c \in Call, Reads(c) PROVE OnceInv'
      <3>1. UNCHANGED <<revenue, paid, received, expense, payout>>
        BY <2>5, ReadMoves DEF ordinary, rows
      <3>2. PICK stage \in Stage, work \in JobRecord : Goto(c, stage, work) /\ Current(stage, work)
        BY <2>1, <2>5, ReadMoves
      <3> QED
        BY <2>4, <3>1, <3>2
    <2>6. ASSUME NEW c \in Call, Commit(c) PROVE OnceInv'
      <3>1. /\ Fits("posting", job[c]) /\ Current("posting", job[c]) /\ pc[c] = "posting"
            /\ job[c] \in JobRecord /\ Goto(c, "idle", NoJob)
        BY <2>1, <2>2, <2>6 DEF Commit, End
      <3>2. job[c].amount \in Nat /\ job[c].expected \in Int
        BY <3>1 DEF JobRecord
      <3>3. ReadsAreCurrent'
        <4>1. ASSUME NEW d \in Call \ {c}, pc[d] # "idle"
              PROVE  /\ job[d].on \in Order => revenue'[job[d].on] = revenue[job[d].on]
                     /\ job[d].on \in Expense => expense'[job[d].on] = expense[job[d].on]
                     /\ job[d].on \in Payout => payout'[job[d].on] = payout[job[d].on]
          <5>1. job[c].on # job[d].on
            BY <2>1, <3>1, <4>1 DEF SameRow
          <5>2. revenue \in [Order -> Nat]
            BY DEF Base, TypeOK
          <5> QED
            BY <2>6, <5>1, <5>2 DEF Commit
        <4> QED
          BY <2>3, <3>1, <4>1
      <3>4. ASSUME NEW o \in Order PROVE revenue'[o] <= 1
        <4>1. revenue[o] \in Nat /\ revenue[o] <= 1 /\ revenue'[o] = revenue[o] + IF job[c].on = o THEN 1 ELSE 0
          BY <2>1, <2>6 DEF Base, TypeOK, Commit
        <4>2. job[c].on = o => revenue[o] = 0
          BY <3>1 DEF Current
        <4> QED
          BY <4>1, <4>2
      <3>5. ASSUME NEW x \in Expense PROVE paid'[x] = IF expense'[x] = "APPROVED" THEN 1 ELSE 0
        <4>1. /\ paid[x] \in Nat /\ paid[x] = IF expense[x] = "APPROVED" THEN 1 ELSE 0
              /\ paid'[x] = paid[x] + IF job[c].on = x THEN 1 ELSE 0
              /\ expense'[x] = IF job[c].on = x THEN "APPROVED" ELSE expense[x]
          BY <2>1, <2>6 DEF Base, TypeOK, Commit
        <4>2. job[c].on = x => expense[x] = "PENDING"
          BY <3>1 DEF Current
        <4> QED
          BY <4>1, <4>2
      <3>6. ASSUME NEW p \in Payout, payout'[p].status \in {"RECONCILED", "VARIANCE_FLAGGED"}
            PROVE  /\ payout'[p].variance = payout'[p].amount - payout'[p].expected
                   /\ payout'[p].amount > 0 => received'[p][Len(received'[p])] = payout'[p].amount
        <4>1. /\ received[p] \in Seq(1..MaxAmount) /\ payout[p] \in PayoutRow
              /\ received'[p] = IF job[c].on = p /\ Posted(c, "payout")
                                THEN Append(received[p], job[c].amount) ELSE received[p]
              /\ payout'[p] = IF job[c].on = p THEN Reconciled(payout[p], job[c].amount, job[c].expected)
                              ELSE payout[p]
          BY <2>6 DEF Base, TypeOK, Commit
        <4>2. CASE job[c].on = p
          <5>1. job[c].expected = payout[p].expected /\ (Posted(c, "payout") <=> job[c].amount > 0)
            BY <3>1, <4>2, EntriesHeld DEF Current
          <5>2. payout'[p].amount = job[c].amount /\ payout'[p].expected = payout[p].expected
                /\ payout'[p].variance = job[c].amount - job[c].expected
            BY <3>2, <4>1, <4>2, ReconciledRow
          <5>3. ASSUME job[c].amount > 0 PROVE received'[p][Len(received'[p])] = job[c].amount
            <6>1. received'[p] = Append(received[p], job[c].amount)
              BY <4>1, <4>2, <5>1, <5>3
            <6> QED
              BY <4>1, <6>1
          <5> QED
            BY <5>1, <5>2, <5>3
        <4>3. CASE job[c].on # p
          BY <2>1, <3>6, <4>1, <4>3
        <4> QED
          BY <4>2, <4>3
      <3> QED
        BY <1>1, <3>3, <3>4, <3>5, <3>6 DEF OnceInv, PostedOnce, ReconciledAgrees
    <2>7. ASSUME NEW c \in Call, WriteRejected(c) PROVE OnceInv'
      <3>1. /\ Fits("rejecting", job[c]) /\ Current("rejecting", job[c]) /\ pc[c] = "rejecting"
            /\ Goto(c, "idle", NoJob) /\ UNCHANGED <<revenue, paid, received, payout>>
            /\ expense' = [expense EXCEPT ![job[c].on] = "REJECTED"]
        BY <2>1, <2>2, <2>7 DEF WriteRejected, End, ordinary
      <3>2. ReadsAreCurrent'
        <4>1. ASSUME NEW d \in Call \ {c}, pc[d] # "idle"
              PROVE  job[d].on \in Expense => expense'[job[d].on] = expense[job[d].on]
          <5>1. job[c].on # job[d].on
            BY <2>1, <3>1, <4>1 DEF SameRow
          <5> QED
            BY <3>1, <5>1 DEF Base, TypeOK
        <4> QED
          BY <2>3, <3>1, <4>1
      <3>3. ASSUME NEW x \in Expense PROVE paid[x] = IF expense'[x] = "APPROVED" THEN 1 ELSE 0
        <4>1. expense \in [Expense -> {"PENDING", "APPROVED", "REJECTED"}]
          BY DEF Base, TypeOK
        <4> QED
          BY <2>1, <3>1, <4>1 DEF Current
      <3> QED
        BY <1>1, <2>1, <3>1, <3>2, <3>3 DEF OnceInv, PostedOnce, ReconciledAgrees
    <2>8. ASSUME NEW c \in Call, WriteExpected(c) PROVE OnceInv'
      <3>1. /\ Fits("expecting", job[c]) /\ Current("expecting", job[c]) /\ pc[c] = "expecting"
            /\ Goto(c, "idle", NoJob) /\ UNCHANGED <<revenue, paid, received, expense>>
            /\ payout \in [Payout -> PayoutRow]
        BY <2>1, <2>2, <2>8 DEF WriteExpected, End, ordinary, Base, TypeOK
      <3>2. ASSUME NEW p \in Payout
            PROVE  \/ payout'[p] = payout[p]
                   \/ /\ payout'[p].status = "EXPECTED"
                      /\ job[c].on \in {p, "period"}
        <4>1. CASE job[c].on \in Payout
          <5>1. payout' = [payout EXCEPT ![job[c].on].expected = job[c].expected] /\ payout[job[c].on].status = "EXPECTED"
            BY <2>8, <3>1, <4>1 DEF WriteExpected, Current
          <5> QED
            BY <3>1, <4>1, <5>1 DEF PayoutRow
        <4>2. CASE job[c].on \notin Payout
          <5>1. job[c].on = "period"
            BY <3>1, <4>2 DEF Fits
          <5>2. PICK q \in Payout : payout' = [payout EXCEPT ![q] =
                    [status |-> "EXPECTED", expected |-> job[c].expected, amount |-> 0, variance |-> 0]]
            BY <2>8, <4>2 DEF WriteExpected
          <5> QED
            BY <3>1, <5>1, <5>2
        <4> QED
          BY <4>1, <4>2
      <3>3. ReadsAreCurrent'
        <4>1. ASSUME NEW d \in Call \ {c}, pc[d] # "idle", job[d].on \in Payout
              PROVE  payout'[job[d].on] = payout[job[d].on]
          <5>1. ~SameRow(job[c].on, job[d].on)
            BY <2>1, <3>1, <4>1
          <5>2. job[c].on \notin {job[d].on, "period"}
            BY <4>1, <5>1 DEF SameRow
          <5> QED
            BY <3>2, <4>1, <5>2
        <4> QED
          BY <2>3, <3>1, <4>1
      <3>4. ReconciledAgrees'
        BY <2>1, <3>1, <3>2 DEF ReconciledAgrees
      <3> QED
        BY <1>1, <2>1, <3>1, <3>3, <3>4 DEF OnceInv, PostedOnce
    <2>9. ASSUME NEW c \in Call,
                 \/ CreateAtStripe(c) \/ CreateSubscription(c) \/ CancelAtStripe(c)
                 \/ Grant(c) \/ RecordCancelled(c)
          PROVE  OnceInv'
      <3>1. UNCHANGED <<revenue, paid, received, expense, payout>>
        BY <2>9 DEF CreateAtStripe, CreateSubscription, CancelAtStripe, Grant, RecordCancelled, ordinary, rows
      <3>2. \E stage \in Stage : \E work : Goto(c, stage, work) /\ stage \in {"idle", "recording", "granting", "cancelled"}
        <4>1. CASE CreateAtStripe(c)
          BY <4>1 DEF CreateAtStripe, Stage
        <4>2. CASE CreateSubscription(c)
          BY <4>2 DEF CreateSubscription, End, Stage
        <4>3. CASE CancelAtStripe(c)
          BY <4>3 DEF CancelAtStripe, Stage
        <4>4. CASE Grant(c) \/ RecordCancelled(c)
          BY <4>4 DEF Grant, RecordCancelled, End, Stage
        <4> QED
          BY <2>9, <4>1, <4>2, <4>3, <4>4
      <3>3. PICK stage \in Stage : \E work : Goto(c, stage, work) /\ stage \in {"idle", "recording", "granting", "cancelled"}
        BY <3>2
      <3>4. PICK work : Goto(c, stage, work) /\ stage \in {"idle", "recording", "granting", "cancelled"}
        BY <3>3
      <3>5. job' \in [Call -> JobRecord]
        BY BaseStep DEF Base, TypeOK
      <3>6. work \in JobRecord
        BY <2>2, <3>4, <3>5 DEF Goto
      <3>7. Current(stage, work)
        BY <3>4 DEF Current
      <3> QED
        BY <2>4, <3>1, <3>4, <3>6, <3>7
    <2>10. CASE UNCHANGED <<ops, revenue, paid, received, expense, payout, pc, job>>
      BY <1>1, <2>1, <2>10 DEF OnceInv, ReadsAreCurrent, PostedOnce, ReconciledAgrees, Current
    <2>11. ASSUME \/ \E o \in Order : Ingest(o)
                  \/ Lock \/ Unlock
                  \/ \E pair \in Adjustments : Correct(pair[1], pair[2])
          PROVE  OnceInv'
      BY <2>10, <2>11 DEF Ingest, Lock, Unlock, Correct, given, ordinary, rows
    <2>12. CASE UNCHANGED vars
      BY <2>10, <2>12 DEF vars, given, ordinary, rows
    <2> QED
      BY <2>5, <2>6, <2>7, <2>8, <2>9, <2>11, <2>12, Zenon DEF Next, Reads
  <1> QED
    BY <1>2, <1>3

\* Where calls on one row do not overlap, what a call has read stays true.
THEOREM OnceHolds == Spec => []OnceInv
  <1>1. Init => OnceInv
    <2> SUFFICES ASSUME Init PROVE OnceInv
      OBVIOUS
    <2>1. \A c \in Call : pc[c] = "idle"
      BY DEF Init
    <2>2. \A p \in Payout : payout[p].status = "none"
      BY DEF Init, NoPayout
    <2> QED
      BY <2>1, <2>2 DEF Init, OnceInv, Exclusive, ReadsAreCurrent, Current, PostedOnce, ReconciledAgrees
  <1>2. Base /\ OnceInv /\ [Next]_vars => OnceInv'
    BY OnceStep
  <1> QED
    BY <1>1, <1>2, BaseHolds, PTL DEF Spec

\* The types, and what the ledger has of orders and expenses.
THEOREM EntriesHold == Spec => []EntriesAreSound
  <1>1. Base /\ LedgerInv /\ OnceInv => EntriesAreSound
    BY DEF Base, LedgerInv, OnceInv, EntriesAreSound
  <1> QED
    BY <1>1, BaseHolds, LedgerHolds, OnceHolds, PTL

-----------------------------------------------------------------------------
(* The subscription *)

\* What a billing call holds of the row and of Stripe, whatever calls overlap:
\* only one of them can have made the row, so only one goes on to grant.
Holds(stage, work) ==
    /\ stage = "recording" => work.amount \in 0..stripe.created
    /\ stage = "granting" => grants = 0 /\ subscription.row
    /\ stage \in {"cancelling", "cancelled"} => subscription.row /\ work.amount = subscription.id
    /\ stage = "cancelled" => work.amount \in stripe.cancelling \cup {0}

BillingInv ==
    /\ SubscriptionAgrees
    /\ \A c \in Call : Holds(pc[c], job[c])
    /\ \A c, d \in Call : pc[c] = "granting" /\ pc[d] = "granting" => c = d

\* A call that moves on to a stage it holds enough for, when nothing else of
\* the subscription changes.
LEMMA BillingMove ==
    ASSUME Base, BillingInv, UNCHANGED billing,
           NEW c \in Call, NEW stage \in Stage, NEW work \in JobRecord,
           Goto(c, stage, work), Holds(stage, work), stage # "granting"
    PROVE  BillingInv'
  <1>1. /\ pc'[c] = stage /\ job'[c] = work
        /\ \A d \in Call \ {c} : pc'[d] = pc[d] /\ job'[d] = job[d]
    BY DEF Goto, Base, TypeOK
  <1>2. SubscriptionAgrees'
    BY DEF BillingInv, SubscriptionAgrees, billing
  <1>3. ASSUME NEW d \in Call PROVE Holds(pc[d], job[d])'
    BY <1>1 DEF BillingInv, Holds, billing
  <1>4. ASSUME NEW a \in Call, NEW b \in Call, pc'[a] = "granting", pc'[b] = "granting"
        PROVE  a = b
    BY <1>1, <1>4 DEF BillingInv
  <1> QED
    BY <1>2, <1>3, <1>4 DEF BillingInv

LEMMA BillingStep == Base /\ BillingInv /\ [Next]_vars => BillingInv'
  <1> SUFFICES ASSUME Base, BillingInv, [Next]_vars PROVE BillingInv'
    OBVIOUS
  <1>1. /\ pc \in [Call -> Stage] /\ job \in [Call -> JobRecord] /\ NoJob \in JobRecord
        /\ subscription \in [row : BOOLEAN, id : Nat, cancelling : BOOLEAN]
        /\ stripe \in [created : Nat, cancelling : SUBSET Nat]
        /\ grants \in Nat
    BY NoJobFits DEF Base, TypeOK
  <1>2. /\ grants <= IF subscription.row THEN 1 ELSE 0
        /\ subscription.id <= stripe.created
        /\ subscription.cancelling => subscription.id \in stripe.cancelling \cup {0}
        /\ \A c \in Call : Holds(pc[c], job[c])
        /\ \A c, d \in Call : pc[c] = "granting" /\ pc[d] = "granting" => c = d
    BY DEF BillingInv, SubscriptionAgrees
  <1>3. ASSUME NEW c \in Call, NEW stage, NEW work, Goto(c, stage, work)
        PROVE  /\ pc'[c] = stage /\ job'[c] = work
               /\ \A d \in Call \ {c} : pc'[d] = pc[d] /\ job'[d] = job[d]
    BY <1>1, <1>3 DEF Goto
  <1>4. ASSUME NEW c \in Call, Goto(c, "idle", NoJob), UNCHANGED billing PROVE BillingInv'
    BY <1>1, <1>4, BillingMove DEF Holds, Stage
  <1>5. ASSUME NEW c \in Call, Reads(c) PROVE BillingInv'
    <2>1. UNCHANGED billing
      BY <1>5, ReadMoves
    <2>2. PICK stage \in Stage, work \in JobRecord : Goto(c, stage, work)
      BY <1>5, ReadMoves
    <2>3. pc'[c] = stage /\ job'[c] = work
      BY <1>3, <2>2
    <2>4. Holds(stage, work) /\ stage # "granting"
      <3>1. CASE \E o \in Order : Recognize(c, o)
        BY <2>3, <3>1, <1>3 DEF Recognize, Holds
      <3>2. CASE \E x \in Expense : Approve(c, x)
        BY <2>3, <3>2, <1>3 DEF Approve, Holds
      <3>3. CASE \E x \in Expense : Reject(c, x)
        BY <2>3, <3>3, <1>3 DEF Reject, Holds
      <3>4. CASE \E p \in Payout, amount \in 0..MaxAmount : Reconcile(c, p, amount)
        BY <2>3, <3>4, <1>3 DEF Reconcile, Holds
      <3>5. CASE FindOpen(c)
        BY <2>3, <3>5, <1>3 DEF FindOpen, Holds
      <3>6. CASE ComputeExpected(c)
        BY <2>3, <3>6, <1>3 DEF ComputeExpected, Holds
      <3>7. CASE CheckPeriod(c)
        BY <2>3, <3>7, <1>3 DEF CheckPeriod, End, Holds
      <3>8. CASE Subscribe(c)
        BY <2>3, <3>8, <1>3 DEF Subscribe, Holds
      <3>9. CASE Cancel(c)
        <4>1. /\ stage = IF subscription.id = 0 THEN "cancelled" ELSE "cancelling"
              /\ subscription.row /\ work = Work("cancel", "tenant", subscription.id, 0, <<>>)
          BY <2>3, <3>9, <1>3 DEF Cancel
        <4>2. work.amount = subscription.id
          BY <4>1 DEF Work
        <4> QED
          BY <4>1, <4>2 DEF Holds
      <3>10. CASE Fail(c)
        BY <2>3, <3>10, <1>3 DEF Fail, End, Holds
      <3>11. CASE SkipStripe(c)
        <4>1. /\ stage = "recording" /\ work = Work("subscribe", "tenant", 0, 0, <<>>)
          BY <2>3, <3>11, <1>3 DEF SkipStripe
        <4>2. work.amount = 0 /\ 0 \in 0..stripe.created
          BY <1>1, <4>1 DEF Work
        <4> QED
          BY <4>1, <4>2 DEF Holds
      <3> QED
        BY <1>5, <3>1, <3>2, <3>3, <3>4, <3>5, <3>6, <3>7, <3>8, <3>9, <3>10, <3>11 DEF Reads
    <2> QED
      BY <2>1, <2>2, <2>4, BillingMove
  <1>6. ASSUME NEW c \in Call, Commit(c) \/ WriteRejected(c) \/ WriteExpected(c) PROVE BillingInv'
    BY <1>4, <1>6 DEF Commit, WriteRejected, WriteExpected, End
  <1>7. ASSUME NEW c \in Call, CreateAtStripe(c) PROVE BillingInv'
    <2>1. PICK work : work = [job[c] EXCEPT !.amount = stripe.created + 1]
      OBVIOUS
    <2>2. /\ Goto(c, "recording", work) /\ UNCHANGED <<subscription, grants>>
          /\ stripe' = [stripe EXCEPT !.created = stripe.created + 1]
      BY <1>7, <2>1 DEF CreateAtStripe
    <2>3. /\ work.amount = stripe.created + 1
          /\ stripe'.created = stripe.created + 1 /\ stripe'.cancelling = stripe.cancelling
      BY <1>1, <2>1, <2>2 DEF JobRecord
    <2>4. ASSUME NEW d \in Call PROVE Holds(pc[d], job[d])'
      <3>1. CASE d = c
        BY <1>1, <1>3, <2>2, <2>3, <3>1 DEF Holds
      <3>2. CASE d # c
        BY <1>1, <1>2, <1>3, <2>2, <2>3, <3>2 DEF Holds
      <3> QED
        BY <3>1, <3>2
    <2>5. SubscriptionAgrees'
      BY <1>1, <1>2, <2>2, <2>3 DEF SubscriptionAgrees
    <2> QED
      BY <1>2, <1>3, <2>2, <2>4, <2>5 DEF BillingInv
  <1>8. ASSUME NEW c \in Call, CreateSubscription(c) PROVE BillingInv'
    <2>1. pc[c] = "recording" /\ UNCHANGED <<stripe, grants>> /\ job[c].amount \in 0..stripe.created
      BY <1>2, <1>8 DEF CreateSubscription, Holds
    <2>2. CASE ~subscription.row
      <3>1. Goto(c, "granting", job[c]) /\ subscription' = [row |-> TRUE, id |-> job[c].amount, cancelling |-> FALSE]
        BY <1>8, <2>2 DEF CreateSubscription
      <3>2. subscription'.id = job[c].amount /\ subscription'.row /\ subscription'.cancelling = FALSE
        BY <1>1, <2>1, <3>1
      <3>3. grants = 0
        BY <1>1, <1>2, <2>2
      <3>4. ASSUME NEW d \in Call PROVE Holds(pc[d], job[d])' /\ (pc'[d] = "granting" => d = c)
        <4>1. CASE d = c
          BY <1>3, <2>1, <3>1, <3>2, <3>3, <4>1 DEF Holds
        <4>2. CASE d # c
          <5>1. pc'[d] = pc[d] /\ job'[d] = job[d] /\ pc[d] \notin {"granting", "cancelling", "cancelled"}
            BY <1>2, <1>3, <2>2, <3>1, <4>2 DEF Holds
          <5> QED
            BY <1>2, <2>1, <5>1 DEF Holds
        <4> QED
          BY <4>1, <4>2
      <3>5. SubscriptionAgrees'
        BY <1>1, <2>1, <3>2, <3>3 DEF SubscriptionAgrees
      <3> QED
        BY <3>4, <3>5 DEF BillingInv
    <2>3. CASE subscription.row
      <3>1. Goto(c, "idle", NoJob) /\ UNCHANGED billing
        BY <1>8, <2>1, <2>3 DEF CreateSubscription, End, billing
      <3> QED
        BY <1>4, <3>1
    <2> QED
      BY <2>2, <2>3
  <1>9. ASSUME NEW c \in Call, Grant(c) PROVE BillingInv'
    <2>1. /\ pc[c] = "granting" /\ Goto(c, "idle", NoJob)
          /\ grants' = grants + 1 /\ UNCHANGED <<subscription, stripe>>
      BY <1>9 DEF Grant, End
    <2>2. grants = 0 /\ subscription.row
      BY <1>2, <2>1 DEF Holds
    <2>3. SubscriptionAgrees'
      BY <1>1, <1>2, <2>1, <2>2 DEF SubscriptionAgrees
    <2>4. ASSUME NEW d \in Call PROVE Holds(pc[d], job[d])' /\ pc'[d] # "granting"
      <3>1. CASE d = c
        BY <1>3, <2>1, <3>1 DEF Holds
      <3>2. CASE d # c
        <4>1. pc'[d] = pc[d] /\ job'[d] = job[d] /\ pc[d] # "granting"
          BY <1>2, <1>3, <2>1, <3>2
        <4> QED
          BY <1>2, <2>1, <4>1 DEF Holds
      <3> QED
        BY <3>1, <3>2
    <2> QED
      BY <2>3, <2>4 DEF BillingInv
  <1>10. ASSUME NEW c \in Call, CancelAtStripe(c) PROVE BillingInv'
    <2>1. /\ pc[c] = "cancelling" /\ Goto(c, "cancelled", job[c])
          /\ stripe' = [stripe EXCEPT !.cancelling = stripe.cancelling \cup {job[c].amount}]
          /\ UNCHANGED <<subscription, grants>>
      BY <1>10 DEF CancelAtStripe
    <2>2. stripe'.created = stripe.created /\ stripe'.cancelling = stripe.cancelling \cup {job[c].amount}
      BY <1>1, <2>1
    <2>3. ASSUME NEW d \in Call PROVE Holds(pc[d], job[d])'
      <3>1. CASE d = c
        <4>1. pc'[d] = "cancelled" /\ job'[d] = job[c]
          BY <1>3, <2>1, <3>1
        <4> QED
          BY <1>2, <2>1, <2>2, <4>1 DEF Holds
      <3>2. CASE d # c
        <4>1. pc'[d] = pc[d] /\ job'[d] = job[d]
          BY <1>3, <2>1, <3>2
        <4> QED
          BY <1>2, <2>1, <2>2, <4>1 DEF Holds
      <3> QED
        BY <3>1, <3>2
    <2>4. SubscriptionAgrees'
      BY <1>2, <2>1, <2>2 DEF SubscriptionAgrees
    <2>5. ASSUME NEW a \in Call, NEW b \in Call, pc'[a] = "granting", pc'[b] = "granting" PROVE a = b
      BY <1>2, <1>3, <2>1, <2>5
    <2> QED
      BY <2>3, <2>4, <2>5 DEF BillingInv
  <1>11. ASSUME NEW c \in Call, RecordCancelled(c) PROVE BillingInv'
    <2>1. /\ pc[c] = "cancelled" /\ Goto(c, "idle", NoJob)
          /\ subscription' = [subscription EXCEPT !.cancelling = TRUE]
          /\ UNCHANGED <<stripe, grants>>
      BY <1>11 DEF RecordCancelled, End
    <2>2. /\ subscription'.id = subscription.id /\ subscription'.row = subscription.row
          /\ subscription'.cancelling = TRUE
      BY <1>1, <2>1
    <2>3. subscription.id \in stripe.cancelling \cup {0}
      BY <1>2, <2>1 DEF Holds
    <2>4. SubscriptionAgrees'
      BY <1>2, <2>1, <2>2, <2>3 DEF SubscriptionAgrees
    <2>5. ASSUME NEW d \in Call PROVE Holds(pc[d], job[d])'
      <3>1. CASE d = c
        BY <1>3, <2>1, <3>1 DEF Holds
      <3>2. CASE d # c
        BY <1>2, <1>3, <2>1, <2>2, <3>2 DEF Holds
      <3> QED
        BY <3>1, <3>2
    <2>6. ASSUME NEW a \in Call, NEW b \in Call, pc'[a] = "granting", pc'[b] = "granting" PROVE a = b
      BY <1>2, <1>3, <2>1, <2>6
    <2> QED
      BY <2>4, <2>5, <2>6 DEF BillingInv
  <1>12. CASE UNCHANGED <<subscription, stripe, grants, pc, job>>
    BY <1>12 DEF BillingInv, SubscriptionAgrees, Holds
  <1>13. ASSUME \/ \E o \in Order : Ingest(o)
                \/ Lock \/ Unlock
                \/ \E pair \in Adjustments : Correct(pair[1], pair[2])
         PROVE  BillingInv'
    BY <1>12, <1>13 DEF Ingest, Lock, Unlock, Correct, billing
  <1>14. CASE UNCHANGED vars
    BY <1>12, <1>14 DEF vars, billing
  <1> QED
    BY <1>5, <1>6, <1>7, <1>8, <1>9, <1>10, <1>11, <1>13, <1>14, Zenon DEF Next, Reads

\* A plan's credits are granted once, a subscription Stripe is said to have exists
\* there and is cancelled there if it is here, whatever calls overlap or fail.
THEOREM SubscriptionHolds == Spec => []SubscriptionAgrees
  <1>1. Init => BillingInv
    BY DEF Init, NoSubscription, BillingInv, SubscriptionAgrees, Holds
  <1>2. Base /\ BillingInv /\ [Next]_vars => BillingInv'
    BY BillingStep
  <1>3. BillingInv => SubscriptionAgrees
    BY DEF BillingInv
  <1> QED
    BY <1>1, <1>2, <1>3, BaseHolds, PTL DEF Spec

-----------------------------------------------------------------------------
(* The accounts *)

\* What every account gets of an order, of its fees, and of money that moves.
LEMMA LineValues ==
    ASSUME NEW row \in OrderRow
    PROVE  /\ \A a \in Account : RevenueLines(row)[a] \in Int /\ FeeLines(row)[a] \in Int
           /\ RevenueLines(row)["accounts_receivable"] = row.total
           /\ FeeLines(row)["accounts_receivable"] = 0 - FeeSum(row)
           /\ RevenueLines(row)["cash"] = 0 /\ FeeLines(row)["cash"] = 0
           /\ RevenueLines(row)["operating_expenses"] = 0 /\ FeeLines(row)["operating_expenses"] = 0
           /\ Reconciles(row) =>
                RevenueLines(row)["accounts_receivable"] + RevenueLines(row)["sales_revenue"]
                + RevenueLines(row)["sales_discounts"] + RevenueLines(row)["shipping_revenue"]
                + RevenueLines(row)["tax_payable"] = 0
           /\ RevenueLines(row)["platform_commission_expense"] = 0
           /\ RevenueLines(row)["other_operating_expense"] = 0
           /\ FeeLines(row)["accounts_receivable"] + FeeLines(row)["platform_commission_expense"]
              + FeeLines(row)["other_operating_expense"] = 0
           /\ FeeLines(row)["sales_revenue"] = 0 /\ FeeLines(row)["sales_discounts"] = 0
           /\ FeeLines(row)["shipping_revenue"] = 0 /\ FeeLines(row)["tax_payable"] = 0
  <1>1. /\ row.subtotal \in Nat /\ row.discount \in Nat /\ row.tax \in Nat
        /\ row.shipping \in Nat /\ row.total \in Nat
        /\ row.fees["COMMISSION"] \in Nat /\ row.fees["OTHER"] \in Nat /\ FeeSum(row) \in Nat
    BY RowType
  <1>2. /\ (CHOOSE t \in FeeType : FeeAccountOf(t) = "platform_commission_expense") = "COMMISSION"
        /\ (CHOOSE t \in FeeType : FeeAccountOf(t) = "other_operating_expense") = "OTHER"
    <2>1. \A t \in FeeType : FeeAccountOf(t) = "platform_commission_expense" <=> t = "COMMISSION"
      BY DEF FeeType, FeeAccountOf
    <2>2. \A t \in FeeType : FeeAccountOf(t) = "other_operating_expense" <=> t = "OTHER"
      BY DEF FeeType, FeeAccountOf
    <2>3. "COMMISSION" \in FeeType /\ "OTHER" \in FeeType
      BY DEF FeeType
    <2> QED
      BY <2>1, <2>2, <2>3
  <1>3. /\ FeeLines(row)["platform_commission_expense"] = row.fees["COMMISSION"]
        /\ FeeLines(row)["other_operating_expense"] = row.fees["OTHER"]
    BY <1>2 DEF FeeLines, Account, FeeAccount
  <1>4. \A a \in Account \ {"accounts_receivable", "platform_commission_expense", "other_operating_expense"} :
            FeeLines(row)[a] = 0
    BY DEF FeeLines, FeeAccount
  <1>5. FeeLines(row)["accounts_receivable"] = 0 - FeeSum(row)
    BY <1>1 DEF FeeLines, Account, FeeAccount
  <1>6. {"accounts_receivable", "cash", "operating_expenses", "sales_revenue", "sales_discounts",
         "shipping_revenue", "tax_payable", "platform_commission_expense", "other_operating_expense"} = Account
    BY DEF Account, FeeAccount, RevenueAccount
  <1>7. /\ RevenueLines(row)["accounts_receivable"] = row.total
        /\ RevenueLines(row)["sales_revenue"] = -Positive(row.subtotal - row.discount)
        /\ RevenueLines(row)["sales_discounts"] = Positive(row.discount - row.subtotal)
        /\ RevenueLines(row)["shipping_revenue"] = -row.shipping
        /\ RevenueLines(row)["tax_payable"] = -row.tax
        /\ RevenueLines(row)["platform_commission_expense"] = 0
        /\ RevenueLines(row)["other_operating_expense"] = 0
        /\ RevenueLines(row)["cash"] = 0
        /\ RevenueLines(row)["operating_expenses"] = 0
    BY <1>6 DEF RevenueLines
  <1>8. \A a \in Account : RevenueLines(row)[a] \in Int /\ FeeLines(row)[a] \in Int
    BY <1>1, <1>3, <1>4, <1>5, <1>6, <1>7 DEF Positive
  <1>9. Reconciles(row) =>
            RevenueLines(row)["accounts_receivable"] + RevenueLines(row)["sales_revenue"]
            + RevenueLines(row)["sales_discounts"] + RevenueLines(row)["shipping_revenue"]
            + RevenueLines(row)["tax_payable"] = 0
    BY <1>1, <1>7 DEF Reconciles, Positive
  <1>10. FeeLines(row)["accounts_receivable"] + FeeLines(row)["platform_commission_expense"]
            + FeeLines(row)["other_operating_expense"] = 0
    BY <1>1, <1>3, <1>5 DEF FeeSum
  <1> QED
    BY <1>4, <1>5, <1>6, <1>7, <1>8, <1>9, <1>10

LEMMA Accounts ==
    Account = {"accounts_receivable", "cash", "operating_expenses", "sales_revenue", "sales_discounts",
               "shipping_revenue", "tax_payable", "platform_commission_expense", "other_operating_expense"}
  BY DEF Account, FeeAccount, RevenueAccount

LEMMA TransferValue ==
    ASSUME NEW debit, NEW credit, NEW amount, NEW a \in Account
    PROVE  Transfer(debit, credit, amount)[a] =
                (IF a = debit THEN amount ELSE 0) - (IF a = credit THEN amount ELSE 0)
  BY DEF Transfer

\* What payouts bring into cash they take from the receivable, and nothing else.
LEMMA ReceivedTotals ==
    ASSUME Base, NEW sum, sum = Total([p \in Payout |-> Total(received[p])])
    PROVE  /\ sum \in Int
           /\ Total(Received("cash")) = sum
           /\ Total(Received("accounts_receivable")) = 0 - sum
           /\ \A a \in Account \ {"cash", "accounts_receivable"} : Total(Received(a)) = 0
  <1> DEFINE each == [p \in Payout |-> Total(received[p])]
  <1>1. \A p \in Payout : /\ received[p] \in [DOMAIN received[p] -> Int]
                          /\ IsFiniteSet(DOMAIN received[p])
    <2>1. ASSUME NEW p \in Payout
          PROVE  received[p] \in [DOMAIN received[p] -> Int] /\ IsFiniteSet(DOMAIN received[p])
      <3>1. received[p] \in Seq(1..MaxAmount)
        BY DEF Base, TypeOK
      <3>2. DOMAIN received[p] = 1..Len(received[p]) /\ Len(received[p]) \in Nat
        BY <3>1
      <3>3. \A i \in DOMAIN received[p] : received[p][i] \in Int
        BY <3>1, FinanceAssumption
      <3>4. received[p] = [i \in DOMAIN received[p] |-> received[p][i]]
        BY <3>1
      <3>5. IsFiniteSet(1..Len(received[p]))
        <4>1. 1 \in Int /\ Len(received[p]) \in Int
          BY <3>2
        <4> QED
          BY <4>1, FS_Interval
      <3> QED
        BY <3>2, <3>3, <3>4, <3>5
    <2> QED
      BY <2>1
  <1>2. each \in [Payout -> Int]
    <2>1. \A p \in Payout : Total(received[p]) \in Int
      BY <1>1, TotalType
    <2> QED
      BY <2>1
  <1>3. IsFiniteSet(Payout)
    BY FinanceAssumption
  <1>4. \A n \in Int : /\ PayoutReceivedLines(n)["cash"] = n
                       /\ PayoutReceivedLines(n)["accounts_receivable"] = 0 - n
                       /\ \A a \in Account \ {"cash", "accounts_receivable"} : PayoutReceivedLines(n)[a] = 0
    <2>1. "cash" \in Account /\ "accounts_receivable" \in Account
      BY Accounts
    <2>2. \A n \in Int, a \in Account : PayoutReceivedLines(n)[a] =
            (IF a = "cash" THEN n ELSE 0) - (IF a = "accounts_receivable" THEN n ELSE 0)
      BY TransferValue DEF PayoutReceivedLines
    <2> QED
      BY <2>1, <2>2
  <1>5. Received("cash") = each
    <2>1. ASSUME NEW p \in Payout
          PROVE  [i \in DOMAIN received[p] |-> PayoutReceivedLines(received[p][i])["cash"]] = received[p]
      BY <1>1, <1>4
    <2> QED
      BY <2>1 DEF Received
  <1>6. Received("accounts_receivable") = Negated(each)
    <2>1. ASSUME NEW p \in Payout
          PROVE  Total([i \in DOMAIN received[p] |-> PayoutReceivedLines(received[p][i])["accounts_receivable"]])
                    = 0 - Total(received[p])
      <3>1. [i \in DOMAIN received[p] |-> PayoutReceivedLines(received[p][i])["accounts_receivable"]]
                = Negated(received[p])
        BY <1>1, <1>4 DEF Negated
      <3> QED
        BY <1>1, <3>1, TotalNegated
    <2> QED
      BY <2>1 DEF Received, Negated
  <1>7. ASSUME NEW a \in Account \ {"cash", "accounts_receivable"} PROVE Total(Received(a)) = 0
    <2>1. ASSUME NEW p \in Payout
          PROVE  Total([i \in DOMAIN received[p] |-> PayoutReceivedLines(received[p][i])[a]]) = 0
      <3>1. [i \in DOMAIN received[p] |-> PayoutReceivedLines(received[p][i])[a]] = [i \in DOMAIN received[p] |-> 0]
        BY <1>1, <1>4
      <3> QED
        BY <3>1, TotalOfNothing
    <2>2. Received(a) = [p \in Payout |-> 0]
      BY <2>1 DEF Received
    <2> QED
      BY <2>2, TotalOfNothing
  <1>8. sum = Total(each)
    OBVIOUS
  <1> HIDE DEF each
  <1> QED
    BY <1>2, <1>3, <1>5, <1>6, <1>7, <1>8, TotalType, TotalNegated

\* What expenses cost is paid in cash.
LEMMA SpendingTotals ==
    ASSUME Base
    PROVE  /\ Total(paid) \in Int
           /\ Total(Spending("operating_expenses")) = Total(paid)
           /\ Total(Spending("cash")) = 0 - Total(paid)
           /\ \A a \in Account \ {"operating_expenses", "cash"} : Total(Spending(a)) = 0
  <1>1. paid \in [Expense -> Int] /\ IsFiniteSet(Expense)
    BY FinanceAssumption DEF Base, TypeOK
  <1>2. /\ ExpenseLines(ExpenseAmount)["operating_expenses"] = 1
        /\ ExpenseLines(ExpenseAmount)["cash"] = 0 - 1
        /\ \A a \in Account \ {"operating_expenses", "cash"} : ExpenseLines(ExpenseAmount)[a] = 0
    <2>1. "cash" \in Account /\ "operating_expenses" \in Account
      BY Accounts
    <2>2. \A a \in Account : ExpenseLines(ExpenseAmount)[a] =
            (IF a = "operating_expenses" THEN 1 ELSE 0) - (IF a = "cash" THEN 1 ELSE 0)
      BY TransferValue DEF ExpenseLines, ExpenseAmount
    <2> QED
      BY <2>1, <2>2
  <1>3. \A n \in Int : n * 1 = n /\ n * (0 - 1) = 0 - n /\ n * 0 = 0
    OBVIOUS
  <1>4. Spending("operating_expenses") = paid
    BY <1>1, <1>2, <1>3 DEF Spending
  <1>5. Spending("cash") = Negated(paid)
    BY <1>1, <1>2, <1>3 DEF Spending, Negated
  <1>6. ASSUME NEW a \in Account \ {"operating_expenses", "cash"} PROVE Total(Spending(a)) = 0
    <2>1. Spending(a) = [x \in Expense |-> 0]
      BY <1>1, <1>2, <1>3 DEF Spending
    <2> QED
      BY <2>1, TotalOfNothing
  <1> QED
    BY <1>1, <1>4, <1>5, <1>6, TotalType, TotalNegated

LEMMA IncomeType ==
    ASSUME Base, NEW a \in Account
    PROVE  Income(a) \in [Order -> Int] /\ Total(Income(a)) \in Int
  <1>1. ASSUME NEW o \in Order
        PROVE  revenue[o] * RevenueLines(order[o])[a] + fee[o] * FeeLines(order[o])[a] \in Int
    <2>1. revenue[o] \in Int /\ fee[o] \in Int /\ order[o] \in OrderRow
      BY FinanceAssumption DEF Base, TypeOK
    <2>2. RevenueLines(order[o])[a] \in Int /\ FeeLines(order[o])[a] \in Int
      BY <2>1, LineValues
    <2>3. \A m, n \in Int : m * n \in Int
      OBVIOUS
    <2> QED
      BY <2>1, <2>2, <2>3
  <1>2. Income(a) \in [Order -> Int]
    BY <1>1 DEF Income
  <1> QED
    BY <1>2, FinanceAssumption, TotalType

\* A factor distributes over lines that cancel.
LEMMA Cancel3 ==
    ASSUME NEW n \in Int, NEW i \in Int, NEW j \in Int, NEW k \in Int, i + j + k = 0
    PROVE  n * i + n * j + n * k = 0
  <1>1. n * i + n * j + n * k = n * (i + j + k)
    OBVIOUS
  <1>2. n * 0 = 0
    OBVIOUS
  <1> QED
    BY <1>1, <1>2

\* What an order has put into the accounts cancels out.
LEMMA OrderCancels ==
    ASSUME Base, LedgerInv, NEW o \in Order
    PROVE  /\ Income("accounts_receivable")[o] + Income("sales_revenue")[o] + Income("sales_discounts")[o]
              + Income("shipping_revenue")[o] + Income("tax_payable")[o]
              + Income("platform_commission_expense")[o] + Income("other_operating_expense")[o] = 0
           /\ Income("cash")[o] = 0 /\ Income("operating_expenses")[o] = 0
  <1> DEFINE row == order[o]
             n == revenue[o]
             f == fee[o]
             R(a) == RevenueLines(row)[a]
             F(a) == FeeLines(row)[a]
  <1>1. n \in Int /\ n >= 0 /\ f \in Int /\ row \in OrderRow /\ (n > 0 => Reconciles(row))
    BY FinanceAssumption DEF Base, TypeOK, LedgerInv, RecognizedReconcile
  <1>2. \A a \in Account : R(a) \in Int /\ F(a) \in Int
    BY <1>1, LineValues
  <1>3. \A a : Income(a)[o] = n * R(a) + f * F(a)
    BY DEF Income
  <1>4. /\ "accounts_receivable" \in Account /\ "sales_revenue" \in Account /\ "sales_discounts" \in Account
        /\ "shipping_revenue" \in Account /\ "tax_payable" \in Account
        /\ "platform_commission_expense" \in Account /\ "other_operating_expense" \in Account
    BY DEF Account, RevenueAccount, FeeAccount
  <1>5. \A m \in Int : m * 0 = 0 /\ 0 * m = 0 /\ m + 0 = m /\ 0 + m = m
    OBVIOUS
  <1>6. \A m, k \in Int : m * k \in Int
    OBVIOUS
  <1>7. /\ R("platform_commission_expense") = 0 /\ R("other_operating_expense") = 0
        /\ F("sales_revenue") = 0 /\ F("sales_discounts") = 0
        /\ F("shipping_revenue") = 0 /\ F("tax_payable") = 0
        /\ F("accounts_receivable") + F("platform_commission_expense") + F("other_operating_expense") = 0
        /\ R("cash") = 0 /\ F("cash") = 0 /\ R("operating_expenses") = 0 /\ F("operating_expenses") = 0
        /\ n > 0 => R("accounts_receivable") + R("sales_revenue") + R("sales_discounts")
                     + R("shipping_revenue") + R("tax_payable") = 0
    BY <1>1, LineValues
  <1>8. n * R("accounts_receivable") + n * R("sales_revenue") + n * R("sales_discounts")
            + n * R("shipping_revenue") + n * R("tax_payable") = 0
    <2> HIDE DEF R, n
    <2>1. CASE n = 0
      BY <1>2, <1>4, <1>5, <2>1
    <2>2. CASE n > 0
      <3>1. R("accounts_receivable") + R("sales_revenue") + R("sales_discounts")
                + R("shipping_revenue") + R("tax_payable") = 0
        BY <1>7, <2>2
      <3>2. /\ R("accounts_receivable") \in Int /\ R("sales_revenue") \in Int /\ R("sales_discounts") \in Int
            /\ R("shipping_revenue") \in Int /\ R("tax_payable") \in Int
        BY <1>2, <1>4
      <3>3. n * R("accounts_receivable") + n * R("sales_revenue") + n * R("sales_discounts")
                + n * R("shipping_revenue") + n * R("tax_payable")
            = n * (R("accounts_receivable") + R("sales_revenue") + R("sales_discounts")
                + R("shipping_revenue") + R("tax_payable"))
        BY <1>1, <3>2
      <3>4. n * 0 = 0
        BY <1>1
      <3> QED
        BY <3>1, <3>3, <3>4
    <2> QED
      BY <1>1, <2>1, <2>2
  <1>9. f * F("accounts_receivable") + f * F("platform_commission_expense")
            + f * F("other_operating_expense") = 0
    <2> HIDE DEF F, f
    <2> QED
      BY <1>1, <1>2, <1>4, <1>7, Cancel3
  <1> HIDE DEF R, F, n, f
  <1>10. /\ Income("accounts_receivable")[o] = n * R("accounts_receivable") + f * F("accounts_receivable")
         /\ Income("sales_revenue")[o] = n * R("sales_revenue")
         /\ Income("sales_discounts")[o] = n * R("sales_discounts")
         /\ Income("shipping_revenue")[o] = n * R("shipping_revenue")
         /\ Income("tax_payable")[o] = n * R("tax_payable")
         /\ Income("platform_commission_expense")[o] = f * F("platform_commission_expense")
         /\ Income("other_operating_expense")[o] = f * F("other_operating_expense")
         /\ Income("cash")[o] = 0 /\ Income("operating_expenses")[o] = 0
    <2>1. n * 0 = 0 /\ f * 0 = 0
      BY <1>1, <1>5
    <2>2. \A a \in Account : n * R(a) \in Int /\ f * F(a) \in Int
      BY <1>1, <1>2, <1>6
    <2>3. \A a \in Account : F(a) = 0 => Income(a)[o] = n * R(a)
      <3>1. ASSUME NEW a \in Account, F(a) = 0 PROVE Income(a)[o] = n * R(a)
        <4>1. n * R(a) \in Int
          BY <2>2
        <4>2. Income(a)[o] = n * R(a) + 0
          BY <1>3, <2>1, <3>1
        <4> QED
          BY <4>1, <4>2
      <3> QED
        BY <3>1
    <2>4. \A a \in Account : R(a) = 0 => Income(a)[o] = f * F(a)
      <3>1. ASSUME NEW a \in Account, R(a) = 0 PROVE Income(a)[o] = f * F(a)
        <4>1. f * F(a) \in Int
          BY <2>2
        <4>2. Income(a)[o] = 0 + f * F(a)
          BY <1>3, <2>1, <3>1
        <4> QED
          BY <4>1, <4>2
      <3> QED
        BY <3>1
    <2>5. "cash" \in Account /\ "operating_expenses" \in Account
      BY Accounts
    <2> QED
      BY <1>3, <1>4, <1>7, <2>1, <2>3, <2>4, <2>5
  <1>11. \A a \in Account : n * R(a) \in Int /\ f * F(a) \in Int
    BY <1>1, <1>2, <1>6
  <1> QED
    BY <1>4, <1>8, <1>9, <1>10, <1>11

\* What all orders have put into the accounts cancels out.
LEMMA IncomeCancels ==
    ASSUME Base, LedgerInv
    PROVE  /\ Total(Income("accounts_receivable")) + Total(Income("sales_revenue"))
              + Total(Income("sales_discounts")) + Total(Income("shipping_revenue"))
              + Total(Income("tax_payable")) + Total(Income("platform_commission_expense"))
              + Total(Income("other_operating_expense")) = 0
           /\ Total(Income("cash")) = 0 /\ Total(Income("operating_expenses")) = 0
  <1> DEFINE i1 == Income("accounts_receivable")
             i2 == Income("sales_revenue")
             i3 == Income("sales_discounts")
             i4 == Income("shipping_revenue")
             i5 == Income("tax_payable")
             i6 == Income("platform_commission_expense")
             i7 == Income("other_operating_expense")
             s2 == [o \in Order |-> i1[o] + i2[o]]
             s3 == [o \in Order |-> s2[o] + i3[o]]
             s4 == [o \in Order |-> s3[o] + i4[o]]
             s5 == [o \in Order |-> s4[o] + i5[o]]
             s6 == [o \in Order |-> s5[o] + i6[o]]
             s7 == [o \in Order |-> s6[o] + i7[o]]
  <1>1. /\ i1 \in [Order -> Int] /\ i2 \in [Order -> Int] /\ i3 \in [Order -> Int]
        /\ i4 \in [Order -> Int] /\ i5 \in [Order -> Int] /\ i6 \in [Order -> Int]
        /\ i7 \in [Order -> Int]
    BY IncomeType DEF Account, RevenueAccount, FeeAccount
  <1>2. \A o \in Order : i1[o] + i2[o] + i3[o] + i4[o] + i5[o] + i6[o] + i7[o] = 0
    BY OrderCancels
  <1>3. Total(Income("cash")) = 0 /\ Total(Income("operating_expenses")) = 0
    <2>1. Income("cash") = [o \in Order |-> 0] /\ Income("operating_expenses") = [o \in Order |-> 0]
      <3>1. \A o \in Order : Income("cash")[o] = 0 /\ Income("operating_expenses")[o] = 0
        BY OrderCancels
      <3> QED
        BY <3>1 DEF Income
    <2> QED
      BY <2>1, TotalOfNothing
  <1>4. IsFiniteSet(Order)
    BY FinanceAssumption
  <1> HIDE DEF i1, i2, i3, i4, i5, i6, i7
  <1>5. /\ s2 \in [Order -> Int] /\ \A o \in Order : s2[o] = i1[o] + i2[o]
    BY <1>1
  <1>6. Total(s2) = Total(i1) + Total(i2)
    BY <1>1, <1>4, TotalAdd
  <1> HIDE DEF s2
  <1>7. /\ s3 \in [Order -> Int] /\ \A o \in Order : s3[o] = s2[o] + i3[o]
    BY <1>1, <1>5
  <1>8. Total(s3) = Total(s2) + Total(i3)
    BY <1>1, <1>4, <1>5, TotalAdd
  <1> HIDE DEF s3
  <1>9. /\ s4 \in [Order -> Int] /\ \A o \in Order : s4[o] = s3[o] + i4[o]
    BY <1>1, <1>7
  <1>10. Total(s4) = Total(s3) + Total(i4)
    BY <1>1, <1>4, <1>7, TotalAdd
  <1> HIDE DEF s4
  <1>11. /\ s5 \in [Order -> Int] /\ \A o \in Order : s5[o] = s4[o] + i5[o]
    BY <1>1, <1>9
  <1>12. Total(s5) = Total(s4) + Total(i5)
    BY <1>1, <1>4, <1>9, TotalAdd
  <1> HIDE DEF s5
  <1>13. /\ s6 \in [Order -> Int] /\ \A o \in Order : s6[o] = s5[o] + i6[o]
    BY <1>1, <1>11
  <1>14. Total(s6) = Total(s5) + Total(i6)
    BY <1>1, <1>4, <1>11, TotalAdd
  <1> HIDE DEF s6
  <1>15. Total(s7) = Total(s6) + Total(i7)
    BY <1>1, <1>4, <1>13, TotalAdd
  <1>16. s7 = [o \in Order |-> 0]
    <2>1. ASSUME NEW o \in Order PROVE s6[o] + i7[o] = 0
      <3>1. /\ i1[o] \in Int /\ i2[o] \in Int /\ i3[o] \in Int /\ i4[o] \in Int
            /\ i5[o] \in Int /\ i6[o] \in Int /\ i7[o] \in Int
        BY <1>1
      <3> QED
        BY <1>2, <1>5, <1>7, <1>9, <1>11, <1>13, <3>1
    <2> QED
      BY <2>1
  <1>17. Total(s7) = 0
    BY <1>16, TotalOfNothing
  <1>18. Total(i1) + Total(i2) + Total(i3) + Total(i4) + Total(i5) + Total(i6) + Total(i7) = 0
    <2>1. /\ Total(i1) \in Int /\ Total(i2) \in Int /\ Total(i3) \in Int /\ Total(i4) \in Int
          /\ Total(i5) \in Int /\ Total(i6) \in Int /\ Total(i7) \in Int
      BY <1>1, <1>4, TotalType
    <2> HIDE DEF s7
    <2> QED
      BY <1>6, <1>8, <1>10, <1>12, <1>14, <1>15, <1>17, <2>1
  <1> QED
    BY <1>3, <1>18 DEF i1, i2, i3, i4, i5, i6, i7

\* A correction moves one unit between two accounts, or nowhere.
LEMMA AdjustmentCancels ==
    ASSUME Base, NEW move, move = Transfer(adjustment[1], adjustment[2], 1)
    PROVE  /\ \A a \in Account : move[a] \in Int
           /\ move["accounts_receivable"] + move["sales_revenue"] + move["sales_discounts"]
              + move["shipping_revenue"] + move["tax_payable"] + move["platform_commission_expense"]
              + move["other_operating_expense"] + move["cash"] + move["operating_expenses"] = 0
  <1> DEFINE at(b, a) == IF a = b THEN 1 ELSE 0
             all(b) == at(b, "accounts_receivable") + at(b, "sales_revenue") + at(b, "sales_discounts")
                + at(b, "shipping_revenue") + at(b, "tax_payable") + at(b, "platform_commission_expense")
                + at(b, "other_operating_expense") + at(b, "cash") + at(b, "operating_expenses")
  <1>1. \/ adjustment[1] \in Account /\ adjustment[2] \in Account
        \/ adjustment[1] = "none" /\ adjustment[2] = "none"
    BY FinanceAssumption DEF Base, TypeOK, NoAdjustment
  <1>2. all("none") = 0 /\ \A b \in Account : all(b) = 1
    BY DEF Account, RevenueAccount, FeeAccount
  <1>3. \A a \in Account : move[a] = at(adjustment[1], a) - at(adjustment[2], a)
    BY DEF Transfer
  <1>4. \A a \in Account : move[a] \in Int
    BY <1>3
  <1>5. all(adjustment[1]) = all(adjustment[2])
    BY <1>1, <1>2
  <1> QED
    BY <1>3, <1>4, <1>5 DEF Account, RevenueAccount, FeeAccount

\* Every account's balance is the sum of four columns.
LEMMA BalanceParts ==
    ASSUME Base, NEW a \in Account
    PROVE  /\ Balance[a] = Total(Income(a)) + Total(Spending(a)) + Total(Received(a))
                + Transfer(adjustment[1], adjustment[2], 1)[a]
  BY DEF Balance

LEMMA ProfitLemma == Base /\ LedgerInv => ProfitIsNetAssets
  <1> SUFFICES ASSUME Base, LedgerInv PROVE ProfitIsNetAssets
    OBVIOUS
  <1> DEFINE move == Transfer(adjustment[1], adjustment[2], 1)
             i(a) == Total(Income(a))
             sum == Total([p \in Payout |-> Total(received[p])])
             spent == Total(paid)
  <1>1. /\ sum \in Int
        /\ Total(Received("cash")) = sum
        /\ Total(Received("accounts_receivable")) = 0 - sum
        /\ \A a \in Account \ {"cash", "accounts_receivable"} : Total(Received(a)) = 0
    BY ReceivedTotals
  <1>2. /\ spent \in Int
        /\ Total(Spending("operating_expenses")) = spent
        /\ Total(Spending("cash")) = 0 - spent
        /\ \A a \in Account \ {"operating_expenses", "cash"} : Total(Spending(a)) = 0
    BY SpendingTotals
  <1>3. /\ i("accounts_receivable") + i("sales_revenue") + i("sales_discounts") + i("shipping_revenue")
            + i("tax_payable") + i("platform_commission_expense") + i("other_operating_expense") = 0
        /\ i("cash") = 0 /\ i("operating_expenses") = 0
    BY IncomeCancels
  <1>4. \A a \in Account : i(a) \in Int
    BY IncomeType
  <1>5. /\ \A a \in Account : move[a] \in Int
        /\ move["accounts_receivable"] + move["sales_revenue"] + move["sales_discounts"]
            + move["shipping_revenue"] + move["tax_payable"] + move["platform_commission_expense"]
            + move["other_operating_expense"] + move["cash"] + move["operating_expenses"] = 0
    BY AdjustmentCancels
  <1>6. \A a \in Account : Balance[a] = i(a) + Total(Spending(a)) + Total(Received(a)) + move[a]
    BY BalanceParts
  <1>7. Account = {"accounts_receivable", "cash", "operating_expenses", "sales_revenue", "sales_discounts",
                   "shipping_revenue", "tax_payable", "platform_commission_expense", "other_operating_expense"}
    BY Accounts
  <1> HIDE DEF move, i, sum, spent
  <1>8. /\ Balance["accounts_receivable"] = i("accounts_receivable") - sum + move["accounts_receivable"]
        /\ Balance["cash"] = sum - spent + move["cash"]
        /\ Balance["operating_expenses"] = spent + move["operating_expenses"]
    BY <1>1, <1>2, <1>3, <1>4, <1>5, <1>6, <1>7
  <1>9. \A a \in Account \ {"accounts_receivable", "cash", "operating_expenses"} :
            Balance[a] = i(a) + move[a]
    BY <1>1, <1>2, <1>4, <1>5, <1>6
  <1>10. /\ Balance["sales_revenue"] = i("sales_revenue") + move["sales_revenue"]
         /\ Balance["sales_discounts"] = i("sales_discounts") + move["sales_discounts"]
         /\ Balance["shipping_revenue"] = i("shipping_revenue") + move["shipping_revenue"]
         /\ Balance["tax_payable"] = i("tax_payable") + move["tax_payable"]
         /\ Balance["platform_commission_expense"]
                = i("platform_commission_expense") + move["platform_commission_expense"]
         /\ Balance["other_operating_expense"]
                = i("other_operating_expense") + move["other_operating_expense"]
    BY <1>7, <1>9
  <1>11. /\ i("accounts_receivable") \in Int /\ i("sales_revenue") \in Int /\ i("sales_discounts") \in Int
         /\ i("shipping_revenue") \in Int /\ i("tax_payable") \in Int
         /\ i("platform_commission_expense") \in Int /\ i("other_operating_expense") \in Int
    BY <1>4, <1>7
  <1>12. /\ move["accounts_receivable"] \in Int /\ move["sales_revenue"] \in Int
         /\ move["sales_discounts"] \in Int /\ move["shipping_revenue"] \in Int
         /\ move["tax_payable"] \in Int /\ move["platform_commission_expense"] \in Int
         /\ move["other_operating_expense"] \in Int /\ move["cash"] \in Int
         /\ move["operating_expenses"] \in Int
    BY <1>5, <1>7
  <1>13. /\ Balance["accounts_receivable"] \in Int /\ Balance["sales_revenue"] \in Int
         /\ Balance["sales_discounts"] \in Int /\ Balance["shipping_revenue"] \in Int
         /\ Balance["tax_payable"] \in Int /\ Balance["platform_commission_expense"] \in Int
         /\ Balance["other_operating_expense"] \in Int /\ Balance["cash"] \in Int
         /\ Balance["operating_expenses"] \in Int
    BY <1>1, <1>2, <1>8, <1>10, <1>11, <1>12
  <1>14. Balance["accounts_receivable"] + Balance["sales_revenue"] + Balance["sales_discounts"]
            + Balance["shipping_revenue"] + Balance["tax_payable"] + Balance["platform_commission_expense"]
            + Balance["other_operating_expense"] + Balance["cash"] + Balance["operating_expenses"] = 0
    BY <1>1, <1>2, <1>3, <1>5, <1>8, <1>10, <1>11, <1>12
  <1> QED
    BY <1>13, <1>14 DEF ProfitIsNetAssets, NetProfit

\* The report of profit and loss always shows what is left in cash, in
\* receivables and owed as tax.
THEOREM ProfitHolds == Spec => []ProfitIsNetAssets
  <1>1. Base /\ LedgerInv => ProfitIsNetAssets
    BY ProfitLemma
  <1> QED
    BY <1>1, BaseHolds, LedgerHolds, PTL

LEMMA ReceivableLemma == Base /\ LedgerInv /\ PostedOnce => ReceivableIsWhatIsOwed
  <1> SUFFICES ASSUME Base, LedgerInv, PostedOnce, Orderly
               PROVE  Balance["accounts_receivable"] =
                        Total([o \in Order |-> IF revenue[o] > 0 THEN NetOf(order[o]) ELSE 0])
                        - Total([p \in Payout |-> Total(received[p])])
                        + Transfer(adjustment[1], adjustment[2], 1)["accounts_receivable"]
    BY DEF ReceivableIsWhatIsOwed
  <1> DEFINE a == "accounts_receivable"
             net == [o \in Order |-> IF revenue[o] > 0 THEN NetOf(order[o]) ELSE 0]
             sum == Total([p \in Payout |-> Total(received[p])])
             move == Transfer(adjustment[1], adjustment[2], 1)
  <1>1. a \in Account
    BY DEF Account
  <1>2. Income(a) = net
    <2>1. ASSUME NEW o \in Order
          PROVE  revenue[o] * RevenueLines(order[o])[a] + fee[o] * FeeLines(order[o])[a]
                    = IF revenue[o] > 0 THEN NetOf(order[o]) ELSE 0
      <3>1. /\ order[o] \in OrderRow /\ revenue[o] \in {0, 1}
            /\ fee[o] = IF FeeSum(order[o]) > 0 THEN revenue[o] ELSE 0
        BY FinanceAssumption DEF Base, TypeOK, LedgerInv, FeesFollowRevenue, PostedOnce
      <3>2. /\ RevenueLines(order[o])[a] = order[o].total
            /\ FeeLines(order[o])[a] = 0 - FeeSum(order[o])
        BY <3>1, LineValues
      <3>3. order[o].total \in Nat /\ FeeSum(order[o]) \in Nat
        BY <3>1, RowType
      <3>4. \A m \in Int : 0 * m = 0 /\ 1 * m = m
        OBVIOUS
      <3> QED
        BY <3>1, <3>2, <3>3, <3>4 DEF NetOf
    <2> QED
      BY <2>1 DEF Income
  <1>3. Total(Spending(a)) = 0 /\ Total(Received(a)) = 0 - sum /\ sum \in Int
    BY <1>1, SpendingTotals, ReceivedTotals
  <1>4. Total(Income(a)) \in Int /\ move[a] \in Int
    BY <1>1, IncomeType, AdjustmentCancels
  <1>5. Balance[a] = Total(Income(a)) + Total(Spending(a)) + Total(Received(a)) + move[a]
    BY <1>1, BalanceParts
  <1> HIDE DEF sum, move
  <1>6. Balance[a] = Total(Income(a)) - sum + move[a]
    BY <1>3, <1>4, <1>5
  <1> QED
    BY <1>2, <1>6 DEF sum, move

\* The receivable is what the recognised orders still owe, and a reconciled
\* payout's variance is what was received last against what it expects.
THEOREM PayoutsHold == Spec => []PayoutsAreSound
  <1>1. Base /\ LedgerInv /\ OnceInv => PayoutsAreSound
    BY ReceivableLemma DEF OnceInv, PayoutsAreSound
  <1> QED
    BY <1>1, BaseHolds, LedgerHolds, OnceHolds, PTL

=============================================================================
