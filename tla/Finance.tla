------------------------------- MODULE Finance -------------------------------
(***************************************************************************)
(* The tenant's books (apps/api/src/finance, points/ledger.service.ts):    *)
(* orders are recognised as revenue and fees, expenses decided, payouts    *)
(* expected and reconciled, a period locked, and a subscription taken out. *)
(*                                                                         *)
(* A posting joins the caller's transaction, but what it depends on is     *)
(* read outside it: whether the source was posted before, the status of    *)
(* the row, whether the period is locked.  Every await is a step, and a    *)
(* call may fail or die after any of them.  One period holds every date.   *)
(***************************************************************************)
EXTENDS LedgerPostings, ColumnSums, Sequences

CONSTANTS Call, Order, Expense,
          Payout,        \* rows that may be created for the period
          OrderRows,     \* the amounts an order may have
          Adjustments,   \* the accounts a manual correction may debit and credit
          OpSets,        \* which operations are in use together
          MaxAmount, MaxPostings    \* bounds: an amount, entries of one source

Operations == {"recognize", "approve", "reject", "expect", "reconcile", "lock", "correct",
               "subscribe", "cancel", "overlap"}

\* The kinds of row are told apart, and nothing is recorded without bound.
ASSUME FinanceAssumption ==
    /\ \A rowSet \in {Order, Expense, Payout} :
        IsFiniteSet(rowSet) /\ {"none", "period", "tenant"} \cap rowSet = {}
    /\ Order \cap Expense = {} /\ Order \cap Payout = {} /\ Expense \cap Payout = {}
    /\ OrderRows \subseteq OrderRow
    /\ Adjustments \subseteq Account \X Account
    /\ OpSets \subseteq SUBSET Operations
    /\ {MaxAmount, MaxPostings} \subseteq Nat

VARIABLES
    ops,           \* the operations in use; "overlap": also at once on one row
    order,         \* the amounts of each order
    known,         \* the orders that have been ingested
    locked,        \* PeriodLock.status = LOCKED
    revenue, fee,  \* how many LedgerEntry rows of source order_revenue, order_fees
    paid,          \* how many of source expense
    received,      \* the amounts of those of source payout, oldest first
    adjustment,    \* the accounts of the manual_adjustment, if there is one
    expense,       \* Expense.status
    payout,        \* FinancePayout
    subscription,  \* Subscription: whether there is a row, its id at Stripe or 0,
                   \* whether it is being cancelled
    stripe,        \* Stripe: how many subscriptions, which are being cancelled
    grants,        \* AiCreditLedger rows of reason PLAN_GRANT
    pc, job        \* where each call is, and what it holds

ordinary == <<revenue, fee, paid, received>>
billing == <<subscription, stripe, grants>>
given == <<ops, order>>
rows == <<expense, payout>>
vars == <<given, known, locked, ordinary, adjustment, rows, billing, pc, job>>

NoPayout == [status |-> "none", expected |-> 0, amount |-> 0, variance |-> 0]
NoJob == [op |-> "none", on |-> "none", amount |-> 0, expected |-> 0, posts |-> <<>>, checked |-> 0]
NoAdjustment == <<"none", "none">>
NoSubscription == [row |-> FALSE, id |-> 0, cancelling |-> FALSE]

Init ==
    /\ ops \in OpSets
    /\ order \in [Order -> OrderRows]
    /\ known = {}
    /\ locked = FALSE
    /\ revenue = [o \in Order |-> 0]
    /\ fee = [o \in Order |-> 0]
    /\ paid = [x \in Expense |-> 0]
    /\ received = [p \in Payout |-> <<>>]
    /\ adjustment = NoAdjustment
    /\ expense = [x \in Expense |-> "PENDING"]
    /\ payout = [p \in Payout |-> NoPayout]
    /\ subscription = NoSubscription
    /\ stripe = [created |-> 0, cancelling |-> {}]
    /\ grants = 0
    /\ pc = [c \in Call |-> "idle"]
    /\ job = [c \in Call |-> NoJob]

Goto(c, stage, work) ==
    /\ pc' = [pc EXCEPT ![c] = stage]
    /\ job' = [job EXCEPT ![c] = work]
End(c) == Goto(c, "idle", NoJob)
Work(op, on, amount, expected, posts) ==
    [op |-> op, on |-> on, amount |-> amount, expected |-> expected, posts |-> posts, checked |-> 0]

\* Payouts are worked on one at a time, for they share the period.
SameRow(row, other) == row = other \/ {row, other} \subseteq Payout \cup {"period"}

\* A call begins, unless another works on the same row and calls do not overlap.
Begin(c, op, row) ==
    /\ pc[c] = "idle"
    /\ op \in ops
    /\ "overlap" \in ops \/ \A d \in Call : ~SameRow(row, job[d].on)

(* Reads before a transaction *********************************************)

\* What recognising an order posts: its revenue, and its fees if it has any.
OrderEntries(row) ==
    IF FeeSum(row) > 0 THEN <<"order_revenue", "order_fees">> ELSE <<"order_revenue">>

\* Mutant: the order is posted whether or not it has been before.
RecognizeAgain(c, o) ==
    /\ Begin(c, "recognize", o)
    /\ o \in known
    /\ revenue[o] < MaxPostings
    /\ Reconciles(order[o])
    /\ Goto(c, "posting", Work("recognize", o, 0, 0, OrderEntries(order[o])))
    /\ UNCHANGED <<given, known, locked, ordinary, adjustment, rows, billing>>

\* recognizeOrder: nothing is done for an order that has a revenue entry, and
\* one whose total is not the sum of its parts is refused (buildOrderRevenueLines).
Recognize(c, o) ==
    /\ Begin(c, "recognize", o)
    /\ o \in known
    /\ revenue[o] = 0
    /\ Reconciles(order[o])
    /\ Goto(c, "posting", Work("recognize", o, 0, 0, OrderEntries(order[o])))
    /\ UNCHANGED <<given, known, locked, ordinary, adjustment, rows, billing>>

\* decide: only a PENDING expense.
Approve(c, x) ==
    /\ Begin(c, "approve", x)
    /\ expense[x] = "PENDING"
    /\ Goto(c, "posting", Work("approve", x, 0, 0, <<"expense">>))
    /\ UNCHANGED <<given, known, locked, ordinary, adjustment, rows, billing>>

Reject(c, x) ==
    /\ Begin(c, "reject", x)
    /\ expense[x] = "PENDING"
    /\ Goto(c, "rejecting", Work("reject", x, 0, 0, <<>>))
    /\ UNCHANGED <<given, known, locked, ordinary, adjustment, rows, billing>>

\* reconcile: the expected amount is read here, whatever the payout's status.
\* Without a positive amount there is nothing to post (buildPayoutReceivedLines).
Reconcile(c, p, amount) ==
    /\ Begin(c, "reconcile", p)
    /\ payout[p].status # "none"
    /\ Len(received[p]) < MaxPostings
    /\ Goto(c, "posting", Work("reconcile", p, amount, payout[p].expected,
                               IF amount > 0 THEN <<"payout">> ELSE <<>>))
    /\ UNCHANGED <<given, known, locked, ordinary, adjustment, rows, billing>>

\* Mutant: any payout of the period is taken for an open one.
FindAny(c) ==
    /\ Begin(c, "expect", "period")
    /\ \/ \E p \in Payout : /\ payout[p].status # "none"
                            /\ Goto(c, "computing", Work("expect", p, 0, 0, <<>>))
       \/ /\ \A p \in Payout : payout[p].status = "none"
          /\ Goto(c, "computing", Work("expect", "period", 0, 0, <<>>))
    /\ UNCHANGED <<given, known, locked, ordinary, adjustment, rows, billing>>

\* createExpectedPayout looks for an open payout of the period ...
FindOpen(c) ==
    /\ Begin(c, "expect", "period")
    /\ \/ \E p \in Payout : /\ payout[p].status = "EXPECTED"
                            /\ Goto(c, "computing", Work("expect", p, 0, 0, <<>>))
       \/ /\ \A p \in Payout : payout[p].status # "EXPECTED"
          /\ Goto(c, "computing", Work("expect", "period", 0, 0, <<>>))
    /\ UNCHANGED <<given, known, locked, ordinary, adjustment, rows, billing>>

\* ... and computes what the channel is to pay.
ComputeExpected(c) ==
    /\ pc[c] = "computing"
    /\ Goto(c, "expecting", [job[c] EXCEPT !.expected =
                Total([o \in Order |-> IF o \in known THEN NetOf(order[o]) ELSE 0])])
    /\ UNCHANGED <<given, known, locked, ordinary, adjustment, rows, billing>>

(* Writes *****************************************************************)

\* Mutant: the period is checked for the first entry only.
CheckFirst(c) ==
    /\ pc[c] = "posting"
    /\ job[c].checked < Len(job[c].posts)
    /\ IF locked /\ job[c].checked = 0 THEN End(c)
       ELSE Goto(c, "posting", [job[c] EXCEPT !.checked = @ + 1])
    /\ UNCHANGED <<given, known, locked, ordinary, adjustment, rows, billing>>

\* postBalancedEntry asks whether the period is locked, for each entry: the
\* answer does not come from the transaction that holds the entry.
CheckPeriod(c) ==
    /\ pc[c] = "posting"
    /\ job[c].checked < Len(job[c].posts)
    /\ IF locked THEN End(c)
       ELSE Goto(c, "posting", [job[c] EXCEPT !.checked = @ + 1])
    /\ UNCHANGED <<given, known, locked, ordinary, adjustment, rows, billing>>

Abs(n) == IF n < 0 THEN -n ELSE n
\* More than half a percent of what was expected (RECONCILIATION_MAJOR_VARIANCE_PCT).
MajorVariance(variance, expected) ==
    IF expected = 0 THEN variance # 0 ELSE 200 * Abs(variance) > Abs(expected)
Reconciled(row, amount, expected) == [row EXCEPT
    !.amount = amount, !.variance = amount - expected,
    !.status = IF MajorVariance(amount - expected, expected) THEN "VARIANCE_FLAGGED"
                                                             ELSE "RECONCILED"]
Posted(c, source) == \E i \in DOMAIN job[c].posts : job[c].posts[i] = source

\* The transaction commits: its entries, and the row by its id alone.
Commit(c) ==
    LET on == job[c].on
    IN /\ pc[c] = "posting"
       /\ job[c].checked = Len(job[c].posts)
       /\ revenue' = [o \in Order |-> revenue[o] + IF on = o THEN 1 ELSE 0]
       /\ fee' = [o \in Order |-> fee[o] + IF on = o /\ Posted(c, "order_fees") THEN 1 ELSE 0]
       /\ paid' = [x \in Expense |-> paid[x] + IF on = x THEN 1 ELSE 0]
       /\ received' = [p \in Payout |-> IF on = p /\ Posted(c, "payout")
                                        THEN Append(received[p], job[c].amount) ELSE received[p]]
       /\ expense' = [x \in Expense |-> IF on = x THEN "APPROVED" ELSE expense[x]]
       /\ payout' = [p \in Payout |-> IF on = p THEN Reconciled(payout[p], job[c].amount, job[c].expected)
                                      ELSE payout[p]]
       /\ End(c)
       /\ UNCHANGED <<given, known, locked, adjustment, billing>>

WriteRejected(c) ==
    /\ pc[c] = "rejecting"
    /\ expense' = [expense EXCEPT ![job[c].on] = "REJECTED"]
    /\ End(c)
    /\ UNCHANGED <<given, known, locked, ordinary, adjustment, payout, billing>>

\* The open payout is refreshed by its id, whatever it has become, or one is made.
WriteExpected(c) ==
    LET row == [status |-> "EXPECTED", expected |-> job[c].expected, amount |-> 0, variance |-> 0]
    IN /\ pc[c] = "expecting"
       /\ IF job[c].on \in Payout
          THEN payout' = [payout EXCEPT ![job[c].on].expected = job[c].expected]
          ELSE \E p \in Payout : payout[p].status = "none" /\ payout' = [payout EXCEPT ![p] = row]
       /\ End(c)
       /\ UNCHANGED <<given, known, locked, ordinary, adjustment, expense, billing>>

(* Single statements ******************************************************)

\* An order of the period arrives (module OrderIngestion).
Ingest(o) ==
    /\ "recognize" \in ops
    /\ known' = known \cup {o}
    /\ UNCHANGED <<given, locked, ordinary, adjustment, rows, billing, pc, job>>

Lock ==
    /\ "lock" \in ops
    /\ locked' = TRUE
    /\ UNCHANGED <<given, known, ordinary, adjustment, rows, billing, pc, job>>
Unlock ==
    /\ locked' = FALSE
    /\ UNCHANGED <<given, known, ordinary, adjustment, rows, billing, pc, job>>

\* postManualCorrection: a balanced entry of one unit, in a locked period too.
Correct(debit, credit) ==
    /\ "correct" \in ops
    /\ adjustment = NoAdjustment
    /\ adjustment' = <<debit, credit>>
    /\ UNCHANGED <<given, known, locked, ordinary, rows, billing, pc, job>>

(* Billing ****************************************************************)

\* subscribe: only a tenant that has no subscription.
Subscribe(c) ==
    /\ Begin(c, "subscribe", "tenant")
    /\ ~subscription.row
    /\ stripe.created < MaxPostings
    /\ Goto(c, "signing", Work("subscribe", "tenant", 0, 0, <<>>))
    /\ UNCHANGED <<given, known, locked, ordinary, adjustment, rows, billing>>

\* Without a key for Stripe, or a price of the plan there, the row has no id.
SkipStripe(c) ==
    /\ pc[c] = "signing"
    /\ Goto(c, "recording", Work("subscribe", "tenant", 0, 0, <<>>))
    /\ UNCHANGED <<given, known, locked, ordinary, adjustment, rows, billing>>

CreateAtStripe(c) ==
    /\ pc[c] = "signing"
    /\ stripe' = [stripe EXCEPT !.created = @ + 1]
    /\ Goto(c, "recording", [job[c] EXCEPT !.amount = stripe.created + 1])
    /\ UNCHANGED <<given, known, locked, ordinary, adjustment, rows, subscription, grants>>

\* Mutant: an existing row is taken over.
UpsertSubscription(c) ==
    /\ pc[c] = "recording"
    /\ subscription' = [row |-> TRUE, id |-> job[c].amount, cancelling |-> FALSE]
    /\ Goto(c, "granting", job[c])
    /\ UNCHANGED <<given, known, locked, ordinary, adjustment, rows, stripe, grants>>

\* Subscription.tenantId is unique: a second row is refused.
CreateSubscription(c) ==
    /\ pc[c] = "recording"
    /\ IF ~subscription.row
       THEN /\ subscription' = [row |-> TRUE, id |-> job[c].amount, cancelling |-> FALSE]
            /\ Goto(c, "granting", job[c])
       ELSE End(c) /\ UNCHANGED subscription
    /\ UNCHANGED <<given, known, locked, ordinary, adjustment, rows, stripe, grants>>

Grant(c) ==
    /\ pc[c] = "granting"
    /\ grants' = grants + 1
    /\ End(c)
    /\ UNCHANGED <<given, known, locked, ordinary, adjustment, rows, subscription, stripe>>

\* cancel: at Stripe first, if the row has an id there, then the row.
Cancel(c) ==
    /\ Begin(c, "cancel", "tenant")
    /\ subscription.row
    /\ Goto(c, IF subscription.id = 0 THEN "cancelled" ELSE "cancelling",
            Work("cancel", "tenant", subscription.id, 0, <<>>))
    /\ UNCHANGED <<given, known, locked, ordinary, adjustment, rows, billing>>

CancelAtStripe(c) ==
    /\ pc[c] = "cancelling"
    /\ stripe' = [stripe EXCEPT !.cancelling = @ \cup {job[c].amount}]
    /\ Goto(c, "cancelled", job[c])
    /\ UNCHANGED <<given, known, locked, ordinary, adjustment, rows, subscription, grants>>

RecordCancelled(c) ==
    /\ pc[c] = "cancelled"
    /\ subscription' = [subscription EXCEPT !.cancelling = TRUE]
    /\ End(c)
    /\ UNCHANGED <<given, known, locked, ordinary, adjustment, rows, stripe, grants>>

(***************************************************************************)

\* A statement fails or the process dies; a transaction leaves nothing behind.
Fail(c) ==
    /\ pc[c] # "idle"
    /\ End(c)
    /\ UNCHANGED <<given, known, locked, ordinary, adjustment, rows, billing>>

Next ==
    \/ \E c \in Call :
        \/ \E o \in Order : Recognize(c, o)
        \/ \E x \in Expense : Approve(c, x) \/ Reject(c, x)
        \/ \E p \in Payout, amount \in 0..MaxAmount : Reconcile(c, p, amount)
        \/ FindOpen(c) \/ ComputeExpected(c) \/ WriteExpected(c)
        \/ CheckPeriod(c) \/ Commit(c) \/ WriteRejected(c)
        \/ Subscribe(c) \/ SkipStripe(c) \/ CreateAtStripe(c)
        \/ CreateSubscription(c) \/ Grant(c)
        \/ Cancel(c) \/ CancelAtStripe(c) \/ RecordCancelled(c)
        \/ Fail(c)
    \/ \E o \in Order : Ingest(o)
    \/ Lock \/ Unlock
    \/ \E pair \in Adjustments : Correct(pair[1], pair[2])

Spec == Init /\ [][Next]_vars

(* The books **************************************************************)

\* One unit per expense.
ExpenseAmount == 1

\* sumByAccount: debits less credits of every entry, in columns by their source.
Income(a) == [o \in Order |-> revenue[o] * RevenueLines(order[o])[a] + fee[o] * FeeLines(order[o])[a]]
Spending(a) == [x \in Expense |-> paid[x] * ExpenseLines(ExpenseAmount)[a]]
Received(a) == [p \in Payout |->
    Total([i \in DOMAIN received[p] |-> PayoutReceivedLines(received[p][i])[a]])]
Balance == [a \in Account |->
    Total(Income(a)) + Total(Spending(a)) + Total(Received(a))
    + Transfer(adjustment[1], adjustment[2], 1)[a]]

Orderly == "overlap" \notin ops

(* Properties *************************************************************)

Stage == {"idle", "posting", "rejecting", "computing", "expecting", "signing", "recording",
          "granting", "cancelling", "cancelled"}

Source == {"order_revenue", "order_fees", "payout", "expense"}

PayoutRow == [status : {"none", "EXPECTED", "RECONCILED", "VARIANCE_FLAGGED"},
              expected : Int, amount : Int, variance : Int]

JobRecord == [op : Operations \cup {"none"},
              on : Order \cup Expense \cup Payout \cup {"none", "period", "tenant"},
              amount : Nat, expected : Int, posts : Seq(Source), checked : 0..2]

TypeOK ==
    /\ ops \in OpSets
    /\ order \in [Order -> OrderRows]
    /\ known \subseteq Order
    /\ locked \in BOOLEAN
    /\ revenue \in [Order -> Nat]
    /\ fee \in [Order -> Nat]
    /\ paid \in [Expense -> Nat]
    /\ received \in [Payout -> Seq(1..MaxAmount)]
    /\ adjustment \in Adjustments \cup {NoAdjustment}
    /\ expense \in [Expense -> {"PENDING", "APPROVED", "REJECTED"}]
    /\ payout \in [Payout -> PayoutRow]
    /\ \A p \in Payout : payout[p].status = "none" => received[p] = <<>>
    /\ subscription \in [row : BOOLEAN, id : Nat, cancelling : BOOLEAN]
    /\ stripe \in [created : Nat, cancelling : SUBSET Nat]
    /\ grants \in Nat
    /\ pc \in [Call -> Stage]
    /\ job \in [Call -> JobRecord]

\* An order's fees are in the ledger whenever its revenue is, and as often,
\* whatever calls overlap or fail: recognizeOrder posts both in one transaction.
FeesFollowRevenue == \A o \in Order :
    fee[o] = IF FeeSum(order[o]) > 0 THEN revenue[o] ELSE 0

\* Where calls on one row do not overlap, however often they fail and are
\* repeated: an order is recognised once, and an expense is in the ledger
\* exactly if it is APPROVED.  ("A second call for an already-posted order is
\* a real no-op", fee-decomposition.service.ts:44, is true of such calls only.)
PostedOnce == Orderly =>
    /\ \A o \in Order : revenue[o] <= 1
    /\ \A x \in Expense : paid[x] = IF expense[x] = "APPROVED" THEN 1 ELSE 0

\* The types, and what the ledger has of orders and expenses.
EntriesAreSound == TypeOK /\ FeesFollowRevenue /\ PostedOnce

\* Likewise, a reconciled payout's variance is what was received last against
\* what it expects: refreshing the expectation never reaches a reconciled row.
ReconciledAgrees == Orderly => \A p \in Payout :
    payout[p].status \in {"RECONCILED", "VARIANCE_FLAGGED"} =>
        /\ payout[p].variance = payout[p].amount - payout[p].expected
        /\ payout[p].amount > 0 => received[p][Len(received[p])] = payout[p].amount

\* The receivable is the net of the recognised orders, as createExpectedPayout
\* computes it, less what was received: a payout that matches its expectation
\* clears it.  Two parts of the code (order rows, ledger entries) agree on it.
ReceivableIsWhatIsOwed == Orderly =>
    Balance["accounts_receivable"] =
        Total([o \in Order |-> IF revenue[o] > 0 THEN NetOf(order[o]) ELSE 0])
        - Total([p \in Payout |-> Total(received[p])])
        + Transfer(adjustment[1], adjustment[2], 1)["accounts_receivable"]

\* What is still to come, in the payouts' rows and in the ledger.
PayoutsAreSound == ReconciledAgrees /\ ReceivableIsWhatIsOwed

\* The profit-and-loss report shows what the entries have left in cash, in
\* receivables and owed as tax, after every order, payout, expense and
\* correction, discounts above the subtotal included.
ProfitIsNetAssets ==
    NetProfit(Balance) = Balance["cash"] + Balance["accounts_receivable"] + Balance["tax_payable"]

\* A call that has asked about every entry it is to post.
Passed(c) == pc[c] = "posting" /\ job[c].posts # <<>> /\ job[c].checked = Len(job[c].posts)

\* In a locked period only those calls post that had been answered before the
\* lock; once they have ended, nothing but corrections does until it is
\* unlocked.  (ledger.service.ts:62 says "once a period is LOCKED, only an
\* explicit adjustment entry may post into it".)
LockHolds == [][(locked /\ locked' /\ ~\E c \in Call : Passed(c))
                  => ordinary' = ordinary /\ ~\E c \in Call : Passed(c)']_vars

\* Whatever calls overlap or fail: a plan's credits are granted once at most,
\* and only with a row; a row with an id at Stripe has a subscription there,
\* which is cancelled there if the row is.  What Stripe has beyond the row is not
\* claimed: a failed or refused creation leaves a subscription nobody knows.
SubscriptionAgrees ==
    /\ grants <= IF subscription.row THEN 1 ELSE 0
    /\ subscription.id <= stripe.created
    /\ subscription.cancelling => subscription.id \in stripe.cancelling \cup {0}

=============================================================================
