--------------------------- MODULE LedgerPostings ---------------------------
(***************************************************************************)
(* The postings of packages/shared/src/ledger-postings.ts that the         *)
(* application makes, each as the net debit it adds to every account, and  *)
(* the profit-and-loss report read back from the accounts                  *)
(* (apps/api/src/finance/pnl.service.ts).  A builder throws for what does  *)
(* not reconcile; here that is a predicate.  postOrderRefund and           *)
(* postFxGainLoss have no caller.                                          *)
(***************************************************************************)
EXTENDS Integers

\* LEDGER_ACCOUNT_CODES: those posted to, fees through two of their six accounts.
RevenueAccount == {"sales_revenue", "shipping_revenue"}
FeeAccount == {"platform_commission_expense", "other_operating_expense"}
Account == RevenueAccount \cup FeeAccount \cup
    {"cash", "accounts_receivable", "tax_payable", "sales_discounts", "operating_expenses"}

\* OrderFee.type and the account it is decomposed into.
FeeType == {"COMMISSION", "OTHER"}
FeeAccountOf(type) ==
    IF type = "COMMISSION" THEN "platform_commission_expense" ELSE "other_operating_expense"

\* A column of an order that is not negative, so that its lines can be built.
OrderRow == [subtotal : Nat, discount : Nat, tax : Nat, shipping : Nat, total : Nat,
             fees : [FeeType -> Nat]]

Positive(n) == IF n > 0 THEN n ELSE 0
FeeSum(order) == order.fees["COMMISSION"] + order.fees["OTHER"]
\* computeExpected: what the channel is to pay for an order.
NetOf(order) == order.total - FeeSum(order)

Reconciles(order) ==
    order.total = order.subtotal - order.discount + order.tax + order.shipping

\* Mutant: a discount beyond the subtotal is dropped.
RevenueLinesUndiscounted(order) == [a \in Account |->
    CASE a = "accounts_receivable" -> order.total
      [] a = "sales_revenue"       -> -Positive(order.subtotal - order.discount)
      [] a = "shipping_revenue"    -> -order.shipping
      [] a = "tax_payable"         -> -order.tax
      [] OTHER                     -> 0]

RevenueLines(order) == [a \in Account |->
    CASE a = "accounts_receivable" -> order.total
      [] a = "sales_revenue"       -> -Positive(order.subtotal - order.discount)
      [] a = "sales_discounts"     -> Positive(order.discount - order.subtotal)
      [] a = "shipping_revenue"    -> -order.shipping
      [] a = "tax_payable"         -> -order.tax
      [] OTHER                     -> 0]

FeeLines(order) == [a \in Account |->
    CASE a = "accounts_receivable" -> -FeeSum(order)
      [] a \in FeeAccount -> order.fees[CHOOSE t \in FeeType : FeeAccountOf(t) = a]
      [] OTHER            -> 0]

\* Money that moves between two accounts: a payout received, an expense paid.
Transfer(debit, credit, amount) == [a \in Account |->
    (IF a = debit THEN amount ELSE 0) - (IF a = credit THEN amount ELSE 0)]
PayoutReceivedLines(amount) == Transfer("cash", "accounts_receivable", amount)
ExpenseLines(amount) == Transfer("operating_expenses", "cash", amount)

\* getReport: what was earned, less discounts, fees and expenses.
NetProfit(balance) ==
    - balance["sales_revenue"] - balance["shipping_revenue"] - balance["sales_discounts"]
    - balance["platform_commission_expense"] - balance["other_operating_expense"]
    - balance["operating_expenses"]
=============================================================================
