------------------------------ MODULE MCFinance ------------------------------
(* Small instances of Finance for TLC. *)
EXTENDS Finance, TLC

Row(subtotal, discount, tax, shipping, total, commission, other) ==
    [subtotal |-> subtotal, discount |-> discount, tax |-> tax, shipping |-> shipping,
     total |-> total, fees |-> [t \in FeeType |-> IF t = "COMMISSION" THEN commission ELSE other]]

\* An order with fees, one whose discount exceeds its subtotal, and one
\* whose total holds a tax that its columns do not.
MCOrderRows == {Row(3, 1, 1, 1, 4, 1, 1), Row(1, 2, 1, 2, 2, 0, 0), Row(2, 0, 0, 0, 3, 1, 0)}

MCAdjustments == {<<"operating_expenses", "accounts_receivable">>, <<"cash", "sales_revenue">>}

Payouts == {"recognize", "expect", "reconcile"}
Entries == {"recognize", "lock", "correct"}
Expenses == {"approve", "reject", "lock"}
Billing == {"subscribe", "cancel", "overlap"}
MCOpSets == {Payouts, Entries, Expenses, Entries \cup {"overlap"}, Expenses \cup {"overlap"}, Billing}

Symmetry == Permutations(Call) \cup Permutations(Order) \cup Permutations(Expense) \cup Permutations(Payout)
=============================================================================
