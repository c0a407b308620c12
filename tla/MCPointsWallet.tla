--------------------------- MODULE MCPointsWallet ---------------------------
(* Small instances of PointsWallet for TLC. *)
EXTENDS PointsWallet, TLC

CONSTANTS OpeningPoints, DiscountSubtotal

Math == INSTANCE RedemptionMath

\* One user has points and every watch; the others' wallets may not exist yet.
Watcher == CHOOSE u \in User : TRUE
MCOpening == [u \in User |-> IF u = Watcher THEN OpeningPoints ELSE 0]
MCWatchUser == [w \in Watch |-> Watcher]

\* One point per minor unit, half of the order's subtotal at most
\* (TenantPointSettings' defaults).
MCDiscount == [n \in 1..MaxAmount |-> Math!DiscountMinor(n, DiscountSubtotal, 1, 50)]

Symmetry == Permutations(Request) \cup Permutations(Watch)

\* Total is the sum that a fold over the rows gives, on every small column.
Fold == INSTANCE Folds
ASSUME TotalIsSum ==
    \A c \in [1..3 -> -MaxAmount..MaxAmount] :
        Total(c) = Fold!MapThenFoldSet(+, 0, LAMBDA r : c[r], LAMBDA S : CHOOSE r \in S : TRUE, 1..3)

=============================================================================
