------------------------------ MODULE Coupons ------------------------------
(***************************************************************************)
(* One coupon and its redemptions (apps/api/src/digital/coupon.service.ts).*)
(* A redemption is one transaction: what it reads is committed by others,  *)
(* and what it writes is seen when it commits.  The coupon's dates and     *)
(* channels, which refuse a request and count nothing, are left out.       *)
(***************************************************************************)
EXTENDS Naturals, FiniteSets

CONSTANTS Call, Key, Buyer, MaxLimit

Unused == "unused"

\* What a user of this module gives.
CouponsAssumption ==
    /\ MaxLimit \in Nat
    /\ IsFiniteSet(Call) /\ Call # {}
    /\ IsFiniteSet(Key)
    /\ Unused \notin Buyer

VARIABLES
    usageLimit, usageCount, isActive,   \* Coupon
    redeemed,     \* CouponRedemption: the buyer of the redemption under each key
    granted,      \* how many redemptions a key has brought
    highest,      \* the highest limit there has been
    pc, job       \* where each call is; its key and buyer

coupon == <<usageLimit, usageCount, isActive>>
vars == <<coupon, redeemed, granted, highest, pc, job>>

NoJob == [key |-> Unused, buyer |-> Unused]

Init ==
    /\ usageLimit \in 0..MaxLimit
    /\ usageCount = 0
    /\ isActive = TRUE
    /\ redeemed = [k \in Key |-> Unused]
    /\ granted = [k \in Key |-> 0]
    /\ highest = usageLimit
    /\ pc = [c \in Call |-> "idle"]
    /\ job = [c \in Call |-> NoJob]

Goto(c, stage, work) ==
    /\ pc' = [pc EXCEPT ![c] = stage]
    /\ job' = [job EXCEPT ![c] = work]
End(c) == Goto(c, "idle", NoJob)

\* perCustomerLimit is one.
UsesOf(b) == Cardinality({k \in Key : redeemed[k] = b})

\* update: the limit, and whether the coupon is active.
Update(n, b) ==
    /\ usageLimit' = n
    /\ isActive' = b
    /\ highest' = IF n > highest THEN n ELSE highest
    /\ UNCHANGED <<usageCount, redeemed, granted, pc, job>>

\* redeem: no redemption is found under the key (one that is found is the answer) ...
Begin(c, k, b) ==
    /\ pc[c] = "idle"
    /\ redeemed[k] = Unused
    /\ Goto(c, "checking", [key |-> k, buyer |-> b])
    /\ UNCHANGED <<coupon, redeemed, granted, highest>>

\* Mutant: the limit is reached one redemption late.
CheckLate(c) ==
    /\ pc[c] = "checking"
    /\ isActive
    /\ usageCount <= usageLimit
    /\ UsesOf(job[c].buyer) < 1
    /\ Goto(c, "redeeming", job[c])
    /\ UNCHANGED <<coupon, redeemed, granted, highest>>

\* ... the coupon and the buyer's redemptions are read in the transaction ...
Check(c) ==
    /\ pc[c] = "checking"
    /\ isActive
    /\ usageCount < usageLimit
    /\ UsesOf(job[c].buyer) < 1
    /\ Goto(c, "redeeming", job[c])
    /\ UNCHANGED <<coupon, redeemed, granted, highest>>

\* Mutant: the key is not unique.
RedeemTwice(c) ==
    /\ pc[c] = "redeeming"
    /\ redeemed' = [redeemed EXCEPT ![job[c].key] = job[c].buyer]
    /\ granted' = [granted EXCEPT ![job[c].key] = @ + 1]
    /\ usageCount' = usageCount + 1
    /\ End(c)
    /\ UNCHANGED <<usageLimit, isActive, highest>>

\* ... which then stores a redemption, whose key is unique, and adds one use.
Redeem(c) ==
    /\ pc[c] = "redeeming"
    /\ redeemed[job[c].key] = Unused
    /\ redeemed' = [redeemed EXCEPT ![job[c].key] = job[c].buyer]
    /\ granted' = [granted EXCEPT ![job[c].key] = @ + 1]
    /\ usageCount' = usageCount + 1
    /\ End(c)
    /\ UNCHANGED <<usageLimit, isActive, highest>>

\* A call is refused, fails and rolls back, or dies with its process.
Abandon(c) ==
    /\ pc[c] # "idle"
    /\ End(c)
    /\ UNCHANGED <<coupon, redeemed, granted, highest>>

Next ==
    \/ \E n \in 0..MaxLimit, b \in BOOLEAN : Update(n, b)
    \/ \E c \in Call :
        \/ \E k \in Key, b \in Buyer : Begin(c, k, b)
        \/ Check(c) \/ Redeem(c) \/ Abandon(c)

Spec == Init /\ [][Next]_vars

(* Properties *************************************************************)

\* Every variable has its type.
TypeOK ==
    /\ {usageLimit, highest} \subseteq 0..MaxLimit /\ usageLimit <= highest
    /\ usageCount \in Nat /\ isActive \in BOOLEAN
    /\ redeemed \in [Key -> Buyer \cup {Unused}] /\ granted \in [Key -> Nat]
    /\ pc \in [Call -> {"idle", "checking", "redeeming"}]
    /\ job \in [Call -> [key : Key \cup {Unused}, buyer : Buyer \cup {Unused}]]

\* The count is the number of redemptions, through failures, repetitions and races.
CountIsRedemptions ==
    usageCount = Cardinality({k \in Key : redeemed[k] # Unused})

\* A request that is repeated under its key redeems the coupon once.
RedeemedOnce ==
    \A k \in Key : granted[k] <= 1

Redeeming == {c \in Call : pc[c] = "redeeming"}

\* The limit is exceeded by no more than the requests that were checked together with
\* the one that reached it.
UsesWithinLimit ==
    usageCount + Cardinality(Redeeming) < highest + Cardinality(Call)

\* A buyer exceeds the limit of one by the requests made at the same time, and no more.
BuyerWithinLimit ==
    \A b \in Buyer :
        UsesOf(b) + Cardinality({c \in Redeeming : job[c].buyer = b}) <= Cardinality(Call)

=============================================================================
