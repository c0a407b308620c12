---------------------------- MODULE PointsWallet ----------------------------
(***************************************************************************)
(* The points wallet of OmniSell (apps/api/src/points): every operation    *)
(* that moves points, run as a database transaction, statement by          *)
(* statement, against PostgreSQL at its default READ COMMITTED level (no   *)
(* call in the repository asks for another): a statement sees what was     *)
(* committed when it starts and what its own transaction wrote; an insert  *)
(* under a unique key, and an update of a row, wait while another open     *)
(* transaction holds that key or that row.                                 *)
(*                                                                         *)
(* A Request is one call of adjustPoints, awardIfEligible, confirm,        *)
(* refund, of one iteration of runExpirySweep, or of rejectFraudSuspect.   *)
(* A call inserts at most one PointTransaction row and at most one         *)
(* purchase, so both are named by the request that inserted them.          *)
(***************************************************************************)
EXTENDS ColumnSums

CONSTANTS User, Request, Watch, Key,
          MaxAmount,     \* no single row carries more than this
          WatchUser,     \* [Watch -> User]: video_watch.user_id
          Ops,           \* the operations that clients call
          Points,        \* the amounts they call them with
          Opening,       \* [User -> Nat]: points earned before the first step
          Discount,      \* [1..MaxAmount -> Nat]: RedemptionMath's quote
          MinRedeem,     \* TenantPointSettings.minRedeemPoints
          DailyCap,      \* POINTS_DAILY_EARNING_CAP
          ActionCap,     \* PointEarningRule.maxDailyCap
          Cooldown       \* TRUE: the modelled day is shorter than cooldownSeconds

Operations == {"adjust", "award", "confirm", "refund", "expire", "reject"}

ASSUME MaxAmountAssumption == MaxAmount \in Nat

ASSUME WalletAssumption ==
    /\ User # {} /\ IsFiniteSet(Request)
    /\ WatchUser \in [Watch -> User]
    /\ Ops \subseteq Operations
    /\ Points \subseteq 1..MaxAmount
    /\ Opening \in [User -> Nat]
    /\ Discount \in [1..MaxAmount -> 0..MaxAmount]
    /\ MinRedeem \in Nat /\ DailyCap \in Nat /\ ActionCap \in Nat
    /\ Cooldown \in BOOLEAN

VARIABLES
    wallet,       \* committed Wallet rows: [User -> [balance, version]]
    row,          \* committed PointTransaction status: [Request -> Status]
    purchase,     \* committed ProductPurchaseWithPoints status
    liability,    \* committed credits less debits of ledger account points_liability
    pc,           \* the statement each request is at
    job,          \* what each request was called with, or read before its transaction
    seen          \* the wallet row each request last read in applyValidatedDelta

committed == <<wallet, row, purchase, liability>>
vars == <<wallet, row, purchase, liability, pc, job, seen>>

Status == {"none", "VALIDATED", "REVERSED"}
PurchaseStatus == {"none", "CONFIRMED", "REFUNDED"}
Stage == {"idle", "begun", "opened", "checked", "inserted", "read", "verified",
          "written", "committed", "ended"}
Ref == Watch \cup Key \cup Request \cup {"none"}
Job == [op : Operations \cup {"none"}, user : User,
        amount : -MaxAmount..MaxAmount, ref : Ref]
WalletRow == [balance : Int, version : Nat]

NoJob == [op |-> "none", user |-> CHOOSE u \in User : TRUE, amount |-> 0, ref |-> "none"]

\* A wallet with no points yet may not exist (version 0), or exist because its
\* owner has looked at it (createForUser's version 1).
Init ==
    /\ \E viewed \in SUBSET User :
         wallet = [u \in User |-> [balance |-> Opening[u],
                                  version |-> IF Opening[u] > 0 THEN 2
                                              ELSE IF u \in viewed THEN 1 ELSE 0]]
    /\ row = [t \in Request |-> "none"]
    /\ purchase = [t \in Request |-> "none"]
    /\ liability = 0
    /\ pc = [t \in Request |-> "idle"]
    /\ job = [t \in Request |-> NoJob]
    /\ seen = [t \in Request |-> [balance |-> 0, version |-> 0]]

-----------------------------------------------------------------------------
(* What the tables say *)

IsReversal(t) == job[t].op = "reject"

\* The unique key a request inserts under: (tenant, source, source_id) of its
\* PointTransaction, or the (tenant, idempotency_key) of its purchase, whose
\* redemption row is keyed by the purchase itself.  An admin_adjust row has no
\* source_id, so nothing collides with it.  A reversal inserts nothing: it
\* holds the row it updates.
SourceKey(t) == <<job[t].op, IF job[t].op = "adjust" THEN t ELSE job[t].ref>>

\* The signed amounts of the rows of u that `counted` selects.
Column(u, counted) ==
    [r \in Request |-> IF r \in counted /\ job[r].user = u THEN job[r].amount ELSE 0]

Validated == {r \in Request : row[r] = "VALIDATED"}

\* sumValidated: what the balance should be.
Derived(u) == Opening[u] + Total(Column(u, Validated))

\* The same query inside request t, which also sees its own row inserted, or
\* the row it has just marked REVERSED.
DerivedFor(t) ==
    LET visible == IF IsReversal(t) THEN Validated \ {job[t].ref} ELSE Validated \cup {t}
    IN  Opening[job[t].user] + Total(Column(job[t].user, visible))

\* sumEarnedSince: VALIDATED rows of type EARN; with an action, only its source.
EarnedToday(u, sources) ==
    Total(Column(u, {r \in Validated : job[r].op \in sources}))

-----------------------------------------------------------------------------
(* Statements *)

InTransaction == {"begun", "opened", "checked", "inserted", "read", "verified", "written"}
HoldsKey == {"inserted", "read", "verified", "written"}

Goto(t, stage) == pc' = [pc EXCEPT ![t] = stage]

\* A refused check throws: the transaction rolls back and the request ends.
Check(t, ok, stage) == Goto(t, IF ok THEN stage ELSE "ended")

Start(t, op, u, n, ref) ==
    /\ op \in Ops
    /\ pc[t] = "idle"
    /\ job' = [job EXCEPT ![t] = [op |-> op, user |-> u, amount |-> n, ref |-> ref]]
    /\ Goto(t, IF op = "reject" THEN "checked" ELSE "begun")
    /\ UNCHANGED <<committed, seen>>

\* WalletService.adjustPoints
Adjust(t) == \E u \in User, n \in Points :
    \/ Start(t, "adjust", u, n, "none")
    \/ Start(t, "adjust", u, -n, "none")

\* VideoWatchService.awardIfEligible, up to findValidatedBySource, which runs
\* before the transaction; finding a row is a replay and ends there.
Award(t) == \E w \in Watch, n \in Points :
    /\ ~ \E r \in Validated : job[r].op = "award" /\ job[r].ref = w
    /\ Start(t, "award", WatchUser[w], n, w)

\* RedemptionService.confirm
Confirm(t) == \E u \in User, n \in Points, k \in Key : Start(t, "confirm", u, -n, k)

\* RedemptionService.refund: the purchase is read once and must be CONFIRMED;
\* the points go back to the purchaser, whoever asks.
Refund(t) == \E p \in Request :
    /\ purchase[p] = "CONFIRMED"
    /\ Start(t, "refund", job[p].user, -job[p].amount, p)

\* ExpiryService.runExpirySweep: the sweep lists the VALIDATED award rows past
\* their expiresAt (the ones expired before included) and then opens one
\* transaction for each.
Expire(t) == \E r \in Validated :
    /\ job[r].op = "award"
    /\ Start(t, "expire", job[r].user, -job[r].amount, r)

\* VideoWatchService.rejectFraudSuspect: findBySource runs before the
\* transaction, which is opened only for a VALIDATED row.
Reject(t) == \E r \in Validated :
    /\ job[r].op = "award"
    /\ Start(t, "reject", job[r].user, -job[r].amount, r)

\* WalletRepository.findOrCreateForUser (the sweep only reads the wallet): a
\* second transaction creating the same wallet waits for the first.  confirm
\* checks the balance it has just read, then computeMath its floor.
Open(t) ==
    LET u == job[t].user IN
    /\ pc[t] = "begun"
    /\ wallet[u].version = 0 =>
         \A s \in Request \ {t} : ~ (job[s].user = u /\ pc[s] \in InTransaction \ {"begun"})
    /\ Check(t, job[t].op = "confirm" =>
                  /\ -job[t].amount <= wallet[u].balance
                  /\ -job[t].amount >= MinRedeem,
             IF job[t].op = "award" THEN "opened" ELSE "checked")
    /\ UNCHANGED <<committed, job, seen>>

\* EarningRuleService.enforceCapsAndCooldown.  The cooldown looks at the last
\* award row whatever its status; the global cap counts refund rows too, for
\* they are of type EARN.
CheckCaps(t) ==
    LET u == job[t].user IN
    /\ pc[t] = "opened"
    /\ Check(t, /\ Cooldown => ~ \E r \in Request : /\ row[r] # "none"
                                                    /\ job[r].op = "award"
                                                    /\ job[r].user = u
                /\ EarnedToday(u, {"award"}) + job[t].amount <= ActionCap
                /\ EarnedToday(u, {"award", "refund"}) + job[t].amount <= DailyCap,
             "checked")
    /\ UNCHANGED <<committed, job, seen>>

\* Mutant of Insert: the tables have no unique key on their source.
InsertUnkeyed(t) ==
    /\ pc[t] = "checked"
    /\ Goto(t, "inserted")
    /\ UNCHANGED <<committed, job, seen>>

\* purchases.create, pointTransactions.create and markValidated, or for a
\* rejection markReversed: nobody else sees these rows yet.
Insert(t) ==
    /\ pc[t] = "checked"
    /\ \A s \in Request \ {t} : pc[s] \in HoldsKey => SourceKey(s) # SourceKey(t)
    /\ Check(t, IsReversal(t) \/ \A s \in Request : row[s] # "none" => SourceKey(s) # SourceKey(t),
             "inserted")
    /\ UNCHANGED <<committed, job, seen>>

\* applyValidatedDelta: tx.wallet.findFirst ...
ReadWallet(t) ==
    /\ pc[t] = "inserted"
    /\ seen' = [seen EXCEPT ![t] = wallet[job[t].user]]
    /\ Goto(t, "read")
    /\ UNCHANGED <<committed, job>>

\* Mutant of Verify: the cached balance is trusted.
VerifyNothing(t) ==
    /\ pc[t] = "read"
    /\ Goto(t, "verified")
    /\ UNCHANGED <<committed, job, seen>>

\* ... then sumValidated must agree with the balance about to be written ...
Verify(t) ==
    /\ pc[t] = "read"
    /\ Check(t, DerivedFor(t) = seen[t].balance + job[t].amount, "verified")
    /\ UNCHANGED <<committed, job, seen>>

\* Mutants of CasUpdate: an update without the version in its WHERE clause, and
\* one retried on the version already read.
CasUpdateUnversioned(t) ==
    /\ pc[t] = "verified"
    /\ \A s \in Request \ {t} : pc[s] = "written" => job[s].user # job[t].user
    /\ Goto(t, "written")
    /\ UNCHANGED <<committed, job, seen>>
CasUpdateRetried(t) ==
    /\ pc[t] = "verified"
    /\ \A s \in Request \ {t} : pc[s] = "written" => job[s].user # job[t].user
    /\ wallet[job[t].user].version = seen[t].version
    /\ Goto(t, "written")
    /\ UNCHANGED <<committed, job, seen>>

\* ... and casUpdateBalance writes it if the version is still the one read.
CasUpdate(t) ==
    /\ pc[t] = "verified"
    /\ \A s \in Request \ {t} : pc[s] = "written" => job[s].user # job[t].user
    /\ Check(t, wallet[job[t].user].version = seen[t].version, "written")
    /\ UNCHANGED <<committed, job, seen>>

\* What a commit makes of the status of the rows, the purchases and the ledger.
RowsAfter(t) ==
    IF IsReversal(t) THEN [row EXCEPT ![job[t].ref] = "REVERSED"]
                     ELSE [row EXCEPT ![t] = "VALIDATED"]
\* Mutant of PurchasesAfter: markRefunded is forgotten.
PurchasesLeftConfirmed(t) ==
    IF job[t].op = "confirm" THEN [purchase EXCEPT ![t] = "CONFIRMED"] ELSE purchase
PurchasesAfter(t) ==
    CASE job[t].op = "confirm" -> [purchase EXCEPT ![t] = "CONFIRMED"]
      [] job[t].op = "refund"  -> [purchase EXCEPT ![job[t].ref] = "REFUNDED"]
      [] OTHER                 -> purchase
\* Mutant of LiabilityAfter: refund does not post postRedemptionRefund.
LiabilityKept(t) ==
    IF job[t].op = "confirm" THEN liability + Discount[-job[t].amount] ELSE liability
LiabilityAfter(t) ==
    CASE job[t].op = "confirm" -> liability + Discount[-job[t].amount]
      [] job[t].op = "refund"  -> liability - Discount[job[t].amount]
      [] OTHER                 -> liability

\* postRedemptionDiscount / postRedemptionRefund, markConfirmed / markRefunded
\* (each a write no other open transaction reads) and COMMIT.  A wallet created
\* by this transaction got version 1 and is at 2 now.
Commit(t) ==
    /\ pc[t] = "written"
    /\ wallet' = [wallet EXCEPT ![job[t].user] =
                    [balance |-> seen[t].balance + job[t].amount,
                     version |-> IF seen[t].version = 0 THEN 2 ELSE seen[t].version + 1]]
    /\ row' = RowsAfter(t)
    /\ purchase' = PurchasesAfter(t)
    /\ liability' = LiabilityAfter(t)
    /\ Goto(t, "committed")
    /\ UNCHANGED <<job, seen>>

\* Anything that throws inside the callback of $transaction, the loss of the
\* connection or of the process: a locked period, a disabled redemption, a
\* product or an order that is gone.  Nothing of the transaction remains.
Abort(t) ==
    /\ pc[t] \in InTransaction
    /\ Goto(t, "ended")
    /\ UNCHANGED <<committed, job, seen>>

\* No request is in a transaction: the system may rest here.
Rest == /\ \A t \in Request : pc[t] \notin InTransaction
        /\ UNCHANGED vars

Operation(t) == \/ Adjust(t) \/ Award(t) \/ Confirm(t) \/ Refund(t)
                \/ Expire(t) \/ Reject(t)
Statement(t) == \/ Open(t) \/ CheckCaps(t) \/ Insert(t) \/ ReadWallet(t)
                \/ Verify(t) \/ CasUpdate(t) \/ Commit(t)

Next == Rest \/ \E t \in Request : Operation(t) \/ Statement(t) \/ Abort(t)

Spec == Init /\ [][Next]_vars

\* The database runs every open transaction on; callers and failures are free.
FairSpec == Spec /\ \A t \in Request : WF_vars(Statement(t))

-----------------------------------------------------------------------------
(* Properties *)

TypeOK ==
    /\ wallet \in [User -> WalletRow]
    /\ row \in [Request -> Status]
    /\ purchase \in [Request -> PurchaseStatus]
    /\ liability \in Int
    /\ pc \in [Request -> Stage]
    /\ job \in [Request -> Job]
    /\ seen \in [Request -> WalletRow]

\* The cached balance is the sum of the VALIDATED rows, at every commit and
\* under every interleaving: reconcileAllWallets never finds a mismatch
\* (wallet.service.ts, applyValidatedDelta; points-extension.md 3.5).
BalanceIsDerived == \A u \in User : wallet[u].balance = Derived(u)

\* Nothing is done twice: a watch is not awarded again, not even after its award
\* was reversed, a purchase is not refunded again, an award not expired again,
\* and a redemption not confirmed again under its idempotency key.
SourceRowsUnique ==
    \A r, s \in Request :
        row[r] # "none" /\ row[s] # "none" /\ r # s => SourceKey(r) # SourceKey(s)

RefundRows(p) == {r \in Request : row[r] # "none" /\ job[r].op = "refund" /\ job[r].ref = p}

\* Rows and purchases tell one story across three tables: a CONFIRMED purchase
\* has its spend row and no refund row; a REFUNDED one has one refund row, which
\* gives the purchaser (not the caller) exactly what was spent.
PurchaserMadeWhole ==
    \A p \in Request :
        /\ purchase[p] = "CONFIRMED" => row[p] = "VALIDATED"
        /\ purchase[p] = "REFUNDED" <=> RefundRows(p) # {}
        /\ \A r \in RefundRows(p) : /\ job[r].user = job[p].user
                                     /\ job[r].amount = -job[p].amount
                                     /\ row[r] = row[p]

\* The ledger's points_liability account carries the discounts of exactly the
\* purchases that are CONFIRMED now (ledger.service.ts: "this keeps the LEDGER
\* itself reconciled too, not just the points wallet").
LiabilityReconciles ==
    liability = Total([p \in Request |->
                         IF purchase[p] = "CONFIRMED" THEN Discount[-job[p].amount] ELSE 0])

\* Every history of committed transactions is one the book allows: each commit
\* posts one fresh entry or reverses one validated entry, and moves the balance
\* of that entry's owner by just that amount.
Book == INSTANCE PointsBook WITH
    Entry <- Request,
    EntryKey <- Operations \X (Ref \cup Request),
    balance <- [u \in User |-> wallet[u].balance],
    entry <- [t \in Request |->
                IF row[t] = "none" THEN [status |-> "none"]
                ELSE [status |-> row[t], user |-> job[t].user,
                      amount |-> job[t].amount, key |-> SourceKey(t)]]

ImplementsBook == Book!Spec

\* No request waits for ever on a key or a wallet: once begun it commits or ends.
RequestsFinish ==
    \A t \in Request : pc[t] \in InTransaction ~> pc[t] \in {"committed", "ended"}

\* What redemption.service.test.ts asserts of one redemption at a time ("rejects
\* a redemption exceeding the wallet balance"): a redemption never takes the
\* wallet below zero.
RedemptionWithinBalance ==
    [][\A t \in Request :
          pc[t] = "written" /\ pc'[t] = "committed" /\ job[t].op = "confirm"
              => wallet'[job[t].user].balance >= 0]_vars

-----------------------------------------------------------------------------
(* Why the properties hold: what is true of a request between its statements *)

IsAward(r) == row[r] # "none" /\ job[r].op = "award"

\* t undoes what request r posted: the same owner, the opposite amount.
Mirrors(t, r) == job[t].user = job[r].user /\ job[t].amount = -job[r].amount

\* A request that has begun carries what its caller, or the row it read, gave it.
Shaped(t) ==
    /\ job[t].op # "none"
    /\ job[t].op = "award" => job[t].amount > 0
    /\ job[t].op = "confirm" => job[t].amount < 0
    /\ job[t].op = "refund" => /\ job[t].ref \in Request
                               /\ job[t].amount > 0
                               /\ purchase[job[t].ref] # "none"
                               /\ Mirrors(t, job[t].ref)
    /\ job[t].op \in {"expire", "reject"} => /\ job[t].ref \in Request
                                            /\ job[t].amount < 0
                                            /\ IsAward(job[t].ref)
                                            /\ Mirrors(t, job[t].ref)
JobShape == \A t \in Request : pc[t] # "idle" => Shaped(t)

\* A row exists exactly when the request that inserts it has committed, and a
\* purchase when that request is a confirm.
RowsAreCommits ==
    \A t \in Request :
        /\ row[t] # "none" <=> pc[t] = "committed" /\ ~ IsReversal(t)
        /\ purchase[t] # "none" <=> row[t] # "none" /\ job[t].op = "confirm"

\* No other transaction inserts, or has inserted, under a key held by t.
KeyHeld ==
    \A t \in Request : pc[t] \in HoldsKey =>
        \A s \in Request \ {t} :
            /\ pc[s] \in HoldsKey => SourceKey(s) # SourceKey(t)
            /\ row[s] # "none" /\ ~ IsReversal(t) => SourceKey(s) # SourceKey(t)

\* An unchanged version means an unchanged balance: the compare-and-set is safe.
SeenIsCoherent ==
    \A t \in Request : pc[t] \in {"read", "verified", "written"} =>
        LET w == wallet[job[t].user] IN
        /\ seen[t].version <= w.version
        /\ seen[t].version = w.version => seen[t].balance = w.balance

\* At most one open transaction has written a wallet, on its current version.
OneWriter ==
    \A t \in Request : pc[t] = "written" =>
        /\ seen[t].version = wallet[job[t].user].version
        /\ \A s \in Request \ {t} : pc[s] = "written" => job[s].user # job[t].user

\* The derivation check lets only the reversal of a row that still counts pass.
ReversalPending ==
    \A t \in Request :
        /\ pc[t] \in {"verified", "written"}
        /\ IsReversal(t)
        /\ seen[t].version = wallet[job[t].user].version
        => row[job[t].ref] = "VALIDATED"

IInv == /\ TypeOK /\ JobShape /\ RowsAreCommits /\ KeyHeld /\ SeenIsCoherent
        /\ OneWriter /\ ReversalPending /\ BalanceIsDerived /\ SourceRowsUnique

=============================================================================
