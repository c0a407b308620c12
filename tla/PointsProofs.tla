---------------------------- MODULE PointsProofs ----------------------------
(***************************************************************************)
(* The wallet's balance is the sum of its rows, nothing is done twice, and *)
(* the tables beside the wallet agree with it, for any number of users,    *)
(* requests and watches, and any amounts.                                  *)
(*                                                                         *)
(* The second part is about what the commits do to those tables: purchases *)
(* tell the story their rows tell, the ledger's points_liability account   *)
(* carries the discounts of exactly the purchases confirmed now, and every *)
(* history of the commits is a history of the abstract book (PointsBook),  *)
(* which has one step where the wallet has seven statements: all of them   *)
(* stutter but Commit, which posts the request's own entry or, for a       *)
(* rejection, reverses the entry of the award.                             *)
(*                                                                         *)
(* The last part is about watching (VideoWatch): a call decides on rows it *)
(* has read earlier, so what is kept is that everything read, remembered   *)
(* or written was real at the instant the call goes by; that who works on  *)
(* a suspect session was at work on it before it was suspect; and, if      *)
(* requests come in order, that who works on a session knows its status.   *)
(***************************************************************************)
EXTENDS MCPoints, ColumnSumsProofs

-----------------------------------------------------------------------------
(* The shapes a step can have *)

\* A caller starts request t.
Called(t) ==
    /\ pc[t] = "idle"
    /\ job' \in [Request -> Job]
    /\ job' = [job EXCEPT ![t] = job'[t]]
    /\ pc' = [pc EXCEPT ![t] = pc'[t]] /\ pc'[t] \in {"begun", "checked"}
    /\ job'[t].op # "none"
    /\ job'[t].op = "award" => job'[t].amount > 0
    /\ job'[t].op = "confirm" => job'[t].amount < 0
    /\ job'[t].op = "refund" => /\ job'[t].ref \in Request
                                /\ job'[t].amount > 0
                                /\ purchase[job'[t].ref] # "none"
                                /\ job'[t].user = job[job'[t].ref].user
                                /\ job'[t].amount = -job[job'[t].ref].amount
    /\ job'[t].op \in {"expire", "reject"} =>
                                /\ job'[t].ref \in Request
                                /\ job'[t].amount < 0
                                /\ IsAward(job'[t].ref)
                                /\ job'[t].user = job[job'[t].ref].user
                                /\ job'[t].amount = -job[job'[t].ref].amount
    /\ UNCHANGED <<committed, seen>>

\* Request t passes a check that gives it no key, or ends without a trace.
Moved(t) ==
    /\ pc[t] \in InTransaction
    /\ pc' = [pc EXCEPT ![t] = pc'[t]] /\ pc'[t] \in {"opened", "checked", "ended"}
    /\ UNCHANGED <<committed, job, seen>>

Inserted(t) == Insert(t) /\ pc' = [pc EXCEPT ![t] = "inserted"]
Verified(t) == Verify(t) /\ pc' = [pc EXCEPT ![t] = "verified"]
Updated(t) == CasUpdate(t) /\ pc' = [pc EXCEPT ![t] = "written"]

Step(t) == Called(t) \/ Moved(t) \/ Inserted(t) \/ ReadWallet(t) \/ Verified(t)
           \/ Updated(t) \/ Commit(t)

-----------------------------------------------------------------------------

LEMMA StartShape ==
    ASSUME TypeOK, NEW t \in Request, NEW op \in Operations, NEW u \in User,
           NEW n \in -MaxAmount..MaxAmount, NEW ref \in Ref,
           op = "award" => n > 0,
           op = "confirm" => n < 0,
           op = "refund" => /\ ref \in Request /\ n > 0
                            /\ purchase[ref] # "none"
                            /\ u = job[ref].user /\ n = -job[ref].amount,
           op \in {"expire", "reject"} => /\ ref \in Request /\ n < 0
                                          /\ IsAward(ref)
                                          /\ u = job[ref].user /\ n = -job[ref].amount,
           Start(t, op, u, n, ref)
    PROVE  Called(t)
  <1> DEFINE j == [op |-> op, user |-> u, amount |-> n, ref |-> ref]
  <1>1. j \in Job
    BY DEF Job
  <1>2. /\ job' = [job EXCEPT ![t] = j] /\ pc[t] = "idle"
        /\ UNCHANGED <<committed, seen>>
        /\ pc' = [pc EXCEPT ![t] = IF op = "reject" THEN "checked" ELSE "begun"]
    BY DEF Start, Goto
  <1>3. job'[t] = j /\ job' \in [Request -> Job] /\ job' = [job EXCEPT ![t] = job'[t]]
    BY <1>1, <1>2 DEF TypeOK
  <1>4. pc'[t] \in {"begun", "checked"} /\ pc' = [pc EXCEPT ![t] = pc'[t]]
    BY <1>2 DEF TypeOK
  <1>5. /\ job'[t].op = op /\ job'[t].user = u
        /\ job'[t].amount = n /\ job'[t].ref = ref
    BY <1>3
  <1> HIDE DEF j
  <1>6. job'[t].op \in {"expire", "reject"} =>
           /\ job'[t].ref \in Request /\ job'[t].amount < 0
           /\ IsAward(job'[t].ref)
           /\ job'[t].user = job[job'[t].ref].user
           /\ job'[t].amount = -job[job'[t].ref].amount
    BY <1>5
  <1>7. job'[t].op = "refund" =>
           /\ job'[t].ref \in Request /\ job'[t].amount > 0
           /\ purchase[job'[t].ref] # "none"
           /\ job'[t].user = job[job'[t].ref].user
           /\ job'[t].amount = -job[job'[t].ref].amount
    BY <1>5
  <1>8. /\ job'[t].op # "none"
        /\ job'[t].op = "award" => job'[t].amount > 0
        /\ job'[t].op = "confirm" => job'[t].amount < 0
    BY <1>5 DEF Operations
  <1> QED
    BY <1>2, <1>3, <1>4, <1>6, <1>7, <1>8 DEF Called

LEMMA CallShape ==
    ASSUME IInv, NEW t \in Request, Operation(t)
    PROVE  Called(t)
  <1> USE DEF IInv
  <1>0. Points \subseteq 1..MaxAmount /\ WatchUser \in [Watch -> User] /\ MaxAmount \in Nat
    BY WalletAssumption, MaxAmountAssumption
  <1>1. \A r \in Request : job[r].user \in User /\ job[r].amount \in -MaxAmount..MaxAmount
    BY DEF TypeOK, Job
  <1>2. CASE Adjust(t)
    <2>1. PICK u \in User, n \in Points :
             Start(t, "adjust", u, n, "none") \/ Start(t, "adjust", u, -n, "none")
      BY <1>2 DEF Adjust
    <2>2. n \in -MaxAmount..MaxAmount /\ -n \in -MaxAmount..MaxAmount
      BY <1>0
    <2> QED
      BY <2>1, <2>2, StartShape DEF Operations, Ref
  <1>3. CASE Award(t)
    <2>1. PICK w \in Watch, n \in Points : Start(t, "award", WatchUser[w], n, w)
      BY <1>3 DEF Award
    <2>2. n \in -MaxAmount..MaxAmount /\ n > 0 /\ WatchUser[w] \in User
      BY <1>0
    <2> QED
      BY <2>1, <2>2, StartShape DEF Operations, Ref
  <1>4. CASE Confirm(t)
    <2>1. PICK u \in User, n \in Points, k \in Key : Start(t, "confirm", u, -n, k)
      BY <1>4 DEF Confirm
    <2>2. -n \in -MaxAmount..MaxAmount /\ -n < 0
      BY <1>0
    <2> QED
      BY <2>1, <2>2, StartShape DEF Operations, Ref
  <1>5. CASE Refund(t)
    <2>1. PICK p \in Request : /\ purchase[p] = "CONFIRMED"
                               /\ Start(t, "refund", job[p].user, -job[p].amount, p)
      BY <1>5 DEF Refund
    <2>2. job[p].op = "confirm" /\ pc[p] # "idle"
      BY <2>1 DEF RowsAreCommits
    <2>3. -job[p].amount \in -MaxAmount..MaxAmount /\ -job[p].amount > 0
      BY <1>0, <1>1, <2>2 DEF JobShape, Shaped
    <2> QED
      BY <1>1, <2>1, <2>3, StartShape DEF Operations, Ref
  <1>6. ASSUME NEW op \in {"expire", "reject"}, NEW r \in Validated, job[r].op = "award",
               Start(t, op, job[r].user, -job[r].amount, r)
        PROVE  Called(t)
    <2>1. r \in Request /\ IsAward(r) /\ pc[r] # "idle"
      BY <1>6 DEF Validated, IsAward, RowsAreCommits
    <2>2. -job[r].amount \in -MaxAmount..MaxAmount /\ -job[r].amount < 0
      BY <1>0, <1>1, <1>6, <2>1 DEF JobShape, Shaped
    <2> QED
      BY <1>1, <1>6, <2>1, <2>2, StartShape DEF Operations, Ref
  <1> QED
    BY <1>2, <1>3, <1>4, <1>5, <1>6 DEF Operation, Expire, Reject

LEMMA StatementShape ==
    ASSUME TypeOK, NEW t \in Request, Statement(t) \/ Abort(t)
    PROVE  Step(t)
  <1> USE DEF Check, Goto, TypeOK, InTransaction
  <1>1. CASE Open(t)
    BY <1>1 DEF Open, Step, Moved
  <1>2. CASE CheckCaps(t)
    BY <1>2 DEF CheckCaps, Step, Moved
  <1>3. CASE Insert(t)
    BY <1>3 DEF Insert, Step, Moved, Inserted
  <1>4. CASE Verify(t)
    BY <1>4 DEF Verify, Step, Moved, Verified
  <1>5. CASE CasUpdate(t)
    BY <1>5 DEF CasUpdate, Step, Moved, Updated
  <1>6. CASE Abort(t)
    BY <1>6 DEF Abort, Step, Moved
  <1> QED
    BY <1>1, <1>2, <1>3, <1>4, <1>5, <1>6 DEF Statement, Step

\* Every step of the specification has one of the shapes above.
LEMMA StepShape ==
    ASSUME IInv, [Next]_vars
    PROVE  UNCHANGED vars \/ \E t \in Request : Step(t)
  BY CallShape, StatementShape DEF IInv, Next, Rest, Step

-----------------------------------------------------------------------------
(* What a step leaves alone *)

\* A request that has begun keeps what it was called with.
LEMMA JobStable ==
    ASSUME IInv, NEW t \in Request, Step(t), NEW r \in Request, pc[r] # "idle"
    PROVE  job'[r] = job[r] /\ pc'[r] # "idle"
  BY DEF IInv, TypeOK, Step, Called, Moved, Inserted, Insert, ReadWallet, Verified, Verify,
         Updated, CasUpdate, Commit, Goto, Stage, InTransaction, committed

\* Rows stay; the only row a step adds is the one of the request that commits.
LEMMA RowStable ==
    ASSUME IInv, NEW t \in Request, Step(t), NEW r \in Request
    PROVE  /\ row[r] # "none" => row'[r] # "none"
           /\ row'[r] # "none" => row[r] # "none" \/ (r = t /\ Commit(t) /\ ~ IsReversal(t))
           /\ purchase[r] # "none" => purchase'[r] # "none"
           /\ pc[r] # "idle" => (IsAward(r) => IsAward(r)')
  <1>1. CASE Commit(t)
    <2>1. job' = job /\ row' = RowsAfter(t) /\ purchase' = PurchasesAfter(t) /\ pc[t] # "idle"
      BY <1>1 DEF Commit
    <2>2. IsReversal(t) => job[t].ref \in Request /\ row[job[t].ref] # "none"
      BY <2>1 DEF IInv, JobShape, Shaped, IsReversal, IsAward
    <2> QED
      BY <1>1, <2>1, <2>2 DEF RowsAfter, PurchasesAfter, IsAward, IInv, TypeOK
  <1>2. CASE ~ Commit(t)
    <2>1. row' = row /\ purchase' = purchase
      BY <1>2 DEF Step, Called, Moved, Inserted, Insert, ReadWallet, Verified, Verify,
                  Updated, CasUpdate, committed
    <2> QED
      BY <2>1, JobStable DEF IsAward
  <1> QED
    BY <1>1, <1>2

\* Only a commit touches a wallet, and it touches only its own.
LEMMA WalletStable ==
    ASSUME IInv, NEW t \in Request, Step(t), NEW u \in User
    PROVE  wallet'[u] = wallet[u] \/ (Commit(t) /\ job[t].user = u)
  <1>1. CASE Commit(t)
    <2>1. PICK w : wallet' = [wallet EXCEPT ![job[t].user] = w]
      BY <1>1 DEF Commit
    <2> QED
      BY <1>1, <2>1 DEF IInv, TypeOK
  <1>2. CASE ~ Commit(t)
    <2>1. wallet' = wallet
      BY <1>2 DEF Step, Called, Moved, Inserted, Insert, ReadWallet, Verified, Verify,
                  Updated, CasUpdate, committed
    <2> QED
      BY <2>1
  <1> QED
    BY <1>1, <1>2

-----------------------------------------------------------------------------
(* One lemma for each part of the invariant *)

LEMMA TypeStep ==
    ASSUME IInv, NEW t \in Request, Step(t)
    PROVE  TypeOK'
  <1> USE DEF IInv, TypeOK
  <1>1. CASE Called(t)
    BY <1>1 DEF Called, committed, Stage
  <1>2. CASE Moved(t)
    BY <1>2 DEF Moved, committed, Stage
  <1>3. CASE Inserted(t) \/ Verified(t) \/ Updated(t)
    BY <1>3 DEF Inserted, Insert, Verified, Verify, Updated, CasUpdate, committed, Stage
  <1>4. CASE ReadWallet(t)
    BY <1>4 DEF ReadWallet, Goto, committed, Stage, Job
  <1>5. CASE Commit(t)
    <2>1. job[t].user \in User /\ job[t].amount \in Int /\ seen[t].balance \in Int
          /\ seen[t].version \in Nat /\ pc[t] # "idle"
      BY <1>5, MaxAmountAssumption DEF Job, WalletRow, Commit
    <2>2. wallet' \in [User -> WalletRow]
      BY <1>5, <2>1 DEF Commit, WalletRow
    <2>3. row' \in [Request -> Status] /\ purchase' \in [Request -> PurchaseStatus]
      BY <1>5 DEF Commit, RowsAfter, PurchasesAfter, Status, PurchaseStatus
    <2>4. liability' \in Int
      <3>1. Discount \in [1..MaxAmount -> 0..MaxAmount] /\ MaxAmount \in Nat
        BY WalletAssumption, MaxAmountAssumption
      <3>2. job[t].op = "confirm" => Discount[-job[t].amount] \in Int
        BY <2>1, <3>1 DEF JobShape, Shaped, Job
      <3>3. job[t].op = "refund" => Discount[job[t].amount] \in Int
        BY <2>1, <3>1 DEF JobShape, Shaped, Job
      <3> QED
        BY <1>5, <3>2, <3>3 DEF Commit, LiabilityAfter
    <2>5. pc' \in [Request -> Stage] /\ job' = job /\ seen' = seen
      BY <1>5 DEF Commit, Goto, Stage
    <2> QED
      BY <2>2, <2>3, <2>4, <2>5
  <1> QED
    BY <1>1, <1>2, <1>3, <1>4, <1>5 DEF Step

LEMMA ShapeStep ==
    ASSUME IInv, NEW t \in Request, Step(t)
    PROVE  JobShape'
  <1> USE DEF IInv
  <1> SUFFICES ASSUME NEW r \in Request, pc'[r] # "idle"
               PROVE  Shaped(r)'
    BY DEF JobShape
  <1>1. ASSUME NEW p \in Request, row[p] # "none" \/ purchase[p] # "none"
        PROVE  pc[p] # "idle" /\ job'[p] = job[p] /\ (IsAward(p) => IsAward(p)')
               /\ (purchase[p] # "none" => purchase'[p] # "none")
    <2>1. pc[p] # "idle"
      BY <1>1 DEF RowsAreCommits
    <2> QED
      BY <2>1, JobStable, RowStable
  <1>2. CASE pc[r] # "idle"
    <2>1. job'[r] = job[r] /\ Shaped(r)
      BY <1>2, JobStable DEF JobShape
    <2> QED
      BY <1>1, <2>1 DEF Shaped, Mirrors, IsAward
  <1>3. CASE pc[r] = "idle"
    <2>1. r = t /\ Called(t)
      BY <1>3 DEF TypeOK, Step, Called, Moved, Inserted, Insert, ReadWallet, Verified, Verify,
                  Updated, CasUpdate, Commit, Goto, InTransaction
    <2> QED
      BY <1>1, <2>1 DEF Called, Shaped, Mirrors, IsAward
  <1> QED
    BY <1>2, <1>3

LEMMA RowsStep ==
    ASSUME IInv, NEW t \in Request, Step(t)
    PROVE  RowsAreCommits'
  <1> USE DEF IInv, TypeOK
  <1>1. CASE Commit(t)
    <2>1. job' = job /\ row' = RowsAfter(t) /\ purchase' = PurchasesAfter(t)
          /\ pc' = [pc EXCEPT ![t] = "committed"] /\ pc[t] = "written"
      BY <1>1 DEF Commit, Goto
    <2>2. IsReversal(t) => job[t].ref \in Request /\ row[job[t].ref] # "none"
                           /\ job[t].ref # t
      BY <2>1 DEF JobShape, Shaped, IsReversal, IsAward, RowsAreCommits
    <2>3. job[t].op = "refund" => job[t].ref \in Request /\ purchase[job[t].ref] # "none"
                                  /\ job[t].ref # t
      BY <2>1 DEF JobShape, Shaped, RowsAreCommits
    <2> QED
      BY <2>1, <2>2, <2>3 DEF RowsAreCommits, RowsAfter, PurchasesAfter, IsReversal
  <1>2. CASE ~ Commit(t)
    <2>1. row' = row /\ purchase' = purchase
      BY <1>2 DEF Step, Called, Moved, Inserted, Insert, ReadWallet, Verified, Verify,
                  Updated, CasUpdate, committed
    <2>2. ASSUME NEW r \in Request
          PROVE  pc'[r] = "committed" <=> pc[r] = "committed"
      BY <1>2 DEF Step, Called, Moved, Inserted, Insert, ReadWallet, Verified, Verify,
                  Updated, CasUpdate, Goto, InTransaction
    <2>3. \A r \in Request : pc[r] = "committed" => job'[r] = job[r]
      BY JobStable
    <2> QED
      BY <2>1, <2>2, <2>3 DEF RowsAreCommits, IsReversal
  <1> QED
    BY <1>1, <1>2

LEMMA KeyStep ==
    ASSUME IInv, NEW t \in Request, Step(t)
    PROVE  KeyHeld' /\ SourceRowsUnique'
  <1> USE DEF IInv, TypeOK
  <1>1. ASSUME NEW r \in Request, pc[r] # "idle"
        PROVE  SourceKey(r)' = SourceKey(r) /\ (IsReversal(r)' <=> IsReversal(r))
    BY <1>1, JobStable DEF SourceKey, IsReversal
  <1>2. ASSUME NEW r \in Request, row[r] # "none"
        PROVE  pc[r] = "committed"
    BY <1>2 DEF RowsAreCommits
  <1>3. ASSUME NEW r \in Request, pc'[r] \in HoldsKey
        PROVE  /\ pc[r] # "idle"
               /\ pc[r] \in HoldsKey \/ (r = t /\ Inserted(t))
    <2> USE DEF HoldsKey
    <2>1. CASE Called(t) \/ Moved(t)
      BY <1>3, <2>1 DEF Called, Moved, InTransaction
    <2>2. CASE Inserted(t)
      BY <1>3, <2>2 DEF Inserted, Insert
    <2>3. CASE ReadWallet(t)
      BY <1>3, <2>3 DEF ReadWallet, Goto
    <2>4. CASE Verified(t)
      BY <1>3, <2>4 DEF Verified, Verify
    <2>5. CASE Updated(t)
      BY <1>3, <2>5 DEF Updated, CasUpdate
    <2>6. CASE Commit(t)
      BY <1>3, <2>6 DEF Commit, Goto
    <2> QED
      BY <2>1, <2>2, <2>3, <2>4, <2>5, <2>6 DEF Step
  <1>4. ASSUME NEW r \in Request, NEW s \in Request \ {r}, pc'[r] \in HoldsKey,
               pc'[s] \in HoldsKey
        PROVE  SourceKey(s)' # SourceKey(r)'
    <2>1. SourceKey(s)' = SourceKey(s) /\ SourceKey(r)' = SourceKey(r)
      BY <1>1, <1>3, <1>4
    <2>2. CASE pc[r] \in HoldsKey /\ pc[s] \in HoldsKey
      BY <2>1, <2>2 DEF KeyHeld
    <2>3. CASE ~ (pc[r] \in HoldsKey /\ pc[s] \in HoldsKey)
      <3>1. Inserted(t) /\ (r = t \/ s = t) /\ (r # t => pc[r] \in HoldsKey)
            /\ (s # t => pc[s] \in HoldsKey)
        BY <1>3, <1>4, <2>3
      <3> QED
        BY <2>1, <3>1 DEF Inserted, Insert
    <2> QED
      BY <2>2, <2>3
  <1>5. ASSUME NEW r \in Request, NEW s \in Request \ {r}, pc'[r] \in HoldsKey,
               row'[s] # "none", ~ IsReversal(r)
        PROVE  SourceKey(s)' # SourceKey(r)'
    <2>1. pc[s] # "idle" /\ (row[s] # "none" \/ (s = t /\ Commit(t)))
      BY <1>2, <1>5, RowStable DEF Commit
    <2>2. SourceKey(s)' = SourceKey(s) /\ SourceKey(r)' = SourceKey(r)
      BY <1>1, <1>3, <1>5, <2>1
    <2>3. CASE row[s] # "none"
      <3>1. CASE pc[r] \in HoldsKey
        BY <1>5, <2>2, <2>3, <3>1 DEF KeyHeld
      <3>2. CASE r = t /\ Inserted(t)
        BY <1>5, <2>2, <2>3, <3>2 DEF Inserted, Insert, Check, Goto
      <3> QED
        BY <1>3, <1>5, <3>1, <3>2
    <2>4. CASE s = t /\ Commit(t)
      <3>1. pc[s] \in HoldsKey /\ pc[r] = pc'[r]
        BY <1>5, <2>4 DEF Commit, Goto, HoldsKey
      <3> QED
        BY <1>5, <2>2, <3>1 DEF KeyHeld
    <2> QED
      BY <2>1, <2>3, <2>4
  <1>6. KeyHeld'
    BY <1>1, <1>3, <1>4, <1>5 DEF KeyHeld
  <1>7. ASSUME NEW r \in Request, NEW s \in Request, row'[r] # "none", row'[s] # "none", r # s
        PROVE  SourceKey(r)' # SourceKey(s)'
    <2>1. ASSUME NEW q \in Request, row'[q] # "none"
          PROVE  pc[q] # "idle" /\ (row[q] # "none"
                                   \/ (q = t /\ Commit(t) /\ ~ IsReversal(t) /\ pc[q] \in HoldsKey))
      BY <1>2, <2>1, RowStable DEF Commit, HoldsKey
    <2>2. SourceKey(s)' = SourceKey(s) /\ SourceKey(r)' = SourceKey(r)
      BY <1>1, <1>7, <2>1
    <2> QED
      BY <1>7, <2>1, <2>2 DEF KeyHeld, SourceRowsUnique
  <1> QED
    BY <1>6, <1>7 DEF SourceRowsUnique

\* A commit adds its amount to the balance committed now (not merely to the one
\* it read), raises the version, and posts a row that was not there or reverses
\* one that still counts.
LEMMA CommitEffect ==
    ASSUME IInv, NEW t \in Request, Commit(t)
    PROVE  LET u == job[t].user IN
           /\ u \in User
           /\ wallet'[u].balance = wallet[u].balance + job[t].amount
           /\ wallet'[u].version > wallet[u].version
           /\ \A v \in User \ {u} : wallet'[v] = wallet[v]
           /\ ~ IsReversal(t) => /\ row[t] = "none"
                                 /\ row' = [row EXCEPT ![t] = "VALIDATED"]
           /\ IsReversal(t) => /\ job[t].ref \in Request
                               /\ row[job[t].ref] = "VALIDATED"
                               /\ Mirrors(t, job[t].ref)
                               /\ row' = [row EXCEPT ![job[t].ref] = "REVERSED"]
           /\ job' = job
  <1> USE DEF IInv, TypeOK
  <1>1. /\ job[t].user \in User /\ job[t].amount \in Int
        /\ seen[t].balance \in Int /\ seen[t].version \in Nat
        /\ wallet[job[t].user].balance \in Int /\ wallet[job[t].user].version \in Nat
    BY MaxAmountAssumption DEF Job, WalletRow
  <1>2. seen[t].version = wallet[job[t].user].version
        /\ seen[t].balance = wallet[job[t].user].balance
    BY DEF Commit, OneWriter, SeenIsCoherent
  <1> DEFINE w == [balance |-> seen[t].balance + job[t].amount,
                   version |-> IF seen[t].version = 0 THEN 2 ELSE seen[t].version + 1]
  <1>3. wallet' = [wallet EXCEPT ![job[t].user] = w]
    BY DEF Commit
  <1>4. /\ w.balance = wallet[job[t].user].balance + job[t].amount
        /\ w.version > wallet[job[t].user].version
    BY <1>1, <1>2
  <1> HIDE DEF w
  <1>5. /\ wallet'[job[t].user] = w
        /\ \A v \in User \ {job[t].user} : wallet'[v] = wallet[v]
    BY <1>1, <1>3
  <1>6. ~ IsReversal(t) => /\ row[t] = "none"
                           /\ row' = [row EXCEPT ![t] = "VALIDATED"]
    BY DEF Commit, RowsAfter, RowsAreCommits
  <1>7. IsReversal(t) => /\ job[t].ref \in Request
                         /\ row[job[t].ref] = "VALIDATED"
                         /\ Mirrors(t, job[t].ref)
                         /\ row' = [row EXCEPT ![job[t].ref] = "REVERSED"]
    BY <1>2 DEF Commit, RowsAfter, ReversalPending, JobShape, Shaped, IsReversal
  <1>8. job' = job
    BY DEF Commit
  <1> QED
    BY <1>1, <1>4, <1>5, <1>6, <1>7, <1>8

\* Versions never decrease, and a wallet whose version stays is unchanged.
LEMMA VersionGrows ==
    ASSUME IInv, NEW t \in Request, Step(t), NEW u \in User
    PROVE  /\ wallet'[u].version >= wallet[u].version
           /\ \/ wallet'[u] = wallet[u]
              \/ Commit(t) /\ job[t].user = u /\ wallet'[u].version > wallet[u].version
  <1>1. wallet[u].version \in Nat
    BY DEF IInv, TypeOK, WalletRow
  <1>2. wallet'[u].version \in Nat
    BY TypeStep DEF TypeOK, WalletRow
  <1> QED
    BY <1>1, <1>2, WalletStable, CommitEffect

LEMMA SeenStep ==
    ASSUME IInv, NEW t \in Request, Step(t)
    PROVE  SeenIsCoherent'
  <1> USE DEF IInv, TypeOK
  <1> SUFFICES ASSUME NEW r \in Request, pc'[r] \in {"read", "verified", "written"}
               PROVE  /\ seen'[r].version <= wallet'[job'[r].user].version
                      /\ seen'[r].version = wallet'[job'[r].user].version
                           => seen'[r].balance = wallet'[job'[r].user].balance
    BY DEF SeenIsCoherent
  <1>1. CASE r = t /\ ReadWallet(t)
    <2>1. seen'[r] = wallet[job[r].user] /\ wallet' = wallet /\ job' = job
      BY <1>1 DEF ReadWallet, committed
    <2>2. wallet[job[r].user].version \in Nat
      BY DEF Job, WalletRow
    <2> QED
      BY <2>1, <2>2
  <1>2. CASE ~ (r = t /\ ReadWallet(t))
    <2>1. /\ pc[r] \in {"read", "verified", "written"}
          /\ seen'[r] = seen[r] /\ job'[r] = job[r]
      <3>1. CASE Called(t) \/ Moved(t)
        BY <3>1 DEF Called, Moved
      <3>2. CASE Inserted(t)
        BY <3>2 DEF Inserted, Insert
      <3>3. CASE ReadWallet(t)
        BY <1>2, <3>3 DEF ReadWallet, Goto
      <3>4. CASE Verified(t)
        BY <3>4 DEF Verified, Verify
      <3>5. CASE Updated(t)
        BY <3>5 DEF Updated, CasUpdate
      <3>6. CASE Commit(t)
        BY <3>6 DEF Commit, Goto
      <3> QED
        BY <3>1, <3>2, <3>3, <3>4, <3>5, <3>6 DEF Step
    <2> DEFINE u == job[r].user
    <2>2. u \in User /\ seen[r].version \in Nat /\ wallet[u].version \in Nat
      BY DEF Job, WalletRow
    <2>3. wallet'[u].version \in Nat
      BY <2>2, TypeStep DEF WalletRow
    <2>4. seen[r].version <= wallet[u].version
          /\ (seen[r].version = wallet[u].version => seen[r].balance = wallet[u].balance)
      BY <2>1 DEF SeenIsCoherent
    <2>5. /\ wallet'[u].version >= wallet[u].version
          /\ wallet'[u] = wallet[u] \/ wallet'[u].version > wallet[u].version
      BY <2>2, VersionGrows
    <2> QED
      BY <2>1, <2>2, <2>3, <2>4, <2>5
  <1> QED
    BY <1>1, <1>2

LEMMA WriterStep ==
    ASSUME IInv, NEW t \in Request, Step(t)
    PROVE  OneWriter'
  <1> USE DEF IInv, TypeOK
  <1>1. ASSUME NEW r \in Request, pc'[r] = "written"
        PROVE  /\ pc[r] = "written" \/ (r = t /\ Updated(t))
               /\ ~ (r = t /\ Commit(t))
               /\ seen'[r] = seen[r] /\ job'[r] = job[r]
    <2>1. CASE Called(t) \/ Moved(t)
      BY <1>1, <2>1 DEF Called, Moved, Commit, InTransaction
    <2>2. CASE Inserted(t)
      BY <1>1, <2>2 DEF Inserted, Insert, Commit
    <2>3. CASE ReadWallet(t)
      BY <1>1, <2>3 DEF ReadWallet, Goto, Commit
    <2>4. CASE Verified(t)
      BY <1>1, <2>4 DEF Verified, Verify, Commit
    <2>5. CASE Updated(t)
      BY <1>1, <2>5 DEF Updated, CasUpdate, Commit
    <2>6. CASE Commit(t)
      BY <1>1, <2>6 DEF Commit, Goto
    <2> QED
      BY <2>1, <2>2, <2>3, <2>4, <2>5, <2>6 DEF Step
  <1>2. ASSUME NEW r \in Request, NEW s \in Request \ {r}, pc'[r] = "written", pc'[s] = "written"
        PROVE  job'[s].user # job'[r].user
    <2>1. /\ pc[r] = "written" \/ (r = t /\ Updated(t))
          /\ pc[s] = "written" \/ (s = t /\ Updated(t))
          /\ job'[r] = job[r] /\ job'[s] = job[s]
      BY <1>1, <1>2
    <2> QED
      BY <2>1 DEF OneWriter, Updated, CasUpdate
  <1>3. ASSUME NEW r \in Request, pc'[r] = "written"
        PROVE  seen'[r].version = wallet'[job'[r].user].version
    <2> DEFINE u == job[r].user
    <2>1. u \in User /\ seen'[r] = seen[r] /\ job'[r] = job[r]
      BY <1>1, <1>3 DEF Job
    <2>2. CASE r = t /\ Updated(t)
      BY <2>1, <2>2 DEF Updated, CasUpdate, Check, Goto, committed
    <2>3. CASE pc[r] = "written"
      <3>1. seen[r].version = wallet[u].version
        BY <2>3 DEF OneWriter
      <3>2. ~ (Commit(t) /\ job[t].user = u)
        BY <1>1, <1>3, <2>3 DEF OneWriter, Commit
      <3>3. wallet'[u] = wallet[u]
        BY <2>1, <3>2, WalletStable
      <3> QED
        BY <2>1, <3>1, <3>3
    <2> QED
      BY <1>1, <1>3, <2>2, <2>3
  <1> QED
    BY <1>2, <1>3 DEF OneWriter

\* The sum a request derives is the sum of the rows committed, for a reversal
\* of a row that no longer counts: nothing is left to take away.
LEMMA PendingStep ==
    ASSUME IInv, NEW t \in Request, Step(t)
    PROVE  ReversalPending'
  <1> USE DEF IInv, TypeOK
  <1> SUFFICES ASSUME NEW r \in Request, pc'[r] \in {"verified", "written"}, IsReversal(r)',
                      seen'[r].version = wallet'[job'[r].user].version
               PROVE  row'[job'[r].ref] = "VALIDATED"
    BY DEF ReversalPending
  <1>1. /\ pc[r] # "idle" /\ ~ (r = t /\ Commit(t))
        /\ seen'[r] = seen[r]
        /\ pc[r] \in {"verified", "written"} \/ (r = t /\ Verified(t))
    <2>1. CASE Called(t) \/ Moved(t)
      BY <2>1 DEF Called, Moved, InTransaction, Commit
    <2>2. CASE Inserted(t)
      BY <2>2 DEF Inserted, Insert, Commit
    <2>3. CASE ReadWallet(t)
      BY <2>3 DEF ReadWallet, Goto, Commit
    <2>4. CASE Verified(t)
      BY <2>4 DEF Verified, Verify, Commit
    <2>5. CASE Updated(t)
      BY <2>5 DEF Updated, CasUpdate, Commit
    <2>6. CASE Commit(t)
      BY <2>6 DEF Commit, Goto
    <2> QED
      BY <2>1, <2>2, <2>3, <2>4, <2>5, <2>6 DEF Step
  <1>2. job'[r] = job[r] /\ IsReversal(r)
    BY <1>1, JobStable DEF IsReversal
  <1> DEFINE u == job[r].user
             a == job[r].ref
  <1>3. u \in User /\ a \in Request /\ job[r].amount < 0 /\ job[r].amount \in Int
        /\ IsAward(a) /\ job[a].user = u
    BY <1>1, <1>2, MaxAmountAssumption DEF Job, JobShape, Shaped, Mirrors, IsReversal
  <1>4. CASE r = t /\ Verified(t)
    <2>1. /\ wallet' = wallet /\ row' = row /\ job' = job /\ pc[r] = "read"
          /\ DerivedFor(r) = seen[r].balance + job[r].amount
      BY <1>4 DEF Verified, Verify, Check, Goto, committed
    <2>2. seen[r].balance = wallet[u].balance /\ wallet[u].balance = Derived(u)
      BY <1>1, <1>2, <1>3, <2>1 DEF SeenIsCoherent, BalanceIsDerived
    <2>3. wallet[u].balance \in Int
      BY <1>3 DEF WalletRow
    <2>4. SUFFICES ASSUME a \notin Validated
                   PROVE  FALSE
      BY <1>2, <1>3, <2>1 DEF Validated
    <2>5. DerivedFor(r) = Derived(u)
      <3>1. Validated \ {a} = Validated
        BY <2>4
      <3> QED
        BY <1>2, <3>1 DEF DerivedFor, Derived
    <2> QED
      BY <1>3, <2>1, <2>2, <2>3, <2>5
  <1>5. CASE pc[r] \in {"verified", "written"}
    <2>1. seen[r].version <= wallet[u].version /\ seen[r].version \in Nat
          /\ wallet[u].version \in Nat /\ wallet'[u].version \in Nat
      BY <1>3, <1>5, TypeStep DEF SeenIsCoherent, WalletRow
    <2>2. wallet'[u] = wallet[u] /\ ~ (Commit(t) /\ job[t].user = u)
      <3>1. wallet'[u].version >= wallet[u].version
        BY <1>3, VersionGrows
      <3>2. wallet'[u].version = wallet[u].version
        BY <1>1, <1>2, <2>1, <3>1
      <3>3. ~ (Commit(t) /\ job[t].user = u)
        BY <2>1, <3>2, CommitEffect
      <3> QED
        BY <1>3, <3>3, WalletStable
    <2>3. row[a] = "VALIDATED"
      BY <1>1, <1>2, <1>5, <2>2 DEF ReversalPending
    <2>4. row'[a] = row[a]
      <3>1. CASE Commit(t)
        <4>1. IsReversal(t) => job[t].ref # a
          BY <1>3, <2>2, <3>1, CommitEffect DEF Mirrors
        <4>2. t # a
          BY <1>3, <3>1 DEF IsAward, RowsAreCommits, Commit
        <4> QED
          BY <1>3, <3>1, <4>1, <4>2, CommitEffect
      <3>2. CASE ~ Commit(t)
        BY <3>2 DEF Step, Called, Moved, Inserted, Insert, ReadWallet, Verified, Verify,
                    Updated, CasUpdate, committed
      <3> QED
        BY <3>1, <3>2
    <2> QED
      BY <1>2, <2>3, <2>4
  <1> QED
    BY <1>1, <1>4, <1>5

\* The rows of u as a column of amounts, one per request.
LEMMA ColumnType ==
    ASSUME TypeOK, NEW u \in User, NEW counted
    PROVE  Column(u, counted) \in [Request -> Int]
  BY MaxAmountAssumption DEF TypeOK, Job, Column

LEMMA BalanceStep ==
    ASSUME IInv, NEW t \in Request, Step(t)
    PROVE  BalanceIsDerived'
  <1> USE DEF IInv, TypeOK
  <1> SUFFICES ASSUME NEW u \in User
               PROVE  wallet'[u].balance = Derived(u)'
    BY DEF BalanceIsDerived
  <1> DEFINE col == Column(u, Validated)
  <1>1. wallet[u].balance = Opening[u] + Total(col)
    BY DEF BalanceIsDerived, Derived
  <1>2. col \in [Request -> Int] /\ col' \in [Request -> Int]
    BY ColumnType, TypeStep, MaxAmountAssumption DEF Job, Column
  <1>3. Derived(u)' = Opening[u] + Total(col')
    BY DEF Derived, Column, Validated
  <1>4. Opening[u] \in Int /\ Total(col) \in Int /\ IsFiniteSet(Request)
    BY <1>2, TotalType, WalletAssumption
  <1>5. CASE Commit(t)
    <2> DEFINE v == job[t].user
               e == IF IsReversal(t) THEN job[t].ref ELSE t
               n == IF IsReversal(t) THEN 0 ELSE job[t].amount
    <2>1. /\ v \in User /\ e \in Request /\ n \in Int /\ job[t].amount \in Int
          /\ job' = job
      BY <1>5, CommitEffect, MaxAmountAssumption DEF Job
    <2>2. \A r \in Request \ {e} : row'[r] = row[r]
      BY <1>5, CommitEffect
    <2>3. job[e].user = v
      BY <1>5, CommitEffect DEF Mirrors
    <2>4. \A r \in Request \ {e} : col'[r] = col[r]
      BY <2>1, <2>2 DEF Column, Validated
    <2>5. CASE u = v
      <3>1. col'[e] = n /\ col[e] = n - job[t].amount
        <4>1. CASE IsReversal(t)
          <5>1. row[e] = "VALIDATED" /\ row'[e] = "REVERSED" /\ job[t].amount = -job[e].amount
            BY <1>5, <4>1, CommitEffect DEF Mirrors
          <5>2. col[e] = job[e].amount /\ col'[e] = 0
            BY <2>1, <2>3, <2>5, <5>1 DEF Column, Validated
          <5>3. job[e].amount \in Int
            BY <2>1, MaxAmountAssumption DEF Job
          <5> QED
            BY <4>1, <5>1, <5>2, <5>3
        <4>2. CASE ~ IsReversal(t)
          <5>1. row[e] = "none" /\ row'[e] = "VALIDATED"
            BY <1>5, <2>1, <4>2, CommitEffect
          <5>2. col[e] = 0 /\ col'[e] = job[t].amount
            BY <2>1, <2>3, <2>5, <4>2, <5>1 DEF Column, Validated
          <5> QED
            BY <2>1, <4>2, <5>2
        <4> QED
          BY <4>1, <4>2
      <3>2. col' = [col EXCEPT ![e] = n]
        BY <1>2, <2>1, <2>4, <3>1
      <3> HIDE DEF col, e, n
      <3>3. Total([col EXCEPT ![e] = n]) = Total(col) - col[e] + n
        BY <1>2, <1>4, <2>1, TotalUpdate
      <3>4. wallet'[u].balance = wallet[u].balance + job[t].amount
        BY <1>5, <2>5, CommitEffect
      <3>5. n \in Int
        BY <2>1, MaxAmountAssumption
      <3> QED
        BY <1>1, <1>3, <1>4, <2>1, <3>1, <3>2, <3>3, <3>4, <3>5
    <2>6. CASE u # v
      <3>1. col'[e] = 0 /\ col[e] = 0
        BY <2>1, <2>3, <2>6 DEF Column
      <3>2. col' = col
        BY <1>2, <2>4, <3>1
      <3>3. wallet'[u] = wallet[u]
        BY <1>5, <2>6, CommitEffect
      <3> QED
        BY <1>1, <1>3, <3>2, <3>3
    <2> QED
      BY <2>5, <2>6
  <1>6. CASE ~ Commit(t)
    <2>1. row' = row /\ wallet' = wallet
      BY <1>6 DEF Step, Called, Moved, Inserted, Insert, ReadWallet, Verified, Verify,
                  Updated, CasUpdate, committed
    <2>2. \A r \in Validated : job'[r] = job[r]
      BY JobStable DEF Validated, RowsAreCommits
    <2>3. col' = col
      BY <2>1, <2>2 DEF Column, Validated
    <2> QED
      BY <1>1, <1>3, <2>1, <2>3
  <1> QED
    BY <1>5, <1>6

-----------------------------------------------------------------------------

LEMMA InitHolds == Init => IInv
  <1> SUFFICES ASSUME Init PROVE IInv
    OBVIOUS
  <1> USE DEF Init
  <1>1. (CHOOSE u \in User : TRUE) \in User /\ 0 \in -MaxAmount..MaxAmount
    BY WalletAssumption, MaxAmountAssumption
  <1>2. NoJob \in Job
    BY <1>1 DEF NoJob, Job, Ref
  <1>3. TypeOK
    <2>1. PICK viewed \in SUBSET User :
             wallet = [u \in User |-> [balance |-> Opening[u],
                                      version |-> IF Opening[u] > 0 THEN 2
                                                  ELSE IF u \in viewed THEN 1 ELSE 0]]
      OBVIOUS
    <2>2. wallet \in [User -> WalletRow]
      BY <2>1, WalletAssumption DEF WalletRow
    <2> QED
      BY <1>2, <2>2 DEF TypeOK, Status, PurchaseStatus, Stage, WalletRow
  <1>4. /\ JobShape /\ RowsAreCommits /\ KeyHeld /\ SeenIsCoherent
        /\ OneWriter /\ ReversalPending /\ SourceRowsUnique
    BY DEF JobShape, RowsAreCommits, KeyHeld, SeenIsCoherent, OneWriter, ReversalPending,
           SourceRowsUnique, HoldsKey
  <1>5. BalanceIsDerived
    <2> SUFFICES ASSUME NEW u \in User PROVE wallet[u].balance = Derived(u)
      BY DEF BalanceIsDerived
    <2>1. Column(u, Validated) = [r \in Request |-> 0]
      BY DEF Column, Validated
    <2>2. Opening[u] \in Nat
      BY WalletAssumption
    <2> QED
      BY <2>1, <2>2, TotalOfNothing DEF Derived
  <1> QED
    BY <1>3, <1>4, <1>5 DEF IInv

LEMMA StepHolds == IInv /\ [Next]_vars => IInv'
  <1> SUFFICES ASSUME IInv, [Next]_vars PROVE IInv'
    OBVIOUS
  <1>1. CASE UNCHANGED vars
    <2> USE <1>1 DEF IInv, vars, committed
    <2>1. /\ \A r \in Request : SourceKey(r)' = SourceKey(r) /\ (IsReversal(r)' <=> IsReversal(r))
          /\ \A r \in Request : Shaped(r) => Shaped(r)'
          /\ \A u \in User : Derived(u)' = Derived(u)
      BY DEF SourceKey, IsReversal, Shaped, Mirrors, IsAward, Derived, Column, Validated
    <2>2. TypeOK' /\ JobShape' /\ BalanceIsDerived'
      BY <2>1 DEF TypeOK, JobShape, BalanceIsDerived
    <2>3. RowsAreCommits' /\ ReversalPending'
      BY <2>1 DEF RowsAreCommits, ReversalPending
    <2>4. KeyHeld' /\ SourceRowsUnique'
      BY <2>1 DEF KeyHeld, SourceRowsUnique
    <2>5. SeenIsCoherent' /\ OneWriter'
      BY DEF SeenIsCoherent, OneWriter
    <2> QED
      BY <2>2, <2>3, <2>4, <2>5
  <1>2. ASSUME NEW t \in Request, Step(t)
        PROVE  IInv'
    BY <1>2, TypeStep, ShapeStep, RowsStep, KeyStep, SeenStep, WriterStep, PendingStep,
       BalanceStep DEF IInv
  <1> QED
    BY <1>1, <1>2, StepShape

THEOREM Invariance == Spec => []IInv
  BY InitHolds, StepHolds, PTL DEF Spec

\* Type correctness.
THEOREM TypeCorrect == Spec => []TypeOK
  <1>1. IInv => TypeOK
    BY DEF IInv
  <1> QED
    BY <1>1, Invariance, PTL

\* The cached balance of every wallet is the sum of its validated rows, whatever
\* the calls and however their statements interleave: no update is lost, none is
\* counted twice.
THEOREM BalanceCorrect == Spec => []BalanceIsDerived
  <1>1. IInv => BalanceIsDerived
    BY DEF IInv
  <1> QED
    BY <1>1, Invariance, PTL

\* No source is posted twice: awards, refunds, expiries and redemptions are
\* idempotent under retries and races.
THEOREM PostedOnce == Spec => []SourceRowsUnique
  <1>1. IInv => SourceRowsUnique
    BY DEF IInv
  <1> QED
    BY <1>1, Invariance, PTL

-----------------------------------------------------------------------------
(* Purchases, the liability and the book *)


\* A rejection takes an award back and nothing else, so the row of a redemption
\* or of a refund counts for ever.
OnlyAwardsReversed ==
    \A r \in Request : row[r] = "REVERSED" => job[r].op = "award"

\* A purchase is refunded exactly when it has a refund row.
RefundedHasRow ==
    \A p \in Request : purchase[p] = "REFUNDED" <=> RefundRows(p) # {}

LedgerInv == OnlyAwardsReversed /\ RefundedHasRow /\ LiabilityReconciles

\* What each purchase adds to the liability.
Owed == [p \in Request |-> IF purchase[p] = "CONFIRMED" THEN Discount[-job[p].amount] ELSE 0]

-----------------------------------------------------------------------------
(* The tables *)

\* What a refund or a redemption carries is within the discount's domain.
LEMMA DiscountType ==
    ASSUME IInv, NEW t \in Request, pc[t] # "idle"
    PROVE  /\ job[t].op = "confirm" => Discount[-job[t].amount] \in 0..MaxAmount
           /\ job[t].op = "refund" => Discount[job[t].amount] \in 0..MaxAmount
  <1>1. Discount \in [1..MaxAmount -> 0..MaxAmount] /\ MaxAmount \in Nat
    BY WalletAssumption, MaxAmountAssumption
  <1>2. job[t].amount \in -MaxAmount..MaxAmount
    BY DEF IInv, TypeOK, Job
  <1>3. job[t].op = "confirm" => job[t].amount < 0
    BY DEF IInv, JobShape, Shaped
  <1>4. job[t].op = "refund" => job[t].amount > 0
    BY DEF IInv, JobShape, Shaped
  <1> QED
    BY <1>1, <1>2, <1>3, <1>4

\* A purchase belongs to a confirm that has committed.
LEMMA PurchaseIsRedemption ==
    ASSUME IInv, NEW p \in Request, purchase[p] # "none"
    PROVE  pc[p] # "idle" /\ row[p] # "none" /\ job[p].op = "confirm"
  BY DEF IInv, RowsAreCommits

LEMMA OwedType ==
    ASSUME IInv
    PROVE  Owed \in [Request -> Int]
  <1> SUFFICES ASSUME NEW p \in Request, purchase[p] = "CONFIRMED"
               PROVE  Discount[-job[p].amount] \in Int
    BY MaxAmountAssumption DEF Owed
  <1> QED
    BY PurchaseIsRedemption, DiscountType, MaxAmountAssumption

\* A step that commits nothing, and one that leaves all variables alone, leave
\* the tables as they are, and the calls their rows came from.
LEMMA TablesStay ==
    ASSUME IInv, NEW t \in Request, Step(t), ~ Commit(t)
    PROVE  /\ row' = row /\ purchase' = purchase /\ liability' = liability
           /\ \A r \in Request : row[r] # "none" => job'[r] = job[r]
  <1>1. row' = row /\ purchase' = purchase /\ liability' = liability
    BY DEF Step, Called, Moved, Inserted, Insert, ReadWallet, Verified, Verify,
           Updated, CasUpdate, committed
  <1>2. \A r \in Request : row[r] # "none" => job'[r] = job[r]
    BY JobStable DEF IInv, RowsAreCommits
  <1> QED
    BY <1>1, <1>2

LEMMA TablesKeep ==
    ASSUME IInv, LedgerInv, row' = row, purchase' = purchase, liability' = liability,
           \A r \in Request : row[r] # "none" => job'[r] = job[r]
    PROVE  LedgerInv'
  <1>1. OnlyAwardsReversed'
    BY DEF LedgerInv, OnlyAwardsReversed
  <1>2. RefundedHasRow'
    <2>1. \A p \in Request : RefundRows(p)' = RefundRows(p)
      BY DEF RefundRows
    <2> QED
      BY <2>1 DEF LedgerInv, RefundedHasRow
  <1>3. LiabilityReconciles'
    <2>1. ASSUME NEW p \in Request, purchase[p] = "CONFIRMED"
          PROVE  job'[p] = job[p]
      BY <2>1, PurchaseIsRedemption
    <2>2. Owed' = Owed
      BY <2>1 DEF Owed
    <2>3. liability = Total(Owed)
      BY DEF LedgerInv, LiabilityReconciles, Owed
    <2>4. liability' = Total(Owed')
      BY <2>2, <2>3
    <2> QED
      BY <2>4 DEF LiabilityReconciles, Owed
  <1> QED
    BY <1>1, <1>2, <1>3 DEF LedgerInv

\* The purchase a refund gives back is still confirmed when the refund commits:
\* had another refund come first, its row would have the key this one holds.
LEMMA RefundsConfirmed ==
    ASSUME IInv, LedgerInv, NEW t \in Request, Commit(t), job[t].op = "refund"
    PROVE  job[t].ref \in Request /\ purchase[job[t].ref] = "CONFIRMED"
  <1> DEFINE p == job[t].ref
  <1>1. p \in Request /\ purchase[p] # "none" /\ pc[t] \in HoldsKey /\ ~ IsReversal(t)
    BY DEF IInv, JobShape, Shaped, Commit, HoldsKey, IsReversal
  <1>2. row[t] = "none"
    BY <1>1, CommitEffect
  <1>3. ASSUME NEW s \in RefundRows(p)
        PROVE  FALSE
    <2>1. s \in Request \ {t} /\ row[s] # "none" /\ job[s].op = "refund" /\ job[s].ref = p
      BY <1>2 DEF RefundRows
    <2>2. SourceKey(s) = SourceKey(t)
      BY <2>1 DEF SourceKey
    <2>3. SourceKey(s) # SourceKey(t)
      BY <1>1, <2>1 DEF IInv, KeyHeld
    <2> QED
      BY <2>2, <2>3
  <1>4. purchase[p] # "REFUNDED"
    BY <1>1, <1>3 DEF LedgerInv, RefundedHasRow
  <1> QED
    BY <1>1, <1>4 DEF IInv, TypeOK, PurchaseStatus

-----------------------------------------------------------------------------
(* A commit, part by part *)

LEMMA AwardsStep ==
    ASSUME IInv, LedgerInv, NEW t \in Request, Commit(t)
    PROVE  OnlyAwardsReversed'
  <1> SUFFICES ASSUME NEW r \in Request, row'[r] = "REVERSED"
               PROVE  job'[r].op = "award"
    BY DEF OnlyAwardsReversed
  <1>1. job' = job
    BY CommitEffect
  <1>2. CASE IsReversal(t)
    <2>1. job[t].ref \in Request /\ IsAward(job[t].ref)
      BY <1>2 DEF IInv, JobShape, Shaped, Commit, IsReversal
    <2>2. row' = [row EXCEPT ![job[t].ref] = "REVERSED"]
      BY <1>2, CommitEffect
    <2>3. r = job[t].ref \/ row[r] = "REVERSED"
      BY <2>2 DEF IInv, TypeOK
    <2> QED
      BY <1>1, <2>1, <2>3 DEF IsAward, LedgerInv, OnlyAwardsReversed
  <1>3. CASE ~ IsReversal(t)
    <2>1. row' = [row EXCEPT ![t] = "VALIDATED"]
      BY <1>3, CommitEffect
    <2>2. row[r] = "REVERSED"
      BY <2>1 DEF IInv, TypeOK
    <2> QED
      BY <1>1, <2>2 DEF LedgerInv, OnlyAwardsReversed
  <1> QED
    BY <1>2, <1>3

LEMMA RefundedStep ==
    ASSUME IInv, LedgerInv, NEW t \in Request, Commit(t)
    PROVE  RefundedHasRow'
  <1> SUFFICES ASSUME NEW p \in Request
               PROVE  purchase'[p] = "REFUNDED" <=> RefundRows(p)' # {}
    BY DEF RefundedHasRow
  <1>1. purchase[p] = "REFUNDED" <=> RefundRows(p) # {}
    BY DEF LedgerInv, RefundedHasRow
  <1>2. job' = job /\ purchase' = PurchasesAfter(t)
    BY DEF Commit
  <1>3. \A r \in Request : row'[r] # "none" <=> row[r] # "none" \/ (r = t /\ ~ IsReversal(t))
    BY CommitEffect DEF IInv, TypeOK
  <1>4. CASE job[t].op = "refund"
    <2>1. job[t].ref \in Request /\ ~ IsReversal(t)
      BY <1>4, RefundsConfirmed DEF IsReversal
    <2>2. purchase' = [purchase EXCEPT ![job[t].ref] = "REFUNDED"]
      BY <1>2, <1>4 DEF PurchasesAfter
    <2>3. CASE p = job[t].ref
      <3>1. purchase'[p] = "REFUNDED"
        BY <2>1, <2>2, <2>3 DEF IInv, TypeOK
      <3>2. t \in RefundRows(p)'
        BY <1>2, <1>3, <1>4, <2>1, <2>3 DEF RefundRows
      <3> QED
        BY <3>1, <3>2
    <2>4. CASE p # job[t].ref
      <3>1. purchase'[p] = purchase[p]
        BY <2>2, <2>4 DEF IInv, TypeOK
      <3>2. RefundRows(p)' = RefundRows(p)
        BY <1>2, <1>3, <2>4 DEF RefundRows
      <3> QED
        BY <1>1, <3>1, <3>2
    <2> QED
      BY <2>3, <2>4
  <1>5. CASE job[t].op # "refund"
    <2>1. RefundRows(p)' = RefundRows(p)
      BY <1>2, <1>3, <1>5 DEF RefundRows
    <2>2. purchase'[p] = purchase[p] \/ (p = t /\ purchase'[p] = "CONFIRMED")
      BY <1>2, <1>5 DEF PurchasesAfter, IInv, TypeOK
    <2>3. p = t => purchase[p] = "none"
      BY CommitEffect, PurchaseIsRedemption DEF IsReversal
    <2> QED
      BY <1>1, <2>1, <2>2, <2>3
  <1> QED
    BY <1>4, <1>5

LEMMA LiabilityStep ==
    ASSUME IInv, LedgerInv, NEW t \in Request, Commit(t)
    PROVE  LiabilityReconciles'
  <1>1. /\ job' = job /\ pc[t] # "idle" /\ purchase' = PurchasesAfter(t)
        /\ liability' = LiabilityAfter(t)
    BY DEF Commit
  <1>2. liability = Total(Owed) /\ Owed \in [Request -> Int] /\ IsFiniteSet(Request)
    BY OwedType, WalletAssumption DEF LedgerInv, LiabilityReconciles, Owed
  <1>3. Total(Owed) \in Int
    BY <1>2, TotalType
  <1> SUFFICES liability' = Total(Owed')
    BY DEF LiabilityReconciles, Owed
  <1>4. ASSUME NEW e \in Request, NEW n \in Int, Owed' = [Owed EXCEPT ![e] = n]
        PROVE  Total(Owed') = Total(Owed) - Owed[e] + n
    BY <1>2, <1>4, TotalUpdate
  <1>5. CASE job[t].op = "confirm"
    <2> DEFINE n == Discount[-job[t].amount]
    <2>1. n \in 0..MaxAmount /\ n \in Int /\ n \in Int
      BY <1>1, <1>5, DiscountType, MaxAmountAssumption
    <2>2. purchase[t] = "none"
      BY <1>5, CommitEffect, PurchaseIsRedemption DEF IsReversal
    <2>3. purchase' = [purchase EXCEPT ![t] = "CONFIRMED"] /\ liability' = liability + n
      BY <1>1, <1>5 DEF PurchasesAfter, LiabilityAfter
    <2>4. Owed[t] = 0
      BY <2>2 DEF Owed
    <2>5. Owed' = [Owed EXCEPT ![t] = n]
      BY <1>1, <2>3 DEF Owed, IInv, TypeOK
    <2> HIDE DEF n
    <2>6. Total(Owed') = Total(Owed) - Owed[t] + n
      BY <1>4, <2>1, <2>5
    <2> QED
      BY <1>2, <1>3, <2>1, <2>3, <2>4, <2>6
  <1>6. CASE job[t].op = "refund"
    <2> DEFINE p == job[t].ref
               n == Discount[job[t].amount]
    <2>1. p \in Request /\ purchase[p] = "CONFIRMED"
      BY <1>6, RefundsConfirmed
    <2>2. n \in 0..MaxAmount /\ n \in Int
      BY <1>1, <1>6, DiscountType, MaxAmountAssumption
    <2>3. purchase' = [purchase EXCEPT ![p] = "REFUNDED"] /\ liability' = liability - n
      BY <1>1, <1>6 DEF PurchasesAfter, LiabilityAfter
    <2>4. Owed[p] = n
      <3>1. job[t].amount = -job[p].amount /\ job[p].amount \in Int
        BY <1>1, <1>6, <2>1, MaxAmountAssumption
           DEF IInv, TypeOK, Job, JobShape, Shaped, Mirrors
      <3>2. -job[p].amount = job[t].amount
        BY <3>1
      <3> QED
        BY <2>1, <3>2 DEF Owed
    <2>5. Owed' = [Owed EXCEPT ![p] = 0]
      BY <1>1, <2>1, <2>3 DEF Owed, IInv, TypeOK
    <2> HIDE DEF n, p
    <2>6. 0 \in Int
      BY MaxAmountAssumption
    <2>7. Total(Owed') = Total(Owed) - Owed[p] + 0
      BY <1>4, <2>1, <2>5, <2>6
    <2> QED
      BY <1>2, <1>3, <2>2, <2>3, <2>4, <2>7
  <1>7. CASE job[t].op \notin {"confirm", "refund"}
    <2>1. purchase' = purchase /\ liability' = liability
      BY <1>1, <1>7 DEF PurchasesAfter, LiabilityAfter
    <2>2. Owed' = Owed
      BY <1>1, <2>1 DEF Owed
    <2> QED
      BY <1>2, <2>1, <2>2
  <1> QED
    BY <1>5, <1>6, <1>7

-----------------------------------------------------------------------------

LEMMA LedgerInit == Init => LedgerInv
  <1> SUFFICES ASSUME Init PROVE LedgerInv
    OBVIOUS
  <1>1. OnlyAwardsReversed /\ RefundedHasRow
    BY DEF Init, OnlyAwardsReversed, RefundedHasRow, RefundRows
  <1>2. Owed = [p \in Request |-> 0]
    BY DEF Init, Owed
  <1>3. liability = Total(Owed)
    BY <1>2, TotalOfNothing DEF Init
  <1> QED
    BY <1>1, <1>3 DEF LedgerInv, LiabilityReconciles, Owed

LEMMA LedgerStep == IInv /\ LedgerInv /\ [Next]_vars => LedgerInv'
  <1> SUFFICES ASSUME IInv, LedgerInv, [Next]_vars
               PROVE  LedgerInv'
    OBVIOUS
  <1>1. CASE UNCHANGED vars
    BY <1>1, TablesKeep DEF vars
  <1>2. ASSUME NEW t \in Request, Step(t)
        PROVE  LedgerInv'
    <2>1. CASE Commit(t)
      BY <2>1, AwardsStep, RefundedStep, LiabilityStep DEF LedgerInv
    <2>2. CASE ~ Commit(t)
      <3>1. /\ row' = row /\ purchase' = purchase /\ liability' = liability
            /\ \A r \in Request : row[r] # "none" => job'[r] = job[r]
        BY <1>2, <2>2, TablesStay
      <3> QED
        BY <3>1, TablesKeep
    <2> QED
      BY <2>1, <2>2
  <1> QED
    BY <1>1, <1>2, StepShape

THEOREM LedgerInvariance == Spec => []LedgerInv
  BY LedgerInit, LedgerStep, Invariance, PTL DEF Spec

\* points_liability carries the discounts of exactly the purchases confirmed now,
\* however redemptions and refunds interleave and are cut off.
THEOREM LiabilityCorrect == Spec => []LiabilityReconciles
  <1>1. LedgerInv => LiabilityReconciles
    BY DEF LedgerInv
  <1> QED
    BY <1>1, LedgerInvariance, PTL

\* A confirmed purchase has its spend row; a refunded one has its refund, which
\* gives the purchaser exactly what was spent, and both rows count for ever.
THEOREM RefundsMakeWhole == Spec => []PurchaserMadeWhole
  <1>1. IInv /\ LedgerInv => PurchaserMadeWhole
    <2> SUFFICES ASSUME IInv, LedgerInv, NEW p \in Request
                 PROVE  /\ purchase[p] = "CONFIRMED" => row[p] = "VALIDATED"
                        /\ purchase[p] = "REFUNDED" <=> RefundRows(p) # {}
                        /\ \A r \in RefundRows(p) : /\ job[r].user = job[p].user
                                                     /\ job[r].amount = -job[p].amount
                                                     /\ row[r] = row[p]
      BY DEF PurchaserMadeWhole
    <2>1. ASSUME NEW r \in Request, row[r] # "none", job[r].op # "award"
          PROVE  row[r] = "VALIDATED"
      BY <2>1 DEF IInv, TypeOK, Status, LedgerInv, OnlyAwardsReversed
    <2>2. ASSUME NEW q \in Request, purchase[q] # "none"
          PROVE  row[q] = "VALIDATED"
      BY <2>1, <2>2, PurchaseIsRedemption
    <2>3. ASSUME NEW r \in RefundRows(p)
          PROVE  /\ job[r].user = job[p].user
                 /\ job[r].amount = -job[p].amount
                 /\ row[r] = row[p]
      <3>1. r \in Request /\ row[r] = "VALIDATED" /\ job[r].op = "refund" /\ job[r].ref = p
        BY <2>1, <2>3 DEF RefundRows
      <3>2. pc[r] # "idle"
        BY <3>1 DEF IInv, RowsAreCommits
      <3>3. purchase[p] # "none" /\ Mirrors(r, p)
        BY <3>1, <3>2 DEF IInv, JobShape, Shaped
      <3> QED
        BY <2>2, <3>1, <3>3 DEF Mirrors
    <2> QED
      BY <2>2, <2>3 DEF LedgerInv, RefundedHasRow
  <1> QED
    BY <1>1, Invariance, LedgerInvariance, PTL

-----------------------------------------------------------------------------
(* The book *)

\* What the book sees of the wallet: the refinement mapping of `Book`.
BookBalance == [u \in User |-> wallet[u].balance]
BookEntryOf(t) == IF row[t] = "none" THEN [status |-> "none"]
                  ELSE [status |-> row[t], user |-> job[t].user,
                        amount |-> job[t].amount, key |-> SourceKey(t)]
BookEntry == [t \in Request |-> BookEntryOf(t)]
BookKey == Operations \X (Ref \cup Request)

\* An entry is absent exactly when the request has no row.
LEMMA EntryPresence ==
    ASSUME TypeOK, NEW t \in Request
    PROVE  /\ row[t] = "none" <=> BookEntry[t] = [status |-> "none"]
           /\ row[t] # "none" => /\ BookEntry[t].status = row[t]
                                 /\ BookEntry[t].user = job[t].user
                                 /\ BookEntry[t].amount = job[t].amount
                                 /\ BookEntry[t].key = SourceKey(t)
  <1>1. row[t] # "none" => BookEntry[t].status = row[t]
    BY DEF BookEntry, BookEntryOf
  <1>2. row[t] # "none" => BookEntry[t] # [status |-> "none"]
    BY <1>1
  <1> QED
    BY <1>1, <1>2 DEF BookEntry, BookEntryOf

\* The key of a request that has begun is a key of the book.
LEMMA KeyType ==
    ASSUME IInv, NEW t \in Request, pc[t] # "idle"
    PROVE  SourceKey(t) \in BookKey
  BY DEF IInv, TypeOK, JobShape, Shaped, Job, SourceKey, BookKey

-----------------------------------------------------------------------------

LEMMA BookInit == Init => Book!Init
  <1> SUFFICES ASSUME Init PROVE Book!Init
    OBVIOUS
  <1>1. BookBalance = Opening
    <2>1. Opening \in [User -> Nat]
      BY WalletAssumption
    <2>2. \A u \in User : wallet[u].balance = Opening[u]
      BY DEF Init
    <2> QED
      BY <2>1, <2>2 DEF BookBalance
  <1>2. BookEntry = [t \in Request |-> [status |-> "none"]]
    BY DEF Init, BookEntry, BookEntryOf
  <1> QED
    BY <1>1, <1>2 DEF Book!Init, Book!Absent, BookBalance, BookEntry, BookEntryOf

\* Every statement but Commit leaves the book as it is.
LEMMA Stutters ==
    ASSUME IInv, NEW t \in Request, Step(t), ~ Commit(t)
    PROVE  BookBalance' = BookBalance /\ BookEntry' = BookEntry
  <1>1. wallet' = wallet /\ row' = row
    BY DEF Step, Called, Moved, Inserted, Insert, ReadWallet, Verified, Verify,
           Updated, CasUpdate, committed
  <1>2. ASSUME NEW r \in Request, row[r] # "none"
        PROVE  job'[r] = job[r]
    BY <1>2, JobStable DEF IInv, RowsAreCommits
  <1>3. \A r \in Request : BookEntryOf(r)' = BookEntryOf(r)
    BY <1>1, <1>2 DEF BookEntryOf, SourceKey
  <1> QED
    BY <1>1, <1>3 DEF BookBalance, BookEntry

\* A commit that inserts a row posts it: under a fresh key, with its owner's
\* balance moved by its amount.
LEMMA CommitPosts ==
    ASSUME IInv, NEW t \in Request, Commit(t), ~ IsReversal(t)
    PROVE  Book!Post(t)
  <1> DEFINE new == BookEntryOf(t)'
             u == job[t].user
  <1> USE DEF IInv
  <1>1. /\ row[t] = "none" /\ row' = [row EXCEPT ![t] = "VALIDATED"] /\ job' = job
        /\ u \in User /\ pc[t] # "idle" /\ pc[t] \in HoldsKey
    BY CommitEffect DEF Commit, HoldsKey
  <1>2. row'[t] = "VALIDATED"
    BY <1>1 DEF TypeOK
  <1>3. SourceKey(t)' = SourceKey(t)
    BY <1>1 DEF SourceKey
  <1>4. new = [status |-> "VALIDATED", user |-> u, amount |-> job[t].amount,
               key |-> SourceKey(t)]
    BY <1>1, <1>2, <1>3 DEF BookEntryOf
  <1>5. new \in [status : {"VALIDATED"}, user : User, amount : -MaxAmount..MaxAmount,
                 key : BookKey]
    BY <1>1, <1>4, KeyType DEF TypeOK, Job
  <1>6. BookEntry' = [BookEntry EXCEPT ![t] = new]
    <2>1. ASSUME NEW r \in Request \ {t}
          PROVE  BookEntryOf(r)' = BookEntryOf(r)
      BY <1>1 DEF BookEntryOf, SourceKey, TypeOK
    <2> QED
      BY <2>1 DEF BookEntry
  <1>7. BookEntry'[t] = new
    BY <1>6 DEF BookEntry
  <1>8. BookEntry[t] = [status |-> "none"]
    BY <1>1, EntryPresence
  <1>9. \A f \in {e \in Request : BookEntry[e] # [status |-> "none"]} :
           BookEntry[f].key # new.key
    <2> SUFFICES ASSUME NEW f \in Request, row[f] # "none"
                 PROVE  BookEntry[f].key # new.key
      BY EntryPresence
    <2>1. BookEntry[f].key = SourceKey(f) /\ f # t
      BY <1>1, EntryPresence
    <2>2. SourceKey(f) # SourceKey(t)
      BY <1>1, <2>1 DEF KeyHeld
    <2> QED
      BY <1>4, <2>1, <2>2
  <1>10. BookBalance' = [BookBalance EXCEPT ![u] = BookBalance[u] + job[t].amount]
    <2>1. wallet'[u].balance = wallet[u].balance + job[t].amount
          /\ \A v \in User \ {u} : wallet'[v] = wallet[v]
      BY CommitEffect
    <2> QED
      BY <1>1, <2>1 DEF BookBalance
  <1>11. new.user = u /\ new.amount = job[t].amount
    BY <1>4
  <1> HIDE DEF new, u
  <1> QED
    BY <1>5, <1>6, <1>7, <1>8, <1>9, <1>10, <1>11
       DEF Book!Post, Book!Absent, Book!Written, Book!PostedEntry, BookBalance, BookEntry,
           BookEntryOf, BookKey

\* A rejection's commit reverses the entry of its award and gives back exactly
\* what that entry carried.
LEMMA CommitReverses ==
    ASSUME IInv, NEW t \in Request, Commit(t), IsReversal(t)
    PROVE  \E a \in Request : Book!Reverse(a)
  <1> USE DEF IInv
  <1>0. PICK a \in Request : a = job[t].ref
    BY CommitEffect
  <1> DEFINE u == job[a].user
  <1>1. /\ row[a] = "VALIDATED" /\ job' = job
        /\ row' = [row EXCEPT ![a] = "REVERSED"]
        /\ job[t].user = u /\ job[t].amount = -job[a].amount /\ u \in User
    BY <1>0, CommitEffect DEF Mirrors
  <1>2. /\ BookEntry[a] # [status |-> "none"]
        /\ BookEntry[a].status = "VALIDATED"
        /\ BookEntry[a].user = u /\ BookEntry[a].amount = job[a].amount
    BY <1>1, EntryPresence
  <1>3. BookEntry' = [BookEntry EXCEPT ![a].status = "REVERSED"]
    <2>1. ASSUME NEW r \in Request \ {a}
          PROVE  BookEntryOf(r)' = BookEntryOf(r)
      BY <1>1 DEF BookEntryOf, SourceKey, TypeOK
    <2>2. row'[a] = "REVERSED" /\ SourceKey(a)' = SourceKey(a)
      BY <1>1 DEF TypeOK, SourceKey
    <2>3. BookEntryOf(a)' = [BookEntryOf(a) EXCEPT !.status = "REVERSED"]
      BY <1>1, <2>2 DEF BookEntryOf
    <2> QED
      BY <1>1, <2>1, <2>3 DEF BookEntry
  <1>4. BookBalance' = [BookBalance EXCEPT ![u] = BookBalance[u] - job[a].amount]
    <2>1. LET v == job[t].user IN
          /\ wallet'[v].balance = wallet[v].balance + job[t].amount
          /\ \A w \in User \ {v} : wallet'[w] = wallet[w]
      BY CommitEffect
    <2>2. wallet[u].balance \in Int /\ job[a].amount \in Int
      BY <1>1, MaxAmountAssumption DEF TypeOK, WalletRow, Job
    <2>3. wallet'[u].balance = wallet[u].balance - job[a].amount
      BY <1>1, <2>1, <2>2
    <2> QED
      BY <1>1, <2>1, <2>3 DEF BookBalance
  <1> HIDE DEF u
  <1>5. Book!Reverse(a)
    BY <1>1, <1>2, <1>3, <1>4
       DEF Book!Reverse, Book!Absent, Book!Written, BookBalance, BookEntry, BookEntryOf
  <1> QED
    BY <1>5

LEMMA BookStep == IInv /\ [Next]_vars => [Book!Next]_(Book!vars)
  <1> SUFFICES ASSUME IInv, [Next]_vars
               PROVE  Book!Next \/ UNCHANGED Book!vars
    OBVIOUS
  <1>1. ASSUME BookBalance' = BookBalance, BookEntry' = BookEntry
        PROVE  UNCHANGED Book!vars
    BY <1>1 DEF Book!vars, BookBalance, BookEntry, BookEntryOf
  <1>2. CASE UNCHANGED vars
    BY <1>1, <1>2 DEF vars, committed, BookBalance, BookEntry, BookEntryOf, SourceKey
  <1>3. ASSUME NEW t \in Request, Step(t)
        PROVE  Book!Next \/ UNCHANGED Book!vars
    <2>1. CASE ~ Commit(t)
      BY <1>1, <1>3, <2>1, Stutters
    <2>2. CASE Commit(t)
      <3>1. CASE IsReversal(t)
        BY <2>2, <3>1, CommitReverses DEF Book!Next
      <3>2. CASE ~ IsReversal(t)
        BY <2>2, <3>2, CommitPosts DEF Book!Next
      <3> QED
        BY <3>1, <3>2
    <2> QED
      BY <2>1, <2>2
  <1> QED
    BY <1>2, <1>3, StepShape

\* The wallet implements the book: whatever the calls, however their statements
\* interleave and wherever they are cut off, the committed rows and balances
\* change only as entries posted once and reversed at most once.
THEOREM WalletImplementsBook == Spec => ImplementsBook
  <1>1. Init => Book!Init
    BY BookInit
  <1>2. IInv /\ [Next]_vars => [Book!Next]_(Book!vars)
    BY BookStep
  <1> QED
    BY <1>1, <1>2, Invariance, PTL DEF Spec, ImplementsBook, Book!Spec

-----------------------------------------------------------------------------
(* Watching: what a call in flight knows *)

Uses(t) == watchPc[t] # "idle" /\ V!UserCall(t)
Reviews(t) == watchPc[t] # "idle" /\ watchJob[t].op \in {"approve", "reject"}
Watched(t) == watch[watchJob[t].watch]

\* At most 2x of the time x between two instants has been verified as seconds.
Within(r, at) == TicksPerSecond * r.seconds <= 2 * (at - r.start)
Real(r) == r.start <= r.last /\ Within(r, r.last)

\* Where a call is tells what it does, and its session exists.
StagesFit ==
    \A t \in Caller :
        /\ watchPc[t] \in {"counted", "timed"} => watchJob[t].op = "start"
        /\ watchPc[t] \in {"loaded", "stamped", "beaten", "assessing", "closing", "flagging",
                           "passed", "completed"} => V!UserCall(t)
        /\ watchPc[t] = "awarding" => V!UserCall(t) \/ watchJob[t].op = "approve"
        /\ watchPc[t] \in {"reversing", "rejecting"} => watchJob[t].op = "reject"
        /\ Uses(t) \/ Reviews(t) => Watched(t).status # "none"

\* Nothing is later than the clock, and no row claims more time than it had.
RowsAreReal ==
    \A w \in Session :
        /\ watch[w].start <= now /\ watch[w].last <= now
        /\ watch[w].created <= now /\ watch[w].end <= now
        /\ Within(watch[w], now)
        /\ watch[w].status \in V!Open => Real(watch[w])

\* Nor does what a call has read, however old: a heartbeat's row is as real as it was
\* when it was read, and what a completion closes with fits before its instant.
ReadsAreReal ==
    \A t \in Caller :
        /\ stamp[t] <= now
        /\ Uses(t) /\ watchPc[t] # "beaten" => read[t].start = Watched(t).start
        /\ watchPc[t] = "loaded" => Real(read[t]) /\ read[t].last <= now
        /\ watchPc[t] = "stamped" => Real(read[t]) /\ read[t].last <= stamp[t]
        /\ watchPc[t] = "assessing" => Within(read[t], now)
        /\ Uses(t) /\ watchPc[t] \in {"closing", "passed", "completed", "awarding"} =>
               Within(read[t], stamp[t])
        /\ Uses(t) /\ watchPc[t] = "awarding" => V!PassesGates(read[t].seconds)

\* Requests in order: who works on a session knows its status.
OneUser ==
    \A s, t \in Caller :
        Uses(s) /\ Uses(t) /\ watchJob[s].watch = watchJob[t].watch => s = t
StatusIsKnown ==
    \A t \in Caller :
        /\ Uses(t) => IF watchPc[t] \in {"completed", "awarding"}
                      THEN Watched(t).status = "COMPLETED" ELSE Watched(t).status \in V!Open
        /\ Reviews(t) => /\ Watched(t).status \in {"FRAUD_SUSPECT", "CREDITED"}
                         /\ ~V!PaidByItself(watchJob[t].watch)
PaidIsCredited == \A w \in Session : V!PaidByItself(w) => watch[w].status = "CREDITED"

\* A session that passed, or was paid without a reviewer, came before or after the others.
Cleared(w) == watch[w].status = "COMPLETED" \/ V!PaidByItself(w)
ClearedApart ==
    /\ \A t \in Caller, w \in Session :
           /\ watchPc[t] = "passed" /\ watchJob[t].watch # w
           /\ watch[w].status \in V!Open
           => stamp[t] <= watch[w].created
    /\ \A v, w \in Session :
           v # w /\ Cleared(v) /\ watch[w].status \in V!Open
           => watch[v].end <= watch[w].created
    /\ \A v, w \in Session :
           v # w /\ Cleared(v) /\ Cleared(w)
           => watch[v].end <= watch[w].created \/ watch[w].end <= watch[v].created

\* Whatever the order of requests, nobody takes up a session that is suspect.
LateAreNoted == \A t \in Caller : Uses(t) /\ Watched(t).status = "FRAUD_SUSPECT" => t \in late

TimeInv == StagesFit /\ RowsAreReal /\ ReadsAreReal
OrderInv == OneUser /\ StatusIsKnown /\ PaidIsCredited

-----------------------------------------------------------------------------
(* Watching: the shapes a step can have *)

Others(t) ==
    /\ now' = now
    /\ \A s \in Caller : s # t => /\ watchPc'[s] = watchPc[s] /\ watchJob'[s] = watchJob[s]
                                  /\ read'[s] = read[s] /\ stamp'[s] = stamp[s]

Ended(t) == /\ watchPc'[t] = "idle" /\ watchJob'[t] = V!NoJob /\ stamp'[t] = 0
Kept(t) == watchJob'[t] = watchJob[t] /\ read'[t] = read[t] /\ stamp'[t] = stamp[t]
Went(t, stage) == watchPc'[t] = stage /\ Kept(t)

\* No row is written, and an award is reversed at most.
SameRows ==
    /\ watch' = watch
    /\ \A w \in Session : /\ award'[w].by = award[w].by
                          /\ award[w].status # "none" => award'[w].status # "none"
OtherRows(w) == \A v \in Session : v # w => watch'[v] = watch[v] /\ award'[v] = award[v]
SameTimes(w) == /\ watch'[w].created = watch[w].created /\ watch'[w].start = watch[w].start

Opens(t) ==
    /\ watchPc[t] = "idle" /\ Others(t) /\ SameRows /\ stamp'[t] = stamp[t]
    /\ LET w == watchJob'[t].watch
           op == watchJob'[t].op
       IN /\ w \in Session
          /\ \/ op = "start" /\ watchPc'[t] = "counted"
             \/ /\ op \in {"heartbeat", "complete", "finish"}
                /\ watch[w].status \in V!Open /\ read'[t] = watch[w]
                /\ watchPc'[t] \in {"loaded", "assessing"}
                /\ Orderly => \A s \in Caller : Uses(s) => watchJob[s].watch # w
             \/ /\ \/ op = "approve" /\ watchPc'[t] = "awarding"
                   \/ op = "reject" /\ watchPc'[t] \in {"reversing", "rejecting"}
                /\ watch[w].status # "none"
                /\ Orderly => watch[w].status = "FRAUD_SUSPECT"

LooksAtClock(t) ==
    /\ Others(t) /\ SameRows
    /\ watchJob'[t] = watchJob[t] /\ read'[t] = read[t] /\ stamp'[t] = now
    /\ \/ watchPc[t] = "counted" /\ watchPc'[t] = "timed"
       \/ watchPc[t] = "loaded" /\ watchPc'[t] = "stamped"
       \/ watchPc[t] = "assessing" /\ watchPc'[t] = "closing"

Rereads(t) ==
    /\ Others(t) /\ SameRows
    /\ watchPc[t] = "beaten" /\ watchPc'[t] = "assessing"
    /\ watchJob'[t] = watchJob[t] /\ stamp'[t] = stamp[t] /\ read'[t] = Watched(t)

\* A decision, which writes no row.
Decides(t) ==
    /\ Others(t) /\ SameRows
    /\ \/ watchPc[t] # "idle" /\ Ended(t)
       \/ watchPc[t] = "closing" /\ Went(t, "flagging")
       \/ /\ watchPc[t] = "closing" /\ Went(t, "passed")
          /\ \A w \in Session : w # watchJob[t].watch => watch[w].status \notin V!Open
       \/ watchPc[t] = "completed" /\ Went(t, "awarding") /\ V!PassesGates(read[t].seconds)
       \/ watchPc[t] = "reversing" /\ Went(t, "rejecting")

Creates(t) ==
    /\ Others(t) /\ watchPc[t] = "timed" /\ Ended(t) /\ award' = award
    /\ \E w \in Session : /\ watch[w].status = "none" /\ OtherRows(w)
                          /\ watch'[w].status = "STARTED" /\ watch'[w].created = now
                          /\ watch'[w].start = stamp[t] /\ watch'[w].last = stamp[t]
                          /\ watch'[w].seconds = 0 /\ watch'[w].end = 0

\* A heartbeat that counts.
Counts(t) ==
    LET w == watchJob[t].watch IN
    /\ Others(t) /\ watchPc[t] = "stamped" /\ OtherRows(w) /\ award' = award
    /\ SameTimes(w) /\ watch'[w].end = watch[w].end
    /\ watch'[w].status = "WATCHING" /\ watch'[w].last = stamp[t]
    /\ watch'[w].seconds =
         read[t].seconds + V!RoundedSeconds(V!CappedGap(read[t].last, stamp[t]))
    /\ Ended(t) \/ Went(t, "beaten")

\* A call makes its session suspect.
Flags(t) ==
    LET w == watchJob[t].watch IN
    /\ Others(t) /\ watchPc[t] \in {"stamped", "flagging", "rejecting"} /\ Ended(t)
    /\ OtherRows(w) /\ award' = award
    /\ watch'[w] = [watch[w] EXCEPT !.status = "FRAUD_SUSPECT"]

Closes(t) ==
    LET w == watchJob[t].watch IN
    /\ Others(t) /\ watchPc[t] = "passed" /\ Went(t, "completed")
    /\ OtherRows(w) /\ award' = award
    /\ watch'[w] = [watch[w] EXCEPT !.status = "COMPLETED", !.end = stamp[t],
                                    !.seconds = read[t].seconds]

Pays(t) ==
    LET w == watchJob[t].watch IN
    /\ Others(t) /\ watchPc[t] = "awarding" /\ Ended(t) /\ OtherRows(w)
    /\ watch'[w] = [watch[w] EXCEPT !.status = "CREDITED"]
    /\ award'[w].status = "VALIDATED"
    /\ award'[w].by = IF watchJob[t].op = "approve" THEN "approve" ELSE "complete"

ClockTicks == /\ now' = now + 1 /\ SameRows
              /\ UNCHANGED <<watchPc, watchJob, read, stamp>>

StepOf(t) == \/ Opens(t) \/ LooksAtClock(t) \/ Rereads(t) \/ Decides(t) \/ Creates(t)
             \/ Counts(t) \/ Flags(t) \/ Closes(t) \/ Pays(t)

-----------------------------------------------------------------------------

LEMMA GotoShape ==
    ASSUME V!TypeOK, NEW t \in Caller, NEW stage, V!Goto(t, stage), now' = now
    PROVE  /\ Others(t)
           /\ IF stage = "idle" THEN Ended(t) ELSE Went(t, stage)
  BY DEF V!TypeOK, V!Goto, Others, Ended, Went, Kept

LEMMA BeginShape ==
    ASSUME V!TypeOK, NEW t \in Caller, NEW op, NEW w, NEW r, NEW stage,
           V!Begin(t, op, w, r, stage), now' = now
    PROVE  /\ Others(t) /\ watchPc[t] = "idle" /\ watchPc'[t] = stage
           /\ watchJob'[t].op = op /\ watchJob'[t].watch = w
           /\ read'[t] = r /\ stamp'[t] = stamp[t]
  BY DEF V!TypeOK, V!Begin, Others

LEMMA SetShape ==
    ASSUME V!TypeOK, NEW w \in Session, NEW status, V!Set(w, status), award' = award
    PROVE  OtherRows(w) /\ watch'[w] = [watch[w] EXCEPT !.status = status]
  BY DEF V!TypeOK, V!Set, OtherRows

LEMMA WatchStepShape ==
    ASSUME V!TypeOK, NEW t \in Caller, V!Step(t)
    PROVE  StepOf(t)
  <1> USE DEF StepOf
  <1>w. watchJob[t].watch \in Session
    BY DEF V!TypeOK
  <1>n. V!NoJob.watch \in Session
    BY WatchAssumption DEF V!VideoWatchAssumption, V!NoJob
  <1>1. CASE V!StartCount(t)
    BY <1>1, <1>n, BeginShape DEF V!StartCount, Opens, SameRows
  <1>2. CASE V!StartCreate(t)
    <2>1. Others(t) /\ Ended(t)
      BY <1>2, GotoShape DEF V!StartCreate
    <2> PICK w \in Session : /\ watch[w].status = "none"
                             /\ watch' = [watch EXCEPT ![w] = [V!NoRow EXCEPT
                                  !.status = "STARTED", !.created = now,
                                  !.start = stamp[t], !.last = stamp[t]]]
      BY <1>2 DEF V!StartCreate, V!Rows
    <2>2. /\ OtherRows(w)
          /\ watch'[w].status = "STARTED" /\ watch'[w].created = now
          /\ watch'[w].start = stamp[t] /\ watch'[w].last = stamp[t]
          /\ watch'[w].seconds = 0 /\ watch'[w].end = 0
      BY <1>2 DEF V!StartCreate, OtherRows, V!TypeOK, V!NoRow
    <2> QED
      BY <1>2, <2>1, <2>2 DEF V!StartCreate, Creates
  <1>3. CASE V!Load(t)
    <2> PICK w \in Session, op \in {"heartbeat", "complete", "finish"} :
               /\ watch[w].status \in V!Open
               /\ Orderly => \A s \in Caller :
                     watchPc[s] # "idle" /\ V!UserCall(s) => watchJob[s].watch # w
               /\ V!Begin(t, op, w, watch[w],
                          IF op = "complete" THEN "assessing" ELSE "loaded")
               /\ UNCHANGED <<now, watch, award, queued>>
      BY <1>3 DEF V!Load
    <2> QED
      BY BeginShape DEF Opens, SameRows, Uses
  <1>4. CASE V!Stamp(t)
    BY <1>4 DEF V!Stamp, V!TypeOK, LooksAtClock, Others, SameRows
  <1>5. CASE V!Beat(t)
    <2> PICK accelerated \in BOOLEAN : 
          LET gap == V!RawGap(read[t].last, stamp[t])
              suspect == V!IsHeartbeatGapFraud(gap) \/ accelerated
          IN  /\ IF suspect
                 THEN V!Set(watchJob[t].watch, "FRAUD_SUSPECT")
                 ELSE watch' = [watch EXCEPT ![watchJob[t].watch] = [@ EXCEPT
                        !.status = "WATCHING",
                        !.seconds = read[t].seconds
                           + V!RoundedSeconds(V!CappedGap(read[t].last, stamp[t])),
                        !.beats = read[t].beats + 1,
                        !.last = stamp[t]]]
              /\ V!Goto(t, IF watchJob[t].op = "finish" /\ ~ suspect THEN "beaten" ELSE "idle")
      BY <1>5 DEF V!Beat
    <2> DEFINE suspect == V!IsHeartbeatGapFraud(V!RawGap(read[t].last, stamp[t])) \/ accelerated
    <2>0. watchPc[t] = "stamped" /\ UNCHANGED <<now, award, queued>>
      BY <1>5 DEF V!Beat
    <2>1. CASE suspect
      BY <1>w, <2>0, <2>1, GotoShape, SetShape DEF Flags
    <2>2. CASE ~suspect
      <3>1. Others(t) /\ (Ended(t) \/ Went(t, "beaten"))
        BY <2>0, <2>2, GotoShape
      <3> DEFINE w == watchJob[t].watch
                 more == read[t].seconds
                           + V!RoundedSeconds(V!CappedGap(read[t].last, stamp[t]))
      <3>2. watch' = [watch EXCEPT ![w] = [watch[w] EXCEPT
                        !.status = "WATCHING", !.seconds = more,
                        !.beats = read[t].beats + 1, !.last = stamp[t]]]
        BY <2>2
      <3> HIDE DEF more
      <3>3. /\ OtherRows(w) /\ SameTimes(w) /\ watch'[w].end = watch[w].end
            /\ watch'[w].status = "WATCHING" /\ watch'[w].last = stamp[t]
            /\ watch'[w].seconds = more
        BY <1>w, <2>0, <3>2 DEF OtherRows, SameTimes, V!TypeOK, V!WatchRow
      <3> QED
        BY <2>0, <3>1, <3>3 DEF Counts, more
    <2> QED
      BY <2>1, <2>2
  <1>6. CASE V!Refresh(t)
    BY <1>6 DEF V!Refresh, V!TypeOK, Rereads, Others, SameRows, Watched
  <1>7. CASE V!Assess(t)
    <2>1. PICK stage \in {"flagging", "passed"} :
                  /\ V!Goto(t, stage)
                  /\ stage = "passed" =>
                       ~ \E w \in Session \ {watchJob[t].watch} : watch[w].status \in V!Open
      BY <1>7, Zenon DEF V!Assess
    <2>2. watchPc[t] = "closing" /\ UNCHANGED <<now, watch, award, queued>>
      BY <1>7 DEF V!Assess
    <2> QED
      BY <2>1, <2>2, GotoShape DEF Decides, SameRows
  <1>8. CASE V!MarkFraudSuspect(t)
    BY <1>8, <1>w, GotoShape, SetShape DEF V!MarkFraudSuspect, Flags
  <1>9. CASE V!MarkCompleted(t)
    <2>1. /\ OtherRows(watchJob[t].watch)
          /\ watch'[watchJob[t].watch] = [watch[watchJob[t].watch] EXCEPT
                !.status = "COMPLETED", !.end = stamp[t], !.seconds = read[t].seconds]
      BY <1>9, <1>w DEF V!MarkCompleted, OtherRows, V!TypeOK
    <2>2. Others(t) /\ Went(t, "completed") /\ watchPc[t] = "passed" /\ award' = award
      BY <1>9, GotoShape DEF V!MarkCompleted
    <2> QED
      BY <2>1, <2>2 DEF Closes
  <1>10. CASE V!Settle(t)
    <2>1. PICK stage \in {"awarding", "idle"} :
                  /\ V!Goto(t, stage)
                  /\ stage = "awarding" => V!PassesGates(read[t].seconds)
      BY <1>10 DEF V!Settle
    <2>2. watchPc[t] = "completed" /\ UNCHANGED <<now, watch, award>>
      BY <1>10 DEF V!Settle
    <2> QED
      BY <2>1, <2>2, GotoShape DEF Decides, SameRows
  <1>11. CASE V!MakeAward(t)
    <2>0. Others(t) /\ Ended(t) /\ watchPc[t] = "awarding"
      BY <1>11, GotoShape DEF V!MakeAward
    <2>1. CASE award[watchJob[t].watch].status = "none"
      <3>1. /\ award' = [award EXCEPT ![watchJob[t].watch] =
                 [status |-> "VALIDATED",
                  by |-> IF watchJob[t].op = "approve" THEN "approve" ELSE "complete"]]
            /\ watch' = [watch EXCEPT ![watchJob[t].watch].status = "CREDITED"]
        BY <1>11, <2>1 DEF V!MakeAward, V!Set
      <3>2. /\ OtherRows(watchJob[t].watch)
            /\ watch'[watchJob[t].watch] = [watch[watchJob[t].watch] EXCEPT !.status = "CREDITED"]
            /\ award'[watchJob[t].watch].status = "VALIDATED"
            /\ award'[watchJob[t].watch].by =
                  IF watchJob[t].op = "approve" THEN "approve" ELSE "complete"
        BY <1>w, <3>1 DEF OtherRows, V!TypeOK
      <3> QED
        BY <2>0, <3>2 DEF Pays
    <2>2. CASE award[watchJob[t].watch].status # "none"
      BY <1>11, <2>0, <2>2 DEF V!MakeAward, Decides, SameRows
    <2> QED
      BY <2>1, <2>2
  <1>12. CASE V!Approve(t)
    <2> PICK w \in V!Rows : /\ Orderly => watch[w].status = "FRAUD_SUSPECT"
                            /\ V!Begin(t, "approve", w, V!NoRow, "awarding")
      BY <1>12 DEF V!Approve
    <2> QED
      BY <1>12, BeginShape DEF V!Approve, V!Rows, Opens, SameRows
  <1>13. CASE V!Reject(t)
    <2> PICK w \in V!Rows, stage \in {"reversing", "rejecting"} :
               /\ Orderly => watch[w].status = "FRAUD_SUSPECT"
               /\ V!Begin(t, "reject", w, V!NoRow, stage)
      BY <1>13 DEF V!Reject
    <2> QED
      BY <1>13, BeginShape DEF V!Reject, V!Rows, Opens, SameRows
  <1>14. CASE V!Reverse(t)
    <2>1. watchPc[t] = "reversing" /\ watch' = watch
      BY <1>14 DEF V!Reverse
    <2>2. Others(t) /\ (Ended(t) \/ Went(t, "rejecting"))
      BY <1>14, GotoShape DEF V!Reverse
    <2>3. \A w \in Session : /\ award'[w].by = award[w].by
                             /\ award[w].status # "none" => award'[w].status # "none"
      BY <1>14, <1>w DEF V!Reverse, V!TypeOK, V!Award
    <2>4. SameRows
      BY <2>1, <2>3 DEF SameRows
    <2> QED
      BY <2>1, <2>2, <2>4 DEF Decides
  <1>15. CASE V!RejectWatch(t)
    BY <1>15, <1>w, GotoShape, SetShape DEF V!RejectWatch, Flags
  <1>16. CASE V!Fail(t)
    BY <1>16, GotoShape DEF V!Fail, Decides, SameRows
  <1> HIDE DEF StepOf
  <1> QED
    BY <1>1, <1>2, <1>3, <1>4, <1>5, <1>6, <1>7, <1>8, <1>9, <1>10, <1>11, <1>12, <1>13,
       <1>14, <1>15, <1>16 DEF V!Step, V!Heartbeat, V!Complete, V!Review

LEMMA WatchNextShape ==
    ASSUME V!TypeOK, V!Next
    PROVE  /\ ClockTicks \/ UNCHANGED watchVars \/ \E t \in Caller : StepOf(t)
           /\ V!NoteLate
  BY WatchStepShape DEF V!Next, V!Tick, V!Rest, V!vars, watchVars, ClockTicks, SameRows

-----------------------------------------------------------------------------
(* Watching: types *)

\* Rounding to seconds at most doubles a time, whatever the clock's precision.
LEMMA RoundedAtMostDoubles ==
    ASSUME NEW ticks \in Nat
    PROVE  /\ V!RoundedSeconds(ticks) \in Nat
           /\ TicksPerSecond * V!RoundedSeconds(ticks) <= 2 * ticks
  <1> DEFINE tps == TicksPerSecond
             n == (2 * ticks + tps) \div (2 * tps)
  <1>0. tps \in Nat \ {0}
    BY WatchAssumption DEF V!VideoWatchAssumption
  <1>1. n \in Nat /\ (2 * tps) * n <= 2 * ticks + tps
    BY <1>0
  <1>2. tps * n <= 2 * ticks
    <2>1. CASE n = 0
      BY <1>0, <2>1
    <2>2. CASE n >= 1
      <3>1. tps <= tps * n
        BY <1>0, <1>1, <2>2
      <3>2. (2 * tps) * n = 2 * (tps * n) /\ tps * n \in Nat
        BY <1>0, <1>1
      <3> HIDE DEF n
      <3> QED
        BY <1>0, <1>1, <3>1, <3>2
    <2> QED
      BY <1>1, <2>1, <2>2
  <1> QED
    BY <1>1, <1>2 DEF V!RoundedSeconds

LEMMA CappedGapBound ==
    ASSUME NEW from \in Nat, NEW to \in Nat, from <= to
    PROVE  V!CappedGap(from, to) \in Nat /\ V!CappedGap(from, to) <= to - from
  <1> DEFINE cap == Interval * TicksPerSecond
  <1>1. cap \in Nat
    BY WatchAssumption DEF V!VideoWatchAssumption
  <1> HIDE DEF cap
  <1>2. V!RawGap(from, to) \in Nat /\ V!RawGap(from, to) = to - from
    BY DEF V!RawGap
  <1>3. V!CappedGap(from, to) = V!Least(V!RawGap(from, to), cap)
    BY DEF V!CappedGap, cap
  <1> QED
    BY <1>1, <1>2, <1>3 DEF V!Least

LEMMA GapIsNat ==
    ASSUME NEW from \in Nat, NEW to \in Nat
    PROVE  V!CappedGap(from, to) \in Nat
  <1> DEFINE cap == Interval * TicksPerSecond
  <1>1. cap \in Nat
    BY WatchAssumption DEF V!VideoWatchAssumption
  <1> HIDE DEF cap
  <1>2. V!RawGap(from, to) \in Nat
    BY DEF V!RawGap
  <1>3. V!CappedGap(from, to) = V!Least(V!RawGap(from, to), cap)
    BY DEF V!CappedGap, cap
  <1> QED
    BY <1>1, <1>2, <1>3 DEF V!Least

LEMMA WatchInit ==
    V!Init => /\ V!TypeOK /\ TimeInv /\ LateAreNoted
              /\ OrderInv /\ ClearedApart /\ V!CreditedHasAward
  <1> SUFFICES ASSUME V!Init
               PROVE  /\ V!TypeOK /\ TimeInv /\ LateAreNoted
                      /\ OrderInv /\ ClearedApart /\ V!CreditedHasAward
    OBVIOUS
  <1>n. V!NoJob.watch \in Session /\ V!NoJob.op = "start"
    BY WatchAssumption DEF V!VideoWatchAssumption, V!NoJob
  <1>a. MaxTime \in Nat /\ TicksPerSecond \in Nat
    BY WatchAssumption DEF V!VideoWatchAssumption
  <1>1. V!TypeOK
    BY <1>n, <1>a DEF V!Init, V!TypeOK, V!Time, V!WatchRow, V!WatchStatus, V!Award, V!Op, V!Stage,
       V!NoRow, V!NoJob
  <1>2. \A w \in Session : watch[w] = V!NoRow /\ award[w].by = "none"
    BY DEF V!Init
  <1>3. \A t \in Caller : watchPc[t] = "idle" /\ stamp[t] = 0
    BY DEF V!Init
  <1>4. TimeInv
    BY <1>a, <1>2, <1>3 DEF V!Init, TimeInv, StagesFit, RowsAreReal, ReadsAreReal, Uses, Reviews,
       Within, V!NoRow, V!Open
  <1>5. OrderInv
    BY <1>2, <1>3 DEF OrderInv, OneUser, StatusIsKnown, PaidIsCredited, Uses, Reviews, V!PaidByItself
  <1>6. ClearedApart /\ V!CreditedHasAward /\ LateAreNoted
    BY <1>2, <1>3 DEF ClearedApart, Cleared, V!PaidByItself, V!NoRow, V!CreditedHasAward,
       LateAreNoted, Uses
  <1> QED
    BY <1>1, <1>4, <1>5, <1>6

LEMMA GotoTypes ==
    ASSUME V!TypeOK, NEW t \in Caller, NEW stage \in V!Stage, V!Goto(t, stage)
    PROVE  /\ watchPc' \in [Caller -> V!Stage]
           /\ watchJob' \in [Caller -> [op : V!Op, watch : Session]]
           /\ read' \in [Caller -> V!WatchRow]
           /\ stamp' \in [Caller -> V!Time]
  <1>1. V!NoJob \in [op : V!Op, watch : Session]
    BY WatchAssumption DEF V!VideoWatchAssumption, V!NoJob, V!Op
  <1>2. V!NoRow \in V!WatchRow /\ 0 \in V!Time
    BY WatchAssumption DEF V!VideoWatchAssumption, V!NoRow, V!WatchRow, V!WatchStatus, V!Time
  <1> QED
    BY <1>1, <1>2 DEF V!TypeOK, V!Goto

LEMMA BeginTypes ==
    ASSUME V!TypeOK, NEW t \in Caller, NEW op \in V!Op, NEW w \in Session,
           NEW r \in V!WatchRow, NEW stage \in V!Stage, V!Begin(t, op, w, r, stage)
    PROVE  /\ watchPc' \in [Caller -> V!Stage]
           /\ watchJob' \in [Caller -> [op : V!Op, watch : Session]]
           /\ read' \in [Caller -> V!WatchRow]
           /\ stamp' \in [Caller -> V!Time]
  BY DEF V!TypeOK, V!Begin

LEMMA WatchTypes ==
    ASSUME V!TypeOK, V!Next
    PROVE  V!TypeOK'
  <1>l. late' \subseteq Caller
    BY DEF V!Next, V!NoteLate
  <1> USE <1>l
  <1>a. 0 \in V!Time /\ V!Time \subseteq Nat
    BY WatchAssumption DEF V!VideoWatchAssumption, V!Time
  <1>b. V!NoRow \in V!WatchRow /\ V!NoJob.watch \in Session
    BY <1>a, WatchAssumption
    DEF V!VideoWatchAssumption, V!NoRow, V!WatchRow, V!WatchStatus, V!NoJob
  <1>c. /\ \A s \in {"counted", "timed", "loaded", "stamped", "beaten", "assessing", "closing",
                     "flagging", "passed", "completed", "awarding", "reversing", "rejecting",
                     "idle"} : s \in V!Stage
        /\ \A s \in {"start", "heartbeat", "complete", "finish", "approve", "reject"} : s \in V!Op
    BY DEF V!Stage, V!Op
  <1>d. ASSUME NEW w \in Session, NEW status \in V!WatchStatus, V!Set(w, status)
        PROVE  watch' \in [Session -> V!WatchRow]
    BY <1>d DEF V!TypeOK, V!Set, V!WatchRow
  <1>e. {"STARTED", "WATCHING", "FRAUD_SUSPECT", "COMPLETED", "CREDITED"} \subseteq V!WatchStatus
    BY DEF V!WatchStatus, V!Open
  <1>1. CASE V!Tick
    <2>1. now' \in V!Time
      BY <1>1, WatchAssumption DEF V!Tick, V!TypeOK, V!Time, V!VideoWatchAssumption
    <2> QED
      BY <1>1, <2>1 DEF V!Tick, V!TypeOK
  <1>2. CASE V!Rest
    BY <1>2 DEF V!Rest, V!vars, V!TypeOK
  <1>3. ASSUME NEW t \in Caller, V!Step(t) PROVE V!TypeOK'
    <2>w. watchJob[t].watch \in Session /\ read[t] \in V!WatchRow /\ stamp[t] \in V!Time
      BY DEF V!TypeOK
    <2>1. CASE V!StartCount(t)
      BY <2>1, <1>b, <1>c, BeginTypes DEF V!StartCount, V!TypeOK
    <2>2. CASE V!StartCreate(t)
      <3>1. watch' \in [Session -> V!WatchRow]
        <4> DEFINE row0 == [V!NoRow EXCEPT !.status = "STARTED", !.created = now,
                                           !.start = stamp[t], !.last = stamp[t]]
        <4>1. row0 \in V!WatchRow
          BY <2>w, <1>b, <1>e DEF V!TypeOK, V!WatchRow
        <4>2. PICK w \in Session : watch' = [watch EXCEPT ![w] = row0]
          BY <2>2 DEF V!StartCreate
        <4> HIDE DEF row0
        <4> QED
          BY <4>1, <4>2 DEF V!TypeOK
      <3> QED
        BY <2>2, <3>1, <1>c, GotoTypes DEF V!StartCreate, V!TypeOK
    <2>3. CASE V!Load(t)
      <3> PICK w \in Session, op \in {"heartbeat", "complete", "finish"} :
                 V!Begin(t, op, w, watch[w], IF op = "complete" THEN "assessing" ELSE "loaded")
        BY <2>3 DEF V!Load
      <3>1. watch[w] \in V!WatchRow
        BY DEF V!TypeOK
      <3> QED
        BY <2>3, <3>1, <1>c, BeginTypes DEF V!Load, V!TypeOK
    <2>4. CASE V!Stamp(t)
      BY <2>4, <1>c DEF V!Stamp, V!TypeOK
    <2>5. CASE V!Beat(t)
      <3> DEFINE more == read[t].seconds
                           + V!RoundedSeconds(V!CappedGap(read[t].last, stamp[t]))
      <3>1. more \in Nat
        <4>1. read[t].seconds \in Nat /\ read[t].last \in Nat /\ stamp[t] \in Nat
          BY <2>w, <1>a DEF V!WatchRow
        <4>2. V!RoundedSeconds(V!CappedGap(read[t].last, stamp[t])) \in Nat
          BY <4>1, GapIsNat, RoundedAtMostDoubles
        <4> QED
          BY <4>1, <4>2
      <3>2. /\ V!Set(watchJob[t].watch, "FRAUD_SUSPECT")
               \/ watch' = [watch EXCEPT ![watchJob[t].watch] = [@ EXCEPT
                        !.status = "WATCHING", !.seconds = more,
                        !.beats = read[t].beats + 1, !.last = stamp[t]]]
            /\ V!Goto(t, "beaten") \/ V!Goto(t, "idle")
            /\ UNCHANGED <<now, award, queued>>
        BY <2>5 DEF V!Beat
      <3> HIDE DEF more
      <3>3. watch' \in [Session -> V!WatchRow]
        <4>1. CASE V!Set(watchJob[t].watch, "FRAUD_SUSPECT")
          BY <4>1, <2>w, <1>d, <1>e
        <4>2. CASE watch' = [watch EXCEPT ![watchJob[t].watch] = [@ EXCEPT
                        !.status = "WATCHING", !.seconds = more,
                        !.beats = read[t].beats + 1, !.last = stamp[t]]]
          <5> DEFINE w == watchJob[t].watch
                     row1 == [watch[w] EXCEPT !.status = "WATCHING", !.seconds = more,
                                !.beats = read[t].beats + 1, !.last = stamp[t]]
          <5>1. watch[w] \in V!WatchRow /\ read[t].beats + 1 \in Nat
            BY <2>w DEF V!TypeOK, V!WatchRow
          <5>2. row1 \in V!WatchRow
            BY <5>1, <2>w, <3>1, <1>e DEF V!WatchRow
          <5>3. watch' = [watch EXCEPT ![w] = row1]
            BY <4>2
          <5> HIDE DEF row1
          <5> QED
            BY <5>2, <5>3, <2>w DEF V!TypeOK
        <4> QED
          BY <3>2, <4>1, <4>2
      <3>4. /\ watchPc' \in [Caller -> V!Stage]
            /\ watchJob' \in [Caller -> [op : V!Op, watch : Session]]
            /\ read' \in [Caller -> V!WatchRow]
            /\ stamp' \in [Caller -> V!Time]
        BY <3>2, <1>c, GotoTypes
      <3> QED
        BY <3>2, <3>3, <3>4 DEF V!TypeOK
    <2>6. CASE V!Refresh(t)
      BY <2>6, <1>c DEF V!Refresh, V!TypeOK
    <2>7. CASE V!Assess(t)
      <3>1. (V!Goto(t, "flagging") \/ V!Goto(t, "passed")) /\ UNCHANGED <<now, watch, award, queued>>
        BY <2>7, Zenon DEF V!Assess
      <3> QED
        BY <3>1, <1>c, GotoTypes DEF V!TypeOK
    <2>8. CASE V!MarkFraudSuspect(t)
      BY <2>8, <2>w, <1>c, <1>d, <1>e, GotoTypes DEF V!MarkFraudSuspect, V!TypeOK
    <2>9. CASE V!MarkCompleted(t)
      <3>1. watch' \in [Session -> V!WatchRow]
        BY <2>9, <2>w, <1>e DEF V!MarkCompleted, V!TypeOK, V!WatchRow
      <3> QED
        BY <2>9, <3>1, <1>c, GotoTypes DEF V!MarkCompleted, V!TypeOK
    <2>10. CASE V!Settle(t)
      <3>1. /\ V!Goto(t, "awarding") \/ V!Goto(t, "idle")
            /\ queued' \subseteq Session /\ UNCHANGED <<now, watch, award>>
        BY <2>10, <2>w DEF V!Settle, V!TypeOK
      <3> QED
        BY <3>1, <1>c, GotoTypes DEF V!TypeOK
    <2>11. CASE V!MakeAward(t)
      <3>1. watch' \in [Session -> V!WatchRow]
        BY <2>11, <2>w, <1>d, <1>e DEF V!MakeAward, V!TypeOK
      <3>2. award' \in [Session -> V!Award]
        BY <2>11, <2>w DEF V!MakeAward, V!TypeOK, V!Award
      <3> QED
        BY <2>11, <3>1, <3>2, <1>c, GotoTypes DEF V!MakeAward, V!TypeOK
    <2>12. CASE V!Approve(t)
      BY <2>12, <1>b, <1>c, BeginTypes DEF V!Approve, V!Rows, V!TypeOK
    <2>13. CASE V!Reject(t)
      <3>1. PICK w \in Session, stage \in {"reversing", "rejecting"} :
                 V!Begin(t, "reject", w, V!NoRow, stage)
        BY <2>13 DEF V!Reject, V!Rows
      <3> QED
        BY <2>13, <3>1, <1>b, <1>c, BeginTypes DEF V!Reject, V!TypeOK
    <2>14. CASE V!Reverse(t)
      <3>1. award' \in [Session -> V!Award]
        BY <2>14, <2>w DEF V!Reverse, V!TypeOK, V!Award
      <3>2. V!Goto(t, "rejecting") \/ V!Goto(t, "idle")
        BY <2>14 DEF V!Reverse
      <3> QED
        BY <2>14, <3>1, <3>2, <1>c, GotoTypes DEF V!Reverse, V!TypeOK
    <2>15. CASE V!RejectWatch(t)
      BY <2>15, <2>w, <1>c, <1>d, <1>e, GotoTypes DEF V!RejectWatch, V!TypeOK
    <2>16. CASE V!Fail(t)
      BY <2>16, <1>c, GotoTypes DEF V!Fail, V!TypeOK
    <2> QED
      BY <1>3, <2>1, <2>2, <2>3, <2>4, <2>5, <2>6, <2>7, <2>8, <2>9, <2>10, <2>11, <2>12,
         <2>13, <2>14, <2>15, <2>16 DEF V!Step, V!Heartbeat, V!Complete, V!Review
  <1> QED
    BY <1>1, <1>2, <1>3 DEF V!Next

-----------------------------------------------------------------------------
(* Watching: real time *)

LEMMA TicksAreNat == TicksPerSecond \in Nat
  BY WatchAssumption DEF V!VideoWatchAssumption

\* What every step keeps: rows stay, and when they were made and started.
LEMMA RowsStay ==
    ASSUME V!TypeOK, StagesFit, NEW t \in Caller, StepOf(t), NEW w \in Session,
           watch[w].status # "none"
    PROVE  watch'[w].status # "none" /\ SameTimes(w)
  <1>r. watch[w] \in V!WatchRow
    BY DEF V!TypeOK
  <1>1. CASE Opens(t) \/ LooksAtClock(t) \/ Rereads(t) \/ Decides(t)
    BY <1>1 DEF Opens, LooksAtClock, Rereads, Decides, SameRows, SameTimes
  <1>2. CASE Creates(t)
    <2>1. watch'[w] = watch[w]
      BY <1>2 DEF Creates, OtherRows
    <2> QED
      BY <2>1 DEF SameTimes
  <1>3. CASE Counts(t)
    BY <1>3 DEF Counts, OtherRows, SameTimes
  <1>4. CASE Flags(t)
    BY <1>4, <1>r DEF Flags, OtherRows, SameTimes, V!WatchRow
  <1>5. CASE Closes(t)
    <2>1. CASE w = watchJob[t].watch
      <3>1. watch'[w] = [watch[w] EXCEPT !.status = "COMPLETED", !.end = stamp[t],
                                         !.seconds = read[t].seconds]
        BY <1>5, <2>1 DEF Closes
      <3> QED
        BY <3>1, <1>r DEF SameTimes, V!WatchRow
    <2>2. CASE w # watchJob[t].watch
      BY <1>5, <2>2 DEF Closes, OtherRows, SameTimes
    <2> QED
      BY <2>1, <2>2
  <1>6. CASE Pays(t)
    BY <1>6, <1>r DEF Pays, OtherRows, SameTimes, V!WatchRow
  <1> QED
    BY <1>1, <1>2, <1>3, <1>4, <1>5, <1>6 DEF StepOf

\* What is true of a call that does not move stays true.
LEMMA OthersSame ==
    ASSUME NEW t \in Caller, Others(t), NEW s \in Caller, s # t
    PROVE  /\ watchPc'[s] = watchPc[s] /\ watchJob'[s] = watchJob[s]
           /\ read'[s] = read[s] /\ stamp'[s] = stamp[s]
           /\ Uses(s)' = Uses(s) /\ Reviews(s)' = Reviews(s) /\ V!UserCall(s)' = V!UserCall(s)
  BY DEF Others, Uses, Reviews, V!UserCall

LEMMA StepOthers == ASSUME NEW t \in Caller, StepOf(t) PROVE Others(t)
  BY DEF StepOf, Opens, LooksAtClock, Rereads, Decides, Creates, Counts, Flags, Closes, Pays

LEMMA EndedIsOver ==
    ASSUME NEW t \in Caller, Ended(t)
    PROVE  ~Uses(t)' /\ ~Reviews(t)' /\ ~V!UserCall(t)' /\ stamp'[t] = 0 /\ watchPc'[t] = "idle"
  BY DEF Ended, Uses, Reviews, V!UserCall, V!NoJob

\* A call that goes on works on the same session, as the same.
LEMMA KeptIsSame ==
    ASSUME NEW t \in Caller, watchJob'[t] = watchJob[t]
    PROVE  /\ V!UserCall(t)' = V!UserCall(t)
           /\ Uses(t)' = (watchPc'[t] # "idle" /\ V!UserCall(t))
           /\ Reviews(t)' = (watchPc'[t] # "idle" /\ watchJob[t].op \in {"approve", "reject"})
           /\ Watched(t)' = watch'[watchJob[t].watch]
  BY DEF Uses, Reviews, V!UserCall, Watched

StageFits(t) ==
    /\ watchPc[t] \in {"counted", "timed"} => watchJob[t].op = "start"
    /\ watchPc[t] \in {"loaded", "stamped", "beaten", "assessing", "closing", "flagging",
                       "passed", "completed"} => V!UserCall(t)
    /\ watchPc[t] = "awarding" => V!UserCall(t) \/ watchJob[t].op = "approve"
    /\ watchPc[t] \in {"reversing", "rejecting"} => watchJob[t].op = "reject"
    /\ Uses(t) \/ Reviews(t) => Watched(t).status # "none"

LEMMA StagesKept ==
    ASSUME V!TypeOK, StagesFit, NEW t \in Caller, StepOf(t)
    PROVE  StagesFit'
  <1>w. \A s \in Caller : watchJob[s].watch \in Session
    BY DEF V!TypeOK
  <1>0. \A s \in Caller : StageFits(s)
    BY DEF StagesFit, StageFits
  <1>1. ASSUME NEW s \in Caller, s # t PROVE StageFits(s)'
    <2>1. Others(t)
      BY StepOthers
    <2>2. Watched(s).status # "none" => Watched(s)'.status # "none"
      BY <1>1, <1>w, <2>1, RowsStay, OthersSame DEF Watched
    <2> QED
      BY <1>0, <1>1, <2>1, <2>2, OthersSame DEF StageFits
  <1>2. ASSUME Ended(t) PROVE StageFits(t)'
    BY <1>2, EndedIsOver DEF StageFits
  <1>3. ASSUME watchJob'[t] = watchJob[t], Uses(t) \/ Reviews(t)
        PROVE  Watched(t)'.status # "none"
    BY <1>0, <1>3, <1>w, RowsStay DEF Watched, StageFits
  <1>4. ASSUME watchJob'[t] = watchJob[t], watchPc[t] # "idle",
               \/ watchPc[t] = "counted" /\ watchPc'[t] = "timed"
               \/ V!UserCall(t) /\ watchPc'[t] \notin {"counted", "timed", "reversing", "rejecting"}
               \/ watchPc[t] = "reversing" /\ watchPc'[t] = "rejecting"
        PROVE  StageFits(t)'
    <2>1. V!UserCall(t)' = V!UserCall(t) /\ StageFits(t)
      BY <1>0, <1>4, KeptIsSame
    <2>2. Uses(t)' \/ Reviews(t)' => Uses(t) \/ Reviews(t)
      BY <1>4, KeptIsSame DEF Uses, Reviews
    <2>3. Uses(t)' \/ Reviews(t)' => Watched(t)'.status # "none"
      BY <1>3, <1>4, <2>2
    <2> QED
      BY <1>4, <2>1, <2>3 DEF StageFits
  <1>5. StageFits(t)'
    <2>1. CASE Opens(t)
      BY <2>1, <1>w DEF Opens, StageFits, Uses, Reviews, V!UserCall, Watched, SameRows, V!Open
    <2>2. CASE LooksAtClock(t)
      BY <2>2, <1>0, <1>4 DEF LooksAtClock, StageFits
    <2>3. CASE Rereads(t)
      BY <2>3, <1>0, <1>4 DEF Rereads, StageFits
    <2>4. CASE Decides(t)
      BY <2>4, <1>0, <1>2, <1>4 DEF Decides, Went, Kept, StageFits
    <2>5. CASE Counts(t)
      BY <2>5, <1>0, <1>2, <1>4 DEF Counts, Went, Kept, StageFits
    <2>6. CASE Closes(t)
      BY <2>6, <1>0, <1>4 DEF Closes, Went, Kept, StageFits
    <2>7. CASE Creates(t) \/ Flags(t) \/ Pays(t)
      BY <2>7, <1>2 DEF Creates, Flags, Pays
    <2> QED
      BY <2>1, <2>2, <2>3, <2>4, <2>5, <2>6, <2>7 DEF StepOf
  <1> QED
    BY <1>1, <1>5 DEF StagesFit, StageFits

LEMMA TimesAreNat ==
    ASSUME V!TypeOK
    PROVE  /\ now \in Nat /\ \A t \in Caller : stamp[t] \in Nat /\ read[t] \in V!WatchRow
           /\ \A w \in Session : watch[w] \in V!WatchRow
           /\ \A r \in V!WatchRow : /\ r.created \in Nat /\ r.start \in Nat /\ r.end \in Nat
                                    /\ r.last \in Nat /\ r.seconds \in Nat
  <1>1. V!Time \subseteq Nat
    BY WatchAssumption DEF V!VideoWatchAssumption, V!Time
  <1> QED
    BY <1>1 DEF V!TypeOK, V!WatchRow

LEMMA WithinLater ==
    ASSUME NEW r, r.start \in Nat, r.seconds \in Nat, NEW a \in Nat, NEW b \in Nat, a <= b,
           Within(r, a)
    PROVE  Within(r, b)
  <1>1. TicksPerSecond * r.seconds \in Nat
    BY TicksAreNat
  <1> QED
    BY <1>1 DEF Within

\* What a heartbeat adds to what it read is covered by the time that has passed.
LEMMA HeartbeatIsReal ==
    ASSUME NEW r, r.start \in Nat, r.last \in Nat, r.seconds \in Nat, NEW at \in Nat,
           Real(r), r.last <= at
    PROVE  /\ r.start <= at
           /\ TicksPerSecond * (r.seconds + V!RoundedSeconds(V!CappedGap(r.last, at)))
                <= 2 * (at - r.start)
  <1> DEFINE gap == V!CappedGap(r.last, at)
             n == V!RoundedSeconds(gap)
  <1>1. gap \in Nat /\ gap <= at - r.last
    BY CappedGapBound
  <1> HIDE DEF gap
  <1>2. n \in Nat /\ TicksPerSecond * n <= 2 * gap
    BY <1>1, RoundedAtMostDoubles
  <1> HIDE DEF n
  <1>3. /\ TicksPerSecond * (r.seconds + n) = TicksPerSecond * r.seconds + TicksPerSecond * n
        /\ TicksPerSecond * r.seconds \in Nat /\ TicksPerSecond * n \in Nat
    BY <1>2, TicksAreNat
  <1>4. r.start <= r.last /\ TicksPerSecond * r.seconds <= 2 * (r.last - r.start)
    BY DEF Real, Within
  <1>5. TicksPerSecond * (r.seconds + n) <= 2 * (at - r.start)
    BY <1>1, <1>2, <1>3, <1>4
  <1> QED
    BY <1>4, <1>5 DEF n, gap

RowIsReal(w) ==
    /\ watch[w].start <= now /\ watch[w].last <= now
    /\ watch[w].created <= now /\ watch[w].end <= now
    /\ Within(watch[w], now)
    /\ watch[w].status \in V!Open => Real(watch[w])

LEMMA RowsKept ==
    ASSUME V!TypeOK, TimeInv, ClockTicks \/ \E t \in Caller : StepOf(t)
    PROVE  RowsAreReal'
  <1> SUFFICES ASSUME NEW w \in Session PROVE RowIsReal(w)'
    BY DEF RowsAreReal, RowIsReal
  <1> DEFINE r == watch[w]
             r1 == watch'[w]
  <1>0. RowIsReal(w)
    BY DEF TimeInv, RowsAreReal, RowIsReal
  <1>n. /\ now \in Nat /\ r.created \in Nat /\ r.start \in Nat /\ r.end \in Nat
        /\ r.last \in Nat /\ r.seconds \in Nat /\ r \in V!WatchRow
    BY TimesAreNat
  <1>s. ASSUME r1 = r, now' = now \/ now' = now + 1 PROVE RowIsReal(w)'
    <2>1. now' \in Nat /\ now <= now'
      BY <1>n, <1>s
    <2>2. Within(r, now')
      BY <2>1, <1>0, <1>n, WithinLater DEF RowIsReal
    <2>3. Within(r1, now') /\ (r1.status \in V!Open => Real(r1))
      BY <2>2, <1>s, <1>0 DEF RowIsReal
    <2>4. r1.start <= now' /\ r1.last <= now' /\ r1.created <= now' /\ r1.end <= now'
      BY <2>1, <1>n, <1>s, <1>0 DEF RowIsReal
    <2> QED
      BY <2>3, <2>4 DEF RowIsReal, Within, Real, V!Open
  <1>1. CASE ClockTicks
    BY <1>1, <1>s DEF ClockTicks, SameRows
  <1>2. ASSUME NEW t \in Caller, StepOf(t) PROVE RowIsReal(w)'
    <2>n. /\ stamp[t] \in Nat /\ read[t].seconds \in Nat /\ read[t].start \in Nat
          /\ read[t].last \in Nat
      BY TimesAreNat
    <2>0. /\ now' = now /\ stamp[t] <= now /\ StageFits(t)
      BY <1>2, StepOthers DEF Others, TimeInv, ReadsAreReal, StagesFit, StageFits
    <2>1. CASE r1 = r
      BY <2>0, <2>1, <1>s
    <2>2. CASE Creates(t) /\ r1 # r
      <3>1. /\ r1.created = now /\ r1.start = stamp[t] /\ r1.last = stamp[t] /\ r1.seconds = 0
            /\ r1.end = 0
        BY <2>2 DEF Creates, OtherRows
      <3>2. TicksPerSecond * r1.seconds = 0
        BY <3>1, TicksAreNat
      <3>3. Within(r1, now) /\ Real(r1)
        BY <3>1, <3>2, <2>n, <2>0, <1>n DEF Within, Real
      <3> QED
        BY <3>1, <3>3, <2>n, <2>0, <1>n DEF RowIsReal, Within, Real, V!Open
    <2>3. CASE r1 # r /\ w = watchJob[t].watch /\ Counts(t)
      <3>1. /\ Real(read[t]) /\ read[t].last <= stamp[t] /\ read[t].start = r.start
        BY <2>0, <2>3 DEF Counts, TimeInv, ReadsAreReal, StageFits, Uses, Watched
      <3>2. /\ r1.start = r.start /\ r1.created = r.created /\ r1.end = r.end
            /\ r1.last = stamp[t]
            /\ r1.seconds = read[t].seconds
                              + V!RoundedSeconds(V!CappedGap(read[t].last, stamp[t]))
        BY <2>3 DEF Counts, SameTimes
      <3>3. /\ r1.start <= stamp[t]
            /\ TicksPerSecond * r1.seconds <= 2 * (stamp[t] - r1.start)
        BY <3>1, <3>2, <2>n, HeartbeatIsReal
      <3>4. Real(r1) /\ Within(r1, stamp[t])
        BY <3>2, <3>3 DEF Real, Within
      <3>5. r1.seconds \in Nat /\ r1.start \in Nat
        <4>1. V!CappedGap(read[t].last, stamp[t]) \in Nat
          BY <2>n, GapIsNat
        <4>2. V!RoundedSeconds(V!CappedGap(read[t].last, stamp[t])) \in Nat
          BY <4>1, RoundedAtMostDoubles
        <4> QED
          BY <3>2, <2>n, <1>n, <4>2
      <3>6. Within(r1, now)
        BY <3>4, <3>5, <2>n, <2>0, <1>n, WithinLater
      <3>7. r1.start <= now /\ r1.last <= now /\ r1.created <= now /\ r1.end <= now
        BY <3>2, <2>n, <2>0, <1>n, <1>0 DEF RowIsReal
      <3> QED
        BY <3>4, <3>6, <3>7, <2>0 DEF RowIsReal, Within, Real, V!Open
    <2>4. CASE r1 # r /\ w = watchJob[t].watch /\ Closes(t)
      <3>1. Within(read[t], stamp[t]) /\ read[t].start = r.start
        BY <2>0, <2>4 DEF Closes, TimeInv, ReadsAreReal, StageFits, Uses, Watched
      <3>2. r1 = [r EXCEPT !.status = "COMPLETED", !.end = stamp[t], !.seconds = read[t].seconds]
        BY <2>4 DEF Closes
      <3>3. /\ r1.start = r.start /\ r1.created = r.created /\ r1.end = stamp[t]
            /\ r1.last = r.last /\ r1.seconds = read[t].seconds /\ r1.status = "COMPLETED"
        BY <3>2, <1>n DEF V!WatchRow
      <3>4. Within(read[t], now)
        BY <3>1, <2>n, <2>0, <1>n, WithinLater
      <3>5. Within(r1, now)
        BY <3>1, <3>3, <3>4 DEF Within
      <3>6. r1.start <= now /\ r1.last <= now /\ r1.created <= now /\ r1.end <= now
        BY <3>3, <2>0, <1>0 DEF RowIsReal
      <3> QED
        BY <3>3, <3>5, <3>6, <2>0 DEF RowIsReal, Within, V!Open
    <2>5. CASE r1 # r /\ w = watchJob[t].watch /\ (Flags(t) \/ Pays(t))
      <3>1. PICK status \in {"FRAUD_SUSPECT", "CREDITED"} : r1 = [r EXCEPT !.status = status]
        BY <2>5 DEF Flags, Pays
      <3>2. /\ r1.start = r.start /\ r1.created = r.created /\ r1.end = r.end
            /\ r1.last = r.last /\ r1.seconds = r.seconds /\ r1.status = status
        BY <3>1, <1>n DEF V!WatchRow
      <3> QED
        BY <3>2, <2>0, <1>0 DEF RowIsReal, Within, V!Open
    <2> QED
      BY <1>2, <2>1, <2>2, <2>3, <2>4, <2>5
      DEF StepOf, Opens, LooksAtClock, Rereads, Decides, SameRows, Counts, Flags, Closes, Pays,
          OtherRows
  <1> QED
    BY <1>1, <1>2

ReadIsReal(t) ==
    /\ stamp[t] <= now
    /\ Uses(t) /\ watchPc[t] # "beaten" => read[t].start = Watched(t).start
    /\ watchPc[t] = "loaded" => Real(read[t]) /\ read[t].last <= now
    /\ watchPc[t] = "stamped" => Real(read[t]) /\ read[t].last <= stamp[t]
    /\ watchPc[t] = "assessing" => Within(read[t], now)
    /\ Uses(t) /\ watchPc[t] \in {"closing", "passed", "completed", "awarding"} =>
           Within(read[t], stamp[t])
    /\ Uses(t) /\ watchPc[t] = "awarding" => V!PassesGates(read[t].seconds)

LEMMA ReadsKept ==
    ASSUME V!TypeOK, TimeInv, ClockTicks \/ \E t \in Caller : StepOf(t)
    PROVE  ReadsAreReal'
  <1>n. /\ now \in Nat
        /\ \A s \in Caller : /\ stamp[s] \in Nat /\ read[s].start \in Nat
                             /\ read[s].last \in Nat /\ read[s].seconds \in Nat
        /\ \A s \in Caller : watchJob[s].watch \in Session
    BY TimesAreNat DEF V!TypeOK
  <1>0. /\ StagesFit /\ \A s \in Caller : ReadIsReal(s) /\ StageFits(s)
        /\ \A w \in Session : RowIsReal(w)
    BY DEF TimeInv, ReadsAreReal, ReadIsReal, StagesFit, StageFits, RowsAreReal, RowIsReal
  <1>1. CASE ClockTicks
    <2> SUFFICES ASSUME NEW s \in Caller PROVE ReadIsReal(s)'
      BY DEF ReadsAreReal, ReadIsReal
    <2>1. /\ now' = now + 1 /\ watch' = watch
          /\ UNCHANGED <<watchPc, watchJob, read, stamp>>
      BY <1>1 DEF ClockTicks, SameRows
    <2>2. now' \in Nat /\ now <= now' /\ stamp[s] <= now'
          /\ (read[s].last <= now => read[s].last <= now')
      BY <2>1, <1>n, <1>0 DEF ReadIsReal
    <2>3. Within(read[s], now) => Within(read[s], now')
      BY <2>2, <1>n, WithinLater
    <2>4. /\ Uses(s)' = Uses(s) /\ Watched(s)' = Watched(s) /\ Real(read[s])' = Real(read[s])
          /\ Within(read[s], stamp[s])' = Within(read[s], stamp[s])
          /\ Within(read[s], now)' = Within(read[s], now')
          /\ V!PassesGates(read[s].seconds)' = V!PassesGates(read[s].seconds)
      BY <2>1 DEF Uses, V!UserCall, Watched, Real, Within, V!PassesGates
    <2> QED
      BY <2>1, <2>2, <2>3, <2>4, <1>0 DEF ReadIsReal
  <1>2. ASSUME NEW t \in Caller, StepOf(t) PROVE ReadsAreReal'
    <2>0. now' = now /\ Others(t)
      BY <1>2, StepOthers DEF Others
    <2>a. ASSUME NEW s \in Caller, Uses(s) PROVE watch'[watchJob[s].watch].start = Watched(s).start
      BY <2>a, <1>2, <1>n, <1>0, RowsStay DEF StageFits, Watched, SameTimes
    <2>1. ASSUME NEW s \in Caller, s # t PROVE ReadIsReal(s)'
      <3>1. /\ watchPc'[s] = watchPc[s] /\ watchJob'[s] = watchJob[s] /\ read'[s] = read[s]
            /\ stamp'[s] = stamp[s] /\ Uses(s)' = Uses(s)
        BY <2>0, <2>1, OthersSame
      <3>2. Uses(s) => Watched(s)'.start = Watched(s).start
        BY <2>a, <3>1 DEF Watched
      <3>3. /\ Real(read[s])' = Real(read[s])
            /\ Within(read[s], stamp[s])' = Within(read[s], stamp[s])
            /\ Within(read[s], now)' = Within(read[s], now)
            /\ V!PassesGates(read[s].seconds)' = V!PassesGates(read[s].seconds)
        BY <2>0, <3>1 DEF Real, Within, V!PassesGates
      <3> QED
        BY <2>0, <3>1, <3>2, <3>3, <1>0 DEF ReadIsReal
    <2>2. ReadIsReal(t)'
      <3>e. ASSUME Ended(t) PROVE ReadIsReal(t)'
        BY <3>e, <2>0, <1>n, EndedIsOver DEF ReadIsReal
      <3>k. ASSUME Kept(t), V!UserCall(t), watchPc[t] # "idle", watchPc[t] # "beaten"
            PROVE  /\ read'[t].start = Watched(t)'.start /\ stamp'[t] <= now'
                   /\ read'[t] = read[t] /\ stamp'[t] = stamp[t]
                   /\ Real(read[t])' = Real(read[t])
                   /\ Within(read[t], stamp[t])' = Within(read[t], stamp[t])
                   /\ V!PassesGates(read[t].seconds)' = V!PassesGates(read[t].seconds)
        <4>1. read'[t] = read[t] /\ stamp'[t] = stamp[t] /\ watchJob'[t] = watchJob[t]
          BY <3>k DEF Kept
        <4>2. /\ Real(read[t])' = Real(read[t])
              /\ Within(read[t], stamp[t])' = Within(read[t], stamp[t])
              /\ V!PassesGates(read[t].seconds)' = V!PassesGates(read[t].seconds)
          BY <4>1 DEF Real, Within, V!PassesGates
        <4>3. Uses(t)
          BY <3>k DEF Uses
        <4>4. Watched(t)' = watch'[watchJob[t].watch]
          BY <4>1 DEF Watched
        <4>5. read[t].start = Watched(t).start /\ stamp[t] <= now
          BY <1>0, <4>3, <3>k DEF ReadIsReal
        <4> QED
          BY <2>0, <2>a, <4>1, <4>2, <4>3, <4>4, <4>5
      <3>1. CASE Opens(t)
        <4>1. stamp'[t] <= now'
          BY <3>1, <2>0, <1>0 DEF Opens, ReadIsReal
        <4>2. CASE ~Uses(t)'
          BY <3>1, <4>1, <4>2 DEF Opens, ReadIsReal, Uses, V!UserCall
        <4>3. CASE Uses(t)'
          <5> DEFINE w == watchJob'[t].watch
          <5>1. /\ w \in Session /\ watch[w].status \in V!Open /\ read'[t] = watch[w]
                /\ watch' = watch /\ watchPc'[t] \in {"loaded", "assessing"}
            BY <3>1, <4>3 DEF Opens, Uses, V!UserCall, SameRows
          <5>2. Real(watch[w]) /\ watch[w].last <= now /\ Within(watch[w], now)
            BY <5>1, <1>0 DEF RowIsReal
          <5>3. /\ Real(read[t])' /\ read'[t].last <= now' /\ Within(read[t], now)'
                /\ read'[t].start = Watched(t)'.start
            BY <5>1, <5>2, <2>0 DEF Real, Within, Watched
          <5> QED
            BY <4>1, <5>1, <5>3 DEF ReadIsReal
        <4> QED
          BY <4>2, <4>3
      <3>2. CASE LooksAtClock(t)
        <4>1. /\ watchJob'[t] = watchJob[t] /\ read'[t] = read[t] /\ stamp'[t] = now
              /\ watch' = watch
          BY <3>2 DEF LooksAtClock, SameRows
        <4>2. stamp'[t] <= now'
          BY <4>1, <2>0, <1>n
        <4>3. CASE watchPc[t] = "counted" /\ watchPc'[t] = "timed"
          BY <4>1, <4>2, <4>3, <1>0 DEF ReadIsReal, StageFits, Uses, V!UserCall
        <4>4. CASE watchPc[t] # "counted"
          <5>1. Uses(t)
            BY <3>2, <4>4, <1>0 DEF LooksAtClock, StageFits, Uses
          <5>2. read'[t].start = Watched(t)'.start
            BY <5>1, <4>1, <1>0, <3>2 DEF ReadIsReal, Watched, LooksAtClock
          <5>3. /\ watchPc[t] = "loaded" => Real(read[t])' /\ read'[t].last <= stamp'[t]
                /\ watchPc[t] = "assessing" => Within(read[t], stamp[t])'
            BY <4>1, <2>0, <1>0 DEF ReadIsReal, Real, Within
          <5> QED
            BY <3>2, <4>2, <4>4, <5>2, <5>3 DEF LooksAtClock, ReadIsReal
        <4> QED
          BY <3>2, <4>3, <4>4 DEF LooksAtClock
      <3>3. CASE Rereads(t)
        <4>1. /\ watchJob'[t] = watchJob[t] /\ read'[t] = Watched(t) /\ stamp'[t] = stamp[t]
              /\ watchPc'[t] = "assessing" /\ Watched(t)' = Watched(t)
          BY <3>3 DEF Rereads, SameRows, Watched
        <4>2. Within(Watched(t), now)
          BY <1>0, <1>n DEF RowIsReal, Watched
        <4>3. Within(read[t], now)' /\ stamp'[t] <= now'
          BY <4>1, <4>2, <2>0, <1>0 DEF Within, ReadIsReal
        <4> QED
          BY <4>1, <4>3 DEF ReadIsReal
      <3>4. CASE Decides(t)
        <4>1. CASE watchPc[t] \in {"closing", "completed"} /\ Kept(t)
          <5>1. V!UserCall(t) /\ Uses(t) /\ Within(read[t], stamp[t])
            BY <4>1, <1>0 DEF StageFits, Uses, ReadIsReal
          <5> QED
            BY <3>4, <4>1, <5>1, <3>e, <3>k DEF Decides, Went, ReadIsReal
        <4>2. CASE watchPc[t] = "reversing" /\ Went(t, "rejecting")
          <5>1. ~Uses(t)' /\ watchPc'[t] = "rejecting" /\ stamp'[t] <= now'
            BY <4>2, <2>0, <1>0 DEF Went, Kept, Uses, V!UserCall, StageFits, ReadIsReal
          <5> QED
            BY <5>1 DEF ReadIsReal
        <4> QED
          BY <3>4, <3>e, <4>1, <4>2 DEF Decides, Went
      <3>5. CASE Counts(t) /\ Went(t, "beaten")
        <4>1. watchPc'[t] = "beaten" /\ stamp'[t] <= now'
          BY <3>5, <2>0, <1>0 DEF Went, Kept, ReadIsReal
        <4> QED
          BY <4>1 DEF ReadIsReal
      <3>6. CASE Closes(t)
        <4>1. /\ V!UserCall(t) /\ Within(read[t], stamp[t]) /\ watchPc[t] = "passed"
              /\ Kept(t) /\ watchPc'[t] = "completed"
          BY <3>6, <1>0 DEF Closes, StageFits, Uses, ReadIsReal, Went
        <4> QED
          BY <4>1, <3>k DEF ReadIsReal
      <3> QED
        BY <1>2, <3>e, <3>1, <3>2, <3>3, <3>4, <3>5, <3>6
        DEF StepOf, Creates, Counts, Flags, Pays
    <2> QED
      BY <2>1, <2>2 DEF ReadsAreReal, ReadIsReal
  <1> QED
    BY <1>1, <1>2

LEMMA TimeKept ==
    ASSUME V!TypeOK, TimeInv, [V!Next]_(V!vars)
    PROVE  TimeInv'
  <1>1. CASE V!Next /\ ~UNCHANGED watchVars
    <2>1. ClockTicks \/ \E t \in Caller : StepOf(t)
      BY <1>1, WatchNextShape
    <2>2. CASE ClockTicks
      <3>1. StagesFit'
        BY <2>2 DEF ClockTicks, SameRows, TimeInv, StagesFit, Uses, Reviews, V!UserCall, Watched
      <3> QED
        BY <2>1, <3>1, RowsKept, ReadsKept DEF TimeInv
    <2>3. CASE \E t \in Caller : StepOf(t)
      <3>1. StagesFit'
        BY <2>3, StagesKept DEF TimeInv
      <3> QED
        BY <2>1, <3>1, RowsKept, ReadsKept DEF TimeInv
    <2> QED
      BY <2>1, <2>2, <2>3
  <1>2. CASE UNCHANGED watchVars
    BY <1>2 DEF watchVars, TimeInv, StagesFit, RowsAreReal, ReadsAreReal, Uses, Reviews,
       V!UserCall, Watched, Within, Real, V!Open, V!PassesGates
  <1> QED
    BY <1>1, <1>2 DEF V!vars, watchVars

-----------------------------------------------------------------------------
(* Watching: requests in order *)

\* Who is past its first step was there before, on the same session.
LEMMA UserWas ==
    ASSUME StagesFit, NEW t \in Caller, StepOf(t), ~Opens(t)
    PROVE  /\ Uses(t)' => Uses(t) /\ watchJob'[t] = watchJob[t]
           /\ Reviews(t)' => Reviews(t) /\ watchJob'[t] = watchJob[t]
  <1>1. CASE Ended(t)
    BY <1>1, EndedIsOver
  <1>2. CASE ~Ended(t)
    <2>1. watchJob'[t] = watchJob[t] /\ watchPc[t] # "idle"
      BY <1>2 DEF StepOf, LooksAtClock, Rereads, Decides, Creates, Counts, Flags, Closes, Pays, Went, Kept
    <2> QED
      BY <2>1, KeptIsSame DEF Uses, Reviews
  <1> QED
    BY <1>1, <1>2

\* A call on one session leaves the others' rows alone, and so do those that only look.
LEMMA RowChanges ==
    ASSUME NEW t \in Caller, StepOf(t), NEW w \in Session
    PROVE  \/ watch'[w] = watch[w] /\ award'[w].by = award[w].by
           \/ Creates(t) /\ watch[w].status = "none"
           \/ w = watchJob[t].watch /\ (Counts(t) \/ Flags(t) \/ Closes(t) \/ Pays(t))
  BY DEF StepOf, Opens, LooksAtClock, Rereads, Decides, SameRows, Creates, Counts, Flags, Closes,
     Pays, OtherRows

\* Who writes a session's row knows its status.
LEMMA WriterKnows ==
    ASSUME StagesFit, StatusIsKnown, NEW t \in Caller
    PROVE  /\ Counts(t) \/ Closes(t) => Uses(t) /\ Watched(t).status \in V!Open
           /\ Flags(t) => \/ Uses(t) /\ Watched(t).status \in V!Open
                          \/ Reviews(t) /\ ~V!PaidByItself(watchJob[t].watch)
           /\ Pays(t) => \/ Uses(t) /\ Watched(t).status = "COMPLETED"
                                /\ award'[watchJob[t].watch].by = "complete"
                         \/ Reviews(t) /\ award'[watchJob[t].watch].by = "approve"
  <1>1. StageFits(t)
    BY DEF StagesFit, StageFits
  <1>2. /\ Uses(t) => IF watchPc[t] \in {"completed", "awarding"}
                      THEN Watched(t).status = "COMPLETED" ELSE Watched(t).status \in V!Open
        /\ Reviews(t) => ~V!PaidByItself(watchJob[t].watch)
    BY DEF StatusIsKnown
  <1> QED
    BY <1>1, <1>2 DEF Counts, Closes, Flags, Pays, StageFits, Uses, Reviews, V!UserCall

LEMMA OrderKept ==
    ASSUME V!TypeOK, Orderly, StagesFit, OrderInv, NEW t \in Caller, StepOf(t)
    PROVE  OrderInv'
  <1>0. OneUser /\ StatusIsKnown /\ PaidIsCredited
    BY DEF OrderInv
  <1>w. /\ \A s \in Caller : watchJob[s].watch \in Session
        /\ \A w \in Session : watch[w] \in V!WatchRow
    BY DEF V!TypeOK
  <1>o. Others(t)
    BY StepOthers
  <1>f. \A s \in Caller : StageFits(s)
    BY DEF StagesFit, StageFits
  \* What a user's call knows, only that call can change.
  <1>u. ASSUME NEW s \in Caller, s # t, Uses(s)
        PROVE  watch'[watchJob[s].watch] = watch[watchJob[s].watch]
    <2> DEFINE w == watchJob[s].watch
    <2>1. watch[w].status \in V!Open \cup {"COMPLETED"}
      BY <1>0, <1>u DEF StatusIsKnown, Watched
    <2>2. ASSUME w = watchJob[t].watch PROVE ~Uses(t) /\ ~Reviews(t)
      BY <2>1, <2>2, <1>0, <1>u DEF OneUser, StatusIsKnown, Watched, V!Open
    <2>3. Counts(t) \/ Flags(t) \/ Closes(t) \/ Pays(t) => Uses(t) \/ Reviews(t)
      BY <1>0, WriterKnows
    <2> QED
      BY <2>1, <2>2, <2>3, <1>w, RowChanges DEF V!Open
  <1>1. OneUser'
    <2> SUFFICES ASSUME NEW s \in Caller, NEW u \in Caller, Uses(s)', Uses(u)',
                        watchJob'[s].watch = watchJob'[u].watch, s # u
                 PROVE  FALSE
      BY DEF OneUser
    <2>1. ASSUME NEW v \in Caller, v # t, Uses(v)', Uses(t)', watchJob'[v].watch = watchJob'[t].watch
          PROVE  FALSE
      <3>1. Uses(v) /\ watchJob'[v] = watchJob[v]
        BY <2>1, <1>o, OthersSame
      <3>2. CASE Opens(t)
        BY <2>1, <3>1, <3>2 DEF Opens, Uses, V!UserCall
      <3>3. CASE ~Opens(t)
        BY <2>1, <3>1, <3>3, <1>0, UserWas DEF OneUser
      <3> QED
        BY <3>2, <3>3
    <2>2. CASE s # t /\ u # t
      BY <2>2, <1>o, <1>0, OthersSame DEF OneUser
    <2> QED
      BY <2>1, <2>2
  <1>2. StatusIsKnown'
    <2> DEFINE Known(s) ==
                 /\ Uses(s) => IF watchPc[s] \in {"completed", "awarding"}
                               THEN Watched(s).status = "COMPLETED"
                               ELSE Watched(s).status \in V!Open
                 /\ Reviews(s) => /\ Watched(s).status \in {"FRAUD_SUSPECT", "CREDITED"}
                                  /\ ~V!PaidByItself(watchJob[s].watch)
    <2>0. \A s \in Caller : Known(s)
      BY <1>0 DEF StatusIsKnown
    <2>1. ASSUME NEW s \in Caller, s # t, Uses(s)' PROVE Known(s)'
      <3>1. /\ Uses(s) /\ watchJob'[s] = watchJob[s] /\ watchPc'[s] = watchPc[s]
            /\ ~Reviews(s)'
        BY <2>1, <1>o, OthersSame DEF Uses, Reviews, V!UserCall
      <3>2. Watched(s)' = Watched(s)
        BY <2>1, <3>1, <1>u DEF Watched
      <3> QED
        BY <3>1, <3>2, <2>0 DEF V!Open
    <2>2. ASSUME NEW s \in Caller, s # t, Reviews(s)' PROVE Known(s)'
      <3> DEFINE w == watchJob[s].watch
      <3>1. /\ Reviews(s) /\ watchJob'[s] = watchJob[s] /\ watchPc'[s] = watchPc[s]
            /\ ~Uses(s)' /\ Watched(s)' = watch'[w]
            /\ V!PaidByItself(w)' = (award'[w].by = "complete")
            /\ V!PaidByItself(watchJob[s].watch)' = (award'[w].by = "complete")
        BY <2>2, <1>o, OthersSame DEF Uses, Reviews, V!UserCall, Watched, V!PaidByItself
      <3>2. watch[w].status \in {"FRAUD_SUSPECT", "CREDITED"} /\ award[w].by # "complete"
        BY <3>1, <2>0 DEF Watched, V!PaidByItself
      <3>3. CASE watch'[w] = watch[w] /\ award'[w].by = award[w].by
        BY <3>1, <3>2, <3>3
      <3>4. CASE w = watchJob[t].watch /\ Flags(t)
        <4>1. watch'[w].status = "FRAUD_SUSPECT" /\ award'[w].by = award[w].by
          BY <3>4, <1>w DEF Flags, V!WatchRow
        <4> QED
          BY <3>1, <3>2, <4>1
      <3>5. CASE w = watchJob[t].watch /\ Pays(t)
        <4>1. watch'[w].status = "CREDITED" /\ award'[w].by = "approve"
          BY <3>2, <3>5, <1>0, <1>w, WriterKnows DEF Pays, V!WatchRow, Watched
        <4> QED
          BY <3>1, <4>1
      <3>6. ~(w = watchJob[t].watch /\ (Counts(t) \/ Closes(t)))
        BY <3>2, <1>0, WriterKnows DEF Watched, V!Open
      <3> QED
        BY <3>2, <3>3, <3>4, <3>5, <3>6, <1>w, RowChanges
    <2>3. Known(t)'
      <3>1. CASE Opens(t)
        <4> DEFINE w == watchJob'[t].watch
        <4>1. w \in Session /\ watch' = watch /\ award'[w].by = award[w].by
          BY <3>1 DEF Opens, SameRows
        <4>2. Uses(t)' => watch[w].status \in V!Open /\ watchPc'[t] \in {"loaded", "assessing"}
          BY <3>1 DEF Opens, Uses, V!UserCall
        <4>3. Reviews(t)' => watch[w].status = "FRAUD_SUSPECT"
          BY <3>1 DEF Opens, Reviews
        <4>4. watch[w].status = "FRAUD_SUSPECT" => award[w].by # "complete"
          BY <4>1, <1>0 DEF PaidIsCredited, V!PaidByItself
        <4> QED
          BY <4>1, <4>2, <4>3, <4>4 DEF Watched, V!PaidByItself, V!Open
      <3>2. ASSUME SameRows, watchJob'[t] = watchJob[t], watchPc[t] # "idle",
                   watchPc'[t] \in {"completed", "awarding"} <=> watchPc[t] \in {"completed", "awarding"}
            PROVE  Known(t)'
        <4>1. /\ Uses(t)' => Uses(t)
              /\ Reviews(t)' => Reviews(t)
              /\ Watched(t)' = Watched(t)
          BY <3>2, KeptIsSame DEF Uses, Reviews, Watched, SameRows
        <4>2. V!PaidByItself(watchJob[t].watch)' = V!PaidByItself(watchJob[t].watch)
          BY <3>2, <1>w DEF V!PaidByItself, SameRows
        <4> QED
          BY <3>2, <4>1, <4>2, <2>0 DEF V!Open
      <3>3. CASE LooksAtClock(t) \/ Rereads(t)
        BY <3>2, <3>3 DEF LooksAtClock, Rereads
      <3>4. CASE Decides(t)
        BY <3>2, <3>4, EndedIsOver DEF Decides, Went, Kept
      <3>5. CASE Counts(t)
        <4>1. CASE Went(t, "beaten")
          <5>1. Uses(t)
            BY <3>5, <1>0, WriterKnows
          <5>2. /\ Watched(t)'.status = "WATCHING" /\ watchPc'[t] = "beaten" /\ ~Reviews(t)'
            BY <3>5, <4>1, <5>1 DEF Counts, Went, Kept, Watched, Uses, Reviews, V!UserCall
          <5> QED
            BY <5>2 DEF V!Open
        <4> QED
          BY <3>5, <4>1, EndedIsOver DEF Counts
      <3>6. CASE Closes(t)
        <4>1. Uses(t)
          BY <3>6, <1>0, WriterKnows
        <4>2. /\ watchJob'[t] = watchJob[t] /\ watchPc'[t] = "completed"
              /\ watch'[watchJob[t].watch].status = "COMPLETED"
          BY <3>6, <1>w DEF Closes, Went, Kept, V!WatchRow
        <4>3. Watched(t)'.status = "COMPLETED" /\ ~Reviews(t)'
          BY <4>1, <4>2 DEF Watched, Uses, Reviews, V!UserCall
        <4> QED
          BY <4>2, <4>3
      <3>7. CASE Creates(t) \/ Flags(t) \/ Pays(t)
        BY <3>7, EndedIsOver DEF Creates, Flags, Pays
      <3> QED
        BY <3>1, <3>3, <3>4, <3>5, <3>6, <3>7 DEF StepOf
    <2>4. ASSUME NEW s \in Caller PROVE Known(s)'
      BY <2>1, <2>2, <2>3
    <2> QED
      BY <2>4 DEF StatusIsKnown
  <1>3. PaidIsCredited'
    <2> SUFFICES ASSUME NEW w \in Session, award'[w].by = "complete"
                 PROVE  watch'[w].status = "CREDITED"
      BY DEF PaidIsCredited, V!PaidByItself
    <2>1. award[w].by = "complete" => watch[w].status = "CREDITED"
      BY <1>0 DEF PaidIsCredited, V!PaidByItself
    <2>2. CASE watch'[w] = watch[w] /\ award'[w].by = award[w].by
      BY <2>1, <2>2
    <2>3. CASE Creates(t) /\ watch[w].status = "none"
      BY <2>1, <2>3 DEF Creates
    <2>4. CASE w = watchJob[t].watch /\ (Counts(t) \/ Flags(t) \/ Closes(t))
      <3>1. award'[w].by = award[w].by
        BY <2>4 DEF Counts, Flags, Closes
      <3> QED
        BY <2>1, <2>4, <3>1, <1>0, WriterKnows DEF Watched, V!Open, V!PaidByItself
    <2>5. CASE w = watchJob[t].watch /\ Pays(t)
      BY <2>5, <1>w DEF Pays, V!WatchRow
    <2> QED
      BY <2>2, <2>3, <2>4, <2>5, RowChanges
  <1> QED
    BY <1>1, <1>2, <1>3 DEF OrderInv

LEMMA ClearedKept ==
    ASSUME V!TypeOK, Orderly, TimeInv, OrderInv, ClearedApart, NEW t \in Caller, StepOf(t)
    PROVE  ClearedApart'
  <1>0. StagesFit /\ OneUser /\ StatusIsKnown /\ PaidIsCredited
    BY DEF OrderInv, TimeInv
  <1>w. /\ \A s \in Caller : watchJob[s].watch \in Session
        /\ \A w \in Session : watch[w] \in V!WatchRow
    BY DEF V!TypeOK
  <1>n. /\ now \in Nat /\ \A s \in Caller : stamp[s] \in Nat /\ stamp[s] <= now
        /\ \A w \in Session : /\ watch[w].end \in Nat /\ watch[w].created \in Nat
                              /\ watch[w].end <= now
    BY TimesAreNat DEF TimeInv, ReadsAreReal, RowsAreReal
  <1>o. Others(t)
    BY StepOthers
  \* A session that is open was open before, or is new.
  <1>1. ASSUME NEW w \in Session, watch'[w].status \in V!Open
        PROVE  \/ watch[w].status \in V!Open /\ watch'[w].created = watch[w].created
               \/ watch[w].status = "none" /\ watch'[w].created = now /\ Creates(t)
    <2>1. CASE watch'[w] = watch[w]
      BY <1>1, <2>1
    <2>2. CASE Creates(t) /\ watch'[w] # watch[w]
      BY <2>2 DEF Creates, OtherRows
    <2>3. CASE w = watchJob[t].watch /\ Counts(t)
      BY <1>0, <2>3, WriterKnows DEF Counts, SameTimes, Watched
    <2>4. ~(w = watchJob[t].watch /\ (Flags(t) \/ Closes(t) \/ Pays(t)))
      BY <1>1, <1>w DEF Flags, Closes, Pays, V!WatchRow, V!Open
    <2> QED
      BY <2>1, <2>2, <2>3, <2>4, RowChanges
  \* One that is cleared was cleared before, or this call closes it.
  <1>2. ASSUME NEW v \in Session, Cleared(v)'
        PROVE  \/ /\ Cleared(v) /\ watch[v].status # "none"
                  /\ watch'[v].end = watch[v].end /\ watch'[v].created = watch[v].created
               \/ /\ Closes(t) /\ v = watchJob[t].watch /\ watch[v].status \in V!Open
                  /\ watch'[v].end = stamp[t] /\ watch'[v].created = watch[v].created
    <2>0. /\ watch'[v].status = "COMPLETED" \/ award'[v].by = "complete"
          /\ Cleared(v) <=> watch[v].status = "COMPLETED" \/ award[v].by = "complete"
          /\ award[v].by = "complete" => watch[v].status = "CREDITED"
      BY <1>2, <1>0 DEF Cleared, PaidIsCredited, V!PaidByItself
    <2>1. CASE watch'[v] = watch[v] /\ award'[v].by = award[v].by
      BY <2>0, <2>1
    <2>2. CASE Creates(t) /\ watch[v].status = "none"
      <3>1. award' = award /\ (watch'[v] = watch[v] \/ watch'[v].status = "STARTED")
        BY <2>2 DEF Creates, OtherRows
      <3> QED
        BY <2>0, <2>2, <3>1
    <2>3. CASE v = watchJob[t].watch /\ (Counts(t) \/ Flags(t))
      <3>1. award' = award /\ watch'[v].status \in {"WATCHING", "FRAUD_SUSPECT"}
        BY <2>3, <1>w DEF Counts, Flags, V!WatchRow
      <3>2. watch'[v].end = watch[v].end /\ watch'[v].created = watch[v].created
        BY <2>3, <1>w DEF Counts, SameTimes, Flags, V!WatchRow
      <3> QED
        BY <2>0, <3>1, <3>2
    <2>4. CASE v = watchJob[t].watch /\ Closes(t)
      <3>1. watch[v].status \in V!Open
        BY <1>0, <2>4, WriterKnows DEF Watched
      <3>2. watch'[v].end = stamp[t] /\ watch'[v].created = watch[v].created
        BY <2>4, <1>w DEF Closes, V!WatchRow
      <3> QED
        BY <2>4, <3>1, <3>2
    <2>5. CASE v = watchJob[t].watch /\ Pays(t)
      <3>1. /\ watch'[v].end = watch[v].end /\ watch'[v].created = watch[v].created
            /\ watch'[v].status = "CREDITED"
        BY <2>5, <1>w DEF Pays, V!WatchRow
      <3>2. watch[v].status = "COMPLETED" \/ award'[v].by = "approve"
        BY <1>0, <2>5, WriterKnows DEF Watched
      <3> QED
        BY <2>0, <3>1, <3>2
    <2> QED
      BY <2>1, <2>2, <2>3, <2>4, <2>5, RowChanges
  <1>3. ASSUME NEW s \in Caller, NEW w \in Session, watchPc'[s] = "passed",
               watchJob'[s].watch # w, watch'[w].status \in V!Open
        PROVE  stamp'[s] <= watch'[w].created
    <2>1. CASE s # t
      <3>1. watchPc[s] = "passed" /\ watchJob[s].watch # w /\ stamp'[s] = stamp[s]
        BY <1>3, <1>o, <2>1, OthersSame
      <3>2. CASE watch[w].status \in V!Open /\ watch'[w].created = watch[w].created
        BY <3>1, <3>2 DEF ClearedApart
      <3>3. CASE watch'[w].created = now
        BY <3>1, <3>3, <1>n
      <3> QED
        BY <1>1, <1>3, <3>2, <3>3
    <2>2. CASE s = t
      <3>1. Decides(t)
        BY <1>3, <2>2, EndedIsOver
        DEF StepOf, Opens, LooksAtClock, Rereads, Creates, Counts, Flags, Closes, Pays, Went
      <3>2. /\ watch' = watch /\ watchJob'[t] = watchJob[t]
            /\ \A v \in Session : v # watchJob[t].watch => watch[v].status \notin V!Open
        BY <1>3, <2>2, <3>1, EndedIsOver DEF Decides, Went, Kept, SameRows
      <3> QED
        BY <1>3, <2>2, <3>2
    <2> QED
      BY <2>1, <2>2
  <1>4. ASSUME NEW v \in Session, NEW w \in Session, v # w, Cleared(v)',
               watch'[w].status \in V!Open
        PROVE  watch'[v].end <= watch'[w].created
    <2>1. CASE /\ Closes(t) /\ v = watchJob[t].watch /\ watch'[v].end = stamp[t]
               /\ watch[w].status \in V!Open /\ watch'[w].created = watch[w].created
      BY <1>4, <2>1 DEF Closes, ClearedApart
    <2>2. CASE /\ Cleared(v) /\ watch'[v].end = watch[v].end
               /\ watch[w].status \in V!Open /\ watch'[w].created = watch[w].created
      BY <1>4, <2>2 DEF ClearedApart
    <2>3. CASE watch'[v].end = watch[v].end /\ watch'[w].created = now
      BY <2>3, <1>n
    <2>4. ~(Closes(t) /\ Creates(t))
      BY DEF Closes, Creates
    <2> QED
      BY <1>1, <1>2, <1>4, <2>1, <2>2, <2>3, <2>4
  <1>5. ASSUME NEW v \in Session, NEW w \in Session, v # w, Cleared(v)', Cleared(w)'
        PROVE  watch'[v].end <= watch'[w].created \/ watch'[w].end <= watch'[v].created
    <2>1. /\ watch'[v].created = watch[v].created /\ watch'[w].created = watch[w].created
          /\ \/ Cleared(v) /\ watch'[v].end = watch[v].end
             \/ v = watchJob[t].watch /\ watch[v].status \in V!Open
          /\ \/ Cleared(w) /\ watch'[w].end = watch[w].end
             \/ w = watchJob[t].watch /\ watch[w].status \in V!Open
      BY <1>2, <1>5
    <2> QED
      BY <1>5, <2>1 DEF ClearedApart
  <1> QED
    BY <1>3, <1>4, <1>5 DEF ClearedApart, V!Open

\* The clock does not change what the calls and the rows say of each other.
LEMMA ClockKeepsOrder ==
    ASSUME V!TypeOK, ClockTicks \/ UNCHANGED watchVars, OrderInv, ClearedApart
    PROVE  OrderInv' /\ ClearedApart'
  <1>1. /\ watch' = watch /\ UNCHANGED <<watchPc, watchJob, stamp>>
        /\ \A w \in Session : V!PaidByItself(w)' = V!PaidByItself(w)
    BY DEF ClockTicks, SameRows, watchVars, V!PaidByItself
  <1>w. OrderInv'
    <2>1. ASSUME NEW s \in Caller
          PROVE  /\ Uses(s)' <=> Uses(s)
                 /\ Reviews(s)' <=> Reviews(s)
                 /\ Watched(s)' = Watched(s)
      BY <1>1 DEF Uses, Reviews, V!UserCall, Watched
    <2>2. \A s \in Caller : Reviews(s) => ~V!PaidByItself(watchJob[s].watch)'
      <3>1. \A s \in Caller : watchJob[s].watch \in Session
        BY DEF V!TypeOK
      <3> QED
        BY <1>1, <3>1 DEF OrderInv, StatusIsKnown
    <2> QED
      BY <1>1, <2>1, <2>2 DEF OrderInv, OneUser, StatusIsKnown, PaidIsCredited, V!Open
  <1>2. ClearedApart'
    BY <1>1 DEF ClearedApart, Cleared, V!Open
  <1> QED
    BY <1>w, <1>2

LEMMA LateKept ==
    ASSUME V!TypeOK, StagesFit, LateAreNoted, V!NoteLate, ClockTicks \/ \E t \in Caller : StepOf(t)
    PROVE  LateAreNoted'
  <1> SUFFICES ASSUME NEW s \in Caller, Uses(s)', Watched(s)'.status = "FRAUD_SUSPECT"
               PROVE  s \in late'
    BY DEF LateAreNoted
  <1> DEFINE w == watchJob'[s].watch
  <1>1. /\ watchPc'[s] # "idle" /\ watch'[w].status = "FRAUD_SUSPECT"
        /\ V!NoteLate => (s \in late' <=> s \in late \/ watch[w].status # "FRAUD_SUSPECT")
    BY DEF Uses, Watched, V!NoteLate, V!BecomesSuspect
  <1>2. CASE watch[w].status # "FRAUD_SUSPECT"
    BY <1>1, <1>2
  <1>3. CASE watch[w].status = "FRAUD_SUSPECT" /\ Uses(s) /\ watchJob'[s].watch = watchJob[s].watch
    BY <1>1, <1>3 DEF LateAreNoted, Watched
  <1>4. ASSUME watch[w].status = "FRAUD_SUSPECT" PROVE Uses(s) /\ watchJob'[s].watch = watchJob[s].watch
    <2>1. CASE ClockTicks
      BY <2>1 DEF ClockTicks, Uses, V!UserCall
    <2>2. ASSUME NEW t \in Caller, StepOf(t), s # t
          PROVE  Uses(s) /\ watchJob'[s].watch = watchJob[s].watch
      BY <2>2, StepOthers, OthersSame
    <2>3. CASE StepOf(s) /\ ~Opens(s)
      BY <2>3, UserWas
    <2>4. ~Opens(s)
      <3> SUFFICES ASSUME Opens(s) PROVE FALSE
        OBVIOUS
      <3>1. watchJob'[s].op \in {"heartbeat", "complete", "finish"}
        BY DEF Uses, V!UserCall
      <3>2. watch[w].status \in V!Open
        BY <3>1 DEF Opens
      <3> QED
        BY <1>4, <3>2 DEF V!Open
    <2> QED
      BY <2>1, <2>2, <2>3, <2>4
  <1> QED
    BY <1>2, <1>3, <1>4

LEMMA FraudStays ==
    ASSUME V!TypeOK, StagesFit, LateAreNoted, NEW t \in Caller, StepOf(t)
    PROVE  V!FraudNeverSelfResolves
  <1> SUFFICES ASSUME NEW w \in Session, watch[w].status = "FRAUD_SUSPECT",
                      watch'[w].status # "FRAUD_SUSPECT"
               PROVE  /\ watchJob[t].watch = w /\ watchPc'[t] # watchPc[t]
                      /\ t \in late \/ (watchPc[t] = "awarding" /\ watchJob[t].op = "approve")
    BY DEF V!FraudNeverSelfResolves
  <1>1. w = watchJob[t].watch /\ ~Flags(t) /\ (Counts(t) \/ Closes(t) \/ Pays(t))
    <2>1. ~(w = watchJob[t].watch /\ Flags(t))
      BY DEF Flags, V!TypeOK, V!WatchRow
    <2> QED
      BY <2>1, RowChanges
  <1>2. watchPc'[t] # watchPc[t]
    BY <1>1 DEF Counts, Closes, Pays, Ended, Went
  <1>3. StageFits(t)
    BY DEF StagesFit, StageFits
  <1>4. \/ Uses(t)
        \/ watchPc[t] = "awarding" /\ watchJob[t].op = "approve"
    BY <1>1, <1>3 DEF StageFits, Counts, Closes, Pays, Uses
  <1>5. Uses(t) => t \in late
    BY <1>1 DEF LateAreNoted, Watched
  <1> QED
    BY <1>1, <1>2, <1>4, <1>5

LEMMA CreditKept ==
    ASSUME V!TypeOK, V!CreditedHasAward, NEW t \in Caller, StepOf(t)
    PROVE  V!CreditedHasAward'
  <1> SUFFICES ASSUME NEW w \in Session, watch'[w].status = "CREDITED"
               PROVE  award'[w].status # "none"
    BY DEF V!CreditedHasAward
  <1>w. watch[w] \in V!WatchRow
    BY DEF V!TypeOK
  <1>0. watch[w].status = "CREDITED" => award[w].status # "none"
    BY DEF V!CreditedHasAward
  <1>1. CASE Opens(t) \/ LooksAtClock(t) \/ Rereads(t) \/ Decides(t)
    BY <1>0, <1>1 DEF Opens, LooksAtClock, Rereads, Decides, SameRows
  <1>2. CASE Creates(t)
    BY <1>0, <1>2 DEF Creates, OtherRows
  <1>3. CASE Counts(t)
    BY <1>0, <1>3 DEF Counts, OtherRows
  <1>4. CASE Flags(t)
    BY <1>0, <1>4, <1>w DEF Flags, OtherRows, V!WatchRow
  <1>5. CASE Closes(t)
    <2>1. CASE w = watchJob[t].watch
      <3>1. watch'[w] = [watch[w] EXCEPT !.status = "COMPLETED", !.end = stamp[t],
                                         !.seconds = read[t].seconds]
        BY <1>5, <2>1 DEF Closes
      <3> QED
        BY <3>1, <1>w DEF V!WatchRow
    <2>2. CASE w # watchJob[t].watch
      BY <1>0, <1>5, <2>2 DEF Closes, OtherRows
    <2> QED
      BY <2>1, <2>2
  <1>6. CASE Pays(t)
    BY <1>0, <1>6 DEF Pays, OtherRows
  <1> QED
    BY <1>1, <1>2, <1>3, <1>4, <1>5, <1>6 DEF StepOf

-----------------------------------------------------------------------------
(* Watching: the theorems *)

WatchInv == V!TypeOK /\ TimeInv /\ LateAreNoted /\ V!CreditedHasAward

OrderlyInv == Orderly => OrderInv /\ ClearedApart

LEMMA WatchHolds == MCSpec => [](WatchInv /\ OrderlyInv)
  <1>1. MCInit => WatchInv /\ OrderlyInv
    BY WatchInit DEF MCInit, WatchInv, OrderlyInv
  <1>2. WatchInv /\ OrderlyInv /\ [MCNext]_<<part, vars, watchVars>> => (WatchInv /\ OrderlyInv)'
    <2> SUFFICES ASSUME WatchInv, OrderlyInv, [MCNext]_<<part, vars, watchVars>>
                 PROVE  (WatchInv /\ OrderlyInv)'
      OBVIOUS
    <2> USE DEF WatchInv, OrderlyInv
    <2>1. CASE V!Next /\ ~UNCHANGED watchVars
      <3>1. V!TypeOK' /\ TimeInv'
        BY <2>1, WatchTypes, TimeKept
      <3>l. LateAreNoted'
        BY <2>1, WatchNextShape, LateKept DEF TimeInv
      <3>2. CASE ClockTicks
        <4>1. V!CreditedHasAward'
          BY <3>2 DEF ClockTicks, SameRows, V!CreditedHasAward
        <4> QED
          BY <3>1, <3>l, <3>2, <4>1, ClockKeepsOrder
      <3>3. CASE \E t \in Caller : StepOf(t)
        BY <3>1, <3>l, <3>3, CreditKept, OrderKept, ClearedKept DEF TimeInv
      <3> QED
        BY <2>1, <3>2, <3>3, WatchNextShape
    <2>2. CASE UNCHANGED watchVars
      <3>1. V!TypeOK'
        BY <2>2 DEF watchVars, V!TypeOK
      <3>2. TimeInv'
        BY <2>2, TimeKept DEF watchVars, V!vars
      <3>3. V!CreditedHasAward'
        BY <2>2 DEF watchVars, V!CreditedHasAward
      <3>4. LateAreNoted'
        BY <2>2 DEF watchVars, LateAreNoted, Uses, V!UserCall, Watched
      <3> QED
        BY <2>2, <3>1, <3>2, <3>3, <3>4, ClockKeepsOrder
    <2> QED
      BY <2>1, <2>2 DEF MCNext
  <1> QED
    BY <1>1, <1>2, PTL DEF MCSpec

\* A completion that is about to award closed with seconds that pass both gates.
LEMMA GatesAreReal ==
    ASSUME V!TypeOK, TimeInv
    PROVE  V!GatesNeedRealTime
  <1> SUFFICES ASSUME NEW t \in Caller, watchPc[t] = "awarding", watchJob[t].op # "approve"
               PROVE  \E n \in 0..Duration + MinWatchSeconds :
                         /\ V!PassesGates(n)
                         /\ TicksPerSecond * n <= 2 * (stamp[t] - Watched(t).start)
    BY DEF V!GatesNeedRealTime, Watched
  <1>0. Duration \in Nat /\ MinWatchSeconds \in Nat /\ TicksPerSecond \in Nat
    BY WatchAssumption DEF V!VideoWatchAssumption
  <1>1. Uses(t)
    BY DEF TimeInv, StagesFit, Uses
  <1>2. /\ V!PassesGates(read[t].seconds) /\ Within(read[t], stamp[t])
        /\ read[t].start = Watched(t).start
    BY <1>1 DEF TimeInv, ReadsAreReal
  <1>n. /\ read[t].seconds \in Nat /\ stamp[t] \in Nat /\ read[t].start \in Nat
    BY TimesAreNat
  <1> DEFINE share == (6 * Duration + 9) \div 10
  <1>3. share \in Nat /\ share <= Duration
    BY <1>0
  <1>4. read[t].seconds >= MinWatchSeconds /\ read[t].seconds >= share
    BY <1>2 DEF V!PassesGates
  <1>5. \A n \in Nat : V!PassesGates(n) <=> n >= MinWatchSeconds /\ n >= share
    BY DEF V!PassesGates
  <1> HIDE DEF share
  <1> DEFINE n == IF share >= MinWatchSeconds THEN share ELSE MinWatchSeconds
  <1>6. /\ n \in Nat /\ n <= Duration + MinWatchSeconds /\ n <= read[t].seconds
        /\ n >= MinWatchSeconds /\ n >= share
    BY <1>0, <1>3, <1>4, <1>n
  <1> HIDE DEF n
  <1>7. n \in 0..Duration + MinWatchSeconds /\ V!PassesGates(n)
    BY <1>0, <1>5, <1>6
  <1>8. TicksPerSecond * n <= TicksPerSecond * read[t].seconds
    BY <1>0, <1>6, <1>n
  <1>9. TicksPerSecond * n <= 2 * (stamp[t] - Watched(t).start)
    <2>1. TicksPerSecond * n \in Nat /\ TicksPerSecond * read[t].seconds \in Nat
      BY <1>0, <1>6, <1>n
    <2> QED
      BY <2>1, <1>2, <1>8, <1>n DEF Within
  <1> QED
    BY <1>7, <1>9

\* However heartbeats, completions and reviews of one session overlap, and whatever is
\* stale of what they write back: no more than twice the time since its start is verified,
\* no award is made by a completion without half the time its gates ask for, and CREDITED
\* means that there is an award.
THEOREM WatchIsSound == MCSpec => []VerifiedAndPaid
  <1>1. WatchInv => VerifiedAndPaid
    BY GatesAreReal
    DEF WatchInv, TimeInv, RowsAreReal, Within, VerifiedAndPaid, V!SecondsAreReal,
        V!VerifiedAtMostDoubled, V!Rows
  <1> QED
    BY <1>1, WatchHolds, PTL

\* Of two sessions that were open at the same time, at most one is paid without a reviewer,
\* for any number of sessions and calls, if clients send one request per session at a time
\* and reviewers decide on suspects.
THEOREM OverlapIsPaidOnce == MCSpec => []OnePaidOfTwo
  <1>1. OrderlyInv => OnePaidOfTwo
    BY DEF OrderlyInv, ClearedApart, Cleared, OnePaidOfTwo, V!OverlapPaidOnce, V!Rows
  <1> QED
    BY <1>1, WatchHolds, PTL

\* However requests and reviews overlap, a session leaves FRAUD_SUSPECT by the award of an
\* approval, or by a call that was at work on it when it became suspect: no request that
\* comes later resolves it (loadOwnedOpenWatch, points-extension.md 8.5).
THEOREM SuspicionStands == MCSpec => SuspectsStay
  <1>1. WatchInv /\ [MCNext]_<<part, vars, watchVars>> => [V!FraudNeverSelfResolves]_watchVars
    <2> SUFFICES ASSUME WatchInv, [MCNext]_<<part, vars, watchVars>>, ~UNCHANGED watchVars
                 PROVE  V!FraudNeverSelfResolves
      OBVIOUS
    <2>1. V!Next
      BY DEF MCNext
    <2>2. CASE ClockTicks
      BY <2>2 DEF ClockTicks, SameRows, V!FraudNeverSelfResolves
    <2>3. CASE \E t \in Caller : StepOf(t)
      BY <2>3, FraudStays DEF WatchInv, TimeInv
    <2> QED
      BY <2>1, <2>2, <2>3, WatchNextShape DEF WatchInv
  <1> QED
    BY <1>1, WatchHolds, PTL DEF MCSpec, SuspectsStay

=============================================================================
