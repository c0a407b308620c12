-------------------------- MODULE RateLimiterProofs --------------------------
(***************************************************************************)
(* For any number of tenants and requests and any rate, burst and          *)
(* rounding: no wake-up is lost or comes at the wrong time, no tenant is   *)
(* overtaken twice by another, and the limiter keeps the provider's limit. *)
(***************************************************************************)
EXTENDS RateLimiter, TLAPS

-----------------------------------------------------------------------------
(* What is true between the steps *)

\* A request waits once, or its call runs, or neither.
WaitsOnce ==
    /\ \A t, u \in Tenant : \A i \in DOMAIN queue[t], j \in DOMAIN queue[u] :
          queue[t][i] = queue[u][j] => t = u /\ i = j
    /\ \A t \in Tenant : \A i \in DOMAIN queue[t] : queue[t][i] \notin granted

\* Every tenant that waits has one place in the order.
HasTurn ==
    /\ \A t \in Tenant : queue[t] # <<>> => InOrder(t)
    /\ \A i, j \in DOMAIN tenantOrder : tenantOrder[i] = tenantOrder[j] => i = j

\* The tenants the loop has passed over are the last in the order, with nobody waiting.
ScannedAreEmpty ==
    scanned # NotPumping =>
        \A i \in DOMAIN tenantOrder : i > Len(tenantOrder) - scanned => queue[tenantOrder[i]] = <<>>

\* Who was served while t waits comes after t in the order.
PassedAreBehind ==
    \A t \in Tenant :
        /\ queue[t] = <<>> => passed[t] = {}
        /\ \A u \in passed[t] : \A i, j \in DOMAIN tenantOrder :
              tenantOrder[i] = t /\ tenantOrder[j] = u => i < j

IInv == /\ TypeOK /\ WaitersAreDrained /\ TimerIsExact
        /\ WaitsOnce /\ HasTurn /\ ScannedAreEmpty /\ PassedAreBehind

-----------------------------------------------------------------------------
(* Arithmetic *)

LEMMA Distributes ==
    ASSUME NEW a \in Int, NEW r \in Int
    PROVE  a * r \in Int /\ (a + 1) * r = a * r + r
  OBVIOUS

LEMMA Grows ==
    ASSUME NEW a \in Int, NEW b \in Int, NEW r \in Nat, a <= b
    PROVE  a * r <= b * r
  OBVIOUS

LEMMA GrowsBack ==
    ASSUME NEW a \in Int, NEW b \in Int, NEW r \in Nat, r > 0, a * r < b * r
    PROVE  a < b
  OBVIOUS

LEMMA ProductIsNat ==
    ASSUME NEW a \in Nat, NEW r \in Nat
    PROVE  a * r \in Nat
  OBVIOUS

\* CeilDiv(a, b) is the least number of steps of b that reach a.
LEMMA CeilDivBounds ==
    ASSUME NEW a \in Nat, NEW b \in Nat, b > 0
    PROVE  /\ CeilDiv(a, b) \in Nat
           /\ CeilDiv(a, b) * b >= a
           /\ a > 0 => CeilDiv(a, b) > 0 /\ (CeilDiv(a, b) - 1) * b < a
  <1> DEFINE q == (a + b - 1) \div b
  <1>1. a + b - 1 \in Nat
    OBVIOUS
  <1>2. q \in Nat /\ q * b <= a + b - 1 /\ a + b - 1 < q * b + b
    BY <1>1
  <1>3. (q - 1) * b = q * b - b
    BY <1>2
  <1>4. q = 0 => q * b = 0
    OBVIOUS
  <1> HIDE DEF q
  <1>5. q * b \in Int
    BY <1>2
  <1> QED
    BY <1>2, <1>3, <1>4, <1>5 DEF CeilDiv, q

LEMMA CeilDivMonotone ==
    ASSUME NEW a \in Nat, NEW c \in Nat, NEW b \in Nat, b > 0, a > 0, a <= c
    PROVE  CeilDiv(a, b) <= CeilDiv(c, b)
  <1> DEFINE p == CeilDiv(a, b)
             q == CeilDiv(c, b)
  <1>1. p \in Nat /\ (p - 1) * b < a /\ q \in Nat /\ q * b >= c
    BY CeilDivBounds
  <1> HIDE DEF p, q
  <1>2. (p - 1) * b \in Int /\ q * b \in Int /\ p - 1 \in Int
    BY <1>1
  <1>3. (p - 1) * b < q * b
    BY <1>1, <1>2
  <1>4. p - 1 < q
    BY <1>1, <1>2, <1>3, GrowsBack
  <1> QED
    BY <1>1, <1>4 DEF p, q

LEMMA Sizes ==
    /\ Unit \in Nat /\ Unit > 0 /\ Refill \in Nat /\ Refill > 0
    /\ Full \in Nat /\ Full >= Unit
    /\ TimeToFill \in Nat /\ TimeToFill * Refill >= Full
  <1>1. Unit \in Nat /\ Unit > 0 /\ Refill \in Nat /\ Refill > 0 /\ Burst \in Nat /\ Burst > 0
    BY LimiterAssumption
  <1>2. Full \in Nat /\ Full >= Unit
    <2>1. 1 * Unit <= Burst * Unit
      BY <1>1, Grows
    <2> QED
      BY <1>1, <2>1 DEF Full
  <1> QED
    BY <1>1, <1>2, CeilDivBounds DEF TimeToFill

\* The level is the tokens with what has come since, and never more than full.
LEMMA LevelType ==
    ASSUME TypeOK
    PROVE  /\ tokens \in Nat /\ tokens <= Full
           /\ idle \in Nat /\ idle <= TimeToFill /\ idle * Refill \in Nat
           /\ Level \in Nat /\ Level <= Full
           /\ Level = Full \/ Level = tokens + idle * Refill
           /\ Level <= tokens + idle * Refill
  <1>1. tokens \in Nat /\ tokens <= Full /\ idle \in Nat /\ idle <= TimeToFill
    BY Sizes DEF TypeOK
  <1>2. idle * Refill \in Nat
    BY <1>1, Sizes, ProductIsNat
  <1> QED
    BY <1>1, <1>2, Sizes DEF Level

\* A millisecond adds its refill to the level, until the bucket is full.
LEMMA LevelOfTick ==
    ASSUME TypeOK, Tick
    PROVE  Level' = IF Level + Refill < Full THEN Level + Refill ELSE Full
  <1> DEFINE p == idle * Refill
  <1>1. /\ tokens \in Nat /\ idle \in Nat /\ p \in Nat /\ Full \in Nat /\ Refill \in Nat
        /\ TimeToFill \in Nat /\ TimeToFill * Refill >= Full
    BY LevelType, Sizes
  <1>2. tokens' = tokens
    BY DEF Tick
  <1>3. CASE idle < TimeToFill
    <2>1. idle' = idle + 1
      BY <1>3 DEF Tick
    <2>2. idle' * Refill = p + Refill
      BY <1>1, <2>1, Distributes
    <2> HIDE DEF p
    <2>3. Level' = IF tokens + (p + Refill) < Full THEN tokens + (p + Refill) ELSE Full
      BY <1>2, <2>2 DEF Level, Full
    <2>4. Level = IF tokens + p < Full THEN tokens + p ELSE Full
      BY DEF Level, p
    <2> QED
      BY <1>1, <2>3, <2>4
  <1>4. CASE ~ (idle < TimeToFill)
    <2>1. idle = TimeToFill /\ idle' = idle
      BY <1>4, LevelType, Sizes DEF Tick
    <2>2. p >= Full
      BY <1>1, <2>1
    <2>3. Level' = Level
      BY <1>2, <2>1 DEF Level, Full
    <2> HIDE DEF p
    <2>4. Level = Full
      BY <1>1, <2>2 DEF Level, p
    <2> QED
      BY <1>1, <2>3, <2>4
  <1> QED
    BY <1>3, <1>4

\* A look that leaves n units behind, and starts to count again, sees n.
LEMMA LevelOfLook ==
    ASSUME NEW n \in Nat, n <= Full, tokens' = n, idle' = 0
    PROVE  Level' = n
  <1>1. idle' * Refill = 0
    BY Sizes
  <1> QED
    BY <1>1, Sizes DEF Level, Full

-----------------------------------------------------------------------------
(* The order of tenants *)

LEMMA RotatedPlaces ==
    ASSUME tenantOrder \in Seq(Tenant), Len(tenantOrder) > 0
    PROVE  LET n == Len(tenantOrder) IN
           /\ n \in Nat /\ Head(tenantOrder) = tenantOrder[1] /\ Head(tenantOrder) \in Tenant
           /\ Rotated \in Seq(Tenant) /\ Len(Rotated) = n
           /\ DOMAIN Rotated = 1..n /\ DOMAIN tenantOrder = 1..n
           /\ \A i \in 1..n : Rotated[i] = IF i = n THEN tenantOrder[1] ELSE tenantOrder[i + 1]
  <1> DEFINE n == Len(tenantOrder)
             rest == Tail(tenantOrder)
             h == Head(tenantOrder)
  <1>1. /\ n \in Nat /\ h = tenantOrder[1] /\ h \in Tenant
        /\ rest \in Seq(Tenant) /\ Len(rest) = n - 1
        /\ \A i \in 1..(n - 1) : rest[i] = tenantOrder[i + 1]
        /\ DOMAIN tenantOrder = 1..n
    OBVIOUS
  <1>2. Rotated = Append(rest, h)
    BY DEF Rotated
  <1> HIDE DEF rest, h
  <1>3. /\ Append(rest, h) \in Seq(Tenant) /\ Len(Append(rest, h)) = Len(rest) + 1
        /\ DOMAIN Append(rest, h) = 1..(Len(rest) + 1)
        /\ \A i \in 1..(Len(rest) + 1) :
              Append(rest, h)[i] = IF i = Len(rest) + 1 THEN h ELSE rest[i]
    BY <1>1
  <1>4. ASSUME NEW i \in 1..n
        PROVE  Rotated[i] = IF i = n THEN tenantOrder[1] ELSE tenantOrder[i + 1]
    BY <1>1, <1>2, <1>3
  <1> QED
    BY <1>1, <1>2, <1>3, <1>4 DEF h

\* Rotation keeps the tenants, one place each.
LEMMA RotationKeeps ==
    ASSUME tenantOrder \in Seq(Tenant), Len(tenantOrder) > 0, tenantOrder' = Rotated,
           \A i, j \in DOMAIN tenantOrder : tenantOrder[i] = tenantOrder[j] => i = j
    PROVE  /\ \A t \in Tenant : InOrder(t) => InOrder(t)'
           /\ \A i, j \in DOMAIN tenantOrder' : tenantOrder'[i] = tenantOrder'[j] => i = j
  <1> DEFINE n == Len(tenantOrder)
  <1>1. /\ n \in Nat /\ DOMAIN tenantOrder = 1..n /\ DOMAIN tenantOrder' = 1..n
        /\ \A i \in 1..n : tenantOrder'[i] = IF i = n THEN tenantOrder[1] ELSE tenantOrder[i + 1]
    BY RotatedPlaces
  <1> HIDE DEF n
  <1>2. ASSUME NEW t \in Tenant, NEW i \in 1..n, tenantOrder[i] = t
        PROVE  \E j \in 1..n : tenantOrder'[j] = t
    <2>1. CASE i = 1
      <3>1. n \in 1..n /\ tenantOrder'[n] = t
        BY <1>1, <1>2, <2>1
      <3> QED
        BY <3>1
    <2>2. CASE i # 1
      <3>1. i - 1 \in 1..n /\ i - 1 # n /\ (i - 1) + 1 = i
        BY <1>1, <2>2
      <3>2. tenantOrder'[i - 1] = t
        BY <1>1, <1>2, <3>1
      <3> QED
        BY <3>1, <3>2
    <2> QED
      BY <2>1, <2>2
  <1>3. ASSUME NEW i \in 1..n, NEW j \in 1..n, tenantOrder'[i] = tenantOrder'[j]
        PROVE  i = j
    BY <1>1, <1>3
  <1> QED
    BY <1>1, <1>2, <1>3 DEF InOrder

-----------------------------------------------------------------------------
(* The queues *)

LEMMA QueueType ==
    ASSUME TypeOK, NEW t \in Tenant
    PROVE  /\ queue[t] \in Seq(Request) /\ Len(queue[t]) \in Nat
           /\ DOMAIN queue[t] = 1..Len(queue[t])
           /\ \A i \in DOMAIN queue[t] : queue[t][i] \in Request /\ queue[t][i] \in Waiting
           /\ queue[t] # <<>> => 1 \in DOMAIN queue[t] /\ Waiting # {}
  <1>1. queue[t] \in Seq(Request)
    BY DEF TypeOK
  <1>2. /\ Len(queue[t]) \in Nat /\ DOMAIN queue[t] = 1..Len(queue[t])
        /\ \A i \in DOMAIN queue[t] : queue[t][i] \in Request
        /\ queue[t] # <<>> => 1 \in DOMAIN queue[t]
    BY <1>1
  <1>3. \A i \in DOMAIN queue[t] : queue[t][i] \in Waiting
    BY <1>2 DEF Waiting
  <1> QED
    BY <1>1, <1>2, <1>3

\* Somebody waits exactly when some queue is not empty.
LEMMA SomeoneWaits ==
    ASSUME TypeOK
    PROVE  Waiting # {} <=> \E t \in Tenant : queue[t] # <<>>
  <1>1. ASSUME NEW r \in Waiting
        PROVE  \E t \in Tenant : queue[t] # <<>>
    <2>1. PICK t \in Tenant : \E i \in DOMAIN queue[t] : queue[t][i] = r
      BY DEF Waiting
    <2> QED
      BY <2>1
  <1> QED
    BY <1>1, QueueType

\* The first of a queue leaves it.
LEMMA Dequeued ==
    ASSUME TypeOK, NEW t \in Tenant, queue[t] # <<>>,
           queue' = [queue EXCEPT ![t] = Tail(queue[t])]
    PROVE  /\ queue' \in [Tenant -> Seq(Request)]
           /\ \A u \in Tenant \ {t} : queue'[u] = queue[u]
           /\ Head(queue[t]) = queue[t][1] /\ Head(queue[t]) \in Request
           /\ DOMAIN queue'[t] = 1..(Len(queue[t]) - 1)
           /\ Len(queue'[t]) = Len(queue[t]) - 1
           /\ \A i \in DOMAIN queue'[t] : i + 1 \in DOMAIN queue[t] /\ queue'[t][i] = queue[t][i + 1]
  <1> DEFINE q == queue[t]
             rest == Tail(q)
  <1>1. /\ q \in Seq(Request) /\ q # <<>>
        /\ queue \in [Tenant -> Seq(Request)]
    BY DEF TypeOK
  <1>2. queue'[t] = rest /\ \A u \in Tenant \ {t} : queue'[u] = queue[u]
    BY <1>1
  <1> HIDE DEF q
  <1>3. /\ rest \in Seq(Request) /\ Len(q) \in Nat /\ Len(q) > 0 /\ Len(rest) = Len(q) - 1
        /\ DOMAIN rest = 1..(Len(q) - 1) /\ DOMAIN q = 1..Len(q)
        /\ Head(q) = q[1] /\ Head(q) \in Request
        /\ \A i \in 1..(Len(q) - 1) : rest[i] = q[i + 1]
    BY <1>1
  <1>4. \A i \in 1..(Len(q) - 1) : i + 1 \in 1..Len(q)
    BY <1>3
  <1>5. queue' \in [Tenant -> Seq(Request)]
    BY <1>1, <1>3 DEF q
  <1> HIDE DEF rest
  <1> QED
    BY <1>2, <1>3, <1>4, <1>5 DEF q

\* A request joins a queue at its end.
LEMMA Enqueued ==
    ASSUME TypeOK, NEW t \in Tenant, NEW r \in Request,
           queue' = [queue EXCEPT ![t] = Append(queue[t], r)]
    PROVE  /\ queue' \in [Tenant -> Seq(Request)]
           /\ \A u \in Tenant \ {t} : queue'[u] = queue[u]
           /\ DOMAIN queue'[t] = 1..(Len(queue[t]) + 1) /\ queue'[t] # <<>>
           /\ Len(queue'[t]) = Len(queue[t]) + 1
           /\ queue'[t][Len(queue[t]) + 1] = r
           /\ \A i \in DOMAIN queue[t] : queue'[t][i] = queue[t][i]
  <1> DEFINE q == queue[t]
             longer == Append(q, r)
  <1>1. q \in Seq(Request) /\ queue \in [Tenant -> Seq(Request)]
    BY DEF TypeOK
  <1>2. queue'[t] = longer /\ \A u \in Tenant \ {t} : queue'[u] = queue[u]
    BY <1>1
  <1> HIDE DEF q
  <1>3. /\ longer \in Seq(Request) /\ Len(q) \in Nat /\ Len(longer) = Len(q) + 1
        /\ DOMAIN longer = 1..(Len(q) + 1) /\ DOMAIN q = 1..Len(q)
        /\ longer[Len(q) + 1] = r
        /\ \A i \in 1..Len(q) : longer[i] = q[i]
    BY <1>1
  <1>4. longer # <<>>
    BY <1>3
  <1>5. queue' \in [Tenant -> Seq(Request)]
    BY <1>1, <1>3 DEF q
  <1> HIDE DEF longer
  <1> QED
    BY <1>2, <1>3, <1>4, <1>5 DEF q

-----------------------------------------------------------------------------
(* One lemma for each action *)

LEMMA AcquireStep ==
    ASSUME IInv, NEW r \in Request, NEW t \in Tenant, Acquire(r, t)
    PROVE  IInv'
  <1> USE DEF IInv
  <1>1. /\ scanned = NotPumping /\ r \notin Waiting \cup granted
        /\ queue' = [queue EXCEPT ![t] = Append(queue[t], r)]
        /\ tenantOrder' = IF InOrder(t) THEN tenantOrder ELSE Append(tenantOrder, t)
        /\ draining' = TRUE /\ scanned' = IF draining THEN NotPumping ELSE 0
        /\ UNCHANGED <<tokens, idle, timer, granted, passed>>
    BY DEF Acquire, bucket
  <1>2. /\ queue' \in [Tenant -> Seq(Request)]
        /\ \A u \in Tenant \ {t} : queue'[u] = queue[u]
        /\ DOMAIN queue'[t] = 1..(Len(queue[t]) + 1) /\ queue'[t] # <<>>
        /\ queue'[t][Len(queue[t]) + 1] = r
        /\ \A i \in DOMAIN queue[t] : queue'[t][i] = queue[t][i]
    BY <1>1, Enqueued
  <1> DEFINE n == Len(tenantOrder)
  <1>3. /\ n \in Nat /\ tenantOrder \in Seq(Tenant) /\ DOMAIN tenantOrder = 1..n
        /\ tenantOrder' \in Seq(Tenant) /\ Len(tenantOrder') \in Nat
        /\ DOMAIN tenantOrder' = 1..Len(tenantOrder')
        /\ \A i \in 1..n : tenantOrder'[i] = tenantOrder[i]
        /\ n <= Len(tenantOrder')
        /\ \A i \in DOMAIN tenantOrder' :
              i \in 1..n \/ (i = n + 1 /\ tenantOrder'[i] = t /\ ~ InOrder(t))
        /\ InOrder(t) \/ (n + 1 \in DOMAIN tenantOrder' /\ tenantOrder'[n + 1] = t)
    <2>1. tenantOrder \in Seq(Tenant)
      BY DEF TypeOK
    <2>2. CASE InOrder(t)
      BY <1>1, <2>1, <2>2
    <2>3. CASE ~ InOrder(t)
      <3>1. tenantOrder' = Append(tenantOrder, t)
        BY <1>1, <2>3
      <3> QED
        BY <2>1, <2>3, <3>1
    <2> QED
      BY <2>2, <2>3
  <1> HIDE DEF n
  <1>4. TypeOK'
    BY <1>1, <1>2, <1>3 DEF TypeOK, NotPumping, NoTimer
  <1>5. WaitersAreDrained' /\ TimerIsExact'
    <2>1. draining <=> timer # NoTimer
      BY <1>1 DEF WaitersAreDrained
    <2>2. WaitersAreDrained'
      BY <1>1, <2>1 DEF WaitersAreDrained, NotPumping
    <2> QED
      BY <1>1, <2>2 DEF TimerIsExact
  <1>6. WaitsOnce'
    <2>1. \A u \in Tenant : \A i \in DOMAIN queue[u] : queue[u][i] # r /\ queue[u][i] \notin granted
      BY <1>1, QueueType DEF WaitsOnce
    <2>2. ASSUME NEW u \in Tenant, NEW i \in DOMAIN queue'[u]
          PROVE  \/ i \in DOMAIN queue[u] /\ queue'[u][i] = queue[u][i]
                 \/ u = t /\ i = Len(queue[t]) + 1 /\ queue'[u][i] = r
      <3>1. DOMAIN queue[t] = 1..Len(queue[t]) /\ Len(queue[t]) \in Nat
        BY QueueType
      <3> QED
        BY <1>2, <2>2, <3>1
    <2> QED
      BY <1>1, <2>1, <2>2 DEF WaitsOnce
  <1>7. HasTurn'
    <2>1. \A u \in Tenant : InOrder(u) => InOrder(u)'
      BY <1>3 DEF InOrder
    <2>2. InOrder(t)'
      BY <1>3, <2>1 DEF InOrder
    <2>3. \A u \in Tenant : queue'[u] # <<>> => InOrder(u)'
      BY <1>2, <2>1, <2>2 DEF HasTurn
    <2>4. ASSUME NEW i \in DOMAIN tenantOrder', NEW j \in DOMAIN tenantOrder',
                 tenantOrder'[i] = tenantOrder'[j]
          PROVE  i = j
      BY <1>3, <2>4 DEF HasTurn, InOrder
    <2> QED
      BY <2>3, <2>4 DEF HasTurn
  <1>8. ScannedAreEmpty'
    BY <1>1, <1>3 DEF ScannedAreEmpty
  <1>9. PassedAreBehind'
    <2>1. ASSUME NEW u \in Tenant, queue'[u] = <<>>
          PROVE  passed'[u] = {}
      BY <1>1, <1>2, <2>1 DEF PassedAreBehind
    <2>2. ASSUME NEW u \in Tenant, NEW v \in passed'[u], NEW i \in DOMAIN tenantOrder',
                 NEW j \in DOMAIN tenantOrder', tenantOrder'[i] = u, tenantOrder'[j] = v
          PROVE  i < j
      <3>1. v \in passed[u] /\ queue[u] # <<>>
        BY <1>1, <2>2 DEF PassedAreBehind
      <3>2. InOrder(u)
        BY <3>1 DEF HasTurn
      <3>3. i \in 1..n
        BY <1>3, <2>2, <3>2
      <3>4. CASE j \in 1..n
        BY <1>3, <2>2, <3>1, <3>3, <3>4 DEF PassedAreBehind
      <3>5. CASE j = n + 1
        BY <1>3, <3>3, <3>5
      <3> QED
        BY <1>3, <3>4, <3>5
    <2> QED
      BY <2>1, <2>2 DEF PassedAreBehind
  <1> QED
    BY <1>4, <1>5, <1>6, <1>7, <1>8, <1>9

LEMMA FinishStep ==
    ASSUME IInv, NEW r \in Request, Finish(r)
    PROVE  IInv'
  <1>1. /\ granted' = granted \ {r}
        /\ UNCHANGED <<tokens, idle, queue, tenantOrder, draining, timer, scanned, passed>>
    BY DEF Finish, bucket
  <1>2. TypeOK'
    BY <1>1 DEF IInv, TypeOK
  <1>3. WaitersAreDrained' /\ TimerIsExact' /\ WaitsOnce'
    BY <1>1 DEF IInv, WaitersAreDrained, Waiting, TimerIsExact, WaitsOnce
  <1>4. HasTurn' /\ ScannedAreEmpty' /\ PassedAreBehind'
    BY <1>1 DEF IInv, HasTurn, InOrder, ScannedAreEmpty, PassedAreBehind
  <1> QED
    BY <1>2, <1>3, <1>4 DEF IInv

\* The queues and their order are as they were, and the loop does not run.
LEMMA QueuesStay ==
    ASSUME IInv, UNCHANGED <<queue, tenantOrder, granted, passed>>
    PROVE  WaitsOnce' /\ HasTurn' /\ PassedAreBehind' /\ Waiting' = Waiting
  BY DEF IInv, WaitsOnce, HasTurn, InOrder, PassedAreBehind, Waiting

LEMMA TickStep ==
    ASSUME IInv, Tick
    PROVE  IInv'
  <1> USE DEF IInv
  <1>1. /\ scanned = NotPumping /\ scanned' = NotPumping
        /\ idle' = IF idle < TimeToFill THEN idle + 1 ELSE idle
        /\ timer' = IF timer > 0 THEN timer - 1 ELSE timer
        /\ UNCHANGED <<tokens, queue, tenantOrder, draining, granted, passed>>
    BY DEF Tick
  <1>2. /\ tokens \in Nat /\ idle \in Nat /\ idle <= TimeToFill /\ TimeToFill \in Nat
        /\ idle * Refill \in Nat
    BY LevelType, Sizes
  <1>3. CeilDiv(Unit, Refill) \in Nat
    BY Sizes, CeilDivBounds
  <1>4. timer \in Int /\ (timer = NoTimer \/ timer >= 0) /\ (timer' = NoTimer <=> timer = NoTimer)
        /\ timer' \in {NoTimer} \cup 0..CeilDiv(Unit, Refill)
    BY <1>1, <1>3 DEF TypeOK, NoTimer
  <1>5. TypeOK'
    BY <1>1, <1>2, <1>4 DEF TypeOK
  <1>6. WaitersAreDrained'
    BY <1>1, <1>4, QueuesStay DEF WaitersAreDrained
  <1>7. TimerIsExact'
    <2> SUFFICES ASSUME timer # NoTimer
                 PROVE  /\ tokens + (idle' + timer') * Refill >= Unit
                        /\ timer' > 0 => tokens + (idle' + timer' - 1) * Refill < Unit
      BY <1>1, <1>4 DEF TimerIsExact
    <2>1. /\ tokens + (idle + timer) * Refill >= Unit
          /\ timer > 0 => tokens + (idle + timer - 1) * Refill < Unit
      BY DEF TimerIsExact
    <2>2. CASE timer > 0
      <3>1. idle * Refill <= (idle + timer - 1) * Refill
        BY <1>2, <1>4, <2>2, Sizes, Grows
      <3>2. idle * Refill < TimeToFill * Refill
        <4> DEFINE p == idle * Refill
                   q == (idle + timer - 1) * Refill
                   f == TimeToFill * Refill
        <4>1. q \in Int /\ f \in Int
          BY <1>2, <1>4, Sizes
        <4>2. p \in Int /\ p <= q /\ tokens + q < Unit /\ f >= Full
          BY <1>2, <2>1, <2>2, <3>1, Sizes
        <4> HIDE DEF p, q, f
        <4>3. p < f
          BY <1>2, <4>1, <4>2, Sizes
        <4> QED
          BY <4>3 DEF p, f
      <3>3. idle < TimeToFill
        BY <1>2, <3>2, Sizes, GrowsBack
      <3>4. idle' = idle + 1 /\ timer' = timer - 1
        BY <1>1, <2>2, <3>3
      <3>5. idle' + timer' = idle + timer
        BY <1>2, <1>4, <3>4
      <3>6. idle' + timer' - 1 = idle + timer - 1
        BY <1>2, <1>4, <3>4
      <3> QED
        BY <2>1, <2>2, <3>5, <3>6
    <2>3. CASE timer = 0
      <3>1. timer' = 0
        BY <1>1, <2>3
      <3>2. idle' = idle \/ idle' = idle + 1
        BY <1>1
      <3>3. tokens + idle * Refill >= Unit
        BY <1>2, <2>1, <2>3
      <3>4. (idle + 1) * Refill = idle * Refill + Refill
        BY <1>2, Sizes, Distributes
      <3>5. idle' * Refill \in Nat /\ idle' * Refill >= idle * Refill /\ idle' + 0 = idle'
        BY <1>2, <3>2, <3>4, Sizes
      <3>6. tokens + (idle' + 0) * Refill >= Unit
        BY <1>2, <3>3, <3>5, Sizes
      <3> QED
        BY <3>1, <3>6
    <2> QED
      BY <1>4, <2>2, <2>3
  <1>8. ScannedAreEmpty'
    BY <1>1 DEF ScannedAreEmpty
  <1> QED
    BY <1>1, <1>5, <1>6, <1>7, <1>8, QueuesStay

LEMMA FireStep ==
    ASSUME IInv, Fire
    PROVE  IInv'
  <1> USE DEF IInv
  <1>1. /\ scanned = NotPumping /\ timer = 0 /\ timer' = NoTimer /\ scanned' = 0
        /\ UNCHANGED <<tokens, idle, queue, tenantOrder, draining, granted, passed>>
    BY DEF Fire, bucket
  <1>2. Len(tenantOrder) \in Nat
    BY DEF TypeOK
  <1>3. TypeOK'
    BY <1>1, <1>2 DEF TypeOK
  <1>4. WaitersAreDrained' /\ TimerIsExact'
    BY <1>1, QueuesStay DEF WaitersAreDrained, TimerIsExact, NotPumping, NoTimer
  <1>5. ScannedAreEmpty'
    BY <1>1, <1>2 DEF ScannedAreEmpty, TypeOK
  <1> QED
    BY <1>1, <1>3, <1>4, <1>5, QueuesStay

LEMMA SkipStep ==
    ASSUME IInv, SkipTenant
    PROVE  IInv'
  <1> USE DEF IInv
  <1> DEFINE n == Len(tenantOrder)
  <1>1. /\ scanned # NotPumping /\ scanned < n /\ queue[Head(tenantOrder)] = <<>>
        /\ tenantOrder' = Rotated /\ scanned' = scanned + 1
        /\ UNCHANGED <<tokens, idle, queue, draining, timer, granted, passed>>
    BY DEF SkipTenant, Scanning, bucket
  <1>2. tenantOrder \in Seq(Tenant) /\ n \in Nat /\ scanned \in 0..n /\ n > 0
    BY <1>1 DEF TypeOK
  <1>3. /\ Head(tenantOrder) = tenantOrder[1] /\ Head(tenantOrder) \in Tenant
        /\ tenantOrder' \in Seq(Tenant) /\ Len(tenantOrder') = n
        /\ DOMAIN tenantOrder' = 1..n /\ DOMAIN tenantOrder = 1..n
        /\ \A i \in 1..n : tenantOrder'[i] = IF i = n THEN tenantOrder[1] ELSE tenantOrder[i + 1]
    BY <1>1, <1>2, RotatedPlaces
  <1> HIDE DEF n
  <1>4. TypeOK'
    BY <1>1, <1>2, <1>3 DEF TypeOK, NotPumping
  <1>5. WaitersAreDrained' /\ TimerIsExact' /\ WaitsOnce'
    BY <1>1, <1>2 DEF WaitersAreDrained, Waiting, TimerIsExact, WaitsOnce, NotPumping
  <1>6. HasTurn'
    <2>1. /\ \A t \in Tenant : InOrder(t) => InOrder(t)'
          /\ \A i, j \in DOMAIN tenantOrder' : tenantOrder'[i] = tenantOrder'[j] => i = j
      BY <1>1, <1>2, RotationKeeps DEF HasTurn, n
    <2> QED
      BY <1>1, <2>1 DEF HasTurn
  <1>7. ScannedAreEmpty'
    <2> SUFFICES ASSUME NEW i \in 1..n, i > n - (scanned + 1)
                 PROVE  queue[tenantOrder'[i]] = <<>>
      BY <1>1, <1>3 DEF ScannedAreEmpty
    <2>1. CASE i = n
      BY <1>1, <1>3, <2>1
    <2>2. CASE i # n
      <3>1. i + 1 \in 1..n /\ i + 1 > n - scanned /\ tenantOrder'[i] = tenantOrder[i + 1]
        BY <1>2, <1>3, <2>2
      <3> QED
        BY <1>1, <1>3, <3>1 DEF ScannedAreEmpty, n
    <2> QED
      BY <2>1, <2>2
  <1>8. PassedAreBehind'
    <2> SUFFICES ASSUME NEW t \in Tenant, NEW u \in passed[t], NEW i \in 1..n, NEW j \in 1..n,
                        tenantOrder'[i] = t, tenantOrder'[j] = u
                 PROVE  i < j
      BY <1>1, <1>3 DEF PassedAreBehind
    <2>1. queue[t] # <<>> /\ t # tenantOrder[1]
      BY <1>1, <1>3 DEF PassedAreBehind
    <2>2. i # n /\ i + 1 \in 1..n /\ tenantOrder[i + 1] = t
      BY <1>2, <1>3, <2>1
    <2>3. CASE j = n
      BY <1>2, <2>2, <2>3
    <2>4. CASE j # n
      <3>1. j + 1 \in 1..n /\ tenantOrder[j + 1] = u
        BY <1>2, <1>3, <2>4
      <3>2. i + 1 < j + 1
        BY <1>3, <2>2, <3>1 DEF PassedAreBehind
      <3> QED
        BY <3>2
    <2> QED
      BY <2>3, <2>4
  <1> QED
    BY <1>4, <1>5, <1>6, <1>7, <1>8

LEMMA GrantStep ==
    ASSUME IInv, Grant
    PROVE  IInv'
  <1> USE DEF IInv
  <1> DEFINE n == Len(tenantOrder)
             h == Head(tenantOrder)
  <1>1. /\ scanned # NotPumping /\ scanned < n /\ queue[h] # <<>> /\ Level >= Unit
        /\ tokens' = Level - Unit /\ idle' = 0
        /\ granted' = granted \cup {Head(queue[h])}
        /\ queue' = [queue EXCEPT ![h] = Tail(queue[h])]
        /\ tenantOrder' = Rotated /\ scanned' = 0
        /\ passed' = [u \in Tenant |-> IF u = h \/ queue[u] = <<>> THEN {}
                                       ELSE passed[u] \cup {h}]
        /\ UNCHANGED <<draining, timer>>
    BY DEF Grant, Scanning
  <1>2. tenantOrder \in Seq(Tenant) /\ n \in Nat /\ scanned \in 0..n /\ n > 0
    BY <1>1 DEF TypeOK
  <1>3. /\ h = tenantOrder[1] /\ h \in Tenant
        /\ tenantOrder' \in Seq(Tenant) /\ Len(tenantOrder') = n
        /\ DOMAIN tenantOrder' = 1..n /\ DOMAIN tenantOrder = 1..n
        /\ \A i \in 1..n : tenantOrder'[i] = IF i = n THEN tenantOrder[1] ELSE tenantOrder[i + 1]
    BY <1>1, <1>2, RotatedPlaces
  <1>4. /\ queue' \in [Tenant -> Seq(Request)]
        /\ \A u \in Tenant \ {h} : queue'[u] = queue[u]
        /\ Head(queue[h]) = queue[h][1] /\ Head(queue[h]) \in Request
        /\ \A i \in DOMAIN queue'[h] : i + 1 \in DOMAIN queue[h] /\ queue'[h][i] = queue[h][i + 1]
        /\ DOMAIN queue'[h] = 1..(Len(queue[h]) - 1)
    BY <1>1, <1>3, Dequeued
  <1>5. timer = NoTimer /\ draining
    BY <1>1 DEF WaitersAreDrained
  <1> HIDE DEF n, h
  <1>6. TypeOK'
    <2>1. tokens' \in 0..Full /\ idle' \in 0..TimeToFill
      BY <1>1, LevelType, Sizes
    <2>2. granted' \subseteq Request /\ passed' \in [Tenant -> SUBSET Tenant]
      BY <1>1, <1>3, <1>4 DEF TypeOK
    <2> QED
      BY <1>1, <1>2, <1>3, <1>4, <2>1, <2>2 DEF TypeOK
  <1>7. WaitersAreDrained' /\ TimerIsExact'
    BY <1>1, <1>5 DEF WaitersAreDrained, TimerIsExact, NotPumping
  <1>8. WaitsOnce'
    <2> DEFINE r == Head(queue[h])
    <2>1. 1 \in DOMAIN queue[h] /\ r = queue[h][1]
      BY <1>1, <1>3, <1>4, QueueType
    <2>2. ASSUME NEW u \in Tenant, NEW i \in DOMAIN queue'[u]
          PROVE  /\ queue'[u][i] # r
                 /\ \E k \in DOMAIN queue[u] : /\ queue'[u][i] = queue[u][k]
                                               /\ k = IF u = h THEN i + 1 ELSE i
      <3>1. CASE u = h
        <4>1. i + 1 \in DOMAIN queue[h] /\ queue'[h][i] = queue[h][i + 1]
          BY <1>4, <2>2, <3>1
        <4>2. i \in Nat /\ i > 0 /\ i + 1 # 1
          BY <1>3, <1>4, <2>2, <3>1, QueueType
        <4>3. queue[h][i + 1] # r
          BY <1>3, <2>1, <4>1, <4>2 DEF WaitsOnce
        <4> QED
          BY <3>1, <4>1, <4>3
      <3>2. CASE u # h
        <4>1. queue'[u] = queue[u]
          BY <1>4, <3>2
        <4>2. queue[u][i] # r
          BY <1>3, <2>1, <2>2, <3>2, <4>1 DEF WaitsOnce
        <4> QED
          BY <2>2, <3>2, <4>1, <4>2
      <3> QED
        BY <3>1, <3>2
    <2> HIDE DEF r
    <2>3. \A u \in Tenant : \A i \in DOMAIN queue'[u] : queue'[u][i] \notin granted'
      BY <1>1, <2>2 DEF WaitsOnce, r
    <2>4. ASSUME NEW u \in Tenant, NEW v \in Tenant, NEW i \in DOMAIN queue'[u],
                 NEW j \in DOMAIN queue'[v], queue'[u][i] = queue'[v][j]
          PROVE  u = v /\ i = j
      <3>1. PICK k \in DOMAIN queue[u] : queue'[u][i] = queue[u][k] /\ k = IF u = h THEN i + 1 ELSE i
        BY <2>2, <2>4
      <3>2. PICK l \in DOMAIN queue[v] : queue'[v][j] = queue[v][l] /\ l = IF v = h THEN j + 1 ELSE j
        BY <2>2, <2>4
      <3>3. u = v /\ k = l
        <4>1. queue[u][k] = queue[v][l]
          BY <2>4, <3>1, <3>2
        <4>2. \A x, y \in Tenant : \A a \in DOMAIN queue[x], b \in DOMAIN queue[y] :
                 queue[x][a] = queue[y][b] => x = y /\ a = b
          BY DEF WaitsOnce
        <4> QED
          BY <4>1, <4>2
      <3>4. u = h => i \in Int /\ j \in Int
        BY <1>3, <1>4, <2>4, <3>3, QueueType
      <3> QED
        BY <3>1, <3>2, <3>3, <3>4
    <2> QED
      BY <2>3, <2>4 DEF WaitsOnce
  <1>9. HasTurn'
    <2>1. /\ \A t \in Tenant : InOrder(t) => InOrder(t)'
          /\ \A i, j \in DOMAIN tenantOrder' : tenantOrder'[i] = tenantOrder'[j] => i = j
      BY <1>1, <1>2, RotationKeeps DEF HasTurn, n
    <2>2. \A u \in Tenant : queue'[u] # <<>> => queue[u] # <<>>
      BY <1>1, <1>4
    <2> QED
      BY <2>1, <2>2 DEF HasTurn
  <1>10. ScannedAreEmpty'
    BY <1>1, <1>2, <1>3 DEF ScannedAreEmpty
  <1>11. PassedAreBehind'
    <2>1. ASSUME NEW t \in Tenant, queue'[t] = <<>>
          PROVE  passed'[t] = {}
      BY <1>1, <1>4, <2>1
    <2>2. ASSUME NEW t \in Tenant, NEW u \in passed'[t], NEW i \in 1..n, NEW j \in 1..n,
                 tenantOrder'[i] = t, tenantOrder'[j] = u
          PROVE  i < j
      <3>1. t # h /\ u \in passed[t] \cup {h}
        BY <1>1, <2>2
      <3>2. i # n /\ i + 1 \in 1..n /\ tenantOrder[i + 1] = t
        BY <1>2, <1>3, <2>2, <3>1
      <3>3. CASE j = n
        BY <1>2, <3>2, <3>3
      <3>4. CASE j # n
        <4>1. j + 1 \in 1..n /\ tenantOrder[j + 1] = u
          BY <1>2, <1>3, <2>2, <3>4
        <4>2. u # h
          <5>1. 1 \in 1..n /\ j + 1 # 1
            BY <1>2
          <5> QED
            BY <1>3, <4>1, <5>1 DEF HasTurn
        <4>3. i + 1 < j + 1
          BY <1>3, <3>1, <3>2, <4>1, <4>2 DEF PassedAreBehind
        <4> QED
          BY <4>3
      <3> QED
        BY <3>3, <3>4
    <2> QED
      BY <1>3, <2>1, <2>2 DEF PassedAreBehind
  <1> QED
    BY <1>6, <1>7, <1>8, <1>9, <1>10, <1>11

LEMMA WaitStep ==
    ASSUME IInv, WaitForToken
    PROVE  IInv'
  <1> USE DEF IInv
  <1>1. /\ scanned # NotPumping /\ Level < Unit
        /\ tokens' = Level /\ idle' = 0
        /\ timer' = CeilDiv(Unit - Level, Refill) /\ scanned' = NotPumping
        /\ UNCHANGED <<queue, tenantOrder, draining, granted, passed>>
    BY DEF WaitForToken, Scanning
  <1> DEFINE d == Unit - Level
             m == CeilDiv(d, Refill)
  <1>2. d \in Nat /\ d > 0 /\ d <= Unit /\ Level \in Nat /\ Level <= Full
    BY <1>1, LevelType, Sizes
  <1>3. m \in Nat /\ m > 0 /\ m * Refill >= d /\ (m - 1) * Refill < d
    BY <1>2, Sizes, CeilDivBounds
  <1>4. m <= CeilDiv(Unit, Refill) /\ CeilDiv(Unit, Refill) \in Nat
    BY <1>2, Sizes, CeilDivMonotone, CeilDivBounds
  <1>5. timer' = m
    BY <1>1
  <1> HIDE DEF m
  <1>6. TypeOK'
    BY <1>1, <1>2, <1>3, <1>4, <1>5, Sizes DEF TypeOK
  <1>7. WaitersAreDrained'
    BY <1>1, <1>3, <1>5, QueuesStay DEF WaitersAreDrained, NoTimer
  <1>8. TimerIsExact'
    <2>1. 0 + m = m /\ 0 + m - 1 = m - 1 /\ m * Refill \in Int /\ (m - 1) * Refill \in Int
      BY <1>3, Sizes
    <2>2. Level + (0 + m) * Refill >= Unit /\ Level + (0 + m - 1) * Refill < Unit
      BY <1>2, <1>3, <2>1, Sizes
    <2> QED
      BY <1>1, <1>5, <2>2 DEF TimerIsExact
  <1>9. ScannedAreEmpty'
    BY <1>1 DEF ScannedAreEmpty
  <1> QED
    BY <1>1, <1>6, <1>7, <1>8, <1>9, QueuesStay

LEMMA StopStep ==
    ASSUME IInv, StopDraining
    PROVE  IInv'
  <1> USE DEF IInv
  <1>1. /\ scanned = Len(tenantOrder) /\ draining' = FALSE /\ scanned' = NotPumping
        /\ UNCHANGED <<tokens, idle, queue, tenantOrder, timer, granted, passed>>
    BY DEF StopDraining, bucket
  <1>2. Len(tenantOrder) \in Nat /\ DOMAIN tenantOrder = 1..Len(tenantOrder)
    BY DEF TypeOK
  <1>3. scanned # NotPumping /\ timer = NoTimer
    BY <1>1, <1>2 DEF WaitersAreDrained, NotPumping
  <1>4. \A t \in Tenant : queue[t] = <<>>
    <2> SUFFICES ASSUME NEW t \in Tenant, InOrder(t)
                 PROVE  queue[t] = <<>>
      BY DEF HasTurn
    <2>1. PICK i \in DOMAIN tenantOrder : tenantOrder[i] = t
      BY DEF InOrder
    <2>2. i > Len(tenantOrder) - scanned
      BY <1>1, <1>2, <2>1
    <2> QED
      BY <1>3, <2>1, <2>2 DEF ScannedAreEmpty
  <1>5. Waiting = {}
    BY <1>4, SomeoneWaits
  <1>6. TypeOK'
    BY <1>1 DEF TypeOK
  <1>7. WaitersAreDrained' /\ TimerIsExact' /\ ScannedAreEmpty'
    BY <1>1, <1>3, <1>5, QueuesStay DEF WaitersAreDrained, TimerIsExact, ScannedAreEmpty
  <1> QED
    BY <1>1, <1>6, <1>7, QueuesStay

-----------------------------------------------------------------------------

LEMMA InitHolds == Init => IInv
  <1> SUFFICES ASSUME Init PROVE IInv
    OBVIOUS
  <1> USE DEF Init
  <1>1. TypeOK
    <2>1. Full \in 0..Full /\ 0 \in 0..TimeToFill
      BY Sizes
    <2>2. <<>> \in Seq(Request) /\ <<>> \in Seq(Tenant)
      OBVIOUS
    <2> QED
      BY <2>1, <2>2 DEF TypeOK
  <1>2. WaitersAreDrained /\ TimerIsExact
    BY DEF WaitersAreDrained, Waiting, TimerIsExact
  <1>3. WaitsOnce /\ HasTurn /\ ScannedAreEmpty /\ PassedAreBehind
    BY DEF WaitsOnce, HasTurn, ScannedAreEmpty, PassedAreBehind
  <1> QED
    BY <1>1, <1>2, <1>3 DEF IInv

LEMMA StepHolds == IInv /\ [Next]_vars => IInv'
  <1> SUFFICES ASSUME IInv, [Next]_vars PROVE IInv'
    OBVIOUS
  <1>1. CASE UNCHANGED vars
    <2> USE <1>1 DEF vars, bucket, IInv
    <2>1. TypeOK' /\ WaitersAreDrained' /\ TimerIsExact'
      BY DEF TypeOK, WaitersAreDrained, Waiting, TimerIsExact
    <2>2. WaitsOnce' /\ HasTurn' /\ ScannedAreEmpty' /\ PassedAreBehind'
      BY DEF WaitsOnce, HasTurn, InOrder, ScannedAreEmpty, PassedAreBehind
    <2> QED
      BY <2>1, <2>2
  <1>2. CASE Next
    BY <1>2, AcquireStep, FinishStep, TickStep, FireStep, SkipStep, GrantStep, WaitStep, StopStep
       DEF Next, Pump
  <1> QED
    BY <1>1, <1>2

THEOREM Invariance == Spec => []IInv
  BY InitHolds, StepHolds, PTL DEF Spec

\* No waiter is without a wake-up, and it comes when there is a token, not
\* earlier and not a millisecond later, for every rate and burst.
THEOREM WakeUpsSound == Spec => []WakeUpsAreSound
  <1>1. IInv => WakeUpsAreSound
    BY DEF IInv, WakeUpsAreSound
  <1> QED
    BY <1>1, Invariance, PTL

-----------------------------------------------------------------------------
(* Turns *)

\* While a tenant waits, no other tenant is served twice.
THEOREM TurnsAreFair == Spec => FairShare
  <1> DEFINE A == \A t, u \in Tenant :
                     (t # u /\ queue[t] # <<>> /\ Len(queue'[u]) < Len(queue[u])) => u \notin passed[t]
  <1>1. IInv /\ [Next]_vars => [A]_vars
    <2> SUFFICES ASSUME IInv, Next, NEW t \in Tenant, NEW u \in Tenant, t # u, queue[t] # <<>>,
                        Len(queue'[u]) < Len(queue[u])
                 PROVE  u \notin passed[t]
      OBVIOUS
    <2> USE DEF IInv
    <2>1. Len(queue[u]) \in Nat
      BY QueueType
    <2>2. CASE Grant
      <3> DEFINE h == Head(tenantOrder)
      <3>1. /\ h = tenantOrder[1] /\ h \in Tenant /\ Len(tenantOrder) \in Nat
            /\ DOMAIN tenantOrder = 1..Len(tenantOrder) /\ 1 \in DOMAIN tenantOrder
        <4>1. tenantOrder \in Seq(Tenant) /\ Len(tenantOrder) > 0
          BY <2>2 DEF Grant, Scanning, TypeOK, NotPumping
        <4> QED
          BY <4>1
      <3>2. u = h
        BY <2>1, <2>2, <3>1 DEF Grant, TypeOK
      <3>3. PICK i \in DOMAIN tenantOrder : tenantOrder[i] = t
        BY DEF HasTurn, InOrder
      <3>4. u \in passed[t] => i < 1
        BY <3>1, <3>2, <3>3 DEF PassedAreBehind
      <3> QED
        BY <3>1, <3>3, <3>4
    <2>3. ASSUME NEW r \in Request, NEW v \in Tenant, Acquire(r, v)
          PROVE  FALSE
      <3>1. queue' = [queue EXCEPT ![v] = Append(queue[v], r)]
        BY <2>3 DEF Acquire
      <3>2. Len(queue'[v]) = Len(queue[v]) + 1 /\ \A w \in Tenant \ {v} : queue'[w] = queue[w]
        BY <3>1, Enqueued
      <3> QED
        BY <2>1, <3>2
    <2>4. CASE UNCHANGED queue
      BY <2>1, <2>4
    <2> QED
      BY <2>2, <2>3, <2>4 DEF Next, Pump, Finish, Tick, Fire, SkipTenant, WaitForToken, StopDraining
  <1> QED
    BY <1>1, Invariance, PTL DEF Spec, FairShare

-----------------------------------------------------------------------------
(* The provider's limit *)

LEMMA BucketStep == IInv /\ [Next]_vars => [Bucket!Next]_<<Level, granted>>
  <1> SUFFICES ASSUME IInv, [Next]_vars
               PROVE  Bucket!Next \/ UNCHANGED <<Level, granted>>
    OBVIOUS
  <1> USE DEF IInv
  <1>1. Level \in Nat /\ Level <= Full
    BY LevelType
  <1>2. CASE UNCHANGED <<tokens, idle, granted>>
    BY <1>2 DEF Level, Full
  <1>3. CASE Tick
    <2>1. Level' = IF Level + Refill < Full THEN Level + Refill ELSE Full
      BY <1>3, LevelOfTick
    <2> HIDE DEF IInv
    <2>2. Bucket!Tick
      BY <1>3, <2>1 DEF Bucket!Tick, Bucket!AtMostFull, Bucket!Full, Full, Tick
    <2> QED
      BY <2>2 DEF Bucket!Next
  <1>4. CASE Grant
    <2> DEFINE h == Head(tenantOrder)
    <2>1. /\ tokens' = Level - Unit /\ idle' = 0 /\ Level >= Unit /\ queue[h] # <<>>
          /\ granted' = granted \cup {Head(queue[h])}
      BY <1>4 DEF Grant
    <2>2. h \in Tenant
      <3>1. tenantOrder \in Seq(Tenant) /\ Len(tenantOrder) > 0
        BY <1>4 DEF Grant, Scanning, TypeOK, NotPumping
      <3> QED
        BY <3>1
    <2>3. 1 \in DOMAIN queue[h] /\ queue[h] \in Seq(Request)
      BY <2>1, <2>2, QueueType
    <2>4. PICK r \in Request : r = Head(queue[h])
      BY <2>1, <2>3
    <2>5. r = queue[h][1]
      BY <2>1, <2>3, <2>4
    <2>6. r \notin granted
      BY <2>2, <2>3, <2>5 DEF WaitsOnce
    <2>7. Level' = Level - Unit
      <3>1. Level - Unit \in Nat /\ Level - Unit <= Full
        BY <1>1, <2>1, Sizes
      <3> QED
        BY <2>1, <3>1, LevelOfLook
    <2>8. Bucket!Grant(r)
      BY <2>1, <2>4, <2>6, <2>7 DEF Bucket!Grant
    <2> QED
      BY <2>8 DEF Bucket!Next
  <1>5. CASE WaitForToken
    <2>1. tokens' = Level /\ idle' = 0 /\ granted' = granted
      BY <1>5 DEF WaitForToken
    <2>2. Level' = Level
      BY <1>1, <2>1, LevelOfLook
    <2> QED
      BY <2>1, <2>2
  <1>6. ASSUME NEW r \in Request, Finish(r)
        PROVE  Bucket!Next
    <2>1. r \in granted /\ granted' = granted \ {r} /\ UNCHANGED <<tokens, idle>>
      BY <1>6 DEF Finish, bucket
    <2>2. Level' = Level
      BY <2>1 DEF Level, Full
    <2>3. Bucket!Finish(r)
      BY <2>1, <2>2 DEF Bucket!Finish
    <2> QED
      BY <2>3 DEF Bucket!Next
  <1> QED
    BY <1>2, <1>3, <1>4, <1>5, <1>6
       DEF Next, Pump, Acquire, Fire, SkipTenant, StopDraining, vars, bucket

\* No call is granted that the provider's limit does not allow: what the limiter
\* grants, a bucket that fills all the time would grant.
THEOREM LimiterImplementsBucket == Spec => ImplementsBucket
  <1>1. Init => Bucket!Init
    <2> SUFFICES ASSUME Init PROVE Level = Full /\ granted = {}
      BY DEF Bucket!Init, Bucket!Full, Full
    <2>1. tokens = Full /\ idle * Refill = 0
      BY Sizes DEF Init
    <2> QED
      BY <2>1, Sizes DEF Init, Level
  <1>2. IInv /\ [Next]_vars => [Bucket!Next]_<<Level, granted>>
    BY BucketStep
  <1> QED
    BY <1>1, <1>2, Invariance, PTL DEF Spec, ImplementsBucket, Bucket!Spec

=============================================================================
