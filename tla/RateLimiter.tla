----------------------------- MODULE RateLimiter -----------------------------
(***************************************************************************)
(* ConnectorRateLimiter (packages/connectors/src/rate-limiter.ts), one per *)
(* connector and process: a token bucket that is refilled only when it is  *)
(* looked at, a queue per tenant served in turn, and one loop, pump, which *)
(* goes on from a timer when the bucket is empty.  AdapterRunnerService    *)
(* .run acquires before every call of an adapter.                          *)
(*                                                                         *)
(* JavaScript runs pump to its end before anything else: while pumping,    *)
(* only pump's own steps are enabled and no time passes.  A timer may be   *)
(* late but not early.  Time is kept relative (milliseconds since the last *)
(* refill and until the timer), so it needs no bound; tokens are counted   *)
(* in units in which the refill of a millisecond is whole.  So the wait    *)
(* is exact, where the code's doubles may be a millisecond off.            *)
(***************************************************************************)
EXTENDS Integers, Sequences

CONSTANTS Tenant, Request, Unit, Refill, Burst

ASSUME LimiterAssumption == {Unit, Refill, Burst} \subseteq Nat \ {0}

VARIABLES
    tokens,       \* TokenBucket.tokens, in units
    idle,         \* now - lastRefillMs, up to the time that fills the bucket
    queue,        \* queues: the waiting requests of each tenant
    tenantOrder,
    draining,
    timer,        \* milliseconds until the scheduled pump, or NoTimer
    scanned,      \* pump's local variable, or NotPumping
    granted,      \* requests whose acquire has resolved and whose call runs
    passed        \* history: the tenants served since the head of this queue waits

bucket == <<tokens, idle>>
vars == <<tokens, idle, queue, tenantOrder, draining, timer, scanned, granted, passed>>

CeilDiv(a, b) == (a + b - 1) \div b
Full == Burst * Unit
TimeToFill == CeilDiv(Full, Refill)
NoTimer == -1
NotPumping == -1

\* What refill makes of the bucket.
Level == IF tokens + idle * Refill < Full THEN tokens + idle * Refill ELSE Full
Waiting == {r \in Request : \E t \in Tenant : \E i \in DOMAIN queue[t] : queue[t][i] = r}
InOrder(t) == \E i \in DOMAIN tenantOrder : tenantOrder[i] = t
Rotated == Append(Tail(tenantOrder), Head(tenantOrder))

Init ==
    /\ tokens = Full
    /\ idle = 0
    /\ queue = [t \in Tenant |-> <<>>]
    /\ tenantOrder = <<>>
    /\ draining = FALSE
    /\ timer = NoTimer
    /\ scanned = NotPumping
    /\ granted = {}
    /\ passed = [t \in Tenant |-> {}]

\* Mutant: acquire drains only if the bucket has a token.
AcquireIfAvailable(r, t) ==
    /\ scanned = NotPumping
    /\ r \notin Waiting \cup granted
    /\ queue' = [queue EXCEPT ![t] = Append(@, r)]
    /\ tenantOrder' = IF InOrder(t) THEN tenantOrder ELSE Append(tenantOrder, t)
    /\ draining' = (draining \/ Level >= Unit)
    /\ scanned' = IF draining \/ Level < Unit THEN NotPumping ELSE 0
    /\ UNCHANGED <<bucket, timer, granted, passed>>

\* acquire: join the tenant's queue, and drain unless that is going on already.
Acquire(r, t) ==
    /\ scanned = NotPumping
    /\ r \notin Waiting \cup granted
    /\ queue' = [queue EXCEPT ![t] = Append(@, r)]
    /\ tenantOrder' = IF InOrder(t) THEN tenantOrder ELSE Append(tenantOrder, t)
    /\ draining' = TRUE
    /\ scanned' = IF draining THEN NotPumping ELSE 0
    /\ UNCHANGED <<bucket, timer, granted, passed>>

\* The call of the adapter that acquired has ended.
Finish(r) ==
    /\ scanned = NotPumping
    /\ r \in granted
    /\ granted' = granted \ {r}
    /\ UNCHANGED <<bucket, queue, tenantOrder, draining, timer, scanned, passed>>

Tick ==
    /\ scanned = NotPumping
    /\ idle' = IF idle < TimeToFill THEN idle + 1 ELSE idle
    /\ timer' = IF timer > 0 THEN timer - 1 ELSE timer
    /\ UNCHANGED <<tokens, queue, tenantOrder, draining, scanned, granted, passed>>

Fire ==
    /\ scanned = NotPumping
    /\ timer = 0
    /\ timer' = NoTimer
    /\ scanned' = 0
    /\ UNCHANGED <<bucket, queue, tenantOrder, draining, granted, passed>>

(* pump's loop ************************************************************)

Scanning == scanned # NotPumping /\ scanned < Len(tenantOrder)

SkipTenant ==
    /\ Scanning
    /\ queue[Head(tenantOrder)] = <<>>
    /\ tenantOrder' = Rotated
    /\ scanned' = scanned + 1
    /\ UNCHANGED <<bucket, queue, draining, timer, granted, passed>>

\* Mutant: a tenant that was served stays at the head of the order.
GrantUnrotated ==
    LET t == Head(tenantOrder)
    IN /\ Scanning
       /\ queue[t] # <<>>
       /\ Level >= Unit
       /\ tokens' = Level - Unit
       /\ idle' = 0
       /\ granted' = granted \cup {Head(queue[t])}
       /\ queue' = [queue EXCEPT ![t] = Tail(@)]
       /\ scanned' = 0
       /\ passed' = [u \in Tenant |-> IF u = t \/ queue[u] = <<>> THEN {}
                                      ELSE passed[u] \cup {t}]
       /\ UNCHANGED <<draining, timer, tenantOrder>>

\* Mutant: a grant does not advance lastRefillMs.
GrantKeepingRefill ==
    LET t == Head(tenantOrder)
    IN /\ Scanning
       /\ queue[t] # <<>>
       /\ Level >= Unit
       /\ tokens' = Level - Unit
       /\ granted' = granted \cup {Head(queue[t])}
       /\ queue' = [queue EXCEPT ![t] = Tail(@)]
       /\ tenantOrder' = Rotated
       /\ scanned' = 0
       /\ passed' = [u \in Tenant |-> IF u = t \/ queue[u] = <<>> THEN {}
                                      ELSE passed[u] \cup {t}]
       /\ UNCHANGED <<idle, draining, timer>>

Grant ==
    LET t == Head(tenantOrder)
    IN /\ Scanning
       /\ queue[t] # <<>>
       /\ Level >= Unit
       /\ tokens' = Level - Unit
       /\ idle' = 0
       /\ granted' = granted \cup {Head(queue[t])}
       /\ queue' = [queue EXCEPT ![t] = Tail(@)]
       /\ tenantOrder' = Rotated
       /\ scanned' = 0
       /\ passed' = [u \in Tenant |-> IF u = t \/ queue[u] = <<>> THEN {}
                                      ELSE passed[u] \cup {t}]
       /\ UNCHANGED <<draining, timer>>

\* No token: look again in as many milliseconds as the missing part takes.
WaitForToken ==
    /\ Scanning
    /\ queue[Head(tenantOrder)] # <<>>
    /\ Level < Unit
    /\ tokens' = Level
    /\ idle' = 0
    /\ timer' = CeilDiv(Unit - Level, Refill)
    /\ scanned' = NotPumping
    /\ UNCHANGED <<queue, tenantOrder, draining, granted, passed>>

\* Mutant: the loop ends at the first tenant that has nobody waiting.
StopAtEmpty ==
    /\ scanned # NotPumping
    /\ scanned = Len(tenantOrder) \/ queue[Head(tenantOrder)] = <<>>
    /\ draining' = FALSE
    /\ scanned' = NotPumping
    /\ UNCHANGED <<bucket, queue, tenantOrder, timer, granted, passed>>

StopDraining ==
    /\ scanned = Len(tenantOrder)
    /\ draining' = FALSE
    /\ scanned' = NotPumping
    /\ UNCHANGED <<bucket, queue, tenantOrder, timer, granted, passed>>

Pump == SkipTenant \/ Grant \/ WaitForToken \/ StopDraining

Next ==
    \/ \E r \in Request, t \in Tenant : Acquire(r, t)
    \/ \E r \in Request : Finish(r)
    \/ Tick
    \/ Fire
    \/ Pump

Spec == Init /\ [][Next]_vars

\* Time passes, timers that are due fire, and the loop runs.
FairSpec == Spec /\ WF_vars(Tick) /\ WF_vars(Fire) /\ WF_vars(Pump)

(* Properties *************************************************************)

TypeOK ==
    /\ tokens \in 0..Full
    /\ idle \in 0..TimeToFill
    /\ queue \in [Tenant -> Seq(Request)]
    /\ tenantOrder \in Seq(Tenant)
    /\ draining \in BOOLEAN
    /\ timer \in {NoTimer} \cup 0..CeilDiv(Unit, Refill)
    /\ scanned \in {NotPumping} \cup 0..Len(tenantOrder)
    /\ granted \subseteq Request
    /\ passed \in [Tenant -> SUBSET Tenant]

\* No wake-up is lost: the flag draining is up exactly while the loop runs or
\* its timer is pending, never both at once, and it is up whenever someone
\* waits (drain's early return relies on it).
WaitersAreDrained ==
    /\ draining <=> (scanned # NotPumping \/ timer # NoTimer)
    /\ ~(scanned # NotPumping /\ timer # NoTimer)
    /\ Waiting # {} => draining

\* The timer is neither early nor late: when it is due there is a token, and
\* one millisecond before there was none, with the rounding of
\* msUntilAvailable and the bucket consulted by nobody else in between.
TimerIsExact ==
    timer # NoTimer =>
        /\ tokens + (idle + timer) * Refill >= Unit
        /\ timer > 0 => tokens + (idle + timer - 1) * Refill < Unit

\* The types, and no waiter without a wake-up that comes when it should.
WakeUpsAreSound == TypeOK /\ WaitersAreDrained /\ TimerIsExact

\* While a tenant waits, no other tenant is served twice, however many
\* requests it has queued and whenever it came (tenantOrder and rotate).
FairShare ==
    [][\A t, u \in Tenant :
          (t # u /\ queue[t] # <<>> /\ Len(queue'[u]) < Len(queue[u])) => u \notin passed[t]]_vars

\* Every request that waits is served (acquire resolves).
EveryoneIsServed == \A r \in Request : r \in Waiting ~> r \in granted

\* The bucket that is refilled only when looked at is one that fills all the
\* time: no call is granted that the provider's limit does not allow.
Bucket == INSTANCE LeakyBucket WITH level <- Level
ImplementsBucket == Bucket!Spec

=============================================================================
