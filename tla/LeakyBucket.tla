----------------------------- MODULE LeakyBucket -----------------------------
(***************************************************************************)
(* What a provider is promised: a bucket that gains Refill units in every  *)
(* millisecond, holds at most Burst tokens, and gives up one token for     *)
(* every call.                                                             *)
(***************************************************************************)
EXTENDS Naturals

CONSTANTS Request,
          Unit,      \* units in a token (ConnectorRateLimitConfig.windowMs)
          Refill,    \* units gained in a millisecond (.requests)
          Burst      \* tokens the bucket holds (.burst)

VARIABLES level,     \* units in the bucket now
          granted    \* the requests that may call the provider

Full == Burst * Unit
AtMostFull(n) == IF n < Full THEN n ELSE Full

Init == level = Full /\ granted = {}

Tick == level' = AtMostFull(level + Refill) /\ UNCHANGED granted

Grant(r) ==
    /\ r \notin granted
    /\ level >= Unit
    /\ level' = level - Unit
    /\ granted' = granted \cup {r}

Finish(r) ==
    /\ r \in granted
    /\ granted' = granted \ {r}
    /\ UNCHANGED level

Next == Tick \/ \E r \in Request : Grant(r) \/ Finish(r)

Spec == Init /\ [][Next]_<<level, granted>>
=============================================================================
