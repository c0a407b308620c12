SPECIFICATION FairSpec
CONSTANTS
    Tenant = {t1, t2, t3}
    Request = {r1, r2, r3}
    Unit = 5
    Refill = 2
    Burst = 2
INVARIANTS WakeUpsAreSound
PROPERTIES FairShare EveryoneIsServed ImplementsBucket
