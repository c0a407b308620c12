------------------------------ MODULE MCLimits ------------------------------
(***************************************************************************)
(* Small instances of Credentials, Coupons, LicenceKeys, Deliveries and    *)
(* Idempotency, side by side.  They share no state, so in each behaviour   *)
(* one of them moves: their graphs are added and not multiplied.           *)
(***************************************************************************)
EXTENDS Credentials, TLC

CONSTANTS Key, Buyer, MaxLimit, Device, activationLimit, Token, maxDownloads, Body, MaxRuns

VARIABLES
    part,
    usageLimit, usageCount, isActive, redeemed, granted, highest, couponPc, couponJob,
    licence, activationCount, activation, drifted, licencePc, licenceJob,
    entitled, token, downloadCount, urls, deliveryPc, deliveryJob,
    record, ran, ranFor, unsettled, requestPc, requestJob

connectionVars == <<rows, oauth, overlapped, broken, pc, job>>
couponVars == <<usageLimit, usageCount, isActive, redeemed, granted, highest, couponPc, couponJob>>
licenceVars == <<licence, activationCount, activation, drifted, licencePc, licenceJob>>
deliveryVars == <<entitled, token, downloadCount, urls, deliveryPc, deliveryJob>>
requestVars == <<record, ran, ranFor, unsettled, requestPc, requestJob>>

C == INSTANCE Coupons WITH pc <- couponPc, job <- couponJob
L == INSTANCE LicenceKeys WITH status <- licence, pc <- licencePc, job <- licenceJob
D == INSTANCE Deliveries WITH pc <- deliveryPc, job <- deliveryJob
I == INSTANCE Idempotency WITH pc <- requestPc, job <- requestJob

ASSUME PartsAssumption ==
    /\ C!CouponsAssumption /\ L!LicenceKeysAssumption
    /\ D!DeliveriesAssumption /\ I!IdempotencyAssumption

MCInit ==
    /\ part \in {"connection", "coupon", "licence", "delivery", "request"}
    /\ Init /\ C!Init /\ L!Init /\ D!Init /\ I!Init
    /\ part # "coupon" => usageLimit = 0

MCNext ==
    /\ UNCHANGED part
    /\ \/ /\ part = "connection" /\ Next
          /\ UNCHANGED <<couponVars, licenceVars, deliveryVars, requestVars>>
       \/ /\ part = "coupon" /\ C!Next
          /\ UNCHANGED <<connectionVars, licenceVars, deliveryVars, requestVars>>
       \/ /\ part = "licence" /\ L!Next
          /\ UNCHANGED <<connectionVars, couponVars, deliveryVars, requestVars>>
       \/ /\ part = "delivery" /\ D!Next
          /\ UNCHANGED <<connectionVars, couponVars, licenceVars, requestVars>>
       \/ /\ part = "request" /\ I!Next
          /\ UNCHANGED <<connectionVars, couponVars, licenceVars, deliveryVars>>

MCSpec ==
    MCInit /\ [][MCNext]_<<part, connectionVars, couponVars, licenceVars, deliveryVars, requestVars>>

\* Every variable of the five modules has its type.
MCTypeOK == TypeOK /\ C!TypeOK /\ L!TypeOK /\ D!TypeOK /\ I!TypeOK

\* Credentials: one is active, and the status says whether there is one.
CredentialAgrees == OneActive /\ StatusAgrees

\* Coupons, LicenceKeys, Deliveries: the counts are those of the rows, and a limit gives
\* way by the overlap and no more.
LimitsHold ==
    /\ MCTypeOK
    /\ C!CountIsRedemptions /\ L!CountIsActivations
    /\ C!UsesWithinLimit /\ C!BuyerWithinLimit
    /\ L!ActivationsWithinLimit /\ D!DownloadsWithinCap

\* Coupons, Idempotency: a key stands for one request.
OncePerKey == C!RedeemedOnce /\ I!RunsOnce

Symmetry == Permutations(Call)

=============================================================================
