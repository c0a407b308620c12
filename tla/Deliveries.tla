----------------------------- MODULE Deliveries -----------------------------
(***************************************************************************)
(* The download links of one entitlement                                   *)
(* (apps/api/src/digital/delivery.service.ts, entitlement.service.ts): a   *)
(* link is a token, checked and counted each time a file's signed URL is   *)
(* handed out for it.  The address it may be used from is left out.        *)
(***************************************************************************)
EXTENDS Naturals, FiniteSets

CONSTANTS Call, Token, maxDownloads

\* What a user of this module gives.
DeliveriesAssumption ==
    /\ maxDownloads \in Nat
    /\ IsFiniteSet(Call) /\ Call # {}

VARIABLES
    entitled,       \* Entitlement.status is ACTIVE
    token,          \* DeliveryToken: none, open, or expired by time
    downloadCount,  \* of each token
    urls,           \* how many URLs were handed out for a token
    pc, job         \* where each call is; its token

vars == <<entitled, token, downloadCount, urls, pc, job>>

NoToken == "none"

Init ==
    /\ entitled = TRUE
    /\ token = [t \in Token |-> "none"]
    /\ downloadCount = [t \in Token |-> 0]
    /\ urls = [t \in Token |-> 0]
    /\ pc = [c \in Call |-> "idle"]
    /\ job = [c \in Call |-> NoToken]

Goto(c, stage, t) ==
    /\ pc' = [pc EXCEPT ![c] = stage]
    /\ job' = [job EXCEPT ![c] = t]
End(c) == Goto(c, "idle", NoToken)

\* EntitlementService.revoke; the tokens stay as they are.
Revoke ==
    /\ entitled' = FALSE
    /\ UNCHANGED <<token, downloadCount, urls, pc, job>>

\* issue: the entitlement is found active ...
BeginIssue(c) ==
    /\ pc[c] = "idle"
    /\ entitled
    /\ Goto(c, "issuing", NoToken)
    /\ UNCHANGED <<entitled, token, downloadCount, urls>>

\* ... and a token created.
Issue(c, t) ==
    /\ pc[c] = "issuing"
    /\ token[t] = "none"
    /\ token' = [token EXCEPT ![t] = "open"]
    /\ End(c)
    /\ UNCHANGED <<entitled, downloadCount, urls>>

\* expiresAt passes.
Expire(t) ==
    /\ token[t] = "open"
    /\ token' = [token EXCEPT ![t] = "expired"]
    /\ UNCHANGED <<entitled, downloadCount, urls, pc, job>>

\* redeem: the token is read with its entitlement, and nothing denies it ...
BeginRedeem(c, t) ==
    /\ pc[c] = "idle"
    /\ token[t] = "open"
    /\ entitled
    /\ downloadCount[t] < maxDownloads
    /\ Goto(c, "counting", t)
    /\ UNCHANGED <<entitled, token, downloadCount, urls>>

\* ... the download is counted ...
Count(c) ==
    /\ pc[c] = "counting"
    /\ downloadCount' = [downloadCount EXCEPT ![job[c]] = @ + 1]
    /\ Goto(c, "signing", job[c])
    /\ UNCHANGED <<entitled, token, urls>>

\* ... and a URL handed out.
Sign(c) ==
    /\ pc[c] = "signing"
    /\ urls' = [urls EXCEPT ![job[c]] = @ + 1]
    /\ End(c)
    /\ UNCHANGED <<entitled, token, downloadCount>>

\* A call is refused, fails, or dies with its process; a download that was counted
\* stays counted.
Abandon(c) ==
    /\ pc[c] # "idle"
    /\ End(c)
    /\ UNCHANGED <<entitled, token, downloadCount, urls>>

Next ==
    \/ Revoke
    \/ \E t \in Token : Expire(t)
    \/ \E c \in Call :
        \/ BeginIssue(c) \/ Count(c) \/ Sign(c) \/ Abandon(c)
        \/ \E t \in Token : Issue(c, t) \/ BeginRedeem(c, t)

Spec == Init /\ [][Next]_vars

(* Properties *************************************************************)

\* Every variable has its type.
TypeOK ==
    /\ entitled \in BOOLEAN
    /\ token \in [Token -> {"none", "open", "expired"}]
    /\ downloadCount \in [Token -> Nat] /\ urls \in [Token -> Nat]
    /\ pc \in [Call -> {"idle", "issuing", "counting", "signing"}]
    /\ job \in [Call -> Token \cup {NoToken}]

InHand(t, stages) == Cardinality({c \in Call : pc[c] \in stages /\ job[c] = t})

\* A link is used up: the URLs handed out for it have been counted, and the count
\* exceeds its cap by no more than the requests made together with the last.
DownloadsWithinCap ==
    \A t \in Token :
        /\ urls[t] + InHand(t, {"signing"}) <= downloadCount[t]
        /\ downloadCount[t] + InHand(t, {"counting"}) < maxDownloads + Cardinality(Call)

=============================================================================
