----------------------------- MODULE MCIdentity -----------------------------
(***************************************************************************)
(* Small instances of Sessions, SecondFactor and Members, side by side.    *)
(* They share no state, so in each behaviour one of them moves: the graphs *)
(* of the three are added and not multiplied.                              *)
(***************************************************************************)
EXTENDS Sessions, TLC

CONSTANTS MaxSecrets, MaxBatches,
          Person, Founder, Address, MaxInvites, Offered

VARIABLES
    part,
    secret, enabled, codes, used, batches, proven, raced, codeHonoured, codeContended, mfaPc, mfaJob,
    member, role, sent, status, to, adminPc, adminJob, overlapped, invitedTwice, crossed

sessionsVars == <<sessionVars, challenges, resetVars, contended, pc, job>>
factorVars == <<secret, enabled, codes, used, batches, proven, raced, codeHonoured, codeContended, mfaPc, mfaJob>>
memberVars == <<member, role, sent, status, to, adminPc, adminJob, overlapped, invitedTwice, crossed>>

F == INSTANCE SecondFactor WITH honoured <- codeHonoured,
        contended <- codeContended, pc <- mfaPc, job <- mfaJob
M == INSTANCE Members WITH pc <- adminPc, job <- adminJob, contended <- invitedTwice

ASSUME PartsAssumption == F!SecondFactorAssumption /\ M!MembersAssumption

MCInit ==
    /\ part \in {"sessions", "factor", "members"}
    /\ Init /\ F!Init /\ M!Init

MCNext ==
    /\ UNCHANGED part
    /\ \/ part = "sessions" /\ Next /\ UNCHANGED <<factorVars, memberVars>>
       \/ part = "factor" /\ F!Next /\ UNCHANGED <<sessionsVars, memberVars>>
       \/ part = "members" /\ M!Next /\ UNCHANGED <<sessionsVars, factorVars>>

MCSpec == MCInit /\ [][MCNext]_<<part, sessionsVars, factorVars, memberVars>>

\* Every variable of the three modules has its type.
MCTypeOK == TypeOK /\ F!TypeOK /\ M!TypeOK

\* Sessions, SecondFactor: a reset token and a recovery code are honoured once.
UsedOnce == MCTypeOK /\ ResetOnce /\ F!CodeOnce

\* SecondFactor: what is enabled was shown to work, and has recovery codes.
EnabledIsProven == F!EnabledIsProven

\* Members: somebody can manage the tenant, an accepted invite has made a member, and an
\* address has one that is pending.
MembersHold == M!ManagersRemain /\ M!AcceptedIsMember /\ M!OnePending

\* Members: a settled invite and a removed member stay so.
SettledStays == M!SettledStays

\* The first invite offers a role that manages, the others do not.
MCOffered == [i \in 1..MaxInvites |-> IF i = 1 THEN "OWNER" ELSE "MEMBER"]

Symmetry == Permutations(Call)

=============================================================================
