---------------------------- MODULE SecondFactor ----------------------------
(***************************************************************************)
(* One user's second factor (apps/api/src/mfa/mfa.service.ts): a secret    *)
(* that is set up and then activated by a code of it, the recovery codes   *)
(* that come with each activation, and the check of a login's code.  A     *)
(* batch of codes is followed through one of its codes.  A wrong code is   *)
(* refused, which changes nothing, and is left out.                        *)
(***************************************************************************)
EXTENDS Naturals

CONSTANTS Call, MaxSecrets, MaxBatches   \* the last two are bounds

\* What a user of this module gives.
SecondFactorAssumption == {MaxSecrets, MaxBatches} \subseteq Nat \ {0}

Secret == 1..MaxSecrets
Batch == 1..MaxBatches

VARIABLES
    secret, enabled,    \* MfaSecret; secret 0: no row
    codes, used,        \* MfaRecoveryCode: the batch whose rows there are (0: none); its code is used
    batches,            \* how many batches there have been
    proven,             \* the secrets that a verification code was right for
    raced,              \* a set-up overlapped an activation
    honoured,           \* how often the code of a batch was honoured
    contended,          \* the batches whose code two requests had found unused
    pc, job             \* where each call is; the code it has found

rows == <<secret, enabled, codes, used, batches>>
ghosts == <<proven, raced, honoured, contended>>
vars == <<rows, ghosts, pc, job>>

Init ==
    /\ secret = 0 /\ enabled = FALSE
    /\ codes = 0 /\ used = FALSE /\ batches = 0
    /\ proven = {} /\ raced = FALSE
    /\ honoured = [b \in Batch |-> 0]
    /\ contended = {}
    /\ pc = [c \in Call |-> "idle"]
    /\ job = [c \in Call |-> 0]

Goto(c, stage, code) ==
    /\ pc' = [pc EXCEPT ![c] = stage]
    /\ job' = [job EXCEPT ![c] = code]
End(c) == Goto(c, "idle", 0)

During(stage) == \E d \in Call : pc[d] = stage

(* Setting up, activating, disabling **************************************)

\* setup: refused if MFA is enabled when it is read ...
BeginSetup(c) ==
    /\ pc[c] = "idle"
    /\ ~enabled
    /\ raced' = (raced \/ During("activating"))
    /\ Goto(c, "settingUp", 0)
    /\ UNCHANGED <<rows, proven, honoured, contended>>

\* ... and the upsert writes a new secret, not enabled; the recovery codes stay.
Setup(c) ==
    /\ pc[c] = "settingUp"
    /\ secret < MaxSecrets
    /\ secret' = secret + 1
    /\ enabled' = FALSE
    /\ End(c)
    /\ UNCHANGED <<codes, used, batches, ghosts>>

\* Mutant: whether there is a secret is not asked.
CheckNothing(c) ==
    /\ pc[c] = "idle"
    /\ raced' = (raced \/ During("settingUp"))
    /\ Goto(c, "activating", 0)
    /\ UNCHANGED <<rows, proven, honoured, contended>>

\* verifyAndActivate: the code is right for the secret that was read ...
CheckCode(c) ==
    /\ pc[c] = "idle"
    /\ secret # 0
    /\ proven' = proven \cup {secret}
    /\ raced' = (raced \/ During("settingUp"))
    /\ Goto(c, "activating", 0)
    /\ UNCHANGED <<rows, honoured, contended>>

\* ... and one transaction enables the secret that is there, with a new batch of codes.
Activate(c) ==
    /\ pc[c] = "activating"
    /\ batches < MaxBatches
    /\ batches' = batches + 1
    /\ enabled' = TRUE
    /\ codes' = batches + 1
    /\ used' = FALSE
    /\ End(c)
    /\ UNCHANGED <<secret, ghosts>>

\* disable, one transaction; without a row it fails.
Disable ==
    /\ secret # 0
    /\ enabled' = FALSE
    /\ codes' = 0
    /\ used' = FALSE
    /\ UNCHANGED <<secret, batches, ghosts, pc, job>>

(* The code of a login ****************************************************)

\* verifyChallenge: MFA is enabled, and the code is not the authenticator's ...
BeginVerify(c) ==
    /\ pc[c] = "idle"
    /\ enabled
    /\ Goto(c, "lookingUp", 0)
    /\ UNCHANGED <<rows, ghosts>>

\* ... so it is looked up among the unused recovery codes ...
LookUpCode(c) ==
    /\ pc[c] = "lookingUp"
    /\ codes # 0
    /\ ~used
    /\ Goto(c, "redeeming", codes)
    /\ contended' = IF \E d \in Call : pc[d] = "redeeming" /\ job[d] = codes
                    THEN contended \cup {codes} ELSE contended
    /\ UNCHANGED <<rows, proven, raced, honoured>>

\* ... and marked by its id: if its row has been deleted, the call fails.
RedeemCode(c) ==
    /\ pc[c] = "redeeming"
    /\ job[c] = codes
    /\ used' = TRUE
    /\ honoured' = [honoured EXCEPT ![codes] = @ + 1]
    /\ End(c)
    /\ UNCHANGED <<secret, enabled, codes, batches, proven, raced, contended>>

\* A call is refused, fails, or dies with its process.
Abandon(c) ==
    /\ pc[c] # "idle"
    /\ End(c)
    /\ UNCHANGED <<rows, ghosts>>

Next ==
    \/ \E c \in Call :
        \/ BeginSetup(c) \/ Setup(c) \/ CheckCode(c) \/ Activate(c)
        \/ BeginVerify(c) \/ LookUpCode(c) \/ RedeemCode(c)
        \/ Abandon(c)
    \/ Disable

Spec == Init /\ [][Next]_vars

(* Properties *************************************************************)

\* Every variable has its type; only a secret is enabled, only a code is used.
TypeOK ==
    /\ secret \in 0..MaxSecrets /\ enabled \in BOOLEAN
    /\ codes \in 0..batches /\ used \in BOOLEAN /\ batches \in 0..MaxBatches
    /\ proven \subseteq Secret /\ raced \in BOOLEAN
    /\ honoured \in [Batch -> Nat] /\ contended \subseteq Batch
    /\ pc \in [Call -> {"idle", "settingUp", "activating", "lookingUp", "redeeming"}]
    /\ job \in [Call -> 0..MaxBatches]
    /\ enabled => secret # 0
    /\ used => codes # 0

\* MFA is enabled with a secret that its user has shown a code of (unless a set-up
\* and an activation overlapped), and never without a batch of recovery codes.
EnabledIsProven ==
    enabled => codes # 0 /\ (raced \/ secret \in proven)

\* A recovery code is honoured once, across activations and set-ups, unless two
\* requests had found it unused before either marked it.
CodeOnce ==
    \A b \in Batch : b \in contended \/ honoured[b] <= 1

=============================================================================
