------------------------------ MODULE Sessions ------------------------------
(***************************************************************************)
(* The sessions of one user (apps/api/src/auth/auth.service.ts): logins,   *)
(* with or without a second factor, refresh tokens that are exchanged for  *)
(* new ones, detected reuse and password resets.  Each await is a step,    *)
(* and a call may end after any of them, by an error or with its process.  *)
(* The user's second factor may be enabled or disabled at any time, so     *)
(* what isEnabled answers is left open; module SecondFactor has the rest.  *)
(*                                                                         *)
(* A session whose refresh token is presented again, and a password reset, *)
(* revoke every session: both are sweeps.  Passwords and codes are         *)
(* presented right or refused; a refused one, like an expired token,       *)
(* changes nothing and is left out.                                        *)
(***************************************************************************)
EXTENDS Naturals

CONSTANTS Call, ResetToken,
          MaxSessions   \* a bound

ASSUME SessionsAssumption == MaxSessions \in Nat

Session == 1..MaxSessions

VARIABLES
    issued,       \* how many rows Session has; the others do not exist yet
    live,         \* revokedAt is null
    parent,       \* the session it was exchanged for, 0 after a login
    swept,        \* there has been a sweep since the login it goes back to began
    late,         \* a call that it goes back to was in flight during a sweep
    challenges,   \* MFA challenge tokens: whether there has been a sweep since their login
    reset,        \* PasswordResetToken
    honoured,     \* how often a reset token was honoured
    contended,    \* the tokens that two requests had found valid before either used it
    pc, job       \* where each call is, and what it holds

sessionVars == <<issued, live, parent, swept, late>>
resetVars == <<reset, honoured>>
vars == <<sessionVars, challenges, resetVars, contended, pc, job>>

Stage == {"idle", "known", "rotating", "reused", "issuing", "resetting"}
Holding(s, o, l, x) == [session |-> s, swept |-> o, late |-> l, item |-> x]
Nothing == <<"none", 0>>
NoJob == Holding(0, FALSE, FALSE, Nothing)
Item == {Nothing} \cup ({"session"} \X Session) \cup ({"reset"} \X ResetToken)

Init ==
    /\ issued = 0
    /\ live = [s \in Session |-> FALSE]
    /\ parent = [s \in Session |-> 0]
    /\ swept = [s \in Session |-> FALSE]
    /\ late = [s \in Session |-> FALSE]
    /\ challenges = {}
    /\ reset = [t \in ResetToken |-> "none"]
    /\ honoured = [t \in ResetToken |-> 0]
    /\ contended = {}
    /\ pc = [c \in Call |-> "idle"]
    /\ job = [c \in Call |-> NoJob]

Goto(c, stage, work) ==
    /\ pc' = [pc EXCEPT ![c] = stage]
    /\ job' = [job EXCEPT ![c] = work]
End(c) == Goto(c, "idle", NoJob)

\* Another call has read x and not yet acted on it.
Presented(c, stage, x) == \E d \in Call \ {c} : pc[d] = stage /\ job[d].item = x
Contend(c, stage, x) ==
    contended' = IF Presented(c, stage, x) THEN contended \cup {x} ELSE contended

(* Logging in *************************************************************)

\* login: the row is read, and the password agrees with its hash; or a provider
\* vouches for the user (finishLogin).
Identify(c) ==
    /\ pc[c] = "idle"
    /\ Goto(c, "known", NoJob)
    /\ UNCHANGED <<sessionVars, challenges, resetVars, contended>>

\* finishLogin: with MFA the call ends with a challenge token.
Challenge(c) ==
    /\ pc[c] = "known"
    /\ challenges' = challenges \cup {job[c].swept}
    /\ End(c)
    /\ UNCHANGED <<sessionVars, resetVars, contended>>

GoOn(c) ==
    /\ pc[c] = "known"
    /\ Goto(c, "issuing", job[c])
    /\ UNCHANGED <<sessionVars, challenges, resetVars, contended>>

\* completeMfaChallenge: the challenge token may come long after its login, and
\* more than once; the code is right.
CompleteChallenge(c, b) ==
    /\ pc[c] = "idle"
    /\ b \in challenges
    /\ Goto(c, "issuing", Holding(0, b, b, Nothing))
    /\ UNCHANGED <<sessionVars, challenges, resetVars, contended>>

\* issueTokens: a new session, of no family or of the one it was exchanged for.
Issue(c) ==
    /\ pc[c] = "issuing"
    /\ issued < MaxSessions
    /\ issued' = issued + 1
    /\ live' = [live EXCEPT ![issued + 1] = TRUE]
    /\ parent' = [parent EXCEPT ![issued + 1] = job[c].session]
    /\ swept' = [swept EXCEPT ![issued + 1] = job[c].swept]
    /\ late' = [late EXCEPT ![issued + 1] = job[c].late]
    /\ End(c)
    /\ UNCHANGED <<challenges, resetVars, contended>>

(* Refresh, revocation, reset *********************************************)

\* refresh: the session is read by its token's hash ...
PresentToken(c, s) ==
    /\ pc[c] = "idle"
    /\ s <= issued
    /\ live[s]
    /\ Goto(c, "rotating", Holding(s, swept[s], late[s], <<"session", s>>))
    /\ Contend(c, "rotating", <<"session", s>>)
    /\ UNCHANGED <<sessionVars, challenges, resetVars>>

\* Mutant: the old token is left as it is.
RotateNothing(c) ==
    /\ pc[c] = "rotating"
    /\ Goto(c, "issuing", Holding(job[c].session, job[c].swept, job[c].late, Nothing))
    /\ UNCHANGED <<sessionVars, challenges, resetVars, contended>>

\* ... its token is revoked, whatever has become of it, and a new one is issued.
Rotate(c) ==
    /\ pc[c] = "rotating"
    /\ live' = [live EXCEPT ![job[c].session] = FALSE]
    /\ Goto(c, "issuing", Holding(job[c].session, job[c].swept, job[c].late, Nothing))
    /\ UNCHANGED <<issued, parent, swept, late, challenges, resetVars, contended>>

PresentRevoked(c, s) ==
    /\ pc[c] = "idle"
    /\ s <= issued
    /\ ~live[s]
    /\ Goto(c, "reused", Holding(s, FALSE, FALSE, Nothing))
    /\ UNCHANGED <<sessionVars, challenges, resetVars, contended>>

\* What a sweep by call c overtakes: every session and challenge there is, and the
\* other calls that will issue a session.
Overtake(c) ==
    /\ swept' = [s \in Session |-> s <= issued]
    /\ challenges' = IF challenges = {} THEN {} ELSE {TRUE}
    /\ pc' = [pc EXCEPT ![c] = "idle"]
    /\ job' = [d \in Call |->
                IF d = c THEN NoJob
                ELSE IF pc[d] \in {"known", "rotating", "issuing"}
                     THEN Holding(job[d].session, TRUE, TRUE, job[d].item)
                     ELSE job[d]]

\* Every session is revoked, the presented token's among them.
RevokeAll(c) ==
    /\ pc[c] = "reused"
    /\ live' = [s \in Session |-> FALSE]
    /\ Overtake(c)
    /\ UNCHANGED <<issued, parent, late, resetVars, contended>>

\* revokeSession: by id, revoked or not.
RevokeSession(s) ==
    /\ s <= issued
    /\ live' = [live EXCEPT ![s] = FALSE]
    /\ UNCHANGED <<issued, parent, swept, late, challenges, resetVars, contended, pc, job>>

RequestPasswordReset(t) ==
    /\ reset[t] = "none"
    /\ reset' = [reset EXCEPT ![t] = "open"]
    /\ UNCHANGED <<sessionVars, challenges, honoured, contended, pc, job>>

\* confirmPasswordReset: the token is checked, the new password hashed ...
PresentReset(c, t) ==
    /\ pc[c] = "idle"
    /\ reset[t] = "open"
    /\ Goto(c, "resetting", Holding(0, FALSE, FALSE, <<"reset", t>>))
    /\ Contend(c, "resetting", <<"reset", t>>)
    /\ UNCHANGED <<sessionVars, challenges, resetVars>>

\* Mutant: the token is not consumed.
ResetAgain(c) ==
    /\ pc[c] = "resetting"
    /\ honoured' = [honoured EXCEPT ![job[c].item[2]] = @ + 1]
    /\ live' = [s \in Session |-> FALSE]
    /\ Overtake(c)
    /\ UNCHANGED <<issued, parent, late, reset, contended>>

\* Mutant: the password changes and the sessions stay.
ResetPasswordOnly(c) ==
    /\ pc[c] = "resetting"
    /\ reset' = [reset EXCEPT ![job[c].item[2]] = "consumed"]
    /\ honoured' = [honoured EXCEPT ![job[c].item[2]] = @ + 1]
    /\ Overtake(c)
    /\ UNCHANGED <<issued, live, parent, late, contended>>

\* ... and one transaction writes the password, the token and every session.
ConfirmReset(c) ==
    /\ pc[c] = "resetting"
    /\ reset' = [reset EXCEPT ![job[c].item[2]] = "consumed"]
    /\ honoured' = [honoured EXCEPT ![job[c].item[2]] = @ + 1]
    /\ live' = [s \in Session |-> FALSE]
    /\ Overtake(c)
    /\ UNCHANGED <<issued, parent, late, contended>>

\* A call is refused, fails, or dies with its process.
Abandon(c) ==
    /\ pc[c] # "idle"
    /\ End(c)
    /\ UNCHANGED <<sessionVars, challenges, resetVars, contended>>

Next ==
    \/ \E c \in Call :
        \/ Identify(c) \/ Challenge(c) \/ GoOn(c) \/ Issue(c)
        \/ \E b \in challenges : CompleteChallenge(c, b)
        \/ \E s \in Session : PresentToken(c, s) \/ PresentRevoked(c, s)
        \/ Rotate(c) \/ RevokeAll(c) \/ ConfirmReset(c)
        \/ \E t \in ResetToken : PresentReset(c, t)
        \/ Abandon(c)
    \/ \E s \in Session : RevokeSession(s)
    \/ \E t \in ResetToken : RequestPasswordReset(t)

Spec == Init /\ [][Next]_vars

(* Properties *************************************************************)

\* Every variable has its type, and a session is younger than the one it replaced.
TypeOK ==
    /\ issued \in 0..MaxSessions
    /\ live \in [Session -> BOOLEAN] /\ late \in [Session -> BOOLEAN]
    /\ parent \in [Session -> 0..MaxSessions] /\ swept \in [Session -> BOOLEAN]
    /\ \A s \in Session : parent[s] < s
    /\ challenges \subseteq BOOLEAN
    /\ reset \in [ResetToken -> {"none", "open", "consumed"}]
    /\ honoured \in [ResetToken -> Nat]
    /\ contended \subseteq Item
    /\ pc \in [Call -> Stage]
    /\ job \in [Call -> [session : 0..MaxSessions, swept : BOOLEAN, late : BOOLEAN, item : Item]]

\* What a reset or a detected reuse has swept stays swept: every session that is
\* live goes back to a login that began after the last sweep, unless a call of its
\* family was in flight (or its challenge unanswered) while a sweep passed it.
SweepsEndSessions ==
    \A s \in Session : live[s] => late[s] \/ ~swept[s]

\* Rotation is a chain: a token that has been exchanged is dead, and it was exchanged
\* once, unless two refreshes had read it before either revoked it.
RotationIsLinear ==
    \A s, x \in Session :
        /\ s <= issued /\ parent[s] # 0 => ~live[parent[s]]
        /\ s <= issued /\ x <= issued /\ parent[s] = parent[x] /\ parent[s] # 0 /\ s # x
              => <<"session", parent[s]>> \in contended

\* A reset token is honoured once, unless two requests had found it unused before
\* either used it.
ResetOnce ==
    \A t \in ResetToken : <<"reset", t>> \in contended \/ honoured[t] <= 1

=============================================================================
