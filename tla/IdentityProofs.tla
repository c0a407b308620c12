--------------------------- MODULE IdentityProofs ---------------------------
(***************************************************************************)
(* Proofs about Sessions, SecondFactor and Members, for any number of      *)
(* calls, sessions, reset tokens, batches of codes, persons and invites.   *)
(* Each needs to know what a call in flight may still do: one that will    *)
(* issue a session has noted the sweeps that passed it; one that has read  *)
(* a token, a code or an invite has a claim on it which every other claim  *)
(* knows about; one that changes a member was admitted by another.         *)
(***************************************************************************)
EXTENDS MCIdentity, TLAPS


Job == [session : 0..MaxSessions, swept : BOOLEAN, late : BOOLEAN, item : Item]

\* What a call holds at each stage.
CallsFit ==
    \A c \in Call :
        /\ pc[c] = "known" => job[c].session = 0
        /\ pc[c] = "rotating" => /\ job[c].session \in 1..issued
                                 /\ job[c].item = <<"session", job[c].session>>
        /\ pc[c] = "issuing" => job[c].session \in 0..issued

\* Only a session that exists is live, and one that a sweep has passed is not, unless
\* it was issued late; a call that will issue one knows whether it is late.
SweepInv ==
    /\ \A s \in Session : live[s] => s <= issued
    /\ SweepsEndSessions
    /\ \A c \in Call : pc[c] \in {"known", "rotating", "issuing"} =>
                           (job[c].swept => job[c].late)

Claims(c, p) == pc[c] \in {"rotating", "issuing"} /\ job[c].session = p
Child(s, p) == s <= issued /\ parent[s] = p
Shared(p) == <<"session", p>> \in contended

\* A token is dead once it was exchanged, or while it is being exchanged.
DeadInv ==
    /\ \A s, p \in Session : Child(s, p) => ~live[p]
    /\ \A c \in Call, p \in Session : pc[c] = "issuing" /\ job[c].session = p => ~live[p]

\* Two claims on a token, a claim and a successor, or two successors, are what two
\* requests have made that had both found it live.
ClaimInv ==
    /\ \A c, d \in Call, p \in Session : Claims(c, p) /\ Claims(d, p) => c = d \/ Shared(p)
    /\ \A c \in Call, s, p \in Session : Claims(c, p) /\ Child(s, p) => Shared(p)
    /\ \A s, x, p \in Session : Child(s, p) /\ Child(x, p) => s = x \/ Shared(p)

IInv == TypeOK /\ CallsFit /\ SweepInv /\ DeadInv /\ ClaimInv

-----------------------------------------------------------------------------
(* How calls move on *)

CallsTyped == pc \in [Call -> Stage] /\ job \in [Call -> Job]

Alone(c) == \A d \in Call \ {c} : pc'[d] = pc[d] /\ job'[d] = job[d]
Moved(c, stage, work) == pc'[c] = stage /\ job'[c] = work /\ Alone(c)

LEMMA GotoMoves ==
    ASSUME CallsTyped, NEW c \in Call, NEW stage \in Stage, NEW work \in Job,
           Goto(c, stage, work)
    PROVE  Moved(c, stage, work) /\ CallsTyped'
  BY DEF Goto, Moved, Alone, CallsTyped

LEMMA HoldingIsAJob ==
    ASSUME NEW s \in 0..MaxSessions, NEW o \in BOOLEAN, NEW l \in BOOLEAN, NEW x \in Item
    PROVE  Holding(s, o, l, x) \in Job
  BY DEF Holding, Job

LEMMA NoJobIsAJob == NoJob \in Job /\ NoJob.session = 0 /\ Nothing \in Item
  <1>1. Nothing \in Item /\ 0 \in 0..MaxSessions
    BY SessionsAssumption DEF Item
  <1> QED
    BY <1>1, HoldingIsAJob DEF NoJob, Holding

\* The call is given something to do that claims no token, and no session changes.
Idle(c) ==
    /\ Alone(c) /\ UNCHANGED sessionVars /\ contended \subseteq contended'
    /\ \/ pc'[c] \in {"idle", "reused", "resetting"}
       \/ /\ pc'[c] \in {"known", "issuing"} /\ job'[c].session = 0
          /\ job'[c].swept => job'[c].late

\* A call has read a live session's token.
Presents(c, s) ==
    /\ s <= issued /\ live[s] /\ UNCHANGED sessionVars
    /\ Moved(c, "rotating", Holding(s, swept[s], late[s], <<"session", s>>))
    /\ contended \subseteq contended'
    /\ \A d \in Call \ {c} : pc[d] = "rotating" /\ job[d].item = <<"session", s>> => Shared(s)'

Rotates(c) ==
    /\ pc[c] = "rotating"
    /\ Moved(c, "issuing", Holding(job[c].session, job[c].swept, job[c].late, Nothing))
    /\ live' = [live EXCEPT ![job[c].session] = FALSE]
    /\ UNCHANGED <<issued, parent, swept, late, contended>>

Issues(c) ==
    /\ pc[c] = "issuing" /\ issued < MaxSessions /\ issued' = issued + 1
    /\ live' = [live EXCEPT ![issued + 1] = TRUE]
    /\ parent' = [parent EXCEPT ![issued + 1] = job[c].session]
    /\ swept' = [swept EXCEPT ![issued + 1] = job[c].swept]
    /\ late' = [late EXCEPT ![issued + 1] = job[c].late]
    /\ UNCHANGED contended /\ pc'[c] = "idle" /\ Alone(c)

Sweeps(c) ==
    /\ live' = [s \in Session |-> FALSE]
    /\ UNCHANGED <<issued, parent, late, contended>>
    /\ pc'[c] = "idle"
    /\ \A d \in Call \ {c} :
        /\ pc'[d] = pc[d] /\ job'[d].session = job[d].session /\ job'[d].item = job[d].item
        /\ pc[d] \in {"known", "rotating", "issuing"} => job'[d].late

Revokes(s) ==
    /\ live' = [live EXCEPT ![s] = FALSE]
    /\ UNCHANGED <<issued, parent, swept, late, contended, pc, job>>

Rests == UNCHANGED <<sessionVars, contended, pc, job>>

Effect == \/ Rests
          \/ \E c \in Call : Idle(c) \/ Rotates(c) \/ Issues(c) \/ Sweeps(c)
          \/ \E c \in Call, s \in Session : Presents(c, s)
          \/ \E s \in Session : Revokes(s)

\* What is known before a step.
Known == TypeOK /\ CallsFit /\ SweepInv

\* A call gets something to do that claims no token.
LEMMA IdleShape ==
    ASSUME CallsTyped, NEW c \in Call, NEW stage \in Stage, NEW work \in Job,
           Goto(c, stage, work), UNCHANGED sessionVars, contended \subseteq contended',
           \/ stage \in {"idle", "reused", "resetting"}
           \/ /\ stage \in {"known", "issuing"} /\ work.session = 0
              /\ work.swept => work.late
    PROVE  Idle(c) /\ CallsTyped'
  <1>1. Moved(c, stage, work) /\ CallsTyped'
    BY GotoMoves
  <1> QED
    BY <1>1 DEF Idle, Moved

LEMMA ContendGrows ==
    ASSUME NEW c, NEW stage, NEW x, Contend(c, stage, x)
    PROVE  contended \subseteq contended'
  BY DEF Contend

LEMMA OvertakeShape ==
    ASSUME CallsTyped, NEW c \in Call, Overtake(c), live' = [s \in Session |-> FALSE],
           UNCHANGED <<issued, parent, late, contended>>
    PROVE  Sweeps(c) /\ CallsTyped'
  <1> DEFINE New(d) == IF d = c THEN NoJob
                       ELSE IF pc[d] \in {"known", "rotating", "issuing"}
                            THEN Holding(job[d].session, TRUE, TRUE, job[d].item)
                            ELSE job[d]
  <1>1. \A d \in Call : New(d) \in Job
    <2>1. \A d \in Call : job[d] \in Job
      BY DEF CallsTyped
    <2>2. \A d \in Call : Holding(job[d].session, TRUE, TRUE, job[d].item) \in Job
      BY <2>1, HoldingIsAJob DEF Job
    <2> QED
      BY <2>1, <2>2, NoJobIsAJob
  <1>2. job' = [d \in Call |-> New(d)]
    BY DEF Overtake
  <1>3. pc' = [pc EXCEPT ![c] = "idle"] /\ "idle" \in Stage
    BY DEF Overtake, Stage
  <1>4. CallsTyped'
    BY <1>1, <1>2, <1>3 DEF CallsTyped
  <1>5. \A d \in Call \ {c} :
        /\ pc'[d] = pc[d] /\ job'[d].session = job[d].session /\ job'[d].item = job[d].item
        /\ pc[d] \in {"known", "rotating", "issuing"} => job'[d].late
    BY <1>2, <1>3 DEF CallsTyped, Holding
  <1> QED
    BY <1>3, <1>4, <1>5 DEF Sweeps, CallsTyped

-----------------------------------------------------------------------------
(* Every step has one of these effects *)

LEMMA LoginShape ==
    ASSUME Known, NEW c \in Call,
           \/ Identify(c) \/ Challenge(c) \/ GoOn(c)
           \/ \E b \in challenges : CompleteChallenge(c, b)
    PROVE  Idle(c) /\ CallsTyped'
  <1>0. CallsTyped /\ job[c] \in Job /\ contended \subseteq contended
    BY DEF Known, TypeOK, CallsTyped, Job
  <1>1. CASE Identify(c)
    <2>1. "known" \in Stage /\ NoJob.swept = FALSE
      BY DEF Stage, NoJob, Holding
    <2> QED
      BY <1>0, <1>1, <2>1, NoJobIsAJob, IdleShape DEF Identify
  <1>2. CASE Challenge(c)
    <2>1. "idle" \in Stage
      BY DEF Stage
    <2> QED
      BY <1>0, <1>2, <2>1, NoJobIsAJob, IdleShape DEF Challenge, End
  <1>3. CASE GoOn(c)
    <2>1. "issuing" \in Stage
      BY DEF Stage
    <2>2. job[c].session = 0 /\ (job[c].swept => job[c].late)
      BY <1>3 DEF GoOn, Known, CallsFit, SweepInv
    <2> QED
      BY <1>0, <1>3, <2>1, <2>2, IdleShape DEF GoOn
  <1>4. ASSUME NEW b \in challenges, CompleteChallenge(c, b)
        PROVE  Idle(c) /\ CallsTyped'
    <2>1. "issuing" \in Stage /\ b \in BOOLEAN /\ 0 \in 0..MaxSessions
      BY SessionsAssumption DEF Stage, Known, TypeOK
    <2>2. Holding(0, b, b, Nothing) \in Job
      BY <2>1, HoldingIsAJob, NoJobIsAJob
    <2>3. Holding(0, b, b, Nothing).session = 0
          /\ (Holding(0, b, b, Nothing).swept => Holding(0, b, b, Nothing).late)
      BY DEF Holding
    <2> QED
      BY <1>0, <1>4, <2>1, <2>2, <2>3, IdleShape DEF CompleteChallenge
  <1> QED
    BY <1>1, <1>2, <1>3, <1>4

LEMMA OtherShape ==
    ASSUME Known, NEW c \in Call,
           \/ \E s \in Session : PresentRevoked(c, s)
           \/ \E t \in ResetToken : PresentReset(c, t)
           \/ Abandon(c)
    PROVE  Idle(c) /\ CallsTyped'
  <1>0. CallsTyped /\ contended \subseteq contended
    BY DEF Known, TypeOK, CallsTyped, Job
  <1>00. "idle" \in Stage /\ "reused" \in Stage /\ "resetting" \in Stage
    BY DEF Stage
  <1>1. ASSUME NEW s \in Session, PresentRevoked(c, s)
        PROVE  Idle(c) /\ CallsTyped'
    <2>1. s \in 0..MaxSessions
      BY SessionsAssumption DEF Session
    <2>2. Holding(s, FALSE, FALSE, Nothing) \in Job
      BY <2>1, HoldingIsAJob, NoJobIsAJob
    <2> QED
      BY <1>0, <1>00, <1>1, <2>2, IdleShape DEF PresentRevoked
  <1>2. ASSUME NEW t \in ResetToken, PresentReset(c, t)
        PROVE  Idle(c) /\ CallsTyped'
    <2>1. 0 \in 0..MaxSessions /\ <<"reset", t>> \in Item
      BY SessionsAssumption DEF Item
    <2>2. Holding(0, FALSE, FALSE, <<"reset", t>>) \in Job
      BY <2>1, HoldingIsAJob
    <2>3. contended \subseteq contended'
      BY <1>2, ContendGrows DEF PresentReset
    <2> QED
      BY <1>0, <1>00, <1>2, <2>2, <2>3, IdleShape DEF PresentReset
  <1>3. CASE Abandon(c)
    BY <1>0, <1>00, <1>3, NoJobIsAJob, IdleShape DEF Abandon, End
  <1> QED
    BY <1>1, <1>2, <1>3

LEMMA PresentShape ==
    ASSUME Known, NEW c \in Call, NEW s \in Session, PresentToken(c, s)
    PROVE  Presents(c, s) /\ CallsTyped'
  <1> DEFINE x == <<"session", s>>
  <1>0. CallsTyped
    BY DEF Known, TypeOK, CallsTyped, Job
  <1>1. x \in Item /\ s \in 0..MaxSessions /\ swept[s] \in BOOLEAN /\ late[s] \in BOOLEAN
    BY SessionsAssumption DEF Item, Known, TypeOK, Session
  <1>2. Holding(s, swept[s], late[s], x) \in Job /\ "rotating" \in Stage
    BY <1>1, HoldingIsAJob DEF Stage
  <1>3. Moved(c, "rotating", Holding(s, swept[s], late[s], x)) /\ CallsTyped'
    BY <1>0, <1>2, GotoMoves DEF PresentToken
  <1>4. contended \subseteq contended'
    BY ContendGrows DEF PresentToken
  <1>5. \A d \in Call \ {c} : pc[d] = "rotating" /\ job[d].item = x => x \in contended'
    BY DEF PresentToken, Contend, Presented
  <1> QED
    BY <1>3, <1>4, <1>5 DEF PresentToken, Presents, Shared

LEMMA RotateShape ==
    ASSUME Known, NEW c \in Call, Rotate(c)
    PROVE  Rotates(c) /\ CallsTyped'
  <1>0. CallsTyped /\ job[c] \in Job
    BY DEF Known, TypeOK, CallsTyped, Job
  <1>1. Holding(job[c].session, job[c].swept, job[c].late, Nothing) \in Job /\ "issuing" \in Stage
    BY <1>0, HoldingIsAJob, NoJobIsAJob DEF Job, Stage
  <1>2. /\ Moved(c, "issuing", Holding(job[c].session, job[c].swept, job[c].late, Nothing))
        /\ CallsTyped'
    BY <1>0, <1>1, GotoMoves DEF Rotate
  <1> QED
    BY <1>2 DEF Rotate, Rotates

LEMMA IssueShape ==
    ASSUME Known, NEW c \in Call, Issue(c)
    PROVE  Issues(c) /\ CallsTyped'
  <1>0. CallsTyped /\ "idle" \in Stage
    BY DEF Known, TypeOK, CallsTyped, Job, Stage
  <1>1. Moved(c, "idle", NoJob) /\ CallsTyped'
    BY <1>0, NoJobIsAJob, GotoMoves DEF Issue, End
  <1> QED
    BY <1>1 DEF Issue, Issues, Moved

LEMMA StepShape ==
    ASSUME Known, Next
    PROVE  Effect /\ CallsTyped'
  <1>0. CallsTyped
    BY DEF Known, TypeOK, CallsTyped, Job
  <1>1. ASSUME NEW c \in Call, RevokeAll(c) \/ ConfirmReset(c)
        PROVE  Effect /\ CallsTyped'
    <2>1. Sweeps(c) /\ CallsTyped'
      BY <1>0, <1>1, OvertakeShape DEF RevokeAll, ConfirmReset
    <2> QED
      BY <2>1 DEF Effect
  <1>2. ASSUME NEW s \in Session, RevokeSession(s)
        PROVE  Effect /\ CallsTyped'
    <2>1. Revokes(s) /\ CallsTyped'
      BY <1>0, <1>2 DEF RevokeSession, Revokes, CallsTyped
    <2> QED
      BY <2>1 DEF Effect
  <1>3. ASSUME NEW t \in ResetToken, RequestPasswordReset(t)
        PROVE  Effect /\ CallsTyped'
    <2>1. Rests /\ UNCHANGED pc /\ UNCHANGED job
      BY <1>3 DEF RequestPasswordReset, Rests
    <2> QED
      BY <1>0, <2>1 DEF CallsTyped, Effect
  <1>4. ASSUME NEW c \in Call, Idle(c) \/ Rotates(c) \/ Issues(c)
        PROVE  Effect
    BY <1>4 DEF Effect
  <1>5. ASSUME NEW c \in Call, NEW s \in Session, Presents(c, s)
        PROVE  Effect
    BY <1>5 DEF Effect
  <1> QED
    BY <1>1, <1>2, <1>3, <1>4, <1>5, LoginShape, OtherShape, PresentShape, RotateShape, IssueShape
    DEF Next

-----------------------------------------------------------------------------
(* Types, and what calls hold *)

LEMMA SessionTypes ==
    ASSUME Known, Effect
    PROVE  /\ issued' \in 0..MaxSessions /\ issued <= issued'
           /\ live' \in [Session -> BOOLEAN] /\ late' \in [Session -> BOOLEAN]
           /\ parent' \in [Session -> 0..MaxSessions] 
           /\ \A s \in Session : parent'[s] < s
  <1>0. /\ issued \in 0..MaxSessions /\ MaxSessions \in Nat
        /\ live \in [Session -> BOOLEAN] /\ late \in [Session -> BOOLEAN]
        /\ parent \in [Session -> 0..MaxSessions]
        /\ \A s \in Session : parent[s] < s
        /\ \A c \in Call : job[c] \in Job
    BY SessionsAssumption DEF Known, TypeOK, Job
  <1>1. ASSUME NEW c \in Call, Issues(c)
        PROVE  /\ issued' \in 0..MaxSessions /\ issued <= issued'
               /\ live' \in [Session -> BOOLEAN] /\ late' \in [Session -> BOOLEAN]
               /\ parent' \in [Session -> 0..MaxSessions]
               /\ \A s \in Session : parent'[s] < s
    <2>1. job[c].session \in 0..issued /\ job[c].late \in BOOLEAN
      BY <1>0, <1>1 DEF Known, CallsFit, Issues, Job
    <2>2. issued' = issued + 1 /\ issued + 1 \in Session /\ issued + 1 \in 0..MaxSessions
      BY <1>0, <1>1 DEF Issues, Session
    <2>3. live' \in [Session -> BOOLEAN] /\ late' \in [Session -> BOOLEAN]
      BY <1>0, <1>1, <2>1, <2>2 DEF Issues
    <2>4. parent' = [parent EXCEPT ![issued + 1] = job[c].session]
          /\ job[c].session \in 0..MaxSessions /\ job[c].session < issued + 1
      BY <1>0, <1>1, <2>1 DEF Issues
    <2>5. parent' \in [Session -> 0..MaxSessions]
      BY <1>0, <2>4
    <2>6. \A s \in Session : parent'[s] < s
      BY <1>0, <2>2, <2>4 DEF Session
    <2> QED
      BY <1>0, <2>2, <2>3, <2>5, <2>6
  <1>2. CASE \/ Rests
             \/ \E c \in Call : Idle(c)
             \/ \E c \in Call, s \in Session : Presents(c, s)
    <2>1. UNCHANGED <<issued, live, late, parent>>
      BY <1>2 DEF Rests, Idle, Presents, sessionVars
    <2> QED
      BY <1>0, <2>1
  <1>3. CASE \/ \E c \in Call : Rotates(c) \/ Sweeps(c)
             \/ \E s \in Session : Revokes(s)
    <2>1. UNCHANGED <<issued, late, parent>> /\ live' \in [Session -> BOOLEAN]
      BY <1>0, <1>3 DEF Rotates, Sweeps, Revokes
    <2> QED
      BY <1>0, <2>1
  <1> QED
    BY <1>1, <1>2, <1>3 DEF Effect

LEMMA SweptType ==
    ASSUME Known, Next
    PROVE  swept' \in [Session -> BOOLEAN]
  <1>0. swept \in [Session -> BOOLEAN] /\ \A c \in Call : job[c].swept \in BOOLEAN
    BY DEF Known, TypeOK
  <1>1. CASE \E c \in Call : Overtake(c)
    BY <1>1 DEF Overtake, Session
  <1>2. CASE \E c \in Call : Issue(c)
    BY <1>0, <1>2 DEF Issue
  <1>3. CASE UNCHANGED swept
    BY <1>0, <1>3
  <1> QED
    BY <1>1, <1>2, <1>3 DEF Next, Identify, Challenge, GoOn, CompleteChallenge, PresentToken,
       PresentRevoked, Rotate, RevokeAll, ConfirmReset, PresentReset, Abandon, RevokeSession,
       RequestPasswordReset, sessionVars

LEMMA ResetTypes ==
    ASSUME TypeOK, Next
    PROVE  /\ reset' \in [ResetToken -> {"none", "open", "consumed"}]
           /\ honoured' \in [ResetToken -> Nat]
  <1>1. ASSUME NEW c \in Call, ConfirmReset(c)
        PROVE  /\ reset' \in [ResetToken -> {"none", "open", "consumed"}]
               /\ honoured' \in [ResetToken -> Nat]
    <2> DEFINE t == job[c].item[2]
    <2>1. reset' = [reset EXCEPT ![t] = "consumed"] /\ honoured' = [honoured EXCEPT ![t] = @ + 1]
      BY <1>1 DEF ConfirmReset
    <2> HIDE DEF t
    <2>2. reset' \in [ResetToken -> {"none", "open", "consumed"}]
      BY <2>1 DEF TypeOK
    <2>3. honoured \in [ResetToken -> Nat]
      BY DEF TypeOK
    <2>4. honoured' \in [ResetToken -> Nat]
      <3>1. CASE t \in ResetToken
        BY <2>1, <2>3, <3>1
      <3>2. CASE t \notin ResetToken
        <4>1. honoured' = honoured
          BY <2>1, <2>3, <3>2
        <4> QED
          BY <2>3, <4>1
      <3> QED
        BY <3>1, <3>2
    <2> QED
      BY <2>2, <2>4
  <1>2. ASSUME NEW t \in ResetToken, RequestPasswordReset(t)
        PROVE  /\ reset' \in [ResetToken -> {"none", "open", "consumed"}]
               /\ honoured' \in [ResetToken -> Nat]
    BY <1>2 DEF RequestPasswordReset, TypeOK
  <1>3. CASE UNCHANGED resetVars
    BY <1>3 DEF TypeOK, resetVars
  <1> QED
    BY <1>1, <1>2, <1>3 DEF Next, Identify, Challenge, GoOn, Issue, CompleteChallenge, PresentToken,
       PresentRevoked, Rotate, RevokeAll, PresentReset, Abandon, RevokeSession, resetVars

LEMMA ContendType ==
    ASSUME NEW c, NEW stage, NEW x \in Item, Contend(c, stage, x), contended \subseteq Item
    PROVE  contended' \subseteq Item
  BY DEF Contend

LEMMA MarkTypes ==
    ASSUME TypeOK, Next
    PROVE  challenges' \subseteq BOOLEAN /\ contended' \subseteq Item
  <1>0. challenges \subseteq BOOLEAN /\ contended \subseteq Item
        /\ \A c \in Call : job[c].swept \in BOOLEAN
    BY DEF TypeOK
  <1>1. challenges' \subseteq BOOLEAN
    BY <1>0 DEF Next, Identify, Challenge, GoOn, Issue, CompleteChallenge, PresentToken, PresentRevoked,
       Rotate, RevokeAll, ConfirmReset, Overtake, PresentReset, Abandon, RevokeSession,
       RequestPasswordReset
  <1>2. ASSUME NEW c \in Call, NEW s \in Session, PresentToken(c, s)
        PROVE  contended' \subseteq Item
    <2>1. <<"session", s>> \in Item /\ Contend(c, "rotating", <<"session", s>>)
      BY <1>2 DEF PresentToken, Item
    <2> QED
      BY <1>0, <2>1, ContendType
  <1>3. ASSUME NEW c \in Call, NEW t \in ResetToken, PresentReset(c, t)
        PROVE  contended' \subseteq Item
    <2>1. <<"reset", t>> \in Item /\ Contend(c, "resetting", <<"reset", t>>)
      BY <1>3 DEF PresentReset, Item
    <2> QED
      BY <1>0, <2>1, ContendType
  <1>4. ASSUME UNCHANGED contended
        PROVE  contended' \subseteq Item
    BY <1>0, <1>4
  <1>5. contended' \subseteq Item
    BY <1>2, <1>3, <1>4 DEF Next, Identify, Challenge, GoOn, Issue, CompleteChallenge, PresentRevoked,
       Rotate, RevokeAll, ConfirmReset, Abandon, RevokeSession, RequestPasswordReset
  <1> QED
    BY <1>1, <1>5

LEMMA FitStep ==
    ASSUME Known, Effect
    PROVE  CallsFit'
  <1>0. issued \in 0..MaxSessions /\ \A s \in Session : s \in Nat /\ s >= 1
    BY SessionsAssumption DEF Known, TypeOK, Session
  <1>1. CASE Rests
    BY <1>1 DEF Rests, Known, CallsFit, sessionVars
  <1>2. ASSUME NEW c \in Call, Idle(c)
        PROVE  CallsFit'
    BY <1>0, <1>2 DEF Idle, Alone, Known, CallsFit, sessionVars
  <1>3. ASSUME NEW c \in Call, Rotates(c)
        PROVE  CallsFit'
    BY <1>0, <1>3 DEF Rotates, Moved, Alone, Known, CallsFit, Holding
  <1>4. ASSUME NEW c \in Call, Issues(c)
        PROVE  CallsFit'
    BY <1>0, <1>4 DEF Issues, Alone, Known, CallsFit
  <1>5. ASSUME NEW c \in Call, Sweeps(c)
        PROVE  CallsFit'
    BY <1>0, <1>5 DEF Sweeps, Known, CallsFit
  <1>6. ASSUME NEW c \in Call, NEW s \in Session, Presents(c, s)
        PROVE  CallsFit'
    BY <1>0, <1>6 DEF Presents, Moved, Alone, Known, CallsFit, Holding, sessionVars
  <1>7. ASSUME NEW s \in Session, Revokes(s)
        PROVE  CallsFit'
    BY <1>7 DEF Revokes, Known, CallsFit
  <1> QED
    BY <1>1, <1>2, <1>3, <1>4, <1>5, <1>6, <1>7 DEF Effect

LEMMA TypeStep == Known /\ Next => TypeOK' /\ CallsFit'
  <1> SUFFICES ASSUME Known, Next PROVE TypeOK' /\ CallsFit'
    OBVIOUS
  <1>1. Effect /\ CallsTyped' /\ TypeOK
    BY StepShape DEF Known
  <1> QED
    BY <1>1, SessionTypes, SweptType, ResetTypes, MarkTypes, FitStep DEF TypeOK, CallsTyped, Job

-----------------------------------------------------------------------------
(* Sweeps *)

LEMMA SweepStep ==
    ASSUME Known, Next, Effect
    PROVE  SweepInv'
  <1>0. /\ issued \in 0..MaxSessions /\ MaxSessions \in Nat /\ Session = 1..MaxSessions
        /\ live \in [Session -> BOOLEAN] /\ late \in [Session -> BOOLEAN]
        /\ swept \in [Session -> BOOLEAN] /\ parent \in [Session -> 0..MaxSessions]
    BY SessionsAssumption DEF Known, TypeOK, Session
  <1>1. /\ \A s \in Session : live[s] => s <= issued
        /\ \A s \in Session : live[s] => late[s] \/ ~swept[s]
        /\ \A c \in Call : pc[c] \in {"known", "rotating", "issuing"} =>
                               (job[c].swept => job[c].late)
    BY DEF Known, SweepInv, SweepsEndSessions
  <1> USE DEF SweepInv, SweepsEndSessions
  <1>2. CASE Rests
    BY <1>1, <1>2 DEF Rests, sessionVars
  <1>3. ASSUME NEW c \in Call, Idle(c)
        PROVE  SweepInv'
    BY <1>1, <1>3 DEF Idle, Alone, sessionVars
  <1>4. ASSUME NEW c \in Call, Rotates(c)
        PROVE  SweepInv'
    <2>1. \A s \in Session : live'[s] => live[s]
      BY <1>0, <1>4 DEF Rotates
    <2>2. pc'[c] = "issuing" /\ (job'[c].swept => job'[c].late)
      BY <1>1, <1>4 DEF Rotates, Moved, Holding
    <2> QED
      BY <1>1, <1>4, <2>1, <2>2 DEF Rotates, Moved, Alone
  <1>5. ASSUME NEW c \in Call, Issues(c)
        PROVE  SweepInv'
    <2>1. issued + 1 \in Session /\ issued' = issued + 1 /\ (job[c].swept => job[c].late)
      BY <1>0, <1>1, <1>5 DEF Issues
    <2>2. \A s \in Session :
            IF s = issued + 1 THEN swept'[s] = job[c].swept /\ late'[s] = job[c].late
                              ELSE swept'[s] = swept[s] /\ late'[s] = late[s] /\ live'[s] = live[s]
      BY <1>0, <1>5, <2>1 DEF Issues
    <2>3. \A s \in Session : live'[s] => s <= issued'
      BY <1>0, <1>1, <2>1, <2>2
    <2>4. \A s \in Session : live'[s] => late'[s] \/ ~swept'[s]
      BY <1>1, <2>1, <2>2
    <2>5. \A d \in Call : pc'[d] \in {"known", "rotating", "issuing"} =>
                              (job'[d].swept => job'[d].late)
      BY <1>1, <1>5 DEF Issues, Alone
    <2> QED
      BY <2>3, <2>4, <2>5
  <1>6. ASSUME NEW c \in Call, Sweeps(c)
        PROVE  SweepInv'
    <2>1. \A s \in Session : ~live'[s]
      BY <1>6 DEF Sweeps
    <2>2. \A d \in Call : pc'[d] \in {"known", "rotating", "issuing"} => job'[d].late
      BY <1>6 DEF Sweeps
    <2> QED
      BY <2>1, <2>2
  <1>7. ASSUME NEW c \in Call, NEW s \in Session, Presents(c, s)
        PROVE  SweepInv'
    <2>1. job'[c].swept = swept[s] /\ job'[c].late = late[s] /\ live[s]
      BY <1>7 DEF Presents, Moved, Holding
    <2> QED
      BY <1>1, <1>7, <2>1 DEF Presents, Moved, Alone, sessionVars
  <1>8. ASSUME NEW s \in Session, Revokes(s)
        PROVE  SweepInv'
    <2>1. \A x \in Session : live'[x] => live[x]
      BY <1>0, <1>8 DEF Revokes
    <2> QED
      BY <1>1, <1>8, <2>1 DEF Revokes
  <1> QED
    BY <1>2, <1>3, <1>4, <1>5, <1>6, <1>7, <1>8 DEF Effect

-----------------------------------------------------------------------------
(* Rotation *)

LEMMA DeadStep ==
    ASSUME Known, DeadInv, Effect
    PROVE  DeadInv'
  <1>0. /\ issued \in 0..MaxSessions /\ MaxSessions \in Nat /\ Session = 1..MaxSessions
        /\ live \in [Session -> BOOLEAN] /\ parent \in [Session -> 0..MaxSessions]
        /\ \A s \in Session : parent[s] < s
    BY SessionsAssumption DEF Known, TypeOK, Session
  <1>1. /\ \A s, p \in Session : s <= issued /\ parent[s] = p => ~live[p]
        /\ \A c \in Call, p \in Session : pc[c] = "issuing" /\ job[c].session = p => ~live[p]
    BY DEF DeadInv, Child
  <1> USE DEF DeadInv, Child
  \* No session is made or comes to life, and a call that is issuing was so before.
  <1>2. ASSUME UNCHANGED <<issued, parent>>, \A s \in Session : live'[s] => live[s],
               \A d \in Call, p \in Session : pc'[d] = "issuing" /\ job'[d].session = p =>
                   ~live'[p]
        PROVE  DeadInv'
    BY <1>1, <1>2
  <1>3. CASE Rests
    BY <1>1, <1>2, <1>3 DEF Rests, sessionVars
  <1>4. ASSUME NEW c \in Call, Idle(c)
        PROVE  DeadInv'
    <2>1. 0 \notin Session
      BY <1>0
    <2>2. \A d \in Call, p \in Session : pc'[d] = "issuing" /\ job'[d].session = p => ~live[p]
      BY <1>1, <1>4, <2>1 DEF Idle, Alone
    <2> QED
      BY <1>2, <1>4, <2>2 DEF Idle, sessionVars
  <1>5. ASSUME NEW c \in Call, Rotates(c)
        PROVE  DeadInv'
    <2>1. \A s \in Session : live'[s] = IF s = job[c].session THEN FALSE ELSE live[s]
      BY <1>0, <1>5 DEF Rotates
    <2>2. job'[c].session = job[c].session
      BY <1>5 DEF Rotates, Moved, Holding
    <2>3. \A d \in Call, p \in Session : pc'[d] = "issuing" /\ job'[d].session = p => ~live'[p]
      BY <1>1, <1>5, <2>1, <2>2 DEF Rotates, Moved, Alone
    <2> QED
      BY <1>2, <1>5, <2>1, <2>3 DEF Rotates
  <1>6. ASSUME NEW c \in Call, Issues(c)
        PROVE  DeadInv'
    <2>1. issued + 1 \in Session /\ issued' = issued + 1 /\ job[c].session \in 0..issued
      BY <1>0, <1>6 DEF Issues, Known, CallsFit
    <2>2. \A s \in Session :
            IF s = issued + 1 THEN parent'[s] = job[c].session
                              ELSE parent'[s] = parent[s] /\ live'[s] = live[s]
      BY <1>0, <1>6, <2>1 DEF Issues
    <2>3. \A s, p \in Session : s <= issued' /\ parent'[s] = p => ~live'[p]
      <3> SUFFICES ASSUME NEW s \in Session, NEW p \in Session, s <= issued', parent'[s] = p
                   PROVE  ~live'[p]
        OBVIOUS
      <3>1. CASE s = issued + 1
        <4>1. p = job[c].session /\ p # issued + 1
          BY <1>0, <2>1, <2>2, <3>1
        <4>2. ~live[p]
          BY <1>1, <1>6, <4>1 DEF Issues
        <4> QED
          BY <2>2, <4>1, <4>2
      <3>2. CASE s # issued + 1
        <4>1. s <= issued /\ parent[s] = p /\ p < s
          BY <1>0, <2>1, <2>2, <3>2
        <4>2. ~live[p] /\ p # issued + 1
          BY <1>0, <1>1, <4>1
        <4> QED
          BY <2>2, <4>2
      <3> QED
        BY <3>1, <3>2
    <2>4. \A d \in Call, p \in Session : pc'[d] = "issuing" /\ job'[d].session = p => ~live'[p]
      <3> SUFFICES ASSUME NEW d \in Call, NEW p \in Session,
                          pc'[d] = "issuing", job'[d].session = p
                   PROVE  ~live'[p]
        OBVIOUS
      <3>1. pc[d] = "issuing" /\ job[d].session = p
        BY <1>6 DEF Issues, Alone
      <3>2. p \in 0..issued
        BY <3>1 DEF Known, CallsFit
      <3>3. p # issued + 1 /\ ~live[p]
        BY <1>0, <1>1, <3>1, <3>2
      <3> QED
        BY <2>2, <3>3
    <2> QED
      BY <2>3, <2>4
  <1>7. ASSUME NEW c \in Call, Sweeps(c)
        PROVE  DeadInv'
    <2>1. \A s \in Session : ~live'[s]
      BY <1>7 DEF Sweeps
    <2> QED
      BY <2>1
  <1>8. ASSUME NEW c \in Call, NEW s \in Session, Presents(c, s)
        PROVE  DeadInv'
    BY <1>1, <1>2, <1>8 DEF Presents, Moved, Alone, sessionVars
  <1>9. ASSUME NEW s \in Session, Revokes(s)
        PROVE  DeadInv'
    <2>1. \A x \in Session : live'[x] => live[x]
      BY <1>0, <1>9 DEF Revokes
    <2> QED
      BY <1>1, <1>2, <1>9, <2>1 DEF Revokes
  <1> QED
    BY <1>3, <1>4, <1>5, <1>6, <1>7, <1>8, <1>9 DEF Effect

\* Nothing is claimed or issued that was not claimed before.
LEMMA FewerClaims ==
    ASSUME ClaimInv, UNCHANGED <<issued, parent>>, contended \subseteq contended',
           \A d \in Call, p \in Session : Claims(d, p)' => Claims(d, p)
    PROVE  ClaimInv'
  BY DEF ClaimInv, Child, Shared

LEMMA ClaimStep ==
    ASSUME Known, DeadInv, ClaimInv, Effect
    PROVE  ClaimInv'
  <1>0. /\ issued \in 0..MaxSessions /\ MaxSessions \in Nat /\ Session = 1..MaxSessions
        /\ parent \in [Session -> 0..MaxSessions]
        /\ \A s \in Session : parent[s] < s
    BY SessionsAssumption DEF Known, TypeOK, Session
  <1>1. CASE Rests
    BY <1>1, FewerClaims DEF Rests, sessionVars, Claims
  <1>2. ASSUME NEW c \in Call, Idle(c)
        PROVE  ClaimInv'
    <2>1. 0 \notin Session
      BY <1>0
    <2>2. \A d \in Call, p \in Session : Claims(d, p)' => Claims(d, p)
      BY <1>2, <2>1 DEF Idle, Alone, Claims
    <2> QED
      BY <1>2, <2>2, FewerClaims DEF Idle, sessionVars
  <1>3. ASSUME NEW c \in Call, Rotates(c)
        PROVE  ClaimInv'
    <2>1. \A d \in Call, p \in Session : Claims(d, p)' => Claims(d, p)
      BY <1>3 DEF Rotates, Moved, Alone, Claims, Holding
    <2> QED
      BY <1>3, <2>1, FewerClaims DEF Rotates
  <1>4. ASSUME NEW c \in Call, Issues(c)
        PROVE  ClaimInv'
    <2>1. \A d \in Call, p \in Session : Claims(d, p)' => Claims(d, p) /\ d # c
      BY <1>4 DEF Issues, Alone, Claims
    <2>2. issued + 1 \in Session /\ issued' = issued + 1 /\ UNCHANGED contended
      BY <1>0, <1>4 DEF Issues
    <2>3. \A s \in Session : parent'[s] = IF s = issued + 1 THEN job[c].session ELSE parent[s]
      BY <1>0, <1>4, <2>2 DEF Issues
    <2>4. \A s, p \in Session : Child(s, p)' => Child(s, p) \/ (s = issued + 1 /\ Claims(c, p))
      BY <1>0, <1>4, <2>2, <2>3 DEF Child, Claims, Issues
    <2>5. \A d, e \in Call, p \in Session : Claims(d, p)' /\ Claims(e, p)' => d = e \/ Shared(p)'
      BY <2>1, <2>2 DEF ClaimInv, Shared
    <2>6. \A d \in Call, s, p \in Session : Claims(d, p)' /\ Child(s, p)' => Shared(p)'
      BY <2>1, <2>2, <2>4 DEF ClaimInv, Shared
    <2>7. \A s, x, p \in Session : Child(s, p)' /\ Child(x, p)' => s = x \/ Shared(p)'
      BY <2>2, <2>4 DEF ClaimInv, Shared
    <2> QED
      BY <2>5, <2>6, <2>7 DEF ClaimInv
  <1>5. ASSUME NEW c \in Call, Sweeps(c)
        PROVE  ClaimInv'
    <2>1. \A d \in Call, p \in Session : Claims(d, p)' => Claims(d, p)
      BY <1>5 DEF Sweeps, Claims
    <2> QED
      BY <1>5, <2>1, FewerClaims DEF Sweeps
  <1>6. ASSUME NEW c \in Call, NEW s \in Session, Presents(c, s)
        PROVE  ClaimInv'
    <2>1. \A d \in Call, p \in Session : Claims(d, p)' => (Claims(d, p) /\ d # c) \/ (d = c /\ p = s)
      BY <1>6 DEF Presents, Moved, Alone, Claims, Holding
    <2>2. \A x \in Session : ~Child(x, s)
      BY <1>6 DEF Presents, DeadInv
    <2>3. \A d \in Call \ {c} : Claims(d, s) => Shared(s)'
      <3> SUFFICES ASSUME NEW d \in Call \ {c}, Claims(d, s) PROVE Shared(s)'
        OBVIOUS
      <3>1. pc[d] = "rotating" /\ job[d].session = s
        BY <1>6 DEF Claims, Presents, DeadInv
      <3>2. job[d].item = <<"session", s>>
        BY <3>1 DEF Known, CallsFit
      <3> QED
        BY <1>6, <3>1, <3>2 DEF Presents
    <2>4. \A p \in Session : Shared(p) => Shared(p)'
      BY <1>6 DEF Presents, Shared
    <2>5. \A x, p \in Session : Child(x, p)' = Child(x, p)
      BY <1>6 DEF Presents, sessionVars, Child
    <2>6. \A d, e \in Call, p \in Session : Claims(d, p)' /\ Claims(e, p)' => d = e \/ Shared(p)'
      BY <2>1, <2>3, <2>4 DEF ClaimInv
    <2>7. \A d \in Call, x, p \in Session : Claims(d, p)' /\ Child(x, p)' => Shared(p)'
      BY <2>1, <2>2, <2>4, <2>5 DEF ClaimInv
    <2>8. \A y, x, p \in Session : Child(y, p)' /\ Child(x, p)' => y = x \/ Shared(p)'
      BY <2>4, <2>5 DEF ClaimInv
    <2> QED
      BY <2>6, <2>7, <2>8 DEF ClaimInv
  <1>7. ASSUME NEW s \in Session, Revokes(s)
        PROVE  ClaimInv'
    BY <1>7, FewerClaims DEF Revokes, Claims
  <1> QED
    BY <1>1, <1>2, <1>3, <1>4, <1>5, <1>6, <1>7 DEF Effect

-----------------------------------------------------------------------------
(* The invariant *)

LEMMA Initial == Init => IInv
  <1> SUFFICES ASSUME Init PROVE IInv
    OBVIOUS
  <1>0. MaxSessions \in Nat /\ \A s \in Session : s \in Nat /\ s > 0
    BY SessionsAssumption DEF Session
  <1>1. TypeOK
    <2>1. pc \in [Call -> Stage] /\ job \in [Call -> Job]
      BY NoJobIsAJob DEF Init, Stage
    <2>2. reset \in [ResetToken -> {"none", "open", "consumed"}] /\ honoured \in [ResetToken -> Nat]
      BY DEF Init
    <2> QED
      BY <1>0, <2>1, <2>2 DEF Init, TypeOK, Job
  <1>2. CallsFit /\ SweepInv /\ DeadInv /\ ClaimInv
    BY <1>0 DEF Init, CallsFit, SweepInv, SweepsEndSessions, DeadInv, ClaimInv, Claims, Child
  <1> QED
    BY <1>1, <1>2 DEF IInv

LEMMA Preserved == IInv /\ [Next]_vars => IInv'
  <1> SUFFICES ASSUME IInv, [Next]_vars PROVE IInv'
    OBVIOUS
  <1>0. Known
    BY DEF IInv, Known
  <1>1. CASE Next
    <2>1. Effect
      BY <1>0, <1>1, StepShape
    <2> QED
      BY <1>0, <1>1, <2>1, TypeStep, SweepStep, DeadStep, ClaimStep DEF IInv
  <1>2. CASE UNCHANGED vars
    BY <1>2 DEF IInv, vars, sessionVars, resetVars, TypeOK, CallsFit, SweepInv, SweepsEndSessions,
       DeadInv, ClaimInv, Claims, Child, Shared
  <1> QED
    BY <1>1, <1>2

LEMMA Invariant == Spec => []IInv
  BY Initial, Preserved, PTL DEF Spec

\* Every variable keeps its type, for any number of calls, sessions and tokens.
THEOREM TypeCorrect == Spec => []TypeOK
  <1>1. IInv => TypeOK
    BY DEF IInv
  <1> QED
    BY <1>1, Invariant, PTL

\* A password reset and a detected reuse (confirmPasswordReset, refresh) leave no
\* session alive but those of calls they overtook.
THEOREM SweptIsDead == Spec => []SweepsEndSessions
  <1>1. IInv => SweepsEndSessions
    BY DEF IInv, SweepInv
  <1> QED
    BY <1>1, Invariant, PTL

\* A refresh token is dead once it was exchanged and is exchanged once, unless two
\* requests had found it live (refresh).
THEOREM RotationIsAChain == Spec => []RotationIsLinear
  <1>1. IInv => RotationIsLinear
    <2> SUFFICES ASSUME IInv, NEW s \in Session, NEW x \in Session
                 PROVE  /\ s <= issued /\ parent[s] # 0 => ~live[parent[s]]
                        /\ s <= issued /\ x <= issued /\ parent[s] = parent[x] /\ parent[s] # 0
                             /\ s # x => <<"session", parent[s]>> \in contended
      BY DEF RotationIsLinear
    <2>1. parent[s] # 0 => parent[s] \in Session
      BY SessionsAssumption DEF IInv, TypeOK, Session
    <2> QED
      BY <2>1 DEF IInv, DeadInv, ClaimInv, Child, Shared
  <1> QED
    BY <1>1, Invariant, PTL

-----------------------------------------------------------------------------
(* Reset tokens *)

Resets(c, t) == pc[c] = "resetting" /\ job[c].item = <<"reset", t>>

\* A token that was honoured is consumed, and a call that still holds it, like two that
\* hold it, is one of those that contended notes.
ResetInv ==
    /\ \A c \in Call : pc[c] = "resetting" => \E t \in ResetToken : Resets(c, t)
    /\ \A t \in ResetToken : honoured[t] = 0 \/ reset[t] = "consumed"
    /\ \A c \in Call, t \in ResetToken :
        Resets(c, t) /\ reset[t] = "consumed" => <<"reset", t>> \in contended
    /\ \A c, d \in Call, t \in ResetToken :
        Resets(c, t) /\ Resets(d, t) => c = d \/ <<"reset", t>> \in contended
    /\ ResetOnce

LEMMA ResetStep == TypeOK /\ ResetInv /\ Next => ResetInv'
  <1> SUFFICES ASSUME TypeOK, ResetInv, Next PROVE ResetInv'
    OBVIOUS
  <1>0. CallsTyped
    BY DEF TypeOK, CallsTyped, Job
  \* A step that presents and honours no reset token.
  <1>1. ASSUME UNCHANGED resetVars, contended \subseteq contended',
               \A d \in Call : pc'[d] = "resetting" => pc[d] = "resetting" /\ job'[d] = job[d]
        PROVE  ResetInv'
    BY <1>1 DEF ResetInv, Resets, ResetOnce, resetVars
  <1>2. ASSUME NEW c \in Call, NEW stage \in Stage \ {"resetting"}, NEW work, Goto(c, stage, work)
        PROVE  \A d \in Call : pc'[d] = "resetting" => pc[d] = "resetting" /\ job'[d] = job[d]
    BY <1>0, <1>2 DEF Goto, CallsTyped
  <1>3. ASSUME NEW c \in Call, Overtake(c)
        PROVE  \A d \in Call : pc'[d] = "resetting" =>
                    d # c /\ pc[d] = "resetting" /\ job'[d] = job[d]
    BY <1>0, <1>3 DEF Overtake, CallsTyped
  <1>4. ASSUME NEW c \in Call, \/ Identify(c) \/ Challenge(c) \/ GoOn(c) \/ Issue(c)
                               \/ \E b \in challenges : CompleteChallenge(c, b)
        PROVE  ResetInv'
    <2>1. PICK stage \in Stage \ {"resetting"} : \E work : Goto(c, stage, work)
      BY <1>4 DEF Identify, Challenge, GoOn, Issue, CompleteChallenge, End, Stage
    <2>2. UNCHANGED <<resetVars, contended>>
      BY <1>4 DEF Identify, Challenge, GoOn, Issue, CompleteChallenge
    <2> QED
      BY <1>1, <1>2, <2>1, <2>2
  <1>5. ASSUME NEW c \in Call, NEW s \in Session, PresentToken(c, s) \/ PresentRevoked(c, s)
        PROVE  ResetInv'
    <2>1. PICK stage \in Stage \ {"resetting"} : \E work : Goto(c, stage, work)
      BY <1>5 DEF PresentToken, PresentRevoked, Stage
    <2>2. UNCHANGED resetVars /\ contended \subseteq contended'
      BY <1>5, ContendGrows DEF PresentToken, PresentRevoked
    <2> QED
      BY <1>1, <1>2, <2>1, <2>2
  <1>6. ASSUME NEW c \in Call, Rotate(c) \/ Abandon(c)
        PROVE  ResetInv'
    <2>1. PICK stage \in Stage \ {"resetting"} : \E work : Goto(c, stage, work)
      BY <1>6 DEF Rotate, Abandon, End, Stage
    <2>2. UNCHANGED <<resetVars, contended>>
      BY <1>6 DEF Rotate, Abandon
    <2> QED
      BY <1>1, <1>2, <2>1, <2>2
  <1>7. ASSUME NEW c \in Call, RevokeAll(c) PROVE ResetInv'
    BY <1>1, <1>3, <1>7 DEF RevokeAll
  <1>8. ASSUME NEW s \in Session, RevokeSession(s) PROVE ResetInv'
    BY <1>1, <1>8 DEF RevokeSession
  <1>9. ASSUME NEW t \in ResetToken, RequestPasswordReset(t) PROVE ResetInv'
    <2>1. /\ UNCHANGED <<honoured, contended, pc, job>>
          /\ \A x \in ResetToken : reset[x] = "consumed" <=> reset'[x] = "consumed"
      BY <1>9 DEF RequestPasswordReset, TypeOK
    <2> QED
      BY <2>1 DEF ResetInv, Resets, ResetOnce
  \* A token that is presented was not honoured before.
  <1>10. ASSUME NEW c \in Call, NEW t \in ResetToken, PresentReset(c, t) PROVE ResetInv'
    <2>1. /\ pc'[c] = "resetting" /\ job'[c].item = <<"reset", t>>
          /\ \A d \in Call \ {c} : pc'[d] = pc[d] /\ job'[d] = job[d]
      BY <1>0, <1>10 DEF PresentReset, Goto, Holding, CallsTyped
    <2>2. reset[t] = "open" /\ UNCHANGED <<reset, honoured>> /\ contended \subseteq contended'
      BY <1>10, ContendGrows DEF PresentReset, resetVars
    <2>3. \A d \in Call \ {c} : Resets(d, t) => <<"reset", t>> \in contended'
      BY <1>10 DEF PresentReset, Contend, Presented, Resets
    <2>4. \A x \in ResetToken : Resets(c, x)' => x = t
      BY <2>1 DEF Resets
    <2>5. \A d \in Call \ {c}, x \in ResetToken : Resets(d, x)' <=> Resets(d, x)
      BY <2>1 DEF Resets
    <2>6. Resets(c, t)' /\ pc'[c] = "resetting"
      BY <2>1 DEF Resets
    <2>7. \A d \in Call : pc'[d] = "resetting" => \E x \in ResetToken : Resets(d, x)'
      BY <2>1, <2>5, <2>6 DEF ResetInv
    <2>8. \A d \in Call, x \in ResetToken :
            Resets(d, x)' /\ reset'[x] = "consumed" => <<"reset", x>> \in contended'
      BY <2>2, <2>4, <2>5 DEF ResetInv
    <2>9. \A d, e \in Call, x \in ResetToken :
            Resets(d, x)' /\ Resets(e, x)' => d = e \/ <<"reset", x>> \in contended'
      BY <2>2, <2>3, <2>4, <2>5 DEF ResetInv
    <2>10. ResetOnce'
      BY <2>2 DEF ResetInv, ResetOnce
    <2> QED
      BY <2>2, <2>7, <2>8, <2>9, <2>10 DEF ResetInv
  <1>11. ASSUME NEW c \in Call, ConfirmReset(c) PROVE ResetInv'
    <2>1. PICK t \in ResetToken : Resets(c, t)
      BY <1>11 DEF ConfirmReset, ResetInv
    <2>2. job[c].item[2] = t
      BY <2>1 DEF Resets
    <2>3. /\ reset'[t] = "consumed" /\ honoured[t] \in Nat /\ honoured'[t] = honoured[t] + 1
          /\ \A x \in ResetToken \ {t} : reset'[x] = reset[x] /\ honoured'[x] = honoured[x]
          /\ contended' = contended
      BY <1>11, <2>2 DEF ConfirmReset, TypeOK
    <2>4. \A d \in Call : pc'[d] = "resetting" =>
                d # c /\ pc[d] = "resetting" /\ job'[d] = job[d]
      BY <1>3, <1>11 DEF ConfirmReset
    <2>5. \A d \in Call, x \in ResetToken : Resets(d, x)' => d # c /\ Resets(d, x)
      BY <2>4 DEF Resets
    <2>6. \A d \in Call : pc'[d] = "resetting" => \E x \in ResetToken : Resets(d, x)'
      BY <2>4 DEF ResetInv, Resets
    <2>7. \A d \in Call, x \in ResetToken :
            Resets(d, x)' /\ reset'[x] = "consumed" => <<"reset", x>> \in contended'
      BY <2>1, <2>3, <2>5 DEF ResetInv
    <2>8. <<"reset", t>> \in contended \/ honoured[t] = 0
      BY <2>1 DEF ResetInv
    <2>9. ResetOnce'
      <3>1. <<"reset", t>> \in contended \/ honoured'[t] <= 1
        BY <2>3, <2>8
      <3>2. \A x \in ResetToken \ {t} : <<"reset", x>> \in contended \/ honoured'[x] <= 1
        BY <2>3 DEF ResetInv, ResetOnce
      <3> QED
        BY <2>3, <3>1, <3>2 DEF ResetOnce
    <2> QED
      BY <2>3, <2>5, <2>6, <2>7, <2>9 DEF ResetInv
  <1> QED
    BY <1>4, <1>5, <1>6, <1>7, <1>8, <1>9, <1>10, <1>11 DEF Next

LEMMA ResetInvariant == Spec => []ResetInv
  <1>1. Init => ResetInv
    BY DEF Init, ResetInv, Resets, ResetOnce
  <1>2. ResetInv /\ UNCHANGED vars => ResetInv'
    BY DEF vars, resetVars, ResetInv, Resets, ResetOnce
  <1>3. IInv => TypeOK
    BY DEF IInv
  <1> QED
    BY <1>1, <1>2, <1>3, ResetStep, Invariant, PTL DEF Spec

-----------------------------------------------------------------------------
(* The second factor *)

\* Two calls that hold the code of one batch are what contended notes, a call that
\* still holds it when it is used is one of them, and a batch to come is untouched.
CodeInv ==
    /\ \A c \in Call : mfaPc[c] = "redeeming" => mfaJob[c] \in 1..batches
    /\ \A c, d \in Call : mfaPc[c] = "redeeming" /\ mfaPc[d] = "redeeming" /\ mfaJob[c] = mfaJob[d]
                              => c = d \/ mfaJob[c] \in codeContended
    /\ \A c \in Call : mfaPc[c] = "redeeming" /\ mfaJob[c] = codes /\ used => codes \in codeContended
    /\ \A b \in F!Batch : b > batches \/ (b = codes /\ ~used) => codeHonoured[b] = 0
    /\ F!CodeOnce

\* A call that activates was right about the secret that is there, unless a set-up is
\* under way, which raced notes.
FactorInv ==
    /\ \A c \in Call : mfaPc[c] = "activating" => secret # 0 /\ (raced \/ secret \in proven)
    /\ \A c, d \in Call : mfaPc[c] = "settingUp" /\ mfaPc[d] = "activating" => raced
    /\ F!EnabledIsProven

FInv == F!TypeOK /\ CodeInv /\ FactorInv

FStage == {"idle", "settingUp", "activating", "lookingUp", "redeeming"}

LEMMA FBounds == MaxSecrets \in Nat \ {0} /\ MaxBatches \in Nat \ {0}
  BY PartsAssumption DEF F!SecondFactorAssumption

LEMMA FMoves ==
    ASSUME F!TypeOK, NEW c \in Call, NEW stage \in FStage, NEW code \in 0..MaxBatches,
           F!Goto(c, stage, code)
    PROVE  /\ mfaPc' \in [Call -> FStage] /\ mfaJob' \in [Call -> 0..MaxBatches]
           /\ mfaPc'[c] = stage /\ mfaJob'[c] = code
           /\ \A d \in Call \ {c} : mfaPc'[d] = mfaPc[d] /\ mfaJob'[d] = mfaJob[d]
  BY DEF F!TypeOK, F!Goto, FStage

\* A call that ends, for one reason or another, leaves the others as they are.
LEMMA FEnds ==
    ASSUME F!TypeOK, NEW c \in Call, F!End(c)
    PROVE  /\ mfaPc' \in [Call -> FStage] /\ mfaJob' \in [Call -> 0..MaxBatches]
           /\ mfaPc'[c] = "idle"
           /\ \A d \in Call \ {c} : mfaPc'[d] = mfaPc[d] /\ mfaJob'[d] = mfaJob[d]
  BY FMoves, FBounds DEF F!End, FStage

LEMMA FInitial == F!Init => FInv
  <1> SUFFICES ASSUME F!Init PROVE FInv
    OBVIOUS
  <1> USE FBounds DEF F!Init
  <1>1. 0 \in 0..0 /\ 0 \in 0..MaxBatches /\ 0 \in 0..MaxSecrets
    OBVIOUS
  <1>2. codeHonoured \in [F!Batch -> Nat] /\ mfaJob \in [Call -> 0..MaxBatches]
    BY <1>1
  <1>3. F!TypeOK
    BY <1>1, <1>2 DEF F!TypeOK
  <1>4. CodeInv
    BY DEF CodeInv, F!CodeOnce
  <1>5. FactorInv
    BY DEF FactorInv, F!EnabledIsProven
  <1> QED
    BY <1>3, <1>4, <1>5 DEF FInv

LEMMA FTypeStep == FInv /\ F!Next => F!TypeOK'
  <1> SUFFICES ASSUME FInv, F!Next PROVE F!TypeOK'
    OBVIOUS
  <1> USE FBounds DEF FInv, F!rows, F!ghosts
  <1>1. CASE F!Disable
    <2>1. codes' \in 0..batches'
      BY <1>1 DEF F!Disable, F!TypeOK
    <2> QED
      BY <1>1, <2>1 DEF F!Disable, F!TypeOK
  <1>2. ASSUME NEW c \in Call, F!BeginSetup(c) PROVE F!TypeOK'
    <2>1. mfaPc' \in [Call -> FStage] /\ mfaJob' \in [Call -> 0..MaxBatches]
      BY <1>2, FMoves DEF F!BeginSetup, FStage
    <2> QED
      BY <1>2, <2>1 DEF F!BeginSetup, F!TypeOK, FStage, F!During
  <1>3. ASSUME NEW c \in Call, F!Setup(c) PROVE F!TypeOK'
    <2>1. mfaPc' \in [Call -> FStage] /\ mfaJob' \in [Call -> 0..MaxBatches]
      BY <1>3, FEnds DEF F!Setup
    <2> QED
      <3>1. secret' \in 0..MaxSecrets /\ secret' # 0
        BY <1>3 DEF F!Setup, F!TypeOK
      <3> QED
        BY <1>3, <2>1, <3>1 DEF F!Setup, F!TypeOK, FStage
  <1>4. ASSUME NEW c \in Call, F!CheckCode(c) PROVE F!TypeOK'
    <2>1. mfaPc' \in [Call -> FStage] /\ mfaJob' \in [Call -> 0..MaxBatches]
      BY <1>4, FMoves DEF F!CheckCode, FStage
    <2> QED
      BY <1>4, <2>1 DEF F!CheckCode, F!TypeOK, FStage, F!During, F!Secret
  <1>5. ASSUME NEW c \in Call, F!Activate(c) PROVE F!TypeOK'
    <2>1. mfaPc' \in [Call -> FStage] /\ mfaJob' \in [Call -> 0..MaxBatches]
      BY <1>5, FEnds DEF F!Activate
    <2>2. secret # 0
      BY <1>5 DEF F!Activate, FactorInv
    <2>3. batches' \in 0..MaxBatches /\ codes' \in 0..batches' /\ ~used'
      BY <1>5 DEF F!Activate, F!TypeOK
    <2> QED
      BY <1>5, <2>1, <2>2, <2>3 DEF F!Activate, F!TypeOK, FStage
  <1>6. ASSUME NEW c \in Call, F!BeginVerify(c) \/ F!Abandon(c) PROVE F!TypeOK'
    <2>1. mfaPc' \in [Call -> FStage] /\ mfaJob' \in [Call -> 0..MaxBatches]
      BY <1>6, FMoves, FEnds DEF F!BeginVerify, F!Abandon, FStage
    <2> QED
      BY <1>6, <2>1 DEF F!BeginVerify, F!Abandon, F!TypeOK, FStage
  <1>7. ASSUME NEW c \in Call, F!LookUpCode(c) PROVE F!TypeOK'
    <2>1. codes \in F!Batch
      BY <1>7 DEF F!LookUpCode, F!TypeOK, F!Batch
    <2>2. mfaPc' \in [Call -> FStage] /\ mfaJob' \in [Call -> 0..MaxBatches]
      BY <1>7, <2>1, FMoves DEF F!LookUpCode, FStage, F!Batch
    <2> QED
      BY <1>7, <2>1, <2>2 DEF F!LookUpCode, F!TypeOK, FStage
  <1>8. ASSUME NEW c \in Call, F!RedeemCode(c) PROVE F!TypeOK'
    <2>1. codes \in F!Batch /\ codes # 0
      BY <1>8 DEF F!RedeemCode, F!TypeOK, F!Batch, CodeInv
    <2>2. mfaPc' \in [Call -> FStage] /\ mfaJob' \in [Call -> 0..MaxBatches]
      BY <1>8, FEnds DEF F!RedeemCode
    <2> QED
      BY <1>8, <2>1, <2>2 DEF F!RedeemCode, F!TypeOK, FStage
  <1> QED
    BY <1>1, <1>2, <1>3, <1>4, <1>5, <1>6, <1>7, <1>8 DEF F!Next

LEMMA CodeStep == FInv /\ F!Next => CodeInv'
  <1> SUFFICES ASSUME FInv, F!Next PROVE CodeInv'
    OBVIOUS
  <1> USE FBounds DEF FInv, F!rows, F!ghosts
  <1>1. CASE F!Disable
    BY <1>1 DEF F!Disable, F!TypeOK, CodeInv, F!CodeOnce, F!Batch
  \* A step that looks up no code and honours none.
  <1>2. ASSUME NEW c \in Call, UNCHANGED <<codes, used, batches, codeHonoured, codeContended>>,
               mfaPc'[c] # "redeeming",
               \A d \in Call \ {c} : mfaPc'[d] = mfaPc[d] /\ mfaJob'[d] = mfaJob[d]
        PROVE  CodeInv'
    BY <1>2 DEF CodeInv, F!CodeOnce
  <1>3. ASSUME NEW c \in Call,
               F!BeginSetup(c) \/ F!Setup(c) \/ F!CheckCode(c) \/ F!BeginVerify(c) \/ F!Abandon(c)
        PROVE  CodeInv'
    <2>1. CASE F!BeginSetup(c)
      BY <2>1, <1>2, FMoves DEF F!BeginSetup, FStage
    <2>2. CASE F!Setup(c)
      BY <2>2, <1>2, FEnds DEF F!Setup
    <2>3. CASE F!CheckCode(c)
      BY <2>3, <1>2, FMoves DEF F!CheckCode, FStage
    <2>4. CASE F!BeginVerify(c)
      BY <2>4, <1>2, FMoves DEF F!BeginVerify, FStage
    <2>5. CASE F!Abandon(c)
      BY <2>5, <1>2, FEnds DEF F!Abandon
    <2> QED
      BY <1>3, <2>1, <2>2, <2>3, <2>4, <2>5
  <1>4. ASSUME NEW c \in Call, F!Activate(c) PROVE CodeInv'
    <2>1. /\ mfaPc'[c] = "idle"
          /\ \A d \in Call \ {c} : mfaPc'[d] = mfaPc[d] /\ mfaJob'[d] = mfaJob[d]
      BY <1>4, FEnds DEF F!Activate
    <2>2. batches' = batches + 1 /\ codes' = batches + 1 /\ ~used' /\ batches \in Nat
          /\ UNCHANGED <<codeHonoured, codeContended>>
      BY <1>4 DEF F!Activate, F!TypeOK
    <2> QED
      BY <2>1, <2>2 DEF CodeInv, F!CodeOnce, F!Batch
  <1>5. ASSUME NEW c \in Call, F!LookUpCode(c) PROVE CodeInv'
    <2>1. codes \in 1..batches /\ ~used /\ UNCHANGED <<codes, used, batches, codeHonoured>>
      BY <1>5 DEF F!LookUpCode, F!TypeOK
    <2>2. /\ mfaPc'[c] = "redeeming" /\ mfaJob'[c] = codes
          /\ \A d \in Call \ {c} : mfaPc'[d] = mfaPc[d] /\ mfaJob'[d] = mfaJob[d]
      BY <1>5, <2>1, FMoves DEF F!LookUpCode, FStage, F!TypeOK
    <2>3. codeContended \subseteq codeContended'
      BY <1>5 DEF F!LookUpCode
    <2>4. \A d \in Call \ {c} : mfaPc[d] = "redeeming" /\ mfaJob[d] = codes => codes \in codeContended'
      BY <1>5 DEF F!LookUpCode
    <2> QED
      BY <2>1, <2>2, <2>3, <2>4 DEF CodeInv, F!CodeOnce
  <1>6. ASSUME NEW c \in Call, F!RedeemCode(c) PROVE CodeInv'
    <2>1. codes \in 1..batches /\ codes \in F!Batch /\ mfaPc[c] = "redeeming" /\ mfaJob[c] = codes
      BY <1>6 DEF F!RedeemCode, F!TypeOK, CodeInv, F!Batch
    <2>2. /\ mfaPc'[c] = "idle"
          /\ \A d \in Call \ {c} : mfaPc'[d] = mfaPc[d] /\ mfaJob'[d] = mfaJob[d]
      BY <1>6, FEnds DEF F!RedeemCode
    <2>3. used' /\ UNCHANGED <<codes, batches, codeContended>>
      BY <1>6 DEF F!RedeemCode
    <2>4. /\ codeHonoured'[codes] = codeHonoured[codes] + 1
          /\ \A b \in F!Batch \ {codes} : codeHonoured'[b] = codeHonoured[b]
          /\ codeHonoured[codes] \in Nat
      BY <1>6, <2>1 DEF F!RedeemCode, F!TypeOK
    <2>5. codes \in codeContended \/ codeHonoured[codes] = 0
      BY <2>1 DEF CodeInv, F!TypeOK
    <2>6. F!CodeOnce'
      BY <2>3, <2>4, <2>5 DEF CodeInv, F!CodeOnce
    <2>7. \A b \in F!Batch : b > batches \/ (b = codes /\ ~used') => codeHonoured'[b] = 0
      BY <2>1, <2>3, <2>4 DEF CodeInv, F!TypeOK
    <2> QED
      BY <2>1, <2>2, <2>3, <2>6, <2>7 DEF CodeInv
  <1> QED
    BY <1>1, <1>3, <1>4, <1>5, <1>6 DEF F!Next

LEMMA FactorStep == FInv /\ F!Next => FactorInv'
  <1> SUFFICES ASSUME FInv, F!Next PROVE FactorInv'
    OBVIOUS
  <1> USE DEF FInv, F!rows, F!ghosts
  <1>1. CASE F!Disable
    BY <1>1 DEF F!Disable, FactorInv, F!EnabledIsProven
  <1>2. ASSUME NEW c \in Call, F!BeginSetup(c) PROVE FactorInv'
    <2>1. 0 \in 0..MaxBatches
      BY FBounds
    <2>2. /\ mfaPc'[c] = "settingUp"
          /\ \A d \in Call \ {c} : mfaPc'[d] = mfaPc[d]
      BY <1>2, <2>1, FMoves DEF F!BeginSetup, FStage
    <2>3. /\ UNCHANGED <<secret, proven>> /\ ~enabled'
          /\ raced' = (raced \/ F!During("activating"))
      BY <1>2 DEF F!BeginSetup
    <2>4. raced => raced'
      BY <2>3
    <2>5. \A d \in Call : mfaPc[d] = "activating" => raced'
      BY <2>3 DEF F!During
    <2> QED
      BY <2>2, <2>3, <2>4, <2>5 DEF FactorInv, F!EnabledIsProven
  <1>3. ASSUME NEW c \in Call, F!Setup(c) PROVE FactorInv'
    BY <1>3, FEnds DEF F!Setup, F!TypeOK, FactorInv, F!EnabledIsProven
  <1>4. ASSUME NEW c \in Call, F!CheckCode(c) PROVE FactorInv'
    <2>1. 0 \in 0..MaxBatches
      BY FBounds
    <2>2. /\ mfaPc'[c] = "activating"
          /\ \A d \in Call \ {c} : mfaPc'[d] = mfaPc[d]
      BY <1>4, <2>1, FMoves DEF F!CheckCode, FStage
    <2>3. /\ UNCHANGED <<secret, enabled, codes>> /\ secret # 0
          /\ proven' = proven \cup {secret}
          /\ raced' = (raced \/ F!During("settingUp"))
      BY <1>4 DEF F!CheckCode
    <2>4. raced => raced'
      BY <2>3
    <2>5. \A d \in Call : mfaPc[d] = "settingUp" => raced'
      BY <2>3 DEF F!During
    <2> QED
      BY <2>2, <2>3, <2>4, <2>5 DEF FactorInv, F!EnabledIsProven
  <1>5. ASSUME NEW c \in Call, F!Activate(c) PROVE FactorInv'
    BY <1>5, FEnds DEF F!Activate, F!TypeOK, FactorInv, F!EnabledIsProven
  <1>6. ASSUME NEW c \in Call, F!BeginVerify(c) PROVE FactorInv'
    BY <1>6, FMoves, FBounds DEF F!BeginVerify, FStage, FactorInv, F!EnabledIsProven
  <1>7. ASSUME NEW c \in Call, F!LookUpCode(c) PROVE FactorInv'
    BY <1>7, FMoves, FBounds DEF F!LookUpCode, FStage, FactorInv, F!EnabledIsProven, F!TypeOK
  <1>8. ASSUME NEW c \in Call, F!RedeemCode(c) PROVE FactorInv'
    BY <1>8, FEnds DEF F!RedeemCode, FactorInv, F!EnabledIsProven
  <1>9. ASSUME NEW c \in Call, F!Abandon(c) PROVE FactorInv'
    BY <1>9, FEnds DEF F!Abandon, FactorInv, F!EnabledIsProven
  <1> QED
    BY <1>1, <1>2, <1>3, <1>4, <1>5, <1>6, <1>7, <1>8, <1>9 DEF F!Next

LEMMA FPreserved == FInv /\ [F!Next]_F!vars => FInv'
  <1>1. CASE UNCHANGED F!vars
    BY <1>1 DEF F!vars, F!rows, F!ghosts, FInv, F!TypeOK, CodeInv, F!CodeOnce, FactorInv,
       F!EnabledIsProven
  <1> QED
    BY <1>1, FTypeStep, CodeStep, FactorStep DEF FInv

LEMMA FInvariant == F!Spec => []FInv
  BY FInitial, FPreserved, PTL DEF F!Spec

-----------------------------------------------------------------------------
(* Members and invites *)

Changes == {"changing", "removing"}
Writes == {"revoking", "expiring", "accepting", "joining", "marking"}   \* an invite's calls

Manages(p) == member[p] = "active" /\ role[p] = "OWNER"

\* Whoever changes a member was admitted by another OWNER, or leaves the member one, and
\* nobody takes that from them without overlapped.
ManagersInv ==
    /\ \A c, d \in Call : adminPc[c] \in Changes /\ adminPc[d] \in Changes => c = d \/ overlapped
    /\ \A c \in Call : \/ adminPc[c] \notin Changes \/ overlapped
                       \/ adminPc[c] = "changing" /\ adminJob[c].role = "OWNER"
                       \/ \E q \in Person \ {adminJob[c].person} : Manages(q)
    /\ M!ManagersRemain

\* What a call on an invite holds: its row's person, who is a member when the call comes
\* to mark it; a call that has ended holds no invite.
HoldsInv ==
    /\ \A i \in M!Invite : i > sent => status[i] = "none"
    /\ \A c \in Call :
        /\ adminPc[c] \in Writes => /\ adminJob[c].invite \in 1..sent
                                    /\ adminJob[c].person = to[adminJob[c].invite]
        /\ adminPc[c] \notin Writes => adminJob[c].invite = 0
        /\ adminPc[c] = "marking" => member[adminJob[c].person] # "none"
    /\ M!AcceptedIsMember

\* A person that an invite is being made for has none that is pending, unless two
\* are being made, or were.
PendingInv ==
    /\ \A c \in Call, i \in M!Invite :
        adminPc[c] = "inviting" /\ status[i] \in M!Pending /\ to[i] = adminJob[c].person
            => to[i] \in invitedTwice
    /\ \A c, d \in Call :
        adminPc[c] = "inviting" /\ adminPc[d] = "inviting" /\ adminJob[c].person = adminJob[d].person
            => c = d \/ adminJob[c].person \in invitedTwice
    /\ M!OnePending

\* Two calls on one invite are what crossed notes; one that is alone on it works on an
\* invite that is not settled.
SettledInv ==
    /\ \A c, d \in Call : adminJob[c].invite = adminJob[d].invite /\ adminJob[c].invite # 0
                              => c = d \/ adminJob[c].invite \in crossed
    /\ \A c \in Call : adminJob[c].invite # 0 =>
        \/ adminJob[c].invite \in crossed
        \/ status[adminJob[c].invite] \notin {"ACCEPTED", "REVOKED"}

MInv == M!TypeOK /\ ManagersInv /\ HoldsInv /\ PendingInv /\ SettledInv

MStage == {"idle", "changing", "removing", "inviting", "revoking",
           "expiring", "accepting", "joining", "marking"}
MJob == [person : Person, role : M!Role, invite : 0..MaxInvites]

LEMMA MBounds ==
    /\ MaxInvites \in Nat /\ Founder \in Person /\ Address \subseteq Person
    /\ Offered \in [M!Invite -> M!Role]
  BY PartsAssumption DEF M!MembersAssumption

LEMMA OnIsAJob ==
    ASSUME NEW p \in Person, NEW r \in M!Role, NEW i \in 0..MaxInvites
    PROVE  /\ M!On(p, r, i) \in MJob /\ M!On(p, r, i).person = p
           /\ M!On(p, r, i).role = r /\ M!On(p, r, i).invite = i
  BY DEF M!On, MJob

LEMMA NoJobFits == M!NoJob \in MJob /\ M!NoJob.invite = 0
  <1>1. "MEMBER" \in M!Role /\ 0 \in 0..MaxInvites /\ Founder \in Person
    BY MBounds DEF M!Role
  <1> QED
    BY <1>1, OnIsAJob DEF M!NoJob

\* The call goes on with what it is given, and the others stay where they are.
Turns(c, stage, work) ==
    /\ adminPc' \in [Call -> MStage] /\ adminJob' \in [Call -> MJob]
    /\ adminPc'[c] = stage /\ adminJob'[c] = work
    /\ \A d \in Call \ {c} : adminPc'[d] = adminPc[d] /\ adminJob'[d] = adminJob[d]

CallsKept == adminPc \in [Call -> MStage] /\ adminJob \in [Call -> MJob]

LEMMA MCallsKept == M!TypeOK => CallsKept
  BY DEF M!TypeOK, CallsKept, MStage, MJob

LEMMA MMoves ==
    ASSUME M!TypeOK, NEW c \in Call, NEW stage \in MStage, NEW work \in MJob,
           M!Goto(c, stage, work)
    PROVE  Turns(c, stage, work)
  BY MCallsKept DEF CallsKept, M!Goto, Turns

LEMMA MEnds ==
    ASSUME M!TypeOK, NEW c \in Call, M!End(c)
    PROVE  Turns(c, "idle", M!NoJob)
  BY MMoves, NoJobFits DEF M!End, MStage

-----------------------------------------------------------------------------
(* What each step does to the calls, the members and the invites *)

Quiet == UNCHANGED <<member, role>>
Still == UNCHANGED <<sent, status, to>>
Same == UNCHANGED <<overlapped, invitedTwice, crossed>>

\* A call sets out to change a member.
Sets(c, a, p) ==
    /\ Quiet /\ Still /\ UNCHANGED <<invitedTwice, crossed>>
    /\ adminPc[c] = "idle" /\ Manages(a)
    /\ \E stage \in Changes, r \in M!Role :
        /\ Turns(c, stage, M!On(p, r, 0))
        /\ p # a \/ (stage = "changing" /\ r = "OWNER")
    /\ overlapped' = (overlapped \/ \E d \in Call : adminPc[d] \in Changes)

\* It sets out to invite somebody.
Invites(c, p) ==
    /\ Quiet /\ Still /\ UNCHANGED <<overlapped, crossed>>
    /\ Turns(c, "inviting", M!On(p, "MEMBER", 0))
    /\ adminPc[c] = "idle"
    /\ \A i \in M!Invite : ~(status[i] \in M!Pending /\ to[i] = p)
    /\ invitedTwice \subseteq invitedTwice' /\ invitedTwice' \subseteq Person
    /\ \A d \in Call : adminPc[d] = "inviting" /\ adminJob[d].person = p => p \in invitedTwice'

\* It sets out to work on an invite that is not settled.
Takes(c, i) ==
    /\ Quiet /\ Still /\ UNCHANGED <<overlapped, invitedTwice>>
    /\ adminPc[c] = "idle" /\ i \in 1..sent
    /\ status[i] \notin {"none", "ACCEPTED", "REVOKED"}
    /\ \E stage \in Writes \ {"marking"}, r \in M!Role : Turns(c, stage, M!On(to[i], r, i))
    /\ crossed \subseteq crossed' /\ crossed' \subseteq M!Invite
    /\ \A d \in Call : adminJob[d].invite = i => i \in crossed'

Writing(c, new) ==
    /\ adminPc[c] \in Writes /\ new \in {"REVOKED", "EXPIRED", "ACCEPTED"}
    /\ new = "ACCEPTED" => adminPc[c] = "marking"
    /\ status' = [status EXCEPT ![adminJob[c].invite] = new]
    /\ Turns(c, "idle", M!NoJob)
    /\ Quiet /\ UNCHANGED <<sent, to>> /\ Same

Creates(c) ==
    /\ adminPc[c] = "inviting" /\ sent < MaxInvites /\ sent' = sent + 1
    /\ status' = [status EXCEPT ![sent + 1] = "PENDING"]
    /\ to' = [to EXCEPT ![sent + 1] = adminJob[c].person]
    /\ Turns(c, "idle", M!NoJob) /\ Quiet /\ Same

Changing(c) ==
    /\ \/ /\ adminPc[c] = "changing" /\ UNCHANGED member
          /\ role' = [role EXCEPT ![adminJob[c].person] = adminJob[c].role]
       \/ /\ adminPc[c] = "removing" /\ UNCHANGED role
          /\ member' = [member EXCEPT ![adminJob[c].person] = "inactive"]
    /\ Turns(c, "idle", M!NoJob) /\ Still /\ Same

Finds(c) ==
    /\ adminPc[c] = "accepting" /\ Quiet /\ Still /\ Same
    /\ \/ member[adminJob[c].person] = "active" /\ Turns(c, "marking", adminJob[c])
       \/ Turns(c, "joining", adminJob[c])

Joins(c) ==
    /\ adminPc[c] = "joining" /\ member[adminJob[c].person] = "none"
    /\ member' = [member EXCEPT ![adminJob[c].person] = "active"]
    /\ role' = [role EXCEPT ![adminJob[c].person] = adminJob[c].role]
    /\ Turns(c, "marking", adminJob[c]) /\ Still /\ Same

Leaves(c) == Turns(c, "idle", M!NoJob) /\ Quiet /\ Still /\ Same

\* The invite stays pending, resent or lapsed.
Lingers(i) ==
    /\ status[i] \in M!Pending
    /\ \E new \in M!Pending : status' = [status EXCEPT ![i] = new]
    /\ Quiet /\ UNCHANGED <<sent, to, adminPc, adminJob>> /\ Same

MEffect ==
    \/ \E c \in Call, a, p \in Person : Sets(c, a, p)
    \/ \E c \in Call, p \in Person : Invites(c, p)
    \/ \E c \in Call, i \in M!Invite : Takes(c, i)
    \/ \E c \in Call, new \in {"REVOKED", "EXPIRED", "ACCEPTED"} : Writing(c, new)
    \/ \E c \in Call : Creates(c) \/ Changing(c) \/ Finds(c) \/ Joins(c) \/ Leaves(c)
    \/ \E i \in M!Invite : Lingers(i)

LEMMA MShape == M!TypeOK /\ HoldsInv /\ M!Next => MEffect
  <1> SUFFICES ASSUME M!TypeOK, HoldsInv, M!Next PROVE MEffect
    OBVIOUS
  <1> USE MBounds DEF M!members, M!invites, M!ghosts, Quiet, Still, Same
  <1>0. "MEMBER" \in M!Role /\ 0 \in 0..MaxInvites
    BY DEF M!Role
  <1>1. ASSUME NEW c \in Call, NEW a \in Person, NEW p \in Person, NEW r \in M!Role,
               M!BeginRole(c, a, p, r)
        PROVE  Sets(c, a, p)
    <2>1. Turns(c, "changing", M!On(p, r, 0))
      BY <1>0, <1>1, OnIsAJob, MMoves DEF M!BeginRole, MStage
    <2>2. p # a \/ r = "OWNER"
      BY <1>1 DEF M!BeginRole
    <2> QED
      BY <1>1, <2>1, <2>2 DEF M!BeginRole, M!Admitted, M!BeginChange, Sets, Changes, Manages
  <1>2. ASSUME NEW c \in Call, NEW a \in Person, NEW p \in Person, M!BeginRemove(c, a, p)
        PROVE  Sets(c, a, p)
    <2>1. Turns(c, "removing", M!On(p, "MEMBER", 0))
      BY <1>0, <1>2, OnIsAJob, MMoves DEF M!BeginRemove, MStage
    <2> QED
      BY <1>0, <1>2, <2>1 DEF M!BeginRemove, M!Admitted, M!BeginChange, Sets, Changes, Manages
  <1>3. ASSUME NEW c \in Call, NEW a \in Person, NEW p \in Person, M!BeginInvite(c, a, p)
        PROVE  Invites(c, p)
    <2>1. Turns(c, "inviting", M!On(p, "MEMBER", 0))
      BY <1>0, <1>3, OnIsAJob, MMoves DEF M!BeginInvite, MStage
    <2>2. /\ invitedTwice \subseteq invitedTwice' /\ invitedTwice' \subseteq Person
          /\ \A d \in Call : adminPc[d] = "inviting" /\ adminJob[d].person = p => p \in invitedTwice'
      BY <1>3 DEF M!BeginInvite, M!TypeOK
    <2> QED
      BY <1>3, <2>1, <2>2 DEF M!BeginInvite, M!Admitted, Invites
  <1>4. ASSUME NEW i \in M!Invite, M!Cross(i)
        PROVE  /\ crossed \subseteq crossed' /\ crossed' \subseteq M!Invite
               /\ \A d \in Call : adminJob[d].invite = i => i \in crossed'
    BY <1>4 DEF M!Cross, M!TypeOK
  <1>5. ASSUME NEW c \in Call, NEW a \in Person, NEW i \in M!Invite, M!BeginRevoke(c, a, i)
        PROVE  Takes(c, i)
    <2>1. to[i] \in Person /\ i \in 0..MaxInvites /\ i \in 1..sent
      BY <1>5 DEF M!BeginRevoke, M!TypeOK, M!Invite
    <2>2. Turns(c, "revoking", M!On(to[i], "MEMBER", i))
      BY <1>0, <1>5, <2>1, OnIsAJob, MMoves DEF M!BeginRevoke, MStage
    <2>3. \E stage \in Writes \ {"marking"}, r \in M!Role : Turns(c, stage, M!On(to[i], r, i))
      BY <1>0, <2>2 DEF Writes
    <2>4. status[i] \notin {"none", "ACCEPTED", "REVOKED"}
      BY <1>5 DEF M!BeginRevoke, M!Pending
    <2>5. adminPc[c] = "idle" /\ M!Cross(i) /\ Quiet /\ Still /\ UNCHANGED <<overlapped, invitedTwice>>
      BY <1>5 DEF M!BeginRevoke, M!Admitted
    <2> QED
      BY <2>1, <2>3, <2>4, <2>5, <1>4 DEF Takes
  <1>6. ASSUME NEW c \in Call, NEW i \in M!Invite, M!BeginAccept(c, i)
        PROVE  Takes(c, i)
    <2>1. to[i] \in Person /\ Offered[i] \in M!Role /\ i \in 0..MaxInvites
      BY DEF M!TypeOK, M!Invite
    <2>2. i \in 1..sent
      BY <1>6 DEF M!BeginAccept, M!Pending, HoldsInv, M!TypeOK, M!Invite
    <2>3. \E stage \in Writes \ {"marking"}, r \in M!Role : Turns(c, stage, M!On(to[i], r, i))
      <3>1. PICK stage \in {"expiring", "accepting"} : M!Goto(c, stage, M!On(to[i], Offered[i], i))
        BY <1>6 DEF M!BeginAccept
      <3>2. Turns(c, stage, M!On(to[i], Offered[i], i))
        BY <2>1, <3>1, OnIsAJob, MMoves DEF MStage
      <3> QED
        BY <2>1, <3>2 DEF Writes
    <2>4. status[i] \notin {"none", "ACCEPTED", "REVOKED"}
      BY <1>6 DEF M!BeginAccept, M!Pending
    <2>5. adminPc[c] = "idle" /\ M!Cross(i) /\ Quiet /\ Still /\ UNCHANGED <<overlapped, invitedTwice>>
      BY <1>6 DEF M!BeginAccept
    <2> QED
      BY <2>2, <2>3, <2>4, <2>5, <1>4 DEF Takes
  <1>7. ASSUME NEW i \in M!Invite, NEW a \in Person, M!Resend(a, i)
        PROVE  Lingers(i)
    BY <1>7 DEF M!Resend, Lingers, M!Pending
  <1>8. ASSUME NEW i \in M!Invite, M!PassTerm(i)
        PROVE  Lingers(i)
    BY <1>8 DEF M!PassTerm, Lingers, M!Pending
  <1>9. ASSUME NEW c \in Call, NEW stage, NEW new, M!WriteStatus(c, stage, new),
               <<stage, new>> \in {<<"revoking", "REVOKED">>, <<"expiring", "EXPIRED">>,
                                   <<"marking", "ACCEPTED">>}
        PROVE  Writing(c, new)
    <2>1. Turns(c, "idle", M!NoJob)
      BY <1>9, MEnds DEF M!WriteStatus
    <2> QED
      BY <1>9, <2>1 DEF M!WriteStatus, Writing, Writes
  <1>10. ASSUME NEW c \in Call, M!SetRole(c) \/ M!Remove(c) PROVE Changing(c)
    BY <1>10, MEnds DEF M!SetRole, M!Remove, Changing
  <1>11. ASSUME NEW c \in Call, M!CreateInvite(c) PROVE Creates(c)
    BY <1>11, MEnds DEF M!CreateInvite, Creates
  <1>12. ASSUME NEW c \in Call PROVE adminJob[c] \in MJob
    BY MCallsKept DEF CallsKept
  <1>13. ASSUME NEW c \in Call, M!FindMember(c) PROVE Finds(c)
    <2>1. CASE member[adminJob[c].person] = "active"
      <3>1. Turns(c, "marking", adminJob[c])
        BY <1>13, <2>1, <1>12, MMoves DEF M!FindMember, MStage
      <3> QED
        BY <1>13, <2>1, <3>1 DEF M!FindMember, Finds
    <2>2. CASE member[adminJob[c].person] # "active"
      <3>1. Turns(c, "joining", adminJob[c])
        BY <1>13, <2>2, <1>12, MMoves DEF M!FindMember, MStage
      <3> QED
        BY <1>13, <3>1 DEF M!FindMember, Finds
    <2> QED
      BY <2>1, <2>2
  <1>14. ASSUME NEW c \in Call, M!Join(c) PROVE Joins(c)
    <2>1. Turns(c, "marking", adminJob[c])
      BY <1>14, <1>12, MMoves DEF M!Join, MStage
    <2> QED
      BY <1>14, <2>1 DEF M!Join, Joins
  <1>15. ASSUME NEW c \in Call, M!Abandon(c) PROVE Leaves(c)
    BY <1>15, MEnds DEF M!Abandon, Leaves
  <1>16. CASE \E c \in Call, a, p \in Person :
            \/ \E r \in M!Role : M!BeginRole(c, a, p, r)
            \/ M!BeginRemove(c, a, p)
            \/ p \in Address /\ M!BeginInvite(c, a, p)
    BY <1>16, <1>1, <1>2, <1>3 DEF MEffect
  <1>17. CASE \E a \in Person, i \in M!Invite :
            \/ \E c \in Call : M!BeginRevoke(c, a, i)
            \/ M!Resend(a, i)
    BY <1>17, <1>5, <1>7 DEF MEffect
  <1>18. ASSUME NEW c \in Call,
                \/ M!WriteStatus(c, "revoking", "REVOKED")
                \/ M!WriteStatus(c, "expiring", "EXPIRED")
                \/ M!WriteStatus(c, "marking", "ACCEPTED")
         PROVE  \E new \in {"REVOKED", "EXPIRED", "ACCEPTED"} : Writing(c, new)
    BY <1>18, <1>9
  <1>19. CASE \E c \in Call :
            \/ M!SetRole(c) \/ M!Remove(c) \/ M!CreateInvite(c)
            \/ \E i \in M!Invite : M!BeginAccept(c, i)
            \/ M!FindMember(c) \/ M!Join(c)
            \/ M!WriteStatus(c, "revoking", "REVOKED")
            \/ M!WriteStatus(c, "expiring", "EXPIRED")
            \/ M!WriteStatus(c, "marking", "ACCEPTED")
            \/ M!Abandon(c)
    BY <1>19, <1>6, <1>10, <1>11, <1>13, <1>14, <1>15, <1>18 DEF MEffect
  <1>20. CASE \E i \in M!Invite : M!PassTerm(i)
    BY <1>20, <1>8 DEF MEffect
  <1> QED
    BY <1>16, <1>17, <1>19, <1>20 DEF M!Next

-----------------------------------------------------------------------------
(* The invariant *)

LEMMA MInitial == M!Init => MInv
  <1> SUFFICES ASSUME M!Init PROVE MInv
    OBVIOUS
  <1> USE MBounds, NoJobFits DEF M!Init
  <1>0. "MEMBER" \in M!Role /\ "OWNER" \in M!Role /\ 0 \in 0..MaxInvites
    BY DEF M!Role
  <1>1. adminPc \in [Call -> MStage] /\ adminJob \in [Call -> MJob]
    BY DEF MStage
  <1>2. M!TypeOK
    BY <1>0, <1>1 DEF M!TypeOK, MStage, MJob
  <1>3. Manages(Founder)
    BY DEF Manages
  <1>4. ManagersInv
    BY <1>3 DEF ManagersInv, M!ManagersRemain, Manages, Changes
  <1>5. HoldsInv
    BY DEF HoldsInv, M!AcceptedIsMember, Writes
  <1>6. PendingInv
    BY DEF PendingInv, M!OnePending, M!Pending
  <1>7. SettledInv
    BY DEF SettledInv
  <1> QED
    BY <1>2, <1>4, <1>5, <1>6, <1>7 DEF MInv

LEMMA MTypeStep == MInv /\ M!Next => M!TypeOK'
  <1> SUFFICES ASSUME MInv, MEffect PROVE M!TypeOK'
    BY MShape DEF MInv
  <1> USE MBounds DEF Quiet, Still, Same, Turns
  <1>1. M!TypeOK /\ HoldsInv /\ CallsKept
    BY MCallsKept DEF MInv
  <1> HIDE DEF M!NoJob
  <1>2. ASSUME NEW c \in Call, NEW a \in Person, NEW p \in Person, Sets(c, a, p)
        PROVE  M!TypeOK'
    <2>1. overlapped' \in BOOLEAN /\ adminPc' \in [Call -> MStage] /\ adminJob' \in [Call -> MJob]
      BY <1>2 DEF Sets
    <2> QED
      BY <1>1, <1>2, <2>1 DEF Sets, M!TypeOK, MStage, MJob
  <1>3. ASSUME NEW c \in Call, NEW p \in Person, Invites(c, p)
        PROVE  M!TypeOK'
    BY <1>1, <1>3 DEF Invites, M!TypeOK, MStage, MJob
  <1>4. ASSUME NEW c \in Call, NEW i \in M!Invite, Takes(c, i)
        PROVE  M!TypeOK'
    BY <1>1, <1>4 DEF Takes, M!TypeOK, MStage, MJob
  <1>5. ASSUME NEW c \in Call, NEW new \in {"REVOKED", "EXPIRED", "ACCEPTED"}, Writing(c, new)
        PROVE  M!TypeOK'
    BY <1>1, <1>5 DEF Writing, M!TypeOK, MStage, MJob
  <1>6. ASSUME NEW c \in Call PROVE adminJob[c].person \in Person /\ adminJob[c].role \in M!Role
    BY <1>1 DEF CallsKept, MJob
  <1>7. ASSUME NEW c \in Call, Creates(c) PROVE M!TypeOK'
    <2>1. sent' \in 0..MaxInvites
      BY <1>1, <1>7 DEF Creates, M!TypeOK
    <2>2. to' \in [M!Invite -> Person]
      BY <1>1, <1>6, <1>7 DEF Creates, M!TypeOK
    <2> QED
      BY <1>1, <1>7, <2>1, <2>2 DEF Creates, M!TypeOK, MStage, MJob
  <1>8. ASSUME NEW c \in Call, Changing(c) PROVE M!TypeOK'
    <2>1. role' \in [Person -> M!Role] /\ member' \in [Person -> {"none", "active", "inactive"}]
      BY <1>1, <1>6, <1>8 DEF Changing, M!TypeOK
    <2> QED
      BY <1>1, <1>8, <2>1 DEF Changing, M!TypeOK, MStage, MJob
  <1>9. ASSUME NEW c \in Call, Finds(c) PROVE M!TypeOK'
    BY <1>1, <1>9 DEF Finds, M!TypeOK, MStage, MJob
  <1>10. ASSUME NEW c \in Call, Joins(c) PROVE M!TypeOK'
    <2>1. role' \in [Person -> M!Role] /\ member' \in [Person -> {"none", "active", "inactive"}]
      BY <1>1, <1>6, <1>10 DEF Joins, M!TypeOK
    <2> QED
      BY <1>1, <1>10, <2>1 DEF Joins, M!TypeOK, MStage, MJob
  <1>11. ASSUME NEW c \in Call, Leaves(c) PROVE M!TypeOK'
    BY <1>1, <1>11 DEF Leaves, M!TypeOK, MStage, MJob
  <1>12. ASSUME NEW i \in M!Invite, Lingers(i) PROVE M!TypeOK'
    BY <1>1, <1>12 DEF Lingers, M!TypeOK, M!Pending
  <1> QED
    BY <1>2, <1>3, <1>4, <1>5, <1>7, <1>8, <1>9, <1>10, <1>11, <1>12 DEF MEffect

LEMMA ManagersStep == MInv /\ M!Next => ManagersInv'
  <1> SUFFICES ASSUME MInv, MEffect PROVE ManagersInv'
    BY MShape DEF MInv
  <1>0. M!TypeOK /\ ManagersInv
    BY DEF MInv
  <1> USE DEF Quiet, Still, Same, Turns
  \* No call sets out to change a member, and whoever manages the tenant still does.
  <1>1. ASSUME NEW c \in Call, adminPc'[c] \notin Changes,
               \A d \in Call \ {c} : adminPc'[d] = adminPc[d] /\ adminJob'[d] = adminJob[d],
               overlapped' = overlapped, \A q \in Person : Manages(q) => Manages(q)'
        PROVE  ManagersInv'
    BY <1>0, <1>1 DEF ManagersInv, M!ManagersRemain, Manages
  <1>2. ASSUME Quiet, NEW q PROVE Manages(q)' <=> Manages(q)
    BY <1>2 DEF Manages
  <1>3. ASSUME NEW c \in Call, NEW a \in Person, NEW p \in Person, Sets(c, a, p)
        PROVE  ManagersInv'
    <2>1. PICK stage \in Changes, r \in M!Role :
            /\ Turns(c, stage, M!On(p, r, 0))
            /\ p # a \/ (stage = "changing" /\ r = "OWNER")
      BY <1>3 DEF Sets
    <2>2. M!On(p, r, 0).person = p /\ M!On(p, r, 0).role = r
      BY DEF M!On
    <2>3. Manages(a)' /\ \A q \in Person : Manages(q)' <=> Manages(q)
      BY <1>2, <1>3 DEF Sets
    <2>4. overlapped => overlapped'
      BY <1>3 DEF Sets
    <2>5. \A d \in Call : adminPc[d] \in Changes => overlapped'
      BY <1>3 DEF Sets
    <2>6. M!ManagersRemain'
      BY <2>3 DEF M!ManagersRemain, Manages
    <2>7. \/ adminPc'[c] = "changing" /\ adminJob'[c].role = "OWNER"
          \/ \E q \in Person \ {adminJob'[c].person} : Manages(q)'
      BY <2>1, <2>2, <2>3
    <2>8. ASSUME NEW d \in Call \ {c}
          PROVE  \/ adminPc'[d] \notin Changes \/ overlapped'
                 \/ adminPc'[d] = "changing" /\ adminJob'[d].role = "OWNER"
                 \/ \E q \in Person \ {adminJob'[d].person} : Manages(q)'
      BY <2>1, <2>5
    <2>9. \A d, e \in Call : adminPc'[d] \in Changes /\ adminPc'[e] \in Changes => d = e \/ overlapped'
      BY <1>0, <2>1, <2>4, <2>5 DEF ManagersInv
    <2>10. \A d \in Call : \/ adminPc'[d] \notin Changes \/ overlapped'
                           \/ adminPc'[d] = "changing" /\ adminJob'[d].role = "OWNER"
                           \/ \E q \in Person \ {adminJob'[d].person} : Manages(q)'
      BY <2>7, <2>8
    <2> QED
      BY <2>6, <2>9, <2>10 DEF ManagersInv
  <1>4. ASSUME NEW c \in Call, NEW p \in Person, Invites(c, p)
        PROVE  ManagersInv'
    <2>1. adminPc'[c] \notin Changes
      BY <1>4 DEF Invites, Changes
    <2> QED
      BY <1>1, <1>2, <1>4, <2>1 DEF Invites
  <1>5. ASSUME NEW c \in Call, NEW i \in M!Invite, Takes(c, i)
        PROVE  ManagersInv'
    <2>1. adminPc'[c] \notin Changes
      BY <1>5 DEF Takes, Changes, Writes
    <2>2. \A d \in Call \ {c} : adminPc'[d] = adminPc[d] /\ adminJob'[d] = adminJob[d]
      BY <1>5 DEF Takes
    <2> QED
      BY <1>1, <1>2, <1>5, <2>1, <2>2 DEF Takes
  <1>6. ASSUME NEW c \in Call, NEW new \in {"REVOKED", "EXPIRED", "ACCEPTED"}, Writing(c, new)
        PROVE  ManagersInv'
    <2>1. adminPc'[c] \notin Changes
      BY <1>6 DEF Writing, Changes
    <2> QED
      BY <1>1, <1>2, <1>6, <2>1 DEF Writing
  <1>7. ASSUME NEW c \in Call, Creates(c) PROVE ManagersInv'
    <2>1. adminPc'[c] \notin Changes
      BY <1>7 DEF Creates, Changes
    <2> QED
      BY <1>1, <1>2, <1>7, <2>1 DEF Creates
  \* The only change under way leaves another OWNER, or makes one.
  <1>8. ASSUME NEW c \in Call, Changing(c) PROVE ManagersInv'
    <2>1. adminPc[c] \in Changes /\ adminPc'[c] \notin Changes
      BY <1>8 DEF Changing, Changes
    <2>2. /\ \A d \in Call \ {c} : adminPc'[d] = adminPc[d] /\ adminJob'[d] = adminJob[d]
          /\ overlapped' = overlapped
      BY <1>8 DEF Changing
    <2>3. \A d \in Call \ {c} : adminPc[d] \in Changes => overlapped
      BY <1>0, <2>1 DEF ManagersInv
    <2>4. \A q \in Person \ {adminJob[c].person} : Manages(q) => Manages(q)'
      BY <1>0, <1>8 DEF Changing, Manages, M!TypeOK
    <2>5. M!ManagersRemain'
      <3>1. CASE overlapped
        BY <2>2, <3>1 DEF M!ManagersRemain
      <3>2. CASE adminPc[c] = "changing" /\ adminJob[c].role = "OWNER"
        <4>1. \A q \in Person : Manages(q) => Manages(q)'
          BY <1>0, <1>8, <3>2 DEF Changing, Manages, M!TypeOK
        <4> QED
          BY <1>0, <2>2, <4>1 DEF ManagersInv, M!ManagersRemain, Manages
      <3>3. CASE \E q \in Person \ {adminJob[c].person} : Manages(q)
        BY <2>4, <3>3 DEF M!ManagersRemain, Manages
      <3> QED
        BY <1>0, <2>1, <3>1, <3>2, <3>3 DEF ManagersInv
    <2>6. \A d \in Call : adminPc'[d] \notin Changes \/ overlapped'
      BY <2>1, <2>2, <2>3
    <2> QED
      BY <2>5, <2>6 DEF ManagersInv
  <1>9. ASSUME NEW c \in Call, Finds(c) PROVE ManagersInv'
    <2>1. adminPc'[c] \notin Changes
      BY <1>9 DEF Finds, Changes
    <2>2. \A d \in Call \ {c} : adminPc'[d] = adminPc[d] /\ adminJob'[d] = adminJob[d]
      BY <1>9 DEF Finds
    <2> QED
      BY <1>1, <1>2, <1>9, <2>1, <2>2 DEF Finds
  \* Who joins was no member, so manages nothing that could be lost.
  <1>10. ASSUME NEW c \in Call, Joins(c) PROVE ManagersInv'
    <2>1. adminPc'[c] \notin Changes
      BY <1>10 DEF Joins, Changes
    <2>2. \A q \in Person : Manages(q) => Manages(q)'
      BY <1>0, <1>10 DEF Joins, Manages, M!TypeOK
    <2> QED
      BY <1>1, <1>10, <2>1, <2>2 DEF Joins
  <1>11. ASSUME NEW c \in Call, Leaves(c) PROVE ManagersInv'
    <2>1. adminPc'[c] \notin Changes
      BY <1>11 DEF Leaves, Changes
    <2> QED
      BY <1>1, <1>2, <1>11, <2>1 DEF Leaves
  <1>12. ASSUME NEW i \in M!Invite, Lingers(i) PROVE ManagersInv'
    BY <1>0, <1>12 DEF Lingers, ManagersInv, M!ManagersRemain, Manages
  <1> QED
    BY <1>3, <1>4, <1>5, <1>6, <1>7, <1>8, <1>9, <1>10, <1>11, <1>12 DEF MEffect

LEMMA HoldsStep == MInv /\ M!Next => HoldsInv'
  <1> SUFFICES ASSUME MInv, MEffect PROVE HoldsInv'
    BY MShape DEF MInv
  <1>0. M!TypeOK /\ HoldsInv /\ sent \in Nat
    BY DEF MInv, M!TypeOK
  <1> USE DEF Quiet, Still, Same, Turns
  \* A call that takes nothing up, when no invite changes and nobody stops being a member.
  <1>1. ASSUME NEW c \in Call, adminPc'[c] \notin Writes, adminJob'[c].invite = 0,
               \A d \in Call \ {c} : adminPc'[d] = adminPc[d] /\ adminJob'[d] = adminJob[d],
               Still, \A p \in Person : member[p] # "none" => member'[p] # "none"
        PROVE  HoldsInv'
    BY <1>0, <1>1 DEF HoldsInv, M!AcceptedIsMember, M!TypeOK, Writes
  <1>2. ASSUME NEW c \in Call, Turns(c, "idle", M!NoJob)
        PROVE  adminPc'[c] \notin Writes /\ adminJob'[c].invite = 0
    BY <1>2, NoJobFits DEF Writes
  <1>3. ASSUME NEW c \in Call, NEW a \in Person, NEW p \in Person, Sets(c, a, p)
        PROVE  HoldsInv'
    <2>1. adminPc'[c] \notin Writes /\ adminJob'[c].invite = 0
      BY <1>3 DEF Sets, Changes, Writes, M!On
    <2>2. \A d \in Call \ {c} : adminPc'[d] = adminPc[d] /\ adminJob'[d] = adminJob[d]
      BY <1>3 DEF Sets
    <2> QED
      BY <1>1, <1>3, <2>1, <2>2 DEF Sets
  <1>4. ASSUME NEW c \in Call, NEW p \in Person, Invites(c, p)
        PROVE  HoldsInv'
    <2>1. adminPc'[c] \notin Writes /\ adminJob'[c].invite = 0
      BY <1>4 DEF Invites, Writes, M!On
    <2> QED
      BY <1>1, <1>4, <2>1 DEF Invites
  <1>5. ASSUME NEW c \in Call, NEW i \in M!Invite, Takes(c, i)
        PROVE  HoldsInv'
    <2>1. /\ adminPc'[c] \in Writes \ {"marking"}
          /\ adminJob'[c].invite = i /\ adminJob'[c].person = to[i] /\ i \in 1..sent
      BY <1>5 DEF Takes, M!On
    <2>2. \A d \in Call \ {c} : adminPc'[d] = adminPc[d] /\ adminJob'[d] = adminJob[d]
      BY <1>5 DEF Takes
    <2>3. Quiet /\ Still
      BY <1>5 DEF Takes
    <2> QED
      BY <1>0, <2>1, <2>2, <2>3 DEF HoldsInv, M!AcceptedIsMember
  <1>6. ASSUME NEW c \in Call, NEW new \in {"REVOKED", "EXPIRED", "ACCEPTED"}, Writing(c, new)
        PROVE  HoldsInv'
    <2> DEFINE i == adminJob[c].invite
    <2>1. i \in 1..sent /\ i \in M!Invite /\ adminJob[c].person = to[i]
      BY <1>0, <1>6, MBounds DEF Writing, HoldsInv, M!TypeOK, M!Invite
    <2>2. new = "ACCEPTED" => member[to[i]] # "none"
      BY <1>0, <1>6, <2>1 DEF Writing, HoldsInv
    <2>3. adminPc'[c] \notin Writes /\ adminJob'[c].invite = 0
      BY <1>2, <1>6 DEF Writing
    <2>4. /\ status'[i] = new
          /\ \A j \in M!Invite \ {i} : status'[j] = status[j]
      BY <1>0, <1>6, <2>1 DEF Writing, M!TypeOK
    <2>5. /\ Quiet /\ UNCHANGED <<sent, to>>
          /\ \A d \in Call \ {c} : adminPc'[d] = adminPc[d] /\ adminJob'[d] = adminJob[d]
      BY <1>6 DEF Writing
    <2>6. \A j \in M!Invite : j > sent => status'[j] = "none"
      BY <1>0, <2>1, <2>4 DEF HoldsInv
    <2>7. M!AcceptedIsMember'
      BY <1>0, <2>2, <2>4, <2>5 DEF HoldsInv, M!AcceptedIsMember
    <2> HIDE DEF i
    <2> QED
      BY <1>0, <2>3, <2>5, <2>6, <2>7 DEF HoldsInv, Writes
  <1>7. ASSUME NEW c \in Call, Creates(c) PROVE HoldsInv'
    <2>1. adminPc'[c] \notin Writes /\ adminJob'[c].invite = 0
      BY <1>2, <1>7 DEF Creates
    <2>2. /\ sent' = sent + 1 /\ Quiet /\ sent + 1 \in M!Invite
          /\ \A d \in Call \ {c} : adminPc'[d] = adminPc[d] /\ adminJob'[d] = adminJob[d]
      BY <1>0, <1>7, MBounds DEF Creates, M!Invite
    <2>3. /\ status'[sent + 1] = "PENDING"
          /\ \A j \in M!Invite \ {sent + 1} : status'[j] = status[j] /\ to'[j] = to[j]
      BY <1>0, <1>7, <2>2 DEF Creates, M!TypeOK
    <2>4. M!AcceptedIsMember'
      BY <1>0, <2>2, <2>3 DEF HoldsInv, M!AcceptedIsMember
    <2>5. \A j \in M!Invite : j > sent' => status'[j] = "none"
      BY <1>0, <2>2, <2>3 DEF HoldsInv, M!Invite
    <2>6. \A j \in 1..sent : j \in 1..sent' /\ to'[j] = to[j]
      BY <1>0, <2>2, <2>3, MBounds DEF M!TypeOK, M!Invite
    <2>7. ASSUME NEW d \in Call \ {c}
          PROVE  /\ adminPc'[d] \in Writes => /\ adminJob'[d].invite \in 1..sent'
                                              /\ adminJob'[d].person = to'[adminJob'[d].invite]
                 /\ adminPc'[d] \notin Writes => adminJob'[d].invite = 0
                 /\ adminPc'[d] = "marking" => member'[adminJob'[d].person] # "none"
      BY <1>0, <2>2, <2>6 DEF HoldsInv
    <2>8. adminPc'[c] # "marking"
      BY <2>1 DEF Writes
    <2> QED
      BY <2>1, <2>4, <2>5, <2>7, <2>8 DEF HoldsInv
  <1>8. ASSUME NEW c \in Call, Changing(c) PROVE HoldsInv'
    <2>1. adminPc'[c] \notin Writes /\ adminJob'[c].invite = 0
      BY <1>2, <1>8 DEF Changing
    <2>2. \A p \in Person : member[p] # "none" => member'[p] # "none"
      BY <1>0, <1>8 DEF Changing, M!TypeOK
    <2> QED
      BY <1>1, <1>8, <2>1, <2>2 DEF Changing
  <1>9. ASSUME NEW c \in Call, Finds(c) PROVE HoldsInv'
    <2>1. /\ adminPc[c] \in Writes /\ adminPc'[c] \in {"marking", "joining"}
          /\ adminPc'[c] \in Writes /\ adminJob'[c] = adminJob[c]
          /\ adminPc'[c] = "marking" => member[adminJob[c].person] # "none"
      BY <1>9 DEF Finds, Writes
    <2>2. \A d \in Call \ {c} : adminPc'[d] = adminPc[d] /\ adminJob'[d] = adminJob[d]
      BY <1>9 DEF Finds
    <2>3. Quiet /\ Still
      BY <1>9 DEF Finds
    <2> QED
      BY <1>0, <2>1, <2>2, <2>3 DEF HoldsInv, M!AcceptedIsMember
  <1>10. ASSUME NEW c \in Call, Joins(c) PROVE HoldsInv'
    <2>1. adminJob[c].person \in Person
      BY <1>0, MCallsKept DEF CallsKept, MJob
    <2>2. \A p \in Person : member[p] # "none" => member'[p] # "none"
      BY <1>0, <1>10 DEF Joins, M!TypeOK
    <2>3. member'[adminJob[c].person] # "none"
      BY <1>0, <1>10, <2>1 DEF Joins, M!TypeOK
    <2>4. adminPc[c] \in Writes /\ adminPc'[c] \in Writes /\ adminJob'[c] = adminJob[c]
      BY <1>10 DEF Joins, Writes
    <2>5. \A d \in Call : adminPc'[d] = "marking" => member'[adminJob'[d].person] # "none"
      BY <1>0, <1>10, <2>2, <2>3, <2>4, MCallsKept DEF Joins, HoldsInv, CallsKept, MJob
    <2>6. M!AcceptedIsMember'
      BY <1>0, <1>10, <2>2 DEF Joins, HoldsInv, M!AcceptedIsMember, M!TypeOK
    <2> QED
      BY <1>0, <1>10, <2>4, <2>5, <2>6 DEF HoldsInv, Joins
  <1>11. ASSUME NEW c \in Call, Leaves(c) PROVE HoldsInv'
    BY <1>1, <1>2, <1>11 DEF Leaves
  <1>12. ASSUME NEW i \in M!Invite, Lingers(i) PROVE HoldsInv'
    BY <1>0, <1>12 DEF Lingers, HoldsInv, M!AcceptedIsMember, M!Pending, M!TypeOK
  <1> QED
    BY <1>3, <1>4, <1>5, <1>6, <1>7, <1>8, <1>9, <1>10, <1>11, <1>12 DEF MEffect

LEMMA PendingStep == MInv /\ M!Next => PendingInv'
  <1> SUFFICES ASSUME MInv, MEffect PROVE PendingInv'
    BY MShape DEF MInv
  <1>0. M!TypeOK /\ PendingInv /\ HoldsInv /\ CallsKept
    BY MCallsKept DEF MInv
  <1> USE DEF Quiet, Still, Same, Turns
  \* No call sets out to invite, and no invite becomes pending.
  <1>1. ASSUME NEW c \in Call, adminPc'[c] # "inviting",
               \A d \in Call \ {c} : adminPc'[d] = adminPc[d] /\ adminJob'[d] = adminJob[d],
               UNCHANGED <<to, invitedTwice>>,
               \A i \in M!Invite : status'[i] \in M!Pending => status[i] \in M!Pending
        PROVE  PendingInv'
    BY <1>0, <1>1 DEF PendingInv, M!OnePending
  <1>2. ASSUME NEW c \in Call, NEW a \in Person, NEW p \in Person, Sets(c, a, p)
        PROVE  PendingInv'
    <2>1. adminPc'[c] # "inviting"
      BY <1>2 DEF Sets, Changes
    <2>2. \A d \in Call \ {c} : adminPc'[d] = adminPc[d] /\ adminJob'[d] = adminJob[d]
      BY <1>2 DEF Sets
    <2> QED
      BY <1>1, <1>2, <2>1, <2>2 DEF Sets
  <1>3. ASSUME NEW c \in Call, NEW p \in Person, Invites(c, p)
        PROVE  PendingInv'
    <2>1. /\ adminJob'[c].person = p
          /\ \A d \in Call \ {c} : adminPc'[d] = adminPc[d] /\ adminJob'[d] = adminJob[d]
      BY <1>3 DEF Invites, M!On
    <2>2. /\ Still /\ invitedTwice \subseteq invitedTwice'
          /\ \A i \in M!Invite : ~(status[i] \in M!Pending /\ to[i] = p)
          /\ \A d \in Call : adminPc[d] = "inviting" /\ adminJob[d].person = p => p \in invitedTwice'
      BY <1>3 DEF Invites
    <2>3. M!OnePending'
      BY <1>0, <2>2 DEF PendingInv, M!OnePending
    <2> QED
      BY <1>0, <2>1, <2>2, <2>3 DEF PendingInv
  <1>4. ASSUME NEW c \in Call, NEW i \in M!Invite, Takes(c, i)
        PROVE  PendingInv'
    <2>1. adminPc'[c] # "inviting"
      BY <1>4 DEF Takes, Writes
    <2>2. \A d \in Call \ {c} : adminPc'[d] = adminPc[d] /\ adminJob'[d] = adminJob[d]
      BY <1>4 DEF Takes
    <2> QED
      BY <1>1, <1>4, <2>1, <2>2 DEF Takes
  <1>5. ASSUME NEW c \in Call, NEW new \in {"REVOKED", "EXPIRED", "ACCEPTED"}, Writing(c, new)
        PROVE  PendingInv'
    <2>1. \A j \in M!Invite : status'[j] \in M!Pending => status[j] \in M!Pending
      BY <1>0, <1>5 DEF Writing, M!TypeOK, M!Pending
    <2> QED
      BY <1>1, <1>5, <2>1 DEF Writing
  \* The new invite's person has no other, or two are being made.
  <1>6. ASSUME NEW c \in Call, Creates(c) PROVE PendingInv'
    <2> DEFINE p == adminJob[c].person
    <2>1. sent \in Nat /\ sent + 1 \in M!Invite /\ p \in Person
      BY <1>0, <1>6, MBounds DEF Creates, M!Invite, M!TypeOK, CallsKept, MJob
    <2>2. /\ status'[sent + 1] = "PENDING" /\ to'[sent + 1] = p
          /\ \A j \in M!Invite \ {sent + 1} : status'[j] = status[j] /\ to'[j] = to[j]
      BY <1>0, <1>6, <2>1 DEF Creates, M!TypeOK
    <2>3. /\ adminPc[c] = "inviting" /\ adminPc'[c] = "idle" /\ invitedTwice' = invitedTwice
          /\ \A d \in Call \ {c} : adminPc'[d] = adminPc[d] /\ adminJob'[d] = adminJob[d]
      BY <1>6 DEF Creates
    <2>4. \A j \in M!Invite : status[j] \in M!Pending /\ to[j] = p => p \in invitedTwice
      BY <1>0, <2>3 DEF PendingInv
    <2>5. \A d \in Call \ {c} : adminPc[d] = "inviting" /\ adminJob[d].person = p => p \in invitedTwice
      BY <1>0, <2>3 DEF PendingInv
    <2> HIDE DEF p
    <2>6. M!OnePending'
      BY <1>0, <2>2, <2>3, <2>4 DEF PendingInv, M!OnePending
    <2>7. ASSUME NEW d \in Call, NEW i \in M!Invite,
                 adminPc'[d] = "inviting", status'[i] \in M!Pending, to'[i] = adminJob'[d].person
          PROVE  to'[i] \in invitedTwice'
      <3>1. d # c /\ adminPc[d] = "inviting" /\ adminJob'[d] = adminJob[d]
        BY <2>3, <2>7
      <3>2. CASE i = sent + 1
        BY <2>2, <2>3, <2>5, <2>7, <3>1, <3>2
      <3>3. CASE i # sent + 1
        BY <1>0, <2>2, <2>3, <2>7, <3>1, <3>3 DEF PendingInv
      <3> QED
        BY <3>2, <3>3
    <2> QED
      BY <1>0, <2>3, <2>6, <2>7 DEF PendingInv
  <1>7. ASSUME NEW c \in Call, Changing(c) PROVE PendingInv'
    BY <1>1, <1>7 DEF Changing
  <1>8. ASSUME NEW c \in Call, Finds(c) PROVE PendingInv'
    <2>1. /\ adminPc'[c] # "inviting"
          /\ \A d \in Call \ {c} : adminPc'[d] = adminPc[d] /\ adminJob'[d] = adminJob[d]
      BY <1>8 DEF Finds
    <2> QED
      BY <1>1, <1>8, <2>1 DEF Finds
  <1>9. ASSUME NEW c \in Call, Joins(c) PROVE PendingInv'
    BY <1>1, <1>9 DEF Joins
  <1>10. ASSUME NEW c \in Call, Leaves(c) PROVE PendingInv'
    BY <1>1, <1>10 DEF Leaves
  <1>11. ASSUME NEW i \in M!Invite, Lingers(i) PROVE PendingInv'
    <2>1. /\ \A j \in M!Invite : status'[j] \in M!Pending => status[j] \in M!Pending
          /\ UNCHANGED <<to, adminPc, adminJob, invitedTwice>>
      BY <1>0, <1>11 DEF Lingers, M!TypeOK
    <2> QED
      BY <1>0, <2>1 DEF PendingInv, M!OnePending
  <1> QED
    BY <1>2, <1>3, <1>4, <1>5, <1>6, <1>7, <1>8, <1>9, <1>10, <1>11 DEF MEffect

\* A call that works on an invite alone finds it as it was, so settles what is open.
LEMMA SettledStep ==
    ASSUME MInv, M!Next
    PROVE  /\ SettledInv'
           /\ \A i \in M!Invite \ crossed :
                status[i] \in {"ACCEPTED", "REVOKED"} => status'[i] = status[i]
           /\ \A p \in Person : member[p] = "inactive" => member'[p] = "inactive"
  <1> DEFINE Stays == /\ \A i \in M!Invite \ crossed :
                            status[i] \in {"ACCEPTED", "REVOKED"} => status'[i] = status[i]
                      /\ \A p \in Person : member[p] = "inactive" => member'[p] = "inactive"
  <1>0. M!TypeOK /\ SettledInv /\ HoldsInv /\ CallsKept /\ sent \in Nat
    BY MCallsKept DEF MInv, M!TypeOK
  <1> SUFFICES ASSUME MEffect PROVE SettledInv' /\ Stays
    BY MShape DEF MInv
  <1> USE DEF Quiet, Still, Same, Turns
  \* A call takes nothing up, or goes on with what it holds.
  <1>1. ASSUME NEW c \in Call, adminJob'[c].invite \in {0, adminJob[c].invite},
               \A d \in Call \ {c} : adminJob'[d] = adminJob[d],
               UNCHANGED <<status, crossed>>
        PROVE  SettledInv'
    <2>1. \A d \in Call : adminJob'[d].invite \in {0, adminJob[d].invite}
      BY <1>1
    <2> QED
      BY <1>0, <1>1, <2>1 DEF SettledInv
  <1>2. M!NoJob.invite = 0
    BY NoJobFits
  <1>3. ASSUME NEW c \in Call, NEW a \in Person, NEW p \in Person, Sets(c, a, p)
        PROVE  SettledInv' /\ Stays
    <2>1. adminJob'[c].invite = 0 /\ \A d \in Call \ {c} : adminJob'[d] = adminJob[d]
      BY <1>3 DEF Sets, M!On
    <2> QED
      BY <1>1, <1>3, <2>1 DEF Sets
  <1>4. ASSUME NEW c \in Call, NEW p \in Person, Invites(c, p)
        PROVE  SettledInv' /\ Stays
    <2>1. adminJob'[c].invite = 0
      BY <1>4 DEF Invites, M!On
    <2> QED
      BY <1>1, <1>4, <2>1 DEF Invites
  <1>5. ASSUME NEW c \in Call, NEW i \in M!Invite, Takes(c, i)
        PROVE  SettledInv' /\ Stays
    <2>1. /\ adminJob'[c].invite = i
          /\ \A d \in Call \ {c} : adminJob'[d] = adminJob[d]
      BY <1>5 DEF Takes, M!On
    <2>2. /\ Quiet /\ Still /\ crossed \subseteq crossed'
          /\ status[i] \notin {"ACCEPTED", "REVOKED"}
          /\ \A d \in Call : adminJob[d].invite = i => i \in crossed'
      BY <1>5 DEF Takes
    <2> QED
      BY <1>0, <2>1, <2>2 DEF SettledInv
  <1>6. ASSUME NEW c \in Call, NEW new \in {"REVOKED", "EXPIRED", "ACCEPTED"}, Writing(c, new)
        PROVE  SettledInv' /\ Stays
    <2> DEFINE i == adminJob[c].invite
    <2>1. i \in M!Invite /\ i # 0
      BY <1>0, <1>6, MBounds DEF Writing, HoldsInv, M!TypeOK, M!Invite
    <2>2. /\ \A j \in M!Invite \ {i} : status'[j] = status[j]
          /\ adminJob'[c].invite = 0 /\ \A d \in Call \ {c} : adminJob'[d] = adminJob[d]
          /\ crossed' = crossed /\ member' = member
      BY <1>0, <1>2, <1>6 DEF Writing, M!TypeOK
    <2>3. \A d \in Call \ {c} : adminJob[d].invite = i => i \in crossed
      BY <1>0, <2>1 DEF SettledInv
    <2>4. i \in crossed \/ status[i] \notin {"ACCEPTED", "REVOKED"}
      BY <1>0, <2>1 DEF SettledInv
    <2>5. ASSUME NEW d \in Call, adminJob'[d].invite # 0
          PROVE  \/ adminJob'[d].invite \in crossed'
                 \/ status'[adminJob'[d].invite] \notin {"ACCEPTED", "REVOKED"}
      <3>1. d # c /\ adminJob'[d] = adminJob[d]
        BY <2>2, <2>5
      <3>2. adminJob[d].invite \in M!Invite
        BY <1>0, <2>5, <3>1, MBounds DEF CallsKept, MJob, M!Invite
      <3>3. CASE adminJob[d].invite = i
        BY <2>2, <2>3, <3>1, <3>3
      <3>4. CASE adminJob[d].invite # i
        BY <1>0, <2>2, <2>5, <3>1, <3>2, <3>4 DEF SettledInv
      <3> QED
        BY <3>3, <3>4
    <2> HIDE DEF i
    <2>6. SettledInv'
      BY <1>0, <2>2, <2>5 DEF SettledInv
    <2> QED
      BY <2>1, <2>2, <2>4, <2>6
  <1>7. ASSUME NEW c \in Call, Creates(c) PROVE SettledInv' /\ Stays
    <2>1. status[sent + 1] = "none" /\ sent + 1 \in M!Invite
      BY <1>0, <1>7, MBounds DEF Creates, HoldsInv, M!Invite
    <2>2. /\ status'[sent + 1] = "PENDING"
          /\ \A j \in M!Invite \ {sent + 1} : status'[j] = status[j]
          /\ adminJob'[c].invite = 0 /\ \A d \in Call \ {c} : adminJob'[d] = adminJob[d]
          /\ crossed' = crossed /\ member' = member
      BY <1>0, <1>2, <1>7, <2>1 DEF Creates, M!TypeOK
    <2>3. \A d \in Call : adminJob[d].invite # 0 => adminJob[d].invite \in M!Invite
      BY <1>0, MBounds DEF CallsKept, MJob, M!Invite
    <2>4. SettledInv'
      BY <1>0, <2>2, <2>3 DEF SettledInv
    <2> QED
      BY <2>1, <2>2, <2>4
  <1>8. ASSUME NEW c \in Call, Changing(c) PROVE SettledInv' /\ Stays
    <2>1. SettledInv'
      BY <1>1, <1>2, <1>8 DEF Changing
    <2>2. \A p \in Person : member[p] = "inactive" => member'[p] = "inactive"
      BY <1>0, <1>8 DEF Changing, M!TypeOK
    <2> QED
      BY <1>8, <2>1, <2>2 DEF Changing
  <1>9. ASSUME NEW c \in Call, Finds(c) PROVE SettledInv' /\ Stays
    <2>1. adminJob'[c] = adminJob[c] /\ \A d \in Call \ {c} : adminJob'[d] = adminJob[d]
      BY <1>9 DEF Finds
    <2> QED
      BY <1>1, <1>9, <2>1 DEF Finds
  <1>10. ASSUME NEW c \in Call, Joins(c) PROVE SettledInv' /\ Stays
    <2>1. SettledInv'
      BY <1>1, <1>10 DEF Joins
    <2>2. \A p \in Person : member[p] = "inactive" => member'[p] = "inactive"
      BY <1>0, <1>10 DEF Joins, M!TypeOK
    <2> QED
      BY <1>10, <2>1, <2>2 DEF Joins
  <1>11. ASSUME NEW c \in Call, Leaves(c) PROVE SettledInv' /\ Stays
    BY <1>1, <1>2, <1>11 DEF Leaves
  <1>12. ASSUME NEW i \in M!Invite, Lingers(i) PROVE SettledInv' /\ Stays
    <2>1. /\ \A j \in M!Invite : /\ status'[j] # status[j] => status[j] \in M!Pending
                                 /\ status'[j] # status[j] => status'[j] \in M!Pending
          /\ UNCHANGED <<adminJob, crossed, member>>
      BY <1>0, <1>12 DEF Lingers, M!TypeOK
    <2>2. \A d \in Call : adminJob[d].invite # 0 => adminJob[d].invite \in M!Invite
      BY <1>0, MBounds DEF CallsKept, MJob, M!Invite
    <2> QED
      BY <1>0, <2>1, <2>2 DEF SettledInv, M!Pending
  <1> QED
    BY <1>3, <1>4, <1>5, <1>6, <1>7, <1>8, <1>9, <1>10, <1>11, <1>12 DEF MEffect

LEMMA MStutters == MInv /\ UNCHANGED M!vars => MInv'
  <1> SUFFICES ASSUME MInv, UNCHANGED M!vars PROVE MInv'
    OBVIOUS
  <1> USE DEF M!vars, M!members, M!invites, M!ghosts, MInv
  <1>1. M!TypeOK'
    BY DEF M!TypeOK
  <1>2. ManagersInv'
    BY DEF ManagersInv, M!ManagersRemain, Manages
  <1>3. HoldsInv'
    BY DEF HoldsInv, M!AcceptedIsMember
  <1>4. PendingInv'
    BY DEF PendingInv, M!OnePending
  <1>5. SettledInv'
    BY DEF SettledInv
  <1> QED
    BY <1>1, <1>2, <1>3, <1>4, <1>5

LEMMA MPreserved == MInv /\ [M!Next]_M!vars => MInv'
  <1>1. MInv /\ M!Next => MInv'
    BY MTypeStep, ManagersStep, HoldsStep, PendingStep, SettledStep DEF MInv
  <1> QED
    BY <1>1, MStutters

LEMMA MInvariant == M!Spec => []MInv
  BY MInitial, MPreserved, PTL DEF M!Spec

LEMMA MStays == M!Spec => M!SettledStays
  <1> DEFINE Stays == /\ \A i \in M!Invite \ crossed :
                            status[i] \in {"ACCEPTED", "REVOKED"} => status'[i] = status[i]
                      /\ \A p \in Person : member[p] = "inactive" => member'[p] = "inactive"
  <1>1. MInv /\ [M!Next]_M!vars => [Stays]_M!vars
    BY SettledStep
  <1>2. M!SettledStays <=> [][Stays]_M!vars
    BY DEF M!SettledStays
  <1> HIDE DEF Stays
  <1> QED
    BY <1>1, <1>2, MInvariant, PTL DEF M!Spec

-----------------------------------------------------------------------------
(* The three side by side *)

\* In each behaviour of MCSpec one of the three modules moves and the others stay in
\* their initial states: it is a behaviour of all three.
THEOREM SideBySide == MCSpec => Spec /\ F!Spec /\ M!Spec
  <1>1. MCInit => Init /\ F!Init /\ M!Init
    BY DEF MCInit
  <1>2. [MCNext]_<<part, sessionsVars, factorVars, memberVars>> =>
            [Next]_vars /\ [F!Next]_F!vars /\ [M!Next]_M!vars
    BY DEF MCNext, sessionsVars, factorVars, memberVars, vars, sessionVars, resetVars,
       F!vars, F!rows, F!ghosts, M!vars, M!members, M!invites, M!ghosts
  <1> QED
    BY <1>1, <1>2, PTL DEF MCSpec, Spec, F!Spec, M!Spec

\* A password reset token and a recovery code are honoured once, unless two requests
\* had found them unused before either used them (confirmPasswordReset, verifyChallenge).
THEOREM UsedOnceHolds == MCSpec => []UsedOnce
  <1>1. IInv /\ ResetInv /\ FInv /\ MInv => UsedOnce
    BY DEF IInv, ResetInv, FInv, CodeInv, MInv, UsedOnce, MCTypeOK
  <1> QED
    BY <1>1, SideBySide, Invariant, ResetInvariant, FInvariant, MInvariant, PTL

\* MFA is enabled only with a secret that its user has shown a code of, and with
\* recovery codes, unless a set-up overlapped an activation (setup, verifyAndActivate).
THEOREM EnabledHolds == MCSpec => []EnabledIsProven
  <1>1. FInv => EnabledIsProven
    BY DEF FInv, FactorInv, EnabledIsProven
  <1> QED
    BY <1>1, SideBySide, FInvariant, PTL

\* A tenant keeps somebody who can manage it, unless two changes overlapped; an accepted
\* invite has made a member; an address has one invite that is pending, unless two were
\* created at once (tenants.service, invite.service).
THEOREM MembersAreSound == MCSpec => []MembersHold
  <1>1. MInv => MembersHold
    BY DEF MInv, ManagersInv, HoldsInv, PendingInv, MembersHold
  <1> QED
    BY <1>1, SideBySide, MInvariant, PTL

\* An accepted or revoked invite that no two calls worked on at once stays so, and who
\* has been removed stays removed (accept, revoke, removeMember).
THEOREM SettledIsKept == MCSpec => SettledStays
  BY SideBySide, MStays, PTL DEF SettledStays

=============================================================================
